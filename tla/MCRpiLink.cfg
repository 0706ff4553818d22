SPECIFICATION FairLinkSpec
CONSTANTS
  RequestTime = 1
  PollTime = 1
  WaitTime = 11
  BufferSize = 1
  SleepTime = 3
  AnswerSize = 3
  HandlerSize = 1
  PowerTime = 1
  TransmitTime = 1
  ProcessTime = 2
  CoproPollTime = 1
  Kinds = {"local", "refused", "routed"}
  MaxStall = 1
  MaxCommands = 3
INVARIANTS
  AnswersBelong
  NothingLeftBehind
PROPERTIES
  ImplementsRemoteCall
  ClientRests
CHECK_DEADLOCK FALSE
