SPECIFICATION FairSpec
CONSTANTS
  RequestTime = 1
  PollTime = 1
  WaitTime = 6
  BufferSize = 2
  CommandFile <- MCCommandFile
  ReportFile <- MCReportFile
  MaxMissed = 1
  ExecTime = 8
  MaxMessages = 2
INVARIANTS
  AnswerBelongs
  AnswerGoesToAsker
PROPERTIES
  BackToIdle
  ReportCompletes
