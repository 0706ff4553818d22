SPECIFICATION UsersSpec
CONSTANTS
  Object = {a, b}
  NoObject = none
  NoClient = nobody
  Client = {c1, c2}
  MaxSize = 3
  MutexIdLast = 2
  PipelineSize = 2
  MaxObjects = 2
  MayTerminate = {"print"}
  EarlyTerminate = FALSE
INVARIANTS
  CountersStayInRange
PROPERTIES
  ImplementsFifo
  PrintEnds
CHECK_DEADLOCK FALSE
