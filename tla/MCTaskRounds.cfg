SPECIFICATION FairSpec
CONSTANTS
  Task = {steady, eager}
  Eager = {eager}
  NoTask = none
  Interval <- MCInterval
  Priority <- MCPriority
  ClockRange = 5
  MaxRound = 1
INVARIANTS
  SleepsOverNoReadyTask
PROPERTIES
  ReadyTasksRun
