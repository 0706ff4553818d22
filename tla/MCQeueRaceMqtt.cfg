SPECIFICATION Spec
CONSTANTS
  MaxSize = 2
  MaxSent = 4
  MutexIdLast = 3
  Locking = FALSE
  Preemptive = TRUE
PROPERTIES
  NextInLine
CHECK_DEADLOCK FALSE
