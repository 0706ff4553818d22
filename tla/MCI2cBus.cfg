SPECIFICATION FairSpec
CONSTANTS
  Boards <- MCBoards
  NoTask = none
  Fault = {"nack", "error"}
  Last <- MCLast
  MutexIdLast = 2
  RxBufferSize = 8
INVARIANTS
  FreeMeansReady
  
PROPERTIES
  OnlyHolderDrives
  BusComesBack
