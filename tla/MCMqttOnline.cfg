SPECIFICATION FairSpec
CONSTANTS
  Text = {"answer", "command"}
  Welcome = "welcome"
  TxSize = 2
  RxSize = 1
  MaxSent = 6
  MaxOthers = 3
  MaxForeign = 1
  MaxLosses = 2
INVARIANTS
  SentOnce
  
  LossIsNoticed
PROPERTIES
  BackOnline
CHECK_DEADLOCK FALSE
