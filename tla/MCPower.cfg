SPECIFICATION FairSpec
CONSTANTS
  Client = {c1, c2, c3}
  MaxRequests = 3
  PowerUpTime = 2
  PowerDownTime = 3
  ScheduleInterval = 2
INVARIANTS
  PoweredWhileWanted
  ToldOnIsSettled
PROPERTIES
  ToldOnStaysOn
  OffWhenForgotten
  ReadyInTheEnd
