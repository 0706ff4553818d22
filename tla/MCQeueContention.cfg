SPECIFICATION Spec
CONSTANTS
  Object = {a, b}
  NoObject = none
  NoClient = nobody
  Client = {c1, c2}
  MaxSize = 1
  MutexIdLast = 2
PROPERTIES
  ReleaseUnlocks
