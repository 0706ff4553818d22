SPECIFICATION Spec
CONSTANTS
  Signal <- MCSignal
  Slot <- MCSlot
  SignalOf <- MCSignalOf
  Forward <- MCForward
  Interval <- MCInterval
  Nil = "nil"
  ClockRange = 4
INVARIANTS
  AllSlotsHeard
