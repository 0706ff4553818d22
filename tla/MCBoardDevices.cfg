SPECIFICATION Spec
CONSTANTS
  TopKey = {k1}
  BottomKey = {k2}
  LcdFifoDepth = 3
  LcdChars = 2
  MaxKeyMoves = 4
  IrQueueSize = 2
  MaxIrCommands = 3
  RingSize = 2
  MaxRingBytes = 6
  Output = {o1, o2}
  Button = {b1}
  EventPlaces = 2
  MaxPinMoves = 3
  NameLength = 1
  RxSize = 30
  MaxTraces = 3
  MaxRestarts = 2
  Directory = {here, there}
  LogQueueSize = 2
  MaxCfgFiles = 2
  MaxLogLines = 4
  MaxDiskLosses = 1
  HistoryLength = 2
  HistoryInterval = 3
  RtcRange = 8
  AdcReading = {0, 212, 26404, 65535}
  RawTemperature = {0, 65535}
  RawHumidity = {60000}
  MaxReadings = 5
INVARIANTS
  HistoryIsRecent
  ReadingsInRange
  WaveformIsTheCommands
  NoOldBytes
  TracesArrive
  LogIsHonest
PROPERTIES
  CommandsGoOut
  TextFollowsKeys
  AcceptedLinesAppear
  PowerSignalsTakeEffect
  OutputsSettle
  EventsAreShown
  LinesGetWritten
CHECK_DEADLOCK FALSE
