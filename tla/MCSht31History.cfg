SPECIFICATION SenseSpec
CONSTANTS
  HistoryLength = 2
  HistoryInterval = 3
  RtcRange = 8
  AdcReading = {0, 212, 26404, 65535}
  RawTemperature = {0, 65535}
  RawHumidity = {20000, 60000}
  MaxReadings = 5
PROPERTIES
  AddedEvery15Minutes
CHECK_DEADLOCK FALSE
