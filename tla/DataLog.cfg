SPECIFICATION Spec
CONSTANTS
  DaySlots = 2
  HourSlots = 2
  FileSlots = 2
  FileRoom = 2
  IndexRoom = 9
  MaxHour = 4
  Garbled = {2}
INVARIANTS TypeOK LogTruthful
PROPERTY KeepsRollingLog
CHECK_DEADLOCK FALSE
