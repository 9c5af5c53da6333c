SPECIFICATION Spec
CONSTANTS
  DaySlots = 2
  HourSlots = 2
  FileSlots = 2
  FileRoom = 2
  IndexRoom = 2
  MaxHour = 4
  Garbled = {2}

PROPERTY TodayKept
CHECK_DEADLOCK FALSE
