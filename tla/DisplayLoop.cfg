SPECIFICATION Spec
CONSTANTS
  Slots = 2
  Alarms = {a1}
  a1 = a1
  MinuteUnits = 2
  MuteUnits = 3
  Refresh = 2
  MaxBlock = 3
INVARIANTS
  TypeOK
  RingingEnds
  NestingBounded
  StoppedFallSilent
PROPERTIES
  AlarmSeen
  ServicesRun
