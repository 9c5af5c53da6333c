SPECIFICATION FairSpec
CONSTANTS
  Display = FALSE
  Choices <- BatteryChoices
  LogModule = TRUE
  BusMayFail = FALSE
  SaveMayFail = FALSE
  RuntimeConfig = FALSE
  CanDeepSleep = TRUE
  NoFile = NoFile
  TornFile = TornFile
  MaxAttempts = 2
  MaxUpsets = 3
CHECK_DEADLOCK FALSE
INVARIANTS
  TypeOK
  RadioReady
  ConfigModeReachable
  SecondPressRecognised
  TimerWakeSkipsWindow
PROPERTIES
  BootSettles
  FollowsDutyCycle
