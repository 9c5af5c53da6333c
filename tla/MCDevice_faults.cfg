SPECIFICATION FairSpec
CONSTANTS
  Display = FALSE
  Choices <- RuntimeChoices
  LogModule = TRUE
  BusMayFail = TRUE
  SaveMayFail = TRUE
  RuntimeConfig = TRUE
  CanDeepSleep = TRUE
  NoFile = NoFile
  TornFile = TornFile
  MaxAttempts = 2
  MaxUpsets = 2
CHECK_DEADLOCK FALSE
PROPERTIES
  LinkRecovers
