SPECIFICATION FairSpec
CONSTANTS
  Display = TRUE
  Choices <- DisplayChoices
  LogModule = TRUE
  BusMayFail = TRUE
  SaveMayFail = TRUE
  RuntimeConfig = TRUE
  CanDeepSleep = FALSE
  NoFile = NoFile
  TornFile = TornFile
  MaxAttempts = 2
  MaxUpsets = 2
CHECK_DEADLOCK FALSE
INVARIANTS
  DisplayServesUi
PROPERTIES
  LinkRecovers
