SPECIFICATION Spec
CONSTANTS
  Keys = {temp, lux}
  temp = temp
  lux = lux
  None = None
  Configs <- AllBoards
  SensorSets <- OneOrOther
  MaxRetries = 2
  MaxWakes = 1
INVARIANTS
  TypeOK
  EntitiesAccounted
  SleepsClean
  PassDelivers
PROPERTIES
  OutageSurvived
  DiscoveryConverges
