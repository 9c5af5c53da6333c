SPECIFICATION Spec
CONSTANTS
  Frequencies = {10, 60}
INVARIANTS
  PlanFitsMode
  WakesInTime
