CONSTANTS
  v1 = v1
  v2 = v2
  v3 = v3
  Vehicles <- MCVehicles
  Connectors = 3
  PowerLimit = 2
  CurtailedLimit = 2
  PowerTiers <- MCTiers
SPECIFICATION Spec
INVARIANT DrawWithinLimit
CHECK_DEADLOCK FALSE
