CONSTANTS
  v1 = v1
  v2 = v2
  v3 = v3
  Vehicles <- MCVehicles
  Connectors = 3
  PowerLimit = 2
  CurtailedLimit = 1
  PowerTiers <- MCTiers
SPECIFICATION Spec
INVARIANTS
  TypeOK
  ConnectorPerCable
  BookedPowerHasHolder
  UnplugNeverRefused
PROPERTY ImplementsProduct
CHECK_DEADLOCK FALSE
