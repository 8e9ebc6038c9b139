CONSTANTS
  SessionIds = {"v1", "v2"}
  Symbols <- MCSymbols
  Horizon = 2
  MaxSequence = 4
  RunCalls <- SingleLimitCalls
  MaxFollowUps = 1
  FleetEvents = 3
  FleetHorizon = 1
SPECIFICATION SimulationSpec
INVARIANTS
  NoPastEvents
  DispatchedInOrder
  LogExplainsFleet
  NothingLost
PROPERTIES
  RunReturns
