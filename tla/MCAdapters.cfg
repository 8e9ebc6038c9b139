CONSTANTS
  Null = Null
  Junk = Junk
  Documents <- MCDocuments
  Loads <- MCLoads
  Patience <- MCPatience
  Offered <- MCOffered
  MaxOffers = 16
SPECIFICATION AdapterFairSpec
INVARIANTS
  OnlineMeetsOffline
  AdapterNeverRejected
PROPERTIES
  ConformanceIsExact
  ConformanceReturns
CHECK_DEADLOCK FALSE
