CONSTANT MaxCost = 8
SPECIFICATION FairSpec
INVARIANTS
  NoLiveDisconnect
  EmergencyIsolates
  CompletedIsSettled
  PlanIsVerified
  SearchSettles
  NoPathMeansNone
PROPERTY RecoverReturns
CHECK_DEADLOCK FALSE
