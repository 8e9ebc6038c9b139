CONSTANTS
  n1 = n1
  n2 = n2
  n3 = n3
  n4 = n4
  done = done
  u = u
  bad = bad
  Void = Void
  Nodes <- MCNodes
  Checks <- MCChecks
  Repairs <- MCRepairs
SPECIFICATION CheckerFairSpec
INVARIANTS
  RepairIsShortest
  NoneMeansTrapped
  ProductIsExact
  SafeMeansDisjoint
  CounterexampleIsShortest
PROPERTY CheckReturns
CHECK_DEADLOCK FALSE
