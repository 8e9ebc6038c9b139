CONSTANT MaxCost = 8
SPECIFICATION Spec
INVARIANT PlanIsCheapest
CHECK_DEADLOCK FALSE
