CONSTANTS
  Connectors = 3
  PowerLimit = 15
  CurtailedLimit = 7
  PowerTiers <- MCTiers
  Capacity = 3
  MaxWord = 9
  Ceiling = 3
  QueueCapacity <- MCQueueCapacity
  Items <- MCItems
  MaxItems = 4
  MaxFallback = 2
SPECIFICATION CapacitySpec
INVARIANT FallbackEnforcedIsSafe
CHECK_DEADLOCK FALSE
