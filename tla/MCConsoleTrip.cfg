CONSTANTS
  h1 = h1
  h2 = h2
  Handlers <- TwoClients
  Bays = {"v1"}
  BayActions <- FewActions
  Faults = {"e_stop"}
  Posted = {"e_stop"}
  Scenarios = {}
  Horizon = 0
  MaxPending = 1
SPECIFICATION ConsoleSpec
PROPERTY TripSticks
