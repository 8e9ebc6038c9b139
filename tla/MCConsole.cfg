CONSTANTS
  h1 = h1
  h2 = h2
  Handlers <- TwoClients
  Bays = {"v1"}
  BayActions <- MCActions
  Faults = {"e_stop"}
  Posted = {"e_stop"}
  Scenarios = {"D1", "D2", "D3", "D4", "D5", "D6", "D7", "D8", "D10", "D11"}
  Horizon = 1
  MaxPending = 2
SPECIFICATION FairConsoleSpec
INVARIANTS
  AnswersAreTrue
  NoServerError
PROPERTIES
  ChangesAreEdges
  ResetIsClean
  EveryRequestAnswered
