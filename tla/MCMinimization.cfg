CONSTANTS
  Nodes <- MCNodes
  SymbolOrder <- MCOrder
  Epsilon = Epsilon
  NFAs <- MCNFAs
  DFAs <- MCDFAs
  Words <- MCWords
SPECIFICATION FairSpec
INVARIANTS
  SubsetsFollowRuns
  BlocksAreClasses
  LanguagePreserved
  TrapsPreserved
PROPERTY MinimizationReturns
CHECK_DEADLOCK FALSE
