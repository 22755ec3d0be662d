SPECIFICATION Spec
CONSTANTS
  Inputs <- TestPrograms
  Strategies <- AllStrategies
  CacheSize = 3
  MayTimeout = TRUE
CHECK_DEADLOCK FALSE
INVARIANTS
  TypeOK
  ExpectedGraph
  PositiveExact
  PrefixExact
  Backtracked
