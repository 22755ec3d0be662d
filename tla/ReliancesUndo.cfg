SPECIFICATION Spec
CONSTANTS
  Inputs <- UndoPrograms
  Strategies <- DefaultStrategy
  CacheSize = 3
  MayTimeout = FALSE
CHECK_DEADLOCK FALSE
INVARIANTS
  SearchExhaustive
