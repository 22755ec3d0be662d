SPECIFICATION ModesSpec
CONSTANTS
  Variables = {"x", "y", "z"}
  Values = {"a", "b", "c"}
  EDBPreds = {"e", "f"}
  Arity <- PairArity
  Pool <- Symmetric
  MaxRules = 2
  Programs <- PoolPrograms
  Databases <- GraphDatabases
  Queries <- PairQueries
CHECK_DEADLOCK FALSE
INVARIANTS
  MagicExact
