SPECIFICATION ModesSpec
CONSTANTS
  Variables = {"x", "y", "z"}
  Values = {"a", "b", "c"}
  EDBPreds = {"e", "f"}
  Arity <- PairArity
  Pool <- Recursive
  MaxRules = 2
  Programs <- PoolPrograms
  Databases <- GraphDatabases
  Queries <- PairQueries
CHECK_DEADLOCK FALSE
INVARIANTS
  TypeOK
  AnswersSound
  TopDownExact
  MagicExact
PROPERTIES
  Advances
