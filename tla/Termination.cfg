SPECIFICATION Spec
CONSTANTS
  CounterWidth = 64
  VarWidth = 8
  Predicates = {"A", "B", "D", "R", "S"}
  Arity <- Arities
  PredId <- Ids
  Programs <- PoolPrograms
  Databases <- SomeDatabases
  MayChase <- InOrder
CHECK_DEADLOCK FALSE
INVARIANTS
  TypeOK
  FlagExact
  Hierarchy
  NeverBoth
  ChaseIsModel
  AcceptedIsAcyclic
