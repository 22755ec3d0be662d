SPECIFICATION Spec
CONSTANTS
  Facts <- TermFacts
  PredOf <- FirstOf
  Databases <- TermDatabases
  Rules <- TermRules
  Body <- TermBody
  Heads <- TermHeads
  Instances <- TermInstances
  Existential = {"base", "link", "witness", "last"}
  Orders <- TermOrders
  Stratification <- TermStratification
  NStrata = 2
  Restricted = TRUE
  Collapses = TRUE
  MayTimeout = TRUE
INVARIANTS
  TypeOK
  NoGap
  NoRegret
  Saturated
  BoundedWork
PROPERTIES
  ImplementsChase
CHECK_DEADLOCK FALSE
