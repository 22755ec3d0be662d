SPECIFICATION Spec
CONSTANTS
  c1 = c1
  c2 = c2
  X = X
  Y = Y
  r1 = r1
  r2 = r2
  Consts = {c1, c2}
  Vars = {X, Y}
  Rules = {r1, r2}
  Heads <- SingleHeads
  Plans <- TwoPlans
  ExtEDBRules = {}
  Queries <- OneQuery
  CollapseAbove = 2
  CollapseAtLeast = 2
  MaxIteration = 5
INVARIANTS
  TypeOK
  CacheComplete
  StampsNotBeforeBirth
PROPERTIES
  SeenStaysSeen
  ImplementsFactStore
