SPECIFICATION Spec
CONSTANTS
  p = p
  q = q
  Rules = {0, 1, 2, 3, 4, 5}
  Pos <- CyclePos
  Res <- CycleRes
  EDBRules <- CycleEDB
  HeadPreds <- SharedHeads
  Members <- SortedMembers
  HasTimeout = TRUE
  MaxDerivations = 4
INVARIANTS
  TypeOK
  CountersExact
  RemovedIsFinal
  SaturatedWhenDone
  SomeGroupQualifies
  RestrainersFirst
