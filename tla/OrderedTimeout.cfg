SPECIFICATION FairSpec
CONSTANTS
  p = p
  q = q
  Rules = {0, 1, 2, 3, 4}
  Pos <- StratPos
  Res <- StratRes
  EDBRules <- StratEDB
  HeadPreds <- SharedHeads
  Members <- SortedMembers
  HasTimeout = TRUE
  MaxDerivations = 5
PROPERTIES
  StoppedByTimeout
