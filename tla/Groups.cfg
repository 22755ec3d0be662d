SPECIFICATION FairSpec
CONSTANTS
  NumNodes = 5
  Inputs <- AllInputs
INVARIANTS
  TypeOK
  ResultIsPartition
  MinimumIsSource
  SourcesFirst
PROPERTIES
  Terminates
