SPECIFICATION FairSpec
CONSTANTS
  a = a
  b = b
  c = c
  d = d
  ghost = ghost
  Id <- MCId
  Batches <- MCBatches
  MaxParallelism = 2
  HasTimeout = TRUE
INVARIANTS
  TypeOK
  AcceptsExactly
  PermitsConserved
  ResultsComplete
PROPERTIES
  ImplementsDag
  Terminates
CHECK_DEADLOCK FALSE
