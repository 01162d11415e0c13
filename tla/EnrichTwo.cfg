CONSTANTS
  j1 = j1
  j2 = j2
  NoRow = NoRow
  OldRow = OldRow
  Jobs = {j1, j2}
  Keys = {1, 2, 3}
  StartID <- TwoStart
  EndID <- TwoEnd
  Overwrite <- Mixed
  PageSize = 2
  WriteBatchSize = 1
  Seeded = {1}
  StoreFaults = FALSE
  MaxCrashes = 1
SPECIFICATION FairSpec
INVARIANTS
  ActiveJobHasRunner
PROPERTIES
  ExistingRowsKept
  PromiseKept
  JobsEnd
CHECK_DEADLOCK FALSE
