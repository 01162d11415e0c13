CONSTANTS
  j1 = j1
  j2 = j2
  NoRow = NoRow
  OldRow = OldRow
  Jobs = {j1}
  Keys = {1, 2, 3}
  StartID <- OneStart
  EndID <- OneEnd
  Overwrite <- Keeps
  PageSize = 3
  WriteBatchSize = 2
  Seeded = {}
  StoreFaults = FALSE
  MaxCrashes = 1
SPECIFICATION Spec
INVARIANTS
  AllFailedWroteNothing
CHECK_DEADLOCK FALSE
