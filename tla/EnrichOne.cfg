CONSTANTS
  j1 = j1
  j2 = j2
  NoRow = NoRow
  OldRow = OldRow
  Jobs = {j1}
  Keys = {1, 2, 3, 4, 5, 6}
  StartID <- OneStart
  EndID <- OneEnd
  Overwrite <- Keeps
  PageSize = 3
  WriteBatchSize = 2
  Seeded = {3}
  StoreFaults = TRUE
  MaxCrashes = 2
SPECIFICATION Spec
INVARIANTS
  IInv
  CountersBacked
  SucceededRecordHasRow
  AllFailedIsTrue
PROPERTIES
  StepsRunOut
CHECK_DEADLOCK FALSE
