CONSTANTS
  j1 = j1
  j2 = j2
  s1 = s1
  a = a
  b = b
  Jobs = {j1, j2}
  Keys = {1, 2, 3}
  StartID <- FromOne
  EndID <- ToThree
  OnlyWaiting <- FullFirst
  NumFields = 1
  Sets = {s1}
  SetOf <- OneSet
  Raws = {a, b}
  RawOf <- OneField
  Blank = Blank
  Labels = {l1}
  Unknown = Unknown
  Needs = Needs
  NoMapping = NoMapping
  Absent = Absent
  TopK = 1
  BatchSize = 1
  PageSize = 2
  WriteBatchSize = 1
  Faults = {}
  MaxCrashes = 0
SPECIFICATION Spec
INVARIANTS
  SucceededRowAligned
