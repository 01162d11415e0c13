CONSTANTS
  j1 = j1
  j2 = j2
  s1 = s1
  a = a
  b = b
  Jobs = {j1, j2}
  Keys = {1, 2}
  StartID <- FromOne
  EndID <- ToThree
  OnlyWaiting <- FullFirst
  NumFields = 2
  Sets = {s1}
  SetOf <- SharedSet
  Raws = {a, b}
  RawOf <- TwoFields
  Blank = Blank
  Labels = {l1}
  Unknown = Unknown
  Needs = Needs
  NoMapping = NoMapping
  Absent = Absent
  TopK = 1
  BatchSize = 2
  PageSize = 1
  WriteBatchSize = 2
  Faults = {"sqlite", "postgres"}
  MaxCrashes = 1
SPECIFICATION Spec
INVARIANTS
  AlignInv
PROPERTIES
  PromiseKept
  StepsRunOut
