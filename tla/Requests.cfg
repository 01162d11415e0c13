CONSTANTS
  MinKey <- SmallestKey
  MaxKey = 7
  MaxPages = 2
  MaxAlloc = 3
  MaxEdits = 1
  None = None
  Null = Null
  Failed = Failed
  NoObject = NoObject
  NoExample = NoExample
  one = one
  two = two
  Blank = ""
  MaxConcurrency = 2
  RowsPerCaller = 2
  MinPageSize = 2
  MaxPageSize = 3
  OutputPageSize = 2
  Idents = {"a", "b", "id"}
  LabelledSets = {"a"}
  Floats <- FewFloats
  Tables <- FewTables
  EnrichRequests <- FewEnrichRequests
  AlignRequests <- FewAlignRequests
  Sources <- FewSources
  Answers <- FewAnswers
SPECIFICATION FairSpec
INVARIANTS
  RangeTaken
  RowFitsSchema
  PromptKeepsRequest
PROPERTIES
  ScanAdvances
  ScanEnds
CHECK_DEADLOCK FALSE
