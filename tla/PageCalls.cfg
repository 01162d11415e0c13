CONSTANTS
  Workers = {w1, w2}
  OtherCaller = {w3}
  NumRows = 2
  MaxRetries = 1
  NoRow = NoRow
  SharedResource = SharedResource
  PageClient = PageClient
  OtherClient = OtherClient
  Entries = {e1, e2, e3, e4}
  Requests = {0, 1}
  Unlimited = Unlimited
  None = None
SPECIFICATION FairCallSpec
INVARIANTS
  DeliverNeverBlocks
  SlotOnlyDuringCall
  ResourceBound
  NeverStuck
PROPERTIES
  PageEnds
  OutcomeKept
  PageRunsOut
