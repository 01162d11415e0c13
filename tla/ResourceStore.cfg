CONSTANTS
  c1 = c1
  c2 = c2
  i1 = i1
  v1 = v1
  v2 = v2
  Clients = {c1, c2}
  Ids = {i1}
  Configs = {v1, v2}
  Requests <- FewRequests
  Absent = Absent
  NoRequest = NoRequest
  MaxClock = 1
SPECIFICATION FairSpec
INVARIANTS
  StoreInv
PROPERTIES
  CreatedKept
  RegisterKept
  SetupEnds
