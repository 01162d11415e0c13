CONSTANTS
  r1 = r1
  c1 = c1
  c2 = c2
  w1 = w1
  w2 = w2
  w3 = w3
  w4 = w4
  Unlimited = Unlimited
  None = None
  Resources = {r1}
  Clients = {c1, c2}
  Workers = {w1, w2, w3}
  Entries = {e1, e2, e3, e4}
  ResourceOf <- OneResource
  ClientOf <- ThreeWorkers
  Timed = {w1}
  Requests = {0, 1, 2}
SPECIFICATION FairSpec
INVARIANTS
  LimiterInv
  WaitsForACall
PROPERTIES
  WaitEnds
