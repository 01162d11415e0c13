CONSTANTS
  j1 = j1
  j2 = j2
  r1 = r1
  x1 = x1
  Jobs = {j1, j2}
  Reviews = {r1}
  Extracts = {x1}
  MaxFaults = 1
SPECIFICATION FairSpec
INVARIANTS
  MappingsKept
  ReadyFinds
PROPERTIES
  RacesRunOut
  AllReady
CHECK_DEADLOCK FALSE
