SPECIFICATION FairSpec
CONSTANTS
  r1 = r1
  r2 = r2
  Calls = {c1, c2}
  Repos = {r1, r2}
  Placements <- Either
  None = None
  LeaseTTL = 2
  WaitCap = 1
  FreshFor = 1
  StaleFor = 2
  OrphanLeases = {1}
  MaxNow = 3
INVARIANTS OneLiveOwner NoFlightLeft OnlyPublishedIsServed SharedIsRecent
PROPERTIES LiveFlightKept WaitersEnd
