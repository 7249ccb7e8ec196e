SPECIFICATION FairSpec
CONSTANTS
  Runs = {r1, r2}
  r1 = r1
  r2 = r2
  p1 = p1
  p2 = p2
  p3 = p3
  h1 = h1
  h2 = h2
  Procs = {p1, p2, p3}
  Hosts = {h1, h2}
  HostOf <- MCHostOf
  Placements <- MCPlacements
  TTL = 2
  TakeAttempts = 2
  MaxNow = 3
  MaxLate = 1
  MayForce = {r2}
INVARIANTS TypeOK OneHolder
PROPERTIES HolderIsNotRobbed TakesEnd ExpiryIsNoticed
CHECK_DEADLOCK FALSE
