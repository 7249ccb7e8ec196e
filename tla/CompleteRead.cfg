SPECIFICATION FairSpec
CONSTANTS
  Keys = {k1, k2}
  Items = {x}
  Absent = Absent
  Deletions = {TRUE, FALSE}
  MaxKeys = 1
  MaxEvents = 3
  MaxFaults = 2
  AmpleRetention = TRUE
CHECK_DEADLOCK FALSE
INVARIANTS
  TypeOK
  NothingLost
  NoGhostRows
PROPERTIES
  MirrorConverges
