SPECIFICATION FairSpec
CONSTANTS
  Runs = {p, q}
  Units = {u, v}
  Dests = {g, h}
  Configs <- FourConfigs
  Pages = 1
  u = u
  v = v
  g = g
  h = h
  Nobody = Nobody
  MaxFaults = 1
CHECK_DEADLOCK FALSE
INVARIANTS
  TypeOK
  WholeRefresh
  OkMeansSwapped
PROPERTIES
  StopEnds
