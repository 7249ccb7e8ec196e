SPECIFICATION FairSpec
CONSTANTS
  Instances = {a, b}
  Shards = {s1}
  Nobody = Nobody
  MaxAttempts = 1
  MaxFaults = 0
CHECK_DEADLOCK FALSE
PROPERTIES
  CancelEndsTheRun
