SPECIFICATION Spec
CONSTANTS
  Instances = {a, b}
  Shards = {s1, s2}
  Nobody = Nobody
  MaxAttempts = 1
  MaxFaults = 0
CHECK_DEADLOCK FALSE
INVARIANTS
  CompletedMeansEveryShard
