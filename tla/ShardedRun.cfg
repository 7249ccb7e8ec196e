SPECIFICATION FairSpec
CONSTANTS
  Instances = {a, b}
  Shards = {s1}
  Nobody = Nobody
  MaxAttempts = 1
  MaxFaults = 1
CHECK_DEADLOCK FALSE
INVARIANTS
  TypeOK
  NoShardBeforeSharded
  OutcomeIsHonest
PROPERTIES
  ParentIsFinalizedOnce
  ExpandedRunEnds
