SPECIFICATION FairSpec
CONSTANTS
  Instances = {a, b}
  Runs = {r}
  Nobody = Nobody
  Capacity = 2
  MaxAttempts = 1
  MaxFaults = 1
  Stalls = TRUE
CHECK_DEADLOCK FALSE
INVARIANTS
  TypeOK
  OwnedRunsAreWorkedOn
  OverlapNeedsAnOverrun
PROPERTIES
  OneOutcome
  PendingIsPickedUp
