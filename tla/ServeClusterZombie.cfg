SPECIFICATION Spec
CONSTANTS
  Instances = {a, b}
  Runs = {r}
  Nobody = Nobody
  Capacity = 1
  MaxAttempts = 1
  MaxFaults = 1
  Stalls = TRUE
CHECK_DEADLOCK FALSE
PROPERTIES
  FirstFinalizerWins
