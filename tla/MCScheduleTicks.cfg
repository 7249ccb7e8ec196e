SPECIFICATION FairSpec
CONSTANTS
  Members = {a, b}
  Configs <- TwoConfigs
  MaxTick = 3
  MaxFaults = 1
CHECK_DEADLOCK FALSE
INVARIANTS
  RecordIsSettled
  OneRunPerTick
PROPERTIES
  TickIsSettled
