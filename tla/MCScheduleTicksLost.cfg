SPECIFICATION FairSpec
CONSTANTS
  Members = {a, b}
  Configs <- TwoConfigs
  MaxTick = 1
  MaxFaults = 1
CHECK_DEADLOCK FALSE
PROPERTIES
  TickStarts
