SPECIFICATION FairSpec
CONSTANTS
  N = 2
  MaxPage = 2
  MaxRuns = 2
  Options <- StreamOptions
CHECK_DEADLOCK FALSE
INVARIANTS
  TypeOK
  BookmarkCovered
  NoReplayWithinRun
  DeadLetterDisjoint
  StopsAtLimits
PROPERTIES
  OkRunIsDurable
  ImplementsDelivery
  RunEnds
