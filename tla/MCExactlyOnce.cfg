SPECIFICATION Spec
CONSTANTS
  N = 4
  MaxPage = 2
  MaxRuns = 3
  Attempts = 2
  Deployments <- AllDeployments
  StateLoss = TRUE
  ShortReports = FALSE
CHECK_DEADLOCK FALSE
INVARIANTS
  TypeOK
  NoDuplicate
  ResumeCovered
PROPERTIES
  WatermarkMonotonic
  OkRunIsDurable
  ImplementsDelivery
