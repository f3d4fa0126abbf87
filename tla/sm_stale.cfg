SPECIFICATION Spec
CONSTANTS
  GraceTimeout = 1
  ForceFinalizer = TRUE
  CacheLag = TRUE
  MaxEdits = 0
  MaxReclaims = 1
  MaxFaults = 1
  MaxCrashes = 0
  RetryCap = 1
PROPERTIES
  RequestOutlivesMachine
  TornDownInOrder
