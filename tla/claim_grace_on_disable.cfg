SPECIFICATION Spec
CONSTANTS
  GraceTimeout = 1
  ForceFinalizer = TRUE
  CacheLag = FALSE
  MaxEdits = 1
  MaxReclaims = 0
  MaxFaults = 0
  MaxCrashes = 0
  RetryCap = 1
INVARIANTS
  GraceBeforeRemoval
