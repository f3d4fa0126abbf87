SPECIFICATION FairSpec
CONSTANTS
  GraceTimeout = 1
  ForceFinalizer = FALSE
  CacheLag = FALSE
  MaxEdits = 1
  MaxReclaims = 1
  MaxFaults = 1
  MaxCrashes = 0
  RetryCap = 1
PROPERTIES
  RemovalBeforeReport
  ClosedWindowReleases
  KillSwitchTakesEffect
  DeletionCompletes
  ReclaimHonoured
