SPECIFICATION Spec
CONSTANTS
  GraceTimeout = 2
  ForceFinalizer = TRUE
  CacheLag = FALSE
  MaxEdits = 2
  MaxReclaims = 1
  MaxFaults = 1
  MaxCrashes = 1
  RetryCap = 1
INVARIANTS
  ResourcesAccounted
  VerdictBehindAction
  NoReAddWhileNodeLives
  GraceForClosedWindow
PROPERTIES
  HoldLastState
  ImplementsLifecycle
