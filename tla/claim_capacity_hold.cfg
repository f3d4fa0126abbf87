SPECIFICATION Spec
CONSTANTS
  ActiveValues = {1}
  Timeout = 1
  MaxEvents = 2
PROPERTY UnresolvedHolds
CHECK_DEADLOCK FALSE
