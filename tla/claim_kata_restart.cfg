SPECIFICATION FairSpec
CONSTANTS
  Contents = {"c1", "c2"}
  MaxEvents = 1
PROPERTY RestartRetried
