SPECIFICATION FairSpec
CONSTANTS
  Commands = {"java", "idea"}
  Processes <- HostProcesses
  MaxEvents = 4
INVARIANT FirstRequestStays
PROPERTIES RunningIsReclaimed ListFollowed
