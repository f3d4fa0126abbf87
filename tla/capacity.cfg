SPECIFICATION FairSpec
CONSTANTS
 ActiveValues = {1}
 Timeout = 1
 MaxEvents = 2
INVARIANTS RecordedValueStands CompleteMeansZero
PROPERTIES DeadlineKept TimeoutNotEarly ClosedWindowZeroes OpenWindowConcedes MissedHandbackReported StatusComesToRest
CHECK_DEADLOCK FALSE
