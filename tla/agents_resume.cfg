SPECIFICATION Spec
CONSTANTS
  N = 3
  Enrolled = {1, 2}
  Others = {9}
  PageSize = 2
  FlushAt = 2
  SaveAt = 1
  MaxChanges = 1
  MaxRuns = 3
  Environments <- Interruptions
PROPERTIES ResumedRunKeepsAgents
CHECK_DEADLOCK FALSE
