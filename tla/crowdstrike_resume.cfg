SPECIFICATION CrowdStrikeSpec
CONSTANTS
  Hosts = {"host"}
  Programs = {"app"}
  FlushAt = 1
  MaxRuns = 3
  MaxChanges = 1
  MaxFaults = 1
INVARIANT ResumedHostsCurrent
CHECK_DEADLOCK FALSE
