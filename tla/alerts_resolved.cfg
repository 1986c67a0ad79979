SPECIFICATION AlertSpec
CONSTANTS
  Checks = {"rule1", "rule2"}
  One = {"rule1"}
  Hosts = {"host"}
  System = "system"
  Runs = {"run"}
  MaxRuns = 2
  MaxChanges = 1
  MaxUpsets = 0
INVARIANT ResolvedMeansCompliant
CHECK_DEADLOCK FALSE
