SPECIFICATION Spec
CONSTANTS
  groups = groups
  agents = agents
  Phases <- MCPhases
  MaxTriggers = 2
  Environments <- ClearErrors
PROPERTIES NoStaleFailure
CHECK_DEADLOCK FALSE
