SPECIFICATION FairSpec
CONSTANTS
  groups = groups
  agents = agents
  Phases <- MCPhases
  MaxTriggers = 2
  Environments <- MCEnvironments
INVARIANTS WorkIsExclusive WorkIsRecorded NothingIsLeft
PROPERTIES StatusIsRight RunEnds
CHECK_DEADLOCK FALSE
