SPECIFICATION SummarySpec
CONSTANTS
  NoTask = NoTask
  Apps = {"app1", "app2"}
  Matchable = {"app1"}
  Processes = {"p1", "p2"}
  Slots = {1}
  MaxEvents = 4
INVARIANT SummariesWhole
CHECK_DEADLOCK FALSE
