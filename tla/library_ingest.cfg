SPECIFICATION FairSpec
CONSTANTS
  Workers = {w1, w2}
  Configured = {w1}
  Size = 3
  PageSize = 2
  MaxResults = 3
  Interval = 1
  MaxVersion = 2
  MaxFaults = 1
  Environments = {{"publish", "cancel", "crash", "raise"}, {"cancel", "skip"}}
  Nobody = Nobody
  Gone = Gone
  NoCheckpoint = NoCheckpoint
INVARIANTS CheckpointIsSound CompletedCovers
PROPERTY KeepsUp
CHECK_DEADLOCK FALSE
