SPECIFICATION MCSpec
CONSTANTS
  Managed = {1, 2}
  Foreign = {3}
  Appliers = {t1, t2}
  BatchSize = 2
  MaxTagFaults = 1
  NoFetch = NoFetch
  Deliveries = {d1, d2, d3}
  MaxFailures = 2
  MaxDispatches = 5
  Checks = {"rule1", "rule2"}
  One = {"rule1"}
  Fleet = {"host"}
  System = "system"
  CheckRuns = {t1, t2}
  MaxCheckRuns = 2
  MaxViolationChanges = 2
  MaxUpsets = 1
  Apps = {1, 2}
  Matchable = {1}
  Processes = {0}
  Slots = {1, 2}
  MaxEvents = 4
  NoTask = NoTask
  Hosts = {1}
  Programs = {2}
  FlushAt = 1
  MaxRuns = 2
  MaxChanges = 1
  MaxFaults = 1
  BackupTasks = {t1, t2}
  Ids = {1, 2}
  Retention = 1
  MaxMishaps = 1
  MaxRestores = 1
  NoLock = NoLock
  Forgotten = Forgotten
  Requests = {t1, t2}
  KeyIds = {1, 2, 3}
  MaxLosses = 1
  Keys = {"key"}
  Windows <- MCWindows
  LimiterTtl = 3
  Limits = {1, 2}
  MaxMoment = 5
  Unasked = Unasked
  Workers = {"w1", "w2"}
  Pipelines = {t1, t2}
  Agents = {1, 2, 3}
  AgentBatch = 2
  MaxIncidents = 2
  Nobody = Nobody
  Gone = Gone
  Groups = {"g1", "g2"}
  Subscribes = {"s1", "s2", "s3"}
  GroupOf <- MCGroupOf
  AutoUpdates = {"s1", "s2", "s3"}
  Unsubscribes = {"u1"}
  Syncers = {"y1"}
  Scopes <- MCScopes
  MaxUpserts = 3
  MaxDeaths = 1
SYMMETRY Symmetry
INVARIANTS LocalTagsBacked DeadEndpointIsDisabled LastWordIsRight SummariesWhole CrowdStrikeCurrent DumpsAreListed KeysServeUntilRevoked WithinLimits
INVARIANTS RunCovers CountIsExact SyncedIsCurrent
CHECK_DEADLOCK FALSE
