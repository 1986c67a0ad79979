SPECIFICATION FairSpec
CONSTANTS
  w1 = w1
  w2 = w2
  l1 = l1
  l2 = l2
  r1 = r1
  r2 = r2
  v1 = v1
  v2 = v2
  l3 = l3
  Workers = {w1, w2}
  Logins = {l1, l2, l3}
  Refreshes = {r1, r2}
  Revokes = {v1, v2}
  WorkerOf <- MCWorkerOf
  NoSession = NoSession
  Scopes <- MCScopes
  Kinds <- AllKinds
  Threshold = 2
  MaxRestarts = 1
INVARIANTS OneUnusedToken ThresholdLocks
PROPERTIES ClosedStaysClosed CachesConverge
CHECK_DEADLOCK FALSE
