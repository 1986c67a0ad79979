SPECIFICATION FairSpec
CONSTANTS
  h1 = h1
  h2 = h2
  h3 = h3
  w1 = w1
  w2 = w2
  Handles <- MCHandles
  Workers <- MCWorkers
  WorkerOf <- MCWorkerOf
  TTL = 7
  MaxLate = 1
  Environments <- MCEnvironments
INVARIANT MutualExclusion
PROPERTIES ImplementsExclusiveLock DeadOwnerIsReplaced
CHECK_DEADLOCK FALSE
