SPECIFICATION ReaderSpec
CONSTANTS
  e1 = e1
  e2 = e2
  e3 = e3
  w1 = w1
  w2 = w2
  Events <- MCEvents
  Workers <- MCWorkers
  WorkerOf <- OneServes
  EpochSize = 2
  MaxCounter = 3
  ReadIn <- MCReadIn
  Environments <- MCEnvironments
INVARIANT ExportsVerify
CHECK_DEADLOCK FALSE
