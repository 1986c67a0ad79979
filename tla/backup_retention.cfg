SPECIFICATION SchedulersSpec
CONSTANTS
  Jobs = {j1, j2}
  Ids = {1, 2}
  Retention = 1
  MaxFaults = 0
  MaxRestores = 0
  NoLock = NoLock
  Forgotten = Forgotten
PROPERTY RetentionKeeps
CHECK_DEADLOCK FALSE
