SPECIFICATION FairSpec
CONSTANTS
  Workers = {w1, w2}
  Runs = {r1, r2}
  Agents = {a1, a2, a3}
  BatchSize = 2
  MaxEvents = 2
  Nobody = Nobody
  Gone = Gone
PROPERTY LockComesBack
CHECK_DEADLOCK FALSE
