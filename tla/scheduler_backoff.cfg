SPECIFICATION Spec
CONSTANTS
  Workers = {w1, w2}
  Intervals = {0, 5}
  Ttl = 3
  Retry = 2
  Patience = 3
  MaxEvents = 2
  Nobody = Nobody
  Gone = Gone
PROPERTY OthersBackOff
CHECK_DEADLOCK FALSE
