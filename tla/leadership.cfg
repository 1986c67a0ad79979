SPECIFICATION LeadershipSpec
CONSTANTS
  Workers = {v1, v2}
  Intervals = {0, 2, 5}
  Ttl = 3
  Retry = 2
  Patience = 3
  MaxEvents = 3
  Nobody = Nobody
  Gone = Gone
  Candidates = {w1, w2, w3}
  Term = 2
  MaxTime = 5
  NoClaim = NoClaim
SYMMETRY Symmetry
INVARIANTS OneLeader Punctual
CHECK_DEADLOCK FALSE
