SPECIFICATION Spec
CONSTANTS
  g1 = g1
  g2 = g2
  s1 = s1
  s2 = s2
  s3 = s3
  u1 = u1
  y1 = y1
  Groups = {g1, g2}
  Subscribes = {s1}
  AutoUpdates = {s1}
  GroupOf <- MCGroupOf
  Unsubscribes = {u1}
  Syncers = {y1}
  Scopes <- OneScope
  MaxChanges = 2
  MaxDeaths = 0
INVARIANT NoOrphans
CHECK_DEADLOCK FALSE
