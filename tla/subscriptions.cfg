SPECIFICATION FairSpec
CONSTANTS
  g1 = g1
  g2 = g2
  s1 = s1
  s2 = s2
  s3 = s3
  u1 = u1
  y1 = y1
  Groups = {g1, g2}
  Subscribes = {s1, s2, s3}
  AutoUpdates = {s1, s2, s3}
  GroupOf <- MCGroupOf
  Unsubscribes = {u1}
  Syncers = {y1}
  Scopes <- MCScopes
  MaxChanges = 3
  MaxDeaths = 1
PROPERTY CatchesUp
CHECK_DEADLOCK FALSE
