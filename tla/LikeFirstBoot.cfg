SPECIFICATION FairSpec
CONSTANTS
  u1 = u1
  u2 = u2
  v1 = v1
  v2 = v2
  w1 = w1
  User = {u1, u2}
  Video = {v1, v2}
  Stored = {v1, v2}
  Worker = {w1}
  BatchSize = 2
  StreamMaxLen = 3
  MaxEvents = 3
  MaxFaults = 0
PROPERTY EveryLikePersists
CHECK_DEADLOCK FALSE
