SPECIFICATION FairSpec
CONSTANTS
  u1 = u1
  v1 = v1
  w1 = w1
  User = {u1}
  Video = {v1}
  Stored = {v1}
  Worker = {w1}
  BatchSize = 2
  StreamMaxLen = 1
  MaxEvents = 1
  MaxFaults = 1
PROPERTY HeldEventsGetApplied
CHECK_DEADLOCK FALSE
