SPECIFICATION FairSpec
CONSTANTS
  u1 = u1
  u2 = u2
  v1 = v1
  v2 = v2
  w1 = w1
  User = {u1, u2}
  Video = {v1, v2}
  Stored = {v1}
  Worker = {w1}
  BatchSize = 2
  StreamMaxLen = 2
  MaxEvents = 4
  MaxFaults = 2
INVARIANTS
  TypeOK
  CountsExact
  HotCountExact
  LatestAppliedAgrees
PROPERTIES
  AppliesForward
  AckedOnlyIfApplied
  LossNeedsFault
  ImplementsLedger
CHECK_DEADLOCK FALSE
