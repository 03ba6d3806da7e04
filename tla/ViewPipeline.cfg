SPECIFICATION FairSpec
CONSTANTS
  k1 = k1
  r1 = r1
  r2 = r2
  w1 = w1
  Key = {k1}
  Request = {r1, r2}
  Worker = {w1}
  BatchSize = 1
  FlushSize = 2
  StreamMaxLen = 2
  MaxEvents = 3
  MaxExpiries = 1
  MaxFaults = 2
INVARIANTS
  TypeOK
  CopiesNeedLostReplies
  OneUniquePerWindow
  UniqueMissedOnlyByFaults
  BatchBounded
PROPERTIES
  AckedOnlyIfInserted
  LossNeedsFault
CHECK_DEADLOCK FALSE
