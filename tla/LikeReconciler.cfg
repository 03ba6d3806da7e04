SPECIFICATION FairSpec
CONSTANTS
  u1 = u1
  v1 = v1
  v2 = v2
  v3 = v3
  User = {u1}
  Video = {v1, v2, v3}
  Stored = {v1, v2, v3}
  SampleSize = 2
  MaxChanges = 3
  MaxDrift = 1
  MaxFaults = 1
PROPERTIES
  DriftHeals
  UndisturbedWriteHeals
  DriftNeedsRace
CHECK_DEADLOCK FALSE
