SPECIFICATION FairSpec
CONSTANTS
  u1 = u1
  u2 = u2
  v1 = v1
  v2 = v2
  User = {u1, u2}
  Video = {v1, v2}
  Stored = {v1, v2}
  SampleSize = 2
  MaxChanges = 4
  MaxDrift = 0
  MaxFaults = 0
PROPERTY OnlyFixesDrift
CHECK_DEADLOCK FALSE
