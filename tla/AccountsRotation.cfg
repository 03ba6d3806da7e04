SPECIFICATION Spec
CONSTANTS
  None = None
  a1 = a1
  a2 = a2
  r1 = r1
  r2 = r2
  r3 = r3
  r4 = r4
  Name <- MCName
  Bits <- MCBits
  Request <- MCRequestRotation
  Batch = 2
  MaxFaults = 0
INVARIANTS
  OneUsePerToken
CHECK_DEADLOCK FALSE
