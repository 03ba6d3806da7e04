SPECIFICATION Spec
CONSTANTS
  None = None
  a1 = a1
  a2 = a2
  r1 = r1
  r2 = r2
  r3 = r3
  r4 = r4
  Name <- MCName
  Bits <- MCBits
  Request <- MCRequest
  Batch = 2
  MaxFaults = 1
SYMMETRY Requests
INVARIANTS
  TypeOK
  VerdictsAreJust
  AccountsAreKnown
  SessionsSurvive
  RotatedTokensAreGone
CHECK_DEADLOCK FALSE
