SPECIFICATION Spec
CONSTANTS
  None = None
  v1 = v1
  v2 = v2
  u1 = u1
  u2 = u2
  r1 = r1
  r2 = r2
  Name <- MCName
  Bits <- MCBits
  User <- MCUser
  Request <- MCRequest
  Batch = 2
  MaxFaults = 2
SYMMETRY UsersAndRequests
INVARIANTS
  TypeOK
  CreatedStaysFound
  ProductsAreJust
CHECK_DEADLOCK FALSE
