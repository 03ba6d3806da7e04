SPECIFICATION FairSpec
CONSTANTS
  None = None
  p1 = p1
  p2 = p2
  q1 = q1
  q2 = q2
  q3 = q3
  Replica <- MCReplica
  Request <- MCRequest
  Home <- MCHome
  MaxChanges = 1
  MaxExpiries = 2
  MaxFaults = 1
INVARIANTS
  TypeOK
  OneOwner
  OneFetchPerReplica
  NothingHalfComputed
  ErrorsHaveCause
  LocksAreReturned
PROPERTIES
  EveryGetReturns
CHECK_DEADLOCK FALSE
