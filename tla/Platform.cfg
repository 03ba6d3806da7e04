SPECIFICATION PlatformSpec
CONSTANTS
  None = None
  Policies <- MCPolicies
  TTL = 14
  Late = 1
  Early = 1
  Second = 2
  MaxTime = 18
  MaxEarned = 20
  MaxFaults = 1
  Minute = 12
  MinDuration = 3
  UnknownMin = 1
  MaxRequests = 2
INVARIANTS
  AdmitsAtMost
  StoresOutliveTheirUsers
PROPERTIES
  PromisesHold
  StopsWhenToldOrBroken
CHECK_DEADLOCK FALSE
