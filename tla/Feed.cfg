SPECIFICATION Spec
CONSTANTS
  Video <- MCVideo
  Reader = {r1}
  Start = Start
  End = End
  PageMax = 2
  Cap = 2
  MaxTime = 2
  MaxStarts = 1
  MaxFaults = 1
INVARIANTS
  TypeOK
  PagesAreTheFeed
  NewestAreListed
CHECK_DEADLOCK FALSE
