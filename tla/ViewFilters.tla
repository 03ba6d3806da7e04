------------------------------ MODULE ViewFilters ------------------------------
(***************************************************************************)
(* The numbers of the view filters of internal/view: how much of a video   *)
(* has to be watched, and the bucket (LeakyBucket) that it gets by its     *)
(* length.  Times are in ticks, of which a minute has Minute.              *)
(***************************************************************************)
EXTENDS Integers

CONSTANTS
  Minute,      \* ticks in a minute
  MinDuration, \* videos that are shorter have no bucket
  UnknownMin   \* what has to be watched of them, and of those of unknown length

ASSUME FiltersAssumption ==
  /\ Minute \in Nat \ {0}
  /\ MinDuration \in Nat \ {0}
  /\ UnknownMin \in Nat

\* Duration 0 is unknown.
RequiredWatch(duration) ==
  IF duration < MinDuration THEN UnknownMin
  ELSE IF duration \div 3 < 1 THEN 1 ELSE duration \div 3

HasBucket(duration) == duration >= MinDuration

PerMinute(duration) == IF Minute \div duration < 1 THEN 1 ELSE Minute \div duration

RatePolicy(duration) ==
  [capacity |-> PerMinute(duration), cost |-> Minute \div PerMinute(duration), open |-> TRUE]
=============================================================================
