------------------------------ MODULE LeakyBucket ------------------------------
(***************************************************************************)
(* One bucket of internal/platform/ratelimit: the Lua script that charges  *)
(* it, and what a caller makes of its answer.                              *)
(*                                                                         *)
(* A level is measured in the time that it takes to leak, so that one unit *)
(* leaks in one tick and a call costs the time that its unit takes.  The   *)
(* stamp of a call is what time.Now gave the API process that makes it,    *)
(* some time before the script runs: stamps are as late as calls take and  *)
(* as wrong as the clocks of the processes, and not in order.              *)
(***************************************************************************)
EXTENDS Integers

CONSTANTS
  Policies,    \* records: capacity (of calls), cost of a call, open (fail-open)
  TTL,         \* how long Redis keeps a bucket that is not touched
  Late, Early, \* how far a stamp is behind or ahead of the time
  Second,      \* ticks in a second
  None,        \* no bucket, no promise
  MaxTime,     \* bound: how far the time goes
  MaxEarned,   \* bound: how much may leak altogether
  MaxFaults    \* bound: failed calls, losses of Redis

ASSUME BucketAssumption ==
  /\ \A p \in Policies : p.capacity \in Nat \ {0} /\ p.cost \in Nat \ {0} /\ p.open \in BOOLEAN
  /\ Late \in Nat /\ Early \in Nat /\ TTL \in Nat
  /\ \A p \in Policies : p.capacity * p.cost + Late + Early <= TTL
  /\ Second \in Nat \ {0}
  /\ None \notin Int
  /\ MaxTime \in Nat
  /\ MaxEarned \in Nat
  /\ MaxFaults \in Nat

VARIABLES
  policy,    \* the policy of the bucket
  time,      \* the time of Redis
  level,     \* the hash of the bucket: how full it is,
  last,      \* and the stamp of the call that touched it last
  touched,   \* when that was, from which Redis counts the TTL
  answer,    \* what the last call was told
  latest,    \* history: the last stamp since Redis was last empty, or None
  earned,    \* history: by how much later calls had later stamps, altogether
  admitted,  \* history: the calls that were charged since then
  promise,   \* history: the stamp from which a call will be let in, or None
  faults     \* how many faults have happened

bucket  == <<level, last, touched>>
history == <<latest, earned, admitted, promise>>
vars == <<policy, time, bucket, answer, history, faults>>

Capacity == policy.capacity * policy.cost

TypeOK ==
  /\ policy \in Policies
  /\ time \in 0 .. MaxTime
  /\ level \in 0 .. Capacity
  /\ last \in Int \cup {None}
  /\ touched \in 0 .. time
  /\ last # None => last = latest /\ touched - Late <= last /\ last <= touched + Early
  /\ answer \in {"none", "passed", "limited", "unready"}
  /\ latest \in Int \cup {None}
  /\ earned \in Nat
  /\ admitted \in Nat
  /\ promise \in Int \cup {None}
  /\ faults \in 0 .. MaxFaults

Init ==
  /\ policy \in Policies
  /\ time = 0
  /\ level = 0
  /\ last = None
  /\ touched = 0
  /\ answer = "none"
  /\ latest = None
  /\ earned = 0
  /\ admitted = 0
  /\ promise = None
  /\ faults = 0

Fault == faults < MaxFaults /\ faults' = faults + 1

Positive(n) == IF n > 0 THEN n ELSE 0

-----------------------------------------------------------------------------
(* The script. *)

\* Mutant: the time between the stamps counts whichever is the later.
LeakedEitherWay(stamp) ==
  IF last = None THEN 0 ELSE Positive(level - (IF stamp > last THEN stamp - last ELSE last - stamp))

\* A bucket that is not there is empty.
Leaked(stamp) == IF last = None THEN 0 ELSE Positive(level - Positive(stamp - last))

Fits(stamp) == Leaked(stamp) + policy.cost <= Capacity

\* Mutant: the call that was refused is left out.
RetryAfterLevel(stamp) == Positive(Leaked(stamp) - Capacity)

RetryAfter(stamp) == Leaked(stamp) + policy.cost - Capacity

\* The hash and its TTL are written whether the call fits or not.
Touch(stamp) ==
  /\ earned < MaxEarned
  /\ ~(last # None /\ time - touched >= TTL)
  /\ level' = Leaked(stamp) + (IF Fits(stamp) THEN policy.cost ELSE 0)
  /\ last' = stamp
  /\ touched' = time
  /\ latest' = stamp
  /\ earned' = earned + (IF latest = None THEN 0 ELSE Positive(stamp - latest))
  /\ admitted' = admitted + (IF Fits(stamp) THEN 1 ELSE 0)
  /\ UNCHANGED <<policy, time>>

\* What Middleware puts into Retry-After: whole seconds, one at least.
RetrySeconds(stamp) == IF RetryAfter(stamp) < Second THEN 1 ELSE RetryAfter(stamp) \div Second

Allow(stamp) ==
  /\ Fits(stamp)
  /\ Touch(stamp)
  /\ answer' = "passed"
  /\ promise' = None
  /\ UNCHANGED faults

Limit(stamp) ==
  /\ ~Fits(stamp)
  /\ Touch(stamp)
  /\ answer' = "limited"
  /\ promise' = stamp + (RetrySeconds(stamp) + 1) * Second
  /\ UNCHANGED faults

\* The script fails, before or after it has run: the caller lets the request
\* pass or answers 503, as its FailOpen says.
Fail(stamp) ==
  /\ Fault
  /\ \/ Touch(stamp) /\ promise' = IF Fits(stamp) THEN None ELSE promise
     \/ UNCHANGED <<policy, time, bucket, history>>
  /\ answer' = IF policy.open THEN "passed" ELSE "unready"

-----------------------------------------------------------------------------
(* Time, and Redis. *)

Tick ==
  /\ time < MaxTime
  /\ time' = time + 1
  /\ UNCHANGED <<policy, bucket, answer, history, faults>>

Gone == level' = 0 /\ last' = None /\ touched' = 0

Expire ==
  /\ last # None
  /\ time - touched >= TTL
  /\ Gone
  /\ UNCHANGED <<policy, time, answer, history, faults>>

RedisLost ==
  /\ Fault
  /\ Gone
  /\ latest' = None
  /\ earned' = 0
  /\ admitted' = 0
  /\ promise' = None
  /\ UNCHANGED <<policy, time, answer>>

Next ==
  \/ \E stamp \in time - Late .. time + Early : Allow(stamp) \/ Limit(stamp) \/ Fail(stamp)
  \/ Tick \/ Expire \/ RedisLost

Spec == Init /\ [][Next]_vars

-----------------------------------------------------------------------------
(* Properties. *)

\* As long as Redis keeps its data, though it lets idle buckets expire, the
\* calls that were charged are as many as the capacity and what leaked while
\* the stamps went on.  A stamp that goes back gives nothing at once, but the
\* way forward is then paid twice: clocks that differ let in more.
AdmitsAtMost == admitted * policy.cost <= Capacity + earned

\* A client that waits one second longer than Retry-After says, since seconds
\* are cut off, is let in by a process of the same clock unless somebody else
\* was meanwhile, whatever calls were refused with whatever stamps.
PromisesHold ==
  [][answer' = "limited" /\ promise # None /\ last' # None => last' < promise]_vars
=============================================================================
