---------------------------- MODULE Platform_proofs ----------------------------
(***************************************************************************)
(* Proofs about what all parts of the system stand on.                     *)
(*                                                                         *)
(* LeakyBucket: a bucket admits no more than its capacity and what leaked, *)
(* also across the expiry of an idle key, and the wait that a refused      *)
(* client is told of is enough.  The buckets of views hold no more than a  *)
(* minute, whatever the length of the video (ViewFilters).                 *)
(*                                                                         *)
(* Processes: no store is closed under its users and none is left    *)
(* open, for any number of requests in flight.                             *)
(***************************************************************************)
EXTENDS LeakyBucket, ViewFilters, Processes, TLAPS

\* A policy is of positive integers, and one call always fits.
LEMMA PolicyFacts ==
  ASSUME policy \in Policies
  PROVE  /\ policy.cost \in Nat \ {0}
         /\ policy.open \in BOOLEAN
         /\ Capacity \in Nat
         /\ policy.cost <= Capacity
         /\ Capacity + Late + Early <= TTL
<1>1. policy.cost \in Nat \ {0} /\ policy.capacity \in Nat \ {0} /\ policy.open \in BOOLEAN
  BY BucketAssumption
<1>2. \A a, b \in Nat \ {0} : a * b \in Nat /\ b <= a * b
  OBVIOUS
<1>3. Capacity \in Nat /\ policy.cost <= Capacity
  BY <1>1, <1>2 DEF Capacity
<1>4. Capacity + Late + Early <= TTL
  BY BucketAssumption DEF Capacity
<1> QED BY <1>1, <1>3, <1>4

\* Whole seconds that are cut off, and one more, are enough.
LEMMA SecondsSuffice ==
  ASSUME NEW n \in Nat, NEW s \in Nat \ {0}
  PROVE  /\ n \div s \in Nat
         /\ (n \div s + 1) * s > n
<1>1. n \div s \in Nat /\ n % s \in 0 .. s - 1
  OBVIOUS
<1>2. n = s * (n \div s) + (n % s)
  OBVIOUS
<1>3. \A q \in Nat : (q + 1) * s = s * q + s
  OBVIOUS
<1> QED BY <1>1, <1>2, <1>3

-----------------------------------------------------------------------------
(* The invariant. *)

\* What a bucket is full of, and what leaked, accounts for every charge.  An
\* expired bucket was empty by then for whatever stamp comes next.
Accounted ==
  /\ last # None => admitted * policy.cost <= level + earned
  /\ last = None /\ latest # None =>
       /\ admitted * policy.cost <= Capacity + earned
       /\ latest + Capacity + Late <= time
  /\ latest = None => last = None /\ admitted = 0

\* At the promised stamp a call fits.
Promised ==
  promise # None /\ last # None =>
    last < promise /\ level + policy.cost <= Capacity + (promise - last)

Inv == TypeOK /\ Accounted /\ Promised

LEMMA InitInv == Init => Inv
<1> SUFFICES ASSUME Init PROVE Inv
  OBVIOUS
<1>1. Capacity \in Nat /\ policy.cost \in Nat
  BY PolicyFacts DEF Init
<1> QED BY <1>1, BucketAssumption DEF Init, Inv, TypeOK, Accounted, Promised

\* What the script makes of a bucket, and of its account.
LEMMA TouchEffect ==
  ASSUME Inv, NEW stamp \in time - Late .. time + Early, Touch(stamp)
  PROVE  /\ stamp \in Int
         /\ Leaked(stamp) \in 0 .. Capacity
         /\ level' \in 0 .. Capacity'
         /\ admitted' \in Nat /\ earned' \in Nat /\ touched' \in 0 .. time'
         /\ last' = stamp /\ latest' = stamp
         /\ touched' - Late <= last' /\ last' <= touched' + Early
         /\ admitted' * policy'.cost <= level' + earned'
<1> DEFINE cost == policy.cost
<1>1. /\ cost \in Nat \ {0} /\ Capacity \in Nat /\ cost <= Capacity
      /\ Capacity + Late + Early <= TTL
      /\ time \in Nat /\ level \in 0 .. Capacity /\ admitted \in Nat /\ earned \in Nat
      /\ last \in Int \cup {None} /\ latest \in Int \cup {None}
      /\ Late \in Nat /\ Early \in Nat /\ None \notin Int
  BY PolicyFacts, BucketAssumption DEF Inv, TypeOK
<1>2. stamp \in Int
  BY <1>1
<1>3. /\ policy' = policy /\ Capacity' = Capacity /\ time' = time /\ touched' = time
      /\ last' = stamp /\ latest' = stamp
  BY DEF Touch, Capacity
<1>4. Leaked(stamp) \in 0 .. Capacity
  BY <1>1, <1>2 DEF Leaked, Positive
<1>5. Fits(stamp) <=> Leaked(stamp) + cost <= Capacity
  BY DEF Fits
<1>6. /\ level' = Leaked(stamp) + (IF Fits(stamp) THEN cost ELSE 0)
      /\ admitted' = admitted + (IF Fits(stamp) THEN 1 ELSE 0)
  BY DEF Touch
<1>7. level' \in 0 .. Capacity
  BY <1>1, <1>4, <1>5, <1>6
<1>8. earned' = earned + (IF latest = None THEN 0 ELSE Positive(stamp - latest))
  BY DEF Touch
<1>9. earned' \in Nat /\ admitted' \in Nat
  BY <1>1, <1>2, <1>6, <1>8 DEF Positive
<1>10. admitted * cost <= Leaked(stamp) + earned'
  <2>1. admitted * cost \in Nat
    BY <1>1
  <2> DEFINE spent == admitted * cost
  <2> HIDE DEF spent
  <2>2. CASE last # None
    <3>1. spent <= level + earned /\ latest = last
      BY <2>2 DEF Inv, Accounted, TypeOK, spent
    <3>2. level <= Leaked(stamp) + Positive(stamp - last)
      BY <1>1, <1>2, <2>2 DEF Leaked, Positive
    <3>3. spent <= Leaked(stamp) + earned'
      BY <1>1, <1>2, <1>4, <1>8, <2>1, <2>2, <3>1, <3>2 DEF Positive, spent
    <3> QED BY <3>3 DEF spent
  <2>3. CASE last = None /\ latest # None
    <3>1. spent <= Capacity + earned /\ latest + Capacity + Late <= time
      BY <2>3 DEF Inv, Accounted, spent
    <3>2. stamp - latest >= Capacity
      BY <1>1, <1>2, <2>3, <3>1
    <3>3. spent <= earned'
      BY <1>1, <1>2, <1>8, <2>1, <2>3, <3>1, <3>2 DEF Positive, spent
    <3> QED BY <1>4, <1>9, <2>1, <3>3, <1>1 DEF spent
  <2>4. CASE latest = None
    <3>1. admitted = 0
      BY <2>4 DEF Inv, Accounted
    <3> QED BY <1>1, <1>4, <1>9, <3>1
  <2> QED BY <2>2, <2>3, <2>4
<1>11. admitted' * cost <= level' + earned'
  <2>1. (admitted + 1) * cost = admitted * cost + cost
    BY <1>1
  <2>2. admitted * cost \in Nat
    BY <1>1
  <2>3. CASE Fits(stamp)
    <3>1. admitted' * cost = admitted * cost + cost
      BY <1>6, <2>1, <2>3
    <3>2. level' = Leaked(stamp) + cost
      BY <1>6, <2>3
    <3> DEFINE spent == admitted * cost
    <3>3. spent \in Nat /\ spent <= Leaked(stamp) + earned'
      BY <1>10, <2>2
    <3> HIDE DEF spent
    <3>4. spent + cost <= level' + earned'
      BY <1>1, <1>4, <1>9, <3>2, <3>3
    <3> QED BY <3>1, <3>4 DEF spent
  <2>4. CASE ~Fits(stamp)
    <3>1. admitted' = admitted /\ level' = Leaked(stamp)
      BY <1>1, <1>4, <1>6, <2>4
    <3> QED BY <1>10, <3>1
  <2> QED BY <2>3, <2>4
<1> QED
  BY <1>1, <1>2, <1>3, <1>4, <1>7, <1>9, <1>11

\* A call that comes at a promised stamp, or to no bucket, fits.
LEMMA PromiseFits ==
  ASSUME Inv, promise # None, NEW stamp \in Int, last = None \/ stamp >= promise
  PROVE  Fits(stamp)
<1>1. /\ policy.cost \in Nat \ {0} /\ Capacity \in Nat /\ policy.cost <= Capacity
      /\ level \in 0 .. Capacity /\ last \in Int \cup {None} /\ promise \in Int
      /\ None \notin Int
  BY PolicyFacts, BucketAssumption DEF Inv, TypeOK
<1>2. CASE last = None
  BY <1>1, <1>2 DEF Fits, Leaked
<1>3. CASE last # None
  <2>1. last < promise /\ level + policy.cost <= Capacity + (promise - last)
    BY <1>3 DEF Inv, Promised
  <2>2. stamp > last
    BY <1>1, <1>3, <2>1
  <2>3. Leaked(stamp) = Positive(level - (stamp - last))
    BY <1>1, <1>3, <2>2 DEF Leaked, Positive
  <2> QED BY <1>1, <1>3, <2>1, <2>3 DEF Fits, Positive
<1> QED BY <1>2, <1>3

\* Of a step that leaves the bucket and its account alone.
LEMMA Unmoved ==
  ASSUME Inv, UNCHANGED <<policy, bucket, history>>, time' \in 0 .. MaxTime, time' >= time
  PROVE  Accounted' /\ Promised'
<1>1. time \in Nat /\ time' \in Nat /\ Late \in Nat /\ Capacity \in Nat /\ Capacity' = Capacity
      /\ latest \in Int \cup {None}
  BY PolicyFacts, BucketAssumption DEF Inv, TypeOK, Capacity
<1> QED BY <1>1 DEF Inv, Accounted, Promised, bucket, history

LEMMA NextInv == Inv /\ [Next]_vars => Inv'
<1> SUFFICES ASSUME Inv, [Next]_vars PROVE Inv'
  OBVIOUS
<1>0. /\ policy.cost \in Nat \ {0} /\ Capacity \in Nat /\ policy.cost <= Capacity
      /\ Capacity + Late + Early <= TTL /\ TTL \in Nat
      /\ Late \in Nat /\ Early \in Nat /\ Second \in Nat \ {0} /\ None \notin Int
      /\ MaxTime \in Nat /\ MaxFaults \in Nat
      /\ time \in 0 .. MaxTime /\ faults \in 0 .. MaxFaults
  BY PolicyFacts, BucketAssumption DEF Inv, TypeOK
<1>1. ASSUME NEW stamp \in time - Late .. time + Early, Touch(stamp),
             answer' \in {"passed", "limited", "unready"}, faults' \in 0 .. MaxFaults,
             promise' \in Int \cup {None}
      PROVE  TypeOK' /\ Accounted'
  <2>1. /\ policy' = policy /\ time' = time /\ stamp \in Int
        /\ level' \in 0 .. Capacity'
        /\ admitted' \in Nat /\ earned' \in Nat /\ touched' \in 0 .. time'
        /\ last' = stamp /\ latest' = stamp
        /\ touched' - Late <= last' /\ last' <= touched' + Early
        /\ admitted' * policy'.cost <= level' + earned'
    BY <1>1, TouchEffect DEF Touch
  <2>2. TypeOK'
    BY <1>0, <1>1, <2>1 DEF TypeOK, Inv
  <2> QED BY <1>0, <2>1, <2>2 DEF Accounted
<1>2. ASSUME NEW stamp \in time - Late .. time + Early, Allow(stamp)
      PROVE  Inv'
  <2>1. Touch(stamp) /\ answer' = "passed" /\ promise' = None /\ faults' = faults
    BY <1>2 DEF Allow
  <2> QED BY <1>0, <1>1, <2>1 DEF Inv, Promised
<1>3. ASSUME NEW stamp \in time - Late .. time + Early, Limit(stamp)
      PROVE  Inv'
  <2>1. /\ ~Fits(stamp) /\ Touch(stamp) /\ answer' = "limited" /\ faults' = faults
        /\ promise' = stamp + (RetrySeconds(stamp) + 1) * Second
    BY <1>3 DEF Limit
  <2>2. /\ stamp \in Int /\ Leaked(stamp) \in 0 .. Capacity /\ last' = stamp
        /\ level' = Leaked(stamp) /\ policy' = policy /\ Capacity' = Capacity
    BY <1>0, <2>1, TouchEffect DEF Touch, Capacity
  <2>3. RetryAfter(stamp) \in Nat \ {0}
    BY <1>0, <2>1, <2>2 DEF RetryAfter, Fits
  <2> DEFINE wait == (RetrySeconds(stamp) + 1) * Second
  <2>4. wait \in Nat /\ wait > RetryAfter(stamp)
    <3>1. CASE RetryAfter(stamp) < Second
      <4>1. RetrySeconds(stamp) = 1
        BY <3>1 DEF RetrySeconds
      <4> QED BY <1>0, <2>3, <3>1, <4>1
    <3>2. CASE ~(RetryAfter(stamp) < Second)
      <4>1. RetrySeconds(stamp) = RetryAfter(stamp) \div Second
        BY <3>2 DEF RetrySeconds
      <4> QED BY <1>0, <2>3, <4>1, SecondsSuffice
    <3> QED BY <3>1, <3>2
  <2>5. promise' = stamp + wait
    BY <2>1
  <2> HIDE DEF wait
  <2>6. promise' \in Int
    BY <2>2, <2>4, <2>5
  <2>7. Promised'
    BY <1>0, <2>2, <2>3, <2>4, <2>5 DEF Promised, RetryAfter
  <2> QED BY <1>0, <1>1, <2>1, <2>6, <2>7 DEF Inv
<1>4. ASSUME NEW stamp \in time - Late .. time + Early, Fail(stamp)
      PROVE  Inv'
  <2>1. faults' \in 0 .. MaxFaults /\ answer' \in {"passed", "unready"}
    BY <1>0, <1>4 DEF Fail, Fault
  <2>2. CASE Touch(stamp) /\ promise' = IF Fits(stamp) THEN None ELSE promise
    <3>1. TypeOK' /\ Accounted'
      BY <1>1, <2>1, <2>2 DEF Inv, TypeOK
    <3>2. Promised'
      <4> SUFFICES ASSUME promise' # None PROVE Promised'
        BY DEF Promised
      <4>1. promise' = promise /\ promise # None /\ ~Fits(stamp)
        BY <2>2
      <4>2. /\ stamp \in Int /\ Leaked(stamp) \in 0 .. Capacity /\ last' = stamp
            /\ level' = Leaked(stamp) /\ policy' = policy /\ Capacity' = Capacity
        BY <1>0, <2>2, <4>1, TouchEffect DEF Touch, Capacity
      <4>3. last # None /\ stamp < promise
        BY <4>1, <4>2, PromiseFits DEF Inv, TypeOK
      <4>4. last < promise /\ level + policy.cost <= Capacity + (promise - last)
        BY <4>1, <4>3 DEF Inv, Promised
      <4>5. level \in 0 .. Capacity /\ last \in Int /\ promise \in Int
        BY <4>1, <4>3 DEF Inv, TypeOK
      <4>6. Leaked(stamp) = Positive(level - Positive(stamp - last))
        BY <4>3 DEF Leaked
      <4>7. Leaked(stamp) + policy.cost <= Capacity + (promise - stamp)
        <5>1. CASE Leaked(stamp) = 0
          BY <1>0, <4>1, <4>2, <4>3, <4>5, <5>1
        <5>2. CASE Leaked(stamp) # 0
          BY <1>0, <4>2, <4>4, <4>5, <4>6, <5>2 DEF Positive
        <5> QED BY <5>1, <5>2
      <4> QED BY <4>1, <4>2, <4>3, <4>7 DEF Promised
    <3> QED BY <3>1, <3>2 DEF Inv
  <2>3. CASE UNCHANGED <<policy, time, bucket, history>>
    <3>1. Accounted' /\ Promised'
      BY <1>0, <2>3, Unmoved
    <3> QED BY <2>1, <2>3, <3>1 DEF Inv, TypeOK, bucket, history, Capacity
  <2> QED BY <1>4, <2>2, <2>3 DEF Fail
<1>5. CASE Tick
  <2>1. time' \in 0 .. MaxTime /\ time' >= time
    BY <1>0, <1>5 DEF Tick
  <2>2. Accounted' /\ Promised'
    BY <1>5, <2>1, Unmoved DEF Tick
  <2> QED BY <1>0, <1>5, <2>1, <2>2 DEF Inv, TypeOK, Tick, bucket, history, Capacity
<1>6. CASE Expire
  <2>1. /\ last # None /\ last = latest /\ time - touched >= TTL /\ last <= touched + Early
        /\ admitted * policy.cost <= level + earned
        /\ level \in 0 .. Capacity /\ touched \in Nat /\ earned \in Nat /\ last \in Int
        /\ admitted * policy.cost \in Nat
    BY <1>0, <1>6 DEF Expire, Inv, TypeOK, Accounted
  <2>2. latest + Capacity + Late <= time
    BY <1>0, <2>1
  <2>3. admitted * policy.cost <= Capacity + earned
    BY <1>0, <2>1
  <2>4. Capacity' = Capacity
    BY <1>6 DEF Expire, Capacity
  <2>5. TypeOK'
    BY <1>0, <1>6, <2>4 DEF Expire, Gone, Inv, TypeOK, history
  <2>6. Accounted' /\ Promised'
    BY <1>6, <2>1, <2>2, <2>3, <2>4 DEF Expire, Gone, Accounted, Promised, history
  <2> QED BY <2>5, <2>6 DEF Inv
<1>7. CASE RedisLost
  <2>1. Capacity' = Capacity
    BY <1>7 DEF RedisLost, Capacity
  <2>2. TypeOK'
    BY <1>0, <1>7, <2>1 DEF RedisLost, Gone, Fault, Inv, TypeOK
  <2> QED BY <1>7, <2>2 DEF RedisLost, Gone, Inv, Accounted, Promised
<1>8. CASE UNCHANGED vars
  <2>1. Accounted' /\ Promised'
    BY <1>0, <1>8, Unmoved DEF vars
  <2> QED BY <1>8, <2>1 DEF vars, bucket, history, Inv, TypeOK, Capacity
<1> QED BY <1>2, <1>3, <1>4, <1>5, <1>6, <1>7, <1>8 DEF Next

-----------------------------------------------------------------------------
(* The theorems. *)

LEMMA Invariant == Spec => []Inv
<1> QED BY InitInv, NextInv, PTL DEF Spec

\* TypeOK: the level stays within the capacity, and stamps near the time.
THEOREM TypeCorrect == Spec => []TypeOK
<1>1. Inv => TypeOK
  BY DEF Inv
<1> QED BY <1>1, Invariant, PTL

\* AdmitsAtMost, for every policy, every error of the clocks and every TTL
\* that outlasts a full bucket and the errors.
THEOREM BucketsAdmitAtMost == Spec => []AdmitsAtMost
<1>1. Inv => AdmitsAtMost
  <2> SUFFICES ASSUME Inv PROVE AdmitsAtMost
    OBVIOUS
  <2>1. /\ policy.cost \in Nat /\ Capacity \in Nat /\ admitted \in Nat /\ earned \in Nat
        /\ level \in 0 .. Capacity /\ admitted * policy.cost \in Nat
    BY PolicyFacts DEF Inv, TypeOK
  <2>2. CASE last # None
    BY <2>1, <2>2 DEF Inv, Accounted, AdmitsAtMost
  <2>3. CASE last = None /\ latest # None
    BY <2>1, <2>3 DEF Inv, Accounted, AdmitsAtMost
  <2>4. CASE latest = None
    BY <2>1, <2>4 DEF Inv, Accounted, AdmitsAtMost
  <2> QED BY <2>2, <2>3, <2>4
<1> QED BY <1>1, Invariant, PTL

\* PromisesHold: who waits as told, and a second, is let in.
THEOREM WaitsAreEnough == Spec => PromisesHold
<1>1. ASSUME Inv, [Next]_vars, answer' = "limited", promise # None, last' # None
      PROVE  last' < promise
  <2>1. last # None => last < promise
    BY <1>1 DEF Inv, Promised
  <2>2. CASE \E stamp \in time - Late .. time + Early : Allow(stamp) \/ Limit(stamp) \/ Fail(stamp)
    <3>1. PICK stamp \in time - Late .. time + Early : Limit(stamp)
      BY <1>1, <2>2 DEF Allow, Fail
    <3>2. stamp \in Int /\ promise \in Int
      BY <1>1, BucketAssumption DEF Inv, TypeOK
    <3>3. ~(stamp >= promise)
      BY <1>1, <3>1, <3>2, PromiseFits DEF Limit
    <3> QED BY <3>1, <3>2, <3>3 DEF Limit, Touch
  <2>3. CASE Tick \/ Expire \/ RedisLost \/ UNCHANGED vars
    BY <1>1, <2>1, <2>3 DEF Tick, Expire, RedisLost, Gone, vars, bucket
  <2> QED BY <1>1, <2>2, <2>3 DEF Next
<1>2. Inv /\ [Next]_vars => [answer' = "limited" /\ promise # None /\ last' # None => last' < promise]_vars
  BY <1>1
<1> QED BY <1>2, Invariant, PTL DEF PromisesHold, Spec

-----------------------------------------------------------------------------
(* The policies of views. *)

\* The quotient of the code's integer division.
LEMMA Quotient ==
  ASSUME NEW n \in Nat, NEW d \in Nat \ {0}
  PROVE  /\ n \div d \in 0 .. n
         /\ d * (n \div d) <= n
         /\ d <= n => n \div d >= 1
<1> DEFINE q == n \div d
<1>1. q \in Nat /\ n % d \in 0 .. d - 1 /\ n = d * q + (n % d)
  OBVIOUS
<1>2. \A k \in Nat : k <= d * k /\ d * k \in Nat
  OBVIOUS
<1>3. q <= n /\ d * q <= n
  <2> HIDE DEF q
  <2> QED BY <1>1, <1>2
<1>4. d <= n => q >= 1
  <2> HIDE DEF q
  <2>1. q = 0 => n < d
    BY <1>1
  <2> QED BY <1>1, <2>1
<1> QED BY <1>1, <1>3, <1>4

\* RatePolicy never makes a bucket that admits nothing or never leaks, and a
\* full one drains within a minute, which is far below its TTL of an hour.
THEOREM ViewPoliciesAreSound ==
  \A duration \in Nat : HasBucket(duration) =>
    /\ RatePolicy(duration).capacity \in Nat \ {0}
    /\ RatePolicy(duration).cost \in Nat \ {0}
    /\ RatePolicy(duration).capacity * RatePolicy(duration).cost <= Minute
<1> SUFFICES ASSUME NEW duration \in Nat, HasBucket(duration)
             PROVE  /\ RatePolicy(duration).capacity \in Nat \ {0}
                    /\ RatePolicy(duration).cost \in Nat \ {0}
                    /\ RatePolicy(duration).capacity * RatePolicy(duration).cost <= Minute
  OBVIOUS
<1> DEFINE many == PerMinute(duration)
<1>1. duration \in Nat \ {0} /\ Minute \in Nat \ {0}
  BY FiltersAssumption DEF HasBucket
<1>2. Minute \div duration \in 0 .. Minute
  BY <1>1, Quotient
<1>3. many \in 1 .. Minute
  BY <1>1, <1>2 DEF PerMinute
<1>4. Minute \div many \in 0 .. Minute /\ many * (Minute \div many) <= Minute /\ Minute \div many >= 1
  <2> HIDE DEF many
  <2> QED BY <1>1, <1>3, Quotient
<1>5. RatePolicy(duration).capacity = many /\ RatePolicy(duration).cost = Minute \div many
  BY DEF RatePolicy
<1> QED BY <1>3, <1>4, <1>5

\* A third of a video is asked of the client at least to the whole tick that
\* integer division cuts off, and never more than the video has.
THEOREM WatchIsAThird ==
  \A duration \in Nat : HasBucket(duration) =>
    /\ RequiredWatch(duration) \in 1 .. duration
    /\ duration - 2 <= 3 * RequiredWatch(duration)
<1> SUFFICES ASSUME NEW duration \in Nat, HasBucket(duration)
             PROVE  /\ RequiredWatch(duration) \in 1 .. duration
                    /\ duration - 2 <= 3 * RequiredWatch(duration)
  OBVIOUS
<1>1. duration \in Nat \ {0} /\ ~(duration < MinDuration)
  BY FiltersAssumption DEF HasBucket
<1> QED BY <1>1 DEF RequiredWatch
-----------------------------------------------------------------------------
(* The life of a process. *)

\* The stores among the steps of the construction that are done.
OpenedSoFar ==
  /\ built >= 1 => "postgres" \in opened
  /\ built >= 2 => "redis" \in opened
  /\ built >= 3 => "clickhouse" \in opened

\* What lets a store be closed under its users.
CutShort == late \/ (role = "api" /\ broken)

Unused == inflight = 0 /\ running = {}

\* The inductive invariant: users come after the last store is opened, and
\* the first is closed after the last of them, unless something is cut short.
ProcessInv ==
  /\ built \in Nat
  /\ inflight \in Nat
  /\ opened \subseteq Stores
  /\ stage \in {"building", "running", "draining", "closing", "ended"}
  /\ stage = "building" => Unused /\ OpenedSoFar
  /\ stage \in {"running", "draining"} => opened = Stores
  /\ stage = "closing" => CutShort \/ Unused
  /\ stage = "ended" => opened = {}

LEMMA StepsOpenStores ==
  /\ Len(Steps) \in {3, 6}
  /\ Steps[1] = "postgres" /\ Steps[2] = "redis" /\ Steps[3] = "clickhouse"
BY DEF Steps

LEMMA ProcessInvInit == ProcessInit => ProcessInv
BY DEF ProcessInit, ProcessInv, Unused, OpenedSoFar, Stores

LEMMA ProcessInvNext == ProcessInv /\ [ProcessNext]_processVars => ProcessInv'
<1> SUFFICES ASSUME ProcessInv, [ProcessNext]_processVars PROVE ProcessInv'
  OBVIOUS
<1> USE DEF ProcessInv, Go, Return
<1>1. CASE Build
  <2>1. /\ stage = "building" /\ stage' = stage /\ built' = built + 1 /\ built < Len(Steps)
        /\ opened' = opened \cup (Stores \cap {Steps[built + 1]})
        /\ inflight' = inflight /\ running' = running
    BY <1>1 DEF Build
  <2>2. /\ built' = 1 => "postgres" \in opened'
        /\ built' = 2 => "redis" \in opened'
        /\ built' = 3 => "clickhouse" \in opened'
    BY <2>1, StepsOpenStores DEF Stores
  <2>3. \A store \in opened : store \in opened'
    BY <2>1
  <2>4. OpenedSoFar'
    <3>1. built' >= 1 => built >= 1 \/ built' = 1
      BY <2>1
    <3>2. built' >= 2 => built >= 2 \/ built' = 2
      BY <2>1
    <3>3. built' >= 3 => built >= 3 \/ built' = 3
      BY <2>1
    <3> QED
      BY <2>1, <2>2, <2>3, <3>1, <3>2, <3>3 DEF OpenedSoFar
  <2> QED
    BY <2>1, <2>4 DEF Unused
<1>2. CASE BuildFails
  BY <1>2 DEF BuildFails, Unused
<1>3. CASE Start
  <2>1. built >= 3
    BY <1>3, StepsOpenStores DEF Start
  <2>2. opened = Stores
    <3>1. OpenedSoFar
      BY <1>3 DEF Start
    <3>2. "postgres" \in opened /\ "redis" \in opened /\ "clickhouse" \in opened
      BY <2>1, <3>1 DEF OpenedSoFar
    <3> QED
      BY <3>2 DEF Stores
  <2> QED
    BY <1>3, <2>2 DEF Start
<1>4. CASE Arrive
  BY <1>4 DEF Arrive
<1>5. CASE Respond
  BY <1>5 DEF Respond, Unused, OpenedSoFar, CutShort
<1>6. CASE ServerFails
  BY <1>6 DEF ServerFails, CutShort
<1>7. CASE Query \/ Reply
  BY <1>7 DEF Query, Reply, Unused, OpenedSoFar, CutShort
<1>8. ASSUME NEW g \in running, running' = running \ {g},
             UNCHANGED <<role, stage, built, opened, inflight, late>>, broken' \in {broken, TRUE}
      PROVE  ProcessInv'
  BY <1>8 DEF Unused, CutShort
<1>9. ASSUME NEW c \in Consumers, ConsumerFails(c) PROVE ProcessInv'
  BY <1>8, <1>9 DEF ConsumerFails
<1>10. CASE ConsumerQuits
  BY <1>8, <1>10 DEF ConsumerQuits
<1>11. CASE MetricsFails
  BY <1>8, <1>11 DEF MetricsFails
<1>12. ASSUME NEW g, GoroutineStops(g) PROVE ProcessInv'
  BY <1>8, <1>12 DEF GoroutineStops
<1>13. CASE Signal
  BY <1>13 DEF Signal, Unused, OpenedSoFar, CutShort
<1>14. CASE Stop
  BY <1>14 DEF Stop
<1>15. CASE Drained
  BY <1>15 DEF Drained, Unused
<1>16. CASE DrainTimeout
  BY <1>16 DEF DrainTimeout, CutShort
<1>17. CASE CloseNext
  BY <1>17 DEF CloseNext, IsNext, Unused, CutShort
<1>18. CASE End
  BY <1>18 DEF End
<1>19. CASE UNCHANGED processVars
  BY <1>19 DEF processVars, Unused, OpenedSoFar, CutShort
<1> QED
  BY <1>1, <1>2, <1>3, <1>4, <1>5, <1>6, <1>7, <1>9, <1>10, <1>11, <1>12, <1>13, <1>14, <1>15,
     <1>16, <1>17, <1>18, <1>19 DEF ProcessNext, Run

\* With any number of requests in flight, no store is closed under a request
\* or a consumer, unless the drain is cut off or the listener fails, and none
\* is left open when main returns.
THEOREM StoresStay == ProcessSpec => []StoresOutliveTheirUsers
<1>1. ProcessInv => StoresOutliveTheirUsers
  BY DEF ProcessInv, StoresOutliveTheirUsers, Unused, CutShort
<1> QED
  BY ProcessInvInit, ProcessInvNext, <1>1, PTL DEF ProcessSpec
=============================================================================
