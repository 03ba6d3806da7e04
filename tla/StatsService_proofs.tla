------------------------- MODULE StatsService_proofs -------------------------
(***************************************************************************)
(* The safety of the stats service for every set of replicas and requests, *)
(* and any number of changes, expiries and faults.                         *)
(***************************************************************************)
EXTENDS StatsService, TLAPS

USE DEF Inside, Fetching, Begun, Final

-----------------------------------------------------------------------------
(* How a step moves one request, or everyone who shares its fetch. *)

Sharing(q) == {q} \cup {r \in Request : pc[r] = "joined" /\ Home[r] = Home[q]}

Label == {"idle"} \cup Begun \cup Final

\* A request that goes on keeps its fetch.
LEMMA GotoEffect ==
  ASSUME TypeOK, NEW q \in Request, NEW label \in Label, Goto(q, label),
         pc[q] \in Fetching => label \in Fetching
  PROVE  /\ pc' \in [Request -> Label]
         /\ \A r \in Request : pc'[r] = IF r = q THEN label ELSE pc[r]
         /\ flight' = flight /\ value' = value
         /\ \A p \in Replica : flight[p] # None => pc'[flight[p]] \in Fetching
BY DEF Goto, TypeOK, Label

\* A fetch that ends takes those who joined it along, and clears the group.
LEMMA FinishEffect ==
  ASSUME TypeOK, NEW q \in Request, NEW outcome \in Final, NEW v \in Partial,
         Finish(q, outcome, v)
  PROVE  /\ pc' \in [Request -> Label] /\ value' \in [Request -> Partial]
         /\ flight' \in [Replica -> Request \cup {None}]
         /\ \A r \in Request : pc'[r] = IF r \in Sharing(q) THEN outcome ELSE pc[r]
         /\ \A r \in Request : value'[r] = IF r \in Sharing(q) THEN v ELSE value[r]
         /\ \A p \in Replica : flight'[p] = IF p = Home[q] THEN None ELSE flight[p]
         /\ \A p \in Replica : flight'[p] # None =>
              flight'[p] = flight[p] /\ pc'[flight[p]] = pc[flight[p]]
BY StatsAssumption DEF Finish, Sharing, TypeOK, Label

-----------------------------------------------------------------------------
(* Type correctness. *)

\* The part of it that Goto and Finish move.
MovesTypeOK ==
  /\ pc \in [Request -> Label]
  /\ value \in [Request -> Partial]
  /\ flight \in [Replica -> Request \cup {None}]
  /\ \A p \in Replica : flight[p] # None => Home[flight[p]] = p /\ pc[flight[p]] \in Fetching

LEMMA GotoType ==
  ASSUME TypeOK, NEW q \in Request, NEW label \in Label, Goto(q, label),
         pc[q] \in Fetching => label \in Fetching
  PROVE  MovesTypeOK'
<1>1. MovesTypeOK
  BY DEF MovesTypeOK, TypeOK, Label
<1> QED
  BY <1>1, GotoEffect DEF MovesTypeOK

LEMMA FinishType ==
  ASSUME TypeOK, NEW q \in Request, NEW outcome \in Final, NEW v \in Partial,
         Finish(q, outcome, v)
  PROVE  MovesTypeOK'
<1>1. MovesTypeOK
  BY DEF MovesTypeOK, TypeOK, Label
<1> QED
  BY <1>1, FinishEffect DEF MovesTypeOK

LEMMA FaultType ==
  ASSUME TypeOK
  PROVE  /\ Fault => faults' \in 0 .. MaxFaults
         /\ \A q \in Request : CallFails(q) => faults' \in 0 .. MaxFaults
BY StatsAssumption DEF TypeOK, Fault, CallFails

LEMMA ValueTypes == TypeOK => Counts \subseteq Partial /\ Unread \in Partial
BY StatsAssumption DEF Counts, Partial, Unread

\* The steps that leave truth, cache and part alone.
Rest ==
  /\ UNCHANGED <<stored, truth, part, cache, expiries>>
  /\ lock' \in Request \cup {None}
  /\ locked' \subseteq Request /\ gone' \subseteq Request
  /\ lapsed' \subseteq Request /\ strayed' \subseteq Request /\ broken' \subseteq Request
  /\ faults' \in 0 .. MaxFaults

LEMMA RestType == TypeOK /\ MovesTypeOK' /\ Rest => TypeOK'
BY DEF TypeOK, MovesTypeOK, Rest, Label

LEMMA TypeInit == Init => TypeOK
BY StatsAssumption DEF Init, TypeOK, Counts, Partial, Unread, Backend

LEMMA TypeServe ==
  ASSUME TypeOK, NEW q \in Request, Serve(q)
  PROVE  TypeOK'
<1>0. Unread \in Partial /\ Counts \subseteq Partial /\ part[q] \in Partial
  BY ValueTypes DEF TypeOK
<1>1. CASE Hit(q)
  <2>1. cache \in Partial
    BY <1>1 DEF Hit, TypeOK
  <2> QED
    BY <1>1, <2>1 DEF Hit, TypeOK, backendVars, redisVars, history
<1>2. CASE Miss(q)
  <2>1. faults' \in 0 .. MaxFaults
    BY <1>2, FaultType DEF Miss, TypeOK
  <2>2. MovesTypeOK'
    BY <1>2, GotoType DEF Miss, Label
  <2> QED
    BY <1>2, <2>1, <2>2, RestType DEF Miss, Rest, TypeOK, backendVars, redisVars, history
<1>3. CASE Do(q)
  <2>1. MovesTypeOK'
    BY <1>3, StatsAssumption DEF Do, TypeOK, MovesTypeOK, Label
  <2> QED
    BY <1>3, <2>1, RestType DEF Do, Rest, TypeOK, backendVars, redisVars, history
<1>4. CASE CheckExists(q)
  <2>1. MovesTypeOK'
    BY <1>0, <1>4, GotoType, FinishType DEF CheckExists, Label
  <2> QED
    BY <1>4, <2>1, RestType DEF CheckExists, Rest, TypeOK, backendVars, redisVars, history
<1>5. CASE ExistsFails(q)
  <2>1. MovesTypeOK'
    BY <1>0, <1>5, FinishType DEF ExistsFails
  <2> QED
    BY <1>5, <2>1, RestType, FaultType DEF ExistsFails, Rest, TypeOK, backendVars, redisVars
<1>6. CASE AcquireLock(q)
  <2>1. MovesTypeOK'
    BY <1>6, GotoType DEF AcquireLock, Label
  <2> QED
    BY <1>6, <2>1, RestType DEF AcquireLock, Rest, TypeOK, backendVars, history
<1>7. CASE AcquireFails(q) \/ ReReadFails(q)
  <2>1. MovesTypeOK'
    BY <1>7, GotoType DEF AcquireFails, ReReadFails, Label
  <2> QED
    BY <1>7, <2>1, RestType, FaultType
    DEF AcquireFails, ReReadFails, Rest, TypeOK, backendVars, redisVars, history
<1>8. CASE AcquireUnknown(q)
  <2>1. MovesTypeOK'
    BY <1>8, GotoType DEF AcquireUnknown, Label
  <2> QED
    BY <1>8, <2>1, RestType, FaultType DEF AcquireUnknown, Rest, TypeOK, backendVars
<1>9. CASE ReRead(q) \/ GiveUp(q)
  <2>1. cache # None => cache \in Partial
    BY DEF TypeOK
  <2>2. MovesTypeOK'
    BY <1>0, <1>9, <2>1, GotoType, FinishType DEF ReRead, GiveUp, Label
  <2> QED
    BY <1>9, <2>2, RestType DEF ReRead, GiveUp, Rest, TypeOK, backendVars, redisVars, history
<1>10. CASE \E b \in Backend : ReadBackend(q, b)
  <2>1. PICK b \in Backend : ReadBackend(q, b)
    BY <1>10
  <2>2. MovesTypeOK'
    BY <2>1, GotoType DEF ReadBackend, Label
  <2>3. part' \in [Request -> Partial]
    BY <2>1, StatsAssumption DEF ReadBackend, TypeOK, Partial, Counts
  <2> QED
    BY <2>1, <2>2, <2>3
    DEF ReadBackend, TypeOK, MovesTypeOK, Label, backendVars, redisVars, history
<1>11. CASE ComputeFails(q)
  <2>1. MovesTypeOK'
    BY <1>0, <1>11, GotoType, FinishType DEF ComputeFails, Label
  <2> QED
    BY <1>11, <2>1, RestType, FaultType DEF ComputeFails, Rest, TypeOK, backendVars, redisVars
<1>12. CASE WriteCache(q) \/ WriteFails(q)
  <2>1. MovesTypeOK'
    BY <1>0, <1>12, GotoType, FinishType DEF WriteCache, WriteFails, Written, Label
  <2>2. faults' \in 0 .. MaxFaults
    BY <1>12, FaultType DEF WriteCache, WriteFails, TypeOK
  <2>3. cache' \in Partial \cup {None}
    BY <1>0, <1>12 DEF WriteCache, WriteFails, TypeOK, redisVars
  <2> QED
    BY <1>12, <2>1, <2>2, <2>3
    DEF WriteCache, WriteFails, TypeOK, MovesTypeOK, Label, backendVars, redisVars, history
<1>13. CASE ReleaseLock(q) \/ ReleaseFails(q)
  <2>1. MovesTypeOK'
    BY <1>0, <1>13, FinishType DEF ReleaseLock, ReleaseFails, Return
  <2>2. faults' \in 0 .. MaxFaults
    BY <1>13, FaultType DEF ReleaseLock, ReleaseFails, TypeOK
  <2> QED
    BY <1>13, <2>1, <2>2, RestType
    DEF ReleaseLock, ReleaseFails, Rest, TypeOK, backendVars, redisVars, history
<1> QED
  BY <1>1, <1>2, <1>3, <1>4, <1>5, <1>6, <1>7, <1>8, <1>9, <1>10, <1>11, <1>12, <1>13 DEF Serve

LEMMA TypeNext == TypeOK /\ [Next]_vars => TypeOK'
<1> SUFFICES ASSUME TypeOK, [Next]_vars PROVE TypeOK'
  OBVIOUS
<1>1. ASSUME NEW q \in Request, HangUp(q) PROVE TypeOK'
  BY <1>1, FaultType DEF HangUp, TypeOK, backendVars, redisVars, fetchVars, history
<1>2. ASSUME NEW p \in Replica, Crash(p) PROVE TypeOK'
  <2>1. MovesTypeOK'
    BY <1>2 DEF Crash, TypeOK, MovesTypeOK, Label
  <2> QED
    BY <1>2, <2>1, RestType, FaultType DEF Crash, Rest, TypeOK, backendVars, redisVars, history
<1>3. CASE LockExpires
  BY <1>3, StatsAssumption DEF LockExpires, TypeOK, backendVars, fetchVars
<1>4. CASE CacheExpires
  BY <1>4, StatsAssumption DEF CacheExpires, TypeOK, backendVars, fetchVars
<1>5. ASSUME NEW b \in Backend, Change(b) PROVE TypeOK'
  <2>1. \A c \in Backend : truth[c] \in Nat /\ truth[c] >= 1
    BY StatsAssumption DEF TypeOK, Counts
  <2>2. truth[b] + 1 \in 1 .. 1 + MaxChanges
    BY <1>5, <2>1, StatsAssumption DEF Change, Backend
  <2> QED
    BY <1>5, <2>2 DEF Change, TypeOK, Counts, redisVars, fetchVars, history
<1>6. CASE UNCHANGED vars
  BY <1>6 DEF vars, TypeOK, backendVars, redisVars, fetchVars, history
<1> QED
  BY <1>1, <1>2, <1>3, <1>4, <1>5, <1>6, TypeServe DEF Next

\* Every reachable state is of the declared types, and the request that a
\* singleflight group names is fetching for that replica.
THEOREM TypeCorrect == Spec => []TypeOK
BY TypeInit, TypeNext, PTL DEF Spec

-----------------------------------------------------------------------------
(* One fetch per replica: a request that fetches is the one that the group *)
(* of its replica names.                                                   *)

FlightInv == \A q \in Request : pc[q] \in Fetching => flight[Home[q]] = q

\* What a step of a request does to pc and the group: it goes on, it returns
\* with those who joined it, it is answered at once, or it comes to the group.
GoesOn(q) ==
  /\ flight' = flight /\ value' = value
  /\ pc[q] \in Fetching \/ pc'[q] \notin Fetching
  /\ \A r \in Request : r # q => pc'[r] = pc[r]

Returns(q) ==
  /\ pc'[q] \in Final
  /\ \A r \in Request : pc'[r] = IF r \in Sharing(q) THEN pc'[q] ELSE pc[r]
  /\ \A p \in Replica : flight'[p] = IF p = Home[q] THEN None ELSE flight[p]

LEMMA ServeMoves ==
  ASSUME TypeOK, NEW q \in Request, Serve(q)
  PROVE  GoesOn(q) \/ (pc[q] \in Fetching /\ Returns(q)) \/ Hit(q) \/ Do(q)
<1>0. Unread \in Partial /\ part[q] \in Partial /\ (cache # None => cache \in Partial)
  BY ValueTypes DEF TypeOK
<1>1. ASSUME NEW label \in Label, Goto(q, label),
             pc[q] \in Fetching => label \in Fetching,
             pc[q] \in Fetching \/ label \notin Fetching
      PROVE  GoesOn(q)
  BY <1>1, GotoEffect DEF GoesOn
<1>2. ASSUME NEW outcome \in Final, NEW v \in Partial, Finish(q, outcome, v)
      PROVE  Returns(q)
  BY <1>2, FinishEffect DEF Returns, Sharing
<1>3. CASE Miss(q)
  BY <1>1, <1>3 DEF Miss, Label
<1>4. CASE AcquireLock(q) \/ AcquireFails(q) \/ AcquireUnknown(q) \/ ReReadFails(q)
  BY <1>1, <1>4 DEF AcquireLock, AcquireFails, AcquireUnknown, ReReadFails, Label
<1>5. CASE \E b \in Backend : ReadBackend(q, b)
  BY <1>1, <1>5 DEF ReadBackend, Label
<1>6. CASE ExistsFails(q) \/ GiveUp(q)
  BY <1>0, <1>2, <1>6 DEF ExistsFails, GiveUp
<1>7. CASE ReleaseLock(q) \/ ReleaseFails(q)
  BY <1>0, <1>2, <1>7 DEF ReleaseLock, ReleaseFails, Return
<1>8. CASE CheckExists(q) \/ ReRead(q)
  BY <1>0, <1>1, <1>2, <1>8 DEF CheckExists, ReRead, Label
<1>9. CASE ComputeFails(q)
  BY <1>0, <1>1, <1>2, <1>9 DEF ComputeFails, Label
<1>10. CASE WriteCache(q) \/ WriteFails(q)
  BY <1>0, <1>1, <1>2, <1>10 DEF WriteCache, WriteFails, Written, Label
<1> QED
  BY <1>3, <1>4, <1>5, <1>6, <1>7, <1>8, <1>9, <1>10 DEF Serve

LEMMA FlightNext == TypeOK /\ FlightInv /\ [Next]_vars => FlightInv'
<1> SUFFICES ASSUME TypeOK, FlightInv, [Next]_vars PROVE FlightInv'
  OBVIOUS
<1> USE StatsAssumption
<1>1. ASSUME NEW q \in Request, Serve(q) PROVE FlightInv'
  <2>1. CASE GoesOn(q)
    BY <2>1 DEF GoesOn, FlightInv
  <2>2. CASE pc[q] \in Fetching /\ Returns(q)
    BY <2>2 DEF Returns, Sharing, FlightInv
  <2>3. CASE Hit(q)
    BY <2>3 DEF Hit, FlightInv, TypeOK
  <2>4. CASE Do(q)
    BY <2>4 DEF Do, FlightInv, TypeOK
  <2> QED
    BY <1>1, <2>1, <2>2, <2>3, <2>4, ServeMoves
<1>2. ASSUME NEW q \in Request, HangUp(q) PROVE FlightInv'
  BY <1>2 DEF HangUp, fetchVars, FlightInv
<1>3. ASSUME NEW p \in Replica, Crash(p) PROVE FlightInv'
  BY <1>3 DEF Crash, FlightInv, TypeOK
<1>4. CASE LockExpires \/ CacheExpires \/ \E b \in Backend : Change(b)
  BY <1>4 DEF LockExpires, CacheExpires, Change, fetchVars, FlightInv
<1>5. CASE UNCHANGED vars
  BY <1>5 DEF vars, fetchVars, FlightInv
<1> QED
  BY <1>1, <1>2, <1>3, <1>4, <1>5 DEF Next

LEMMA FlightCorrect == Spec => []FlightInv
<1>1. Init => FlightInv
  BY DEF Init, FlightInv
<1> QED
  BY <1>1, FlightNext, TypeCorrect, PTL DEF Spec

\* At most one request of a replica fetches at a time, through hang-ups, failed
\* calls and crashes, with any number of requests.
THEOREM OneFetchAtATime == Spec => []OneFetchPerReplica
<1>1. FlightInv => OneFetchPerReplica
  BY DEF FlightInv, OneFetchPerReplica
<1> QED
  BY <1>1, FlightCorrect, PTL

-----------------------------------------------------------------------------
(* The lock: its value is the token of its holder until the TTL passes, and *)
(* gotLock is only ever set in a fetch that goes on to release.             *)

LockInv ==
  /\ \A q \in locked : pc[q] \in Inside \cup Final
  /\ \A q \in Owners : lock = q
  /\ LocksAreReturned

\* A step that leaves the lock alone, by a request that has it and keeps it, or
\* by one that does not have it.
LEMMA LockKept ==
  ASSUME TypeOK, LockInv, NEW q \in Request,
         GoesOn(q) \/ (pc[q] \in Fetching /\ Returns(q)),
         UNCHANGED <<lock, locked, lapsed>>, strayed \subseteq strayed',
         q \in locked => pc'[q] \in Inside \/ q \in strayed',
         q \in locked => pc'[q] \in Inside \cup Final,
         pc[q] \notin Final
  PROVE  LockInv'
<1>1. \A r \in locked : r # q => pc'[r] = pc[r]
  BY DEF LockInv, GoesOn, Returns, Sharing, TypeOK
<1>2. \A r \in Request : pc[r] = "dead" => pc'[r] = "dead"
  BY DEF GoesOn, Returns, Sharing
<1> QED
  BY <1>1, <1>2, StatsAssumption DEF LockInv, Owners, LocksAreReturned, TypeOK

LEMMA LockServe ==
  ASSUME TypeOK, LockInv, NEW q \in Request, Serve(q)
  PROVE  LockInv'
<1> USE StatsAssumption
<1>0. /\ GoesOn(q) \/ (pc[q] \in Fetching /\ Returns(q)) \/ Hit(q) \/ Do(q)
      /\ pc[q] \notin Inside => q \notin locked \/ pc[q] \in Final
  BY ServeMoves DEF LockInv
<1>1. CASE Hit(q) \/ Do(q)
  BY <1>0, <1>1
  DEF Hit, Do, LockInv, Owners, LocksAreReturned, TypeOK, redisVars, history
<1>2. CASE Miss(q) \/ CheckExists(q) \/ ExistsFails(q) \/ AcquireFails(q)
           \/ ReRead(q) \/ ReReadFails(q) \/ GiveUp(q)
  <2>1. q \notin locked /\ pc[q] \notin Final /\ ~Hit(q) /\ ~Do(q)
    BY <1>0, <1>2
    DEF Miss, CheckExists, ExistsFails, AcquireFails, ReRead, ReReadFails, GiveUp, Hit, Do,
        Goto, TypeOK
  <2>2. UNCHANGED <<lock, locked, lapsed, strayed>>
    BY <1>2 DEF Miss, CheckExists, ExistsFails, AcquireFails, ReRead, ReReadFails, GiveUp,
                redisVars, history
  <2> QED
    BY <1>0, <2>1, <2>2, LockKept
<1>3. CASE AcquireLock(q)
  <2>1. pc' = [pc EXCEPT ![q] = IF lock = None THEN "computing" ELSE "waiting"]
    BY <1>3 DEF AcquireLock, Goto
  <2>2. q \notin locked
    BY <1>0, <1>3 DEF AcquireLock
  <2>3. CASE lock = None
    BY <1>3, <2>1, <2>3
    DEF AcquireLock, LockInv, Owners, LocksAreReturned, TypeOK, history
  <2>4. CASE lock # None
    BY <1>3, <2>1, <2>2, <2>4
    DEF AcquireLock, LockInv, Owners, LocksAreReturned, TypeOK, history
  <2> QED
    BY <2>3, <2>4
<1>4. CASE AcquireUnknown(q)
  <2>1. q \notin locked
    BY <1>0, <1>4 DEF AcquireUnknown
  <2> QED
    BY <1>4, <2>1 DEF AcquireUnknown, Goto, LockInv, Owners, LocksAreReturned, TypeOK
<1>5. CASE (\E b \in Backend : ReadBackend(q, b)) \/ ComputeFails(q)
           \/ WriteCache(q) \/ WriteFails(q)
  <2>1. pc[q] \in Inside /\ ~Hit(q) /\ ~Do(q)
    BY <1>5 DEF ReadBackend, ComputeFails, WriteCache, WriteFails, Hit, Do
  <2>2. UNCHANGED <<lock, locked, lapsed, strayed>>
    BY <1>5 DEF ReadBackend, ComputeFails, WriteCache, WriteFails, redisVars, history
  <2>3. q \in locked => pc'[q] \in Inside
    BY <1>5 DEF ReadBackend, ComputeFails, WriteCache, WriteFails, Written, Goto, TypeOK
  <2> QED
    BY <1>0, <2>1, <2>2, <2>3, LockKept
<1>6. CASE ReleaseLock(q)
  <2>1. Returns(q) /\ pc[q] \in Inside
    BY <1>0, <1>6 DEF ReleaseLock, Return, Finish, Returns, Sharing, GoesOn, Hit, Do, TypeOK
  <2>2. \A r \in locked : r # q => pc'[r] = pc[r]
    BY <2>1 DEF LockInv, Returns, Sharing, TypeOK
  <2>3. \A r \in Request : pc[r] = "dead" => pc'[r] = "dead"
    BY <2>1 DEF Returns, Sharing
  <2>4. pc'[q] \in Final
    BY <2>1 DEF Returns
  <2> QED
    BY <1>6, <2>2, <2>3, <2>4
    DEF ReleaseLock, LockInv, Owners, LocksAreReturned, TypeOK, history
<1>7. CASE ReleaseFails(q)
  <2>1. Returns(q) /\ pc[q] \in Inside
    BY <1>0, <1>7 DEF ReleaseFails, Return, Finish, Returns, Sharing, GoesOn, Hit, Do, TypeOK
  <2>2. pc'[q] \in Final
    BY <2>1 DEF Returns
  <2>3. UNCHANGED <<lock, locked, lapsed>> /\ strayed' = strayed \cup {q}
    BY <1>7 DEF ReleaseFails, redisVars
  <2> QED
    BY <2>1, <2>2, <2>3, LockKept
<1> QED
  BY <1>1, <1>2, <1>3, <1>4, <1>5, <1>6, <1>7 DEF Serve

LEMMA LockNext == TypeOK /\ LockInv /\ [Next]_vars => LockInv'
<1> SUFFICES ASSUME TypeOK, LockInv, [Next]_vars PROVE LockInv'
  OBVIOUS
<1> USE StatsAssumption DEF LockInv, Owners, LocksAreReturned
<1>1. ASSUME NEW q \in Request, HangUp(q) PROVE LockInv'
  BY <1>1 DEF HangUp, fetchVars, redisVars, history
<1>2. ASSUME NEW p \in Replica, Crash(p) PROVE LockInv'
  BY <1>2 DEF Crash, TypeOK, redisVars, history
<1>3. CASE LockExpires
  BY <1>3 DEF LockExpires, fetchVars, TypeOK
<1>4. CASE CacheExpires \/ \E b \in Backend : Change(b)
  BY <1>4 DEF CacheExpires, Change, fetchVars, redisVars, history
<1>5. CASE UNCHANGED vars
  BY <1>5 DEF vars, fetchVars, redisVars, history
<1> QED
  BY <1>1, <1>2, <1>3, <1>4, <1>5, LockServe DEF Next

LEMMA LockCorrect == Spec => []LockInv
<1>1. Init => LockInv
  BY DEF Init, LockInv, Owners, LocksAreReturned
<1> QED
  BY <1>1, LockNext, TypeCorrect, PTL DEF Spec

\* Two requests have the lock at once only when one of them has outlived its
\* TTL: releaseLock never deletes the lock of a successor.
THEOREM LockHasOneOwner == Spec => []OneOwner
<1>1. LockInv => OneOwner
  BY DEF LockInv, OneOwner
<1> QED
  BY <1>1, LockCorrect, PTL

\* Every way out of fetch gives the lock back: one that is left to its TTL comes
\* from a SETNX or a release that failed, or from a crash.
THEOREM NoLockIsForgotten == Spec => []LocksAreReturned
<1>1. LockInv => LocksAreReturned
  BY DEF LockInv
<1> QED
  BY <1>1, LockCorrect, PTL

-----------------------------------------------------------------------------
(* No value is half computed. *)

WholeInv ==
  /\ NothingHalfComputed
  /\ \A q \in Request, b \in Backend : part[q][b] \in 0 .. truth[b]
  /\ \A q \in Request : pc[q] \in {"writing", "releasing"} => Whole(part[q])

\* A fetch that returns a whole value, or none, to those who share it.
LEMMA WholeFinish ==
  ASSUME TypeOK, WholeInv, NEW q \in Request, NEW outcome \in Final, NEW v \in Partial,
         Finish(q, outcome, v), outcome = "answered" => Whole(v),
         UNCHANGED <<truth, part>>, cache' = cache \/ (cache' = part[q] /\ Whole(part[q]))
  PROVE  WholeInv'
<1>1. /\ \A r \in Request : pc'[r] = IF r \in Sharing(q) THEN outcome ELSE pc[r]
      /\ \A r \in Request : value'[r] = IF r \in Sharing(q) THEN v ELSE value[r]
  BY FinishEffect
<1> QED
  BY <1>1 DEF WholeInv, NothingHalfComputed, Whole

\* A fetch that goes on, and computes a whole value before it writes one.
LEMMA WholeGoto ==
  ASSUME TypeOK, WholeInv, NEW q \in Request, NEW label \in Begun, Goto(q, label),
         label \in {"writing", "releasing"} => Whole(part[q]),
         UNCHANGED <<truth, part>>, cache' = cache \/ (cache' = part[q] /\ Whole(part[q]))
  PROVE  WholeInv'
<1>1. value' = value /\ \A r \in Request : pc'[r] = IF r = q THEN label ELSE pc[r]
  BY DEF Goto, TypeOK
<1> QED
  BY <1>1 DEF WholeInv, NothingHalfComputed, Whole

LEMMA WholeServe ==
  ASSUME TypeOK, WholeInv, NEW q \in Request, Serve(q)
  PROVE  WholeInv'
<1>0. /\ Unread \in Partial /\ part[q] \in Partial /\ (cache # None => cache \in Partial)
      /\ cache # None => Whole(cache)
      /\ pc[q] \in {"writing", "releasing"} => Whole(part[q])
  BY ValueTypes DEF TypeOK, WholeInv, NothingHalfComputed
<1>1. CASE Hit(q)
  BY <1>0, <1>1
  DEF Hit, TypeOK, WholeInv, NothingHalfComputed, Whole, backendVars, redisVars
<1>2. CASE Do(q)
  BY <1>2 DEF Do, TypeOK, WholeInv, NothingHalfComputed, Whole, backendVars, redisVars
<1>3. CASE Miss(q) \/ AcquireFails(q) \/ ReReadFails(q)
  BY <1>3, WholeGoto DEF Miss, AcquireFails, ReReadFails, backendVars, redisVars
<1>4. CASE AcquireLock(q) \/ AcquireUnknown(q)
  BY <1>4, WholeGoto DEF AcquireLock, AcquireUnknown, backendVars
<1>5. CASE ExistsFails(q) \/ GiveUp(q)
  BY <1>0, <1>5, WholeFinish DEF ExistsFails, GiveUp, backendVars, redisVars
<1>6. CASE CheckExists(q)
  BY <1>0, <1>6, WholeFinish, WholeGoto DEF CheckExists, backendVars, redisVars
<1>7. CASE ReRead(q)
  BY <1>0, <1>7, WholeFinish, WholeGoto DEF ReRead, backendVars, redisVars
<1>8. CASE \E b \in Backend : ReadBackend(q, b)
  <2>1. PICK b \in Backend : ReadBackend(q, b)
    BY <1>8
  <2>2. PICK label \in {"writing", "computing"} :
          /\ Goto(q, label)
          /\ label = "writing" => \A c \in Backend \ {b} : part[q][c] > 0
    BY <2>1 DEF ReadBackend
  <2>3. /\ truth' = truth /\ cache' = cache /\ value' = value
        /\ \A r \in Request : pc'[r] = IF r = q THEN label ELSE pc[r]
        /\ \A r \in Request, c \in Backend :
             part'[r][c] = IF r = q /\ c = b THEN truth[b] ELSE part[r][c]
    BY <2>1, <2>2 DEF ReadBackend, Goto, TypeOK, Partial, backendVars, redisVars
  <2>4. truth[b] \in Nat /\ truth[b] >= 1
    BY StatsAssumption DEF TypeOK, Counts
  <2>5. Whole(part[q])' \/ label # "writing"
    BY <2>2, <2>3, <2>4 DEF Whole, WholeInv
  <2>6. \A r \in Request : r # q => Whole(part[r])' \/ ~Whole(part[r])
    BY <2>3 DEF Whole
  <2> QED
    BY <2>2, <2>3, <2>4, <2>5, <2>6 DEF WholeInv, NothingHalfComputed, Whole
<1>9. CASE ComputeFails(q)
  BY <1>0, <1>9, WholeFinish, WholeGoto DEF ComputeFails, backendVars, redisVars
<1>10. CASE WriteCache(q) \/ WriteFails(q)
  BY <1>0, <1>10, WholeFinish, WholeGoto DEF WriteCache, WriteFails, Written, backendVars, redisVars
<1>11. CASE ReleaseLock(q) \/ ReleaseFails(q)
  BY <1>0, <1>11, WholeFinish DEF ReleaseLock, ReleaseFails, Return, backendVars, redisVars
<1> QED
  BY <1>1, <1>2, <1>3, <1>4, <1>5, <1>6, <1>7, <1>8, <1>9, <1>10, <1>11 DEF Serve

LEMMA WholeNext == TypeOK /\ WholeInv /\ [Next]_vars => WholeInv'
<1> SUFFICES ASSUME TypeOK, WholeInv, [Next]_vars PROVE WholeInv'
  OBVIOUS
<1> USE DEF WholeInv, NothingHalfComputed, Whole
<1>1. ASSUME NEW q \in Request, HangUp(q) PROVE WholeInv'
  BY <1>1 DEF HangUp, fetchVars, backendVars, redisVars
<1>2. ASSUME NEW p \in Replica, Crash(p) PROVE WholeInv'
  BY <1>2 DEF Crash, TypeOK, backendVars, redisVars
<1>3. CASE LockExpires \/ CacheExpires
  BY <1>3 DEF LockExpires, CacheExpires, fetchVars, backendVars
<1>4. ASSUME NEW b \in Backend, Change(b) PROVE WholeInv'
  <2>1. \A c \in Backend : truth[c] \in Nat /\ truth'[c] \in Nat /\ truth[c] <= truth'[c]
    BY <1>4, StatsAssumption DEF Change, TypeOK, Counts
  <2>2. \A c \in Backend : 0 .. truth[c] \subseteq 0 .. truth'[c] /\ 1 .. truth[c] \subseteq 1 .. truth'[c]
    BY <2>1
  <2>3. UNCHANGED <<cache, pc, part, value>>
    BY <1>4 DEF Change, fetchVars, redisVars
  <2> QED
    BY <2>2, <2>3
<1>5. CASE UNCHANGED vars
  BY <1>5 DEF vars, fetchVars, redisVars, backendVars
<1> QED
  BY <1>1, <1>2, <1>3, <1>4, <1>5, WholeServe DEF Next

\* Whatever fails, no answer and no cached value has a part that was not read,
\* or more than its backend has.
THEOREM ValuesAreWhole == Spec => []NothingHalfComputed
<1>1. Init => WholeInv
  BY DEF Init, WholeInv, NothingHalfComputed, Whole, Unread
<1>2. WholeInv => NothingHalfComputed
  BY DEF WholeInv
<1> QED
  BY <1>1, <1>2, WholeNext, TypeCorrect, PTL DEF Spec

-----------------------------------------------------------------------------
(* Errors come from a backend or from the client of the fetching request. *)

CauseInv ==
  /\ ErrorsHaveCause
  /\ \A q \in Request : pc[q] = "returning" => q \in broken

\* A fetch that fails does so for a cause; what has ended stays.
LEMMA CauseFinish ==
  ASSUME TypeOK, CauseInv, NEW q \in Request, NEW outcome \in Final, NEW v \in Partial,
         Finish(q, outcome, v), pc[q] \notin Final,
         outcome = "failed" => q \in broken' \cup gone',
         broken \subseteq broken', gone \subseteq gone'
  PROVE  CauseInv'
<1>1. \A r \in Request : pc'[r] = IF r \in Sharing(q) THEN outcome ELSE pc[r]
  BY FinishEffect
<1>2. \A r \in Request : pc[r] = "failed" => pc'[r] = "failed"
  BY <1>1 DEF Sharing
<1>3. ASSUME NEW r \in Request, pc'[r] = "failed"
      PROVE  \E l \in broken' \cup gone' : Home[l] = Home[r] /\ pc'[l] = "failed"
  <2>1. CASE r \in Sharing(q)
    <3>1. outcome = "failed" /\ pc'[q] = "failed" /\ Home[q] = Home[r]
      BY <1>1, <1>3, <2>1 DEF Sharing
    <3> QED
      BY <3>1
  <2>2. CASE r \notin Sharing(q)
    <3>1. PICK l \in broken \cup gone : Home[l] = Home[r] /\ pc[l] = "failed"
      BY <1>1, <1>3, <2>2 DEF CauseInv, ErrorsHaveCause
    <3> QED
      BY <1>2, <3>1 DEF TypeOK
  <2> QED
    BY <2>1, <2>2
<1> QED
  BY <1>1, <1>3 DEF CauseInv, ErrorsHaveCause

LEMMA CauseGoto ==
  ASSUME TypeOK, CauseInv, NEW q \in Request, NEW label \in Begun, Goto(q, label),
         pc[q] \notin Final,
         label = "returning" => q \in broken',
         broken \subseteq broken', gone' = gone
  PROVE  CauseInv'
<1>1. \A r \in Request : pc'[r] = IF r = q THEN label ELSE pc[r]
  BY DEF Goto, TypeOK
<1>2. \A r \in Request : pc'[r] = "failed" <=> pc[r] = "failed"
  BY <1>1
<1>3. broken \cup gone \subseteq Request
  BY DEF TypeOK
<1>4. ASSUME NEW r \in Request, pc'[r] = "failed"
      PROVE  \E l \in broken' \cup gone' : Home[l] = Home[r] /\ pc'[l] = "failed"
  <2>1. PICK l \in broken \cup gone : Home[l] = Home[r] /\ pc[l] = "failed"
    BY <1>2, <1>4 DEF CauseInv, ErrorsHaveCause
  <2> QED
    BY <1>2, <1>3, <2>1
<1> QED
  BY <1>1, <1>4 DEF CauseInv, ErrorsHaveCause

LEMMA CauseServe ==
  ASSUME TypeOK, CauseInv, NEW q \in Request, Serve(q)
  PROVE  CauseInv'
<1>0. /\ Unread \in Partial /\ part[q] \in Partial /\ (cache # None => cache \in Partial)
      /\ pc[q] = "returning" => q \in broken
      /\ broken \cup gone \subseteq Request
  BY ValueTypes DEF TypeOK, CauseInv
<1>1. CASE Hit(q) \/ Do(q)
  <2>1. /\ broken' = broken /\ gone' = gone
        /\ \A r \in Request : pc'[r] = "failed" <=> pc[r] = "failed"
        /\ \A r \in Request : pc'[r] = "returning" => pc[r] = "returning"
    BY <1>1 DEF Hit, Do, TypeOK, history
  <2> QED
    BY <1>0, <2>1 DEF CauseInv, ErrorsHaveCause
<1>2. CASE Miss(q) \/ AcquireLock(q) \/ AcquireFails(q) \/ AcquireUnknown(q) \/ ReReadFails(q)
           \/ \E b \in Backend : ReadBackend(q, b)
  BY <1>2, CauseGoto
  DEF Miss, AcquireLock, AcquireFails, AcquireUnknown, ReReadFails, ReadBackend, history
<1>3. CASE ExistsFails(q) \/ GiveUp(q)
  BY <1>0, <1>3, CauseFinish DEF ExistsFails, GiveUp, history
<1>4. CASE CheckExists(q) \/ ReRead(q)
  BY <1>0, <1>4, CauseFinish, CauseGoto DEF CheckExists, ReRead, history
<1>5. CASE ComputeFails(q)
  BY <1>0, <1>5, CauseFinish, CauseGoto DEF ComputeFails
<1>6. CASE WriteCache(q) \/ WriteFails(q)
  BY <1>0, <1>6, CauseFinish, CauseGoto DEF WriteCache, WriteFails, Written, history
<1>7. CASE ReleaseLock(q) \/ ReleaseFails(q)
  BY <1>0, <1>7, CauseFinish DEF ReleaseLock, ReleaseFails, Return, history
<1> QED
  BY <1>1, <1>2, <1>3, <1>4, <1>5, <1>6, <1>7 DEF Serve

LEMMA CauseNext == TypeOK /\ CauseInv /\ [Next]_vars => CauseInv'
<1> SUFFICES ASSUME TypeOK, CauseInv, [Next]_vars PROVE CauseInv'
  OBVIOUS
<1> USE DEF CauseInv, ErrorsHaveCause
<1>0. broken \cup gone \subseteq Request
  BY DEF TypeOK
<1>1. ASSUME NEW q \in Request, HangUp(q) PROVE CauseInv'
  BY <1>1 DEF HangUp, history
<1>2. ASSUME NEW p \in Replica, Crash(p) PROVE CauseInv'
  <2>1. /\ broken' = broken /\ gone' = gone
        /\ \A r \in Request : pc'[r] = "failed" <=> pc[r] = "failed"
        /\ \A r \in Request : pc'[r] = "returning" => pc[r] = "returning"
    BY <1>2 DEF Crash, history
  <2> QED
    BY <1>0, <2>1
<1>3. CASE LockExpires \/ CacheExpires \/ \E b \in Backend : Change(b)
  BY <1>3 DEF LockExpires, CacheExpires, Change, history
<1>4. CASE UNCHANGED vars
  BY <1>4 DEF vars, history
<1> QED
  BY <1>1, <1>2, <1>3, <1>4, CauseServe DEF Next

\* A failing Redis alone never makes Get fail: every error is shared with a
\* request of the same replica that a backend or its own client let down.
THEOREM RedisAloneNeverFails == Spec => []ErrorsHaveCause
<1>1. Init => CauseInv
  BY DEF Init, CauseInv, ErrorsHaveCause
<1>2. CauseInv => ErrorsHaveCause
  BY DEF CauseInv
<1> QED
  BY <1>1, <1>2, CauseNext, TypeCorrect, PTL DEF Spec

=============================================================================
