----------------------------- MODULE StatsService -----------------------------
(***************************************************************************)
(* The stats service of internal/stats: GET /videos/:id/stats for one      *)
(* video, in several API replicas that share Redis, Postgres and           *)
(* ClickHouse.                                                             *)
(*                                                                         *)
(* A request looks in the cache, joins or starts the one fetch of its      *)
(* replica (singleflight), and the request that started it tries the lock  *)
(* of all replicas, computes from the two backends, fills the cache and    *)
(* gives the lock back.  The fetch runs with the context of the request    *)
(* that started it: when that client hangs up, its calls fail.             *)
(*                                                                         *)
(* A Request is one call of Get.  Its identity serves as the random token  *)
(* of the lock.                                                            *)
(***************************************************************************)
EXTENDS Naturals, FiniteSets

CONSTANTS
  Replica,      \* the API processes
  Request,      \* the calls of Get
  Home,         \* the replica that each of them comes to
  None,         \* no value, no token, no request
  MaxChanges,   \* bound: how often a count grows
  MaxExpiries,  \* bound: how often the cached value or the lock expires
  MaxFaults     \* bound: failed calls, lost replies, hang-ups, crashes

ASSUME StatsAssumption ==
  /\ None \notin Request
  /\ Home \in [Request -> Replica]
  /\ MaxChanges \in Nat
  /\ MaxExpiries \in Nat
  /\ MaxFaults \in Nat

VARIABLES
  stored,    \* whether the video exists
  truth,     \* the count that each backend has for it
  cache,     \* the key stats:{id}
  lock,      \* the key lock:stats:{id}: the token of who set it
  pc,        \* where each request is in Get and fetch, and how it ended
  flight,    \* the singleflight group of each replica: the request that fetches
  locked,    \* the requests that have gotLock
  part,      \* what compute of each request has read; 0 before that
  value,     \* what each request was answered
  gone,      \* the requests whose client has hung up
  lapsed,    \* history: the requests whose lock has expired
  strayed,   \* history: the requests that set or may have left a lock unknowingly
  broken,    \* history: the requests for which a backend call failed
  expiries,  \* how often the cached value or the lock has expired
  faults     \* how many faults have happened

backendVars == <<stored, truth>>
redisVars   == <<cache, lock>>
fetchVars   == <<flight, locked, part, value>>
history     == <<lapsed, strayed, broken, expiries>>
vars == <<backendVars, redisVars, pc, fetchVars, gone, history, faults>>

Backend == {"views", "likes"}

\* The counts, what compute may have read of them, and nothing read.
Counts  == [Backend -> 1 .. 1 + MaxChanges]
Partial == [Backend -> 0 .. 1 + MaxChanges]
Unread  == [b \in Backend |-> 0]

Inside   == {"computing", "writing", "releasing", "returning"}
Fetching == {"checking", "locking", "waiting"} \cup Inside
Begun    == {"missed", "joined"} \cup Fetching
Final    == {"answered", "failed", "missing", "dead"}

TypeOK ==
  /\ stored \in BOOLEAN
  /\ truth \in Counts
  /\ cache \in Partial \cup {None}
  /\ lock \in Request \cup {None}
  /\ pc \in [Request -> {"idle"} \cup Begun \cup Final]
  /\ flight \in [Replica -> Request \cup {None}]
  /\ \A p \in Replica : flight[p] # None => Home[flight[p]] = p /\ pc[flight[p]] \in Fetching
  /\ locked \subseteq Request
  /\ part \in [Request -> Partial]
  /\ value \in [Request -> Partial]
  /\ gone \subseteq Request
  /\ lapsed \subseteq Request
  /\ strayed \subseteq Request
  /\ broken \subseteq Request
  /\ expiries \in 0 .. MaxExpiries
  /\ faults \in 0 .. MaxFaults

\* The video has one view and one like, so that a count not read shows.
Init ==
  /\ stored \in BOOLEAN
  /\ truth = [b \in Backend |-> 1]
  /\ cache = None
  /\ lock = None
  /\ pc = [q \in Request |-> "idle"]
  /\ flight = [p \in Replica |-> None]
  /\ locked = {}
  /\ part = [q \in Request |-> Unread]
  /\ value = [q \in Request |-> Unread]
  /\ gone = {}
  /\ lapsed = {}
  /\ strayed = {}
  /\ broken = {}
  /\ expiries = 0
  /\ faults = 0

Fault == faults < MaxFaults /\ faults' = faults + 1

\* A call by q fails: for its cancelled context, or for any other cause.
CallFails(q) == (q \in gone /\ UNCHANGED faults) \/ Fault

Goto(q, label) == pc' = [pc EXCEPT ![q] = label] /\ UNCHANGED <<flight, value>>

\* Mutant: the entry of a finished call stays in the singleflight group.
FinishUnforgotten(q, outcome, v) ==
  LET sharing == {q} \cup {r \in Request : pc[r] = "joined" /\ Home[r] = Home[q]}
  IN  /\ pc' = [r \in Request |-> IF r \in sharing THEN outcome ELSE pc[r]]
      /\ value' = [r \in Request |-> IF r \in sharing THEN v ELSE value[r]]
      /\ UNCHANGED flight

\* fetch returns: the entry of the group goes, and everyone who joined gets
\* the same result.
Finish(q, outcome, v) ==
  LET sharing == {q} \cup {r \in Request : pc[r] = "joined" /\ Home[r] = Home[q]}
  IN  /\ pc' = [r \in Request |-> IF r \in sharing THEN outcome ELSE pc[r]]
      /\ value' = [r \in Request |-> IF r \in sharing THEN v ELSE value[r]]
      /\ flight' = [flight EXCEPT ![Home[q]] = None]

-----------------------------------------------------------------------------
(* Get: the cache, then the group of the replica. *)

Hit(q) ==
  /\ pc[q] = "idle"
  /\ cache # None
  /\ pc' = [pc EXCEPT ![q] = "answered"]
  /\ value' = [value EXCEPT ![q] = cache]
  /\ UNCHANGED <<backendVars, redisVars, flight, locked, part, gone, history, faults>>

\* A failed read of the cache counts as a miss.
Miss(q) ==
  /\ pc[q] = "idle"
  /\ (cache = None /\ UNCHANGED faults) \/ Fault
  /\ Goto(q, "missed")
  /\ UNCHANGED <<backendVars, redisVars, locked, part, gone, history>>

\* Mutant: every request fetches for itself.
DoAlone(q) ==
  /\ pc[q] = "missed"
  /\ pc' = [pc EXCEPT ![q] = "checking"]
  /\ flight' = [flight EXCEPT ![Home[q]] = q]
  /\ UNCHANGED <<backendVars, redisVars, locked, part, value, gone, history, faults>>

\* singleflight: the first request fetches, those that come meanwhile wait.
Do(q) ==
  /\ pc[q] = "missed"
  /\ IF flight[Home[q]] = None
     THEN /\ pc' = [pc EXCEPT ![q] = "checking"]
          /\ flight' = [flight EXCEPT ![Home[q]] = q]
     ELSE pc' = [pc EXCEPT ![q] = "joined"] /\ UNCHANGED flight
  /\ UNCHANGED <<backendVars, redisVars, locked, part, value, gone, history, faults>>

-----------------------------------------------------------------------------
(* fetch. *)

CheckExists(q) ==
  /\ pc[q] = "checking" /\ q \notin gone
  /\ IF stored THEN Goto(q, "locking") ELSE Finish(q, "missing", Unread)
  /\ UNCHANGED <<backendVars, redisVars, locked, part, gone, history, faults>>

ExistsFails(q) ==
  /\ pc[q] = "checking"
  /\ CallFails(q)
  /\ broken' = broken \cup {q}
  /\ Finish(q, "failed", Unread)
  /\ UNCHANGED <<backendVars, redisVars, locked, part, gone, lapsed, strayed, expiries>>

\* acquireLock: SETNX with a token.
AcquireLock(q) ==
  /\ pc[q] = "locking" /\ q \notin gone
  /\ IF lock = None
     THEN lock' = q /\ locked' = locked \cup {q} /\ Goto(q, "computing")
     ELSE UNCHANGED <<lock, locked>> /\ Goto(q, "waiting")
  /\ UNCHANGED <<backendVars, cache, part, gone, history, faults>>

\* Mutant: a failed SETNX ends the fetch with its error.
AcquireFailsFetch(q) ==
  /\ pc[q] = "locking"
  /\ CallFails(q)
  /\ Finish(q, "failed", Unread)
  /\ UNCHANGED <<backendVars, redisVars, locked, part, gone, history>>

\* An error of SETNX counts as not having the lock.
AcquireFails(q) ==
  /\ pc[q] = "locking"
  /\ CallFails(q)
  /\ Goto(q, "waiting")
  /\ UNCHANGED <<backendVars, redisVars, locked, part, gone, history>>

\* So does one that was set and whose reply was lost: no one has its token.
AcquireUnknown(q) ==
  /\ pc[q] = "locking" /\ lock = None
  /\ Fault
  /\ lock' = q
  /\ strayed' = strayed \cup {q}
  /\ Goto(q, "waiting")
  /\ UNCHANGED <<backendVars, cache, locked, part, gone, lapsed, broken, expiries>>

\* Mutant: a request without the lock waits until nobody has it.
ReReadPatiently(q) ==
  /\ pc[q] = "waiting" /\ q \notin gone /\ lock = None
  /\ IF cache # None THEN Finish(q, "answered", cache) ELSE Goto(q, "computing")
  /\ UNCHANGED <<backendVars, redisVars, locked, part, gone, history, faults>>

\* Without the lock: wait lockRetry, look in the cache again, else compute.
ReRead(q) ==
  /\ pc[q] = "waiting" /\ q \notin gone
  /\ IF cache # None THEN Finish(q, "answered", cache) ELSE Goto(q, "computing")
  /\ UNCHANGED <<backendVars, redisVars, locked, part, gone, history, faults>>

ReReadFails(q) ==
  /\ pc[q] = "waiting"
  /\ Fault
  /\ Goto(q, "computing")
  /\ UNCHANGED <<backendVars, redisVars, locked, part, gone, history>>

\* The context is cancelled during the wait.
GiveUp(q) ==
  /\ pc[q] = "waiting" /\ q \in gone
  /\ Finish(q, "failed", Unread)
  /\ UNCHANGED <<backendVars, redisVars, locked, part, gone, history, faults>>

\* compute: the two reads run in parallel, so they come in either order.
ReadBackend(q, b) ==
  /\ pc[q] = "computing" /\ q \notin gone
  /\ part[q][b] = 0
  /\ part' = [part EXCEPT ![q][b] = truth[b]]
  /\ Goto(q, IF \A c \in Backend \ {b} : part[q][c] > 0 THEN "writing" ELSE "computing")
  /\ UNCHANGED <<backendVars, redisVars, locked, gone, history, faults>>

\* Mutants: the result goes on without the part that failed; the error returns
\* past the release of the lock.
ComputeFailsWritten(q) ==
  /\ pc[q] = "computing"
  /\ CallFails(q)
  /\ broken' = broken \cup {q}
  /\ Goto(q, "writing")
  /\ UNCHANGED <<backendVars, redisVars, locked, part, gone, lapsed, strayed, expiries>>

ComputeFailsUnreleased(q) ==
  /\ pc[q] = "computing"
  /\ CallFails(q)
  /\ broken' = broken \cup {q}
  /\ Finish(q, "failed", Unread)
  /\ UNCHANGED <<backendVars, redisVars, locked, part, gone, lapsed, strayed, expiries>>

\* One of the reads fails, and with it compute.
ComputeFails(q) ==
  /\ pc[q] = "computing"
  /\ CallFails(q)
  /\ broken' = broken \cup {q}
  /\ IF q \in locked THEN Goto(q, "returning") ELSE Finish(q, "failed", Unread)
  /\ UNCHANGED <<backendVars, redisVars, locked, part, gone, lapsed, strayed, expiries>>

\* After writeCache, whose error is only logged.
Written(q) == IF q \in locked THEN Goto(q, "releasing") ELSE Finish(q, "answered", part[q])

WriteCache(q) ==
  /\ pc[q] = "writing" /\ q \notin gone
  /\ cache' = part[q]
  /\ Written(q)
  /\ UNCHANGED <<backendVars, lock, locked, part, gone, history, faults>>

WriteFails(q) ==
  /\ pc[q] = "writing"
  /\ CallFails(q)
  /\ Written(q)
  /\ UNCHANGED <<backendVars, redisVars, locked, part, gone, history>>

\* After releaseLock, whose error is only logged: the result, or the error.
Return(q) ==
  IF pc[q] = "releasing" THEN Finish(q, "answered", part[q]) ELSE Finish(q, "failed", Unread)

\* Mutant: DEL without a look at the token.
ReleaseAnyLock(q) ==
  /\ pc[q] \in {"releasing", "returning"} /\ q \notin gone
  /\ lock' = None
  /\ Return(q)
  /\ UNCHANGED <<backendVars, cache, locked, part, gone, history, faults>>

\* releaseLockScript: delete the key if it holds the token.
ReleaseLock(q) ==
  /\ pc[q] \in {"releasing", "returning"} /\ q \notin gone
  /\ lock' = IF lock = q THEN None ELSE lock
  /\ Return(q)
  /\ UNCHANGED <<backendVars, cache, locked, part, gone, history, faults>>

ReleaseFails(q) ==
  /\ pc[q] \in {"releasing", "returning"}
  /\ CallFails(q)
  /\ strayed' = strayed \cup {q}
  /\ Return(q)
  /\ UNCHANGED <<backendVars, redisVars, locked, part, gone, lapsed, broken, expiries>>

-----------------------------------------------------------------------------
(* What happens around the requests. *)

\* The client of a request closes its connection.  That of one that has joined
\* changes nothing: a joined request does not look at its own context.
HangUp(q) ==
  /\ pc[q] \in Begun \ {"joined"} /\ q \notin gone
  /\ Fault
  /\ gone' = gone \cup {q}
  /\ UNCHANGED <<backendVars, redisVars, pc, fetchVars, history>>

\* The process of a replica dies, and its requests with it.
Crash(p) ==
  /\ \E q \in Request : Home[q] = p /\ pc[q] \in Begun
  /\ Fault
  /\ pc' = [q \in Request |-> IF Home[q] = p /\ pc[q] \in Begun THEN "dead" ELSE pc[q]]
  /\ flight' = [flight EXCEPT ![p] = None]
  /\ UNCHANGED <<backendVars, redisVars, locked, part, value, gone, history>>

\* lockTTL.
LockExpires ==
  /\ lock # None /\ expiries < MaxExpiries
  /\ lock' = None
  /\ lapsed' = lapsed \cup {lock}
  /\ expiries' = expiries + 1
  /\ UNCHANGED <<backendVars, cache, pc, fetchVars, gone, strayed, broken, faults>>

\* cacheTTL.
CacheExpires ==
  /\ cache # None /\ expiries < MaxExpiries
  /\ cache' = None
  /\ expiries' = expiries + 1
  /\ UNCHANGED <<backendVars, lock, pc, fetchVars, gone, lapsed, strayed, broken, faults>>

\* The workers store a view or a like.
Change(b) ==
  /\ stored /\ truth["views"] + truth["likes"] < 2 + MaxChanges
  /\ truth' = [truth EXCEPT ![b] = @ + 1]
  /\ UNCHANGED <<stored, redisVars, pc, fetchVars, gone, history, faults>>

-----------------------------------------------------------------------------
Serve(q) ==
  \/ Hit(q) \/ Miss(q) \/ Do(q)
  \/ CheckExists(q) \/ ExistsFails(q)
  \/ AcquireLock(q) \/ AcquireFails(q) \/ AcquireUnknown(q)
  \/ ReRead(q) \/ ReReadFails(q) \/ GiveUp(q)
  \/ (\E b \in Backend : ReadBackend(q, b)) \/ ComputeFails(q)
  \/ WriteCache(q) \/ WriteFails(q)
  \/ ReleaseLock(q) \/ ReleaseFails(q)

Next ==
  \/ \E q \in Request : Serve(q) \/ HangUp(q)
  \/ \E p \in Replica : Crash(p)
  \/ LockExpires \/ CacheExpires
  \/ \E b \in Backend : Change(b)

\* A request that can go on does.  Nothing makes a lock expire: no request
\* depends on it.
Fairness == \A q \in Request : WF_vars(Serve(q))

Spec == Init /\ [][Next]_vars

FairSpec == Spec /\ Fairness

-----------------------------------------------------------------------------
(* Properties. *)

\* Those that have the lock, as long as its TTL has not passed.
Owners == {q \in locked : pc[q] \in Inside /\ q \notin lapsed}

\* Two replicas have the lock at once only when one has outlived its TTL: a
\* holder that comes back late does not release its successor's lock, which
\* would let a third one in.
OneOwner == \A q, r \in Owners : q = r

\* At most one request of a replica fetches, so the backends see at most one
\* compute per replica at a time, whatever happens to the lock.
OneFetchPerReplica ==
  \A q, r \in Request :
    (pc[q] \in Fetching /\ pc[r] \in Fetching /\ Home[q] = Home[r]) => q = r

\* Nobody is answered, and the cache never holds, a value of which one part was
\* not read (service.go: "We never serve a partially-computed value").
Whole(v) == \A b \in Backend : v[b] \in 1 .. truth[b]

NothingHalfComputed ==
  /\ cache # None => Whole(cache)
  /\ \A q \in Request : pc[q] = "answered" => Whole(value[q])

\* An error comes from a backend or from the client of the request that fetched
\* for the replica.  Redis alone never makes one: not its cache, not its lock.
ErrorsHaveCause ==
  \A q \in Request : pc[q] = "failed" =>
    \E l \in broken \cup gone : Home[l] = Home[q] /\ pc[l] = "failed"

\* A lock with no request behind it, which keeps the others waiting until its
\* TTL, is one whose SETNX or release failed, or whose process died.
LocksAreReturned ==
  lock # None =>
    \/ lock \in locked /\ pc[lock] \in Inside
    \/ lock \in strayed
    \/ pc[lock] = "dead"

\* Every call of Get returns unless its process dies, though a lock be left
\* behind that never expires.
EveryGetReturns == \A q \in Request : pc[q] \in Begun ~> pc[q] \in Final
=============================================================================
