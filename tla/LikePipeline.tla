----------------------------- MODULE LikePipeline -----------------------------
(***************************************************************************)
(* The like pipeline of internal/like, from the API call to Postgres.      *)
(*                                                                         *)
(* A request runs one Lua script in Redis (service.go), which is atomic:   *)
(* it flips the user's set, moves the hot counter and appends an event to  *)
(* stream:likes.  A worker (worker.go) reads the stream through a consumer *)
(* group, applies each event to Postgres and acknowledges it.  Any of the  *)
(* worker's calls may fail, also after the server has done what it was     *)
(* asked, and the worker's process may stop between any two of them.       *)
(***************************************************************************)
EXTENDS LikeStore, StreamGroup, FiniteSetsExt

CONSTANTS
  Worker,    \* the consumers of the group: one is what cmd/worker runs
  MaxFaults  \* bound: failed calls, lost replies and stopped processes

ASSUME PipelineAssumption == MaxFaults \in Nat

VARIABLES
  liked,    \* user:{uid}:liked:videos
  hot,      \* video:{vid}:likes
  pc,       \* what each worker is about to do
  batch,    \* the entries a worker holds, which it takes in stream order
  applied,  \* history: the entries whose effect has reached Postgres
  faults    \* how many faults have happened

apiVars    == <<liked, hot, streamVars>>
workerVars == <<pc, batch>>
vars == <<apiVars, groupVars, workerVars, storeVars, applied, faults>>

Event == [user : User, video : Video, op : {"like", "unlike"}]

TypeOK ==
  /\ StoreTypeOK
  /\ StreamTypeOK(Event)
  /\ liked \in [User -> SUBSET Video]
  /\ hot \in [Video -> Nat]
  /\ pc \in [Worker -> {"down", "reading", "applying", "acking"}]
  /\ batch \in [Worker -> SUBSET (1 .. cursor)]
  /\ applied \subseteq 1 .. cursor
  /\ faults \in 0 .. MaxFaults

Init ==
  /\ StoreInit
  /\ StreamInit
  /\ liked = [u \in User |-> {}]
  /\ hot = [v \in Video |-> 0]
  /\ pc = [w \in Worker |-> "down"]
  /\ batch = [w \in Worker |-> {}]
  /\ applied = {}
  /\ faults = 0

-----------------------------------------------------------------------------
(* The API: one run of likeScript.  A like of a liked video and an unlike  *)
(* of one that is not liked return "noop" and change nothing.              *)

Publish(u, v, op) == XAdd([user |-> u, video |-> v, op |-> op])

\* Mutant: the script does not look whether the video is in the set.
LikeUnchecked(u, v) ==
  /\ liked' = [liked EXCEPT ![u] = @ \cup {v}]
  /\ hot' = [hot EXCEPT ![v] = @ + 1]
  /\ Publish(u, v, "like")
  /\ UNCHANGED <<groupVars, workerVars, storeVars, applied, faults>>

Like(u, v) ==
  /\ v \notin liked[u]
  /\ liked' = [liked EXCEPT ![u] = @ \cup {v}]
  /\ hot' = [hot EXCEPT ![v] = @ + 1]
  /\ Publish(u, v, "like")
  /\ UNCHANGED <<groupVars, workerVars, storeVars, applied, faults>>

Unlike(u, v) ==
  /\ v \in liked[u]
  /\ liked' = [liked EXCEPT ![u] = @ \ {v}]
  /\ hot' = [hot EXCEPT ![v] = IF @ > 0 THEN @ - 1 ELSE 0]
  /\ Publish(u, v, "unlike")
  /\ UNCHANGED <<groupVars, workerVars, storeVars, applied, faults>>

-----------------------------------------------------------------------------
(* The worker. *)

Fault == faults < MaxFaults /\ faults' = faults + 1

\* Run begins with ensureGroup.
Start(w) ==
  /\ pc[w] = "down"
  /\ EnsureGroup
  /\ pc' = [pc EXCEPT ![w] = "reading"]
  /\ UNCHANGED <<apiVars, pel, batch, storeVars, applied, faults>>

\* XREADGROUP returns entries, and they are the worker's batch.
Read(w) ==
  /\ pc[w] = "reading"
  /\ \E last \in cursor + 1 .. Len(log) :
       /\ Deliver(last)
       /\ batch' = [batch EXCEPT ![w] = Fresh(last)]
  /\ pc' = [pc EXCEPT ![w] = "applying"]
  /\ UNCHANGED <<apiVars, grouped, storeVars, applied, faults>>

\* The server delivered the entries and the reply was lost; Run backs off.
ReadLost(w) ==
  /\ pc[w] = "reading"
  /\ Fault
  /\ \E last \in cursor + 1 .. Len(log) : Deliver(last)
  /\ UNCHANGED <<apiVars, grouped, workerVars, storeVars, applied>>

\* Mutant: the batch is taken newest first.
NewestFirst(w, i) == i \in batch[w] /\ \A j \in batch[w] : i >= j

\* The entry that the loop over the batch has come to.
Current(w, i) == i \in batch[w] /\ \A j \in batch[w] : i <= j

\* process returns, and the loop goes on with the next entry or the next read.
MoveOn(w, i) ==
  /\ batch' = [batch EXCEPT ![w] = @ \ {i}]
  /\ pc' = [pc EXCEPT ![w] = IF batch[w] = {i} THEN "reading" ELSE "applying"]

Commit(i) ==
  /\ Apply(log[i].user, log[i].video, log[i].op)
  /\ applied' = applied \cup {i}

\* repo.Apply succeeds; the XACK is a call of its own.
ApplyOk(w) ==
  /\ pc[w] = "applying"
  /\ \E i \in batch[w] : Current(w, i) /\ Commit(i)
  /\ pc' = [pc EXCEPT ![w] = "acking"]
  /\ UNCHANGED <<apiVars, groupVars, batch, faults>>

\* repo.Apply returns the foreign-key error of a video that is not there.
ApplyRefused(w) ==
  /\ pc[w] = "applying"
  /\ \E i \in batch[w] :
       Current(w, i) /\ Refused(log[i].video, log[i].op) /\ MoveOn(w, i)
  /\ UNCHANGED <<apiVars, groupVars, storeVars, applied, faults>>

\* Mutant: a failed entry is acknowledged like any other.
ApplyFailsAcked(w) ==
  /\ pc[w] = "applying"
  /\ Fault
  /\ \E i \in batch[w] : Current(w, i) /\ MoveOn(w, i) /\ pel' = pel \ {i}
  /\ UNCHANGED <<apiVars, grouped, cursor, storeVars, applied>>

\* repo.Apply returns an error and nothing was committed: no XACK.
ApplyFails(w) ==
  /\ pc[w] = "applying"
  /\ Fault
  /\ \E i \in batch[w] : Current(w, i) /\ MoveOn(w, i)
  /\ UNCHANGED <<apiVars, groupVars, storeVars, applied>>

\* The statement committed and its reply was lost: an error too, no XACK.
ApplyUnknown(w) ==
  /\ pc[w] = "applying"
  /\ Fault
  /\ \E i \in batch[w] : Current(w, i) /\ Commit(i) /\ MoveOn(w, i)
  /\ UNCHANGED <<apiVars, groupVars>>

Ack(w) ==
  /\ pc[w] = "acking"
  /\ \E i \in batch[w] : Current(w, i) /\ MoveOn(w, i) /\ pel' = pel \ {i}
  /\ UNCHANGED <<apiVars, grouped, cursor, storeVars, applied, faults>>

\* The error of XACK is ignored.
AckLost(w) ==
  /\ pc[w] = "acking"
  /\ Fault
  /\ \E i \in batch[w] : Current(w, i) /\ MoveOn(w, i)
  /\ UNCHANGED <<apiVars, groupVars, storeVars, applied>>

\* The process stops, or its context is cancelled, which fails what is left of
\* the batch: nothing of the batch outlives it.
Stop(w) ==
  /\ pc[w] # "down"
  /\ Fault
  /\ pc' = [pc EXCEPT ![w] = "down"]
  /\ batch' = [batch EXCEPT ![w] = {}]
  /\ UNCHANGED <<apiVars, groupVars, storeVars, applied>>

-----------------------------------------------------------------------------
Request == \E u \in User, v \in Video : Like(u, v) \/ Unlike(u, v)

Work(w) == Start(w) \/ Read(w) \/ ApplyOk(w) \/ ApplyRefused(w) \/ Ack(w)

Fail(w) ==
  \/ ReadLost(w) \/ ApplyFails(w) \/ ApplyUnknown(w) \/ AckLost(w) \/ Stop(w)

Next == Request \/ \E w \in Worker : Work(w) \/ Fail(w)

\* The supervisor starts a worker that is down, and Run never stops by itself:
\* a worker that can go on does.  Nothing obliges a user to like anything.
Fairness == \A w \in Worker : WF_vars(Work(w))

Spec == Init /\ [][Next]_vars

FairSpec == Spec /\ Fairness

-----------------------------------------------------------------------------
(* Properties. *)

Pair(i) == <<log[i].user, log[i].video>>

\* The hot counter is the size of what it counts, whatever the order of likes
\* and unlikes: the clamp at zero of the script is never needed.
HotCountExact ==
  \A v \in Video : hot[v] = Cardinality({u \in User : v \in liked[u]})

\* service.go and worker.go together, "the final Postgres state matches Redis"
\* for every user and video whose newest event got through: no older event,
\* delivered late or left behind, decides the edge.
LatestAppliedAgrees ==
  \A i \in applied :
    (\A j \in Ids : Pair(j) = Pair(i) => j <= i)
      => (Pair(i) \in edges <=> log[i].video \in liked[log[i].user])

\* With one consumer, events reach Postgres in publish order and none twice.
AppliesForward ==
  [][\A i \in applied' \ applied : \A j \in applied : j < i]_vars

\* No event leaves the pending list unless Postgres has it.
AckedOnlyIfApplied == [][pel \ pel' \subseteq applied]_vars

\* The newest entry about a pair whose effect is in Postgres.
Upto(p) == Max({0} \cup {i \in applied : Pair(i) = p})

Ledger == INSTANCE LikeLedger WITH
  history <- log,
  wanted  <- {p \in User \X Video : p[2] \in liked[p[1]]},
  durable <- edges,
  upto    <- [p \in User \X Video |-> Upto(p)]

\* With one consumer the pipeline is a ledger: Postgres moves forward through
\* what each user decided about each video and never goes back to an earlier
\* decision, through failures, lost replies, restarts and trimming.
ImplementsLedger == Ledger!Spec

\* Delivered, not applied and in nobody's hands: the event is lost, since no
\* code reads the pending list.
Stranded(i) == i \in pel \ applied /\ \A w \in Worker : i \notin batch[w]

\* An event is lost by a fault only, or because the foreign key refuses it.
StrandedByFaults ==
  [][\A i \in Ids :
       Stranded(i)' /\ ~Stranded(i)
         => faults' > faults \/ Refused(log[i].video, log[i].op)]_vars

\* An event that is lost stays so: no worker, restarted or not, gets it again.
LostForGood == [][\A i \in Ids : Stranded(i) => Stranded(i)']_vars

\* More than that, one that waits behind the cursor is applied, unless it is
\* lost or trimmed: no order of batches, failures and restarts makes the worker
\* pass over it.
LossNeedsFault ==
  /\ StrandedByFaults
  /\ LostForGood
  /\ \A i \in 1 .. MaxEvents :
       (grouped /\ i \in Ids /\ i > cursor)
         ~> (i \in applied \/ Trimmed(i) \/ Stranded(i))
=============================================================================
