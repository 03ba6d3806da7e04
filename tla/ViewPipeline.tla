----------------------------- MODULE ViewPipeline -----------------------------
(***************************************************************************)
(* The view pipeline of internal/view, from an accepted beacon to rows in  *)
(* ClickHouse.                                                             *)
(*                                                                         *)
(* A request that passes the filter chain marks its viewer and video with  *)
(* SETNX, which decides whether the view is a unique one, and then appends *)
(* to stream:views: two calls to Redis, with other requests, the expiry of *)
(* the mark and failures in between.  The worker collects entries into a   *)
(* batch over several reads, inserts the batch when it is large or old     *)
(* enough, and acknowledges it in one call.                                *)
(***************************************************************************)
EXTENDS StreamGroup

CONSTANTS
  Key,          \* pairs of a subject and a video: what a mark is for
  Request,      \* the requests that may be in flight at once
  Worker,       \* the consumers of the group
  FlushSize,    \* flush when the batch has so many entries
  MaxExpiries,  \* bound: how often the mark of a key expires
  MaxFaults     \* bound: failed calls, lost replies, cancelled and dead processes

ASSUME ViewAssumption ==
  /\ IsFiniteSet(Key)
  /\ FlushSize \in Nat \ {0}
  /\ MaxExpiries \in Nat
  /\ MaxFaults \in Nat

VARIABLES
  marked,   \* the keys view:unique:* that exist
  window,   \* history: how often each of them has expired
  sending,  \* the view that a request has marked and not yet streamed
  pc,       \* what each worker is about to do
  batch,    \* the entries that a worker has read and not yet flushed
  due,      \* whether FlushInterval has passed since its last flush
  rows,     \* how many rows each entry has in video_views
  lost,     \* history: how many inserts landed and were reported failed
  faults    \* how many faults have happened

trackVars  == <<marked, window, sending>>
workerVars == <<pc, batch, due>>
sinkVars   == <<rows, lost>>
vars == <<trackVars, streamVars, groupVars, workerVars, sinkVars, faults>>

Event == [key : Key, unique : BOOLEAN, window : 0 .. MaxExpiries]

TypeOK ==
  /\ StreamTypeOK(Event)
  /\ marked \subseteq Key
  /\ window \in [Key -> 0 .. MaxExpiries]
  /\ sending \in [Request -> SUBSET Event]
  /\ pc \in [Worker -> {"down", "reading", "checking", "acking", "leaving", "lastAck"}]
  /\ batch \in [Worker -> SUBSET (1 .. cursor)]
  /\ due \in [Worker -> BOOLEAN]
  /\ rows \in [1 .. MaxEvents -> Nat]
  /\ lost \in 0 .. faults
  /\ faults \in 0 .. MaxFaults

Init ==
  /\ StreamInit
  /\ marked = {}
  /\ window = [k \in Key |-> 0]
  /\ sending = [r \in Request |-> {}]
  /\ pc = [w \in Worker |-> "down"]
  /\ batch = [w \in Worker |-> {}]
  /\ due = [w \in Worker |-> FALSE]
  /\ rows = [i \in 1 .. MaxEvents |-> 0]
  /\ lost = 0
  /\ faults = 0

Fault == faults < MaxFaults /\ faults' = faults + 1

-----------------------------------------------------------------------------
(* The API: Track.  A view that the filter chain rejects changes nothing   *)
(* here; an accepted one is marked, then streamed.  MaxEvents stops new    *)
(* requests.                                                               *)

View(k, unique) == [key |-> k, unique |-> unique, window |-> window[k]]

\* Mutant: the reply of SETNX is not looked at.
MarkUnread(r, k) ==
  /\ sending[r] = {} /\ Len(log) < MaxEvents
  /\ marked' = marked \cup {k}
  /\ sending' = [sending EXCEPT ![r] = {View(k, TRUE)}]
  /\ UNCHANGED <<window, streamVars, groupVars, workerVars, sinkVars, faults>>

\* Mutant: the mark is set before the chain, which may then reject the view.
MarkUnfiltered(r, k) ==
  /\ sending[r] = {} /\ Len(log) < MaxEvents
  /\ marked' = marked \cup {k}
  /\ sending' \in {sending, [sending EXCEPT ![r] = {View(k, k \notin marked)}]}
  /\ UNCHANGED <<window, streamVars, groupVars, workerVars, sinkVars, faults>>

\* TryMark: the first view in the window is the unique one.
Mark(r, k) ==
  /\ sending[r] = {} /\ Len(log) < MaxEvents
  /\ marked' = marked \cup {k}
  /\ sending' = [sending EXCEPT ![r] = {View(k, k \notin marked)}]
  /\ UNCHANGED <<window, streamVars, groupVars, workerVars, sinkVars, faults>>

\* TryMark returns an error, and SETNX may have been done or not.
MarkFails(r, k) ==
  /\ sending[r] = {} /\ Len(log) < MaxEvents
  /\ Fault
  /\ marked' \in {marked, marked \cup {k}}
  /\ sending' = [sending EXCEPT ![r] = {View(k, FALSE)}]
  /\ UNCHANGED <<window, streamVars, groupVars, workerVars, sinkVars>>

Send(r) ==
  /\ \E e \in sending[r] : XAdd(e)
  /\ sending' = [sending EXCEPT ![r] = {}]
  /\ UNCHANGED <<marked, window, groupVars, workerVars, sinkVars, faults>>

\* XADD fails, or the API process ends before it.
SendFails(r) ==
  /\ sending[r] # {}
  /\ Fault
  /\ sending' = [sending EXCEPT ![r] = {}]
  /\ UNCHANGED <<marked, window, streamVars, groupVars, workerVars, sinkVars>>

\* The mark's TTL.
Expire(k) ==
  /\ k \in marked
  /\ window[k] < MaxExpiries
  /\ marked' = marked \ {k}
  /\ window' = [window EXCEPT ![k] = @ + 1]
  /\ UNCHANGED <<sending, streamVars, groupVars, workerVars, sinkVars, faults>>

Track ==
  \E r \in Request :
    \/ \E k \in Key : Mark(r, k) \/ MarkFails(r, k)
    \/ Send(r)
    \/ SendFails(r)

-----------------------------------------------------------------------------
(* The worker: Run. *)

Start(w) ==
  /\ pc[w] = "down"
  /\ EnsureGroup
  /\ pc' = [pc EXCEPT ![w] = "reading"]
  /\ due' = [due EXCEPT ![w] = FALSE]
  /\ UNCHANGED <<trackVars, streamVars, pel, batch, sinkVars, faults>>

\* Time passes.
Tick(w) ==
  /\ pc[w] # "down" /\ ~due[w]
  /\ due' = [due EXCEPT ![w] = TRUE]
  /\ UNCHANGED <<trackVars, streamVars, groupVars, pc, batch, sinkVars, faults>>

Read(w) ==
  /\ pc[w] = "reading"
  /\ \E last \in cursor + 1 .. Len(log) :
       /\ Deliver(last)
       /\ batch' = [batch EXCEPT ![w] = @ \cup Fresh(last)]
  /\ pc' = [pc EXCEPT ![w] = "checking"]
  /\ UNCHANGED <<trackVars, streamVars, grouped, due, sinkVars, faults>>

\* The block of 200 ms ends with nothing to read.
ReadNothing(w) ==
  /\ pc[w] = "reading"
  /\ Fresh(Len(log)) = {}
  /\ pc' = [pc EXCEPT ![w] = "checking"]
  /\ UNCHANGED <<trackVars, streamVars, groupVars, batch, due, sinkVars, faults>>

\* An error: a deadline falls through to the flush check, any other does not.
\* The server may have delivered entries all the same.
ReadFails(w) ==
  /\ pc[w] = "reading"
  /\ Fault
  /\ (\E last \in cursor + 1 .. Len(log) : Deliver(last)) \/ UNCHANGED <<cursor, pel>>
  /\ pc' \in {pc, [pc EXCEPT ![w] = "checking"]}
  /\ UNCHANGED <<trackVars, streamVars, grouped, batch, due, sinkVars>>

\* Mutants: only the size counts, or only the time.
FlushDueBySize(w) == Cardinality(batch[w]) >= FlushSize

FlushDueByTime(w) == due[w] /\ batch[w] # {}

\* The size is reached, or FlushInterval has passed and there is something.
FlushDue(w) ==
  \/ Cardinality(batch[w]) >= FlushSize
  \/ due[w] /\ batch[w] # {}

Skip(w) ==
  /\ pc[w] = "checking" /\ ~FlushDue(w)
  /\ pc' = [pc EXCEPT ![w] = "reading"]
  /\ UNCHANGED <<trackVars, streamVars, groupVars, batch, due, sinkVars, faults>>

\* The context is cancelled.  The loop comes to its last flush with what it
\* holds; an insert or an XACK that was under way fails with the context.
Cancel(w) ==
  /\ pc[w] \in {"reading", "checking", "acking"}
  /\ Fault
  /\ pc' = [pc EXCEPT ![w] = "leaving"]
  /\ batch' = [batch EXCEPT ![w] = IF pc[w] = "acking" THEN {} ELSE @]
  /\ UNCHANGED <<trackVars, streamVars, groupVars, due, sinkVars>>

\* flush is called: in the loop when it is due, and once before Run returns.
Flushing(w) ==
  \/ pc[w] = "checking" /\ FlushDue(w)
  \/ pc[w] = "leaving" /\ batch[w] # {}

\* After a flush the loop goes on, unless it was the last one.
GoOn(w) ==
  /\ pc' = [pc EXCEPT ![w] = IF @ \in {"leaving", "lastAck"} THEN "down" ELSE "reading"]
  /\ due' = [due EXCEPT ![w] = FALSE]

Insert(w) == rows' = [i \in 1 .. MaxEvents |-> IF i \in batch[w] THEN rows[i] + 1 ELSE rows[i]]

InsertOk(w) ==
  /\ Flushing(w)
  /\ Insert(w)
  /\ pc' = [pc EXCEPT ![w] = IF @ = "leaving" THEN "lastAck" ELSE "acking"]
  /\ UNCHANGED <<trackVars, streamVars, groupVars, batch, due, lost, faults>>

\* Mutant: the XACK does not depend on the insert.
InsertFailsAcked(w) ==
  /\ Flushing(w)
  /\ Fault
  /\ pc' = [pc EXCEPT ![w] = IF @ = "leaving" THEN "lastAck" ELSE "acking"]
  /\ UNCHANGED <<trackVars, streamVars, groupVars, batch, due, sinkVars>>

\* Insert returns an error and no row went in: the batch is kept.
InsertFails(w) ==
  /\ Flushing(w)
  /\ Fault
  /\ GoOn(w)
  /\ batch' = [batch EXCEPT ![w] = IF pc[w] = "leaving" THEN {} ELSE @]
  /\ UNCHANGED <<trackVars, streamVars, groupVars, sinkVars>>

\* Insert returns an error although the rows are in: the batch is kept too.
InsertUnknown(w) ==
  /\ Flushing(w)
  /\ Fault
  /\ Insert(w)
  /\ lost' = lost + 1
  /\ GoOn(w)
  /\ batch' = [batch EXCEPT ![w] = IF pc[w] = "leaving" THEN {} ELSE @]
  /\ UNCHANGED <<trackVars, streamVars, groupVars>>

Ack(w) ==
  /\ pc[w] \in {"acking", "lastAck"}
  /\ pel' = pel \ batch[w]
  /\ batch' = [batch EXCEPT ![w] = {}]
  /\ GoOn(w)
  /\ UNCHANGED <<trackVars, streamVars, grouped, cursor, sinkVars, faults>>

\* Mutant: the batch is kept when the XACK fails.
AckLostKeeps(w) ==
  /\ pc[w] \in {"acking", "lastAck"}
  /\ Fault
  /\ GoOn(w)
  /\ UNCHANGED <<trackVars, streamVars, groupVars, batch, sinkVars>>

\* The error of XACK is logged, and the batch is cleared all the same.
AckLost(w) ==
  /\ pc[w] \in {"acking", "lastAck"}
  /\ Fault
  /\ batch' = [batch EXCEPT ![w] = {}]
  /\ GoOn(w)
  /\ UNCHANGED <<trackVars, streamVars, groupVars, sinkVars>>

\* The last flush had nothing to do.
Leave(w) ==
  /\ pc[w] = "leaving" /\ batch[w] = {}
  /\ pc' = [pc EXCEPT ![w] = "down"]
  /\ UNCHANGED <<trackVars, streamVars, groupVars, batch, due, sinkVars, faults>>

\* The process dies: the batch is gone.
Stop(w) ==
  /\ pc[w] # "down"
  /\ Fault
  /\ pc' = [pc EXCEPT ![w] = "down"]
  /\ batch' = [batch EXCEPT ![w] = {}]
  /\ UNCHANGED <<trackVars, streamVars, groupVars, due, sinkVars>>

-----------------------------------------------------------------------------
Work(w) ==
  Start(w) \/ Read(w) \/ ReadNothing(w) \/ Skip(w) \/ InsertOk(w) \/ Ack(w) \/ Leave(w)

Fail(w) ==
  \/ ReadFails(w) \/ InsertFails(w) \/ InsertUnknown(w) \/ AckLost(w)
  \/ Cancel(w) \/ Stop(w)

Next ==
  \/ Track
  \/ \E k \in Key : Expire(k)
  \/ \E w \in Worker : Tick(w) \/ Work(w) \/ Fail(w)

\* A worker that can go on does, one that is down is started again, and time
\* passes.  Nobody has to watch anything.
Fairness == \A w \in Worker : WF_vars(Work(w)) /\ WF_vars(Tick(w))

Spec == Init /\ [][Next]_vars

FairSpec == Spec /\ Fairness

-----------------------------------------------------------------------------
(* Properties. *)

\* A view leaves the pending list only if ClickHouse has it.
AckedOnlyIfInserted == [][\A i \in pel \ pel' : rows[i] > 0]_vars

\* A view is inserted again only after an insert that landed was reported as
\* failed: neither a crash nor a failed XACK makes a duplicate.
CopiesNeedLostReplies == \A i \in 1 .. MaxEvents : rows[i] <= 1 + lost

\* docs/architecture.md: unique views are "at most one per (viewer, video) per
\* VIEW_UNIQUE_TTL".  It holds of the stream, with any requests in flight.
OneUniquePerWindow ==
  \A i, j \in Ids :
    (log[i].unique /\ log[j].unique /\ log[i].key = log[j].key
       /\ log[i].window = log[j].window) => i = j

\* The windows that have begun, and those of them with no unique view.
Begun == {p \in Key \X (0 .. MaxExpiries) :
            \/ p[2] < window[p[1]]
            \/ p[2] = window[p[1]] /\ p[1] \in marked}

HasUnique(p) ==
  \E e \in {log[i] : i \in Ids} \cup UNION {sending[r] : r \in Request} :
    e.unique /\ e.key = p[1] /\ e.window = p[2]

\* Each failed call costs at most one window its unique view, and nothing else
\* does: not the two calls of Track, nor the expiry between them.
UniqueMissedOnlyByFaults == Cardinality({p \in Begun : ~HasUnique(p)}) <= faults

\* The batch outgrows FlushSize by one read, and by one more for each fault.
BatchBounded ==
  \A w \in Worker : Cardinality(batch[w]) < FlushSize + BatchSize * (1 + faults)

\* Delivered, not inserted and in nobody's hands: the view is lost, since no
\* code reads the pending list.
Stranded(i) == i \in pel /\ rows[i] = 0 /\ \A w \in Worker : i \notin batch[w]

\* A view is lost by a fault only, never in the course of flushing.
StrandedByFaults ==
  [][\A i \in Ids : Stranded(i)' /\ ~Stranded(i) => faults' > faults]_vars

\* A view that is lost stays so, while view/worker.go says that "the PEL ensures
\* redelivery even across crashes": no worker, restarted or not, gets it again.
LostForGood == [][\A i \in Ids : Stranded(i) => Stranded(i)']_vars

\* More than that, one that waits behind the cursor is inserted, unless it is
\* lost or trimmed: a batch that never fills up is flushed in time, and one that
\* failed is tried again.
LossNeedsFault ==
  /\ StrandedByFaults
  /\ LostForGood
  /\ \A i \in 1 .. MaxEvents :
       (grouped /\ i \in Ids /\ i > cursor)
         ~> (rows[i] > 0 \/ Trimmed(i) \/ Stranded(i))
=============================================================================
