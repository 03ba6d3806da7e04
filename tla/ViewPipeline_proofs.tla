-------------------------- MODULE ViewPipeline_proofs --------------------------
(***************************************************************************)
(* The safety of the view pipeline for every set of keys, requests and     *)
(* workers, every batch and flush size, and any number of views, expiries  *)
(* and faults.                                                             *)
(***************************************************************************)
EXTENDS ViewPipeline, FiniteSetTheorems, TLAPS

-----------------------------------------------------------------------------
(* What the operations of a stream and its group do, whatever it holds.    *)

\* XADD makes the log longer by one member.
LEMMA XAddType ==
  ASSUME NEW E, StreamTypeOK(E), NEW e \in E, XAdd(e), UNCHANGED groupVars
  PROVE  /\ StreamTypeOK(E)'
         /\ Len(log') = Len(log) + 1 /\ Len(log') <= MaxEvents
         /\ log'[Len(log')] = e
         /\ \A i \in 1 .. Len(log) : log'[i] = log[i]
<1>1. log \in Seq(E) /\ Len(log) \in Nat /\ log' = Append(log, e)
  BY DEF XAdd, StreamTypeOK
<1>2. /\ log' \in Seq(E) /\ Len(log') = Len(log) + 1
      /\ log'[Len(log')] = e
      /\ \A i \in 1 .. Len(log) : log'[i] = log[i]
  BY <1>1
<1>3. Len(log') <= MaxEvents
  BY <1>1, <1>2, StreamAssumption DEF XAdd
<1>4. kept \in 1 .. Len(log) + 1 /\ kept' \in kept .. Len(log) + 1
  BY DEF XAdd, StreamTypeOK
<1>5. kept' \in 1 .. Len(log') + 1
  BY <1>1, <1>2, <1>4
<1>6. cursor \in 0 .. Len(log) /\ cursor' = cursor /\ pel' = pel /\ grouped' = grouped
  BY DEF StreamTypeOK, groupVars
<1>7. cursor' \in 0 .. Len(log')
  BY <1>1, <1>2, <1>6
<1> QED
  BY <1>2, <1>3, <1>5, <1>6, <1>7 DEF StreamTypeOK

\* A start of the worker moves the group forward, if at all.
LEMMA EnsureGroupType ==
  ASSUME NEW E, StreamTypeOK(E), EnsureGroup, UNCHANGED <<streamVars, pel>>
  PROVE  StreamTypeOK(E)' /\ cursor <= cursor'
<1>1. /\ log' = log /\ kept' = kept /\ pel' = pel /\ grouped' = TRUE
      /\ cursor' = cursor \/ cursor' = Len(log)
  BY DEF EnsureGroup, streamVars
<1>2. cursor \in 0 .. Len(log) /\ Len(log) \in Nat /\ pel \subseteq 1 .. cursor
  BY DEF StreamTypeOK
<1>3. cursor' \in 0 .. Len(log) /\ cursor <= cursor' /\ 1 .. cursor \subseteq 1 .. cursor'
  BY <1>1, <1>2
<1> QED
  BY <1>1, <1>2, <1>3 DEF StreamTypeOK

\* XREADGROUP delivers a few entries, all of them after the cursor.
LEMMA DeliverGroupType ==
  ASSUME NEW E, StreamTypeOK(E), NEW last \in cursor + 1 .. Len(log), Deliver(last),
         UNCHANGED <<streamVars, grouped>>
  PROVE  /\ StreamTypeOK(E)'
         /\ cursor < cursor' /\ cursor' = last
         /\ Fresh(last) \subseteq cursor + 1 .. last
         /\ pel' = pel \cup Fresh(last)
         /\ IsFiniteSet(Fresh(last)) /\ Cardinality(Fresh(last)) <= BatchSize
<1>1. cursor \in 0 .. Len(log) /\ Len(log) \in Nat /\ pel \subseteq 1 .. cursor
  BY DEF StreamTypeOK
<1>2. last \in Nat /\ cursor \in Nat /\ cursor < last /\ last \in 0 .. Len(log)
  BY <1>1
<1>3. cursor' = last /\ pel' = pel \cup Fresh(last) /\ Cardinality(Fresh(last)) <= BatchSize
  BY DEF Deliver
<1>4. Fresh(last) \subseteq cursor + 1 .. last
  BY DEF Fresh
<1>5. 1 .. cursor \subseteq 1 .. last /\ cursor + 1 .. last \subseteq 1 .. last
  BY <1>2
<1>6. pel' \subseteq 1 .. cursor'
  BY <1>1, <1>3, <1>4, <1>5
<1>7. IsFiniteSet(Fresh(last))
  <2>1. IsFiniteSet(cursor + 1 .. last)
    BY <1>2, FS_Interval
  <2> QED
    BY <1>4, <2>1, FS_Subset
<1>8. log' = log /\ kept' = kept /\ grouped' = grouped
  BY DEF streamVars
<1> QED
  BY <1>2, <1>3, <1>4, <1>6, <1>7, <1>8 DEF StreamTypeOK

-----------------------------------------------------------------------------
(* Type correctness. *)

\* A batch stays within what was delivered when the cursor moves forward.
LEMMA BatchType ==
  ASSUME TypeOK, StreamTypeOK(Event)', cursor <= cursor'
  PROVE  batch \in [Worker -> SUBSET (1 .. cursor')]
<1>1. cursor \in 0 .. Len(log) /\ cursor' \in 0 .. Len(log') /\ Len(log') \in Nat /\ Len(log) \in Nat
  BY DEF TypeOK, StreamTypeOK
<1>2. 1 .. cursor \subseteq 1 .. cursor'
  BY <1>1
<1> QED
  BY <1>2 DEF TypeOK

\* A fault leaves the counters in their ranges.
LEMMA FaultType ==
  ASSUME TypeOK, Fault
  PROVE  /\ faults \in Nat /\ faults' = faults + 1 /\ faults' \in 0 .. MaxFaults
         /\ lost \in 0 .. faults' /\ lost + 1 \in 0 .. faults'
BY ViewAssumption DEF TypeOK, Fault

\* A view is an event, and Send streams one.
LEMMA ViewType ==
  ASSUME TypeOK, NEW k \in Key, NEW unique \in BOOLEAN
  PROVE  View(k, unique) \in Event
BY DEF TypeOK, View, Event

LEMMA SendingType ==
  ASSUME TypeOK, NEW r \in Request, NEW e \in sending[r]
  PROVE  e \in Event
BY DEF TypeOK

LEMMA InsertType ==
  ASSUME TypeOK, NEW w \in Worker, Insert(w)
  PROVE  /\ rows' \in [1 .. MaxEvents -> Nat]
         /\ \A i \in 1 .. MaxEvents :
              rows'[i] = IF i \in batch[w] THEN rows[i] + 1 ELSE rows[i]
BY DEF Insert, TypeOK

LEMMA TypeInit == Init => TypeOK
<1> SUFFICES ASSUME Init PROVE TypeOK
  OBVIOUS
<1>1. log = <<>> /\ kept = 1 /\ cursor = 0 /\ grouped = FALSE /\ pel = {}
  BY DEF Init, StreamInit
<1>2. StreamTypeOK(Event)
  <2>1. log \in Seq(Event) /\ Len(log) = 0
    BY <1>1
  <2>2. kept \in 1 .. Len(log) + 1 /\ cursor \in 0 .. Len(log)
    BY <1>1, <2>1
  <2> QED
    BY <1>1, <2>1, <2>2 DEF StreamTypeOK
<1>3. /\ marked \subseteq Key
      /\ window \in [Key -> 0 .. MaxExpiries]
      /\ sending \in [Request -> SUBSET Event]
  BY ViewAssumption DEF Init
<1>4. /\ pc \in [Worker -> {"down", "reading", "checking", "acking", "leaving", "lastAck"}]
      /\ batch \in [Worker -> SUBSET (1 .. cursor)]
      /\ due \in [Worker -> BOOLEAN]
  BY DEF Init
<1>5. rows \in [1 .. MaxEvents -> Nat] /\ lost \in 0 .. faults /\ faults \in 0 .. MaxFaults
  BY ViewAssumption DEF Init
<1> QED
  BY <1>2, <1>3, <1>4, <1>5 DEF TypeOK

\* The steps of a request.
LEMMA TypeTrack ==
  ASSUME TypeOK, NEW r \in Request,
         (\E k \in Key : Mark(r, k) \/ MarkFails(r, k)) \/ Send(r) \/ SendFails(r)
  PROVE  TypeOK'
<1>1. ASSUME NEW k \in Key, Mark(r, k) PROVE TypeOK'
  <2>1. View(k, k \notin marked) \in Event
    BY ViewType
  <2> QED
    BY <1>1, <2>1 DEF Mark, TypeOK, StreamTypeOK, streamVars, groupVars, workerVars, sinkVars
<1>2. ASSUME NEW k \in Key, MarkFails(r, k) PROVE TypeOK'
  <2>1. View(k, FALSE) \in Event
    BY ViewType
  <2>2. faults' \in 0 .. MaxFaults /\ lost \in 0 .. faults'
    BY <1>2, FaultType DEF MarkFails
  <2> QED
    BY <1>2, <2>1, <2>2
    DEF MarkFails, TypeOK, StreamTypeOK, streamVars, groupVars, workerVars, sinkVars
<1>3. CASE Send(r)
  <2>1. PICK e \in sending[r] : XAdd(e)
    BY <1>3 DEF Send
  <2>2. e \in Event
    BY <2>1, SendingType
  <2>3. StreamTypeOK(Event)
    BY DEF TypeOK
  <2>4. StreamTypeOK(Event)'
    BY <1>3, <2>1, <2>2, <2>3, XAddType DEF Send
  <2> QED
    BY <1>3, <2>4 DEF Send, TypeOK, groupVars, workerVars, sinkVars
<1>4. CASE SendFails(r)
  <2>2. faults' \in 0 .. MaxFaults /\ lost \in 0 .. faults'
    BY <1>4, FaultType DEF SendFails
  <2> QED
    BY <1>4, <2>2
    DEF SendFails, TypeOK, StreamTypeOK, streamVars, groupVars, workerVars, sinkVars
<1> QED
  BY <1>1, <1>2, <1>3, <1>4

LEMMA TypeExpire ==
  ASSUME TypeOK, NEW k \in Key, Expire(k)
  PROVE  TypeOK'
<1>1. window[k] + 1 \in 0 .. MaxExpiries
  BY ViewAssumption DEF Expire, TypeOK
<1> QED
  BY <1>1 DEF Expire, TypeOK, StreamTypeOK, streamVars, groupVars, workerVars, sinkVars

\* The steps of a worker that move the group.
LEMMA TypeGroup ==
  ASSUME TypeOK, NEW w \in Worker, Start(w) \/ Read(w) \/ ReadFails(w)
  PROVE  TypeOK'
<1>0. StreamTypeOK(Event)
  BY DEF TypeOK
<1>1. CASE Start(w)
  <2>1. StreamTypeOK(Event)' /\ cursor <= cursor'
    BY <1>0, <1>1, EnsureGroupType DEF Start
  <2>2. batch \in [Worker -> SUBSET (1 .. cursor')]
    BY <2>1, BatchType
  <2> QED
    BY <1>1, <2>1, <2>2 DEF Start, TypeOK, trackVars, sinkVars
<1>2. ASSUME NEW last \in cursor + 1 .. Len(log), Deliver(last),
             UNCHANGED <<streamVars, grouped>>
      PROVE  /\ StreamTypeOK(Event)' /\ Fresh(last) \subseteq 1 .. cursor'
             /\ batch \in [Worker -> SUBSET (1 .. cursor')]
  <2>1. StreamTypeOK(Event)' /\ cursor < cursor' /\ cursor' = last
        /\ Fresh(last) \subseteq cursor + 1 .. last
    BY <1>0, <1>2, DeliverGroupType
  <2>2. cursor \in Nat /\ cursor' \in Nat
    BY <1>0, <2>1 DEF StreamTypeOK
  <2>3. batch \in [Worker -> SUBSET (1 .. cursor')]
    BY <2>1, <2>2, BatchType
  <2> QED
    BY <2>1, <2>2, <2>3
<1>3. CASE Read(w)
  <2>1. PICK last \in cursor + 1 .. Len(log) :
          Deliver(last) /\ batch' = [batch EXCEPT ![w] = @ \cup Fresh(last)]
    BY <1>3 DEF Read
  <2>2. /\ StreamTypeOK(Event)' /\ Fresh(last) \subseteq 1 .. cursor'
        /\ batch \in [Worker -> SUBSET (1 .. cursor')]
    BY <1>2, <1>3, <2>1 DEF Read
  <2>3. batch' \in [Worker -> SUBSET (1 .. cursor')]
    BY <2>1, <2>2
  <2> QED
    BY <1>3, <2>2, <2>3 DEF Read, TypeOK, trackVars, sinkVars
<1>4. CASE ReadFails(w)
  <2>1. StreamTypeOK(Event)' /\ batch \in [Worker -> SUBSET (1 .. cursor')]
    <3>1. CASE \E last \in cursor + 1 .. Len(log) : Deliver(last)
      BY <1>2, <1>4, <3>1 DEF ReadFails
    <3>2. CASE UNCHANGED <<cursor, pel>>
      BY <1>4, <3>2 DEF ReadFails, TypeOK, StreamTypeOK, streamVars
    <3> QED
      BY <1>4, <3>1, <3>2 DEF ReadFails
  <2>2. faults' \in 0 .. MaxFaults /\ lost \in 0 .. faults'
    BY <1>4, FaultType DEF ReadFails
  <2> QED
    BY <1>4, <2>1, <2>2 DEF ReadFails, TypeOK, trackVars, sinkVars
<1> QED
  BY <1>1, <1>3, <1>4

\* The steps of a worker that leave the stream and the group's cursor alone.
LEMMA TypeFlush ==
  ASSUME TypeOK, NEW w \in Worker,
         \/ Tick(w) \/ ReadNothing(w) \/ Skip(w) \/ Cancel(w) \/ InsertOk(w)
         \/ InsertFails(w) \/ InsertUnknown(w) \/ Ack(w) \/ AckLost(w)
         \/ Leave(w) \/ Stop(w)
  PROVE  TypeOK'
<1> USE DEF TypeOK, StreamTypeOK, trackVars, streamVars, groupVars, workerVars, sinkVars
<1>1. CASE Tick(w)
  BY <1>1 DEF Tick
<1>2. CASE ReadNothing(w)
  BY <1>2 DEF ReadNothing
<1>3. CASE Skip(w)
  BY <1>3 DEF Skip
<1>4. CASE Cancel(w)
  BY <1>4, FaultType DEF Cancel
<1>5. CASE InsertOk(w)
  BY <1>5, InsertType DEF InsertOk
<1>6. CASE InsertFails(w)
  BY <1>6, FaultType DEF InsertFails, GoOn
<1>7. CASE InsertUnknown(w)
  BY <1>7, FaultType, InsertType DEF InsertUnknown, GoOn
<1>8. CASE Ack(w)
  BY <1>8 DEF Ack, GoOn
<1>9. CASE AckLost(w)
  BY <1>9, FaultType DEF AckLost, GoOn
<1>10. CASE Leave(w)
  BY <1>10 DEF Leave
<1>11. CASE Stop(w)
  BY <1>11, FaultType DEF Stop
<1> QED
  BY <1>1, <1>2, <1>3, <1>4, <1>5, <1>6, <1>7, <1>8, <1>9, <1>10, <1>11

LEMMA TypeStep == TypeOK /\ [Next]_vars => TypeOK'
<1> SUFFICES ASSUME TypeOK, [Next]_vars PROVE TypeOK'
  OBVIOUS
<1>1. CASE Track
  BY <1>1, TypeTrack DEF Track
<1>2. CASE \E k \in Key : Expire(k)
  BY <1>2, TypeExpire
<1>3. CASE \E w \in Worker : Tick(w) \/ Work(w) \/ Fail(w)
  BY <1>3, TypeGroup, TypeFlush DEF Work, Fail
<1>4. CASE UNCHANGED vars
  BY <1>4 DEF vars, TypeOK, StreamTypeOK, trackVars, streamVars, groupVars, workerVars, sinkVars
<1> QED
  BY <1>1, <1>2, <1>3, <1>4 DEF Next

\* Every reachable state of the view pipeline is of the declared types.
THEOREM TypeCorrect == Spec => []TypeOK
BY TypeInit, TypeStep, PTL DEF Spec

-----------------------------------------------------------------------------
(* Rows and acknowledgements.  A worker holds entries that no other holds; *)
(* until it is about to acknowledge them their rows are all accounted for  *)
(* by lost replies, and from then on they have a row.                      *)

Acking(w) == pc[w] \in {"acking", "lastAck"}

LogBounded == Len(log) <= MaxEvents

UndeliveredHasNoRows == \A i \in 1 .. MaxEvents : i > cursor => rows[i] = 0

BatchesDisjoint == \A v, w \in Worker : v # w => batch[v] \cap batch[w] = {}

AckingIsInserted == \A w \in Worker : Acking(w) => \A i \in batch[w] : rows[i] > 0

HeldIsAccountedFor == \A w \in Worker : ~Acking(w) => \A i \in batch[w] : rows[i] <= lost

RowsInv ==
  /\ LogBounded
  /\ UndeliveredHasNoRows
  /\ BatchesDisjoint
  /\ AckingIsInserted
  /\ HeldIsAccountedFor
  /\ CopiesNeedLostReplies

LEMMA RowsInit == Init => RowsInv
<1> SUFFICES ASSUME Init PROVE RowsInv
  OBVIOUS
<1>1. Len(log) = 0 /\ LogBounded
  BY StreamAssumption DEF Init, StreamInit, LogBounded
<1>2. lost = 0 /\ \A i \in 1 .. MaxEvents : rows[i] = 0
  BY DEF Init
<1>3. \A w \in Worker : batch[w] = {} /\ pc[w] = "down"
  BY DEF Init
<1>4. UndeliveredHasNoRows /\ CopiesNeedLostReplies
  BY <1>2 DEF UndeliveredHasNoRows, CopiesNeedLostReplies
<1>5. BatchesDisjoint /\ AckingIsInserted /\ HeldIsAccountedFor
  BY <1>3 DEF BatchesDisjoint, AckingIsInserted, HeldIsAccountedFor
<1> QED
  BY <1>1, <1>4, <1>5 DEF RowsInv

\* The entries in anyone's hands are within the bound.
LEMMA HeldType ==
  ASSUME TypeOK, LogBounded, NEW w \in Worker, NEW i \in batch[w]
  PROVE  i \in 1 .. cursor /\ i \in 1 .. MaxEvents /\ rows[i] \in Nat
<1>1. i \in 1 .. cursor /\ cursor \in 0 .. Len(log) /\ Len(log) \in Nat
  BY DEF TypeOK, StreamTypeOK
<1>2. i \in 1 .. MaxEvents
  BY <1>1, StreamAssumption DEF LogBounded
<1> QED
  BY <1>1, <1>2 DEF TypeOK

\* A step of one worker that inserts nothing and reads nothing: the worker keeps
\* its batch, outside of an acknowledgement, or drops it.
LEMMA QuietStep ==
  ASSUME TypeOK, TypeOK', RowsInv, NEW w \in Worker,
         rows' = rows, lost' = lost, log' = log, cursor <= cursor',
         \A v \in Worker \ {w} : pc'[v] = pc[v] /\ batch'[v] = batch[v],
         \/ batch'[w] = {}
         \/ batch'[w] = batch[w] /\ ~Acking(w) /\ ~Acking(w)'
  PROVE  RowsInv'
<1>1. LogBounded'
  BY DEF RowsInv, LogBounded
<1>2. UndeliveredHasNoRows'
  <2>1. cursor \in Nat /\ cursor' \in Nat
    BY DEF TypeOK, StreamTypeOK
  <2> QED
    BY <2>1 DEF RowsInv, UndeliveredHasNoRows
<1>3. BatchesDisjoint'
  <2>1. \A v \in Worker : batch'[v] \subseteq batch[v]
    OBVIOUS
  <2> QED
    BY <2>1 DEF RowsInv, BatchesDisjoint
<1>4. AckingIsInserted'
  BY DEF RowsInv, AckingIsInserted, Acking
<1>5. HeldIsAccountedFor'
  BY DEF RowsInv, HeldIsAccountedFor, Acking
<1>6. CopiesNeedLostReplies'
  BY DEF RowsInv, CopiesNeedLostReplies
<1> QED
  BY <1>1, <1>2, <1>3, <1>4, <1>5, <1>6 DEF RowsInv

\* The entries of a read are new: no worker holds them, and they have no rows.
LEMMA ReadStep ==
  ASSUME TypeOK, TypeOK', RowsInv, NEW w \in Worker, Read(w)
  PROVE  RowsInv'
<1>1. PICK last \in cursor + 1 .. Len(log) :
        Deliver(last) /\ batch' = [batch EXCEPT ![w] = @ \cup Fresh(last)]
  BY DEF Read
<1>2. /\ log' = log /\ rows' = rows /\ lost' = lost
      /\ pc[w] = "reading" /\ pc' = [pc EXCEPT ![w] = "checking"]
  BY DEF Read, streamVars, sinkVars
<1>3. StreamTypeOK(Event) /\ cursor \in Nat /\ cursor' \in Nat /\ lost \in Nat
      /\ Len(log) \in Nat
  BY DEF TypeOK, StreamTypeOK
<1>4. cursor < cursor' /\ cursor' = last /\ Fresh(last) \subseteq cursor + 1 .. last
  BY <1>1, <1>3, DeliverGroupType DEF Read
<1>5. \A i \in Fresh(last) : i \in 1 .. MaxEvents /\ i > cursor /\ rows[i] = 0
  BY <1>1, <1>3, <1>4, StreamAssumption DEF RowsInv, LogBounded, UndeliveredHasNoRows
<1>6. \A v \in Worker : batch[v] \cap Fresh(last) = {}
  <2> SUFFICES ASSUME NEW v \in Worker, NEW i \in batch[v], i \in Fresh(last) PROVE FALSE
    OBVIOUS
  <2>1. i \in 1 .. cursor
    BY HeldType DEF RowsInv
  <2> QED
    BY <1>3, <1>5, <2>1
<1>7. /\ pc \in [Worker -> {"down", "reading", "checking", "acking", "leaving", "lastAck"}]
      /\ batch \in [Worker -> SUBSET (1 .. cursor)]
  BY DEF TypeOK
<1>8. /\ batch'[w] = batch[w] \cup Fresh(last) /\ ~Acking(w) /\ ~Acking(w)'
      /\ \A v \in Worker \ {w} : pc'[v] = pc[v] /\ batch'[v] = batch[v]
  BY <1>1, <1>2, <1>7 DEF Acking
<1>9. LogBounded'
  BY <1>2 DEF RowsInv, LogBounded
<1>10. UndeliveredHasNoRows'
  BY <1>2, <1>3, <1>4 DEF RowsInv, UndeliveredHasNoRows
<1>11. BatchesDisjoint'
  BY <1>6, <1>8 DEF RowsInv, BatchesDisjoint
<1>12. AckingIsInserted'
  BY <1>2, <1>8 DEF RowsInv, AckingIsInserted, Acking
<1>13. HeldIsAccountedFor'
  <2>1. \A i \in batch'[w] : rows[i] <= lost
    BY <1>3, <1>5, <1>8 DEF RowsInv, HeldIsAccountedFor
  <2> QED
    BY <1>2, <1>8, <2>1 DEF RowsInv, HeldIsAccountedFor, Acking
<1>14. CopiesNeedLostReplies'
  BY <1>2 DEF RowsInv, CopiesNeedLostReplies
<1> QED
  BY <1>9, <1>10, <1>11, <1>12, <1>13, <1>14 DEF RowsInv

\* An insert that lands, with its reply or without.  The reply that was lost
\* accounts for the rows of the batch that is kept.
LEMMA InsertStep ==
  ASSUME TypeOK, TypeOK', RowsInv, NEW w \in Worker, InsertOk(w) \/ InsertUnknown(w)
  PROVE  RowsInv'
<1>1. /\ log' = log /\ cursor' = cursor /\ Insert(w) /\ ~Acking(w)
  BY DEF InsertOk, InsertUnknown, streamVars, groupVars, Flushing, Acking
<1>2. \A i \in 1 .. MaxEvents : rows'[i] = IF i \in batch[w] THEN rows[i] + 1 ELSE rows[i]
  BY <1>1, InsertType
<1>3. rows \in [1 .. MaxEvents -> Nat] /\ lost \in Nat /\ cursor \in Nat /\ LogBounded
  BY DEF TypeOK, StreamTypeOK, RowsInv
<1>4. /\ pc \in [Worker -> {"down", "reading", "checking", "acking", "leaving", "lastAck"}]
      /\ batch \in [Worker -> SUBSET (1 .. cursor)]
  BY DEF TypeOK
<1>5. \A v \in Worker \ {w} : pc'[v] = pc[v] /\ batch'[v] = batch[v]
  BY <1>4 DEF InsertOk, InsertUnknown, GoOn
<1>6. \/ lost' = lost /\ batch'[w] = batch[w] /\ Acking(w)'
      \/ lost' = lost + 1 /\ (batch'[w] = batch[w] \/ batch'[w] = {}) /\ ~Acking(w)'
  BY <1>1, <1>4 DEF InsertOk, InsertUnknown, GoOn, Acking
<1>7. \A v \in Worker \ {w} : \A i \in batch[v] : rows'[i] = rows[i] /\ rows[i] \in Nat
  BY <1>2, HeldType DEF RowsInv, BatchesDisjoint
<1>8. \A i \in batch[w] : rows'[i] = rows[i] + 1 /\ rows[i] \in Nat /\ rows[i] <= lost
  BY <1>1, <1>2, HeldType DEF RowsInv, HeldIsAccountedFor
<1>9. LogBounded'
  BY <1>1 DEF RowsInv, LogBounded
<1>10. UndeliveredHasNoRows'
  <2> SUFFICES ASSUME NEW i \in 1 .. MaxEvents, i > cursor PROVE rows'[i] = 0
    BY <1>1 DEF UndeliveredHasNoRows
  <2>1. i \notin batch[w]
    BY <1>3, HeldType
  <2> QED
    BY <1>2, <2>1 DEF RowsInv, UndeliveredHasNoRows
<1>11. BatchesDisjoint'
  <2>1. \A v \in Worker : batch'[v] \subseteq batch[v]
    BY <1>5, <1>6
  <2> QED
    BY <2>1 DEF RowsInv, BatchesDisjoint
<1>12. AckingIsInserted'
  <2> SUFFICES ASSUME NEW v \in Worker, Acking(v)', NEW i \in batch'[v] PROVE rows'[i] > 0
    BY DEF AckingIsInserted
  <2>1. CASE v = w
    BY <1>6, <1>8, <2>1
  <2>2. CASE v # w
    BY <1>5, <1>7, <2>2 DEF RowsInv, AckingIsInserted, Acking
  <2> QED
    BY <2>1, <2>2
<1>13. HeldIsAccountedFor'
  <2> SUFFICES ASSUME NEW v \in Worker, ~Acking(v)', NEW i \in batch'[v] PROVE rows'[i] <= lost'
    BY DEF HeldIsAccountedFor
  <2>1. CASE v = w
    BY <1>3, <1>6, <1>8, <2>1
  <2>2. CASE v # w
    <3>1. rows'[i] = rows[i] /\ rows[i] \in Nat /\ rows[i] <= lost
      BY <1>5, <1>7, <2>2 DEF RowsInv, HeldIsAccountedFor, Acking
    <3> QED
      BY <1>3, <1>6, <3>1
  <2> QED
    BY <2>1, <2>2
<1>14. CopiesNeedLostReplies'
  <2> SUFFICES ASSUME NEW i \in 1 .. MaxEvents PROVE rows'[i] <= 1 + lost'
    BY DEF CopiesNeedLostReplies
  <2>1. rows[i] \in Nat /\ rows[i] <= 1 + lost
    BY <1>3 DEF RowsInv, CopiesNeedLostReplies
  <2>2. CASE i \in batch[w]
    BY <1>3, <1>6, <1>8, <2>2
  <2>3. CASE i \notin batch[w]
    BY <1>2, <1>3, <1>6, <2>1, <2>3
  <2> QED
    BY <2>2, <2>3
<1> QED
  BY <1>9, <1>10, <1>11, <1>12, <1>13, <1>14 DEF RowsInv

\* Requests and the clock touch neither the batches nor the rows.
LEMMA RequestRowsStep ==
  ASSUME TypeOK, TypeOK', RowsInv,
         \/ Track
         \/ \E k \in Key : Expire(k)
         \/ \E w \in Worker : Tick(w)
         \/ UNCHANGED vars
  PROVE  RowsInv'
<1>1. /\ pc' = pc /\ batch' = batch /\ rows' = rows /\ lost' = lost /\ cursor' = cursor
  BY DEF Track, Mark, MarkFails, Send, SendFails, Expire, Tick, vars, groupVars, workerVars,
         sinkVars
<1>2. LogBounded'
  <2>1. CASE \E r \in Request : Send(r)
    <3>1. PICK r \in Request : Send(r)
      BY <2>1
    <3>2. PICK e \in sending[r] : XAdd(e)
      BY <3>1 DEF Send
    <3>3. StreamTypeOK(Event) /\ e \in Event /\ UNCHANGED groupVars
      BY <3>1, <3>2, SendingType DEF TypeOK, Send
    <3> QED
      BY <3>2, <3>3, XAddType DEF LogBounded
  <2>2. CASE log' = log
    BY <2>2 DEF RowsInv, LogBounded
  <2> QED
    BY <2>1, <2>2
    DEF Track, Mark, MarkFails, SendFails, Expire, Tick, vars, streamVars
<1> QED
  BY <1>1, <1>2 DEF RowsInv, UndeliveredHasNoRows, BatchesDisjoint, AckingIsInserted,
                    HeldIsAccountedFor, CopiesNeedLostReplies, Acking

\* Everything else that a worker does.
LEMMA QuietRowsStep ==
  ASSUME TypeOK, TypeOK', RowsInv, NEW w \in Worker,
         \/ Start(w) \/ ReadNothing(w) \/ ReadFails(w) \/ Skip(w) \/ Cancel(w)
         \/ InsertFails(w) \/ Ack(w) \/ AckLost(w) \/ Leave(w) \/ Stop(w)
  PROVE  RowsInv'
<1>1. /\ pc \in [Worker -> {"down", "reading", "checking", "acking", "leaving", "lastAck"}]
      /\ batch \in [Worker -> SUBSET (1 .. cursor)]
      /\ cursor \in Nat /\ StreamTypeOK(Event)
  BY DEF TypeOK, StreamTypeOK
<1>2. rows' = rows /\ lost' = lost /\ log' = log
  BY DEF Start, ReadNothing, ReadFails, Skip, Cancel, InsertFails, Ack, AckLost, Leave, Stop,
         streamVars, sinkVars
<1>3. cursor <= cursor'
  <2>1. CASE Start(w)
    BY <1>1, <2>1, EnsureGroupType DEF Start
  <2>2. CASE ReadFails(w)
    <3>1. ASSUME NEW last \in cursor + 1 .. Len(log), Deliver(last) PROVE cursor < cursor'
      BY <1>1, <2>2, <3>1, DeliverGroupType DEF ReadFails
    <3>2. CASE cursor' = cursor
      BY <1>1, <3>2
    <3>3. cursor' \in Nat
      BY DEF TypeOK, StreamTypeOK
    <3> QED
      BY <1>1, <2>2, <3>1, <3>2, <3>3 DEF ReadFails
  <2>3. CASE cursor' = cursor
    BY <1>1, <2>3
  <2> QED
    BY <2>1, <2>2, <2>3
    DEF ReadNothing, Skip, Cancel, InsertFails, Ack, AckLost, Leave, Stop, groupVars
<1>4. \A v \in Worker \ {w} : pc'[v] = pc[v] /\ batch'[v] = batch[v]
  BY <1>1
  DEF Start, ReadNothing, ReadFails, Skip, Cancel, InsertFails, Ack, AckLost, Leave, Stop, GoOn
<1>5. \/ batch'[w] = {}
      \/ batch'[w] = batch[w] /\ ~Acking(w) /\ ~Acking(w)'
  <2>1. CASE Start(w) \/ ReadNothing(w) \/ ReadFails(w) \/ Skip(w)
    BY <1>1, <2>1 DEF Start, ReadNothing, ReadFails, Skip, Acking
  <2>2. CASE Cancel(w) \/ InsertFails(w) \/ Leave(w)
    BY <1>1, <2>2 DEF Cancel, InsertFails, Flushing, GoOn, Leave, Acking
  <2>3. CASE Ack(w) \/ AckLost(w) \/ Stop(w)
    BY <1>1, <2>3 DEF Ack, AckLost, Stop
  <2> QED
    BY <2>1, <2>2, <2>3
<1> QED
  BY <1>2, <1>3, <1>4, <1>5, QuietStep

LEMMA RowsStep == TypeOK /\ TypeOK' /\ RowsInv /\ [Next]_vars => RowsInv'
<1> SUFFICES ASSUME TypeOK, TypeOK', RowsInv, [Next]_vars PROVE RowsInv'
  OBVIOUS
<1>1. CASE Track \/ (\E k \in Key : Expire(k)) \/ (\E w \in Worker : Tick(w)) \/ UNCHANGED vars
  BY <1>1, RequestRowsStep
<1>2. ASSUME NEW w \in Worker, Work(w) \/ Fail(w) PROVE RowsInv'
  BY <1>2, QuietRowsStep, ReadStep, InsertStep DEF Work, Fail
<1> QED
  BY <1>1, <1>2 DEF Next

\* A view is inserted again only after an insert whose reply was lost, with any
\* number of workers: no crash and no failed XACK makes a copy.
THEOREM CopiesComeFromLostReplies == Spec => []CopiesNeedLostReplies
<1>1. RowsInv => CopiesNeedLostReplies
  BY DEF RowsInv
<1> QED
  BY <1>1, RowsInit, RowsStep, TypeCorrect, PTL DEF Spec

LEMMA AckStep ==
  ASSUME TypeOK, RowsInv, [Next]_vars, NEW i \in pel \ pel'
  PROVE  rows[i] > 0
<1>1. PICK w \in Worker : Ack(w)
  <2>1. CASE \E w \in Worker : Ack(w)
    BY <2>1
  <2>2. CASE pel \subseteq pel'
    BY <2>2
  <2>3. CASE Track \/ (\E k \in Key : Expire(k)) \/ UNCHANGED vars
    BY <2>2, <2>3
    DEF Track, Mark, MarkFails, Send, SendFails, Expire, vars, groupVars
  <2>4. ASSUME NEW w \in Worker, Tick(w) \/ Work(w) \/ Fail(w), ~Ack(w) PROVE pel \subseteq pel'
    <3>1. CASE Read(w) \/ ReadFails(w)
      BY <3>1 DEF Read, ReadFails, Deliver
    <3> QED
      BY <2>4, <3>1
      DEF Tick, Work, Fail, Start, ReadNothing, Skip, InsertOk, Leave, InsertFails,
          InsertUnknown, AckLost, Cancel, Stop, groupVars
  <2> QED
    BY <2>1, <2>2, <2>3, <2>4 DEF Next
<1>2. i \in batch[w] /\ Acking(w)
  BY <1>1 DEF Ack, Acking
<1> QED
  BY <1>2 DEF RowsInv, AckingIsInserted

\* A view leaves the pending list only once ClickHouse has it.
THEOREM AcksFollowInserts == Spec => AckedOnlyIfInserted
<1>1. TypeOK /\ RowsInv /\ [Next]_vars => [\A i \in pel \ pel' : rows[i] > 0]_vars
  BY AckStep
<1> QED
  BY <1>1, RowsInit, RowsStep, TypeCorrect, PTL DEF Spec, AckedOnlyIfInserted

\* Of the steps that are no faults, only Ack takes anything out of a batch, and
\* it takes the same out of the pending list.
LEMMA StrandedStep ==
  ASSUME TypeOK, LogBounded, [Next]_vars, NEW i \in Ids, Stranded(i)', ~Stranded(i)
  PROVE  faults' > faults
<1>1. /\ batch \in [Worker -> SUBSET (1 .. cursor)] /\ faults \in Nat
      /\ rows \in [1 .. MaxEvents -> Nat] /\ i \in 1 .. MaxEvents
  BY ViewAssumption, StreamAssumption DEF TypeOK, StreamTypeOK, LogBounded, Ids
<1>2. i \in pel' /\ rows'[i] = 0 /\ \A w \in Worker : i \notin batch'[w]
  BY DEF Stranded
<1>3. i \notin pel \/ rows[i] # 0 \/ \E w \in Worker : i \in batch[w]
  BY DEF Stranded
<1>4. ASSUME UNCHANGED <<pel, batch, rows>> PROVE FALSE
  BY <1>2, <1>3, <1>4
<1>5. ASSUME NEW x \in Worker, Read(x) PROVE FALSE
  <2>1. PICK last \in cursor + 1 .. Len(log) :
          Deliver(last) /\ batch' = [batch EXCEPT ![x] = @ \cup Fresh(last)]
    BY <1>5 DEF Read
  <2>2. pel' = pel \cup Fresh(last) /\ batch'[x] = batch[x] \cup Fresh(last)
    BY <1>1, <2>1 DEF Deliver
  <2>3. \A w \in Worker \ {x} : batch'[w] = batch[w]
    BY <1>1, <2>1
  <2>4. rows' = rows
    BY <1>5 DEF Read, sinkVars
  <2> QED
    BY <1>2, <1>3, <2>2, <2>3, <2>4
<1>6. ASSUME NEW x \in Worker, InsertOk(x) PROVE FALSE
  <2>1. pel' = pel /\ batch' = batch
    BY <1>6 DEF InsertOk, groupVars
  <2>2. rows'[i] = IF i \in batch[x] THEN rows[i] + 1 ELSE rows[i]
    BY <1>1, <1>6 DEF InsertOk, Insert
  <2>3. rows[i] \in Nat
    BY <1>1
  <2>4. rows[i] = 0 /\ i \notin batch[x]
    BY <1>2, <2>2, <2>3
  <2> QED
    BY <1>2, <1>3, <2>1, <2>4
<1>7. ASSUME NEW x \in Worker, Ack(x) PROVE FALSE
  <2>1. pel' = pel \ batch[x] /\ rows' = rows /\ batch' = [batch EXCEPT ![x] = {}]
    BY <1>7 DEF Ack, sinkVars
  <2> QED
    BY <1>1, <1>2, <1>3, <2>1
<1>8. ASSUME NEW x \in Worker, Fail(x) PROVE faults' > faults
  BY <1>1, <1>8 DEF Fail, ReadFails, InsertFails, InsertUnknown, AckLost, Cancel, Stop, Fault
<1>9. ASSUME NEW x \in Worker,
             Start(x) \/ Tick(x) \/ ReadNothing(x) \/ Skip(x) \/ Leave(x)
      PROVE  FALSE
  BY <1>4, <1>9 DEF Start, Tick, ReadNothing, Skip, Leave, groupVars, sinkVars
<1>10. CASE Track \/ \E k \in Key : Expire(k)
  BY <1>4, <1>10 DEF Track, Mark, MarkFails, Send, SendFails, Expire, groupVars,
                     workerVars, sinkVars
<1> QED
  BY <1>4, <1>5, <1>6, <1>7, <1>8, <1>9, <1>10
     DEF Next, Work, vars, groupVars, workerVars, sinkVars

\* A view that a worker was given and ClickHouse does not have stays in some
\* worker's hands until a fault takes it out of them.
THEOREM FaultsAloneStrand == Spec => StrandedByFaults
<1>1. TypeOK /\ RowsInv /\ [Next]_vars
        => [\A i \in Ids : Stranded(i)' /\ ~Stranded(i) => faults' > faults]_vars
  BY StrandedStep DEF RowsInv
<1> QED
  BY <1>1, RowsInit, RowsStep, TypeCorrect, PTL DEF Spec, StrandedByFaults

\* What is pending lies before the cursor, and only what lies behind it is
\* delivered; only what a worker holds is inserted or acknowledged.
LEMMA LostStep ==
  ASSUME TypeOK, LogBounded, [Next]_vars, NEW i \in Ids, Stranded(i)
  PROVE  Stranded(i)'
<1>1. /\ batch \in [Worker -> SUBSET (1 .. cursor)] /\ pel \subseteq 1 .. cursor
      /\ cursor \in Nat /\ i \in 1 .. MaxEvents
  BY StreamAssumption DEF TypeOK, StreamTypeOK, LogBounded, Ids
<1>2. i \in pel /\ rows[i] = 0 /\ i <= cursor /\ \A w \in Worker : i \notin batch[w]
  BY <1>1 DEF Stranded
<1>3. ASSUME UNCHANGED <<pel, batch, rows>> PROVE Stranded(i)'
  BY <1>2, <1>3 DEF Stranded
<1>4. ASSUME NEW last, Deliver(last) PROVE i \in pel' /\ i \notin Fresh(last)
  BY <1>1, <1>2, <1>4 DEF Deliver, Fresh
<1>5. ASSUME NEW x \in Worker, Insert(x) PROVE rows'[i] = 0
  BY <1>1, <1>2, <1>5 DEF Insert
<1>6. ASSUME NEW x \in Worker, batch' \in {batch, [batch EXCEPT ![x] = {}]}
      PROVE  \A w \in Worker : i \notin batch'[w]
  BY <1>1, <1>2, <1>6
<1>7. ASSUME NEW x \in Worker, Read(x) PROVE Stranded(i)'
  <2>1. PICK last \in cursor + 1 .. Len(log) :
          Deliver(last) /\ batch' = [batch EXCEPT ![x] = @ \cup Fresh(last)]
    BY <1>7 DEF Read
  <2>2. rows' = rows
    BY <1>7 DEF Read, sinkVars
  <2> QED
    BY <1>1, <1>2, <1>4, <2>1, <2>2 DEF Stranded
<1>8. ASSUME NEW x \in Worker, ReadFails(x) PROVE Stranded(i)'
  BY <1>2, <1>4, <1>8 DEF ReadFails, sinkVars, Stranded
<1>9. ASSUME NEW x \in Worker, InsertOk(x) PROVE Stranded(i)'
  BY <1>2, <1>5, <1>9 DEF InsertOk, groupVars, Stranded
<1>10. ASSUME NEW x \in Worker, InsertUnknown(x) PROVE Stranded(i)'
  <2>1. batch' \in {batch, [batch EXCEPT ![x] = {}]}
    BY <1>1, <1>10 DEF InsertUnknown
  <2> QED
    BY <1>2, <1>5, <1>6, <1>10, <2>1 DEF InsertUnknown, groupVars, Stranded
<1>11. ASSUME NEW x \in Worker, InsertFails(x) \/ Cancel(x) \/ AckLost(x) \/ Stop(x)
       PROVE  Stranded(i)'
  <2>1. batch' \in {batch, [batch EXCEPT ![x] = {}]}
    BY <1>1, <1>11 DEF InsertFails, Cancel, AckLost, Stop
  <2> QED
    BY <1>2, <1>6, <1>11, <2>1 DEF InsertFails, Cancel, AckLost, Stop, groupVars, sinkVars, Stranded
<1>12. ASSUME NEW x \in Worker, Ack(x) PROVE Stranded(i)'
  <2>1. pel' = pel \ batch[x] /\ rows' = rows /\ batch' = [batch EXCEPT ![x] = {}]
    BY <1>12 DEF Ack, sinkVars
  <2> QED
    BY <1>2, <1>6, <2>1 DEF Stranded
<1>13. ASSUME NEW x \in Worker,
              Start(x) \/ Tick(x) \/ ReadNothing(x) \/ Skip(x) \/ Leave(x)
       PROVE  Stranded(i)'
  BY <1>3, <1>13 DEF Start, Tick, ReadNothing, Skip, Leave, groupVars, sinkVars
<1>14. CASE Track \/ \E k \in Key : Expire(k)
  BY <1>3, <1>14 DEF Track, Mark, MarkFails, Send, SendFails, Expire, groupVars,
                     workerVars, sinkVars
<1> QED
  BY <1>3, <1>7, <1>8, <1>9, <1>10, <1>11, <1>12, <1>13, <1>14
     DEF Next, Work, Fail, vars, groupVars, workerVars, sinkVars

\* A view that is pending, has no row and is in nobody's hands stays so: that is
\* what it means that reads ask for new entries only.
THEOREM LossIsFinal == Spec => LostForGood
<1>1. TypeOK /\ RowsInv /\ [Next]_vars => [\A i \in Ids : Stranded(i) => Stranded(i)']_vars
  BY LostStep DEF RowsInv
<1> QED
  BY <1>1, RowsInit, RowsStep, TypeCorrect, PTL DEF Spec, LostForGood

-----------------------------------------------------------------------------
(* Unique views.  A view is Past if its window is over or has its mark.    *)

Past(e) ==
  \/ e.window < window[e.key]
  \/ e.window = window[e.key] /\ e.key \in marked

Same(e, f) == e.unique /\ f.unique /\ e.key = f.key /\ e.window = f.window

OneView == \A r \in Request : \A e, f \in sending[r] : e = f

StreamedIsPast == \A i \in Ids : log[i].unique => Past(log[i])

SendingIsPast == \A r \in Request : \A e \in sending[r] : e.unique => Past(e)

NotStreamedYet == \A r \in Request : \A e \in sending[r] : \A i \in Ids : ~Same(log[i], e)

SentOnce ==
  \A r, s \in Request : \A e \in sending[r] : \A f \in sending[s] : Same(e, f) => r = s

UniqueInv ==
  /\ OneView
  /\ StreamedIsPast
  /\ SendingIsPast
  /\ NotStreamedYet
  /\ SentOnce
  /\ OneUniquePerWindow

LEMMA UniqueInit == Init => UniqueInv
<1> SUFFICES ASSUME Init PROVE UniqueInv
  OBVIOUS
<1>1. Ids = {} /\ \A r \in Request : sending[r] = {}
  BY DEF Init, StreamInit, Ids
<1> QED
  BY <1>1 DEF UniqueInv, OneView, StreamedIsPast, SendingIsPast, NotStreamedYet, SentOnce,
              OneUniquePerWindow

LEMMA EventOfId ==
  ASSUME TypeOK, NEW i \in Ids
  PROVE  log[i] \in Event
BY DEF TypeOK, StreamTypeOK, Ids

\* What is past stays past: a mark goes only with its window.
LEMMA PastStays ==
  ASSUME TypeOK, NEW e \in Event, Past(e),
         \/ marked \subseteq marked' /\ window' = window
         \/ \E k \in Key : Expire(k)
  PROVE  Past(e)'
<1>1. e.key \in Key /\ e.window \in Nat /\ window \in [Key -> 0 .. MaxExpiries]
  BY DEF Event, TypeOK
<1>2. CASE marked \subseteq marked' /\ window' = window
  BY <1>2 DEF Past
<1>3. ASSUME NEW k \in Key, Expire(k) PROVE Past(e)'
  <2>1. /\ marked' = marked \ {k}
        /\ window'[k] = window[k] + 1
        /\ \A j \in Key \ {k} : window'[j] = window[j]
    BY <1>1, <1>3 DEF Expire
  <2>2. window[e.key] \in Nat
    BY <1>1, ViewAssumption
  <2> QED
    BY <1>1, <2>1, <2>2 DEF Past
<1> QED
  BY <1>2, <1>3

\* The view that TryMark makes is past, and a unique one is the first of its window.
LEMMA NewView ==
  ASSUME TypeOK, NEW k \in Key, NEW e, e.key = k, e.window = window[k], window' = window,
         e.unique => k \notin marked /\ k \in marked'
  PROVE  /\ e.unique => Past(e)'
         /\ \A f \in Event : (f.unique => Past(f)) => ~Same(f, e) /\ ~Same(e, f)
<1>2. e.unique => Past(e)'
  BY DEF Past
<1>3. ASSUME NEW f \in Event, f.unique => Past(f) PROVE ~Same(f, e) /\ ~Same(e, f)
  <2>1. window[k] \in Nat
    BY ViewAssumption DEF TypeOK
  <2>2. f.unique /\ f.key = k => f.window < window[k] \/ k \in marked
    BY <1>3 DEF Past
  <2> QED
    BY <2>1, <2>2 DEF Same
<1> QED
  BY <1>2, <1>3

LEMMA MarkUniqueStep ==
  ASSUME TypeOK, TypeOK', UniqueInv, NEW r \in Request, NEW k \in Key,
         Mark(r, k) \/ MarkFails(r, k)
  PROVE  UniqueInv'
<1>1. PICK e \in Event :
        /\ sending' = [sending EXCEPT ![r] = {e}]
        /\ e.key = k /\ e.window = window[k]
        /\ e.unique => k \notin marked /\ k \in marked'
  <2>1. ASSUME NEW u \in BOOLEAN, sending' = [sending EXCEPT ![r] = {View(k, u)}],
               u => k \notin marked /\ k \in marked'
        PROVE  \E e \in Event :
                 /\ sending' = [sending EXCEPT ![r] = {e}]
                 /\ e.key = k /\ e.window = window[k]
                 /\ e.unique => k \notin marked /\ k \in marked'
    <3>1. View(k, u) \in Event
      BY ViewType
    <3>2. View(k, u).key = k /\ View(k, u).window = window[k] /\ View(k, u).unique = u
      BY DEF View
    <3> QED
      BY <2>1, <3>1, <3>2
  <2>2. CASE Mark(r, k)
    BY <2>1, <2>2 DEF Mark
  <2>3. CASE MarkFails(r, k)
    BY <2>1, <2>3 DEF MarkFails
  <2> QED
    BY <2>2, <2>3
<1>2. /\ sending[r] = {} /\ marked \subseteq marked' /\ window' = window /\ log' = log
      /\ Ids' = Ids
  BY DEF Mark, MarkFails, streamVars, Ids
<1>3. /\ e.unique => Past(e)'
      /\ \A f \in Event : (f.unique => Past(f)) => ~Same(f, e) /\ ~Same(e, f)
  BY <1>1, <1>2, NewView
<1>4. /\ sending'[r] = {e}
      /\ \A s \in Request \ {r} : sending'[s] = sending[s]
  BY <1>1 DEF TypeOK
<1>5. \A i \in Ids : /\ log[i] \in Event /\ (log[i].unique => Past(log[i]))
  BY EventOfId DEF UniqueInv, StreamedIsPast
<1>6. \A s \in Request : \A f \in sending[s] : f \in Event /\ (f.unique => Past(f))
  BY SendingType DEF UniqueInv, SendingIsPast
<1>7. OneView'
  BY <1>4 DEF UniqueInv, OneView
<1>8. StreamedIsPast'
  <2>1. \A i \in Ids : log[i].unique => Past(log[i])'
    BY <1>2, <1>5, PastStays
  <2> QED
    BY <1>2, <2>1 DEF StreamedIsPast, Past
<1>9. SendingIsPast'
  <2>1. \A s \in Request : \A f \in sending[s] : f.unique => Past(f)'
    BY <1>2, <1>6, PastStays
  <2> QED
    BY <1>3, <1>4, <2>1 DEF SendingIsPast
<1>10. NotStreamedYet'
  <2>1. \A i \in Ids : ~Same(log[i], e)
    BY <1>3, <1>5
  <2> QED
    BY <1>2, <1>4, <2>1 DEF UniqueInv, NotStreamedYet
<1>11. SentOnce'
  <2>1. \A s \in Request \ {r} : \A f \in sending[s] : ~Same(f, e) /\ ~Same(e, f)
    BY <1>3, <1>6
  <2> QED
    BY <1>4, <2>1 DEF UniqueInv, SentOnce
<1>12. OneUniquePerWindow'
  BY <1>2 DEF UniqueInv, OneUniquePerWindow
<1> QED
  BY <1>7, <1>8, <1>9, <1>10, <1>11, <1>12 DEF UniqueInv

\* XADD moves a view from the request to the stream.
LEMMA SendUniqueStep ==
  ASSUME TypeOK, TypeOK', UniqueInv, NEW r \in Request, Send(r)
  PROVE  UniqueInv'
<1>1. PICK e \in sending[r] : XAdd(e)
  BY DEF Send
<1>2. marked' = marked /\ window' = window /\ UNCHANGED groupVars /\ StreamTypeOK(Event)
  BY DEF Send, TypeOK
<1>3. e \in Event
  BY SendingType
<1>4. /\ Len(log') = Len(log) + 1 /\ log'[Len(log')] = e
      /\ \A i \in 1 .. Len(log) : log'[i] = log[i]
  BY <1>1, <1>2, <1>3, XAddType
<1>5. Len(log) \in Nat /\ Len(log') \in Nat
  BY <1>2, <1>4 DEF StreamTypeOK
<1>6. /\ Ids' = Ids \cup {Len(log')}
      /\ \A i \in Ids : log'[i] = log[i]
  BY <1>4, <1>5 DEF Ids
<1>7. /\ sending'[r] = {}
      /\ \A s \in Request \ {r} : sending'[s] = sending[s]
  BY DEF Send, TypeOK
<1>8. OneView' /\ SendingIsPast' /\ SentOnce'
  BY <1>2, <1>7 DEF UniqueInv, OneView, SendingIsPast, SentOnce, Past
<1>9. StreamedIsPast'
  <2>1. \A i \in Ids' : log'[i].unique => Past(log'[i])
    BY <1>4, <1>6 DEF UniqueInv, StreamedIsPast, SendingIsPast
  <2> QED
    BY <1>2, <2>1 DEF StreamedIsPast, Past
<1>10. NotStreamedYet'
  <2> SUFFICES ASSUME NEW s \in Request, NEW f \in sending'[s], NEW i \in Ids' PROVE ~Same(log'[i], f)
    BY DEF NotStreamedYet
  <2>1. s # r /\ f \in sending[s]
    BY <1>7
  <2>2. CASE i \in Ids
    BY <1>6, <2>1, <2>2 DEF UniqueInv, NotStreamedYet
  <2>3. CASE i = Len(log')
    BY <1>4, <2>1, <2>3 DEF UniqueInv, SentOnce
  <2> QED
    BY <1>6, <2>2, <2>3
<1>11. OneUniquePerWindow'
  <2>1. \A i \in Ids : ~Same(log[i], e) /\ ~Same(e, log[i])
    BY DEF UniqueInv, NotStreamedYet, Same
  <2>2. \A i, j \in Ids : Same(log[i], log[j]) => i = j
    BY DEF UniqueInv, OneUniquePerWindow, Same
  <2>3. \A i, j \in Ids' : Same(log'[i], log'[j]) => i = j
    BY <1>4, <1>6, <2>1, <2>2
  <2> QED
    BY <2>3 DEF OneUniquePerWindow, Same
<1> QED
  BY <1>8, <1>9, <1>10, <1>11 DEF UniqueInv

\* All other steps send nothing and stream nothing.
LEMMA OtherUniqueStep ==
  ASSUME TypeOK, TypeOK', UniqueInv, log' = log,
         \A r \in Request : sending'[r] \subseteq sending[r],
         UNCHANGED <<marked, window>> \/ \E k \in Key : Expire(k)
  PROVE  UniqueInv'
<1>1. Ids' = Ids
  BY DEF Ids
<1>2. StreamedIsPast'
  <2>1. \A i \in Ids : log[i].unique => Past(log[i])'
    BY EventOfId, PastStays DEF UniqueInv, StreamedIsPast
  <2> QED
    BY <1>1, <2>1 DEF StreamedIsPast, Past
<1>3. SendingIsPast'
  <2>1. \A r \in Request : \A e \in sending[r] : e.unique => Past(e)'
    BY SendingType, PastStays DEF UniqueInv, SendingIsPast
  <2> QED
    BY <2>1 DEF SendingIsPast
<1>4. OneView' /\ NotStreamedYet' /\ SentOnce' /\ OneUniquePerWindow'
  BY <1>1 DEF UniqueInv, OneView, NotStreamedYet, SentOnce, OneUniquePerWindow
<1> QED
  BY <1>2, <1>3, <1>4 DEF UniqueInv

LEMMA UniqueStep == TypeOK /\ TypeOK' /\ UniqueInv /\ [Next]_vars => UniqueInv'
<1> SUFFICES ASSUME TypeOK, TypeOK', UniqueInv, [Next]_vars PROVE UniqueInv'
  OBVIOUS
<1>1. ASSUME NEW r \in Request, SendFails(r) PROVE UniqueInv'
  BY <1>1, OtherUniqueStep DEF SendFails, streamVars, TypeOK
<1>2. ASSUME NEW k \in Key, Expire(k) PROVE UniqueInv'
  BY <1>2, OtherUniqueStep DEF Expire, streamVars
<1>3. CASE (\E w \in Worker : Tick(w) \/ Work(w) \/ Fail(w)) \/ UNCHANGED vars
  <2>1. log' = log /\ UNCHANGED trackVars
    BY <1>3
    DEF vars, Tick, Work, Fail, Start, Read, ReadNothing, ReadFails, Skip, Cancel, InsertOk,
        InsertFails, InsertUnknown, Ack, AckLost, Leave, Stop, streamVars
  <2> QED
    BY <2>1, OtherUniqueStep DEF trackVars
<1> QED
  BY <1>1, <1>2, <1>3, MarkUniqueStep, SendUniqueStep DEF Next, Track

\* The stream has at most one unique view per key and window, with any number of
\* requests that mark and stream in any order.
THEOREM UniqueViewsAreUnique == Spec => []OneUniquePerWindow
<1>1. UniqueInv => OneUniquePerWindow
  BY DEF UniqueInv
<1> QED
  BY <1>1, UniqueInit, UniqueStep, TypeCorrect, PTL DEF Spec

-----------------------------------------------------------------------------
(* The size of a batch.  Before a read there is room for it. *)

RoomToRead ==
  \A w \in Worker :
    /\ pc[w] = "down" => batch[w] = {}
    /\ pc[w] = "reading" => Cardinality(batch[w]) < FlushSize + BatchSize * faults

BatchInv == RoomToRead /\ BatchBounded

\* What a fault adds to the bound.
LEMMA FaultRoom ==
  ASSUME TypeOK, faults' = faults \/ faults' = faults + 1
  PROVE  /\ BatchSize * faults \in Nat /\ BatchSize * faults' \in Nat
         /\ BatchSize * (1 + faults) = BatchSize * faults + BatchSize
         /\ BatchSize * (1 + faults') = BatchSize * faults' + BatchSize
         /\ BatchSize * faults <= BatchSize * faults'
         /\ faults' = faults + 1 => BatchSize * faults' = BatchSize * faults + BatchSize
<1>1. faults \in Nat /\ faults' \in Nat /\ BatchSize \in Nat /\ FlushSize \in Nat
  BY StreamAssumption, ViewAssumption DEF TypeOK
<1>2. \A n \in Nat : BatchSize * n \in Nat /\ BatchSize * (1 + n) = BatchSize * n + BatchSize
  BY <1>1
<1>3. /\ BatchSize * faults \in Nat
      /\ BatchSize * (1 + faults) = BatchSize * faults + BatchSize
  BY <1>1, <1>2
<1>4. /\ BatchSize * faults' \in Nat
      /\ BatchSize * (1 + faults') = BatchSize * faults' + BatchSize
  BY <1>1, <1>2
<1>5. CASE faults' = faults
  BY <1>1, <1>3, <1>4, <1>5
<1>6. CASE faults' = faults + 1
  <2>1. faults' = 1 + faults
    BY <1>1, <1>6
  <2>2. BatchSize * faults' = BatchSize * (1 + faults)
    BY <2>1
  <2>3. BatchSize * faults <= BatchSize * faults + BatchSize
    BY <1>1, <1>3
  <2> QED
    BY <1>3, <1>4, <2>2, <2>3
<1> QED
  BY <1>5, <1>6

LEMMA BatchFinite ==
  ASSUME TypeOK, NEW w \in Worker
  PROVE  IsFiniteSet(batch[w]) /\ Cardinality(batch[w]) \in Nat
<1>1. cursor \in Nat /\ batch[w] \subseteq 1 .. cursor
  BY DEF TypeOK, StreamTypeOK
<1>2. IsFiniteSet(1 .. cursor)
  BY <1>1, FS_Interval
<1>3. IsFiniteSet(batch[w])
  BY <1>1, <1>2, FS_Subset
<1> QED
  BY <1>3, FS_CardinalityType

LEMMA BatchInit == Init => BatchInv
<1> SUFFICES ASSUME Init PROVE BatchInv
  OBVIOUS
<1>1. \A w \in Worker : batch[w] = {} /\ pc[w] = "down"
  BY DEF Init
<1>2. faults = 0 /\ Cardinality({}) = 0 /\ FlushSize \in Nat \ {0} /\ BatchSize \in Nat \ {0}
  BY FS_EmptySet, StreamAssumption, ViewAssumption DEF Init
<1>3. BatchSize * faults = 0 /\ BatchSize * (1 + faults) = BatchSize
  BY <1>2
<1>4. \A w \in Worker :
        /\ Cardinality(batch[w]) < FlushSize + BatchSize * faults
        /\ Cardinality(batch[w]) < FlushSize + BatchSize * (1 + faults)
  BY <1>1, <1>2, <1>3
<1> QED
  BY <1>1, <1>4 DEF BatchInv, RoomToRead, BatchBounded

\* A step of one worker that reads nothing: where it comes to a read with a batch
\* that it keeps, a fault made room or the batch is short.
LEMMA QuietBatchStep ==
  ASSUME TypeOK, TypeOK', BatchInv, NEW w \in Worker,
         faults' = faults \/ faults' = faults + 1,
         \A v \in Worker \ {w} : pc'[v] = pc[v] /\ batch'[v] = batch[v],
         \/ batch'[w] = {}
         \/ batch'[w] = batch[w] /\ pc'[w] \notin {"down", "reading"}
         \/ /\ batch'[w] = batch[w] /\ pc'[w] = "reading"
            /\ pc[w] = "reading" \/ faults' = faults + 1 \/ Cardinality(batch[w]) < FlushSize
  PROVE  BatchInv'
<1>1. /\ BatchSize * faults \in Nat /\ BatchSize * faults' \in Nat
      /\ BatchSize * (1 + faults) = BatchSize * faults + BatchSize
      /\ BatchSize * (1 + faults') = BatchSize * faults' + BatchSize
      /\ BatchSize * faults <= BatchSize * faults'
      /\ faults' = faults + 1 => BatchSize * faults' = BatchSize * faults + BatchSize
  BY FaultRoom
<1>2. BatchSize \in Nat /\ FlushSize \in Nat \ {0} /\ Cardinality({}) = 0
  BY StreamAssumption, ViewAssumption, FS_EmptySet
<1>3. \A v \in Worker :
        /\ Cardinality(batch[v]) \in Nat
        /\ Cardinality(batch[v]) < FlushSize + (BatchSize * faults + BatchSize)
        /\ pc[v] = "down" => batch[v] = {}
        /\ pc[v] = "reading" => Cardinality(batch[v]) < FlushSize + BatchSize * faults
  BY <1>1, BatchFinite DEF BatchInv, RoomToRead, BatchBounded
<1> SUFFICES ASSUME NEW v \in Worker
             PROVE  /\ pc'[v] = "down" => batch'[v] = {}
                    /\ pc'[v] = "reading" =>
                         Cardinality(batch'[v]) < FlushSize + BatchSize * faults'
                    /\ Cardinality(batch'[v]) < FlushSize + (BatchSize * faults' + BatchSize)
  BY <1>1 DEF BatchInv, RoomToRead, BatchBounded
<1>4. CASE v # w
  BY <1>1, <1>2, <1>3, <1>4
<1>5. CASE v = w /\ batch'[w] = {}
  BY <1>1, <1>2, <1>5
<1>6. CASE v = w /\ batch'[w] = batch[w] /\ pc'[w] \notin {"down", "reading"}
  BY <1>1, <1>2, <1>3, <1>6
<1>7. CASE v = w /\ batch'[w] = batch[w] /\ pc'[w] = "reading"
  BY <1>1, <1>2, <1>3, <1>7
<1> QED
  BY <1>4, <1>5, <1>6, <1>7

LEMMA ReadBatchStep ==
  ASSUME TypeOK, TypeOK', BatchInv, NEW w \in Worker, Read(w)
  PROVE  BatchInv'
<1>1. PICK last \in cursor + 1 .. Len(log) :
        Deliver(last) /\ batch' = [batch EXCEPT ![w] = @ \cup Fresh(last)]
  BY DEF Read
<1>2. /\ pc[w] = "reading" /\ faults' = faults
      /\ pc' = [pc EXCEPT ![w] = "checking"]
  BY DEF Read
<1>3. IsFiniteSet(Fresh(last)) /\ Cardinality(Fresh(last)) <= BatchSize
  BY <1>1, DeliverGroupType DEF Read, TypeOK
<1>4. IsFiniteSet(batch[w]) /\ Cardinality(batch[w]) \in Nat
  BY BatchFinite
<1>5. /\ Cardinality(Fresh(last)) \in Nat
      /\ Cardinality(batch[w] \cup Fresh(last)) \in Nat
      /\ Cardinality(batch[w] \cup Fresh(last)) <= Cardinality(batch[w]) + Cardinality(Fresh(last))
  <2>1. IsFiniteSet(batch[w] \cup Fresh(last)) /\ IsFiniteSet(batch[w] \cap Fresh(last))
    BY <1>3, <1>4, FS_Union, FS_Intersection
  <2>2. Cardinality(batch[w] \cup Fresh(last))
          = Cardinality(batch[w]) + Cardinality(Fresh(last)) - Cardinality(batch[w] \cap Fresh(last))
    BY <1>3, <1>4, FS_Union
  <2>3. /\ Cardinality(Fresh(last)) \in Nat
        /\ Cardinality(batch[w] \cup Fresh(last)) \in Nat
        /\ Cardinality(batch[w] \cap Fresh(last)) \in Nat
    BY <1>3, <2>1, FS_CardinalityType
  <2> QED
    BY <1>4, <2>2, <2>3
<1>6. /\ batch'[w] = batch[w] \cup Fresh(last) /\ pc'[w] = "checking"
      /\ \A v \in Worker \ {w} : pc'[v] = pc[v] /\ batch'[v] = batch[v]
  BY <1>1, <1>2 DEF TypeOK
<1>7. BatchSize * (1 + faults) = BatchSize * faults + BatchSize /\ BatchSize * faults \in Nat
  BY <1>2, FaultRoom
<1>8. Cardinality(batch'[w]) < FlushSize + BatchSize * (1 + faults)
  <2>1. Cardinality(batch[w]) < FlushSize + BatchSize * faults
    BY <1>2 DEF BatchInv, RoomToRead
  <2>2. FlushSize \in Nat /\ BatchSize \in Nat
    BY StreamAssumption, ViewAssumption
  <2> QED
    BY <1>3, <1>4, <1>5, <1>6, <1>7, <2>1, <2>2
<1> QED
  BY <1>2, <1>6, <1>8 DEF BatchInv, RoomToRead, BatchBounded

LEMMA BatchStep == TypeOK /\ TypeOK' /\ BatchInv /\ [Next]_vars => BatchInv'
<1> SUFFICES ASSUME TypeOK, TypeOK', BatchInv, [Next]_vars PROVE BatchInv'
  OBVIOUS
<1>1. /\ pc \in [Worker -> {"down", "reading", "checking", "acking", "leaving", "lastAck"}]
      /\ batch \in [Worker -> SUBSET (1 .. cursor)]
      /\ faults \in Nat
  BY ViewAssumption DEF TypeOK
<1>2. CASE Track \/ (\E k \in Key : Expire(k)) \/ (\E w \in Worker : Tick(w)) \/ UNCHANGED vars
  <2>1. pc' = pc /\ batch' = batch /\ (faults' = faults \/ faults' = faults + 1)
    BY <1>2
    DEF Track, Mark, MarkFails, Send, SendFails, Fault, Expire, Tick, vars, workerVars
  <2>2. \A w \in Worker : pc[w] = "down" => batch[w] = {}
    BY DEF BatchInv, RoomToRead
  <2>3. CASE \E w \in Worker : TRUE
    BY <2>1, <2>2, <2>3, QuietBatchStep
  <2>4. CASE ~\E w \in Worker : TRUE
    BY <2>4 DEF BatchInv, RoomToRead, BatchBounded
  <2> QED
    BY <2>3, <2>4
<1>3. ASSUME NEW w \in Worker, Work(w) \/ Fail(w) PROVE BatchInv'
  <2>1. CASE Start(w) \/ Ack(w) \/ AckLost(w) \/ Leave(w) \/ Stop(w)
    <3>1. batch'[w] = {}
      BY <1>1, <2>1 DEF Start, Ack, AckLost, Leave, Stop, BatchInv, RoomToRead
    <3>2. faults' = faults \/ faults' = faults + 1
      BY <2>1 DEF Start, Ack, AckLost, Leave, Stop, Fault
    <3>3. \A v \in Worker \ {w} : pc'[v] = pc[v] /\ batch'[v] = batch[v]
      BY <1>1, <2>1 DEF Start, Ack, AckLost, Leave, Stop, GoOn
    <3> QED
      BY <3>1, <3>2, <3>3, QuietBatchStep
  <2>2. CASE ReadNothing(w) \/ InsertOk(w) \/ Cancel(w)
    <3>1. \/ batch'[w] = {}
          \/ batch'[w] = batch[w] /\ pc'[w] \notin {"down", "reading"}
      BY <1>1, <2>2 DEF ReadNothing, InsertOk, Cancel
    <3>2. faults' = faults \/ faults' = faults + 1
      BY <2>2 DEF ReadNothing, InsertOk, Cancel, Fault
    <3>3. \A v \in Worker \ {w} : pc'[v] = pc[v] /\ batch'[v] = batch[v]
      BY <1>1, <2>2 DEF ReadNothing, InsertOk, Cancel
    <3> QED
      BY <3>1, <3>2, <3>3, QuietBatchStep
  <2>3. CASE Skip(w)
    <3>1. /\ batch'[w] = batch[w] /\ pc'[w] = "reading" /\ faults' = faults
          /\ \A v \in Worker \ {w} : pc'[v] = pc[v] /\ batch'[v] = batch[v]
      BY <1>1, <2>3 DEF Skip
    <3>2. Cardinality(batch[w]) < FlushSize
      BY <2>3, BatchFinite, ViewAssumption DEF Skip, FlushDue
    <3> QED
      BY <3>1, <3>2, QuietBatchStep
  <2>4. CASE ReadFails(w) \/ InsertFails(w) \/ InsertUnknown(w)
    <3>1. faults' = faults + 1
      BY <2>4 DEF ReadFails, InsertFails, InsertUnknown, Fault
    <3>2. \A v \in Worker \ {w} : pc'[v] = pc[v] /\ batch'[v] = batch[v]
      BY <1>1, <2>4 DEF ReadFails, InsertFails, InsertUnknown, GoOn
    <3>3. \/ batch'[w] = {}
          \/ batch'[w] = batch[w] /\ pc'[w] \in {"reading", "checking"}
      BY <1>1, <2>4 DEF ReadFails, InsertFails, InsertUnknown, GoOn, Flushing
    <3> QED
      BY <3>1, <3>2, <3>3, QuietBatchStep
  <2> QED
    BY <1>3, <2>1, <2>2, <2>3, <2>4, ReadBatchStep DEF Work, Fail
<1> QED
  BY <1>2, <1>3 DEF Next

\* However long ClickHouse is down, a batch grows by one read for each fault.
THEOREM BatchesAreBounded == Spec => []BatchBounded
<1>1. BatchInv => BatchBounded
  BY DEF BatchInv
<1> QED
  BY <1>1, BatchInit, BatchStep, TypeCorrect, PTL DEF Spec

-----------------------------------------------------------------------------
(* Windows without a unique view. *)

UniqueOf(e, p) == e.unique /\ e.key = p[1] /\ e.window = p[2]

Missing == {p \in Begun : ~HasUnique(p)}

\* A unique view is in the stream, or a request is about to stream it.
LEMMA HasUniqueIff ==
  ASSUME NEW p
  PROVE  HasUnique(p) <=> \/ \E i \in Ids : UniqueOf(log[i], p)
                          \/ \E r \in Request : \E e \in sending[r] : UniqueOf(e, p)
BY DEF HasUnique, UniqueOf

LEMMA HasUniqueIffNext ==
  ASSUME NEW p
  PROVE  HasUnique(p)' <=> \/ \E i \in Ids' : UniqueOf(log'[i], p)
                           \/ \E r \in Request : \E e \in sending'[r] : UniqueOf(e, p)
BY DEF HasUnique, UniqueOf

LEMMA MissingFinite ==
  ASSUME TypeOK
  PROVE  IsFiniteSet(Missing) /\ Cardinality(Missing) \in Nat
<1>1. IsFiniteSet(0 .. MaxExpiries)
  BY ViewAssumption, FS_Interval
<1>2. IsFiniteSet(Key \X (0 .. MaxExpiries))
  BY <1>1, ViewAssumption, FS_Product
<1>3. Missing \subseteq Key \X (0 .. MaxExpiries)
  BY DEF Missing, Begun
<1>4. IsFiniteSet(Missing)
  BY <1>2, <1>3, FS_Subset
<1> QED
  BY <1>4, FS_CardinalityType

LEMMA NoneMissed ==
  ASSUME TypeOK, TypeOK', UniqueMissedOnlyByFaults, Missing' \subseteq Missing,
         faults' = faults \/ faults' = faults + 1
  PROVE  UniqueMissedOnlyByFaults'
<1>1. Cardinality(Missing') <= Cardinality(Missing) /\ IsFiniteSet(Missing')
  BY MissingFinite, FS_Subset
<1>2. Cardinality(Missing') \in Nat
  BY <1>1, FS_CardinalityType
<1>3. faults \in Nat /\ Cardinality(Missing) \in Nat /\ Cardinality(Missing) <= faults
  BY MissingFinite, ViewAssumption DEF TypeOK, UniqueMissedOnlyByFaults, Missing
<1>4. Cardinality(Missing') <= faults'
  BY <1>1, <1>2, <1>3
<1> QED
  BY <1>4 DEF UniqueMissedOnlyByFaults, Missing

LEMMA OneMissed ==
  ASSUME TypeOK, TypeOK', UniqueMissedOnlyByFaults, NEW p, Missing' \subseteq Missing \cup {p},
         faults' = faults + 1
  PROVE  UniqueMissedOnlyByFaults'
<1>1. /\ IsFiniteSet(Missing \cup {p}) /\ Cardinality(Missing \cup {p}) \in Nat
      /\ Cardinality(Missing \cup {p}) <= Cardinality(Missing) + 1
  <2>1. IsFiniteSet(Missing) /\ Cardinality(Missing) \in Nat
    BY MissingFinite
  <2>2. /\ IsFiniteSet(Missing \cup {p})
        /\ \/ Cardinality(Missing \cup {p}) = Cardinality(Missing)
           \/ Cardinality(Missing \cup {p}) = Cardinality(Missing) + 1
    BY <2>1, FS_AddElement
  <2> QED
    BY <2>1, <2>2
<1>2. Cardinality(Missing') <= Cardinality(Missing \cup {p}) /\ IsFiniteSet(Missing')
  BY <1>1, FS_Subset
<1>3. Cardinality(Missing') \in Nat
  BY <1>2, FS_CardinalityType
<1>4. faults \in Nat /\ Cardinality(Missing) \in Nat /\ Cardinality(Missing) <= faults
  BY MissingFinite, ViewAssumption DEF TypeOK, UniqueMissedOnlyByFaults, Missing
<1>5. Cardinality(Missing') <= faults'
  BY <1>1, <1>2, <1>3, <1>4
<1> QED
  BY <1>5 DEF UniqueMissedOnlyByFaults, Missing

\* TryMark begins a window at most, and then the view it makes is its unique one,
\* or a fault has lost the reply.
LEMMA MarkMissing ==
  ASSUME TypeOK, TypeOK', UniqueMissedOnlyByFaults, NEW r \in Request, NEW k \in Key,
         Mark(r, k) \/ MarkFails(r, k)
  PROVE  UniqueMissedOnlyByFaults'
<1>1. /\ sending[r] = {} /\ log' = log /\ Ids' = Ids /\ window' = window
      /\ marked' = marked \/ marked' = marked \cup {k}
  BY DEF Mark, MarkFails, streamVars, Ids
<1>2. \A s \in Request : sending[s] \subseteq sending'[s]
  BY <1>1 DEF Mark, MarkFails, TypeOK
<1>3. PICK q : q = <<k, window[k]>>
  OBVIOUS
<1>4. ASSUME NEW p, HasUnique(p) PROVE HasUnique(p)'
  BY <1>1, <1>2, <1>4, HasUniqueIff, HasUniqueIffNext
<1>5. \A p \in Begun' : p \in Begun \/ (p = q /\ marked' # marked)
  BY <1>1, <1>3 DEF Begun
<1>6. Missing' \subseteq Missing \cup {q}
  BY <1>4, <1>5 DEF Missing
<1>7. CASE MarkFails(r, k)
  <2>1. faults' = faults + 1
    BY <1>7 DEF MarkFails, Fault
  <2> QED
    BY <1>6, <2>1, OneMissed
<1>8. CASE Mark(r, k) /\ k \in marked
  <2>1. marked' = marked /\ faults' = faults
    BY <1>8 DEF Mark
  <2>2. Missing' \subseteq Missing
    BY <1>4, <1>5, <2>1 DEF Missing
  <2> QED
    BY <2>1, <2>2, NoneMissed
<1>9. CASE Mark(r, k) /\ k \notin marked
  <2>1. faults' = faults /\ sending'[r] = {View(k, TRUE)}
    BY <1>9 DEF Mark, TypeOK
  <2>2. UniqueOf(View(k, TRUE), q)
    BY <1>3 DEF UniqueOf, View
  <2>3. HasUnique(q)'
    BY <2>1, <2>2, HasUniqueIff, HasUniqueIffNext
  <2>4. Missing' \subseteq Missing
    BY <1>6, <2>3 DEF Missing
  <2> QED
    BY <2>1, <2>4, NoneMissed
<1> QED
  BY <1>7, <1>8, <1>9

\* XADD moves the view on, and if it fails that one view is lost.
LEMMA SendMissing ==
  ASSUME TypeOK, TypeOK', OneView, UniqueMissedOnlyByFaults, NEW r \in Request,
         Send(r) \/ SendFails(r)
  PROVE  UniqueMissedOnlyByFaults'
<1>1. PICK e \in sending[r] : Send(r) => XAdd(e)
  BY DEF Send, SendFails
<1>2. sending[r] = {e} /\ e \in Event
  BY SendingType DEF OneView
<1>3. /\ marked' = marked /\ window' = window /\ Begun' = Begun
      /\ sending'[r] = {}
      /\ \A s \in Request \ {r} : sending'[s] = sending[s]
  BY DEF Send, SendFails, Begun, TypeOK
<1>0. ASSUME Send(r)
      PROVE  /\ Len(log') \in Ids' /\ log'[Len(log')] = e
             /\ \A i \in Ids : i \in Ids' /\ log'[i] = log[i]
  <2>1. StreamTypeOK(Event) /\ XAdd(e) /\ UNCHANGED groupVars
    BY <1>0, <1>1 DEF Send, TypeOK
  <2>2. /\ Len(log') = Len(log) + 1 /\ log'[Len(log')] = e
        /\ \A i \in 1 .. Len(log) : log'[i] = log[i]
    BY <1>2, <2>1, XAddType
  <2>3. Len(log) \in Nat
    BY <2>1 DEF StreamTypeOK
  <2> QED
    BY <2>2, <2>3 DEF Ids
<1>4. \A i \in Ids : i \in Ids' /\ log'[i] = log[i]
  <2>1. CASE Send(r)
    BY <1>0, <2>1
  <2>2. CASE SendFails(r)
    BY <2>2 DEF SendFails, streamVars, Ids
  <2> QED
    BY <2>1, <2>2
<1>5. ASSUME NEW p, HasUnique(p), ~UniqueOf(e, p) PROVE HasUnique(p)'
  BY <1>2, <1>3, <1>4, <1>5, HasUniqueIff, HasUniqueIffNext
<1>6. CASE Send(r)
  <2>1. Len(log') \in Ids' /\ log'[Len(log')] = e
    BY <1>0, <1>6
  <2>2. ASSUME NEW p, UniqueOf(e, p) PROVE HasUnique(p)'
    BY <2>1, <2>2, HasUniqueIff, HasUniqueIffNext
  <2>3. Missing' \subseteq Missing /\ faults' = faults
    BY <1>3, <1>5, <1>6, <2>2 DEF Missing, Send
  <2> QED
    BY <2>3, NoneMissed
<1>7. CASE SendFails(r)
  <2>1. ASSUME NEW p \in Begun, UniqueOf(e, p) PROVE p = <<e.key, e.window>>
    BY <2>1 DEF UniqueOf, Begun
  <2>2. Missing' \subseteq Missing \cup {<<e.key, e.window>>} /\ faults' = faults + 1
    BY <1>3, <1>5, <1>7, <2>1 DEF Missing, SendFails, Fault
  <2> QED
    BY <2>2, OneMissed
<1> QED
  BY <1>6, <1>7

\* The end of a window begins no other: that takes a view.
LEMMA ExpireMissing ==
  ASSUME TypeOK, TypeOK', UniqueMissedOnlyByFaults, NEW k \in Key, Expire(k)
  PROVE  UniqueMissedOnlyByFaults'
<1>1. /\ k \in marked /\ marked' = marked \ {k}
      /\ window[k] \in Nat /\ window'[k] = window[k] + 1
      /\ \A j \in Key \ {k} : window'[j] = window[j]
      /\ log' = log /\ Ids' = Ids /\ sending' = sending /\ faults' = faults
  BY ViewAssumption DEF Expire, TypeOK, streamVars, Ids
<1>2. Begun' \subseteq Begun
  <2> SUFFICES ASSUME NEW p \in Begun' PROVE p \in Begun
    OBVIOUS
  <2>1. /\ p \in Key \X (0 .. MaxExpiries) /\ p[1] \in Key /\ p[2] \in Nat
        /\ p[2] < window'[p[1]] \/ (p[2] = window'[p[1]] /\ p[1] \in marked')
    BY ViewAssumption DEF Begun
  <2>2. CASE p[1] = k
    BY <1>1, <2>1, <2>2 DEF Begun
  <2>3. CASE p[1] # k
    BY <1>1, <2>1, <2>3 DEF Begun
  <2> QED
    BY <2>2, <2>3
<1>3. \A p : HasUnique(p) => HasUnique(p)'
  BY <1>1, HasUniqueIff, HasUniqueIffNext
<1> QED
  BY <1>1, <1>2, <1>3, NoneMissed DEF Missing

LEMMA MissingStep ==
  TypeOK /\ TypeOK' /\ UniqueInv /\ UniqueMissedOnlyByFaults /\ [Next]_vars
    => UniqueMissedOnlyByFaults'
<1> SUFFICES ASSUME TypeOK, TypeOK', UniqueInv, UniqueMissedOnlyByFaults, [Next]_vars
             PROVE  UniqueMissedOnlyByFaults'
  OBVIOUS
<1>1. CASE Track
  BY <1>1, MarkMissing, SendMissing DEF Track, UniqueInv
<1>2. CASE \E k \in Key : Expire(k)
  BY <1>2, ExpireMissing
<1>3. CASE (\E w \in Worker : Tick(w) \/ Work(w) \/ Fail(w)) \/ UNCHANGED vars
  <2>1. log' = log /\ UNCHANGED trackVars /\ (faults' = faults \/ faults' = faults + 1)
    BY <1>3
    DEF vars, Tick, Work, Fail, Start, Read, ReadNothing, ReadFails, Skip, Cancel, InsertOk,
        InsertFails, InsertUnknown, Ack, AckLost, Leave, Stop, streamVars, Fault
  <2>2. Missing' = Missing
    BY <2>1 DEF trackVars, Missing, Begun, HasUnique, Ids
  <2> QED
    BY <2>1, <2>2, NoneMissed
<1> QED
  BY <1>1, <1>2, <1>3 DEF Next

\* A window goes without a unique view only if a call failed, and each failed call
\* costs one window at most.
THEOREM FaultsAloneMissUniques == Spec => []UniqueMissedOnlyByFaults
<1>1. Init => UniqueMissedOnlyByFaults
  <2> SUFFICES ASSUME Init PROVE UniqueMissedOnlyByFaults
    OBVIOUS
  <2>1. Begun = {}
    BY DEF Init, Begun
  <2>2. {p \in Begun : ~HasUnique(p)} = {} /\ faults = 0
    BY <2>1 DEF Init
  <2> QED
    BY <2>2, FS_EmptySet DEF UniqueMissedOnlyByFaults
<1> QED
  BY <1>1, UniqueInit, UniqueStep, MissingStep, TypeCorrect, PTL DEF Spec
=============================================================================
