------------------------- MODULE LikePipeline_proofs -------------------------
(***************************************************************************)
(* The safety of the like pipeline for every set of users, videos and      *)
(* workers, every batch size and stream length, and any number of events   *)
(* and faults.                                                             *)
(***************************************************************************)
EXTENDS LikePipeline, FiniteSetTheorems, TLAPS

-----------------------------------------------------------------------------
(* What one statement does to the likes table and to its counter, for any  *)
(* users and videos.  The worker's CTE keeps the counter equal to the      *)
(* number of edges, also when the event is a replay.                       *)

\* The users who like a video are finitely many, and their number is a Nat.
LEMMA LikersFinite ==
  ASSUME NEW v
  PROVE  IsFiniteSet(Likers(v)) /\ Cardinality(Likers(v)) \in Nat
<1>1. Likers(v) \subseteq User
  BY DEF Likers
<1>2. IsFiniteSet(Likers(v))
  BY <1>1, StoreAssumption, FS_Subset
<1> QED
  BY <1>2, FS_CardinalityType

\* An applied like, new or repeated, leaves rows and counters well formed.
LEMMA ApplyLikeType ==
  ASSUME StoreTypeOK, NEW u \in User, NEW v \in Video, ApplyLike(u, v)
  PROVE  StoreTypeOK'
BY DEF StoreTypeOK, ApplyLike

\* An applied unlike does too: GREATEST keeps the counter from going below 0.
LEMMA ApplyUnlikeType ==
  ASSUME StoreTypeOK, NEW u \in User, NEW v \in Video, ApplyUnlike(u, v)
  PROVE  StoreTypeOK'
<1>1. edges' \subseteq User \X Stored
  BY DEF StoreTypeOK, ApplyUnlike
<1>2. CASE <<u, v>> \in edges
  <2>1. v \in Stored
    BY <1>2 DEF StoreTypeOK
  <2>2. count' = [count EXCEPT ![v] = IF @ > 0 THEN @ - 1 ELSE 0]
    BY <1>2 DEF ApplyUnlike
  <2>3. count' \in [Stored -> Nat]
    BY <2>1, <2>2 DEF StoreTypeOK
  <2> QED
    BY <1>1, <2>3 DEF StoreTypeOK
<1>3. CASE <<u, v>> \notin edges
  BY <1>1, <1>3 DEF StoreTypeOK, ApplyUnlike
<1> QED
  BY <1>2, <1>3

\* A like that inserts its edge adds one to an exact counter; one that finds
\* the edge there adds nothing.
LEMMA ApplyLikeExact ==
  ASSUME StoreTypeOK, CountsExact, NEW u \in User, NEW v \in Video, ApplyLike(u, v)
  PROVE  CountsExact'
<1> SUFFICES ASSUME NEW x \in Stored
             PROVE  count'[x] = Cardinality(Likers(x)')
  BY DEF CountsExact
<1>1. count[x] = Cardinality(Likers(x))
  BY DEF CountsExact
<1>2. CASE x # v \/ <<u, v>> \in edges
  <2>1. Likers(x)' = Likers(x)
    BY <1>2 DEF Likers, ApplyLike
  <2>2. count'[x] = count[x]
    BY <1>2 DEF ApplyLike, StoreTypeOK
  <2> QED
    BY <1>1, <2>1, <2>2
<1>3. CASE x = v /\ <<u, v>> \notin edges
  <2>1. Likers(x)' = Likers(x) \cup {u}
    BY <1>3 DEF Likers, ApplyLike
  <2>2. u \notin Likers(x)
    BY <1>3 DEF Likers
  <2>3. Cardinality(Likers(x) \cup {u}) = Cardinality(Likers(x)) + 1
    BY <2>2, LikersFinite, FS_AddElement
  <2>4. count'[x] = count[x] + 1
    BY <1>3 DEF ApplyLike, StoreTypeOK
  <2> QED
    BY <1>1, <2>1, <2>3, <2>4
<1> QED
  BY <1>2, <1>3

\* An unlike that deletes its edge takes one off an exact counter, which is
\* then at least one; one that finds no edge takes nothing off.
LEMMA ApplyUnlikeExact ==
  ASSUME StoreTypeOK, CountsExact, NEW u \in User, NEW v \in Video, ApplyUnlike(u, v)
  PROVE  CountsExact'
<1> SUFFICES ASSUME NEW x \in Stored
             PROVE  count'[x] = Cardinality(Likers(x)')
  BY DEF CountsExact
<1>1. count[x] = Cardinality(Likers(x))
  BY DEF CountsExact
<1>2. CASE x # v \/ <<u, v>> \notin edges
  <2>1. Likers(x)' = Likers(x)
    BY <1>2 DEF Likers, ApplyUnlike
  <2>2. count'[x] = count[x]
    BY <1>2 DEF ApplyUnlike, StoreTypeOK
  <2> QED
    BY <1>1, <2>1, <2>2
<1>3. CASE x = v /\ <<u, v>> \in edges
  <2>1. Likers(x)' = Likers(x) \ {u}
    BY <1>3 DEF Likers, ApplyUnlike
  <2>2. u \in Likers(x)
    BY <1>3 DEF Likers
  <2>3. Cardinality(Likers(x) \ {u}) = Cardinality(Likers(x)) - 1
    BY <2>2, LikersFinite, FS_RemoveElement
  <2>4. Cardinality(Likers(x)) # 0
    BY <2>2, LikersFinite, FS_EmptySet
  <2>5. count[x] > 0
    BY <1>1, <2>4, LikersFinite
  <2>6. count'[x] = count[x] - 1
    BY <1>3, <2>5 DEF ApplyUnlike, StoreTypeOK
  <2> QED
    BY <1>1, <2>1, <2>3, <2>6
<1> QED
  BY <1>2, <1>3

\* Both together: whatever event the worker applies, "the edge and the counter
\* cannot diverge" (docs/architecture.md).
LEMMA ApplyKeepsStore ==
  ASSUME StoreTypeOK, CountsExact, NEW u \in User, NEW v \in Video, NEW op, Apply(u, v, op)
  PROVE  StoreTypeOK' /\ CountsExact'
BY ApplyLikeType, ApplyLikeExact, ApplyUnlikeType, ApplyUnlikeExact DEF Apply

-----------------------------------------------------------------------------
(* Type correctness. *)

\* An event that an id stands for is an event.
LEMMA EventOfId ==
  ASSUME TypeOK, NEW i \in Ids
  PROVE  log[i] \in Event /\ log[i].user \in User /\ log[i].video \in Video
<1>1. log[i] \in Event
  BY DEF TypeOK, StreamTypeOK, Ids
<1> QED
  BY <1>1 DEF Event

LEMMA TypeInit == Init => TypeOK
<1> SUFFICES ASSUME Init PROVE TypeOK
  OBVIOUS
<1>1. StoreTypeOK
  BY DEF Init, StreamInit, StoreInit, StoreTypeOK
<1>2. liked \in [User -> SUBSET Video] /\ hot \in [Video -> Nat]
  BY DEF Init, StreamInit
<1>3. log \in Seq(Event) /\ Len(log) = 0
  BY DEF Init, StreamInit
<1>4. kept = 1 /\ cursor = 0 /\ grouped = FALSE
  BY DEF Init, StreamInit
<1>8. kept \in 1 .. Len(log) + 1 /\ cursor \in 0 .. Len(log)
  BY <1>3, <1>4
<1>5. pel \subseteq 1 .. cursor /\ applied \subseteq 1 .. cursor
  BY DEF Init, StreamInit
<1>7. faults \in 0 .. MaxFaults
  BY PipelineAssumption DEF Init, StreamInit
<1>6. /\ pc \in [Worker -> {"down", "reading", "applying", "acking"}]
      /\ batch \in [Worker -> SUBSET (1 .. cursor)]
  BY DEF Init, StreamInit
<1> QED
  BY <1>1, <1>2, <1>3, <1>4, <1>5, <1>6, <1>7, <1>8 DEF TypeOK, StreamTypeOK

LEMMA PublishType ==
  ASSUME TypeOK, NEW u \in User, NEW v \in Video, NEW op \in {"like", "unlike"},
         Publish(u, v, op)
  PROVE  /\ log' \in Seq(Event)
         /\ Len(log') = Len(log) + 1
         /\ kept' \in 1 .. Len(log') + 1
<1>1. log' = Append(log, [user |-> u, video |-> v, op |-> op])
  BY DEF Publish, XAdd
<1>2. [user |-> u, video |-> v, op |-> op] \in Event
  BY DEF Event
<1>3. log' \in Seq(Event) /\ Len(log') = Len(log) + 1
  BY <1>1, <1>2 DEF TypeOK, StreamTypeOK
<1>4. kept' \in kept .. Len(log) + 1 /\ kept \in 1 .. Len(log) + 1 /\ Len(log) \in Nat
  BY DEF Publish, XAdd, TypeOK, StreamTypeOK
<1> QED
  BY <1>3, <1>4

LEMMA TypeRequest ==
  ASSUME TypeOK, NEW u \in User, NEW v \in Video, Like(u, v) \/ Unlike(u, v)
  PROVE  TypeOK'
<1>1. \E op \in {"like", "unlike"} : Publish(u, v, op)
  BY DEF Like, Unlike
<1>2. /\ log' \in Seq(Event)
      /\ Len(log') = Len(log) + 1
      /\ kept' \in 1 .. Len(log') + 1
  BY <1>1, PublishType
<1>3. liked' \in [User -> SUBSET Video] /\ hot' \in [Video -> Nat]
  <2>1. CASE Like(u, v)
    BY <2>1 DEF Like, TypeOK, StreamTypeOK
  <2>2. CASE Unlike(u, v)
    BY <2>2 DEF Unlike, TypeOK, StreamTypeOK
  <2> QED
    BY <2>1, <2>2
<1>4. UNCHANGED <<groupVars, workerVars, storeVars, applied, faults>>
  BY DEF Like, Unlike
<1>5. StoreTypeOK'
  BY <1>4 DEF TypeOK, StreamTypeOK, StoreTypeOK, storeVars
<1>6. Len(log) \in Nat
  BY DEF TypeOK, StreamTypeOK
<1>8. /\ grouped' \in BOOLEAN
      /\ cursor' \in 0 .. Len(log')
      /\ pel' \subseteq 1 .. cursor'
      /\ applied' \subseteq 1 .. cursor'
      /\ faults' \in 0 .. MaxFaults
  BY <1>2, <1>4, <1>6 DEF TypeOK, StreamTypeOK, groupVars
<1>9. /\ pc' \in [Worker -> {"down", "reading", "applying", "acking"}]
      /\ batch' \in [Worker -> SUBSET (1 .. cursor')]
  BY <1>4 DEF TypeOK, StreamTypeOK, groupVars, workerVars
<1> QED
  BY <1>2, <1>3, <1>5, <1>8, <1>9 DEF TypeOK, StreamTypeOK

\* What delivery does to the group, shared by Read and ReadLost.
LEMMA DeliverType ==
  ASSUME TypeOK, NEW last \in cursor + 1 .. Len(log), Deliver(last)
  PROVE  /\ cursor' = last /\ cursor < last /\ cursor' \in 0 .. Len(log)
         /\ Fresh(last) \subseteq cursor + 1 .. last
         /\ Fresh(last) \subseteq 1 .. cursor'
         /\ batch \in [Worker -> SUBSET (1 .. cursor')]
         /\ pel' \subseteq 1 .. cursor'
         /\ applied \subseteq 1 .. cursor'
<1>1. /\ cursor \in 0 .. Len(log) /\ Len(log) \in Nat
      /\ pel \subseteq 1 .. cursor /\ applied \subseteq 1 .. cursor
  BY DEF TypeOK, StreamTypeOK
<1>0. cursor \in Nat /\ last \in Nat /\ cursor < last
  BY <1>1
<1>2. cursor' = last /\ pel' = pel \cup Fresh(last)
  BY DEF Deliver
<1>3. Fresh(last) \subseteq cursor + 1 .. last
  BY DEF Fresh
<1>4. 1 .. cursor \subseteq 1 .. last /\ cursor + 1 .. last \subseteq 1 .. last
  BY <1>0
<1>5. last \in 1 .. Len(log) /\ cursor < last /\ 1 .. last \subseteq 1 .. Len(log)
  BY <1>1
<1>6. cursor' = last /\ cursor < last /\ cursor' \in 0 .. Len(log)
  BY <1>0, <1>1, <1>2
<1>7. Fresh(last) \subseteq 1 .. last
  BY <1>3, <1>4
<1>8. Fresh(last) \subseteq 1 .. cursor' /\ batch \in [Worker -> SUBSET (1 .. cursor')]
  BY <1>2, <1>4, <1>7 DEF TypeOK, StreamTypeOK
<1>9. pel' \subseteq 1 .. cursor' /\ applied \subseteq 1 .. cursor'
  BY <1>1, <1>2, <1>4, <1>7
<1> QED
  BY <1>3, <1>6, <1>8, <1>9

\* What the end of an entry does to the worker, shared by five actions.
LEMMA MoveOnType ==
  ASSUME TypeOK, NEW w \in Worker, NEW i \in batch[w], MoveOn(w, i)
  PROVE  /\ pc' \in [Worker -> {"down", "reading", "applying", "acking"}]
         /\ batch' \in [Worker -> SUBSET (1 .. cursor)]
BY DEF MoveOn, TypeOK, StreamTypeOK

\* What a worker holds was delivered to it, and is an entry of the log.
LEMMA HeldType ==
  ASSUME TypeOK, NEW w \in Worker, NEW i \in batch[w]
  PROVE  i \in 1 .. cursor /\ i \in Ids
<1>1. i \in 1 .. cursor
  BY DEF TypeOK, StreamTypeOK
<1>2. cursor \in 0 .. Len(log) /\ Len(log) \in Nat
  BY DEF TypeOK, StreamTypeOK
<1> QED
  BY <1>1, <1>2 DEF Ids

LEMMA CommitType ==
  ASSUME TypeOK, NEW i \in Ids, Commit(i)
  PROVE  StoreTypeOK'
<1>1. log[i].user \in User /\ log[i].video \in Video
  BY EventOfId
<1>2. CASE ApplyLike(log[i].user, log[i].video)
  BY <1>1, <1>2, ApplyLikeType DEF TypeOK, StreamTypeOK
<1>3. CASE ApplyUnlike(log[i].user, log[i].video)
  BY <1>1, <1>3, ApplyUnlikeType DEF TypeOK, StreamTypeOK
<1> QED
  BY <1>2, <1>3 DEF Commit, Apply

LEMMA TypeWork ==
  ASSUME TypeOK, NEW w \in Worker, Work(w)
  PROVE  TypeOK'
<1>1. CASE Start(w)
  <2>1. cursor' \in 0 .. Len(log) /\ 1 .. cursor \subseteq 1 .. cursor'
    BY <1>1 DEF Start, EnsureGroup, TypeOK, StreamTypeOK
  <2>2. pel' \subseteq 1 .. cursor' /\ applied' \subseteq 1 .. cursor'
    BY <1>1, <2>1 DEF Start, EnsureGroup, TypeOK, StreamTypeOK
  <2>5. batch' \in [Worker -> SUBSET (1 .. cursor')]
    BY <1>1, <2>1 DEF Start, EnsureGroup, TypeOK, StreamTypeOK
  <2>3. pc' \in [Worker -> {"down", "reading", "applying", "acking"}]
    BY <1>1 DEF Start, EnsureGroup, TypeOK, StreamTypeOK
  <2>4. UNCHANGED <<apiVars, batch, storeVars, faults>> /\ grouped' = TRUE
    BY <1>1 DEF Start, EnsureGroup
  <2> QED
    BY <2>1, <2>2, <2>3, <2>4, <2>5 DEF TypeOK, StreamTypeOK, StoreTypeOK, apiVars,
                                        streamVars, storeVars
<1>2. CASE Read(w)
  <2>1. PICK last \in cursor + 1 .. Len(log) :
          Deliver(last) /\ batch' = [batch EXCEPT ![w] = Fresh(last)]
    BY <1>2 DEF Read
  <2>2. /\ cursor' \in 0 .. Len(log)
        /\ pel' \subseteq 1 .. cursor' /\ applied \subseteq 1 .. cursor'
        /\ Fresh(last) \subseteq 1 .. cursor'
        /\ batch \in [Worker -> SUBSET (1 .. cursor')]
    BY <2>1, DeliverType
  <2>3. /\ pc' \in [Worker -> {"down", "reading", "applying", "acking"}]
        /\ batch' \in [Worker -> SUBSET (1 .. cursor')]
    BY <1>2, <2>1, <2>2 DEF Read, TypeOK, StreamTypeOK
  <2>4. UNCHANGED <<apiVars, grouped, storeVars, applied, faults>>
    BY <1>2 DEF Read
  <2> QED
    BY <2>2, <2>3, <2>4 DEF TypeOK, StreamTypeOK, StoreTypeOK, apiVars, streamVars,
                            storeVars
<1>3. CASE ApplyOk(w)
  <2>1. PICK i \in batch[w] : Commit(i)
    BY <1>3 DEF ApplyOk
  <2>2. i \in Ids /\ i \in 1 .. cursor
    BY <2>1, HeldType
  <2>3. StoreTypeOK'
    BY <2>1, <2>2, CommitType
  <2> QED
    BY <1>3, <2>1, <2>2, <2>3 DEF ApplyOk, TypeOK, StreamTypeOK, Commit, apiVars,
                                  streamVars, groupVars
<1>4. CASE ApplyRefused(w)
  <2>1. PICK i \in batch[w] : MoveOn(w, i)
    BY <1>4 DEF ApplyRefused
  <2>2. UNCHANGED <<apiVars, groupVars, storeVars, applied, faults>>
    BY <1>4 DEF ApplyRefused
  <2> QED
    BY <2>1, <2>2, MoveOnType DEF TypeOK, StreamTypeOK, StoreTypeOK, apiVars,
                                  streamVars, groupVars, storeVars
<1>5. CASE Ack(w)
  <2>1. PICK i \in batch[w] : MoveOn(w, i) /\ pel' = pel \ {i}
    BY <1>5 DEF Ack
  <2>2. UNCHANGED <<apiVars, grouped, cursor, storeVars, applied, faults>>
    BY <1>5 DEF Ack
  <2> QED
    BY <2>1, <2>2, MoveOnType DEF TypeOK, StreamTypeOK, StoreTypeOK, apiVars,
                                  streamVars, storeVars
<1> QED
  BY <1>1, <1>2, <1>3, <1>4, <1>5 DEF Work

LEMMA TypeFail ==
  ASSUME TypeOK, NEW w \in Worker, Fail(w)
  PROVE  TypeOK'
<1>0. faults' \in 0 .. MaxFaults
  BY PipelineAssumption DEF Fail, ReadLost, ApplyFails, ApplyUnknown, AckLost, Stop,
                            Fault, TypeOK, StreamTypeOK
<1>1. CASE ReadLost(w)
  <2>1. PICK last \in cursor + 1 .. Len(log) : Deliver(last)
    BY <1>1 DEF ReadLost
  <2>2. /\ cursor' \in 0 .. Len(log)
        /\ pel' \subseteq 1 .. cursor' /\ applied \subseteq 1 .. cursor'
        /\ batch \in [Worker -> SUBSET (1 .. cursor')]
    BY <2>1, DeliverType
  <2>3. UNCHANGED <<apiVars, grouped, workerVars, storeVars, applied>>
    BY <1>1 DEF ReadLost
  <2> QED
    BY <1>0, <2>2, <2>3 DEF TypeOK, StreamTypeOK, StoreTypeOK, apiVars, streamVars,
                            workerVars, storeVars
<1>2. CASE ApplyFails(w) \/ AckLost(w)
  <2>1. PICK i \in batch[w] : MoveOn(w, i)
    BY <1>2 DEF ApplyFails, AckLost
  <2>2. UNCHANGED <<apiVars, groupVars, storeVars, applied>>
    BY <1>2 DEF ApplyFails, AckLost
  <2> QED
    BY <1>0, <2>1, <2>2, MoveOnType
    DEF TypeOK, StreamTypeOK, StoreTypeOK, apiVars, streamVars, groupVars, storeVars
<1>3. CASE ApplyUnknown(w)
  <2>1. PICK i \in batch[w] : Commit(i) /\ MoveOn(w, i)
    BY <1>3 DEF ApplyUnknown
  <2>2. StoreTypeOK' /\ i \in 1 .. cursor
    BY <2>1, CommitType, HeldType
  <2>3. UNCHANGED <<apiVars, groupVars>>
    BY <1>3 DEF ApplyUnknown
  <2>4. /\ pc' \in [Worker -> {"down", "reading", "applying", "acking"}]
        /\ batch' \in [Worker -> SUBSET (1 .. cursor)]
    BY <2>1, MoveOnType
  <2>5. applied' = applied \cup {i}
    BY <2>1 DEF Commit
  <2> QED
    BY <1>0, <2>2, <2>3, <2>4, <2>5 DEF TypeOK, StreamTypeOK, apiVars, streamVars,
                                        groupVars
<1>4. CASE Stop(w)
  BY <1>0, <1>4 DEF Stop, TypeOK, StreamTypeOK, StoreTypeOK, apiVars, streamVars,
                    groupVars, storeVars
<1> QED
  BY <1>1, <1>2, <1>3, <1>4 DEF Fail

LEMMA TypeStep == TypeOK /\ [Next]_vars => TypeOK'
<1> SUFFICES ASSUME TypeOK, [Next]_vars PROVE TypeOK'
  OBVIOUS
<1>1. CASE Request
  BY <1>1, TypeRequest DEF Request
<1>2. ASSUME NEW w \in Worker, Work(w) \/ Fail(w) PROVE TypeOK'
  BY <1>2, TypeWork, TypeFail
<1>3. CASE UNCHANGED vars
  BY <1>3 DEF TypeOK, StreamTypeOK, StoreTypeOK, vars, apiVars, streamVars, groupVars,
              workerVars, storeVars
<1> QED
  BY <1>1, <1>2, <1>3 DEF Next

\* Every reachable state has the shape that the types say.
THEOREM TypeCorrect == Spec => []TypeOK
BY TypeInit, TypeStep, PTL DEF Spec

-----------------------------------------------------------------------------
(* The two counters are exact, with any number of workers. *)

\* Committing an event is one Apply of what the event says.
LEMMA CommitExact ==
  ASSUME TypeOK, CountsExact, NEW i \in Ids, Commit(i)
  PROVE  CountsExact'
BY EventOfId, ApplyKeepsStore DEF Commit, TypeOK, StreamTypeOK

LEMMA CountsStep == TypeOK /\ CountsExact /\ [Next]_vars => CountsExact'
<1> SUFFICES ASSUME TypeOK, CountsExact, [Next]_vars PROVE CountsExact'
  OBVIOUS
<1>1. CASE UNCHANGED storeVars
  BY <1>1 DEF CountsExact, Likers, storeVars
<1>2. ASSUME NEW w \in Worker, ApplyOk(w) \/ ApplyUnknown(w) PROVE CountsExact'
  BY <1>2, HeldType, CommitExact DEF ApplyOk, ApplyUnknown
<1>3. CASE UNCHANGED vars
  BY <1>1, <1>3 DEF vars
<1>4. CASE Request
  BY <1>1, <1>4 DEF Request, Like, Unlike
<1>5. ASSUME NEW w \in Worker, Work(w) PROVE CountsExact'
  BY <1>1, <1>2, <1>5 DEF Work, Start, EnsureGroup, Read, ApplyRefused, Ack
<1>6. ASSUME NEW w \in Worker, Fail(w) PROVE CountsExact'
  BY <1>1, <1>2, <1>6 DEF Fail, ReadLost, ApplyFails, AckLost, Stop
<1> QED
  BY <1>3, <1>4, <1>5, <1>6 DEF Next

\* Without the reconciler, likes_count is the number of edges in every state:
\* no replay, lost reply, stop or second worker makes it drift.
THEOREM StoredCountsAreExact == Spec => []CountsExact
<1>1. Init => CountsExact
  <2> SUFFICES ASSUME Init PROVE CountsExact
    OBVIOUS
  <2>1. \A v \in Stored : Likers(v) = {} /\ count[v] = 0
    BY DEF Init, StreamInit, StoreInit, Likers
  <2> QED
    BY <2>1, FS_EmptySet DEF CountsExact
<1> QED
  BY <1>1, CountsStep, TypeCorrect, PTL DEF Spec

Holders(v) == {u \in User : v \in liked[u]}

LEMMA HoldersFinite ==
  ASSUME NEW v
  PROVE  IsFiniteSet(Holders(v)) /\ Cardinality(Holders(v)) \in Nat
<1>1. Holders(v) \subseteq User
  BY DEF Holders
<1> QED
  BY <1>1, StoreAssumption, FS_Subset, FS_CardinalityType

LEMMA HotRequest ==
  ASSUME TypeOK, HotCountExact, NEW u \in User, NEW v \in Video,
         Like(u, v) \/ Unlike(u, v)
  PROVE  HotCountExact'
<1> SUFFICES ASSUME NEW x \in Video
             PROVE  hot'[x] = Cardinality(Holders(x)')
  BY DEF HotCountExact, Holders
<1>1. hot[x] = Cardinality(Holders(x))
  BY DEF HotCountExact, Holders
<1>2. liked \in [User -> SUBSET Video] /\ hot \in [Video -> Nat]
  BY DEF TypeOK, StreamTypeOK
<1>3. CASE x # v
  <2>1. Holders(x)' = Holders(x)
    BY <1>2, <1>3 DEF Holders, Like, Unlike
  <2>2. hot'[x] = hot[x]
    BY <1>2, <1>3 DEF Like, Unlike
  <2> QED
    BY <1>1, <2>1, <2>2
<1>4. CASE x = v /\ Like(u, v)
  <2>1. Holders(x)' = Holders(x) \cup {u} /\ u \notin Holders(x)
    BY <1>2, <1>4 DEF Holders, Like
  <2>2. Cardinality(Holders(x) \cup {u}) = Cardinality(Holders(x)) + 1
    BY <2>1, HoldersFinite, FS_AddElement
  <2>3. hot'[x] = hot[x] + 1
    BY <1>2, <1>4 DEF Like
  <2> QED
    BY <1>1, <2>1, <2>2, <2>3
<1>5. CASE x = v /\ Unlike(u, v)
  <2>1. Holders(x)' = Holders(x) \ {u} /\ u \in Holders(x)
    BY <1>2, <1>5 DEF Holders, Unlike
  <2>2. Cardinality(Holders(x) \ {u}) = Cardinality(Holders(x)) - 1
    BY <2>1, HoldersFinite, FS_RemoveElement
  <2>3. Cardinality(Holders(x)) # 0
    BY <2>1, HoldersFinite, FS_EmptySet
  <2>4. hot[x] > 0
    BY <1>1, <2>3, HoldersFinite
  <2>5. hot'[x] = hot[x] - 1
    BY <1>2, <1>5, <2>4 DEF Unlike
  <2> QED
    BY <1>1, <2>1, <2>2, <2>5
<1> QED
  BY <1>3, <1>4, <1>5

LEMMA HotStep == TypeOK /\ HotCountExact /\ [Next]_vars => HotCountExact'
<1> SUFFICES ASSUME TypeOK, HotCountExact, [Next]_vars PROVE HotCountExact'
  OBVIOUS
<1>1. CASE UNCHANGED apiVars
  BY <1>1 DEF HotCountExact, apiVars, streamVars
<1>2. CASE Request
  BY <1>2, HotRequest DEF Request
<1>3. ASSUME NEW w \in Worker, Work(w) PROVE UNCHANGED apiVars
  BY <1>3 DEF Work, Start, EnsureGroup, Read, ApplyOk, ApplyRefused, Ack
<1>4. ASSUME NEW w \in Worker, Fail(w) PROVE UNCHANGED apiVars
  BY <1>4 DEF Fail, ReadLost, ApplyFails, ApplyUnknown, AckLost, Stop
<1> QED
  BY <1>1, <1>2, <1>3, <1>4 DEF Next, vars

\* The hot counter of a video is the number of users whose set holds it.
THEOREM HotCountsAreExact == Spec => []HotCountExact
<1>1. Init => HotCountExact
  <2> SUFFICES ASSUME Init PROVE HotCountExact
    OBVIOUS
  <2>1. \A v \in Video : Holders(v) = {} /\ hot[v] = 0
    BY DEF Init, StreamInit, Holders
  <2> QED
    BY <2>1, FS_EmptySet DEF HotCountExact, Holders
<1> QED
  BY <1>1, HotStep, TypeCorrect, PTL DEF Spec

-----------------------------------------------------------------------------
(* Acknowledgement. *)

\* A worker about to acknowledge has the entry in Postgres.
AckingIsApplied ==
  \A w \in Worker : pc[w] = "acking" =>
    \A i \in batch[w] : Current(w, i) => i \in applied

LEMMA AckingStep == TypeOK /\ AckingIsApplied /\ [Next]_vars => AckingIsApplied'
<1> SUFFICES ASSUME TypeOK, AckingIsApplied, [Next]_vars,
                    NEW w \in Worker, pc'[w] = "acking",
                    NEW i \in batch'[w], Current(w, i)'
             PROVE  i \in applied'
  BY DEF AckingIsApplied
<1>1. applied \subseteq applied'
  BY DEF Next, Request, Like, Unlike, Work, Start, EnsureGroup, Read, ApplyOk,
         ApplyRefused, Ack, Fail, ReadLost, ApplyFails, ApplyUnknown, AckLost, Stop,
         Commit, vars
<1>2. CASE pc[w] = "acking" /\ batch'[w] = batch[w]
  BY <1>1, <1>2 DEF AckingIsApplied, Current
<1>3. CASE UNCHANGED workerVars
  BY <1>2, <1>3 DEF workerVars
<1>4. ASSUME NEW x \in Worker, ApplyOk(x) PROVE i \in applied'
  <2>1. CASE x = w
    <3>1. PICK k \in batch[w] : Current(w, k) /\ Commit(k)
      BY <1>4, <2>1 DEF ApplyOk
    <3>2. i \in batch[w] /\ Current(w, i)
      BY <1>4 DEF ApplyOk, Current
    <3>3. i = k
      BY <3>1, <3>2, HeldType DEF Current
    <3> QED
      BY <3>1, <3>3 DEF Commit
  <2>2. CASE x # w
    BY <1>2, <1>4, <2>2 DEF ApplyOk, TypeOK, StreamTypeOK
  <2> QED
    BY <2>1, <2>2
<1>5. ASSUME NEW x \in Worker, NEW k \in batch[x], MoveOn(x, k) PROVE i \in applied'
  BY <1>2, <1>5 DEF MoveOn, TypeOK, StreamTypeOK
<1>6. ASSUME NEW x \in Worker, Work(x) PROVE i \in applied'
  <2>1. CASE Start(x)
    BY <1>2, <2>1 DEF Start, EnsureGroup, TypeOK, StreamTypeOK
  <2>2. CASE Read(x)
    BY <1>2, <2>2 DEF Read, TypeOK, StreamTypeOK
  <2> QED
    BY <1>4, <1>5, <1>6, <2>1, <2>2 DEF Work, ApplyRefused, Ack
<1>7. ASSUME NEW x \in Worker, Fail(x) PROVE i \in applied'
  <2>1. CASE Stop(x)
    BY <1>2, <2>1 DEF Stop, TypeOK, StreamTypeOK
  <2> QED
    BY <1>3, <1>5, <1>7, <2>1 DEF Fail, ReadLost, ApplyFails, ApplyUnknown, AckLost
<1>8. CASE Request
  BY <1>3, <1>8 DEF Request, Like, Unlike
<1> QED
  BY <1>3, <1>6, <1>7, <1>8 DEF Next, vars

\* An entry leaves the pending list only by an XACK of the worker that has
\* applied it.
THEOREM AcksFollowApplies == Spec => AckedOnlyIfApplied
<1>1. Init => AckingIsApplied
  BY DEF Init, StreamInit, AckingIsApplied
<1>2. TypeOK /\ AckingIsApplied /\ [Next]_vars => (pel \ pel' \subseteq applied)
  <2> SUFFICES ASSUME TypeOK, AckingIsApplied, [Next]_vars, NEW i \in pel \ pel'
               PROVE  i \in applied
    OBVIOUS
  <2>1. \E w \in Worker : Ack(w)
    BY DEF Next, Request, Like, Unlike, Work, Start, EnsureGroup, Read, ApplyOk,
           ApplyRefused, Fail, ReadLost, ApplyFails, ApplyUnknown, AckLost, Stop,
           Deliver, vars, groupVars
  <2> QED
    BY <2>1 DEF Ack, AckingIsApplied
<1> QED
  BY <1>1, <1>2, AckingStep, TypeCorrect, PTL DEF Spec, AckedOnlyIfApplied

-----------------------------------------------------------------------------
(* Loss. *)

\* A worker that is about to read, or is down, holds nothing it could forget.
ReadingHoldsNothing ==
  \A w \in Worker : pc[w] \in {"down", "reading"} => batch[w] = {}

LEMMA ReadingStep == TypeOK /\ ReadingHoldsNothing /\ [Next]_vars => ReadingHoldsNothing'
<1> SUFFICES ASSUME TypeOK, ReadingHoldsNothing, [Next]_vars,
                    NEW w \in Worker, pc'[w] \in {"down", "reading"}
             PROVE  batch'[w] = {}
  BY DEF ReadingHoldsNothing
<1>1. pc \in [Worker -> {"down", "reading", "applying", "acking"}]
      /\ batch \in [Worker -> SUBSET (1 .. cursor)]
  BY DEF TypeOK
<1>2. CASE UNCHANGED workerVars
  BY <1>2 DEF workerVars, ReadingHoldsNothing
<1>3. ASSUME NEW x \in Worker, NEW k \in batch[x], MoveOn(x, k) PROVE batch'[w] = {}
  <2>1. CASE x = w
    BY <1>1, <1>3, <2>1 DEF MoveOn
  <2>2. CASE x # w
    BY <1>1, <1>3, <2>2 DEF MoveOn, ReadingHoldsNothing
  <2> QED
    BY <2>1, <2>2
<1>4. ASSUME NEW x \in Worker, Start(x) \/ Read(x) \/ ApplyOk(x) \/ Stop(x) PROVE batch'[w] = {}
  <2>1. CASE x = w
    BY <1>1, <1>4, <2>1 DEF Start, Read, ApplyOk, Stop, ReadingHoldsNothing
  <2>2. CASE x # w
    BY <1>1, <1>4, <2>2 DEF Start, Read, ApplyOk, Stop, ReadingHoldsNothing
  <2> QED
    BY <2>1, <2>2
<1>5. ASSUME NEW x \in Worker, Work(x) PROVE batch'[w] = {}
  BY <1>3, <1>4, <1>5 DEF Work, ApplyRefused, Ack
<1>6. ASSUME NEW x \in Worker, Fail(x) PROVE batch'[w] = {}
  BY <1>2, <1>3, <1>4, <1>6 DEF Fail, ReadLost, ApplyFails, ApplyUnknown, AckLost
<1>7. CASE Request
  BY <1>2, <1>7 DEF Request, Like, Unlike
<1> QED
  BY <1>2, <1>5, <1>6, <1>7 DEF Next, vars

\* Of the steps that are no faults, only a refusal takes an entry out of a batch
\* and leaves it pending.
LEMMA StrandedStep ==
  ASSUME TypeOK, ReadingHoldsNothing, [Next]_vars,
         NEW i \in Ids, Stranded(i)', ~Stranded(i)
  PROVE  faults' > faults \/ Refused(log[i].video, log[i].op)
<1>1. batch \in [Worker -> SUBSET (1 .. cursor)] /\ faults \in Nat
  BY PipelineAssumption DEF TypeOK
<1>2. i \in pel' /\ i \notin applied' /\ \A w \in Worker : i \notin batch'[w]
  BY DEF Stranded
<1>3. i \notin pel \/ i \in applied \/ \E w \in Worker : i \in batch[w]
  BY DEF Stranded
<1>4. ASSUME UNCHANGED <<pel, batch, applied>> PROVE FALSE
  BY <1>2, <1>3, <1>4
<1>5. ASSUME NEW x \in Worker, Read(x) PROVE FALSE
  <2>1. PICK last \in cursor + 1 .. Len(log) :
          Deliver(last) /\ batch' = [batch EXCEPT ![x] = Fresh(last)]
    BY <1>5 DEF Read
  <2>2. pel' = pel \cup batch'[x] /\ \A w \in Worker \ {x} : batch'[w] = batch[w]
    BY <1>1, <2>1 DEF Deliver
  <2>3. batch[x] = {} /\ applied' = applied
    BY <1>5 DEF Read, ReadingHoldsNothing
  <2> QED
    BY <1>2, <1>3, <2>2, <2>3
<1>6. ASSUME NEW x \in Worker, ApplyOk(x) PROVE FALSE
  BY <1>2, <1>3, <1>6 DEF ApplyOk, Commit, groupVars
<1>7. ASSUME NEW x \in Worker, ApplyRefused(x) PROVE Refused(log[i].video, log[i].op)
  <2>1. PICK k \in batch[x] : Refused(log[k].video, log[k].op) /\ MoveOn(x, k)
    BY <1>7 DEF ApplyRefused
  <2>2. i = k
    BY <1>1, <1>2, <1>3, <1>7, <2>1 DEF ApplyRefused, MoveOn, groupVars
  <2> QED
    BY <2>1, <2>2
<1>8. ASSUME NEW x \in Worker, Ack(x) PROVE FALSE
  <2>1. PICK k \in batch[x] : MoveOn(x, k) /\ pel' = pel \ {k}
    BY <1>8 DEF Ack
  <2>2. applied' = applied
    BY <1>8 DEF Ack
  <2> QED
    BY <1>1, <1>2, <1>3, <2>1, <2>2 DEF MoveOn
<1>9. ASSUME NEW x \in Worker, Fail(x) PROVE faults' > faults
  BY <1>1, <1>9 DEF Fail, ReadLost, ApplyFails, ApplyUnknown, AckLost, Stop, Fault
<1>10. CASE Request
  BY <1>4, <1>10 DEF Request, Like, Unlike, groupVars, workerVars
<1>11. ASSUME NEW x \in Worker, Start(x) PROVE FALSE
  BY <1>4, <1>11 DEF Start
<1> QED
  BY <1>4, <1>5, <1>6, <1>7, <1>8, <1>9, <1>10, <1>11
     DEF Next, Work, vars, groupVars, workerVars

\* An event that a worker was given and Postgres does not have stays in some
\* worker's hands until a fault or the foreign key takes it out of them.
THEOREM FaultsAloneStrand == Spec => StrandedByFaults
<1>1. Init => ReadingHoldsNothing
  BY DEF Init, ReadingHoldsNothing
<1>2. TypeOK /\ ReadingHoldsNothing /\ [Next]_vars
        => [\A i \in Ids :
              Stranded(i)' /\ ~Stranded(i)
                => faults' > faults \/ Refused(log[i].video, log[i].op)]_vars
  BY StrandedStep
<1> QED
  BY <1>1, <1>2, ReadingStep, TypeCorrect, PTL DEF Spec, StrandedByFaults

\* What is pending lies before the cursor, and only what lies behind it is
\* delivered; only what a worker holds is applied or acknowledged.
LEMMA LostStep ==
  ASSUME TypeOK, [Next]_vars, NEW i \in Ids, Stranded(i)
  PROVE  Stranded(i)'
<1>1. batch \in [Worker -> SUBSET (1 .. cursor)] /\ pel \subseteq 1 .. cursor /\ cursor \in Nat
  BY DEF TypeOK, StreamTypeOK
<1>2. i \in pel /\ i \notin applied /\ i <= cursor /\ \A w \in Worker : i \notin batch[w]
  BY <1>1 DEF Stranded
<1>3. ASSUME UNCHANGED <<pel, batch, applied>> PROVE Stranded(i)'
  BY <1>2, <1>3 DEF Stranded
<1>4. ASSUME NEW last, Deliver(last) PROVE i \in pel' /\ i \notin Fresh(last)
  BY <1>1, <1>2, <1>4 DEF Deliver, Fresh
<1>5. ASSUME NEW x \in Worker, NEW k \in batch[x], MoveOn(x, k)
      PROVE  i # k /\ \A w \in Worker : i \notin batch'[w]
  BY <1>1, <1>2, <1>5 DEF MoveOn
<1>6. ASSUME NEW x \in Worker, Read(x) PROVE Stranded(i)'
  <2>1. PICK last \in cursor + 1 .. Len(log) :
          Deliver(last) /\ batch' = [batch EXCEPT ![x] = Fresh(last)]
    BY <1>6 DEF Read
  <2>2. applied' = applied
    BY <1>6 DEF Read
  <2> QED
    BY <1>1, <1>2, <1>4, <2>1, <2>2 DEF Stranded
<1>7. ASSUME NEW x \in Worker, ApplyOk(x) PROVE Stranded(i)'
  BY <1>2, <1>7 DEF ApplyOk, Commit, groupVars, Stranded
<1>8. ASSUME NEW x \in Worker, ApplyRefused(x) \/ ApplyFails(x) \/ AckLost(x)
      PROVE  Stranded(i)'
  BY <1>2, <1>5, <1>8 DEF ApplyRefused, ApplyFails, AckLost, groupVars, Stranded
<1>9. ASSUME NEW x \in Worker, Ack(x) PROVE Stranded(i)'
  BY <1>2, <1>5, <1>9 DEF Ack, Stranded
<1>10. ASSUME NEW x \in Worker, ApplyUnknown(x) PROVE Stranded(i)'
  BY <1>2, <1>5, <1>10 DEF ApplyUnknown, Commit, groupVars, Stranded
<1>11. ASSUME NEW x \in Worker, ReadLost(x) PROVE Stranded(i)'
  BY <1>2, <1>4, <1>11 DEF ReadLost, workerVars, Stranded
<1>12. ASSUME NEW x \in Worker, Stop(x) PROVE Stranded(i)'
  BY <1>1, <1>2, <1>12 DEF Stop, groupVars, Stranded
<1>13. ASSUME NEW x \in Worker, Start(x) PROVE Stranded(i)'
  BY <1>3, <1>13 DEF Start
<1>14. CASE Request
  BY <1>3, <1>14 DEF Request, Like, Unlike, groupVars, workerVars
<1> QED
  BY <1>3, <1>6, <1>7, <1>8, <1>9, <1>10, <1>11, <1>12, <1>13, <1>14
     DEF Next, Work, Fail, vars, groupVars, workerVars

\* An event that is pending, not applied and in nobody's hands stays so: that is
\* what it means that reads ask for new entries only.
THEOREM LossIsFinal == Spec => LostForGood
<1>1. TypeOK /\ [Next]_vars => [\A i \in Ids : Stranded(i) => Stranded(i)']_vars
  BY LostStep
<1> QED
  BY <1>1, TypeCorrect, PTL DEF Spec, LostForGood

-----------------------------------------------------------------------------
(* Order, with at most one worker: the deployment that worker.go asks for. *)

OneWorker == \A w, x \in Worker : w = x

\* Nothing a worker holds comes before what is applied, and an entry that it
\* has still to apply comes after all of that.
Ordered ==
  \A w \in Worker : \A j \in batch[w] : \A i \in applied :
    i <= j /\ (pc[w] = "applying" => i < j)

\* The newest event of a user about a video says whether the set holds it.
NewestDecidesLiked ==
  \A i \in Ids :
    (\A j \in Ids : Pair(j) = Pair(i) => j <= i)
      => (log[i].video \in liked[log[i].user] <=> log[i].op = "like")

\* The newest applied event about a pair says whether the edge is there.
NewestDecidesEdge ==
  \A i \in applied :
    (\A j \in applied : Pair(j) = Pair(i) => j <= i)
      => (Pair(i) \in edges <=> log[i].op = "like")

Inv == TypeOK /\ Ordered /\ NewestDecidesLiked /\ NewestDecidesEdge

LEMMA InvInit == Init => Inv
<1>1. Init => Ordered /\ NewestDecidesLiked /\ NewestDecidesEdge
  BY DEF Init, StreamInit, Ordered, NewestDecidesLiked, NewestDecidesEdge, Ids
<1> QED
  BY <1>1, TypeInit DEF Inv

\* The agreement that a run checks is what the two newest events have in common.
LEMMA InvImpliesAgreement == Inv => LatestAppliedAgrees
<1> SUFFICES ASSUME Inv, NEW i \in applied, \A j \in Ids : Pair(j) = Pair(i) => j <= i
             PROVE  Pair(i) \in edges <=> log[i].video \in liked[log[i].user]
  BY DEF LatestAppliedAgrees
<1>1. applied \subseteq Ids
  <2>1. applied \subseteq 1 .. cursor /\ cursor \in 0 .. Len(log) /\ Len(log) \in Nat
    BY DEF Inv, TypeOK, StreamTypeOK
  <2> QED
    BY <2>1 DEF Ids
<1>2. log[i].video \in liked[log[i].user] <=> log[i].op = "like"
  BY <1>1 DEF Inv, NewestDecidesLiked
<1>3. Pair(i) \in edges <=> log[i].op = "like"
  BY <1>1 DEF Inv, NewestDecidesEdge
<1> QED
  BY <1>2, <1>3

-----------------------------------------------------------------------------
(* The order in the worker's hands. *)

\* The end of an entry leaves later ones only.
LEMMA MoveOnOrdered ==
  ASSUME OneWorker, TypeOK, NEW w \in Worker, NEW k \in batch[w], Current(w, k),
         MoveOn(w, k), NEW S, S \subseteq Nat,
         \A i \in S : i <= k
  PROVE  \A x \in Worker : \A j \in batch'[x] : \A i \in S :
           i <= j /\ (pc'[x] = "applying" => i < j)
<1> SUFFICES ASSUME NEW x \in Worker, NEW j \in batch'[x], NEW i \in S
             PROVE  i < j
  <2> SUFFICES ASSUME NEW x \in Worker, NEW j \in batch'[x], NEW i \in S
               PROVE  i <= j /\ i < j
    OBVIOUS
  <2>1. j \in Nat /\ i \in Nat
    BY DEF TypeOK, StreamTypeOK, MoveOn
  <2> QED
    BY <2>1
<1>1. x = w
  BY DEF OneWorker
<1>2. j \in batch[w] /\ j # k
  BY <1>1 DEF MoveOn, TypeOK, StreamTypeOK
<1>3. k <= j
  BY <1>2 DEF Current
<1>4. j \in Nat /\ k \in Nat /\ i \in Nat
  BY <1>2, HeldType DEF TypeOK, StreamTypeOK
<1> QED
  BY <1>2, <1>3, <1>4

\* A worker that is applying comes to an entry later than all that is applied.
LEMMA CurrentIsNext ==
  ASSUME TypeOK, Ordered, NEW w \in Worker, pc[w] = "applying", NEW k \in batch[w]
  PROVE  \A i \in applied : i < k
BY DEF Ordered

LEMMA OrderedStep == OneWorker /\ TypeOK /\ Ordered /\ [Next]_vars => Ordered'
<1> SUFFICES ASSUME OneWorker, TypeOK, Ordered, [Next]_vars PROVE Ordered'
  OBVIOUS
<1>0. applied \subseteq Nat
  BY DEF TypeOK, StreamTypeOK
<1>1. CASE UNCHANGED <<workerVars, applied>>
  BY <1>1 DEF Ordered, workerVars
<1>2. ASSUME NEW w \in Worker, Start(w) PROVE Ordered'
  BY <1>2 DEF Ordered, Start, EnsureGroup, TypeOK, StreamTypeOK
<1>3. ASSUME NEW w \in Worker, Read(w) PROVE Ordered'
  <2>1. PICK last \in cursor + 1 .. Len(log) :
          Deliver(last) /\ batch' = [batch EXCEPT ![w] = Fresh(last)]
    BY <1>3 DEF Read
  <2>2. Fresh(last) \subseteq cursor + 1 .. last
    BY <2>1, DeliverType
  <2>3. applied' = applied /\ applied \subseteq 1 .. cursor /\ cursor \in Nat
    BY <1>3 DEF Read, TypeOK, StreamTypeOK
  <2>4. \A x \in Worker : batch'[x] = Fresh(last)
    BY <2>1 DEF OneWorker, TypeOK, StreamTypeOK
  <2> QED
    BY <2>2, <2>3, <2>4 DEF Ordered
<1>4. ASSUME NEW w \in Worker, ApplyOk(w) PROVE Ordered'
  <2>1. PICK k \in batch[w] : Current(w, k) /\ Commit(k)
    BY <1>4 DEF ApplyOk
  <2>2. batch' = batch /\ applied' = applied \cup {k} /\ pc'[w] = "acking"
    BY <1>4, <2>1 DEF ApplyOk, Commit, TypeOK, StreamTypeOK
  <2>3. \A x \in Worker : x = w
    BY DEF OneWorker
  <2> QED
    BY <2>1, <2>2, <2>3 DEF Ordered, Current
<1>5. ASSUME NEW w \in Worker, NEW k \in batch[w], Current(w, k), MoveOn(w, k),
             applied' = applied
      PROVE  Ordered'
  <2>1. \A i \in applied : i <= k
    BY DEF Ordered
  <2> QED
    BY <1>0, <1>5, <2>1, MoveOnOrdered DEF Ordered
<1>6. ASSUME NEW w \in Worker, ApplyUnknown(w) PROVE Ordered'
  <2>1. PICK k \in batch[w] : Current(w, k) /\ Commit(k) /\ MoveOn(w, k)
    BY <1>6 DEF ApplyUnknown
  <2>2. applied' = applied \cup {k} /\ k \in Nat
    BY <2>1, HeldType DEF Commit
  <2>3. \A i \in applied' : i <= k
    BY <2>2 DEF Ordered
  <2>4. applied' \subseteq Nat
    BY <1>0, <2>2
  <2> QED
    BY <2>1, <2>3, <2>4, MoveOnOrdered DEF Ordered
<1>7. ASSUME NEW w \in Worker, Stop(w) PROVE Ordered'
  BY <1>7 DEF Ordered, Stop, TypeOK, StreamTypeOK
<1>8. CASE Request
  BY <1>1, <1>8 DEF Request, Like, Unlike
<1>9. ASSUME NEW w \in Worker, Work(w) PROVE Ordered'
  BY <1>2, <1>3, <1>4, <1>5, <1>9 DEF Work, ApplyRefused, Ack
<1>10. ASSUME NEW w \in Worker, Fail(w) PROVE Ordered'
  BY <1>1, <1>5, <1>6, <1>7, <1>10 DEF Fail, ReadLost, ApplyFails, AckLost
<1> QED
  BY <1>1, <1>8, <1>9, <1>10 DEF Next, vars

\* With one worker, each entry that reaches Postgres is later in the stream
\* than all that reached it before.
THEOREM OneWorkerAppliesForward ==
  ASSUME OneWorker
  PROVE  Spec => AppliesForward
<1>1. Init => Ordered
  BY InvInit DEF Inv
<1>2. TypeOK /\ Ordered /\ [Next]_vars
        => \A i \in applied' \ applied : \A j \in applied : j < i
  <2> SUFFICES ASSUME TypeOK, Ordered, [Next]_vars, NEW i \in applied' \ applied
               PROVE  \A j \in applied : j < i
    OBVIOUS
  <2>1. PICK w \in Worker : pc[w] = "applying" /\ \E k \in batch[w] : Commit(k)
    BY DEF Next, Request, Like, Unlike, Work, Start, EnsureGroup, Read, ApplyOk,
           ApplyRefused, Ack, Fail, ReadLost, ApplyFails, ApplyUnknown, AckLost, Stop,
           vars
  <2> QED
    BY <2>1, CurrentIsNext DEF Commit
<1>3. TypeOK /\ Ordered /\ [Next]_vars => Ordered'
  BY OrderedStep
<1> QED
  BY <1>1, <1>2, <1>3, TypeCorrect, PTL DEF Spec, AppliesForward

-----------------------------------------------------------------------------
(* The agreement, with at most one worker. *)

\* The entry that a request adds is the newest, and the others stay.
LEMMA PublishLog ==
  ASSUME TypeOK, NEW u \in User, NEW v \in Video, NEW op \in {"like", "unlike"},
         Publish(u, v, op)
  PROVE  /\ Ids' = Ids \cup {Len(log) + 1}
         /\ Len(log) + 1 \notin Ids
         /\ \A i \in Ids : log'[i] = log[i] /\ i < Len(log) + 1
         /\ log'[Len(log) + 1] = [user |-> u, video |-> v, op |-> op]
<1>1. log' = Append(log, [user |-> u, video |-> v, op |-> op])
  BY DEF Publish, XAdd
<1>2. log \in Seq(Event) /\ Len(log) \in Nat /\ [user |-> u, video |-> v, op |-> op] \in Event
  BY DEF TypeOK, StreamTypeOK, Event
<1>3. Len(log') = Len(log) + 1
  BY <1>1, <1>2
<1>4. \A i \in Ids : log'[i] = log[i] /\ i < Len(log) + 1
  BY <1>1, <1>2 DEF Ids
<1>5. log'[Len(log) + 1] = [user |-> u, video |-> v, op |-> op]
  BY <1>1, <1>2
<1>6. Ids' = Ids \cup {Len(log) + 1} /\ Len(log) + 1 \notin Ids
  BY <1>2, <1>3 DEF Ids
<1> QED
  BY <1>4, <1>5, <1>6

LEMMA LikedRequest ==
  ASSUME TypeOK, NewestDecidesLiked, NEW u \in User, NEW v \in Video,
         Like(u, v) \/ Unlike(u, v)
  PROVE  NewestDecidesLiked'
<1>0. PICK n \in Nat : n = Len(log) + 1
  BY DEF TypeOK, StreamTypeOK
<1>1. PICK op \in {"like", "unlike"} :
        /\ Publish(u, v, op)
        /\ op = "like" => liked' = [liked EXCEPT ![u] = @ \cup {v}]
        /\ op = "unlike" => liked' = [liked EXCEPT ![u] = @ \ {v}]
  <2>1. CASE Like(u, v)
    BY <2>1 DEF Like
  <2>2. CASE Unlike(u, v)
    BY <2>2 DEF Unlike
  <2> QED
    BY <2>1, <2>2
<1>2. /\ Ids' = Ids \cup {n}
      /\ \A i \in Ids : log'[i] = log[i] /\ i < n
      /\ log'[n] = [user |-> u, video |-> v, op |-> op]
  BY <1>0, <1>1, PublishLog
<1>3. liked \in [User -> SUBSET Video]
  BY DEF TypeOK, StreamTypeOK
<1>4. \A x \in User, y \in Video :
        y \in liked'[x] <=> IF x = u /\ y = v THEN op = "like" ELSE y \in liked[x]
  <2>1. CASE op = "like"
    BY <1>1, <1>3, <2>1
  <2>2. CASE op = "unlike"
    BY <1>1, <1>3, <2>2
  <2> QED
    BY <2>1, <2>2
<1> SUFFICES ASSUME NEW i \in Ids', \A j \in Ids' : Pair(j)' = Pair(i)' => j <= i
             PROVE  log'[i].video \in liked'[log'[i].user] <=> log'[i].op = "like"
  BY DEF NewestDecidesLiked
<1>5. CASE i = n
  BY <1>2, <1>4, <1>5
<1>6. CASE i \in Ids
  <2>1. log'[i] = log[i] /\ i < n /\ i \in Nat
    BY <1>2, <1>6 DEF Ids
  <2>2. Pair(n)' # Pair(i)'
    BY <1>2, <2>1
  <2>3. ~(log[i].user = u /\ log[i].video = v)
    BY <1>2, <2>1, <2>2 DEF Pair
  <2>4. \A j \in Ids : Pair(j) = Pair(i) => j <= i
    BY <1>2, <2>1 DEF Pair
  <2>5. log[i].video \in liked[log[i].user] <=> log[i].op = "like"
    BY <1>6, <2>4 DEF NewestDecidesLiked
  <2>6. log[i].user \in User /\ log[i].video \in Video
    BY <1>6, EventOfId
  <2> QED
    BY <1>4, <2>1, <2>3, <2>5, <2>6
<1> QED
  BY <1>2, <1>5, <1>6

LEMMA LikedStep == TypeOK /\ NewestDecidesLiked /\ [Next]_vars => NewestDecidesLiked'
<1> SUFFICES ASSUME TypeOK, NewestDecidesLiked, [Next]_vars PROVE NewestDecidesLiked'
  OBVIOUS
<1>1. CASE UNCHANGED apiVars
  BY <1>1 DEF NewestDecidesLiked, Ids, Pair, apiVars, streamVars
<1>2. CASE Request
  BY <1>2, LikedRequest DEF Request
<1>3. ASSUME NEW w \in Worker, Work(w) PROVE UNCHANGED apiVars
  BY <1>3 DEF Work, Start, EnsureGroup, Read, ApplyOk, ApplyRefused, Ack
<1>4. ASSUME NEW w \in Worker, Fail(w) PROVE UNCHANGED apiVars
  BY <1>4 DEF Fail, ReadLost, ApplyFails, ApplyUnknown, AckLost, Stop
<1> QED
  BY <1>1, <1>2, <1>3, <1>4 DEF Next, vars

\* One Apply decides the edge of its own pair, and of no other.
LEMMA CommitEdges ==
  ASSUME NEW k, Commit(k)
  PROVE  /\ Pair(k) \in edges' <=> log[k].op = "like"
         /\ \A p : p # Pair(k) => (p \in edges' <=> p \in edges)
<1>1. CASE log[k].op = "like" /\ ApplyLike(log[k].user, log[k].video)
  BY <1>1 DEF ApplyLike, Pair
<1>2. CASE log[k].op = "unlike" /\ ApplyUnlike(log[k].user, log[k].video)
  BY <1>2 DEF ApplyUnlike, Pair
<1> QED
  BY <1>1, <1>2 DEF Commit, Apply

\* An entry later than all that is applied decides its edge.
LEMMA EdgeCommit ==
  ASSUME TypeOK, NewestDecidesEdge, NEW k \in Ids, Commit(k), UNCHANGED log,
         \A i \in applied : i < k
  PROVE  NewestDecidesEdge'
<1>1. applied' = applied \cup {k} /\ applied \subseteq Nat /\ k \in Nat
  BY DEF Commit, TypeOK, StreamTypeOK, Ids
<1>2. \A j : Pair(j)' = Pair(j)
  BY DEF Pair
<1> SUFFICES ASSUME NEW i \in applied',
                    \A j \in applied' : Pair(j) = Pair(i) => j <= i
             PROVE  Pair(i) \in edges' <=> log[i].op = "like"
  BY <1>2 DEF NewestDecidesEdge
<1>3. CASE i = k
  BY <1>3, CommitEdges
<1>4. CASE i \in applied
  <2>1. Pair(k) # Pair(i)
    BY <1>1, <1>4
  <2>2. Pair(i) \in edges <=> log[i].op = "like"
    BY <1>1, <1>4 DEF NewestDecidesEdge
  <2> QED
    BY <2>1, <2>2, CommitEdges
<1> QED
  BY <1>1, <1>3, <1>4

LEMMA EdgeStep ==
  TypeOK /\ Ordered /\ NewestDecidesEdge /\ [Next]_vars => NewestDecidesEdge'
<1> SUFFICES ASSUME TypeOK, Ordered, NewestDecidesEdge, [Next]_vars
             PROVE  NewestDecidesEdge'
  OBVIOUS
<1>1. CASE UNCHANGED <<log, edges, applied>>
  BY <1>1 DEF NewestDecidesEdge, Pair
<1>2. CASE Request
  <2>1. PICK u \in User, v \in Video, op \in {"like", "unlike"} : Publish(u, v, op)
    BY <1>2 DEF Request, Like, Unlike
  <2>2. \A i \in Ids : log'[i] = log[i]
    BY <2>1, PublishLog
  <2>3. UNCHANGED <<edges, applied>>
    BY <1>2 DEF Request, Like, Unlike, storeVars
  <2>4. applied \subseteq Ids
    BY DEF TypeOK, StreamTypeOK, Ids
  <2>5. \A i \in applied : Pair(i)' = Pair(i) /\ log'[i] = log[i]
    BY <2>2, <2>4 DEF Pair
  <2> QED
    BY <2>3, <2>5 DEF NewestDecidesEdge
<1>3. ASSUME NEW w \in Worker, ApplyOk(w) \/ ApplyUnknown(w) PROVE NewestDecidesEdge'
  <2>1. PICK k \in batch[w] : Commit(k)
    BY <1>3 DEF ApplyOk, ApplyUnknown
  <2>2. pc[w] = "applying" /\ UNCHANGED log
    BY <1>3 DEF ApplyOk, ApplyUnknown, apiVars, streamVars
  <2> QED
    BY <2>1, <2>2, HeldType, CurrentIsNext, EdgeCommit
<1>4. ASSUME NEW w \in Worker, Work(w) PROVE NewestDecidesEdge'
  BY <1>1, <1>3, <1>4 DEF Work, Start, EnsureGroup, Read, ApplyRefused, Ack, apiVars,
                          streamVars, storeVars
<1>5. ASSUME NEW w \in Worker, Fail(w) PROVE NewestDecidesEdge'
  BY <1>1, <1>3, <1>5 DEF Fail, ReadLost, ApplyFails, AckLost, Stop, apiVars,
                          streamVars, storeVars
<1> QED
  BY <1>1, <1>2, <1>4, <1>5 DEF Next, vars, apiVars, streamVars, storeVars

LEMMA InvStep == OneWorker /\ Inv /\ [Next]_vars => Inv'
BY TypeStep, OrderedStep, LikedStep, EdgeStep DEF Inv

\* With one worker, once the newest event about a user and a video has reached
\* Postgres, the edge there is what the user's set in Redis says.
THEOREM OneWorkerAgrees ==
  ASSUME OneWorker
  PROVE  Spec => []LatestAppliedAgrees
<1>1. Inv /\ [Next]_vars => Inv'
  BY InvStep
<1> QED
  BY <1>1, InvInit, InvImpliesAgreement, PTL DEF Spec

-----------------------------------------------------------------------------
(* The refinement of LikeLedger, with at most one worker. *)

\* What is about one pair, or nothing.  Upto is the greatest of it.
AppliedOf(p) == {0} \cup {i \in applied : Pair(i) = p}

\* No induction over finite sets is needed to know that there is a greatest:
\* it is an invariant that there is one.
UptoExists == \A p : \E m \in AppliedOf(p) : \A j \in AppliedOf(p) : m >= j

LEMMA UptoIsGreatest ==
  ASSUME UptoExists, NEW p
  PROVE  Upto(p) \in AppliedOf(p) /\ \A j \in AppliedOf(p) : Upto(p) >= j
BY DEF UptoExists, Upto, Max, AppliedOf

LEMMA AppliedOfNat ==
  ASSUME TypeOK, NEW p
  PROVE  AppliedOf(p) \subseteq Nat
<1>1. applied \subseteq Nat
  BY DEF TypeOK, StreamTypeOK
<1> SUFFICES ASSUME NEW j \in AppliedOf(p) PROVE j \in Nat
  OBVIOUS
<1>2. j = 0 \/ j \in applied
  BY DEF AppliedOf
<1>3. CASE j = 0
  BY <1>3
<1>4. CASE j \in applied
  BY <1>1, <1>4
<1> QED
  BY <1>2, <1>3, <1>4

\* The greatest is the only one.
LEMMA UptoIs ==
  ASSUME TypeOK, NEW p, NEW m \in AppliedOf(p), \A j \in AppliedOf(p) : m >= j
  PROVE  Upto(p) = m
<1>1. AppliedOf(p) \subseteq Nat
  BY AppliedOfNat
<1>2. Upto(p) \in AppliedOf(p) /\ \A j \in AppliedOf(p) : Upto(p) >= j
  BY DEF Upto, Max, AppliedOf
<1> QED
  BY <1>1, <1>2

\* A step that adds nothing to what is applied, and keeps the entries.
LEMMA AppliedStays ==
  ASSUME UNCHANGED applied, \A i \in applied : Pair(i)' = Pair(i)
  PROVE  /\ \A p : AppliedOf(p)' = AppliedOf(p) /\ Upto(p)' = Upto(p)
         /\ UptoExists => UptoExists'
<1>1. \A p : AppliedOf(p)' = AppliedOf(p)
  BY DEF AppliedOf
<1>2. \A p : Upto(p)' = Upto(p)
  BY <1>1 DEF AppliedOf, Upto
<1>3. UptoExists => UptoExists'
  BY <1>1 DEF UptoExists
<1> QED
  BY <1>1, <1>2, <1>3

\* A commit of an entry later than all that is applied moves its own pair.
LEMMA CommitMovesUpto ==
  ASSUME TypeOK, TypeOK', UptoExists, NEW k \in Ids, Commit(k), UNCHANGED log,
         \A i \in applied : i < k
  PROVE  /\ UptoExists'
         /\ Upto(Pair(k)) < k /\ Upto(Pair(k))' = k
         /\ \A p : p # Pair(k) => Upto(p)' = Upto(p)
<1>1. /\ applied' = applied \cup {k} /\ applied \subseteq Nat
      /\ k \in Nat /\ 0 < k
  BY DEF Commit, TypeOK, StreamTypeOK, Ids
<1>2. \A i : Pair(i)' = Pair(i)
  BY DEF Pair
<1>3. AppliedOf(Pair(k))' = AppliedOf(Pair(k)) \cup {k}
  BY <1>1, <1>2 DEF AppliedOf
<1>4. \A p : p # Pair(k) => AppliedOf(p)' = AppliedOf(p)
  BY <1>1, <1>2 DEF AppliedOf
<1>5. \A j \in AppliedOf(Pair(k)) : j < k
  BY <1>1 DEF AppliedOf
<1>6. k \in AppliedOf(Pair(k))' /\ \A j \in AppliedOf(Pair(k))' : k >= j
  BY <1>1, <1>3, <1>5 DEF AppliedOf
<1>7. UptoExists'
  <2> SUFFICES ASSUME NEW p
               PROVE  \E m \in AppliedOf(p)' : \A j \in AppliedOf(p)' : m >= j
    BY DEF UptoExists, AppliedOf
  <2>1. CASE p = Pair(k)
    BY <1>2, <1>6, <2>1 DEF AppliedOf
  <2>2. CASE p # Pair(k)
    BY <1>4, <2>2 DEF UptoExists
  <2> QED
    BY <2>1, <2>2
<1>8. Upto(Pair(k)) < k
  BY <1>5, UptoIsGreatest
<1>9. Upto(Pair(k))' = k
  <2>1. \A x \in AppliedOf(Pair(k))' :
          (\A j \in AppliedOf(Pair(k))' : x >= j) => x = k
    BY <1>1, <1>3, <1>5 DEF AppliedOf
  <2>2. Upto(Pair(k))' = Max(AppliedOf(Pair(k))')
    BY <1>2 DEF Upto, AppliedOf
  <2> QED
    BY <1>6, <2>1, <2>2 DEF Max
<1>10. \A p : p # Pair(k) => Upto(p)' = Upto(p)
  BY <1>2, <1>4 DEF Upto, AppliedOf
<1> QED
  BY <1>7, <1>8, <1>9, <1>10

\* The entries that are applied stay what they are.
LEMMA AppliedPairsStay ==
  ASSUME TypeOK, [Next]_vars
  PROVE  \A i \in applied : Pair(i)' = Pair(i)
<1>1. CASE Request
  <2>1. PICK u \in User, v \in Video, op \in {"like", "unlike"} : Publish(u, v, op)
    BY <1>1 DEF Request, Like, Unlike
  <2>2. \A i \in Ids : log'[i] = log[i]
    BY <2>1, PublishLog
  <2>3. applied \subseteq Ids
    BY DEF TypeOK, StreamTypeOK, Ids
  <2> QED
    BY <2>2, <2>3 DEF Pair
<1>2. CASE UNCHANGED log
  BY <1>2 DEF Pair
<1>3. ASSUME NEW w \in Worker, Work(w) PROVE UNCHANGED log
  BY <1>3 DEF Work, Start, EnsureGroup, Read, ApplyOk, ApplyRefused, Ack, apiVars, streamVars
<1>4. ASSUME NEW w \in Worker, Fail(w) PROVE UNCHANGED log
  BY <1>4 DEF Fail, ReadLost, ApplyFails, ApplyUnknown, AckLost, Stop, apiVars, streamVars
<1> QED
  BY <1>1, <1>2, <1>3, <1>4 DEF Next, vars, apiVars, streamVars

\* A step commits one entry, or nothing reaches Postgres.
LEMMA OneCommit ==
  ASSUME TypeOK, Ordered, [Next]_vars
  PROVE  \/ UNCHANGED <<edges, applied>>
         \/ /\ UNCHANGED <<log, liked>>
            /\ \E k \in Ids : Commit(k) /\ \A i \in applied : i < k
<1>1. ASSUME NEW w \in Worker, ApplyOk(w) \/ ApplyUnknown(w)
      PROVE  /\ UNCHANGED <<log, liked>>
             /\ \E k \in Ids : Commit(k) /\ \A i \in applied : i < k
  <2>1. PICK k \in batch[w] : Commit(k)
    BY <1>1 DEF ApplyOk, ApplyUnknown
  <2>2. pc[w] = "applying" /\ UNCHANGED <<log, liked>>
    BY <1>1 DEF ApplyOk, ApplyUnknown, apiVars, streamVars
  <2> QED
    BY <2>1, <2>2, HeldType, CurrentIsNext
<1>2. ASSUME NEW w \in Worker, Work(w), ~ApplyOk(w) PROVE UNCHANGED <<edges, applied>>
  BY <1>2 DEF Work, Start, EnsureGroup, Read, ApplyRefused, Ack, storeVars
<1>3. ASSUME NEW w \in Worker, Fail(w), ~ApplyUnknown(w) PROVE UNCHANGED <<edges, applied>>
  BY <1>3 DEF Fail, ReadLost, ApplyFails, AckLost, Stop, storeVars
<1>4. CASE Request \/ UNCHANGED vars
  BY <1>4 DEF Request, Like, Unlike, vars, storeVars
<1> QED
  BY <1>1, <1>2, <1>3, <1>4 DEF Next

LEMMA UptoStep == TypeOK /\ TypeOK' /\ Ordered /\ UptoExists /\ [Next]_vars => UptoExists'
BY AppliedPairsStay, AppliedStays, OneCommit, CommitMovesUpto

Wanted == {p \in User \X Video : p[2] \in liked[p[1]]}

\* A request is a decision of its user.
LEMMA RequestDecides ==
  ASSUME TypeOK, NEW u \in User, NEW v \in Video, Like(u, v) \/ Unlike(u, v)
  PROVE  Ledger!Decide(u, v)
<1>1. liked \in [User -> SUBSET Video]
  BY DEF TypeOK
<1>2. /\ [p \in User \X Video |-> Upto(p)]' = [p \in User \X Video |-> Upto(p)]
      /\ UNCHANGED edges
  <2>1. UNCHANGED <<edges, applied>> /\ [Next]_vars
    BY DEF Like, Unlike, Next, Request, storeVars
  <2> QED
    BY <2>1, AppliedPairsStay, AppliedStays
<1>3. CASE Like(u, v)
  <2>1. Wanted' = Wanted \cup {<<u, v>>} /\ <<u, v>> \notin Wanted
    BY <1>1, <1>3 DEF Like, Wanted
  <2>2. log' = Append(log, [user |-> u, video |-> v, op |-> "like"])
    BY <1>3 DEF Like, Publish, XAdd
  <2> QED
    BY <1>2, <2>1, <2>2 DEF Ledger!Decide, Wanted
<1>4. CASE Unlike(u, v)
  <2>1. Wanted' = Wanted \ {<<u, v>>} /\ <<u, v>> \in Wanted
    BY <1>1, <1>4 DEF Unlike, Wanted
  <2>2. log' = Append(log, [user |-> u, video |-> v, op |-> "unlike"])
    BY <1>4 DEF Unlike, Publish, XAdd
  <2> QED
    BY <1>2, <2>1, <2>2 DEF Ledger!Decide, Wanted
<1> QED
  BY <1>3, <1>4

\* A commit catches up with a later decision.
LEMMA CommitCatchesUp ==
  ASSUME TypeOK, TypeOK', UptoExists, NEW k \in Ids, Commit(k), UNCHANGED <<log, liked>>,
         \A i \in applied : i < k
  PROVE  Ledger!CatchUp(k)
<1>1. Pair(k) \in User \X Video
  BY EventOfId DEF Pair
<1>2. /\ Upto(Pair(k)) < k /\ Upto(Pair(k))' = k
      /\ \A p : p # Pair(k) => Upto(p)' = Upto(p)
  BY CommitMovesUpto
<1>3. k \in Nat /\ Upto(Pair(k)) \in Nat
  <2>1. Upto(Pair(k)) \in AppliedOf(Pair(k))
    BY UptoIsGreatest
  <2> QED
    BY <2>1, AppliedOfNat DEF Ids
<1>4. edges' = IF log[k].op = "like" THEN edges \cup {Pair(k)} ELSE edges \ {Pair(k)}
  BY DEF Commit, Apply, ApplyLike, ApplyUnlike, Pair
<1>5. Wanted' = Wanted
  BY DEF Wanted
<1> QED
  BY <1>1, <1>2, <1>3, <1>4, <1>5 DEF Ledger!CatchUp, Ledger!Pair, Pair, Wanted

LEMMA LedgerStep ==
  TypeOK /\ TypeOK' /\ Ordered /\ UptoExists /\ [Next]_vars => [Ledger!Next]_(Ledger!vars)
<1> SUFFICES ASSUME TypeOK, TypeOK', Ordered, UptoExists, [Next]_vars
             PROVE  [Ledger!Next]_(Ledger!vars)
  OBVIOUS
<1>1. CASE Request
  BY <1>1, RequestDecides DEF Request, Ledger!Next
<1>2. ASSUME NEW k \in Ids, Commit(k), UNCHANGED <<log, liked>>, \A i \in applied : i < k
      PROVE  Ledger!Next
  BY <1>2, CommitCatchesUp DEF Ids, Ledger!Next
<1>3. ASSUME UNCHANGED <<edges, applied, log, liked>> PROVE UNCHANGED Ledger!vars
  <2>1. \A p : Upto(p)' = Upto(p)
    BY <1>3, AppliedPairsStay, AppliedStays
  <2> QED
    BY <1>3, <2>1 DEF Ledger!vars
<1>4. Request \/ UNCHANGED <<log, liked>>
  <2>1. ASSUME NEW w \in Worker, Work(w) PROVE UNCHANGED apiVars
    BY <2>1 DEF Work, Start, EnsureGroup, Read, ApplyOk, ApplyRefused, Ack
  <2>2. ASSUME NEW w \in Worker, Fail(w) PROVE UNCHANGED apiVars
    BY <2>2 DEF Fail, ReadLost, ApplyFails, ApplyUnknown, AckLost, Stop
  <2> QED
    BY <2>1, <2>2 DEF Next, vars, apiVars, streamVars
<1> QED
  BY <1>1, <1>2, <1>3, <1>4, OneCommit

\* With one worker the pipeline is a LikeLedger: every step of it is a decision
\* of a user, a catching up of Postgres with a later one, or neither.
THEOREM OneWorkerImplementsLedger ==
  ASSUME OneWorker
  PROVE  Spec => ImplementsLedger
<1>1. Init => Ordered /\ UptoExists /\ Ledger!Init
  <2> SUFFICES ASSUME Init PROVE Ordered /\ UptoExists /\ Ledger!Init
    OBVIOUS
  <2>1. Ordered /\ TypeOK
    BY InvInit DEF Inv
  <2>2. \A p : AppliedOf(p) = {0}
    BY DEF Init, AppliedOf
  <2>3. UptoExists
    BY <2>2 DEF UptoExists
  <2>4. \A p : Upto(p) = 0
    BY <2>1, <2>2, UptoIs
  <2>5. log = <<>> /\ edges = {} /\ \A u \in User : liked[u] = {}
    BY DEF Init, StreamInit, StoreInit
  <2> QED
    BY <2>1, <2>3, <2>4, <2>5 DEF Ledger!Init
<1>2. TypeOK /\ Ordered /\ UptoExists /\ [Next]_vars
        => Ordered' /\ UptoExists' /\ [Ledger!Next]_(Ledger!vars)
  BY TypeStep, OrderedStep, UptoStep, LedgerStep
<1> QED
  BY <1>1, <1>2, TypeCorrect, PTL DEF Spec, ImplementsLedger, Ledger!Spec
=============================================================================
