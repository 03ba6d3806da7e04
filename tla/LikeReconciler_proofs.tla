------------------------- MODULE LikeReconciler_proofs -------------------------
(***************************************************************************)
(* The reconciler for any finite set of videos and of users, any sample    *)
(* size, and any number of events, drifts and failures: a visit that met   *)
(* no event heals, and a counter goes wrong only under one that did.       *)
(***************************************************************************)
EXTENDS LikeReconciler, FiniteSetTheorems, SequenceTheorems, TLAPS

-----------------------------------------------------------------------------
(* What one event does to the counter of one video. *)

\* The users who like a video are finitely many, and their number is a Nat.
LEMMA LikersFinite ==
  ASSUME NEW v
  PROVE  IsFiniteSet(Likers(v)) /\ Cardinality(Likers(v)) \in Nat
<1>1. Likers(v) \subseteq User
  BY DEF Likers
<1>2. IsFiniteSet(Likers(v))
  BY <1>1, StoreAssumption, FS_Subset
<1> QED
  BY <1>2, FS_CardinalityType

LEMMA ApplyType ==
  ASSUME StoreTypeOK, NEW u \in User, NEW v \in Stored, NEW op, Apply(u, v, op)
  PROVE  StoreTypeOK'
<1>1. edges' \subseteq User \X Stored
  BY DEF StoreTypeOK, Apply, ApplyLike, ApplyUnlike
<1>2. count' \in [Stored -> Nat]
  <2>1. CASE ApplyLike(u, v)
    BY <2>1 DEF StoreTypeOK, ApplyLike
  <2>2. CASE ApplyUnlike(u, v)
    BY <2>2 DEF StoreTypeOK, ApplyUnlike
  <2> QED
    BY <2>1, <2>2 DEF Apply
<1> QED
  BY <1>1, <1>2 DEF StoreTypeOK

\* Whatever the counters of other videos are worth, an event leaves them alone,
\* and moves an exact one with its edges.
LEMMA ApplyOthers ==
  ASSUME StoreTypeOK, NEW u \in User, NEW v \in Stored, NEW op, Apply(u, v, op),
         NEW x \in Stored, x # v
  PROVE  count'[x] = count[x] /\ Likers(x)' = Likers(x)
BY DEF StoreTypeOK, Apply, ApplyLike, ApplyUnlike, Likers

LEMMA ApplyExact ==
  ASSUME StoreTypeOK, NEW u \in User, NEW v \in Stored, NEW op, Apply(u, v, op),
         NEW x \in Stored, Exact(x)
  PROVE  Exact(x)'
<1>1. CASE x # v
  BY <1>1, ApplyOthers DEF Exact
<1>2. CASE x = v /\ ApplyLike(u, v) /\ <<u, v>> \notin edges
  <2>1. Likers(x)' = Likers(x) \cup {u} /\ u \notin Likers(x)
    BY <1>2 DEF Likers, ApplyLike
  <2>2. Cardinality(Likers(x) \cup {u}) = Cardinality(Likers(x)) + 1
    BY <2>1, LikersFinite, FS_AddElement
  <2>3. count'[x] = count[x] + 1
    BY <1>2 DEF ApplyLike, StoreTypeOK
  <2> QED
    BY <2>1, <2>2, <2>3 DEF Exact
<1>3. CASE x = v /\ ApplyUnlike(u, v) /\ <<u, v>> \in edges
  <2>1. Likers(x)' = Likers(x) \ {u} /\ u \in Likers(x)
    BY <1>3 DEF Likers, ApplyUnlike
  <2>2. Cardinality(Likers(x) \ {u}) = Cardinality(Likers(x)) - 1
    BY <2>1, LikersFinite, FS_RemoveElement
  <2>3. Cardinality(Likers(x)) # 0
    BY <2>1, LikersFinite, FS_EmptySet
  <2>4. count[x] > 0
    BY <2>3, LikersFinite DEF Exact
  <2>5. count'[x] = count[x] - 1
    BY <1>3, <2>4 DEF ApplyUnlike, StoreTypeOK
  <2> QED
    BY <2>1, <2>2, <2>5 DEF Exact
<1>4. CASE \/ ApplyLike(u, v) /\ <<u, v>> \in edges
           \/ ApplyUnlike(u, v) /\ <<u, v>> \notin edges
  <2>1. count' = count /\ Likers(x)' = Likers(x)
    BY <1>4 DEF ApplyLike, ApplyUnlike, Likers
  <2> QED
    BY <2>1 DEF Exact
<1> QED
  BY <1>1, <1>2, <1>3, <1>4 DEF Apply

-----------------------------------------------------------------------------
(* The order of the rows. *)

LEMMA StoredFinite == IsFiniteSet(Stored) /\ Cardinality(Stored) \in Nat
BY StoreAssumption, ReconcilerAssumption, FS_Subset, FS_CardinalityType

LEMMA OrderIsSeq ==
  ASSUME NEW s \in Orders
  PROVE  s \in Seq(Stored) /\ Len(s) = Cardinality(Stored) /\ DOMAIN s = 1 .. Len(s)
<1>1. PICK n \in Nat : n = Cardinality(Stored)
  BY StoredFinite
<1>2. s \in [1 .. n -> Stored]
  BY <1>1 DEF Orders
<1> QED
  BY <1>1, <1>2

\* The row that is touched goes to the end, and the others close up.
LEMMA TouchKeepsOrder ==
  ASSUME byAge \in Orders, NEW v \in Stored, Touch(v)
  PROVE  byAge' \in Orders
<1>1. PICK n \in Nat : n = Len(byAge) /\ n = Cardinality(Stored)
  BY OrderIsSeq, StoredFinite
<1>2. byAge \in [1 .. n -> Stored] /\ byAge \in Seq(Stored) /\ DOMAIN byAge = 1 .. n
  BY <1>1, OrderIsSeq DEF Orders
<1>3. PICK k \in 1 .. n : byAge[k] = v /\ byAge' = Append(RemoveAt(byAge, k), v)
  BY <1>2 DEF Touch
<1> DEFINE front == SubSeq(byAge, 1, k - 1)
           back  == SubSeq(byAge, k + 1, n)
<1>4. /\ front \in Seq(Stored) /\ Len(front) = k - 1
      /\ \A i \in 1 .. k - 1 : front[i] = byAge[i]
  <2>1. \A i \in 1 .. k - 1 : byAge[i] \in Stored
    BY <1>2
  <2>2. 1 \in Int /\ k - 1 \in Int /\ (1 <= k - 1 \/ k - 1 = 0) /\ (k - 1) - 1 + 1 = k - 1
    OBVIOUS
  <2> QED
    BY <2>1, <2>2, SubSeqProperties
<1>5. /\ back \in Seq(Stored) /\ Len(back) = n - k
      /\ \A i \in 1 .. n - k : back[i] = byAge[k + i]
  <2>1. \A i \in k + 1 .. n : byAge[i] \in Stored
    BY <1>2
  <2>2. /\ k + 1 \in Int /\ n \in Int /\ (k + 1 <= n \/ n - k = 0)
        /\ n - (k + 1) + 1 = n - k /\ \A i \in Nat : k + 1 + i - 1 = k + i
    OBVIOUS
  <2>3. /\ back \in Seq(Stored)
        /\ Len(back) = IF k + 1 <= n THEN n - (k + 1) + 1 ELSE 0
        /\ \A i \in 1 .. n - (k + 1) + 1 : back[i] = byAge[k + 1 + i - 1]
    BY <2>1, <2>2, SubSeqProperties
  <2> QED
    BY <2>2, <2>3
<1> DEFINE rest == front \o back
<1>6. /\ rest \in Seq(Stored) /\ Len(rest) = n - 1
      /\ \A i \in 1 .. n - 1 : rest[i] = IF i < k THEN byAge[i] ELSE byAge[i + 1]
  <2>1. /\ rest \in Seq(Stored) /\ Len(rest) = Len(front) + Len(back)
        /\ \A i \in 1 .. Len(front) + Len(back) :
             rest[i] = IF i <= Len(front) THEN front[i] ELSE back[i - Len(front)]
    BY <1>4, <1>5, ConcatProperties
  <2>2. ASSUME NEW i \in 1 .. n - 1
        PROVE  rest[i] = IF i < k THEN byAge[i] ELSE byAge[i + 1]
    <3>1. CASE i < k
      BY <1>4, <1>5, <2>1, <3>1
    <3>2. CASE i >= k
      <4>1. i - (k - 1) \in 1 .. n - k /\ k + (i - (k - 1)) = i + 1
        BY <3>2
      <4>2. rest[i] = back[i - (k - 1)]
        BY <1>4, <1>5, <2>1, <3>2
      <4> QED
        BY <1>5, <3>2, <4>1, <4>2
    <3> QED
      BY <3>1, <3>2
  <2>3. Len(front) + Len(back) = n - 1
    <3>1. (k - 1) + (n - k) = n - 1
      OBVIOUS
    <3> QED
      BY <1>4, <1>5, <3>1
  <2> QED
    BY <2>1, <2>2, <2>3
<1>7. byAge' = Append(rest, v)
  BY <1>1, <1>3 DEF RemoveAt
<1> HIDE DEF front, back, rest
<1>8. /\ byAge' \in Seq(Stored) /\ Len(byAge') = n
      /\ byAge'[n] = v
      /\ \A i \in 1 .. n - 1 : byAge'[i] = IF i < k THEN byAge[i] ELSE byAge[i + 1]
  BY <1>6, <1>7
<1>9. byAge' \in [1 .. n -> Stored]
  BY <1>8, LenProperties
<1>10. ASSUME NEW w \in Stored PROVE \E i \in DOMAIN byAge' : byAge'[i] = w
  <2>1. PICK j \in 1 .. n : byAge[j] = w
    BY <1>2 DEF Orders
  <2>2. DOMAIN byAge' = 1 .. n
    BY <1>9
  <2>3. CASE j = k
    BY <1>3, <1>8, <2>1, <2>2, <2>3
  <2>4. CASE j < k
    BY <1>8, <2>1, <2>2, <2>4
  <2>5. CASE j > k
    <3>1. j - 1 \in 1 .. n - 1 /\ ~(j - 1 < k) /\ j - 1 + 1 = j
      BY <2>5
    <3>2. byAge'[j - 1] = byAge[j - 1 + 1]
      BY <1>8, <3>1
    <3>3. byAge'[j - 1] = w /\ j - 1 \in 1 .. n
      BY <2>1, <3>1, <3>2
    <3> QED
      BY <2>2, <3>3
  <2> QED
    BY <2>3, <2>4, <2>5
<1> QED
  BY <1>1, <1>9, <1>10 DEF Orders

-----------------------------------------------------------------------------
(* Type correctness. *)

LEMMA TypeInit == Init => TypeOK
<1> SUFFICES ASSUME Init PROVE TypeOK
  OBVIOUS
<1>1. count \in [Stored -> Nat]
  BY ReconcilerAssumption DEF Init
<1>2. changes \in 0 .. MaxChanges /\ faults \in 0 .. MaxFaults
  BY ReconcilerAssumption DEF Init
<1>3. ids \in Seq(Stored) /\ ids = <<>>
  BY DEF Init
<1> QED
  BY <1>1, <1>2, <1>3 DEF Init, TypeOK, StoreTypeOK

\* A pass that has something left to visit is not waiting.
LEMMA HeadType ==
  ASSUME TypeOK, pc # "waiting"
  PROVE  Head(ids) \in Stored /\ ids # <<>>
BY HeadTailProperties DEF TypeOK

LEMMA NextVideoType ==
  ASSUME TypeOK, pc # "waiting", NextVideo
  PROVE  /\ ids' \in Seq(Stored)
         /\ pc' \in {"waiting", "count"}
         /\ pc' = "waiting" <=> ids' = <<>>
BY HeadType, HeadTailProperties DEF TypeOK, NextVideo

LEMMA TypeStep == TypeOK /\ [Next]_vars => TypeOK'
<1> SUFFICES ASSUME TypeOK, [Next]_vars PROVE TypeOK'
  OBVIOUS
<1>1. ASSUME NEW u \in User, NEW v \in Stored, NEW op \in {"like", "unlike"}, Change(u, v, op)
      PROVE  TypeOK'
  <2>1. StoreTypeOK' /\ byAge' \in Orders
    BY <1>1, ApplyType, TouchKeepsOrder DEF Change, TypeOK
  <2>2. touched' \in BOOLEAN /\ changes' \in 0 .. MaxChanges
    BY <1>1, ReconcilerAssumption DEF Change, TypeOK
  <2> QED
    BY <1>1, <2>1, <2>2 DEF Change, TypeOK, passVars
<1>2. CASE Sample
  <2>1. PICK n \in Nat : n = Len(byAge) /\ byAge \in Seq(Stored)
    BY OrderIsSeq DEF TypeOK
  <2>2. n >= 1
    BY <1>2, <2>1, EmptySeq DEF Sample
  <2>3. PICK m \in 1 .. n : ids' = SubSeq(byAge, 1, m)
    BY <1>2, <2>1, <2>2, ReconcilerAssumption DEF Sample
  <2>4. \A i \in 1 .. m : byAge[i] \in Stored
    BY <2>1, <2>3
  <2>5. ids' \in Seq(Stored) /\ Len(ids') = m
    BY <2>3, <2>4, SubSeqProperties
  <2>6. ids' # <<>>
    BY <2>5
  <2> QED
    BY <1>2, <2>5, <2>6 DEF Sample, TypeOK, StoreTypeOK, storeVars
<1>3. CASE ReadCount
  <2>1. stored' \in Nat
    BY <1>3, HeadType DEF ReadCount, TypeOK, StoreTypeOK
  <2> QED
    BY <1>3, <2>1 DEF ReadCount, TypeOK, StoreTypeOK, storeVars
<1>4. CASE ReadEdges
  <2>1. exact' \in Nat
    BY <1>4, LikersFinite DEF ReadEdges
  <2>2. /\ ids' \in Seq(Stored) /\ pc' \in {"waiting", "count", "edges", "write"}
        /\ pc' = "waiting" <=> ids' = <<>>
    BY <1>4, NextVideoType DEF ReadEdges, TypeOK
  <2> QED
    BY <1>4, <2>1, <2>2 DEF ReadEdges, TypeOK, StoreTypeOK, storeVars
<1>5. CASE Write
  <2>1. byAge' \in Orders
    BY <1>5, HeadType, TouchKeepsOrder DEF Write, TypeOK
  <2>2. StoreTypeOK'
    BY <1>5 DEF Write, ReconcileCounter, TypeOK, StoreTypeOK
  <2>3. /\ ids' \in Seq(Stored) /\ pc' \in {"waiting", "count"}
        /\ pc' = "waiting" <=> ids' = <<>>
    BY <1>5, NextVideoType DEF Write
  <2> QED
    BY <1>5, <2>1, <2>2, <2>3 DEF Write, TypeOK
<1>6. CASE StatementFails
  <2>1. /\ ids' \in Seq(Stored) /\ pc' \in {"waiting", "count"}
        /\ pc' = "waiting" <=> ids' = <<>>
    BY <1>6, NextVideoType DEF StatementFails
  <2>2. faults' \in 0 .. MaxFaults
    BY <1>6, ReconcilerAssumption DEF StatementFails, TypeOK
  <2> QED
    BY <1>6, <2>1, <2>2 DEF StatementFails, TypeOK, StoreTypeOK, storeVars
<1>7. CASE UNCHANGED vars
  BY <1>7 DEF vars, TypeOK, StoreTypeOK, storeVars, passVars
<1> QED
  BY <1>1, <1>2, <1>3, <1>4, <1>5, <1>6, <1>7 DEF Next, Reconcile

\* Every reachable state has the shape that the types say: the rows stay a
\* permutation, and the pass always has a stored video in its hands.
THEOREM TypeCorrect == Spec => []TypeOK
BY TypeInit, TypeStep, PTL DEF Spec

-----------------------------------------------------------------------------
(* What the pass knows of the row in its hands, while nobody touches it. *)

VisitKnows ==
  /\ pc \in {"edges", "write"} /\ ~touched => stored = count[Head(ids)]
  /\ pc = "write" /\ ~touched => exact = Cardinality(Likers(Head(ids)))
  /\ pc = "write" => exact # stored

LEMMA VisitStep == TypeOK /\ VisitKnows /\ [Next]_vars => VisitKnows'
<1> SUFFICES ASSUME TypeOK, VisitKnows, [Next]_vars PROVE VisitKnows'
  OBVIOUS
<1>1. ASSUME NEW u \in User, NEW v \in Stored, NEW op \in {"like", "unlike"}, Change(u, v, op)
      PROVE  VisitKnows'
  <2>1. UNCHANGED passVars
    BY <1>1 DEF Change
  <2>2. CASE touched'
    BY <2>1, <2>2 DEF VisitKnows, passVars
  <2>3. CASE pc = "waiting"
    BY <2>1, <2>3 DEF VisitKnows, passVars
  <2>4. CASE ~touched' /\ pc # "waiting"
    <3>1. ~touched /\ v # Head(ids) /\ Head(ids) \in Stored
      BY <1>1, <2>4, HeadType DEF Change, TypeOK
    <3>2. count'[Head(ids)] = count[Head(ids)] /\ Likers(Head(ids))' = Likers(Head(ids))
      <4>1. PICK h \in Stored : h = Head(ids) /\ h = Head(ids')
        BY <2>1, <3>1 DEF passVars
      <4>2. count'[h] = count[h] /\ Likers(h)' = Likers(h)
        BY <1>1, <3>1, <4>1, ApplyOthers DEF Change, TypeOK
      <4> QED
        BY <4>1, <4>2 DEF Likers
    <3> QED
      BY <2>1, <3>1, <3>2 DEF VisitKnows, passVars
  <2> QED
    BY <2>2, <2>3, <2>4 DEF TypeOK
<1>2. CASE Sample
  BY <1>2 DEF Sample, VisitKnows
<1>3. CASE ReadCount
  BY <1>3 DEF ReadCount, VisitKnows, storeVars
<1>4. ASSUME NextVideo PROVE VisitKnows'
  BY <1>4 DEF NextVideo, VisitKnows
<1>5. CASE ReadEdges /\ ~NextVideo
  BY <1>5 DEF ReadEdges, VisitKnows, storeVars, Likers
<1>6. CASE UNCHANGED vars
  BY <1>6 DEF vars, VisitKnows, storeVars, passVars, Likers
<1> QED
  BY <1>1, <1>2, <1>3, <1>4, <1>5, <1>6 DEF Next, Reconcile, Write, StatementFails

LEMMA VisitInvariant == Spec => [](TypeOK /\ VisitKnows)
<1>1. Init => VisitKnows
  BY DEF Init, VisitKnows
<1> QED
  BY <1>1, TypeInit, TypeStep, VisitStep, PTL DEF Spec

\* UndisturbedWriteHeals: what a visit with no event in it overwrites was
\* wrong, and is the number of edges after it.
THEOREM VisitsHeal == Spec => UndisturbedWriteHeals
<1>1. TypeOK /\ VisitKnows /\ [Next]_vars
        => \A v \in Stored :
             (pc = "write" /\ pc' # pc /\ faults' = faults /\ v = Head(ids) /\ ~touched)
               => ~Exact(v) /\ Exact(v)'
  <2> SUFFICES ASSUME TypeOK, VisitKnows, [Next]_vars, NEW v \in Stored,
                      pc = "write", pc' # pc, faults' = faults, v = Head(ids), ~touched
               PROVE  ~Exact(v) /\ Exact(v)'
    OBVIOUS
  <2>1. stored = count[v] /\ exact = Cardinality(Likers(v)) /\ exact # stored
    BY DEF VisitKnows
  <2>2. Write
    <3>1. ~StatementFails
      BY DEF StatementFails, TypeOK
    <3> QED
      BY <3>1 DEF Next, Reconcile, Change, Sample, ReadCount, ReadEdges, vars, passVars
  <2>3. count'[v] = exact /\ Likers(v)' = Likers(v)
    BY <2>2 DEF Write, ReconcileCounter, TypeOK, StoreTypeOK, Likers
  <2> QED
    BY <2>1, <2>3 DEF Exact
<1> QED
  BY <1>1, VisitInvariant, PTL DEF Spec, UndisturbedWriteHeals

\* DriftNeedsRace: neither the worker nor an undisturbed visit makes an exact
\* counter wrong.
THEOREM RacesAloneDrift == Spec => DriftNeedsRace
<1>1. TypeOK /\ VisitKnows /\ [Next]_vars
        => \A v \in Stored :
             Exact(v) /\ ~Exact(v)' => pc = "write" /\ v = Head(ids) /\ touched
  <2> SUFFICES ASSUME TypeOK, VisitKnows, [Next]_vars, NEW v \in Stored, Exact(v), ~Exact(v)'
               PROVE  pc = "write" /\ v = Head(ids) /\ touched
    OBVIOUS
  <2>1. ASSUME NEW u \in User, NEW x \in Stored, NEW op, Change(u, x, op) PROVE FALSE
    BY <2>1, ApplyExact DEF Change, TypeOK
  <2>2. ASSUME UNCHANGED storeVars PROVE FALSE
    BY <2>2 DEF storeVars, Exact, Likers
  <2>3. Write
    BY <2>1, <2>2 DEF Next, Reconcile, Sample, ReadCount, ReadEdges, StatementFails, vars
  <2>4. Likers(v)' = Likers(v) /\ count' = [count EXCEPT ![Head(ids)] = exact]
    BY <2>3 DEF Write, ReconcileCounter, Likers
  <2>5. v = Head(ids)
    BY <2>4 DEF Exact, TypeOK, StoreTypeOK
  <2>6. touched
    <3> SUFFICES ASSUME ~touched PROVE FALSE
      BY DEF TypeOK
    <3>1. exact = Cardinality(Likers(v))
      BY <2>3, <2>5 DEF Write, VisitKnows
    <3>2. count'[v] = exact
      BY <2>4, <2>5 DEF TypeOK, StoreTypeOK
    <3> QED
      BY <2>4, <3>1, <3>2 DEF Exact
  <2> QED
    BY <2>3, <2>5, <2>6 DEF Write
<1> QED
  BY <1>1, VisitInvariant, PTL DEF Spec, DriftNeedsRace
=============================================================================
