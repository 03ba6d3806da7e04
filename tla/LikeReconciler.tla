---------------------------- MODULE LikeReconciler ----------------------------
(***************************************************************************)
(* The reconciler of internal/like/reconciler.go beside the like worker.   *)
(* A pass samples rows of video_stats and, for one after the other, reads  *)
(* the counter, counts the edges and rewrites the counter if they differ:  *)
(* three statements, with no transaction around them, while the worker     *)
(* goes on applying events.                                                *)
(***************************************************************************)
EXTENDS LikeStore, SequencesExt

CONSTANTS
  SampleSize,  \* LIMIT of SampleVideoIDs
  MaxChanges,  \* bound: events the worker applies
  MaxDrift,    \* bound: the counters a pass may find at first
  MaxFaults    \* bound: statements of the reconciler that fail

ASSUME ReconcilerAssumption ==
  /\ IsFiniteSet(Video)
  /\ SampleSize \in Nat \ {0}
  /\ MaxChanges \in Nat
  /\ MaxDrift \in Nat
  /\ MaxFaults \in Nat

VARIABLES
  byAge,    \* the rows of video_stats by updated_at, oldest first
  pc,       \* the statement the pass is about to run
  ids,      \* the sampled videos the pass has still to visit
  stored,   \* what Count returned for the first of them
  exact,    \* what CountFromEdges returned for it
  touched,  \* history: it was changed since its counter was read
  changes,  \* how many events the worker has applied
  faults    \* how many statements have failed

passVars == <<pc, ids, stored, exact>>
vars == <<storeVars, byAge, passVars, touched, changes, faults>>

Orders == {s \in [1 .. Cardinality(Stored) -> Stored] :
             \A v \in Stored : \E k \in DOMAIN s : s[k] = v}

TypeOK ==
  /\ StoreTypeOK
  /\ byAge \in Orders
  /\ pc \in {"waiting", "count", "edges", "write"}
  /\ ids \in Seq(Stored)
  /\ stored \in Nat /\ exact \in Nat
  /\ touched \in BOOLEAN
  /\ changes \in 0 .. MaxChanges
  /\ faults \in 0 .. MaxFaults
  /\ pc = "waiting" <=> ids = <<>>

\* Any drift may be there when the process starts, and any order of updates.
Init ==
  /\ edges = {}
  /\ count \in [Stored -> 0 .. MaxDrift]
  /\ byAge \in Orders
  /\ pc = "waiting"
  /\ ids = <<>>
  /\ stored = 0 /\ exact = 0
  /\ touched = FALSE
  /\ changes = 0
  /\ faults = 0

\* updated_at = NOW() makes v the youngest row.
Touch(v) == \E k \in DOMAIN byAge : byAge[k] = v /\ byAge' = Append(RemoveAt(byAge, k), v)

-----------------------------------------------------------------------------
(* The worker, as the reconciler sees it: events come in any order.  One   *)
(* that finds the edge as it wants it changes nothing.                     *)
Change(u, v, op) ==
  /\ changes < MaxChanges
  /\ op = "like" <=> <<u, v>> \notin edges
  /\ Apply(u, v, op)
  /\ Touch(v)
  /\ touched' = (touched \/ (ids # <<>> /\ v = Head(ids)))
  /\ changes' = changes + 1
  /\ UNCHANGED <<passVars, faults>>

-----------------------------------------------------------------------------
(* One pass: Once. *)

\* SampleVideoIDs: the rows whose updated_at is oldest.
Sample ==
  /\ pc = "waiting"
  /\ byAge # <<>>
  /\ ids' = SubSeq(byAge, 1, IF Len(byAge) < SampleSize THEN Len(byAge) ELSE SampleSize)
  /\ pc' = "count"
  /\ UNCHANGED <<storeVars, byAge, stored, exact, touched, changes, faults>>

\* The loop goes on with the next video; after the last one the pass is over.
NextVideo ==
  /\ ids' = Tail(ids)
  /\ pc' = IF Tail(ids) = <<>> THEN "waiting" ELSE "count"

ReadCount ==
  /\ pc = "count"
  /\ stored' = count[Head(ids)]
  /\ touched' = FALSE
  /\ pc' = "edges"
  /\ UNCHANGED <<storeVars, byAge, ids, exact, changes, faults>>

\* Mutant: a counter that is too high passes for a right one.
ReadEdgesOneSided ==
  /\ pc = "edges"
  /\ exact' = Cardinality(Likers(Head(ids)))
  /\ \/ exact' <= stored /\ NextVideo
     \/ exact' > stored /\ pc' = "write" /\ UNCHANGED ids
  /\ UNCHANGED <<storeVars, byAge, stored, touched, changes, faults>>

\* CountFromEdges, and the comparison that ends the visit if they agree.
ReadEdges ==
  /\ pc = "edges"
  /\ exact' = Cardinality(Likers(Head(ids)))
  /\ \/ exact' = stored /\ NextVideo
     \/ exact' # stored /\ pc' = "write" /\ UNCHANGED ids
  /\ UNCHANGED <<storeVars, byAge, stored, touched, changes, faults>>

\* Mutant: the counter that was read is written back.
WriteStored ==
  /\ pc = "write"
  /\ ReconcileCounter(Head(ids), stored)
  /\ UNCHANGED byAge
  /\ NextVideo
  /\ UNCHANGED <<stored, exact, touched, changes, faults>>

\* The WHERE clause spares a row that already holds the value, its
\* updated_at included.
Write ==
  /\ pc = "write"
  /\ ReconcileCounter(Head(ids), exact)
  /\ \/ count[Head(ids)] # exact /\ Touch(Head(ids))
     \/ count[Head(ids)] = exact /\ UNCHANGED byAge
  /\ NextVideo
  /\ UNCHANGED <<stored, exact, touched, changes, faults>>

\* An error of any of the three statements leaves the video for a later pass.
StatementFails ==
  /\ pc # "waiting"
  /\ faults < MaxFaults
  /\ faults' = faults + 1
  /\ NextVideo
  /\ UNCHANGED <<storeVars, byAge, stored, exact, touched, changes>>

Reconcile == Sample \/ ReadCount \/ ReadEdges \/ Write

Next ==
  \/ \E u \in User, v \in Stored, op \in {"like", "unlike"} : Change(u, v, op)
  \/ Reconcile
  \/ StatementFails

Spec == Init /\ [][Next]_vars

\* The ticker fires for ever, and a pass that began goes on.
FairSpec == Spec /\ WF_vars(Reconcile)

-----------------------------------------------------------------------------
(* Properties. *)

Exact(v) == count[v] = Cardinality(Likers(v))

\* The sample is full of older rows than v's that are right as they are: no
\* visit makes them younger, so no pass comes to v.
CrowdedOut(v) ==
  \A k \in DOMAIN byAge :
    byAge[k] = v => k > SampleSize /\ \A j \in 1 .. SampleSize : Exact(byAge[j])

\* Whatever drift there was or a race has made: once the worker is quiet, the
\* reconciler brings a counter back to its edges and leaves it there.  Only a
\* row behind a whole sample of right ones may stay wrong.
DriftHeals == <>[](\A v \in Stored : Exact(v) \/ CrowdedOut(v))

\* A write that met no event of the worker is what the reconciler is for: the
\* counter was wrong before it and is right after it.
UndisturbedWriteHeals ==
  [][\A v \in Stored :
       (pc = "write" /\ pc' # pc /\ faults' = faults /\ v = Head(ids) /\ ~touched)
         => ~Exact(v) /\ Exact(v)']_vars

\* A counter goes wrong in one way alone: the pass overwrites it after the
\* worker has changed it under the pass's hands.  The worker, and a pass over
\* a row that nobody touches, leave an exact counter exact.
DriftNeedsRace ==
  [][\A v \in Stored :
       Exact(v) /\ ~Exact(v)' => pc = "write" /\ v = Head(ids) /\ touched]_vars

\* worker.go says of the reconciler that "it only ever fixes drift, not real
\* events": no step of it, or of the worker, makes an exact counter wrong.
OnlyFixesDrift == [][\A v \in Stored : Exact(v) => Exact(v)']_vars
=============================================================================
