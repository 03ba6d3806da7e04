------------------------------ MODULE LikeStore ------------------------------
(***************************************************************************)
(* The Postgres side of the like pipeline: the likes table, whose rows are *)
(* the edges between users and videos, and the denormalised likes_count of *)
(* video_stats.  internal/like/repository.go is the only code that writes  *)
(* either of them.  The actions here say what one SQL statement does to    *)
(* the two tables; the modules that extend this one say who runs it.       *)
(***************************************************************************)
EXTENDS Naturals, FiniteSets

CONSTANTS
  User,    \* the users
  Video,   \* the ids a client may put in /videos/:id/like: any well-formed id
  Stored   \* those of them that have a row in videos, hence in video_stats

ASSUME StoreAssumption == IsFiniteSet(User) /\ Stored \subseteq Video

VARIABLES
  edges,   \* the likes table: a set of <<user, video>>, its primary key
  count    \* video_stats.likes_count, one row per stored video

storeVars == <<edges, count>>

Likers(v) == {u \in User : <<u, v>> \in edges}

StoreTypeOK ==
  /\ edges \subseteq User \X Stored
  /\ count \in [Stored -> Nat]

\* The trigger on videos has given every stored video a row with a zero count.
StoreInit ==
  /\ edges = {}
  /\ count = [v \in Stored |-> 0]

\* The counter never drifts from the edges it is derived from.
CountsExact == \A v \in Stored : count[v] = Cardinality(Likers(v))

-----------------------------------------------------------------------------
\* Mutants: likes.video_id references nothing; + 1 also when no row went in.
ApplyLikeNoForeignKey(u, v) ==
  /\ edges' = edges \cup {<<u, v>>}
  /\ UNCHANGED count

ApplyLikeAlwaysCounts(u, v) ==
  /\ v \in Stored
  /\ edges' = edges \cup {<<u, v>>}
  /\ count' = [count EXCEPT ![v] = @ + 1]

\* INSERT ... ON CONFLICT DO NOTHING, and + 1 only if a row went in.
ApplyLike(u, v) ==
  /\ v \in Stored
  /\ edges' = edges \cup {<<u, v>>}
  /\ count' = IF <<u, v>> \in edges THEN count ELSE [count EXCEPT ![v] = @ + 1]

\* Mutant: the DELETE forgets its user.
ApplyUnlikeOfEveryone(u, v) ==
  /\ edges' = edges \ {<<w, v>> : w \in User}
  /\ count' = IF Likers(v) # {} THEN [count EXCEPT ![v] = 0] ELSE count

\* DELETE, and GREATEST(likes_count - 1, 0) only if a row came out.
ApplyUnlike(u, v) ==
  /\ edges' = edges \ {<<u, v>>}
  /\ count' = IF <<u, v>> \in edges
              THEN [count EXCEPT ![v] = IF @ > 0 THEN @ - 1 ELSE 0]
              ELSE count

Apply(u, v, op) ==
  \/ op = "like" /\ ApplyLike(u, v)
  \/ op = "unlike" /\ ApplyUnlike(u, v)

\* An insert whose video is in no row of videos violates the foreign key.
Refused(v, op) == op = "like" /\ v \notin Stored

\* UPDATE video_stats SET likes_count = $2 WHERE ... likes_count <> $2.
ReconcileCounter(v, exact) ==
  /\ count' = [count EXCEPT ![v] = exact]
  /\ UNCHANGED edges
=============================================================================
