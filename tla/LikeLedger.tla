------------------------------ MODULE LikeLedger ------------------------------
(***************************************************************************)
(* What the like pipeline promises to a user, with no stream and no worker *)
(* in sight.  Users decide, and every decision goes into a history.  The   *)
(* durable copy of what a user wants of a video catches up with one of     *)
(* that user's decisions about that video, always a later one than before, *)
(* and may pass over some.                                                 *)
(***************************************************************************)
EXTENDS Naturals, Sequences

CONSTANTS User, Video

VARIABLES
  history,  \* every decision, oldest first
  wanted,   \* what the users want now: a set of <<user, video>>
  durable,  \* what Postgres holds
  upto      \* the decision that each durable entry stems from, 0 for none

vars == <<history, wanted, durable, upto>>

Init ==
  /\ history = <<>>
  /\ wanted = {}
  /\ durable = {}
  /\ upto = [p \in User \X Video |-> 0]

Pair(i) == <<history[i].user, history[i].video>>

Decide(u, v) ==
  /\ \/ /\ <<u, v>> \notin wanted
        /\ wanted' = wanted \cup {<<u, v>>}
        /\ history' = Append(history, [user |-> u, video |-> v, op |-> "like"])
     \/ /\ <<u, v>> \in wanted
        /\ wanted' = wanted \ {<<u, v>>}
        /\ history' = Append(history, [user |-> u, video |-> v, op |-> "unlike"])
  /\ UNCHANGED <<durable, upto>>

CatchUp(i) ==
  /\ i > upto[Pair(i)]
  /\ upto' = [upto EXCEPT ![Pair(i)] = i]
  /\ durable' = IF history[i].op = "like"
                THEN durable \cup {Pair(i)}
                ELSE durable \ {Pair(i)}
  /\ UNCHANGED <<history, wanted>>

Next ==
  \/ \E u \in User, v \in Video : Decide(u, v)
  \/ \E i \in 1 .. Len(history) : CatchUp(i)

Spec == Init /\ [][Next]_vars
=============================================================================
