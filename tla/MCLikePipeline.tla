---------------------------- MODULE MCLikePipeline ----------------------------
(***************************************************************************)
(* The like pipeline on small instances, and what the documents and the    *)
(* tests of the repository say of it and the code does not do.             *)
(***************************************************************************)
EXTENDS LikePipeline

\* tests/integration/likes_e2e_test.go likes a video, then runs a worker for
\* the first time: "worker.Run drains it and applies the change".
EveryLikePersists ==
  \A i \in 1 .. MaxEvents : i \in Ids ~> i \in applied

\* worker.go on an Apply that failed: "the entry stays pending and will be
\* redelivered to this consumer on the next pass"; docs/edge-cases.md on a
\* crash in the middle of a batch: a restart "re-delivers pending entries".
HeldEventsGetApplied ==
  \A i \in 1 .. MaxEvents :
    (\E w \in Worker : i \in batch[w]) ~> (i \in applied)
=============================================================================
