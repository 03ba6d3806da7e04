---------------------------- MODULE MCStatsService ----------------------------
(***************************************************************************)
(* StatsService for TLC: two requests come to one replica and a third to   *)
(* another one, which is the smallest system with both a singleflight to   *)
(* share and a lock to contend for.                                        *)
(***************************************************************************)
EXTENDS StatsService

CONSTANTS p1, p2, q1, q2, q3

MCReplica == {p1, p2}
MCRequest == {q1, q2, q3}

MCHome == [q \in MCRequest |-> IF q = q3 THEN p2 ELSE p1]
=============================================================================
