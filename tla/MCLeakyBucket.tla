----------------------------- MODULE MCLeakyBucket -----------------------------
(***************************************************************************)
(* LeakyBucket for TLC: the login's policy, which fails closed, and those  *)
(* of views of three lengths, in ticks of two to a second and twelve to a  *)
(* minute.                                                                 *)
(***************************************************************************)
EXTENDS LeakyBucket, ViewFilters

Login == [capacity |-> 2, cost |-> 3, open |-> FALSE]

MCPolicies == {Login} \cup {RatePolicy(d) : d \in {d \in {2, 4, 5, 15} : HasBucket(d)}}
=============================================================================
