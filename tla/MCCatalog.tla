------------------------------- MODULE MCCatalog -------------------------------
(* Catalog for TLC.  The second video is a false positive once the first has  *)
(* a product.                                                                 *)
EXTENDS Catalog, TLC

CONSTANTS v1, v2, u1, u2, r1, r2

MCName    == {v1, v2}
MCBits    == [v \in MCName |-> IF v = v1 THEN {1, 2} ELSE {2}]
MCUser    == {u1, u2}
MCRequest == {r1, r2}

UsersAndRequests == Permutations(MCUser) \cup Permutations(MCRequest)
=============================================================================
