------------------------------ MODULE MCAccounts ------------------------------
(***************************************************************************)
(* Accounts for TLC.  The bits of the second address are among those of    *)
(* the first, so that it is a false positive once the first has an         *)
(* account.                                                                *)
(***************************************************************************)
EXTENDS Accounts, TLC

CONSTANTS a1, a2, r1, r2, r3, r4

MCName    == {a1, a2}
MCBits    == [n \in MCName |-> IF n = a1 THEN {1, 2} ELSE {2}]
MCRequest == {r1, r2, r3, r4}

\* A login and two refreshes with its token.
MCRequestRotation == {r1, r2, r3}

Requests == Permutations(MCRequest)
=============================================================================
