-------------------------------- MODULE MCFeed --------------------------------
(* Feed for TLC. *)
EXTENDS Feed

MCVideo == 1 .. 3
=============================================================================
