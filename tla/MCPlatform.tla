------------------------------ MODULE MCPlatform ------------------------------
(***************************************************************************)
(* The rate limiter and the life of a process for TLC.  They have nothing  *)
(* to do with each other: a behaviour is of one of them, and the other     *)
(* stays as it was at first.                                               *)
(***************************************************************************)
EXTENDS MCLeakyBucket, Processes

platformVars == <<vars, processVars>>

PlatformInit == Init /\ ProcessInit

OfBucket == Next /\ ProcessInit /\ role = "api" /\ UNCHANGED processVars

OfProcess(A) == A /\ Init /\ UNCHANGED vars

PlatformNext == OfBucket \/ OfProcess(ProcessNext)

\* The fairness of ProcessSpec; the bucket claims nothing that needs any.
PlatformSpec ==
  /\ PlatformInit
  /\ [][PlatformNext]_platformVars
  /\ WF_platformVars(OfProcess(Run)) /\ WF_platformVars(OfProcess(Reply))
=============================================================================
