------------------------------ MODULE StreamGroup ------------------------------
(***************************************************************************)
(* A Redis stream with one consumer group, as the like and the view        *)
(* pipeline use it: XADD with an approximate MAXLEN, XGROUP CREATE at "$", *)
(* and XREADGROUP with the id ">".  XACK is in the modules that extend     *)
(* this one, which say when it happens; no code claims pending entries.    *)
(*                                                                         *)
(* A stream id is the position of the entry in the order of XADD, so log   *)
(* is kept whole and `kept' says where MAXLEN has trimmed it.              *)
(***************************************************************************)
EXTENDS Naturals, Sequences, FiniteSets

CONSTANTS
  BatchSize,     \* COUNT of XREADGROUP
  StreamMaxLen,  \* MAXLEN ~ of XADD
  MaxEvents      \* bound: events ever streamed

ASSUME StreamAssumption ==
  /\ BatchSize \in Nat \ {0}
  /\ StreamMaxLen \in Nat \ {0}
  /\ MaxEvents \in Nat

VARIABLES
  log,      \* every event streamed, oldest first
  kept,     \* the oldest entry that is still in the stream
  grouped,  \* whether the consumer group exists
  cursor,   \* the group's last-delivered-id
  pel       \* the group's pending entries: delivered, not acknowledged

streamVars == <<log, kept>>
groupVars  == <<grouped, cursor, pel>>

Ids == 1 .. Len(log)

\* The stream holds members of Event.
StreamTypeOK(Event) ==
  /\ log \in Seq(Event)
  /\ kept \in 1 .. Len(log) + 1
  /\ grouped \in BOOLEAN
  /\ cursor \in 0 .. Len(log)
  /\ pel \subseteq 1 .. cursor

StreamInit ==
  /\ log = <<>>
  /\ kept = 1
  /\ grouped = FALSE
  /\ cursor = 0
  /\ pel = {}

\* XADD MAXLEN ~: Redis may trim any part of what exceeds the length, or none.
XAdd(event) ==
  /\ Len(log) < MaxEvents
  /\ log' = Append(log, event)
  /\ kept' \in kept .. Len(log) + 1
  /\ kept' = kept \/ Len(log) + 2 - kept' >= StreamMaxLen

\* Mutants: every start sets the group back to the first entry, or on to the last.
EnsureGroupAtFirst ==
  /\ grouped' = TRUE
  /\ cursor' = 0

EnsureGroupAtLast ==
  /\ grouped' = TRUE
  /\ cursor' = Len(log)

\* ensureGroup: the group starts at "$", the end of the stream, and BUSYGROUP
\* leaves one that exists as it is.
EnsureGroup ==
  /\ grouped' = TRUE
  /\ cursor' = IF grouped THEN cursor ELSE Len(log)

\* What XREADGROUP ">" could deliver up to the entry last.
Fresh(last) == {i \in cursor + 1 .. last : i >= kept}

\* The next entries that no consumer was given, at most BatchSize of them,
\* become pending.
Deliver(last) ==
  /\ Fresh(last) # {}
  /\ Cardinality(Fresh(last)) <= BatchSize
  /\ last = Len(log) \/ Cardinality(Fresh(last)) = BatchSize
  /\ cursor' = last
  /\ pel' = pel \cup Fresh(last)

\* An entry that was trimmed before any consumer was given it.
Trimmed(i) == cursor < i /\ i < kept
=============================================================================
