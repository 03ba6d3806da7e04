------------------------------ MODULE UniqueName ------------------------------
(***************************************************************************)
(* A Redis Bloom filter in front of a UNIQUE column of Postgres, as        *)
(* internal/platform/bloom puts it before users.email and                  *)
(* products.video_id: what one statement or one BF command does, and the   *)
(* warm-up that a starting API process runs.  No behaviour of its own.     *)
(*                                                                         *)
(* A filter is the set of its bits that are set.  A name is in it for      *)
(* BF.EXISTS when all its bits are, whoever set them.                      *)
(***************************************************************************)
EXTENDS Naturals, FiniteSets

CONSTANTS
  Name,   \* the values of the column
  Bits,   \* the bits of the filter that each name hashes to
  Batch   \* how many names the warm-up sends in one BF.MADD

ASSUME NameAssumption ==
  /\ IsFiniteSet(Name)
  /\ Bits \in [Name -> SUBSET Nat]
  /\ Batch \in Nat \ {0}

VARIABLES
  taken,    \* the names that have a row
  filter,   \* the bits that are set
  warming,  \* whether a process is in its warm-up
  rest,     \* the names that the warm-up has read and not sent yet
  fresh,    \* history: the names of the warm-up that Redis has not dropped since
  missing   \* history: the names with a row that a fault may have kept from the filter

nameVars == <<taken, filter, warming, rest, fresh, missing>>
filterVars == <<filter, warming, rest, fresh>>

BitsOf(names) == UNION {Bits[n] : n \in names}

UniqueTypeOK ==
  /\ taken \subseteq Name
  /\ filter \subseteq BitsOf(Name)
  /\ warming \in BOOLEAN
  /\ rest \subseteq fresh
  /\ fresh \subseteq taken
  /\ missing \subseteq taken

\* A database that has been in use, and an empty Redis.
UniqueInit ==
  /\ taken \in SUBSET Name
  /\ filter = {}
  /\ warming = FALSE
  /\ rest = {}
  /\ fresh = {}
  /\ missing = taken

-----------------------------------------------------------------------------
(* The commands and the statement. *)

MayContain(n) == Bits[n] \subseteq filter

Add(n) == filter' = filter \cup Bits[n]

AddBatch(names) == filter' = filter \cup BitsOf(names)

Insert(n) == n \notin taken /\ taken' = taken \cup {n}

Refused(n) == n \in taken /\ UNCHANGED taken

-----------------------------------------------------------------------------
(* The warm-up: one SELECT, whose rows are sent in batches, the last of    *)
(* them a short one.                                                       *)

WarmUp ==
  /\ ~warming
  /\ warming' = TRUE
  /\ rest' = taken
  /\ fresh' = taken
  /\ UNCHANGED <<taken, filter, missing>>

WarmBatch ==
  /\ warming
  /\ \E names \in SUBSET rest :
       /\ names # {}
       /\ Cardinality(names) = Batch \/ (names = rest /\ Cardinality(names) < Batch)
       /\ AddBatch(names)
       /\ rest' = rest \ names
  /\ UNCHANGED <<taken, warming, fresh, missing>>

\* Mutant: what is left in the buffer after the last full batch is not sent.
WarmedUnflushed ==
  /\ warming
  /\ Cardinality(rest) < Batch
  /\ warming' = FALSE
  /\ rest' = {}
  /\ fresh' = {}
  /\ missing' = missing \ fresh
  /\ UNCHANGED <<taken, filter>>

\* All is sent: the process may serve.
Warmed ==
  /\ warming
  /\ rest = {}
  /\ warming' = FALSE
  /\ fresh' = {}
  /\ missing' = missing \ fresh
  /\ UNCHANGED <<taken, filter, rest>>

\* A call of the warm-up fails, and the process does not start.
WarmFails ==
  /\ warming
  /\ warming' = FALSE
  /\ rest' = {}
  /\ fresh' = {}
  /\ UNCHANGED <<taken, filter, missing>>

\* Redis comes back empty: what was sent is gone, the rest is still to be sent.
FilterLost ==
  /\ filter' = {}
  /\ fresh' = rest
  /\ missing' = taken
  /\ UNCHANGED <<taken, warming, rest>>

\* What a filter holds, every bit of it, comes from names that have a row.
FilterFromRows == filter \subseteq BitsOf(taken)

\* A name that has a row and no fault to explain it is in the filter, or
\* is among what recording is about to add.
KnownUnless(recording) ==
  \A n \in taken : n \in missing \/ n \in recording \/ MayContain(n)
=============================================================================
