--------------------------------- MODULE Feed ---------------------------------
(***************************************************************************)
(* GET /feed of internal/feed while videos are created.  In pull mode a    *)
(* page is a keyset query on Postgres; in push mode it comes from a sorted *)
(* set in Redis, which every created video is published to, which keeps    *)
(* about Cap members, and which a starting process warms up.               *)
(*                                                                         *)
(* A video is the number of its UUID, by which both stores break ties of   *)
(* created_at.  No code deletes or changes a row, so that hydrating the    *)
(* ids of a page is part of reading them, and a page that fails changes    *)
(* nothing: the client asks for it again.                                  *)
(***************************************************************************)
EXTENDS Naturals, Sequences, FiniteSets

CONSTANTS
  Video,      \* the ids of the videos that may be created
  Reader,     \* the clients that page through the feed
  Start, End, \* the empty cursors of a first request and of a last answer
  PageMax,    \* the highest limit of a page
  Cap,        \* FEED_PUSH_ZSET_CAP
  MaxTime,    \* bound: how far the clock goes
  MaxStarts,  \* bound: warm-ups at a time
  MaxFaults   \* bound: failed calls, crashes, losses of Redis

ASSUME FeedAssumption ==
  /\ Video \subseteq Nat
  /\ IsFiniteSet(Video)
  /\ Start \notin Video /\ End \notin Video /\ Start # End
  /\ PageMax \in Nat \ {0}
  /\ Cap \in Nat \ {0}
  /\ MaxTime \in Nat
  /\ MaxStarts \in Nat
  /\ MaxFaults \in Nat

VARIABLES
  mode,    \* FEED_MODE of the deployment
  clock,   \* the clock of Postgres, in microseconds
  at,      \* created_at of each video
  step,    \* how far the request that creates a video is
  rows,    \* the videos that have a row
  zset,    \* the members of feed:global, whose score is created_at
  warm,    \* the rows that warm-ups have read, of each the top Cap is to be added
  cursor,  \* the cursor that each reader has
  pages,   \* the pages that each reader was given
  stayed,  \* history: what was in the feed ever since the reader's first page
  owed,    \* history: what was published or warmed up since Redis was last empty
  faults   \* how many faults have happened

readVars == <<cursor, pages, stayed>>
vars == <<mode, clock, at, step, rows, zset, warm, readVars, owed, faults>>

Modes == {"pull", "push"}
Steps == {"none", "inserting", "adding", "trimming", "done"}

TypeOK ==
  /\ mode \in Modes
  /\ clock \in 0 .. MaxTime
  /\ at \in [Video -> 0 .. MaxTime]
  /\ step \in [Video -> Steps]
  /\ rows \subseteq {v \in Video : step[v] \in {"adding", "trimming", "done"}}
  /\ {v \in Video : step[v] \in {"adding", "trimming"}} \subseteq rows
  /\ zset \subseteq rows
  /\ owed \subseteq rows
  /\ warm \in SUBSET SUBSET rows
  /\ cursor \in [Reader -> Video \cup {Start, End}]
  /\ pages \in [Reader -> Seq(SUBSET rows)]
  /\ stayed \in [Reader -> SUBSET rows]
  /\ faults \in 0 .. MaxFaults
  /\ mode = "pull" => zset = {} /\ warm = {} /\ \A v \in Video : step[v] \notin {"adding", "trimming"}

Init ==
  /\ mode \in Modes
  /\ clock = 0
  /\ at = [v \in Video |-> 0]
  /\ step = [v \in Video |-> "none"]
  /\ rows = {}
  /\ zset = {}
  /\ warm = {}
  /\ cursor = [r \in Reader |-> Start]
  /\ pages = [r \in Reader |-> <<>>]
  /\ stayed = [r \in Reader |-> {}]
  /\ owed = {}
  /\ faults = 0

Fault == faults < MaxFaults /\ faults' = faults + 1

\* (created_at, id) of v is above that of w.
Newer(v, w) == at[v] > at[w] \/ (at[v] = at[w] /\ v > w)

NewerIn(set, v) == {w \in set : Newer(w, v)}

\* ORDER BY created_at DESC, id DESC LIMIT n: top is what a set gives.
IsTop(top, set, n) ==
  /\ top \subseteq set
  /\ Cardinality(top) = n \/ (top = set /\ Cardinality(top) < n)
  /\ \A v \in top, w \in set \ top : Newer(v, w)

IsOldest(last, set) == last \in set /\ \A w \in set : w = last \/ Newer(w, last)

Goto(v, label) == step' = [step EXCEPT ![v] = label]

-----------------------------------------------------------------------------
(* POST /videos: an INSERT, and in push mode ZADD and ZREMRANGEBYRANK, sent *)
(* in one pipeline and carried out one by one.                              *)

Tick ==
  /\ clock < MaxTime
  /\ clock' = clock + 1
  /\ UNCHANGED <<mode, at, step, rows, zset, warm, readVars, owed, faults>>

\* NOW() is the time at which the statement begins.
Create(v) ==
  /\ step[v] = "none"
  /\ at' = [at EXCEPT ![v] = clock]
  /\ Goto(v, "inserting")
  /\ UNCHANGED <<mode, clock, rows, zset, warm, readVars, owed, faults>>

Commit(v) ==
  /\ step[v] = "inserting"
  /\ rows' = rows \cup {v}
  /\ Goto(v, IF mode = "push" THEN "adding" ELSE "done")
  /\ UNCHANGED <<mode, clock, at, zset, warm, readVars, owed, faults>>

\* Mutant: what failed is published like what did not.
CreateFailsPublished(v) ==
  /\ step[v] = "inserting"
  /\ Fault
  /\ rows' \in {rows, rows \cup {v}}
  /\ Goto(v, IF mode = "push" THEN "adding" ELSE "done")
  /\ UNCHANGED <<mode, clock, at, zset, warm, readVars, owed>>

\* The row may have been committed.
CreateFails(v) ==
  /\ step[v] = "inserting"
  /\ Fault
  /\ rows' \in {rows, rows \cup {v}}
  /\ Goto(v, "done")
  /\ UNCHANGED <<mode, clock, at, zset, warm, readVars, owed>>

PublishAdd(v) ==
  /\ step[v] = "adding"
  /\ zset' = zset \cup {v}
  /\ owed' = owed \cup {v}
  /\ Goto(v, "trimming")
  /\ UNCHANGED <<mode, clock, at, rows, warm, readVars, faults>>

\* What readers have seen stay is what stays still.
StayOnly(set) == stayed' = [r \in Reader |-> stayed[r] \cap set]

\* Mutant: the last rank of the range is one too high.
PublishTrimTight(v) ==
  /\ step[v] = "trimming"
  /\ zset' \in SUBSET zset
  /\ IsTop(zset', zset, Cap - 1)
  /\ StayOnly(zset')
  /\ Goto(v, "done")
  /\ UNCHANGED <<mode, clock, at, rows, warm, cursor, pages, owed, faults>>

PublishTrim(v) ==
  /\ step[v] = "trimming"
  /\ zset' \in SUBSET zset
  /\ IsTop(zset', zset, Cap)
  /\ StayOnly(zset')
  /\ Goto(v, "done")
  /\ UNCHANGED <<mode, clock, at, rows, warm, cursor, pages, owed, faults>>

\* A failed pipeline is logged, a crash is not even that.
PublishFails(v) ==
  /\ step[v] \in {"adding", "trimming"}
  /\ Fault
  /\ Goto(v, "done")
  /\ UNCHANGED <<mode, clock, at, rows, zset, warm, readVars, owed>>

-----------------------------------------------------------------------------
(* Warmup of a process that starts: a query, and one ZADD of what it read. *)

WarmupQuery ==
  /\ mode = "push"
  /\ Cardinality(warm) < MaxStarts
  /\ warm' = warm \cup {rows}
  /\ UNCHANGED <<mode, clock, at, step, rows, zset, readVars, owed, faults>>

WarmupAdd ==
  /\ \E read \in warm : \E top \in SUBSET read :
       /\ IsTop(top, read, Cap)
       /\ warm' = warm \ {read}
       /\ zset' = zset \cup top
       /\ owed' = owed \cup read
  /\ UNCHANGED <<mode, clock, at, step, rows, readVars, faults>>

\* The ZADD fails, and the process does not start.
WarmupFails ==
  /\ Fault
  /\ \E read \in warm : warm' = warm \ {read}
  /\ UNCHANGED <<mode, clock, at, step, rows, zset, readVars, owed>>

RedisLost ==
  /\ mode = "push"
  /\ Fault
  /\ zset' = {}
  /\ owed' = {}
  /\ StayOnly({})
  /\ UNCHANGED <<mode, clock, at, step, rows, warm, cursor, pages>>

-----------------------------------------------------------------------------
(* GET /feed: limit+1 videos are asked for, and one more than the limit    *)
(* means that there is a next page.                                        *)

\* Mutant: only created_at is compared.
BelowTime(c) == {v \in rows : c = Start \/ at[v] < at[c]}

\* (created_at, id) < cursor.
BelowKey(c) == {v \in rows : c = Start \/ Newer(c, v)}

\* ZREVRANGEBYSCORE with the cursor's score excluded.
BelowScore(c) == {v \in zset : c = Start \/ at[v] < at[c]}

Below(c) == IF mode = "pull" THEN BelowKey(c) ELSE BelowScore(c)

Give(r, page, next) ==
  /\ pages' = [pages EXCEPT ![r] = Append(@, page)]
  /\ cursor' = [cursor EXCEPT ![r] = next]
  /\ stayed' = [stayed EXCEPT ![r] = IF cursor[r] = Start THEN Below(Start) ELSE @]

Fetch(r, limit) ==
  /\ cursor[r] # End
  /\ \E found \in SUBSET Below(cursor[r]) :
       /\ IsTop(found, Below(cursor[r]), limit + 1)
       /\ \/ Cardinality(found) <= limit /\ Give(r, found, End)
          \/ /\ Cardinality(found) > limit
             /\ \E page \in SUBSET found : \E last \in page :
                  /\ IsTop(page, found, limit)
                  /\ IsOldest(last, page)
                  /\ Give(r, page, last)
  /\ UNCHANGED <<mode, clock, at, step, rows, zset, warm, owed, faults>>

Next ==
  \/ Tick
  \/ \E v \in Video : Create(v) \/ Commit(v) \/ CreateFails(v)
  \/ \E v \in Video : PublishAdd(v) \/ PublishTrim(v) \/ PublishFails(v)
  \/ WarmupQuery \/ WarmupAdd \/ WarmupFails \/ RedisLost
  \/ \E r \in Reader, limit \in 1 .. PageMax : Fetch(r, limit)

Spec == Init /\ [][Next]_vars

-----------------------------------------------------------------------------
(* Properties. *)

Given(r) == UNION {pages[r][i] : i \in DOMAIN pages[r]}

\* A page but the last ends in this microsecond.
TurnedAt(r, time) ==
  \E i \in DOMAIN pages[r] :
    i < Len(pages[r]) /\ \E w \in pages[r][i] : IsOldest(w, pages[r][i]) /\ at[w] = time

PagesMissNothing ==
  \A r \in Reader : cursor[r] = End =>
    \A v \in stayed[r] : v \in Given(r) \/ (mode = "push" /\ TurnedAt(r, at[v]))

PagesDescend ==
  \A r \in Reader : \A i, j \in DOMAIN pages[r] : i < j =>
    \A v \in pages[r][i], w \in pages[r][j] : Newer(v, w)

\* Whatever is created, trimmed or warmed up meanwhile, paging to the end
\* gives a client everything that was in the feed all the while, where in push
\* mode only the videos of the microsecond in which a page ends may be passed
\* over; and no video comes twice or after an older one.
PagesAreTheFeed == PagesMissNothing /\ PagesDescend

\* Trimming never takes a video for which there is room, in whichever order
\* concurrent requests add and trim and warm-ups add rows: what is missing of
\* what was published or warmed up has Cap newer ones in the set.
NewestAreListed ==
  \A v \in owed : v \in zset \/ Cardinality(NewerIn(zset, v)) >= Cap
=============================================================================
