------------------------------ MODULE Feed_proofs ------------------------------
(***************************************************************************)
(* Proofs about Feed: paging misses nothing and goes down, in either mode, *)
(* and trimming keeps the newest, for any number of videos and readers.    *)
(***************************************************************************)
EXTENDS Feed, FiniteSetTheorems, TLAPS

LEMMA TypeInit == Init => TypeOK
BY FeedAssumption DEF Init, TypeOK, Modes, Steps

LEMMA Labels ==
  /\ "none" \in Steps /\ "inserting" \in Steps /\ "adding" \in Steps
  /\ "trimming" \in Steps /\ "done" \in Steps
  /\ "pull" \in Modes /\ "push" \in Modes /\ "pull" # "push"
BY DEF Steps, Modes

\* A page is of videos that have a row.
LEMMA BelowRows ==
  ASSUME TypeOK, NEW c PROVE Below(c) \subseteq rows
BY DEF TypeOK, Below, BelowKey, BelowScore

\* What one step of a reader does to it.
LEMMA FetchEffect ==
  ASSUME TypeOK, NEW r \in Reader, NEW limit \in 1 .. PageMax, Fetch(r, limit)
  PROVE  \E page \in SUBSET Below(cursor[r]), next \in Video \cup {End} :
           /\ Give(r, page, next)
           /\ next = End => page = Below(cursor[r])
           /\ next # End =>
                /\ IsOldest(next, page)
                /\ \A v \in page, w \in Below(cursor[r]) \ page : Newer(v, w)
<1> DEFINE below == Below(cursor[r])
<1>0. below \subseteq Video /\ limit \in Nat /\ Cardinality(below) \in Nat
  <2>1. below \subseteq Video
    BY BelowRows DEF TypeOK
  <2>2. IsFiniteSet(below)
    BY <2>1, FeedAssumption, FS_Subset
  <2> QED BY <2>1, <2>2, FS_CardinalityType
<1>1. PICK found \in SUBSET below :
        /\ IsTop(found, below, limit + 1)
        /\ \/ Cardinality(found) <= limit /\ Give(r, found, End)
           \/ /\ Cardinality(found) > limit
              /\ \E page \in SUBSET found : \E last \in page :
                   /\ IsTop(page, found, limit)
                   /\ IsOldest(last, page)
                   /\ Give(r, page, last)
  BY DEF Fetch
<1>2. CASE Cardinality(found) <= limit /\ Give(r, found, End)
  <2>1. Cardinality(found) # limit + 1
    BY <1>0, <1>2
  <2>2. found = below
    BY <1>1, <2>1 DEF IsTop
  <2> QED BY <1>2, <2>2
<1>3. CASE \E page \in SUBSET found : \E last \in page :
             IsTop(page, found, limit) /\ IsOldest(last, page) /\ Give(r, page, last)
  <2>0. PICK page \in SUBSET found : \E last \in page :
          IsTop(page, found, limit) /\ IsOldest(last, page) /\ Give(r, page, last)
    BY <1>3
  <2>1. PICK last \in page :
          IsTop(page, found, limit) /\ IsOldest(last, page) /\ Give(r, page, last)
    BY <2>0
  <2>2. \A v \in page, w \in below \ page : Newer(v, w)
    BY <1>1, <2>1 DEF IsTop
  <2>3. last \in Video /\ last # End
    BY <1>0, <2>1, FeedAssumption
  <2> QED BY <1>1, <2>1, <2>2, <2>3
<1> QED BY <1>1, <1>2, <1>3

LEMMA TypeNext == TypeOK /\ [Next]_vars => TypeOK'
<1> SUFFICES ASSUME TypeOK, [Next]_vars PROVE TypeOK'
  OBVIOUS
<1> USE FeedAssumption, Labels
<1>1. CASE Tick
  BY <1>1 DEF TypeOK, Tick, readVars
<1>2. ASSUME NEW v \in Video, Create(v) PROVE TypeOK'
  BY <1>2 DEF TypeOK, Create, Goto, readVars
<1>3. ASSUME NEW v \in Video, Commit(v) PROVE TypeOK'
  <2>1. rows \subseteq rows' /\ rows' = rows \cup {v}
    BY <1>3 DEF Commit
  <2>2. warm' \in SUBSET SUBSET rows' /\ stayed' \in [Reader -> SUBSET rows']
    BY <1>3, <2>1 DEF TypeOK, Commit, readVars
  <2>3. pages' \in [Reader -> Seq(SUBSET rows')]
    BY <1>3, <2>1 DEF TypeOK, Commit, readVars
  <2> QED BY <1>3, <2>1, <2>2, <2>3 DEF TypeOK, Commit, Goto, readVars
<1>4. ASSUME NEW v \in Video, CreateFails(v) PROVE TypeOK'
  <2>1. rows \subseteq rows' /\ rows' \subseteq rows \cup {v}
    BY <1>4 DEF CreateFails
  <2>2. warm' \in SUBSET SUBSET rows' /\ stayed' \in [Reader -> SUBSET rows']
    BY <1>4, <2>1 DEF TypeOK, CreateFails, readVars
  <2>3. pages' \in [Reader -> Seq(SUBSET rows')]
    BY <1>4, <2>1 DEF TypeOK, CreateFails, readVars
  <2>4. faults' \in 0 .. MaxFaults
    BY <1>4 DEF TypeOK, CreateFails, Fault
  <2>5. step' = [step EXCEPT ![v] = "done"] /\ v \in Video
    BY <1>4 DEF CreateFails, Goto
  <2>6. /\ step' \in [Video -> Steps]
        /\ {w \in Video : step'[w] \in {"adding", "trimming"}} \subseteq rows'
        /\ rows' \subseteq {w \in Video : step'[w] \in {"adding", "trimming", "done"}}
    <3>1. /\ step \in [Video -> Steps]
          /\ \A w \in Video : step[w] \in {"adding", "trimming"} => w \in rows
          /\ \A w \in rows : w \in Video /\ step[w] \in {"adding", "trimming", "done"}
      BY DEF TypeOK
    <3>2. step' \in [Video -> Steps] /\ step'[v] = "done"
      BY <2>5, <3>1
    <3>3. \A w \in Video : w # v => step'[w] = step[w]
      BY <2>5, <3>1
    <3>4. \A w \in Video : step'[w] \in {"adding", "trimming"} => w \in rows'
      BY <2>1, <3>1, <3>2, <3>3
    <3>5. \A w \in rows' : w \in Video /\ step'[w] \in {"adding", "trimming", "done"}
      BY <2>1, <2>5, <3>1, <3>2, <3>3
    <3> QED BY <3>2, <3>4, <3>5
  <2>7. mode' = "pull" => zset' = {} /\ warm' = {} /\ \A w \in Video : step'[w] \notin {"adding", "trimming"}
    BY <1>4, <2>5 DEF TypeOK, CreateFails
  <2> QED BY <1>4, <2>1, <2>2, <2>3, <2>4, <2>6, <2>7 DEF TypeOK, CreateFails, readVars
<1>5. ASSUME NEW v \in Video, PublishAdd(v) PROVE TypeOK'
  <2>1. v \in rows /\ mode = "push"
    BY <1>5 DEF TypeOK, Modes, PublishAdd
  <2>2. step' = [step EXCEPT ![v] = "trimming"]
    BY <1>5 DEF PublishAdd, Goto
  <2>3. /\ step' \in [Video -> Steps]
        /\ {w \in Video : step'[w] \in {"adding", "trimming"}} \subseteq rows
        /\ rows \subseteq {w \in Video : step'[w] \in {"adding", "trimming", "done"}}
    BY <2>1, <2>2 DEF TypeOK
  <2> QED BY <1>5, <2>1, <2>3 DEF TypeOK, PublishAdd, readVars
<1>6. ASSUME NEW v \in Video, PublishTrim(v) PROVE TypeOK'
  <2>1. zset' \subseteq zset /\ stayed' = [s \in Reader |-> stayed[s] \cap zset']
    BY <1>6 DEF PublishTrim, StayOnly
  <2>2. stayed' \in [Reader -> SUBSET rows]
    BY <2>1 DEF TypeOK
  <2>3. step' = [step EXCEPT ![v] = "done"] /\ v \in Video
    BY <1>6 DEF PublishTrim, Goto
  <2>4. /\ step' \in [Video -> Steps]
        /\ {w \in Video : step'[w] \in {"adding", "trimming"}} \subseteq rows
        /\ rows \subseteq {w \in Video : step'[w] \in {"adding", "trimming", "done"}}
    BY <2>3 DEF TypeOK
  <2>5. mode = "pull" => zset' = {} /\ warm = {} /\ \A w \in Video : step'[w] \notin {"adding", "trimming"}
    BY <2>1, <2>3 DEF TypeOK
  <2> QED BY <1>6, <2>1, <2>2, <2>4, <2>5 DEF TypeOK, PublishTrim
<1>7. ASSUME NEW v \in Video, PublishFails(v) PROVE TypeOK'
  BY <1>7 DEF TypeOK, PublishFails, Fault, Goto, readVars
<1>8. CASE WarmupQuery
  BY <1>8 DEF TypeOK, WarmupQuery, readVars
<1>9. CASE WarmupAdd
  BY <1>9 DEF TypeOK, WarmupAdd, readVars
<1>10. CASE WarmupFails
  BY <1>10 DEF TypeOK, WarmupFails, Fault, readVars
<1>11. CASE RedisLost
  BY <1>11 DEF TypeOK, RedisLost, Fault, StayOnly
<1>12. ASSUME NEW r \in Reader, NEW limit \in 1 .. PageMax, Fetch(r, limit) PROVE TypeOK'
  <2>1. PICK page \in SUBSET Below(cursor[r]), next \in Video \cup {End} : Give(r, page, next)
    BY <1>12, FetchEffect
  <2>2. page \in SUBSET rows /\ Below(Start) \in SUBSET rows
    BY BelowRows
  <2>3. pages' \in [Reader -> Seq(SUBSET rows)]
    BY <2>1, <2>2 DEF Give, TypeOK
  <2> QED BY <1>12, <2>1, <2>2, <2>3 DEF Fetch, Give, TypeOK
<1>13. CASE UNCHANGED vars
  BY <1>13 DEF TypeOK, vars, readVars
<1> QED BY <1>1, <1>2, <1>3, <1>4, <1>5, <1>6, <1>7, <1>8, <1>9, <1>10, <1>11, <1>12, <1>13 DEF Next

\* TypeOK: only videos with a row are published, listed, warmed up or given.
THEOREM TypeCorrect == Spec => []TypeOK
<1> QED BY TypeInit, TypeNext, PTL DEF Spec

-----------------------------------------------------------------------------
(* What the newest are: the order, counting, and what no step changes. *)

\* created_at and id order videos totally.
LEMMA Order ==
  ASSUME TypeOK
  PROVE  /\ \A v, w \in Video : v = w \/ Newer(v, w) \/ Newer(w, v)
         /\ \A v, w \in Video : ~ (Newer(v, w) /\ Newer(w, v))
         /\ \A v, w, x \in Video : Newer(v, w) /\ Newer(w, x) => Newer(v, x)
<1>1. Video \subseteq Nat /\ at \in [Video -> Nat]
  BY FeedAssumption DEF TypeOK
<1>2. \A v \in Video : v \in Nat /\ at[v] \in Nat
  BY <1>1
<1> HIDE <1>1
<1>3. \A v, w \in Video : v = w \/ Newer(v, w) \/ Newer(w, v)
  BY <1>2 DEF Newer
<1>4. \A v, w \in Video : ~ (Newer(v, w) /\ Newer(w, v))
  BY <1>2 DEF Newer
<1>5. \A v, w, x \in Video : Newer(v, w) /\ Newer(w, x) => Newer(v, x)
  BY <1>2 DEF Newer
<1> QED BY <1>3, <1>4, <1>5

LEMMA Counts ==
  ASSUME NEW large \in SUBSET Video, NEW small \in SUBSET large
  PROVE  /\ Cardinality(small) \in Nat /\ Cardinality(large) \in Nat
         /\ Cardinality(small) <= Cardinality(large)
<1>1. IsFiniteSet(large) /\ IsFiniteSet(small)
  BY FeedAssumption, FS_Subset
<1> QED BY <1>1, FS_Subset, FS_CardinalityType

\* A row stays, with the time it has.
LEMMA RowsStay ==
  ASSUME TypeOK, [Next]_vars
  PROVE  rows \subseteq rows' /\ mode' = mode /\ \A v \in rows : at'[v] = at[v]
<1>1. ASSUME NEW w \in Video, Create(w) PROVE \A v \in rows : at'[v] = at[v]
  BY <1>1 DEF TypeOK, Create
<1> QED
  BY <1>1 DEF Next, vars, readVars, Tick, Create, Commit, CreateFails, PublishAdd, PublishTrim,
       PublishFails, WarmupQuery, WarmupAdd, WarmupFails, RedisLost, Fetch

LEMMA OrderStays ==
  ASSUME TypeOK, [Next]_vars
  PROVE  \A v, w \in rows : Newer(v, w)' <=> Newer(v, w)
BY RowsStay DEF Newer

\* While the set grows, what had its place taken has it taken still.
LEMMA GrowthKeeps ==
  ASSUME TypeOK, TypeOK', [Next]_vars, zset \subseteq zset', NewestAreListed, NEW v \in owed
  PROVE  v \in zset' \/ Cardinality(NewerIn(zset, v)') >= Cap
<1>1. SUFFICES ASSUME Cardinality(NewerIn(zset, v)) >= Cap
               PROVE  Cardinality(NewerIn(zset, v)') >= Cap
  BY DEF NewestAreListed
<1>2. v \in rows /\ zset \subseteq rows
  BY DEF TypeOK
<1>3. NewerIn(zset, v) \subseteq NewerIn(zset, v)'
  BY <1>2, OrderStays DEF NewerIn
<1>4. NewerIn(zset, v)' \subseteq Video
  BY DEF TypeOK, NewerIn
<1>5. /\ Cardinality(NewerIn(zset, v)) \in Nat
      /\ Cardinality(NewerIn(zset, v)') \in Nat
      /\ Cardinality(NewerIn(zset, v)) <= Cardinality(NewerIn(zset, v)')
  BY <1>3, <1>4, Counts
<1> QED BY <1>1, <1>5, FeedAssumption

LEMMA TrimKeeps ==
  ASSUME TypeOK, TypeOK', NewestAreListed, NEW u \in Video, PublishTrim(u), NEW v \in owed
  PROVE  v \in zset' \/ Cardinality(NewerIn(zset, v)') >= Cap
<1> DEFINE kept == zset'
           newer == {w \in kept : Newer(w, v)}
<1>1. kept \subseteq zset /\ IsTop(kept, zset, Cap) /\ at' = at
  BY DEF PublishTrim
<1>2. v \in Video /\ zset \subseteq Video /\ NewerIn(zset, v)' = newer
  BY <1>1 DEF TypeOK, NewerIn, Newer
<1>3. CASE kept = zset
  BY <1>2, <1>3 DEF NewestAreListed, NewerIn
<1>4. CASE Cardinality(kept) = Cap
  <2>1. CASE \A t \in kept : Newer(t, v)
    <3>1. newer = kept
      BY <2>1
    <3> QED BY <1>2, <1>4, <3>1, FeedAssumption
  <2>2. ASSUME NEW t \in kept, ~ Newer(t, v), v \notin kept
        PROVE  Cardinality(newer) >= Cap
    <3>1. t \in Video /\ \A w \in zset \ kept : Newer(t, w)
      BY <1>1, <1>2 DEF IsTop
    <3>2. v \notin zset
      BY <2>2, <3>1
    <3>3. NewerIn(zset, v) \subseteq newer
      BY <1>2, <2>2, <3>1, Order DEF NewerIn
    <3>4. Cardinality(NewerIn(zset, v)) >= Cap
      BY <3>2 DEF NewestAreListed
    <3>5. newer \subseteq Video
      BY <1>1, <1>2
    <3>6. /\ Cardinality(NewerIn(zset, v)) <= Cardinality(newer)
          /\ Cardinality(NewerIn(zset, v)) \in Nat /\ Cardinality(newer) \in Nat
      BY <3>3, <3>5, Counts
    <3> HIDE DEF newer
    <3> QED BY <3>4, <3>6, FeedAssumption
  <2> QED BY <1>2, <2>1, <2>2
<1> QED BY <1>1, <1>3, <1>4 DEF IsTop

LEMMA WarmupKeeps ==
  ASSUME TypeOK, TypeOK', [Next]_vars, NewestAreListed, WarmupAdd, NEW v \in owed'
  PROVE  v \in zset' \/ Cardinality(NewerIn(zset, v)') >= Cap
<1>1. PICK read \in warm : \E top \in SUBSET read :
        /\ IsTop(top, read, Cap)
        /\ zset' = zset \cup top
        /\ owed' = owed \cup read
  BY DEF WarmupAdd
<1>2. PICK top \in SUBSET read :
        IsTop(top, read, Cap) /\ zset' = zset \cup top /\ owed' = owed \cup read
  BY <1>1
<1>3. at' = at /\ read \subseteq Video
  BY DEF WarmupAdd, TypeOK
<1>4. CASE v \in owed
  BY <1>2, <1>4, GrowthKeeps
<1>5. ASSUME v \in read, v \notin top PROVE Cardinality(NewerIn(zset, v)') >= Cap
  <2>1. Cardinality(top) = Cap /\ \A w \in top : Newer(w, v)
    BY <1>2, <1>5 DEF IsTop
  <2>2. top \subseteq NewerIn(zset, v)'
    BY <1>2, <1>3, <2>1 DEF NewerIn, Newer
  <2>3. NewerIn(zset, v)' \subseteq Video
    BY DEF TypeOK, NewerIn
  <2> QED BY <2>1, <2>2, <2>3, Counts, FeedAssumption
<1> QED BY <1>2, <1>4, <1>5

LEMMA NewestNext == TypeOK /\ TypeOK' /\ NewestAreListed /\ [Next]_vars => NewestAreListed'
<1> SUFFICES ASSUME TypeOK, TypeOK', NewestAreListed, [Next]_vars, NEW v \in owed'
             PROVE  v \in zset' \/ Cardinality(NewerIn(zset, v)') >= Cap
  BY DEF NewestAreListed
<1>1. CASE zset \subseteq zset' /\ owed' \subseteq owed \cup zset'
  BY <1>1, GrowthKeeps
<1>2. ASSUME NEW u \in Video, PublishTrim(u) PROVE v \in zset' \/ Cardinality(NewerIn(zset, v)') >= Cap
  BY <1>2, TrimKeeps DEF PublishTrim
<1>3. CASE WarmupAdd
  BY <1>3, WarmupKeeps
<1>4. CASE RedisLost
  BY <1>4 DEF RedisLost
<1> QED
  BY <1>1, <1>2, <1>3, <1>4 DEF Next, vars, Tick, Create, Commit, CreateFails, PublishAdd,
       PublishFails, WarmupQuery, WarmupFails, Fetch

\* NewestAreListed: whatever requests add and trim in whatever order, and
\* whatever warm-ups add meanwhile, what was published or warmed up is in the
\* set unless Cap newer ones are.
THEOREM TrimmingKeepsTheNewest == Spec => []NewestAreListed
<1>1. Init => NewestAreListed
  BY DEF Init, NewestAreListed
<1> QED BY <1>1, TypeInit, TypeNext, NewestNext, PTL DEF Spec

-----------------------------------------------------------------------------
(* What a reader was given: ReaderInv carries over from page to page. *)

\* A page ends in this microsecond.
Ends(r, time) ==
  \E i \in DOMAIN pages[r] : \E w \in pages[r][i] : IsOldest(w, pages[r][i]) /\ at[w] = time

\* Nothing that stayed is lost: it was given, is still to come, or shares a
\* microsecond with the end of a page.
NothingLost(r) ==
  /\ stayed[r] \subseteq Below(Start)
  /\ cursor[r] \in Video => \A v \in stayed[r] :
       v \in Given(r) \/ v \in Below(cursor[r]) \/ (mode = "push" /\ Ends(r, at[v]))
  /\ cursor[r] = End => \A v \in stayed[r] :
       v \in Given(r) \/ (mode = "push" /\ TurnedAt(r, at[v]))

\* What was given is not below the cursor, and goes down.
GoesDown(r) ==
  /\ cursor[r] = Start => pages[r] = <<>>
  /\ cursor[r] \in Video =>
       cursor[r] \in rows /\ \A v \in Given(r) : v = cursor[r] \/ Newer(v, cursor[r])
  /\ \A i, j \in DOMAIN pages[r] : i < j =>
       \A v \in pages[r][i], w \in pages[r][j] : Newer(v, w)

ReaderInv == \A r \in Reader : NothingLost(r) /\ GoesDown(r)

LEMMA GivenAreRows ==
  ASSUME TypeOK, NEW r \in Reader
  PROVE  /\ pages[r] \in Seq(SUBSET rows) /\ Given(r) \subseteq rows
         /\ \A i \in DOMAIN pages[r] : pages[r][i] \subseteq rows
<1>1. pages[r] \in Seq(SUBSET rows)
  BY DEF TypeOK
<1> HIDE DEF TypeOK
<1>2. \A i \in DOMAIN pages[r] : pages[r][i] \subseteq rows
  BY <1>1
<1> QED BY <1>1, <1>2 DEF Given

\* What a page leaves below the cursor it was read at is below the next one,
\* unless the set's scores do not tell them apart.
LEMMA BelowNext ==
  ASSUME TypeOK, NEW c \in Video \cup {Start}, NEW next \in Below(c), NEW v \in Below(c),
         Newer(next, v)
  PROVE  v \in Below(next) \/ (mode = "push" /\ at[v] = at[next])
<1>1. v \in Video /\ next \in Video /\ at[v] \in Nat /\ at[next] \in Nat
  BY BelowRows DEF TypeOK
<1>2. CASE mode = "pull"
  BY <1>2, BelowRows DEF Below, BelowKey
<1>3. CASE mode = "push"
  <2>1. v \in zset
    BY <1>3, Labels DEF Below, BelowScore
  <2>2. at[v] < at[next] \/ at[v] = at[next]
    BY <1>1 DEF Newer
  <2> QED BY <1>3, <2>1, <2>2, Labels DEF Below, BelowScore
<1> QED BY <1>2, <1>3 DEF TypeOK, Modes

LEMMA BelowIsOlder ==
  ASSUME TypeOK, NEW c \in Video, NEW v \in Below(c) PROVE Newer(c, v)
<1>1. v \in Video /\ c # Start
  BY BelowRows, FeedAssumption DEF TypeOK
<1> QED BY <1>1 DEF Below, BelowKey, BelowScore, Newer

\* Everything else leaves a reader where it is: what it was given stays, and
\* what stayed, stays in the feed.
LEMMA OthersKeep ==
  ASSUME TypeOK, TypeOK', [Next]_vars, ReaderInv, NEW r \in Reader,
         cursor'[r] = cursor[r], pages'[r] = pages[r], stayed'[r] \subseteq stayed[r],
         stayed'[r] \subseteq Below(Start)'
  PROVE  NothingLost(r)' /\ GoesDown(r)'
<1>1. /\ rows \subseteq rows' /\ mode' = mode
      /\ \A v \in rows : at'[v] = at[v]
      /\ \A v, w \in rows : Newer(v, w)' <=> Newer(v, w)
  BY RowsStay, OrderStays
<1>2. /\ Given(r)' = Given(r) /\ Given(r) \subseteq rows
      /\ \A i \in DOMAIN pages[r] : pages[r][i] \subseteq rows
  BY GivenAreRows DEF Given
<1>3. stayed'[r] \subseteq rows
  BY DEF TypeOK
<1>4. \A i \in DOMAIN pages[r] : \A w \in pages[r][i] :
        IsOldest(w, pages[r][i])' <=> IsOldest(w, pages[r][i])
  BY <1>1, <1>2 DEF IsOldest
<1>5. GoesDown(r)'
  BY <1>1, <1>2 DEF ReaderInv, GoesDown
<1>6. ASSUME NEW v \in stayed'[r], cursor[r] \in Video, v \in Below(cursor[r])
      PROVE  v \in Below(cursor[r])'
  <2>1. cursor[r] \in rows /\ v \in rows /\ cursor[r] # Start
    BY <1>3, <1>6, FeedAssumption DEF ReaderInv, GoesDown
  <2>2. CASE mode = "pull"
    BY <1>1, <1>6, <2>1, <2>2 DEF Below, BelowKey
  <2>3. CASE mode # "pull"
    BY <1>1, <1>6, <2>1, <2>3 DEF Below, BelowScore
  <2> QED BY <2>2, <2>3
<1>7. ASSUME NEW v \in stayed'[r]
      PROVE  /\ Ends(r, at[v]) => Ends(r, at[v])'
             /\ TurnedAt(r, at[v]) => TurnedAt(r, at[v])'
  <2>1. at'[v] = at[v]
    BY <1>1, <1>3
  <2>2. ASSUME NEW i \in DOMAIN pages[r], NEW w \in pages[r][i],
               IsOldest(w, pages[r][i]), at[w] = at[v]
        PROVE  i \in DOMAIN pages'[r] /\ w \in pages'[r][i]
               /\ IsOldest(w, pages[r][i])' /\ at'[w] = at'[v]
    BY <1>1, <1>2, <1>4, <2>1, <2>2
  <2> QED BY <2>2 DEF Ends, TurnedAt
<1>8. NothingLost(r)'
  BY <1>1, <1>2, <1>6, <1>7 DEF ReaderInv, NothingLost
<1> QED BY <1>5, <1>8

\* Sequences as pages are appended to them.
LEMMA Appended ==
  ASSUME NEW S, NEW s \in Seq(S), NEW x \in S
  PROVE  /\ Len(s) \in Nat /\ DOMAIN s = 1 .. Len(s)
         /\ Len(Append(s, x)) = Len(s) + 1
         /\ DOMAIN Append(s, x) = 1 .. Len(s) + 1
         /\ \A i \in DOMAIN s : Append(s, x)[i] = s[i]
         /\ Append(s, x)[Len(s) + 1] = x
OBVIOUS

LEMMA FetchKeeps ==
  ASSUME TypeOK, TypeOK', ReaderInv, NEW r \in Reader, NEW limit \in 1 .. PageMax, Fetch(r, limit)
  PROVE  NothingLost(r)' /\ GoesDown(r)'
<1> DEFINE c == cursor[r]
           old == pages[r]
           new == pages'[r]
           top == Len(old) + 1
<1>1. /\ at' = at /\ mode' = mode /\ rows' = rows /\ zset' = zset
      /\ c \in Video \cup {Start}
  BY DEF Fetch, TypeOK
<1>2. PICK page \in SUBSET Below(c), next \in Video \cup {End} :
        /\ Give(r, page, next)
        /\ next = End => page = Below(c)
        /\ next # End =>
             /\ IsOldest(next, page)
             /\ \A v \in page, w \in Below(c) \ page : Newer(v, w)
  BY FetchEffect
<1>3. /\ new = Append(old, page)
      /\ cursor'[r] = next
      /\ stayed'[r] = IF c = Start THEN Below(Start) ELSE stayed[r]
  BY <1>2 DEF Give, TypeOK
<1>4. old \in Seq(SUBSET rows) /\ page \in SUBSET rows
  BY <1>2, GivenAreRows, BelowRows
<1>5. /\ Len(old) \in Nat /\ DOMAIN old = 1 .. Len(old)
      /\ Len(new) = top /\ DOMAIN new = 1 .. top
      /\ \A i \in DOMAIN old : new[i] = old[i]
      /\ new[top] = page
  BY <1>3, <1>4, Appended
<1>6. /\ \A i \in DOMAIN new : i \in DOMAIN old \/ i = top
      /\ \A i \in DOMAIN old : i \in DOMAIN new /\ i < top /\ i < Len(new)
      /\ top \in DOMAIN new
  BY <1>5
<1>7. Given(r)' = Given(r) \cup page
  BY <1>5, <1>6 DEF Given
<1>8. next \in Video => next \in page /\ next \in Below(c) /\ next # End
  BY <1>2, FeedAssumption DEF IsOldest
<1>9. \A x : Below(x)' = Below(x)
  BY <1>1 DEF Below, BelowKey, BelowScore, Newer
<1>10. rows \subseteq Video
  BY DEF TypeOK
<1>11. \A v \in Given(r), w \in page : Newer(v, w)
  <2> SUFFICES ASSUME NEW v \in Given(r), NEW w \in page PROVE Newer(v, w)
    OBVIOUS
  <2>1. c \in Video
    BY <1>1 DEF ReaderInv, GoesDown, Given
  <2>2. Newer(c, w)
    BY <1>2, <2>1, BelowIsOlder
  <2>3. v = c \/ Newer(v, c)
    BY <2>1 DEF ReaderInv, GoesDown
  <2>4. v \in Video /\ w \in Video
    BY <1>4, <1>10, GivenAreRows
  <2> QED BY <2>1, <2>2, <2>3, <2>4, Order
<1>12. \A v, w : Newer(v, w)' <=> Newer(v, w)
  BY <1>1 DEF Newer
<1>13. GoesDown(r)'
  <2>1. next # Start
    BY FeedAssumption
  <2>2. next \in Video =>
          next \in rows /\ \A v \in Given(r)' : v = next \/ Newer(v, next)
    BY <1>2, <1>4, <1>7, <1>8, <1>11 DEF IsOldest
  <2>3. ASSUME NEW i \in DOMAIN new, NEW j \in DOMAIN new, i < j, NEW v \in new[i], NEW w \in new[j]
        PROVE  Newer(v, w)
    <3>1. i \in DOMAIN old /\ v \in old[i] /\ v \in Given(r)
      BY <1>5, <2>3 DEF Given
    <3>2. CASE j \in DOMAIN old
      BY <1>5, <2>3, <3>1, <3>2 DEF ReaderInv, GoesDown
    <3>3. CASE j = top
      BY <1>5, <1>11, <3>1, <3>3
    <3> QED BY <1>6, <3>2, <3>3
  <2> HIDE DEF new
  <2>4. \A i, j \in DOMAIN new : i < j => \A v \in new[i], w \in new[j] : Newer(v, w)
    BY <2>3
  <2> QED BY <1>1, <1>3, <1>12, <2>1, <2>2, <2>4 DEF GoesDown, new
<1>14. ASSUME NEW v \in stayed'[r]
       PROVE  v \in Given(r) \/ v \in Below(c) \/ (mode = "push" /\ Ends(r, at[v]))
  BY <1>1, <1>3 DEF ReaderInv, NothingLost
<1>15. \A w, set : IsOldest(w, set)' <=> IsOldest(w, set)
  BY <1>12 DEF IsOldest
<1>16. ASSUME NEW v \in stayed'[r], Ends(r, at[v])
       PROVE  Ends(r, at[v])' /\ TurnedAt(r, at[v])'
  <2>1. PICK i \in DOMAIN old : \E w \in old[i] : IsOldest(w, old[i]) /\ at[w] = at[v]
    BY <1>16 DEF Ends
  <2>2. i \in DOMAIN new /\ i < Len(new) /\ new[i] = old[i]
    BY <1>5, <1>6, <2>1
  <2>3. PICK w \in old[i] : IsOldest(w, old[i]) /\ at[w] = at[v]
    BY <2>1
  <2>4. w \in pages'[r][i] /\ IsOldest(w, pages[r][i])' /\ at'[w] = at'[v]
    BY <1>1, <2>2, <2>3 DEF IsOldest, Newer
  <2>5. i \in DOMAIN pages'[r] /\ i < Len(pages'[r])
    BY <2>2
  <2> HIDE DEF old, new
  <2> QED BY <2>4, <2>5 DEF Ends, TurnedAt
<1>17. ASSUME NEW v \in stayed'[r], next \in Video
       PROVE  v \in Given(r)' \/ v \in Below(next)' \/ (mode' = "push" /\ Ends(r, at[v])')
  <2>1. CASE v \in Given(r) \/ v \in page
    BY <1>7, <2>1
  <2>2. CASE mode = "push" /\ Ends(r, at[v])
    BY <1>1, <1>16, <2>2
  <2>3. CASE v \in Below(c) \ page
    <3>1. Newer(next, v)
      BY <1>2, <1>8, <1>17, <2>3
    <3>2. v \in Below(next) \/ (mode = "push" /\ at[v] = at[next])
      BY <1>1, <1>8, <1>17, <2>3, <3>1, BelowNext
    <3>3. mode = "push" /\ at[v] = at[next] => Ends(r, at[v])'
      BY <1>1, <1>2, <1>5, <1>6, <1>8, <1>15, <1>17 DEF Ends
    <3> QED BY <1>1, <1>9, <3>2, <3>3
  <2> QED BY <1>14, <2>1, <2>2, <2>3
<1>18. ASSUME NEW v \in stayed'[r], next = End
       PROVE  v \in Given(r)' \/ (mode' = "push" /\ TurnedAt(r, at[v])')
  BY <1>1, <1>2, <1>7, <1>14, <1>16, <1>18
<1>19. stayed'[r] \subseteq Below(Start)'
  BY <1>3, <1>9 DEF ReaderInv, NothingLost
<1>20. NothingLost(r)'
  BY <1>3, <1>17, <1>18, <1>19 DEF NothingLost
<1> QED BY <1>13, <1>20

LEMMA ReaderNext == TypeOK /\ TypeOK' /\ ReaderInv /\ [Next]_vars => ReaderInv'
<1> SUFFICES ASSUME TypeOK, TypeOK', ReaderInv, [Next]_vars, NEW r \in Reader
             PROVE  NothingLost(r)' /\ GoesDown(r)'
  BY DEF ReaderInv
<1>1. stayed[r] \subseteq Below(Start) /\ stayed[r] \subseteq rows
  BY DEF ReaderInv, NothingLost, TypeOK
<1>2. CASE UNCHANGED readVars /\ zset \subseteq zset'
  <2>1. stayed'[r] = stayed[r] /\ cursor'[r] = cursor[r] /\ pages'[r] = pages[r]
    BY <1>2 DEF readVars
  <2>2. stayed[r] \subseteq Below(Start)'
    BY <1>1, <1>2, RowsStay DEF Below, BelowKey, BelowScore
  <2> QED BY <2>1, <2>2, OthersKeep
<1>3. ASSUME NEW set, StayOnly(set), zset' = set, UNCHANGED <<cursor, pages>>, mode = "push"
      PROVE  NothingLost(r)' /\ GoesDown(r)'
  <2>1. stayed'[r] = stayed[r] \cap zset'
    BY <1>3 DEF StayOnly
  <2>2. stayed'[r] \subseteq Below(Start)'
    BY <1>3, <2>1, RowsStay, Labels DEF Below, BelowScore
  <2> QED BY <1>3, <2>1, <2>2, OthersKeep
<1>4. ASSUME NEW v \in Video, PublishTrim(v) PROVE NothingLost(r)' /\ GoesDown(r)'
  <2>1. mode = "push"
    BY <1>4 DEF PublishTrim, TypeOK, Modes
  <2> QED BY <1>3, <1>4, <2>1 DEF PublishTrim
<1>5. CASE RedisLost
  BY <1>3, <1>5 DEF RedisLost
<1>6. ASSUME NEW s \in Reader, NEW limit \in 1 .. PageMax, Fetch(s, limit), s # r
      PROVE  NothingLost(r)' /\ GoesDown(r)'
  <2>1. PICK page, next : Give(s, page, next)
    BY <1>6, FetchEffect
  <2>2. stayed'[r] = stayed[r] /\ cursor'[r] = cursor[r] /\ pages'[r] = pages[r]
    BY <1>6, <2>1 DEF Give, TypeOK
  <2>3. stayed[r] \subseteq Below(Start)'
    BY <1>1, <1>6 DEF Fetch, Below, BelowKey, BelowScore
  <2> QED BY <2>2, <2>3, OthersKeep
<1>7. ASSUME NEW limit \in 1 .. PageMax, Fetch(r, limit) PROVE NothingLost(r)' /\ GoesDown(r)'
  BY <1>7, FetchKeeps
<1> QED
  BY <1>2, <1>4, <1>5, <1>6, <1>7 DEF Next, vars, Tick, Create, Commit, CreateFails, PublishAdd,
       PublishFails, WarmupQuery, WarmupAdd, WarmupFails

\* PagesAreTheFeed: while videos are created, trimmed, warmed up and lost,
\* paging to the end gives every video that stayed in the feed, in push mode
\* up to those of the microsecond at which a page turns, and goes down.
THEOREM PagingIsSound == Spec => []PagesAreTheFeed
<1>1. Init => ReaderInv
  <2> SUFFICES ASSUME Init, NEW r \in Reader PROVE NothingLost(r) /\ GoesDown(r)
    BY DEF ReaderInv
  <2>1. cursor[r] = Start /\ pages[r] = <<>> /\ stayed[r] = {}
    BY DEF Init
  <2> QED BY <2>1, FeedAssumption DEF NothingLost, GoesDown
<1>2. ReaderInv => PagesAreTheFeed
  BY DEF ReaderInv, NothingLost, GoesDown, PagesAreTheFeed, PagesMissNothing, PagesDescend
<1> QED BY <1>1, <1>2, TypeInit, TypeNext, ReaderNext, PTL DEF Spec
=============================================================================
