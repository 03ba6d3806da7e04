-------------------------------- MODULE Catalog --------------------------------
(***************************************************************************)
(* Videos and their products: the services of internal/video and           *)
(* internal/product, each behind a JSON cache, with concurrent requests.   *)
(* UniqueName is the Bloom filter before products.video_id: a Name is a    *)
(* video, and taken has the videos with a product, which goes by the name  *)
(* of its video here.                                                      *)
(*                                                                         *)
(* Rows are never changed, so an entry of a cache is the row or rubbish.   *)
(* What creating a video does to the feed is in Feed.                      *)
(***************************************************************************)
EXTENDS UniqueName

CONSTANTS
  User,      \* the users with a valid access token
  Request,   \* the calls
  None,      \* nobody, and no video
  MaxFaults  \* bound: failed calls, crashes, bad entries, losses of Redis

ASSUME CatalogAssumption ==
  /\ None \notin User
  /\ None \notin Request
  /\ None \notin Name
  /\ MaxFaults \in Nat

VARIABLES
  serving,   \* whether an API process has come up
  owner,     \* videos.user_id of the videos that have a row
  cached,    \* the keys in Redis: a space and a video
  rubbish,   \* those of them whose value cannot be decoded
  pc,        \* where each request is, and how it was answered
  kind,      \* what it asks for
  vid, user, \* of which video, and as whom
  seller,    \* history: the request that inserted the product of a video
  told,      \* history: what requests were told that they had created
  toldAt,    \* history: that, when each request began
  faults     \* how many faults have happened

cacheVars == <<cached, rubbish>>
callVars  == <<kind, vid, user, toldAt>>
vars == <<nameVars, serving, owner, cacheVars, pc, callVars, seller, told, faults>>

\* A Kind that reads is the space of its cache.
Reads  == {"video", "product", "byVideo"}
Spaces == Reads \cup {"duration"}
Kinds  == Reads \cup {"sell", "post"}

\* What is written ahead of the next read, in this order, before the answer.
PrewarmSpace == [pwVideo |-> "video", pwDuration |-> "duration", pwProduct |-> "product", pwByVideo |-> "byVideo"]
PrewarmNext  == [pwVideo |-> "pwDuration", pwDuration |-> "created", pwProduct |-> "pwByVideo", pwByVideo |-> "created"]

Running == {"posting", "looking", "finding", "filling", "checking", "inserting", "recordingNew", "recordingDup"}
             \cup DOMAIN PrewarmNext
Final   == {"invalid", "found", "notFound", "forbidden", "conflict", "created", "failed", "dead"}

HasRow(space, v) == IF space = "video" THEN owner[v] # None ELSE v \in taken

TypeOK ==
  /\ UniqueTypeOK
  /\ serving \in BOOLEAN
  /\ owner \in [Name -> User \cup {None}]
  /\ \A e \in cached : e \in Spaces \X Name /\ HasRow(IF e[1] = "duration" THEN "video" ELSE e[1], e[2])
  /\ rubbish \subseteq cached
  /\ pc \in [Request -> {"idle"} \cup Running \cup Final]
  /\ kind \in [Request -> Kinds \cup {None}]
  /\ vid \in [Request -> Name \cup {None}]
  /\ user \in [Request -> User \cup {None}]
  /\ seller \in [Name -> Request \cup {None}]
  /\ told \subseteq Reads \X Name
  /\ toldAt \in [Request -> SUBSET told]
  /\ faults \in 0 .. MaxFaults

Init ==
  /\ UniqueInit
  /\ serving = FALSE
  /\ owner \in [Name -> User \cup {None}]
  /\ \A v \in taken : owner[v] # None
  /\ cached = {}
  /\ rubbish = {}
  /\ pc = [r \in Request |-> "idle"]
  /\ kind = [r \in Request |-> None]
  /\ vid = [r \in Request |-> None]
  /\ user = [r \in Request |-> None]
  /\ seller = [v \in Name |-> None]
  /\ told = {}
  /\ toldAt = [r \in Request |-> {}]
  /\ faults = 0

Fault == faults < MaxFaults /\ faults' = faults + 1

At(r, label) == pc[r] = label

Goto(r, label) == pc' = [pc EXCEPT ![r] = label] /\ UNCHANGED callVars

Begin(r, k, v, u, label) ==
  /\ serving
  /\ At(r, "idle")
  /\ pc' = [pc EXCEPT ![r] = label]
  /\ kind' = [kind EXCEPT ![r] = k]
  /\ vid' = [vid EXCEPT ![r] = v]
  /\ user' = [user EXCEPT ![r] = u]
  /\ toldAt' = [toldAt EXCEPT ![r] = told]

\* The new rows of r are told of.
Tell(r, label) ==
  told' = IF label # "created" THEN told
          ELSE told \cup (IF kind[r] = "post" THEN {"video"} ELSE {"product", "byVideo"}) \X {vid[r]}

-----------------------------------------------------------------------------
(* The JSON cache. *)

SetEntry(e) == cached' = cached \cup {e} /\ rubbish' = rubbish \ {e}

DropEntry(e) == cached' = cached \ {e} /\ rubbish' = rubbish \ {e}

Space(r) == IF kind[r] = "sell" THEN "video" ELSE kind[r]

Entry(r) == <<Space(r), vid[r]>>

\* What a read leads to: the answer, or for a new product AssertOwner.
Found(r) ==
  IF kind[r] # "sell" THEN "found"
  ELSE IF owner[vid[r]] = user[r] THEN "checking" ELSE "forbidden"

LookHit(r) ==
  /\ At(r, "looking")
  /\ Entry(r) \in cached \ rubbish
  /\ Goto(r, Found(r))
  /\ UNCHANGED <<nameVars, serving, owner, cacheVars, seller, told, faults>>

\* Rubbish is deleted, at best, and counts as a miss.
LookMiss(r) ==
  /\ At(r, "looking")
  /\ Entry(r) \notin cached \ rubbish
  /\ \/ DropEntry(Entry(r)) /\ UNCHANGED faults
     \/ Entry(r) \in rubbish /\ Fault /\ UNCHANGED cacheVars
  /\ Goto(r, "finding")
  /\ UNCHANGED <<nameVars, serving, owner, seller, told>>

\* Mutant: a cache that does not answer is an answer.
LookFailsNotFound(r) ==
  /\ At(r, "looking")
  /\ Fault
  /\ Goto(r, "notFound")
  /\ UNCHANGED <<nameVars, serving, owner, cacheVars, seller, told>>

LookFails(r) ==
  /\ At(r, "looking")
  /\ Fault
  /\ Goto(r, "finding")
  /\ UNCHANGED <<nameVars, serving, owner, cacheVars, seller, told>>

Find(r) ==
  /\ At(r, "finding")
  /\ \/ Goto(r, IF HasRow(Space(r), vid[r]) THEN "filling" ELSE "notFound") /\ UNCHANGED faults
     \/ Goto(r, "failed") /\ Fault
  /\ UNCHANGED <<nameVars, serving, owner, cacheVars, seller, told>>

\* Whether it is written or not, the read goes on.
Fill(r) ==
  /\ At(r, "filling")
  /\ \/ SetEntry(Entry(r)) /\ UNCHANGED faults
     \/ Fault /\ UNCHANGED cacheVars
  /\ Goto(r, Found(r))
  /\ UNCHANGED <<nameVars, serving, owner, seller, told>>

\* The entries that Create of either service writes before it returns.
Prewarm(r) ==
  /\ pc[r] \in DOMAIN PrewarmNext
  /\ \/ SetEntry(<<PrewarmSpace[pc[r]], vid[r]>>) /\ UNCHANGED faults
     \/ Fault /\ UNCHANGED cacheVars
  /\ Goto(r, PrewarmNext[pc[r]])
  /\ Tell(r, PrewarmNext[pc[r]])
  /\ UNCHANGED <<nameVars, serving, owner, seller>>

-----------------------------------------------------------------------------
(* The requests. *)

Read(r, k, v) ==
  /\ k \in Reads
  /\ Begin(r, k, v, None, "looking")
  /\ UNCHANGED <<nameVars, serving, owner, cacheVars, seller, told, faults>>

\* POST /videos and POST /products, whose input may not be valid.
Post(r, v, u) ==
  /\ \/ owner[v] = None /\ Begin(r, "post", v, u, "posting")
     \/ Begin(r, "sell", v, u, "looking")
     \/ \E k \in {"post", "sell"} : Begin(r, k, v, u, "invalid")
  /\ UNCHANGED <<nameVars, serving, owner, cacheVars, seller, told, faults>>

\* Mutant: the video of a failed INSERT is cached and answered.
InsertVideoUnchecked(r) ==
  /\ At(r, "posting")
  /\ owner[vid[r]] = None
  /\ \/ owner' = [owner EXCEPT ![vid[r]] = user[r]] /\ UNCHANGED faults
     \/ owner' \in {owner, [owner EXCEPT ![vid[r]] = user[r]]} /\ Fault
  /\ Goto(r, "pwVideo")
  /\ UNCHANGED <<nameVars, serving, cacheVars, seller, told>>

\* The id of a row is new.  When the call fails it may be there.
InsertVideo(r) ==
  /\ At(r, "posting")
  /\ owner[vid[r]] = None
  /\ \/ owner' = [owner EXCEPT ![vid[r]] = user[r]] /\ Goto(r, "pwVideo") /\ UNCHANGED faults
     \/ owner' \in {owner, [owner EXCEPT ![vid[r]] = user[r]]} /\ Goto(r, "failed") /\ Fault
  /\ UNCHANGED <<nameVars, serving, cacheVars, seller, told>>

Check(r) ==
  /\ At(r, "checking")
  /\ \/ MayContain(vid[r]) /\ Goto(r, "conflict") /\ UNCHANGED faults
     \/ ~MayContain(vid[r]) /\ Goto(r, "inserting") /\ UNCHANGED faults
     \/ Goto(r, "inserting") /\ Fault
  /\ UNCHANGED <<nameVars, serving, owner, cacheVars, seller, told>>

InsertProduct(r) ==
  /\ At(r, "inserting")
  /\ \/ Insert(vid[r]) /\ seller' = [seller EXCEPT ![vid[r]] = r] /\ Goto(r, "recordingNew")
     \/ Refused(vid[r]) /\ Goto(r, "recordingDup") /\ UNCHANGED seller
  /\ UNCHANGED <<filterVars, missing, serving, owner, cacheVars, told, faults>>

InsertFails(r) ==
  /\ At(r, "inserting")
  /\ Fault
  /\ \/ UNCHANGED <<taken, missing, seller>>
     \/ /\ Insert(vid[r])
        /\ seller' = [seller EXCEPT ![vid[r]] = r]
        /\ missing' = missing \cup {vid[r]}
  /\ Goto(r, "failed")
  /\ UNCHANGED <<filterVars, serving, owner, cacheVars, told>>

\* Mutant: a product that was refused is cached and answered like a new one.
RecordedAlways(r) == "pwProduct"

Recorded(r) == IF At(r, "recordingNew") THEN "pwProduct" ELSE "conflict"

Record(r) ==
  /\ pc[r] \in {"recordingNew", "recordingDup"}
  /\ \/ Add(vid[r]) /\ UNCHANGED <<missing, faults>>
     \/ missing' = missing \cup {vid[r]} /\ Fault /\ UNCHANGED filter
  /\ Goto(r, Recorded(r))
  /\ UNCHANGED <<taken, warming, rest, fresh, serving, owner, cacheVars, seller, told>>

Serve(r) ==
  \/ \E v \in Name : \E k \in Reads : Read(r, k, v)
  \/ \E v \in Name, u \in User : Post(r, v, u)
  \/ LookHit(r) \/ LookMiss(r) \/ LookFails(r) \/ Find(r) \/ Fill(r) \/ Prewarm(r)
  \/ InsertVideo(r)
  \/ Check(r) \/ InsertProduct(r) \/ InsertFails(r) \/ Record(r)

-----------------------------------------------------------------------------
(* Time, crashes, and processes that start. *)

Expire ==
  /\ \E e \in cached : DropEntry(e)
  /\ UNCHANGED <<nameVars, serving, owner, pc, callVars, seller, told, faults>>

\* Another version of the code wrote the entry.
Spoil ==
  /\ Fault
  /\ \E e \in cached : rubbish' = rubbish \cup {e}
  /\ UNCHANGED <<nameVars, serving, owner, cached, pc, callVars, seller, told>>

Crash(r) ==
  /\ pc[r] \in Running
  /\ Fault
  /\ missing' = missing \cup (IF At(r, "recordingNew") THEN {vid[r]} ELSE {})
  /\ Goto(r, "dead")
  /\ UNCHANGED <<taken, filterVars, serving, owner, cacheVars, seller, told>>

RedisLost ==
  /\ Fault
  /\ FilterLost
  /\ cached' = {}
  /\ rubbish' = {}
  /\ UNCHANGED <<serving, owner, pc, callVars, seller, told>>

StartUp ==
  /\ \/ (WarmUp \/ WarmBatch) /\ UNCHANGED <<serving, faults>>
     \/ Warmed /\ serving' = TRUE /\ UNCHANGED faults
     \/ WarmFails /\ Fault /\ UNCHANGED serving
  /\ UNCHANGED <<owner, cacheVars, pc, callVars, seller, told>>

Next ==
  \/ \E r \in Request : Serve(r) \/ Crash(r)
  \/ Expire \/ Spoil \/ RedisLost \/ StartUp

Spec == Init /\ [][Next]_vars

-----------------------------------------------------------------------------
(* Properties. *)

\* Once somebody was told that a video or a product is created, no later
\* request is told that there is none, though caches fail, expire, hold
\* rubbish or are lost.
CreatedStaysFound ==
  \A r \in Request : At(r, "notFound") => <<Space(r), vid[r]>> \notin toldAt[r]

\* A new product is of a video of the caller, however late its owner is read
\* from the cache; 201 is told only to the request that made the product, and
\* 409 only of a video whose bits are all bits of videos with products.
ProductsAreJust ==
  /\ \A v \in Name : seller[v] # None => owner[v] = user[seller[v]]
  /\ \A r \in Request : kind[r] = "sell" =>
       /\ At(r, "created") => seller[vid[r]] = r
       /\ At(r, "conflict") => Bits[vid[r]] \subseteq BitsOf(taken)
=============================================================================
