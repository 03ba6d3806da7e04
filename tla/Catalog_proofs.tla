----------------------------- MODULE Catalog_proofs -----------------------------
(***************************************************************************)
(* Proofs about Catalog, for any number of videos, users, requests and     *)
(* faults and any Bloom filter: what was told to be created is found by    *)
(* every later request, and a product is only ever made, answered and      *)
(* refused as it should be.                                                *)
(*                                                                         *)
(* Rows are never changed, and all of the argument rests on it: what a     *)
(* request has read once, in Postgres or in a cache, is still so when it   *)
(* acts on it.  Fits says, label by label, what it has read.               *)
(***************************************************************************)
EXTENDS Catalog, TLAPS

Reading == {"looking", "finding", "filling"}
Posting == {"posting", "pwVideo", "pwDuration"}
Sold    == {"recordingNew", "pwProduct", "pwByVideo"}
Selling == Sold \cup {"checking", "inserting", "recordingDup", "conflict"}

\* What request r knows when it is at label.
Fits(r, label) ==
  /\ label # "idle" => kind[r] \in Kinds /\ vid[r] \in Name
  /\ label # "idle" /\ kind[r] \in {"sell", "post"} => user[r] \in User
  /\ label \in Reading => kind[r] # "post"
  /\ label \in Posting => kind[r] = "post"
  /\ label \in Selling => kind[r] = "sell"
  /\ label = "filling" => HasRow(Space(r), vid[r])
  /\ label \in {"pwVideo", "pwDuration"} => owner[vid[r]] # None
  /\ label \in {"checking", "inserting"} => owner[vid[r]] = user[r]
  /\ label \in Sold \/ (label = "created" /\ kind[r] = "sell") => seller[vid[r]] = r
  /\ label = "recordingDup" => vid[r] \in taken
  /\ label = "conflict" => Bits[vid[r]] \subseteq BitsOf(taken)

CallsFit == \A r \in Request : Fits(r, pc[r])

SellersAreOwners ==
  \A v \in Name : seller[v] # None =>
    /\ v \in taken
    /\ pc[seller[v]] # "idle"
    /\ kind[seller[v]] = "sell"
    /\ owner[v] = user[seller[v]]

ToldHaveRows == \A e \in told : HasRow(e[1], e[2])

\* The inductive invariant.
IInv == TypeOK /\ FilterFromRows /\ CallsFit /\ SellersAreOwners /\ ToldHaveRows /\ CreatedStaysFound

-----------------------------------------------------------------------------
(* The parts of TypeOK, and the labels. *)

RowOf(space) == IF space = "duration" THEN "video" ELSE space

EntryOK(e) == e \in Spaces \X Name /\ HasRow(RowOf(e[1]), e[2])

CacheOK == (\A e \in cached : EntryOK(e)) /\ rubbish \subseteq cached

RowsType ==
  /\ owner \in [Name -> User \cup {None}]
  /\ seller \in [Name -> Request \cup {None}]

CallsType ==
  /\ pc \in [Request -> {"idle"} \cup Running \cup Final]
  /\ kind \in [Request -> Kinds \cup {None}]
  /\ vid \in [Request -> Name \cup {None}]
  /\ user \in [Request -> User \cup {None}]

ToldType == told \subseteq Reads \X Name /\ toldAt \in [Request -> SUBSET told]

LEMMA TypeParts ==
  TypeOK <=> /\ UniqueTypeOK /\ RowsType /\ CacheOK /\ CallsType /\ ToldType
             /\ serving \in BOOLEAN /\ faults \in 0 .. MaxFaults
BY DEF TypeOK, RowsType, CacheOK, EntryOK, RowOf, CallsType, ToldType

LEMMA LabelsApart ==
  /\ DOMAIN PrewarmNext = {"pwVideo", "pwDuration", "pwProduct", "pwByVideo"}
  /\ Running = {"posting", "looking", "finding", "filling", "checking", "inserting",
                "recordingNew", "recordingDup", "pwVideo", "pwDuration", "pwProduct", "pwByVideo"}
  /\ Final = {"invalid", "found", "notFound", "forbidden", "conflict", "created", "failed", "dead"}
  /\ Reads = {"video", "product", "byVideo"}
  /\ Spaces = {"video", "product", "byVideo", "duration"}
  /\ Kinds = {"video", "product", "byVideo", "sell", "post"}
BY DEF PrewarmNext, Running, Final, Reads, Spaces, Kinds

LEMMA PrewarmSteps ==
  /\ PrewarmNext["pwVideo"] = "pwDuration" /\ PrewarmSpace["pwVideo"] = "video"
  /\ PrewarmNext["pwDuration"] = "created" /\ PrewarmSpace["pwDuration"] = "duration"
  /\ PrewarmNext["pwProduct"] = "pwByVideo" /\ PrewarmSpace["pwProduct"] = "product"
  /\ PrewarmNext["pwByVideo"] = "created" /\ PrewarmSpace["pwByVideo"] = "byVideo"
BY DEF PrewarmNext, PrewarmSpace

-----------------------------------------------------------------------------
(* The names: the table of products, its filter and its warm-up. *)

LEMMA BitsGrow ==
  ASSUME NEW large, NEW small \in SUBSET large PROVE BitsOf(small) \subseteq BitsOf(large)
BY DEF BitsOf

LEMMA BitsOfOne ==
  ASSUME NEW names, NEW n \in names PROVE Bits[n] \subseteq BitsOf(names)
BY DEF BitsOf

NamesStep ==
  \/ UNCHANGED nameVars
  \/ \E n \in Name : Insert(n) /\ UNCHANGED filterVars /\ missing' \in {missing, missing \cup {n}}
  \/ \E n \in taken : Add(n) /\ UNCHANGED <<taken, warming, rest, fresh, missing>>
  \/ \E n \in taken : missing' = missing \cup {n} /\ UNCHANGED <<taken, filterVars>>
  \/ WarmUp \/ WarmBatch \/ Warmed \/ WarmFails \/ FilterLost

LEMMA NamesKept ==
  ASSUME UniqueTypeOK, FilterFromRows, NamesStep
  PROVE  UniqueTypeOK' /\ FilterFromRows' /\ taken \subseteq taken'
<1>1. CASE UNCHANGED nameVars
  BY <1>1 DEF UniqueTypeOK, FilterFromRows, nameVars, BitsOf
<1>2. ASSUME NEW n \in Name, Insert(n), UNCHANGED filterVars, missing' \in {missing, missing \cup {n}}
      PROVE  UniqueTypeOK' /\ FilterFromRows' /\ taken \subseteq taken'
  <2>1. taken \subseteq taken'
    BY <1>2 DEF Insert
  <2>2. BitsOf(taken) \subseteq BitsOf(taken')
    BY <2>1, BitsGrow
  <2>3. FilterFromRows'
    BY <1>2, <2>2 DEF FilterFromRows, filterVars, BitsOf
  <2> QED
    BY <1>2, <2>1, <2>3 DEF UniqueTypeOK, Insert, filterVars, BitsOf
<1>3. ASSUME NEW n \in taken, Add(n), UNCHANGED <<taken, warming, rest, fresh, missing>>
      PROVE  UniqueTypeOK' /\ FilterFromRows' /\ taken \subseteq taken'
  <2>1. Bits[n] \subseteq BitsOf(taken) /\ Bits[n] \subseteq BitsOf(Name)
    BY BitsOfOne DEF UniqueTypeOK
  <2> QED
    BY <1>3, <2>1 DEF UniqueTypeOK, FilterFromRows, Add, BitsOf
<1>4. ASSUME NEW n \in taken, missing' = missing \cup {n}, UNCHANGED <<taken, filterVars>>
      PROVE  UniqueTypeOK' /\ FilterFromRows' /\ taken \subseteq taken'
  BY <1>4 DEF UniqueTypeOK, FilterFromRows, filterVars, BitsOf
<1>5. CASE WarmUp
  BY <1>5 DEF UniqueTypeOK, FilterFromRows, WarmUp, BitsOf
<1>6. CASE WarmBatch
  <2>1. PICK names \in SUBSET rest : AddBatch(names) /\ rest' = rest \ names
    BY <1>6 DEF WarmBatch
  <2>2. BitsOf(names) \subseteq BitsOf(Name) /\ BitsOf(names) \subseteq BitsOf(taken)
    BY <2>1, BitsGrow DEF UniqueTypeOK
  <2> QED
    BY <1>6, <2>1, <2>2 DEF UniqueTypeOK, FilterFromRows, WarmBatch, AddBatch, BitsOf
<1>7. CASE Warmed
  BY <1>7 DEF UniqueTypeOK, FilterFromRows, Warmed, BitsOf
<1>8. CASE WarmFails
  BY <1>8 DEF UniqueTypeOK, FilterFromRows, WarmFails, BitsOf
<1>9. CASE FilterLost
  BY <1>9 DEF UniqueTypeOK, FilterFromRows, FilterLost, BitsOf
<1> QED
  BY <1>1, <1>2, <1>3, <1>4, <1>5, <1>6, <1>7, <1>8, <1>9 DEF NamesStep

\* A call in Selling or Posting is of a video, and one that records is of one
\* that has a product.
LEMMA CallsKnow ==
  ASSUME IInv, NEW r \in Request
  PROVE  /\ pc[r] # "idle" => vid[r] \in Name
         /\ pc[r] \in Sold \cup {"recordingDup"} => vid[r] \in taken
<1>1. Fits(r, pc[r])
  BY DEF IInv, CallsFit
<1>2. pc[r] # "idle" => vid[r] \in Name
  BY <1>1 DEF Fits
<1>3. CASE pc[r] \in Sold
  <2>1. seller[vid[r]] = r /\ vid[r] \in Name
    BY <1>1, <1>2, <1>3 DEF Fits, Sold
  <2> QED
    BY <1>2, <1>3, <2>1, CatalogAssumption DEF IInv, SellersAreOwners, Sold
<1>4. CASE pc[r] = "recordingDup"
  BY <1>1, <1>2, <1>4 DEF Fits
<1> QED
  BY <1>2, <1>3, <1>4

LEMMA NamesNext ==
  ASSUME IInv, [Next]_vars PROVE NamesStep /\ (UNCHANGED faults \/ Fault)
<1>1. ASSUME NEW r \in Request, NEW k, NEW v, Read(r, k, v)
      PROVE  NamesStep /\ (UNCHANGED faults \/ Fault)
  BY <1>1 DEF Read, NamesStep
<1>2. ASSUME NEW r \in Request, NEW v, NEW u, Post(r, v, u)
      PROVE  NamesStep /\ (UNCHANGED faults \/ Fault)
  BY <1>2 DEF Post, NamesStep
<1>3. ASSUME NEW r \in Request,
             \/ LookHit(r) \/ LookMiss(r) \/ LookFails(r) \/ Find(r) \/ Fill(r)
             \/ Prewarm(r) \/ InsertVideo(r) \/ Check(r)
      PROVE  NamesStep /\ (UNCHANGED faults \/ Fault)
  BY <1>3 DEF LookHit, LookMiss, LookFails, Find, Fill, Prewarm, InsertVideo, Check, NamesStep
<1>4. ASSUME NEW r \in Request, InsertProduct(r)
      PROVE  NamesStep /\ (UNCHANGED faults \/ Fault)
  <2>1. vid[r] \in Name
    BY <1>4, CallsKnow DEF InsertProduct, At
  <2>2. CASE Insert(vid[r])
    BY <1>4, <2>1, <2>2 DEF InsertProduct, NamesStep
  <2>3. CASE Refused(vid[r])
    BY <1>4, <2>3 DEF InsertProduct, Refused, NamesStep, nameVars, filterVars
  <2> QED
    BY <1>4, <2>2, <2>3 DEF InsertProduct
<1>5. ASSUME NEW r \in Request, InsertFails(r)
      PROVE  NamesStep /\ (UNCHANGED faults \/ Fault)
  <2>1. vid[r] \in Name
    BY <1>5, CallsKnow DEF InsertFails, At
  <2>2. CASE UNCHANGED <<taken, missing, seller>>
    BY <1>5, <2>2 DEF InsertFails, NamesStep, nameVars, filterVars
  <2>3. CASE Insert(vid[r]) /\ missing' = missing \cup {vid[r]}
    BY <1>5, <2>1, <2>3 DEF InsertFails, NamesStep
  <2> QED
    BY <1>5, <2>2, <2>3 DEF InsertFails
<1>6. ASSUME NEW r \in Request, Record(r)
      PROVE  NamesStep /\ (UNCHANGED faults \/ Fault)
  <2>1. vid[r] \in taken
    BY <1>6, CallsKnow DEF Record, Sold
  <2>2. CASE Add(vid[r]) /\ UNCHANGED <<missing, faults>>
    BY <1>6, <2>1, <2>2 DEF Record, NamesStep
  <2>3. CASE missing' = missing \cup {vid[r]} /\ Fault /\ UNCHANGED filter
    BY <1>6, <2>1, <2>3 DEF Record, NamesStep, filterVars
  <2> QED
    BY <1>6, <2>2, <2>3 DEF Record
<1>7. ASSUME NEW r \in Request, Crash(r)
      PROVE  NamesStep /\ (UNCHANGED faults \/ Fault)
  <2>1. CASE pc[r] = "recordingNew"
    <3>1. vid[r] \in taken
      BY <2>1, CallsKnow DEF Sold
    <3> QED
      BY <1>7, <2>1, <3>1 DEF Crash, At, NamesStep
  <2>2. CASE pc[r] # "recordingNew"
    <3>1. missing' = missing
      BY <1>7, <2>2 DEF Crash, At
    <3> QED
      BY <1>7, <3>1 DEF Crash, NamesStep, nameVars, filterVars
  <2> QED
    BY <2>1, <2>2
<1>8. CASE Expire \/ Spoil \/ RedisLost \/ StartUp \/ UNCHANGED vars
  BY <1>8 DEF Expire, Spoil, RedisLost, StartUp, vars, NamesStep
<1> QED
  BY <1>1, <1>2, <1>3, <1>4, <1>5, <1>6, <1>7, <1>8 DEF Next, Serve

-----------------------------------------------------------------------------
(* The rows: they are made once and never changed. *)

RowsStay ==
  /\ taken \subseteq taken'
  /\ \A v \in Name : owner[v] # None => owner'[v] = owner[v]
  /\ \A v \in Name : seller[v] # None => seller'[v] = seller[v]

\* The statements of a request that make rows.
OwnerStep ==
  \/ UNCHANGED owner
  \/ \E r \in Request :
       /\ pc[r] = "posting" /\ owner[vid[r]] = None
       /\ owner' = [owner EXCEPT ![vid[r]] = user[r]]

SellerStep ==
  \/ UNCHANGED seller
  \/ \E r \in Request :
       /\ pc[r] = "inserting" /\ Insert(vid[r])
       /\ seller' = [seller EXCEPT ![vid[r]] = r]

LEMMA RowsNext ==
  ASSUME IInv, [Next]_vars PROVE OwnerStep /\ SellerStep
<1>1. ASSUME NEW r \in Request, InsertVideo(r) PROVE OwnerStep /\ SellerStep
  BY <1>1 DEF InsertVideo, At, OwnerStep, SellerStep
<1>2. ASSUME NEW r \in Request, InsertProduct(r) \/ InsertFails(r) PROVE OwnerStep /\ SellerStep
  BY <1>2 DEF InsertProduct, InsertFails, At, OwnerStep, SellerStep
<1>3. CASE UNCHANGED <<owner, seller>>
  BY <1>3 DEF OwnerStep, SellerStep
<1>4. ASSUME NEW r \in Request, NEW v, NEW u, Post(r, v, u) \/ \E k \in Reads : Read(r, k, v)
      PROVE  UNCHANGED <<owner, seller>>
  BY <1>4 DEF Post, Read
<1>5. ASSUME NEW r \in Request,
             \/ LookHit(r) \/ LookMiss(r) \/ LookFails(r) \/ Find(r) \/ Fill(r)
             \/ Prewarm(r) \/ Check(r) \/ Record(r) \/ Crash(r)
      PROVE  UNCHANGED <<owner, seller>>
  BY <1>5 DEF LookHit, LookMiss, LookFails, Find, Fill, Prewarm, Check, Record, Crash
<1>6. CASE Expire \/ Spoil \/ RedisLost \/ StartUp \/ UNCHANGED vars
  BY <1>3, <1>6 DEF Expire, Spoil, RedisLost, StartUp, vars
<1> QED
  BY <1>1, <1>2, <1>3, <1>4, <1>5, <1>6 DEF Next, Serve

LEMMA RowsKept ==
  ASSUME IInv, [Next]_vars PROVE RowsType' /\ RowsStay
<1>1. RowsType /\ taken \subseteq taken' /\ CallsFit
  BY TypeParts, NamesNext, NamesKept DEF IInv
<1>2. owner' \in [Name -> User \cup {None}] /\ \A v \in Name : owner[v] # None => owner'[v] = owner[v]
  <2>1. ASSUME NEW r \in Request, pc[r] = "posting", owner[vid[r]] = None,
               owner' = [owner EXCEPT ![vid[r]] = user[r]]
        PROVE  /\ owner' \in [Name -> User \cup {None}]
               /\ \A v \in Name : owner[v] # None => owner'[v] = owner[v]
    <3>1. user[r] \in User
      BY <1>1, <2>1 DEF CallsFit, Fits, Posting
    <3> QED
      BY <1>1, <2>1, <3>1 DEF RowsType
  <2> QED
    BY <1>1, <2>1, RowsNext DEF OwnerStep, RowsType
<1>3. seller' \in [Name -> Request \cup {None}] /\ \A v \in Name : seller[v] # None => seller'[v] = seller[v]
  <2>1. ASSUME NEW r \in Request, Insert(vid[r]), seller' = [seller EXCEPT ![vid[r]] = r]
        PROVE  /\ seller' \in [Name -> Request \cup {None}]
               /\ \A v \in Name : seller[v] # None => seller'[v] = seller[v]
    <3>1. vid[r] \in Name => seller[vid[r]] = None
      BY <2>1 DEF IInv, SellersAreOwners, Insert
    <3> QED
      BY <1>1, <2>1, <3>1 DEF RowsType
  <2> QED
    BY <1>1, <2>1, RowsNext DEF SellerStep, RowsType
<1> QED
  BY <1>1, <1>2, <1>3 DEF RowsType, RowsStay

LEMMA HasRowStays ==
  ASSUME RowsStay, NEW space, NEW v \in Name, HasRow(space, v) PROVE HasRow(space, v)'
BY DEF RowsStay, HasRow

\* What a request knows stays so while it stays at its label.
LEMMA FitsStays ==
  ASSUME IInv, RowsStay, NEW r \in Request, NEW label, Fits(r, label),
         kind'[r] = kind[r], vid'[r] = vid[r], user'[r] = user[r]
  PROVE  Fits(r, label)'
<1>1. Space(r)' = Space(r)
  BY DEF Space
<1>2. label = "filling" => HasRow(Space(r), vid[r])'
  <2>1. ASSUME label = "filling" PROVE vid[r] \in Name /\ HasRow(Space(r), vid[r])
    BY <2>1 DEF Fits
  <2>2. ASSUME NEW v \in Name, HasRow(Space(r), v) PROVE Space(r) = "video" => owner'[v] # None
    BY <2>2 DEF RowsStay, HasRow
  <2>3. ASSUME NEW v \in Name, HasRow(Space(r), v) PROVE Space(r) # "video" => v \in taken'
    BY <2>3 DEF RowsStay, HasRow
  <2> QED
    BY <1>1, <2>1, <2>2, <2>3 DEF HasRow
<1>3. label = "conflict" => Bits[vid[r]] \subseteq BitsOf(taken')
  <2>1. BitsOf(taken) \subseteq BitsOf(taken')
    BY BitsGrow DEF RowsStay
  <2> QED
    BY <2>1 DEF Fits
<1>4. label \in {"checking", "inserting"} => owner'[vid[r]] = user[r]
  <2>1. label \in {"checking", "inserting"} =>
          vid[r] \in Name /\ owner[vid[r]] = user[r] /\ user[r] \in User
    BY DEF Fits, Selling
  <2> QED
    BY <2>1, CatalogAssumption DEF RowsStay
<1>5. label \in {"pwVideo", "pwDuration"} => owner'[vid[r]] # None
  BY DEF Fits, RowsStay
<1>6. label \in Sold \/ (label = "created" /\ kind[r] = "sell") => seller'[vid[r]] = r
  <2>1. label \in Sold \/ (label = "created" /\ kind[r] = "sell") =>
          vid[r] \in Name /\ seller[vid[r]] = r
    BY DEF Fits, Sold
  <2> QED
    BY <2>1, CatalogAssumption DEF RowsStay
<1>7. label = "recordingDup" => vid[r] \in taken'
  BY DEF Fits, RowsStay
<1> QED
  BY <1>2, <1>3, <1>4, <1>5, <1>6, <1>7 DEF Fits, BitsOf

-----------------------------------------------------------------------------
(* The requests, which move from label to label. *)

\* Those that stay where they are fit.
LEMMA StayFits ==
  ASSUME IInv, RowsStay, UNCHANGED <<pc, kind, vid, user>> PROVE CallsType' /\ CallsFit'
<1>1. CallsType'
  BY TypeParts DEF IInv, CallsType
<1>2. ASSUME NEW q \in Request PROVE Fits(q, pc[q])'
  <2>1. PICK l : l = pc[q]
    OBVIOUS
  <2>2. Fits(q, l)'
    BY <2>1, FitsStays DEF IInv, CallsFit
  <2> QED
    BY <2>1, <2>2
<1> QED
  BY <1>1, <1>2 DEF CallsFit

LEMMA GotoFits ==
  ASSUME IInv, RowsStay, NEW r \in Request, NEW label \in Running \cup Final,
         Goto(r, label), Fits(r, label)'
  PROVE  CallsType' /\ CallsFit'
<1>1. CallsType /\ CallsFit
  BY TypeParts DEF IInv
<1>2. /\ kind' = kind /\ vid' = vid /\ user' = user
      /\ pc' = [pc EXCEPT ![r] = label]
  BY DEF Goto, callVars
<1>3. CallsType'
  BY <1>1, <1>2 DEF CallsType
<1>4. pc'[r] = label /\ \A q \in Request \ {r} : pc'[q] = pc[q]
  BY <1>1, <1>2 DEF CallsType
<1>5. ASSUME NEW q \in Request PROVE Fits(q, pc[q])'
  <2>1. CASE q = r
    BY <1>4, <2>1
  <2>2. CASE q # r
    <3>1. Fits(q, pc[q])
      BY <1>1 DEF CallsFit
    <3>2. PICK l : l = pc[q]
      OBVIOUS
    <3>3. Fits(q, l)'
      BY <1>2, <3>1, <3>2, FitsStays
    <3> QED
      BY <1>4, <2>2, <3>2, <3>3
  <2> QED
    BY <2>1, <2>2
<1> QED
  BY <1>3, <1>5 DEF CallsFit

LEMMA BeginFits ==
  ASSUME IInv, RowsStay, NEW r \in Request, NEW k \in Kinds, NEW v \in Name,
         NEW u \in User \cup {None}, NEW label \in {"looking", "posting", "invalid"},
         Begin(r, k, v, u, label),
         k \in {"sell", "post"} => u \in User,
         label = "looking" => k # "post",
         label = "posting" => k = "post"
  PROVE  CallsType' /\ CallsFit'
<1>1. CallsType /\ CallsFit
  BY TypeParts DEF IInv
<1>2. /\ pc' = [pc EXCEPT ![r] = label]
      /\ kind' = [kind EXCEPT ![r] = k]
      /\ vid' = [vid EXCEPT ![r] = v]
      /\ user' = [user EXCEPT ![r] = u]
  BY DEF Begin
<1>3. CallsType'
  BY <1>1, <1>2, LabelsApart DEF CallsType
<1>4. /\ pc'[r] = label /\ kind'[r] = k /\ vid'[r] = v /\ user'[r] = u
      /\ \A q \in Request \ {r} :
           pc'[q] = pc[q] /\ kind'[q] = kind[q] /\ vid'[q] = vid[q] /\ user'[q] = user[q]
  BY <1>1, <1>2 DEF CallsType
<1>5. ASSUME NEW q \in Request PROVE Fits(q, pc[q])'
  <2>1. CASE q = r
    BY <1>4, <2>1 DEF Fits, Reading, Posting, Selling, Sold
  <2>2. CASE q # r
    <3>1. Fits(q, pc[q])
      BY <1>1 DEF CallsFit
    <3>2. PICK l : l = pc[q]
      OBVIOUS
    <3>3. Fits(q, l)'
      BY <1>4, <2>2, <3>1, <3>2, FitsStays
    <3> QED
      BY <1>4, <2>2, <3>2, <3>3
  <2> QED
    BY <2>1, <2>2
<1> QED
  BY <1>3, <1>5 DEF CallsFit

\* A label that asks for nothing more than the one before.
LEMMA PlainFits ==
  ASSUME NEW r \in Request, NEW label,
         label \in {"finding", "found", "notFound", "forbidden", "failed", "dead", "inserting"},
         Fits(r, pc[r]), pc[r] # "idle",
         label = "finding" => pc[r] = "looking",
         label = "inserting" => pc[r] = "checking"
  PROVE  Fits(r, label)
BY DEF Fits, Reading, Posting, Selling, Sold

\* Where a read of a row that is there leads.
LEMMA FoundFits ==
  ASSUME NEW r \in Request, pc[r] \in Reading, Fits(r, pc[r])
  PROVE  Found(r) \in Running \cup Final /\ Fits(r, Found(r))
<1>1. kind[r] # "sell" => Found(r) = "found"
  BY DEF Found
<1>2. kind[r] = "sell" /\ owner[vid[r]] = user[r] => Found(r) = "checking"
  BY DEF Found
<1>3. kind[r] = "sell" /\ owner[vid[r]] # user[r] => Found(r) = "forbidden"
  BY DEF Found
<1>4. /\ "found" \in Running \cup Final /\ "checking" \in Running \cup Final
      /\ "forbidden" \in Running \cup Final
  BY LabelsApart
<1>5. pc[r] # "idle"
  BY DEF Reading
<1>6. CASE kind[r] # "sell"
  <2>1. Fits(r, "found")
    BY <1>5, PlainFits
  <2> QED
    BY <1>1, <1>4, <1>6, <2>1
<1>7. CASE kind[r] = "sell" /\ owner[vid[r]] # user[r]
  <2>1. Fits(r, "forbidden")
    BY <1>5, PlainFits
  <2> QED
    BY <1>3, <1>4, <1>7, <2>1
<1>8. CASE kind[r] = "sell" /\ owner[vid[r]] = user[r]
  <2>1. Fits(r, "checking")
    BY <1>5, <1>8 DEF Fits, Reading, Posting, Selling, Sold
  <2> QED
    BY <1>2, <1>4, <1>8, <2>1
<1> QED
  BY <1>6, <1>7, <1>8

\* A step of a request that makes no row.
LEMMA QuietFits ==
  ASSUME IInv, RowsStay, NEW r \in Request, NEW label \in Running \cup Final,
         Goto(r, label), Fits(r, label)
  PROVE  CallsType' /\ CallsFit'
<1>1. kind'[r] = kind[r] /\ vid'[r] = vid[r] /\ user'[r] = user[r]
  BY DEF Goto, callVars
<1> QED
  BY <1>1, FitsStays, GotoFits

LEMMA CallsNext ==
  ASSUME IInv, [Next]_vars PROVE CallsType' /\ CallsFit'
<1>1. RowsStay
  BY RowsKept
<1>2. ASSUME NEW r \in Request, NEW v \in Name, NEW k \in Reads, Read(r, k, v)
      PROVE  CallsType' /\ CallsFit'
  <2>1. Begin(r, k, v, None, "looking") /\ k \in Kinds /\ k \notin {"sell", "post"}
    BY <1>2, LabelsApart DEF Read
  <2> QED
    BY <1>1, <2>1, BeginFits
<1>3. ASSUME NEW r \in Request, NEW v \in Name, NEW u \in User, Post(r, v, u)
      PROVE  CallsType' /\ CallsFit'
  <2>1. \/ Begin(r, "post", v, u, "posting") \/ Begin(r, "sell", v, u, "looking")
        \/ Begin(r, "post", v, u, "invalid") \/ Begin(r, "sell", v, u, "invalid")
    BY <1>3 DEF Post
  <2>2. "post" \in Kinds /\ "sell" \in Kinds
    BY LabelsApart
  <2> QED
    BY <1>1, <2>1, <2>2, BeginFits
<1>4. ASSUME NEW r \in Request PROVE Fits(r, pc[r])
  BY DEF IInv, CallsFit
<1>5. ASSUME NEW r \in Request, NEW label \in {"finding", "notFound", "failed", "dead", "inserting"},
             Goto(r, label), pc[r] # "idle",
             label = "finding" => pc[r] = "looking",
             label = "inserting" => pc[r] = "checking"
      PROVE  CallsType' /\ CallsFit'
  <2>1. Fits(r, label) /\ label \in Running \cup Final
    BY <1>4, <1>5, PlainFits, LabelsApart
  <2> QED
    BY <1>1, <1>5, <2>1, QuietFits
<1>6. ASSUME NEW r \in Request, LookHit(r) \/ Fill(r) PROVE CallsType' /\ CallsFit'
  <2>1. pc[r] \in Reading /\ Goto(r, Found(r))
    BY <1>6 DEF LookHit, Fill, At, Reading
  <2>2. PICK label : label = Found(r)
    OBVIOUS
  <2>3. label \in Running \cup Final /\ Fits(r, label) /\ Goto(r, label)
    BY <1>4, <2>1, <2>2, FoundFits
  <2> QED
    BY <1>1, <2>3, QuietFits
<1>7. ASSUME NEW r \in Request, LookMiss(r) \/ LookFails(r) PROVE CallsType' /\ CallsFit'
  <2>1. pc[r] = "looking" /\ Goto(r, "finding")
    BY <1>7 DEF LookMiss, LookFails, At
  <2> QED
    BY <1>5, <2>1
<1>8. ASSUME NEW r \in Request, Find(r) PROVE CallsType' /\ CallsFit'
  <2>1. CASE HasRow(Space(r), vid[r]) /\ Goto(r, "filling")
    <3>1. Fits(r, "filling") /\ "filling" \in Running \cup Final
      BY <1>4, <1>8, <2>1, LabelsApart DEF Find, At, Fits, Reading, Posting, Selling, Sold
    <3> QED
      BY <1>1, <2>1, <3>1, QuietFits
  <2>2. CASE Goto(r, "notFound") \/ Goto(r, "failed")
    BY <1>5, <1>8, <2>2 DEF Find, At
  <2> QED
    BY <1>8, <2>1, <2>2 DEF Find
<1>9. ASSUME NEW r \in Request, Prewarm(r) PROVE CallsType' /\ CallsFit'
  <2>1. PICK from \in {"pwVideo", "pwDuration", "pwProduct", "pwByVideo"} : pc[r] = from
    BY <1>9, LabelsApart DEF Prewarm
  <2>2. PICK label : label = PrewarmNext[from] /\ Goto(r, label)
    BY <1>9, <2>1 DEF Prewarm
  <2>3. label \in Running \cup Final
    BY <2>1, <2>2, PrewarmSteps, LabelsApart
  <2>4. Fits(r, label)
    <3>1. CASE from = "pwVideo"
      BY <1>4, <2>1, <2>2, <3>1, PrewarmSteps DEF Fits, Reading, Posting, Selling, Sold
    <3>2. CASE from = "pwDuration"
      BY <1>4, <2>1, <2>2, <3>2, PrewarmSteps DEF Fits, Reading, Posting, Selling, Sold
    <3>3. CASE from = "pwProduct"
      BY <1>4, <2>1, <2>2, <3>3, PrewarmSteps DEF Fits, Reading, Posting, Selling, Sold
    <3>4. CASE from = "pwByVideo"
      BY <1>4, <2>1, <2>2, <3>4, PrewarmSteps DEF Fits, Reading, Posting, Selling, Sold
    <3> QED
      BY <2>1, <3>1, <3>2, <3>3, <3>4
  <2> QED
    BY <1>1, <2>2, <2>3, <2>4, QuietFits
<1>10. ASSUME NEW r \in Request, InsertVideo(r) PROVE CallsType' /\ CallsFit'
  <2>1. pc[r] = "posting" /\ vid[r] \in Name /\ kind[r] = "post" /\ user[r] \in User
    BY <1>4, <1>10 DEF InsertVideo, At, Fits, Posting
  <2>2. CASE owner' = [owner EXCEPT ![vid[r]] = user[r]] /\ Goto(r, "pwVideo")
    <3>1. owner'[vid[r]] # None
      BY <2>1, <2>2, TypeParts, CatalogAssumption DEF IInv, RowsType
    <3>2. kind' = kind /\ vid' = vid /\ user' = user
      BY <2>2 DEF Goto, callVars
    <3>3. Fits(r, "pwVideo")' /\ "pwVideo" \in Running \cup Final
      BY <2>1, <3>1, <3>2, LabelsApart DEF Fits, Reading, Posting, Selling, Sold
    <3> QED
      BY <1>1, <2>2, <3>3, GotoFits
  <2>3. CASE Goto(r, "failed")
    BY <1>5, <2>1, <2>3
  <2> QED
    BY <1>10, <2>2, <2>3 DEF InsertVideo
<1>11. ASSUME NEW r \in Request, Check(r) PROVE CallsType' /\ CallsFit'
  <2>1. pc[r] = "checking"
    BY <1>11 DEF Check, At
  <2>2. CASE MayContain(vid[r]) /\ Goto(r, "conflict")
    <3>1. Bits[vid[r]] \subseteq BitsOf(taken)
      BY <2>2 DEF MayContain, IInv, FilterFromRows
    <3>2. Fits(r, "conflict") /\ "conflict" \in Running \cup Final
      BY <1>4, <2>1, <3>1, LabelsApart DEF Fits, Reading, Posting, Selling, Sold
    <3> QED
      BY <1>1, <2>2, <3>2, QuietFits
  <2>3. CASE Goto(r, "inserting")
    BY <1>5, <2>1, <2>3
  <2> QED
    BY <1>11, <2>2, <2>3 DEF Check
<1>12. ASSUME NEW r \in Request, InsertProduct(r) PROVE CallsType' /\ CallsFit'
  <2>1. pc[r] = "inserting" /\ vid[r] \in Name /\ kind[r] = "sell" /\ user[r] \in User
    BY <1>4, <1>12 DEF InsertProduct, At, Fits, Selling
  <2>2. CASE seller' = [seller EXCEPT ![vid[r]] = r] /\ Goto(r, "recordingNew")
    <3>1. seller'[vid[r]] = r
      BY <2>1, <2>2, TypeParts DEF IInv, RowsType
    <3>2. kind' = kind /\ vid' = vid /\ user' = user
      BY <2>2 DEF Goto, callVars
    <3>3. Fits(r, "recordingNew")' /\ "recordingNew" \in Running \cup Final
      BY <2>1, <3>1, <3>2, LabelsApart DEF Fits, Reading, Posting, Selling, Sold
    <3> QED
      BY <1>1, <2>2, <3>3, GotoFits
  <2>3. CASE Refused(vid[r]) /\ Goto(r, "recordingDup")
    <3>1. Fits(r, "recordingDup") /\ "recordingDup" \in Running \cup Final
      BY <1>4, <2>1, <2>3, LabelsApart DEF Refused, Fits, Reading, Posting, Selling, Sold
    <3> QED
      BY <1>1, <2>3, <3>1, QuietFits
  <2> QED
    BY <1>12, <2>2, <2>3 DEF InsertProduct
<1>13. ASSUME NEW r \in Request, Record(r) PROVE CallsType' /\ CallsFit'
  <2>1. CASE pc[r] = "recordingNew"
    <3>1. Goto(r, "pwProduct")
      BY <1>13, <2>1 DEF Record, Recorded, At
    <3>2. Fits(r, "pwProduct") /\ "pwProduct" \in Running \cup Final
      BY <1>4, <2>1, LabelsApart DEF Fits, Reading, Posting, Selling, Sold
    <3> QED
      BY <1>1, <3>1, <3>2, QuietFits
  <2>2. CASE pc[r] = "recordingDup"
    <3>1. Goto(r, "conflict")
      BY <1>13, <2>2 DEF Record, Recorded, At
    <3>2. Bits[vid[r]] \subseteq BitsOf(taken)
      BY <2>2, CallsKnow, BitsOfOne
    <3>3. Fits(r, "conflict") /\ "conflict" \in Running \cup Final
      BY <1>4, <2>2, <3>2, LabelsApart DEF Fits, Reading, Posting, Selling, Sold
    <3> QED
      BY <1>1, <3>1, <3>3, QuietFits
  <2> QED
    BY <1>13, <2>1, <2>2 DEF Record
<1>14. ASSUME NEW r \in Request, InsertFails(r) \/ Crash(r) PROVE CallsType' /\ CallsFit'
  <2>1. pc[r] # "idle" /\ (Goto(r, "failed") \/ Goto(r, "dead"))
    BY <1>14, LabelsApart DEF InsertFails, Crash, At
  <2> QED
    BY <1>5, <2>1
<1>15. CASE Expire \/ Spoil \/ RedisLost \/ StartUp \/ UNCHANGED vars
  BY <1>1, <1>15, StayFits DEF Expire, Spoil, RedisLost, StartUp, vars, callVars
<1> QED
  BY <1>2, <1>3, <1>6, <1>7, <1>8, <1>9, <1>10, <1>11, <1>12, <1>13, <1>14, <1>15 DEF Next, Serve

SameCall(r) ==
  kind'[r] = kind[r] /\ vid'[r] = vid[r] /\ user'[r] = user[r] /\ toldAt'[r] = toldAt[r]

\* Nobody moves back to idle, and what a request asks for is set once.
LEMMA CallsStay ==
  ASSUME IInv, [Next]_vars, NEW r \in Request, pc[r] # "idle"
  PROVE  pc'[r] # "idle" /\ SameCall(r)
<1>1. CallsType /\ ToldType
  BY TypeParts DEF IInv
<1>2. ASSUME NEW q \in Request, NEW label, label # "idle", Goto(q, label)
      PROVE  pc'[r] # "idle" /\ SameCall(r)
  BY <1>1, <1>2 DEF CallsType, ToldType, SameCall, Goto, callVars
<1>3. ASSUME NEW q \in Request, NEW k, NEW v, NEW u, NEW label, Begin(q, k, v, u, label)
      PROVE  pc'[r] # "idle" /\ SameCall(r)
  <2>1. q # r
    BY <1>3 DEF Begin, At
  <2> QED
    BY <1>1, <1>3, <2>1 DEF CallsType, ToldType, SameCall, Begin
<1>4. ASSUME NEW q \in Request, NEW v \in Name, NEW k \in Reads, Read(q, k, v)
      PROVE  pc'[r] # "idle" /\ SameCall(r)
  BY <1>3, <1>4 DEF Read
<1>5. ASSUME NEW q \in Request, NEW v \in Name, NEW u \in User, Post(q, v, u)
      PROVE  pc'[r] # "idle" /\ SameCall(r)
  BY <1>3, <1>5 DEF Post
<1>6. ASSUME NEW q \in Request, LookHit(q) \/ Fill(q)
      PROVE  pc'[r] # "idle" /\ SameCall(r)
  <2>1. Found(q) # "idle"
    BY DEF Found
  <2>2. Goto(q, Found(q))
    BY <1>6 DEF LookHit, Fill
  <2> QED
    BY <1>1, <2>1, <2>2 DEF CallsType, ToldType, SameCall, Goto, callVars
<1>7. ASSUME NEW q \in Request,
             LookMiss(q) \/ LookFails(q) \/ Find(q) \/ InsertVideo(q) \/ Check(q)
      PROVE  \E label \in {"finding", "filling", "notFound", "failed", "pwVideo", "conflict", "inserting"} :
               Goto(q, label)
  BY <1>7 DEF LookMiss, LookFails, Find, InsertVideo, Check
<1>8. ASSUME NEW q \in Request, InsertProduct(q) \/ InsertFails(q) \/ Record(q) \/ Crash(q)
      PROVE  \E label \in {"recordingNew", "recordingDup", "failed", "pwProduct", "conflict", "dead"} :
               Goto(q, label)
  BY <1>8 DEF InsertProduct, InsertFails, Record, Recorded, Crash
<1>9. ASSUME NEW q \in Request, Prewarm(q)
      PROVE  \E label \in {"pwDuration", "pwByVideo", "created"} : Goto(q, label)
  <2>1. PrewarmNext[pc[q]] \in {"pwDuration", "pwByVideo", "created"}
    BY <1>9, LabelsApart, PrewarmSteps DEF Prewarm
  <2> QED
    BY <1>9, <2>1 DEF Prewarm
<1>10. CASE UNCHANGED <<pc, callVars>>
  BY <1>10 DEF callVars, SameCall
<1>11. CASE Expire \/ Spoil \/ RedisLost \/ StartUp \/ UNCHANGED vars
  BY <1>10, <1>11 DEF Expire, Spoil, RedisLost, StartUp, vars
<1> QED
  BY <1>2, <1>4, <1>5, <1>6, <1>7, <1>8, <1>9, <1>11 DEF Next, Serve

LEMMA SellersNext ==
  ASSUME IInv, [Next]_vars PROVE SellersAreOwners'
<1>1. RowsType /\ CallsFit /\ RowsStay
  BY TypeParts, RowsKept DEF IInv
<1>2. ASSUME NEW v \in Name, seller'[v] # None, seller'[v] = seller[v]
      PROVE  /\ v \in taken' /\ pc'[seller'[v]] # "idle" /\ kind'[seller'[v]] = "sell"
             /\ owner'[v] = user'[seller'[v]]
  <2>1. seller[v] \in Request
    BY <1>1, <1>2 DEF RowsType
  <2>2. /\ v \in taken /\ pc[seller[v]] # "idle" /\ kind[seller[v]] = "sell"
        /\ owner[v] = user[seller[v]]
    BY <1>2 DEF IInv, SellersAreOwners
  <2>3. user[seller[v]] \in User
    BY <1>1, <2>1, <2>2 DEF CallsFit, Fits
  <2>4. v \in taken' /\ owner'[v] = owner[v]
    BY <1>1, <2>2, <2>3, CatalogAssumption DEF RowsStay
  <2> QED
    BY <1>2, <2>1, <2>2, <2>4, CallsStay DEF SameCall
<1>3. ASSUME NEW r \in Request, pc[r] = "inserting", Insert(vid[r]),
             seller' = [seller EXCEPT ![vid[r]] = r]
      PROVE  SellersAreOwners'
  <2>1. /\ vid[r] \in Name /\ kind[r] = "sell" /\ user[r] \in User
        /\ owner[vid[r]] = user[r]
    BY <1>1, <1>3 DEF CallsFit, Fits, Selling
  <2>2. pc'[r] # "idle" /\ kind'[r] = kind[r] /\ vid'[r] = vid[r] /\ user'[r] = user[r]
    BY <1>3, CallsStay DEF SameCall
  <2>3. owner'[vid[r]] = user[r] /\ vid[r] \in taken'
    BY <1>1, <1>3, <2>1, CatalogAssumption DEF RowsStay, Insert
  <2>4. seller'[vid[r]] = r /\ \A v \in Name \ {vid[r]} : seller'[v] = seller[v]
    BY <1>1, <1>3, <2>1 DEF RowsType
  <2>5. ASSUME NEW v \in Name, seller'[v] # None
        PROVE  /\ v \in taken' /\ pc'[seller'[v]] # "idle" /\ kind'[seller'[v]] = "sell"
               /\ owner'[v] = user'[seller'[v]]
    <3>1. CASE v = vid[r]
      BY <2>1, <2>2, <2>3, <2>4, <3>1
    <3>2. CASE v # vid[r]
      BY <1>2, <2>4, <2>5, <3>2
    <3> QED
      BY <3>1, <3>2
  <2> QED
    BY <2>5 DEF SellersAreOwners
<1>4. CASE UNCHANGED seller
  BY <1>2, <1>4 DEF SellersAreOwners
<1> QED
  BY <1>3, <1>4, RowsNext DEF SellerStep

-----------------------------------------------------------------------------
(* The caches, and what requests were told. *)

CacheStep ==
  \/ UNCHANGED cacheVars
  \/ \E e : EntryOK(e) /\ SetEntry(e)
  \/ \E e : DropEntry(e)
  \/ \E e \in cached : rubbish' = rubbish \cup {e} /\ UNCHANGED cached
  \/ cached' = {} /\ rubbish' = {}

LEMMA PrewarmedRows ==
  ASSUME IInv, NEW r \in Request, pc[r] \in DOMAIN PrewarmNext
  PROVE  EntryOK(<<PrewarmSpace[pc[r]], vid[r]>>)
<1>1. Fits(r, pc[r])
  BY DEF IInv, CallsFit
<1>2. PICK from \in {"pwVideo", "pwDuration", "pwProduct", "pwByVideo"} : pc[r] = from
  BY LabelsApart
<1>3. vid[r] \in Name
  BY <1>2, CallsKnow
<1>4. CASE from \in {"pwVideo", "pwDuration"}
  <2>1. owner[vid[r]] # None
    BY <1>1, <1>2, <1>4 DEF Fits
  <2>2. HasRow("video", vid[r])
    BY <2>1 DEF HasRow
  <2>3. PICK space \in {"video", "duration"} : space = PrewarmSpace[from]
    BY <1>4, PrewarmSteps
  <2>4. space \in Spaces /\ RowOf(space) = "video"
    BY LabelsApart DEF RowOf
  <2> QED
    BY <1>2, <1>3, <2>2, <2>3, <2>4 DEF EntryOK
<1>5. CASE from \in {"pwProduct", "pwByVideo"}
  <2>1. vid[r] \in taken
    BY <1>2, <1>5, CallsKnow DEF Sold
  <2>2. PICK space \in {"product", "byVideo"} : space = PrewarmSpace[from]
    BY <1>5, PrewarmSteps
  <2>3. HasRow(space, vid[r])
    BY <2>1 DEF HasRow
  <2>4. space \in Spaces /\ RowOf(space) = space
    BY LabelsApart DEF RowOf
  <2> QED
    BY <1>2, <1>3, <2>2, <2>3, <2>4 DEF EntryOK
<1> QED
  BY <1>2, <1>4, <1>5

LEMMA CacheNext ==
  ASSUME IInv, [Next]_vars PROVE CacheStep
<1>1. ASSUME NEW r \in Request, Fill(r) PROVE CacheStep
  <2>1. CASE SetEntry(Entry(r))
    <3>1. /\ pc[r] = "filling" /\ vid[r] \in Name /\ HasRow(Space(r), vid[r])
          /\ kind[r] \in Kinds /\ kind[r] # "post"
      BY <1>1 DEF Fill, At, IInv, CallsFit, Fits, Reading
    <3>2. Space(r) \in Spaces /\ Space(r) # "duration"
      BY <3>1, LabelsApart DEF Space
    <3>3. EntryOK(Entry(r))
      BY <3>1, <3>2 DEF EntryOK, Entry, RowOf
    <3> QED
      BY <2>1, <3>3 DEF CacheStep
  <2>2. CASE UNCHANGED cacheVars
    BY <2>2 DEF CacheStep
  <2> QED
    BY <1>1, <2>1, <2>2 DEF Fill
<1>2. ASSUME NEW r \in Request, Prewarm(r) PROVE CacheStep
  <2>1. CASE SetEntry(<<PrewarmSpace[pc[r]], vid[r]>>)
    <3>1. EntryOK(<<PrewarmSpace[pc[r]], vid[r]>>)
      BY <1>2, PrewarmedRows DEF Prewarm
    <3> QED
      BY <2>1, <3>1 DEF CacheStep
  <2>2. CASE UNCHANGED cacheVars
    BY <2>2 DEF CacheStep
  <2> QED
    BY <1>2, <2>1, <2>2 DEF Prewarm
<1>3. ASSUME NEW r \in Request, LookMiss(r) PROVE CacheStep
  BY <1>3 DEF LookMiss, CacheStep
<1>4. CASE Expire \/ Spoil \/ RedisLost
  BY <1>4 DEF Expire, Spoil, RedisLost, CacheStep
<1>5. ASSUME NEW r \in Request, NEW v, NEW u, Post(r, v, u) \/ \E k \in Reads : Read(r, k, v)
      PROVE  CacheStep
  BY <1>5 DEF Post, Read, CacheStep
<1>6. ASSUME NEW r \in Request,
             \/ LookHit(r) \/ LookFails(r) \/ Find(r) \/ InsertVideo(r) \/ Check(r)
             \/ InsertProduct(r) \/ InsertFails(r) \/ Record(r) \/ Crash(r)
      PROVE  CacheStep
  BY <1>6 DEF LookHit, LookFails, Find, InsertVideo, Check, InsertProduct, InsertFails, Record,
              Crash, CacheStep
<1>7. CASE StartUp \/ UNCHANGED vars
  BY <1>7 DEF StartUp, vars, cacheVars, CacheStep
<1> QED
  BY <1>1, <1>2, <1>3, <1>4, <1>5, <1>6, <1>7 DEF Next, Serve

LEMMA CacheKept ==
  ASSUME IInv, [Next]_vars PROVE CacheOK'
<1>1. CacheOK /\ RowsStay
  BY TypeParts, RowsKept DEF IInv
<1>2. ASSUME NEW e, EntryOK(e) PROVE EntryOK(e)'
  <2>1. e \in Spaces \X Name /\ HasRow(RowOf(e[1]), e[2])
    BY <1>2 DEF EntryOK
  <2>2. RowOf(e[1]) = "video" => owner'[e[2]] # None
    BY <1>1, <2>1 DEF HasRow, RowsStay
  <2>3. RowOf(e[1]) # "video" => e[2] \in taken'
    BY <1>1, <2>1 DEF HasRow, RowsStay
  <2> QED
    BY <2>1, <2>2, <2>3 DEF EntryOK, HasRow
<1>3. \A e \in cached' : e \in cached \/ EntryOK(e)
  BY CacheNext DEF CacheStep, cacheVars, SetEntry, DropEntry
<1>4. rubbish' \subseteq cached'
  BY <1>1, CacheNext DEF CacheOK, CacheStep, cacheVars, SetEntry, DropEntry
<1> QED
  BY <1>1, <1>2, <1>3, <1>4 DEF CacheOK

\* What is told grows by rows.
ToldStep ==
  \/ UNCHANGED told
  \/ \E spaces \in SUBSET Reads, v \in Name :
       /\ told' = told \cup (spaces \X {v})
       /\ \A space \in spaces : HasRow(space, v)

LEMMA ToldNext ==
  ASSUME IInv, [Next]_vars PROVE ToldStep
<1>1. ASSUME NEW r \in Request, Prewarm(r) PROVE ToldStep
  <2>1. Fits(r, pc[r]) /\ Tell(r, PrewarmNext[pc[r]])
    BY <1>1 DEF Prewarm, IInv, CallsFit
  <2>2. pc[r] \in {"pwVideo", "pwDuration", "pwProduct", "pwByVideo"} /\ vid[r] \in Name
    BY <1>1, LabelsApart, CallsKnow DEF Prewarm
  <2>3. CASE pc[r] \in {"pwVideo", "pwProduct"}
    <3>1. PrewarmNext[pc[r]] # "created"
      BY <2>3, PrewarmSteps
    <3> QED
      BY <2>1, <3>1 DEF Tell, ToldStep
  <2>4. CASE pc[r] = "pwDuration"
    <3>1. kind[r] = "post" /\ owner[vid[r]] # None
      BY <2>1, <2>4 DEF Fits, Posting
    <3>2. told' = told \cup ({"video"} \X {vid[r]})
      BY <2>1, <2>4, <3>1, PrewarmSteps DEF Tell
    <3>3. {"video"} \in SUBSET Reads /\ \A space \in {"video"} : HasRow(space, vid[r])
      BY <3>1, LabelsApart DEF HasRow
    <3> QED
      BY <2>2, <3>2, <3>3 DEF ToldStep
  <2>5. CASE pc[r] = "pwByVideo"
    <3>1. kind[r] = "sell" /\ vid[r] \in taken
      BY <2>1, <2>5, CallsKnow DEF Fits, Selling, Sold
    <3>2. told' = told \cup ({"product", "byVideo"} \X {vid[r]})
      BY <2>1, <2>5, <3>1, PrewarmSteps DEF Tell
    <3>3. /\ {"product", "byVideo"} \in SUBSET Reads
          /\ \A space \in {"product", "byVideo"} : HasRow(space, vid[r])
      BY <3>1, LabelsApart DEF HasRow
    <3> QED
      BY <2>2, <3>2, <3>3 DEF ToldStep
  <2> QED
    BY <2>2, <2>3, <2>4, <2>5
<1>2. ASSUME NEW r \in Request, NEW v, NEW u, Post(r, v, u) \/ \E k \in Reads : Read(r, k, v)
      PROVE  UNCHANGED told
  BY <1>2 DEF Post, Read
<1>3. ASSUME NEW r \in Request,
             \/ LookHit(r) \/ LookMiss(r) \/ LookFails(r) \/ Find(r) \/ Fill(r) \/ InsertVideo(r)
             \/ Check(r) \/ InsertProduct(r) \/ InsertFails(r) \/ Record(r) \/ Crash(r)
      PROVE  UNCHANGED told
  BY <1>3 DEF LookHit, LookMiss, LookFails, Find, Fill, InsertVideo, Check, InsertProduct,
              InsertFails, Record, Crash
<1>4. CASE Expire \/ Spoil \/ RedisLost \/ StartUp \/ UNCHANGED vars
  BY <1>4 DEF Expire, Spoil, RedisLost, StartUp, vars, ToldStep
<1>5. CASE UNCHANGED told
  BY <1>5 DEF ToldStep
<1> QED
  BY <1>1, <1>2, <1>3, <1>4, <1>5 DEF Next, Serve

LEMMA ToldKept ==
  ASSUME IInv, [Next]_vars PROVE told \subseteq told' /\ told' \subseteq Reads \X Name /\ ToldHaveRows'
<1>1. ToldType /\ ToldHaveRows /\ RowsStay
  BY TypeParts, RowsKept DEF IInv
<1>2. ASSUME NEW space \in Reads, NEW v \in Name, HasRow(space, v) PROVE HasRow(space, v)'
  BY <1>1, <1>2, HasRowStays
<1>3. told \subseteq told' /\ told' \subseteq Reads \X Name
  BY <1>1, ToldNext DEF ToldStep, ToldType
<1>4. \A space \in Reads, v \in Name : <<space, v>> \in told' => HasRow(space, v)
  <2>1. \A space \in Reads, v \in Name : <<space, v>> \in told => HasRow(space, v)
    BY <1>1 DEF ToldHaveRows
  <2> QED
    BY <2>1, ToldNext DEF ToldStep
<1>5. \A e \in told' : e[1] \in Reads /\ e[2] \in Name /\ e = <<e[1], e[2]>>
  BY <1>3
<1>6. ASSUME NEW e \in told' PROVE HasRow(e[1], e[2])'
  <2>1. PICK space \in Reads, v \in Name : e = <<space, v>>
    BY <1>5
  <2>2. HasRow(space, v)'
    BY <1>2, <1>4, <2>1
  <2> QED
    BY <2>1, <2>2
<1> QED
  BY <1>3, <1>6 DEF ToldHaveRows

LEMMA ToldAtKept ==
  ASSUME IInv, [Next]_vars PROVE ToldType'
<1>1. ToldType /\ told \subseteq told' /\ told' \subseteq Reads \X Name
  BY TypeParts, ToldKept DEF IInv
<1>2. \/ UNCHANGED toldAt
      \/ \E r \in Request : toldAt' = [toldAt EXCEPT ![r] = told]
  <2>1. ASSUME NEW r \in Request, NEW v, NEW u, Post(r, v, u) \/ \E k \in Reads : Read(r, k, v)
        PROVE  toldAt' = [toldAt EXCEPT ![r] = told]
    BY <2>1 DEF Post, Read, Begin
  <2>2. ASSUME NEW r \in Request,
               \/ LookHit(r) \/ LookMiss(r) \/ LookFails(r) \/ Find(r) \/ Fill(r) \/ Prewarm(r)
               \/ InsertVideo(r) \/ Check(r) \/ InsertProduct(r) \/ InsertFails(r) \/ Record(r)
               \/ Crash(r)
        PROVE  UNCHANGED toldAt
    BY <2>2 DEF LookHit, LookMiss, LookFails, Find, Fill, Prewarm, InsertVideo, Check,
                InsertProduct, InsertFails, Record, Crash, Goto, callVars
  <2>3. CASE Expire \/ Spoil \/ RedisLost \/ StartUp \/ UNCHANGED vars
    BY <2>3 DEF Expire, Spoil, RedisLost, StartUp, vars, callVars
  <2> QED
    BY <2>1, <2>2, <2>3 DEF Next, Serve
<1>3. ASSUME NEW r \in Request, toldAt' = [toldAt EXCEPT ![r] = told]
      PROVE  toldAt' \in [Request -> SUBSET told']
  <2>1. \A q \in Request : toldAt'[q] \subseteq told'
    BY <1>1, <1>3 DEF ToldType
  <2> QED
    BY <1>1, <1>3, <2>1 DEF ToldType
<1>4. CASE UNCHANGED toldAt
  <2>1. \A q \in Request : toldAt'[q] \subseteq told'
    BY <1>1, <1>4 DEF ToldType
  <2> QED
    BY <1>1, <1>4, <2>1 DEF ToldType
<1> QED
  BY <1>1, <1>2, <1>3, <1>4 DEF ToldType

-----------------------------------------------------------------------------
(* The answers. *)

\* Only a read of Postgres answers that there is nothing.
LEMMA NotFoundNext ==
  ASSUME IInv, [Next]_vars, NEW r \in Request, pc'[r] = "notFound", pc[r] # "notFound"
  PROVE  pc[r] # "idle" /\ ~HasRow(Space(r), vid[r])
<1>1. CallsType
  BY TypeParts DEF IInv
<1>2. ASSUME NEW q \in Request, NEW label, label # "notFound", Goto(q, label) PROVE FALSE
  BY <1>1, <1>2 DEF CallsType, Goto
<1>3. ASSUME NEW q \in Request, NEW k, NEW v, NEW u, NEW label, label # "notFound",
             Begin(q, k, v, u, label)
      PROVE  FALSE
  BY <1>1, <1>3 DEF CallsType, Begin
<1>4. ASSUME NEW q \in Request, NEW v \in Name, NEW k \in Reads, Read(q, k, v) PROVE FALSE
  BY <1>3, <1>4 DEF Read
<1>5. ASSUME NEW q \in Request, NEW v \in Name, NEW u \in User, Post(q, v, u) PROVE FALSE
  BY <1>3, <1>5 DEF Post
<1>6. ASSUME NEW q \in Request, LookHit(q) \/ Fill(q) PROVE FALSE
  <2>1. Found(q) # "notFound" /\ Goto(q, Found(q))
    BY <1>6 DEF Found, LookHit, Fill
  <2> QED
    BY <1>1, <2>1 DEF CallsType, Goto
<1>7. ASSUME NEW q \in Request, LookMiss(q) \/ LookFails(q) \/ InsertVideo(q) \/ Check(q)
      PROVE  \E label \in {"finding", "failed", "pwVideo", "conflict", "inserting"} : Goto(q, label)
  BY <1>7 DEF LookMiss, LookFails, InsertVideo, Check
<1>8. ASSUME NEW q \in Request, InsertProduct(q) \/ InsertFails(q) \/ Record(q) \/ Crash(q)
      PROVE  \E label \in {"recordingNew", "recordingDup", "failed", "pwProduct", "conflict", "dead"} :
               Goto(q, label)
  BY <1>8 DEF InsertProduct, InsertFails, Record, Recorded, Crash
<1>9. ASSUME NEW q \in Request, Prewarm(q) PROVE FALSE
  <2>1. PrewarmNext[pc[q]] # "notFound" /\ Goto(q, PrewarmNext[pc[q]])
    BY <1>9, LabelsApart, PrewarmSteps DEF Prewarm
  <2> QED
    BY <1>1, <2>1 DEF CallsType, Goto
<1>10. CASE UNCHANGED pc
  BY <1>10
<1>11. CASE Expire \/ Spoil \/ RedisLost \/ StartUp \/ UNCHANGED vars
  BY <1>10, <1>11 DEF Expire, Spoil, RedisLost, StartUp, vars
<1>12. ASSUME NEW q \in Request, Find(q) PROVE pc[r] # "idle" /\ ~HasRow(Space(r), vid[r])
  <2>1. Goto(q, "notFound") /\ pc[q] = "finding" /\ ~HasRow(Space(q), vid[q])
    BY <1>2, <1>12 DEF Find, At
  <2>2. q = r
    BY <1>1, <2>1 DEF CallsType, Goto
  <2> QED
    BY <2>1, <2>2
<1> QED
  BY <1>2, <1>4, <1>5, <1>6, <1>7, <1>8, <1>9, <1>11, <1>12 DEF Next, Serve

LEMMA FoundNext ==
  ASSUME IInv, [Next]_vars PROVE CreatedStaysFound'
<1> SUFFICES ASSUME NEW r \in Request, pc'[r] = "notFound"
             PROVE  <<Space(r)', vid'[r]>> \notin toldAt'[r]
  BY DEF CreatedStaysFound, At
<1>1. pc[r] # "idle"
  BY NotFoundNext
<1>2. Space(r)' = Space(r) /\ vid'[r] = vid[r] /\ toldAt'[r] = toldAt[r]
  BY <1>1, CallsStay DEF SameCall, Space
<1>3. CASE pc[r] = "notFound"
  BY <1>2, <1>3 DEF IInv, CreatedStaysFound, At
<1>4. CASE pc[r] # "notFound"
  <2>1. ~HasRow(Space(r), vid[r])
    BY <1>4, NotFoundNext
  <2>2. <<Space(r), vid[r]>> \in told => HasRow(Space(r), vid[r])
    BY DEF IInv, ToldHaveRows
  <2>3. toldAt[r] \subseteq told
    BY TypeParts DEF IInv, ToldType
  <2> QED
    BY <1>2, <2>1, <2>2, <2>3
<1> QED
  BY <1>3, <1>4

-----------------------------------------------------------------------------
(* The invariant and the theorems. *)

LEMMA InvInit == Init => IInv
<1> SUFFICES ASSUME Init PROVE IInv
  OBVIOUS
<1>1. UniqueTypeOK /\ FilterFromRows
  BY DEF Init, UniqueInit, UniqueTypeOK, FilterFromRows
<1>2. RowsType /\ CallsType /\ ToldType
  BY DEF Init, RowsType, CallsType, ToldType
<1>3. CacheOK /\ serving \in BOOLEAN /\ faults \in 0 .. MaxFaults
  <2>1. 0 \in 0 .. MaxFaults
    BY CatalogAssumption
  <2> QED
    BY <2>1 DEF Init, CacheOK
<1>4. CallsFit
  BY DEF Init, CallsFit, Fits, Reading, Posting, Selling, Sold
<1>5. SellersAreOwners /\ ToldHaveRows /\ CreatedStaysFound
  BY DEF Init, SellersAreOwners, ToldHaveRows, CreatedStaysFound, At
<1> QED
  BY <1>1, <1>2, <1>3, <1>4, <1>5, TypeParts DEF IInv
LEMMA InvNext == IInv /\ [Next]_vars => IInv'
<1> SUFFICES ASSUME IInv, [Next]_vars PROVE IInv'
  OBVIOUS
<1>1. UniqueTypeOK' /\ FilterFromRows'
  BY NamesNext, NamesKept, TypeParts DEF IInv
<1>2. RowsType' /\ CacheOK' /\ CallsType' /\ CallsFit' /\ ToldType'
  BY RowsKept, CacheKept, CallsNext, ToldAtKept
<1>3. serving' \in BOOLEAN
  <2>1. UNCHANGED serving \/ serving' = TRUE
    <3>1. ASSUME NEW r \in Request, NEW v, NEW u, Post(r, v, u) \/ \E k \in Reads : Read(r, k, v)
          PROVE  UNCHANGED serving
      BY <3>1 DEF Post, Read
    <3>2. ASSUME NEW r \in Request,
                 \/ LookHit(r) \/ LookMiss(r) \/ LookFails(r) \/ Find(r) \/ Fill(r) \/ Prewarm(r)
                 \/ InsertVideo(r) \/ Check(r) \/ InsertProduct(r) \/ InsertFails(r) \/ Record(r)
                 \/ Crash(r)
          PROVE  UNCHANGED serving
      BY <3>2 DEF LookHit, LookMiss, LookFails, Find, Fill, Prewarm, InsertVideo, Check,
                  InsertProduct, InsertFails, Record, Crash
    <3>3. ASSUME Expire \/ Spoil \/ RedisLost \/ StartUp \/ UNCHANGED vars
          PROVE  UNCHANGED serving \/ serving' = TRUE
      BY <3>3 DEF Expire, Spoil, RedisLost, StartUp, vars
    <3> QED
      BY <3>1, <3>2, <3>3 DEF Next, Serve
  <2> QED
    BY <2>1, TypeParts DEF IInv
<1>4. faults' \in 0 .. MaxFaults
  <2>1. faults \in 0 .. MaxFaults /\ (UNCHANGED faults \/ Fault)
    BY NamesNext, TypeParts DEF IInv
  <2> QED
    BY <2>1, CatalogAssumption DEF Fault
<1>5. TypeOK'
  BY <1>1, <1>2, <1>3, <1>4 DEF TypeOK, RowsType, CacheOK, EntryOK, RowOf, CallsType, ToldType
<1> QED
  BY <1>1, <1>2, <1>5, SellersNext, ToldKept, FoundNext DEF IInv

LEMMA Invariance == Spec => []IInv
BY InvInit, InvNext, PTL DEF Spec

\* Every variable keeps its type, and no cache has an entry of a row that
\* there is not.
THEOREM TypeCorrect == Spec => []TypeOK
<1>1. IInv => TypeOK
  BY DEF IInv
<1> QED
  BY <1>1, Invariance, PTL

\* What somebody was told to be created, no later request is told to be
\* missing: of any number of requests, with any loss of the caches.
THEOREM CreatedIsFound == Spec => []CreatedStaysFound
<1>1. IInv => CreatedStaysFound
  BY DEF IInv
<1> QED
  BY <1>1, Invariance, PTL

\* A product is made by the owner of its video, 201 answers the call that made
\* it, and 409 has bits of products behind it.
THEOREM ProductsJust == Spec => []ProductsAreJust
<1>1. IInv => ProductsAreJust
  <2> SUFFICES ASSUME IInv PROVE ProductsAreJust
    OBVIOUS
  <2>1. ASSUME NEW r \in Request, kind[r] = "sell"
        PROVE  /\ At(r, "created") => seller[vid[r]] = r
               /\ At(r, "conflict") => Bits[vid[r]] \subseteq BitsOf(taken)
    <3>1. Fits(r, pc[r])
      BY DEF IInv, CallsFit
    <3> QED
      BY <2>1, <3>1 DEF Fits, At
  <2> QED
    BY <2>1 DEF ProductsAreJust, IInv, SellersAreOwners
<1> QED
  BY <1>1, Invariance, PTL
=============================================================================
