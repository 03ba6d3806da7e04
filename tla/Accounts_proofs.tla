---------------------------- MODULE Accounts_proofs ----------------------------
(***************************************************************************)
(* Proofs about Accounts, for any number of addresses, requests, faults    *)
(* and any Bloom filter: what Register answers is right, no account is     *)
(* kept from the filter without a fault, and the rotation of a refresh     *)
(* token neither loses a session nor leaves the old token behind.          *)
(***************************************************************************)
EXTENDS Accounts, TLAPS

LEMMA BitsGrow ==
  ASSUME NEW large, NEW small \in SUBSET large PROVE BitsOf(small) \subseteq BitsOf(large)
BY DEF BitsOf

LEMMA BitsOfOne ==
  ASSUME NEW names, NEW n \in names PROVE Bits[n] \subseteq BitsOf(names)
BY DEF BitsOf

\* The states a request is left in by each step are states of TypeOK.
LEMMA LabelsApart ==
  /\ Running = {"inserting", "recordingNew", "recordingDup", "revoking", "setting", "indexing"}
  /\ Issuing = {"setting", "indexing"}
  /\ OfAccount = {"setting", "indexing", "recordingNew", "recordingDup", "created",
                   "revoking", "granted"}
  /\ Final = {"created", "taken", "granted", "denied", "left", "notLeft", "failed", "dead"}
BY DEF Running, Registering, Issuing, OfAccount, Final, Broken

LEMMA TypeInit == Init => TypeOK
<1> SUFFICES ASSUME Init PROVE TypeOK
  OBVIOUS
<1>1. UniqueTypeOK
  BY DEF Init, UniqueInit, UniqueTypeOK
<1>2. \A r \in Request : pc[r] = "idle" /\ pc[r] \notin Running /\ pc[r] \notin OfAccount
  BY LabelsApart DEF Init
<1>3. live \subseteq Request /\ ended \subseteq Request /\ spared \subseteq Request
  BY DEF Init
<1>4. /\ pc \in [Request -> {"idle"} \cup Running \cup Final]
      /\ addr \in [Request -> Name \cup {None}]
      /\ parent \in [Request -> Request \cup {None}]
      /\ author \in [Name -> Request \cup {None}]
      /\ index \in [Name -> SUBSET Request]
  BY DEF Init
<1>5. faults \in 0 .. MaxFaults
  BY AccountsAssumption DEF Init
<1>6. serving \in BOOLEAN
  BY DEF Init
<1> QED BY <1>1, <1>2, <1>3, <1>4, <1>5, <1>6 DEF TypeOK

-----------------------------------------------------------------------------
(* Types. *)

\* The warm-up, the filter and the table keep their types.
LEMMA NamesType ==
  ASSUME UniqueTypeOK,
         \/ UNCHANGED nameVars
         \/ \E n \in Name : Insert(n) /\ UNCHANGED filterVars /\ missing' \in {missing, missing \cup {n}}
         \/ \E n \in Name : Add(n) /\ UNCHANGED <<taken, warming, rest, fresh, missing>>
         \/ \E n \in taken : missing' = missing \cup {n} /\ UNCHANGED <<taken, filterVars>>
         \/ WarmUp \/ WarmBatch \/ Warmed \/ WarmFails \/ FilterLost
  PROVE  UniqueTypeOK' /\ taken \subseteq taken'
<1>1. CASE UNCHANGED nameVars
  BY <1>1 DEF UniqueTypeOK, nameVars
<1>2. ASSUME NEW n \in Name, Insert(n), UNCHANGED filterVars, missing' \in {missing, missing \cup {n}}
      PROVE  UniqueTypeOK' /\ taken \subseteq taken'
  BY <1>2 DEF UniqueTypeOK, Insert, filterVars
<1>3. ASSUME NEW n \in Name, Add(n), UNCHANGED <<taken, warming, rest, fresh, missing>>
      PROVE  UniqueTypeOK' /\ taken \subseteq taken'
  BY <1>3, BitsOfOne DEF UniqueTypeOK, Add
<1>4. ASSUME NEW n \in taken, missing' = missing \cup {n}, UNCHANGED <<taken, filterVars>>
      PROVE  UniqueTypeOK' /\ taken \subseteq taken'
  BY <1>4 DEF UniqueTypeOK, filterVars
<1>5. CASE WarmUp
  BY <1>5 DEF UniqueTypeOK, WarmUp
<1>6. CASE WarmBatch
  <2>1. PICK names \in SUBSET rest : AddBatch(names) /\ rest' = rest \ names
    BY <1>6 DEF WarmBatch
  <2>2. BitsOf(names) \subseteq BitsOf(Name)
    BY <2>1, BitsGrow DEF UniqueTypeOK
  <2> QED BY <1>6, <2>1, <2>2 DEF UniqueTypeOK, WarmBatch, AddBatch
<1>7. CASE Warmed
  BY <1>7 DEF UniqueTypeOK, Warmed
<1>8. CASE WarmFails
  BY <1>8 DEF UniqueTypeOK, WarmFails
<1>9. CASE FilterLost
  BY <1>9 DEF UniqueTypeOK, FilterLost
<1> QED BY <1>1, <1>2, <1>3, <1>4, <1>5, <1>6, <1>7, <1>8, <1>9

CallsType ==
  /\ pc \in [Request -> {"idle"} \cup Running \cup Final]
  /\ addr \in [Request -> Name \cup {None}]
  /\ \A r \in Request : pc[r] \in Running => addr[r] \in Name
  /\ \A r \in Request : pc[r] \in OfAccount => addr[r] \in taken
  /\ parent \in [Request -> Request \cup {None}]
  /\ \A r \in Request : pc[r] = "revoking" => parent[r] # None

TokensType ==
  /\ live \subseteq Request
  /\ index \in [Name -> SUBSET Request]
  /\ author \in [Name -> Request \cup {None}]
  /\ ended \subseteq Request
  /\ spared \subseteq Request

LEMMA TypeParts ==
  TypeOK <=> UniqueTypeOK /\ serving \in BOOLEAN /\ CallsType /\ TokensType /\ faults \in 0 .. MaxFaults
BY DEF TypeOK, CallsType, TokensType

LEMMA BeginType ==
  ASSUME CallsType, taken \subseteq taken', NEW r \in Request, NEW n \in Name,
         NEW t \in Request \cup {None}, NEW label \in Running \cup Final, Begin(r, n, t, label),
         label \in OfAccount => n \in taken, label = "revoking" => t # None
  PROVE  CallsType'
BY DEF CallsType, Begin

LEMMA GotoType ==
  ASSUME CallsType, taken \subseteq taken', NEW r \in Request,
         NEW label \in Running \cup Final, Goto(r, label),
         label \in Running => addr[r] \in Name, label # "revoking",
         label \in OfAccount => addr[r] \in taken
  PROVE  CallsType'
BY DEF CallsType, Goto

LEMMA StayType ==
  ASSUME CallsType, taken \subseteq taken', UNCHANGED callVars PROVE CallsType'
BY DEF CallsType, callVars

LEMMA FaultType ==
  ASSUME faults \in 0 .. MaxFaults, UNCHANGED faults \/ Fault PROVE faults' \in 0 .. MaxFaults
BY AccountsAssumption DEF Fault

\* What a step does to the names, and that it counts its fault.
LEMMA NamesNext ==
  ASSUME TypeOK, [Next]_vars
  PROVE  UniqueTypeOK' /\ taken \subseteq taken' /\ (UNCHANGED faults \/ Fault)
<1> USE TypeParts
<1>1. ASSUME NEW r \in Request, NEW n \in Name, Register(r, n) \/ Login(r, n)
      PROVE  UNCHANGED nameVars /\ (UNCHANGED faults \/ Fault)
  BY <1>1 DEF Register, Login
<1>2. ASSUME NEW r \in Request, NEW t \in Request, Refresh(r, t) \/ Logout(r, t)
      PROVE  UNCHANGED nameVars /\ (UNCHANGED faults \/ Fault)
  BY <1>2 DEF Refresh, Logout
<1>3. ASSUME NEW r \in Request, pc[r] \in Running PROVE addr[r] \in Name
  BY <1>3 DEF CallsType
<1>4. ASSUME NEW r \in Request, InsertOk(r) \/ InsertUnknown(r)
      PROVE  /\ \E n \in Name : Insert(n) /\ UNCHANGED filterVars /\ missing' \in {missing, missing \cup {n}}
             /\ UNCHANGED faults \/ Fault
  <2>1. addr[r] \in Name
    BY <1>3, <1>4, LabelsApart DEF InsertOk, InsertUnknown
  <2> QED BY <1>4, <2>1 DEF InsertOk, InsertUnknown
<1>5. ASSUME NEW r \in Request, Record(r)
      PROVE  /\ \E n \in Name : Add(n) /\ UNCHANGED <<taken, warming, rest, fresh, missing>>
             /\ UNCHANGED faults \/ Fault
  <2>1. addr[r] \in Name
    BY <1>3, <1>5, LabelsApart DEF Record
  <2> QED BY <1>5, <2>1 DEF Record
<1>6. ASSUME NEW r \in Request, RecordFails(r)
      PROVE  /\ \E n \in taken : missing' = missing \cup {n} /\ UNCHANGED <<taken, filterVars>>
             /\ UNCHANGED faults \/ Fault
  <2>1. addr[r] \in taken
    BY <1>6, LabelsApart DEF RecordFails, CallsType
  <2> QED BY <1>6, <2>1 DEF RecordFails
<1>7. ASSUME NEW r \in Request, Crash(r)
      PROVE  /\ \/ UNCHANGED nameVars
                \/ \E n \in taken : missing' = missing \cup {n} /\ UNCHANGED <<taken, filterVars>>
             /\ UNCHANGED faults \/ Fault
  <2>1. pc[r] = "recordingNew" => addr[r] \in taken
    BY LabelsApart DEF CallsType
  <2>2. CASE pc[r] = "recordingNew"
    BY <1>7, <2>1, <2>2 DEF Crash
  <2>3. CASE pc[r] # "recordingNew"
    <3>1. missing' = missing
      BY <1>7, <2>3 DEF Crash
    <3> QED BY <1>7, <3>1 DEF Crash, nameVars, filterVars
  <2> QED BY <2>2, <2>3
<1>8. CASE StartUp
  <2>1. /\ WarmUp \/ WarmBatch \/ Warmed \/ WarmFails
        /\ UNCHANGED faults \/ Fault
    BY <1>8 DEF StartUp
  <2> QED BY <2>1, NamesType
<1>9. CASE RedisLost
  BY <1>9, NamesType DEF RedisLost
<1>10. ASSUME NEW r \in Request,
              \/ InsertRefused(r) \/ InsertFails(r) \/ Revoke(r) \/ RevokeFails(r)
              \/ SetToken(r) \/ SetFails(r) \/ Index(r) \/ Expire(r)
       PROVE  UNCHANGED nameVars /\ (UNCHANGED faults \/ Fault)
  <2>1. CASE InsertRefused(r)
    BY <2>1 DEF InsertRefused, Refused, nameVars, filterVars
  <2> QED
    BY <1>10, <2>1 DEF InsertFails, Revoke, RevokeFails, SetToken, SetFails, Index, Expire
<1>11. CASE UNCHANGED vars
  BY <1>11, NamesType DEF vars
<1> QED
  BY <1>1, <1>2, <1>4, <1>5, <1>6, <1>7, <1>8, <1>9, <1>10, <1>11, NamesType DEF Next, Serve

\* A step of a request moves it from label to label.
LEMMA CallsNext ==
  ASSUME TypeOK, [Next]_vars PROVE CallsType'
<1> USE TypeParts
<1>1. taken \subseteq taken'
  BY NamesNext
<1>2. ASSUME NEW r \in Request, NEW n \in Name, Register(r, n) PROVE CallsType'
  <2>1. Begin(r, n, None, "taken") \/ Begin(r, n, None, "inserting")
    BY <1>2 DEF Register
  <2>2. /\ "taken" \in Running \cup Final /\ "taken" \notin OfAccount
        /\ "inserting" \in Running \cup Final /\ "inserting" \notin OfAccount
    BY LabelsApart
  <2> QED BY <1>1, <2>1, <2>2, BeginType
<1>3. ASSUME NEW r \in Request, NEW n \in Name, Login(r, n) PROVE CallsType'
  <2>1. \/ n \in taken /\ Begin(r, n, None, "setting")
        \/ Begin(r, n, None, "denied") \/ Begin(r, n, None, "failed")
    BY <1>3 DEF Login
  <2>2. /\ "setting" \in Running \cup Final
        /\ "denied" \in Running \cup Final /\ "denied" \notin OfAccount
        /\ "failed" \in Running \cup Final /\ "failed" \notin OfAccount
    BY LabelsApart
  <2> QED BY <1>1, <2>1, <2>2, BeginType
<1>4. ASSUME NEW r \in Request, NEW t \in Request, Refresh(r, t) \/ Logout(r, t) PROVE CallsType'
  <2>1. \E label \in {"revoking", "denied", "left", "notLeft"} : Begin(r, addr[t], t, label)
    BY <1>4 DEF Refresh, Logout
  <2>2. \A label \in {"revoking", "denied", "left", "notLeft"} :
          label \in Running \cup Final
    BY LabelsApart
  <2>3. pc[t] = "granted"
    BY <1>4 DEF Refresh, Logout
  <2>4. addr[t] \in Name /\ addr[t] \in taken
    BY <2>3, LabelsApart DEF CallsType, UniqueTypeOK
  <2> QED BY <1>1, <2>1, <2>2, <2>4, BeginType, AccountsAssumption
<1>5. ASSUME NEW r \in Request, InsertOk(r) PROVE CallsType'
  <2>1. addr[r] \in taken' /\ addr[r] \in Name
    BY <1>5, LabelsApart DEF InsertOk, Insert, CallsType
  <2>2. Goto(r, "recordingNew") /\ "recordingNew" \in Running \cup Final
    BY <1>5, LabelsApart DEF InsertOk
  <2> QED BY <1>1, <2>1, <2>2 DEF CallsType, Goto
<1>6. ASSUME NEW r \in Request, InsertRefused(r) PROVE CallsType'
  <2>1. addr[r] \in taken /\ addr[r] \in Name
    BY <1>6 DEF InsertRefused, Refused, UniqueTypeOK
  <2>2. Goto(r, "recordingDup") /\ "recordingDup" \in Running \cup Final
    BY <1>6, LabelsApart DEF InsertRefused
  <2> QED BY <1>1, <2>1, <2>2, GotoType
<1>7. ASSUME NEW r \in Request, NEW label \in {"failed", "dead"}, Goto(r, label) PROVE CallsType'
  <2>1. label \in Running \cup Final /\ label \notin Running /\ label \notin OfAccount
    BY LabelsApart
  <2> QED BY <1>1, <1>7, <2>1, GotoType
<1>8. ASSUME NEW r \in Request, Record(r) \/ RecordFails(r) PROVE CallsType'
  <2>1. addr[r] \in taken
    BY <1>8, LabelsApart DEF Record, RecordFails, CallsType
  <2>2. Goto(r, Answered(r)) /\ Answered(r) \in {"created", "taken"}
    BY <1>8 DEF Record, RecordFails, Answered
  <2>3. \A label \in {"created", "taken"} : label \in Running \cup Final /\ label \notin Running
    BY LabelsApart
  <2> QED BY <1>1, <2>1, <2>2, <2>3, GotoType
<1>9. ASSUME NEW r \in Request, Revoke(r) \/ RevokeFails(r) PROVE CallsType'
  <2>1. pc[r] = "revoking" /\ Goto(r, "setting")
    BY <1>9 DEF Revoke, RevokeFails
  <2>2. addr[r] \in taken /\ addr[r] \in Name /\ "setting" \in Running \cup Final
    BY <2>1, LabelsApart DEF CallsType
  <2> QED BY <1>1, <2>1, <2>2, GotoType
<1>10. ASSUME NEW r \in Request, SetToken(r) PROVE CallsType'
  <2>1. pc[r] = "setting" /\ Goto(r, "indexing")
    BY <1>10 DEF SetToken
  <2>2. addr[r] \in taken /\ addr[r] \in Name /\ "indexing" \in Running \cup Final
    BY <2>1, LabelsApart DEF CallsType
  <2> QED BY <1>1, <2>1, <2>2, GotoType
<1>11. ASSUME NEW r \in Request, Index(r) PROVE CallsType'
  <2>1. pc[r] = "indexing" /\ Goto(r, "granted")
    BY <1>11 DEF Index
  <2>2. addr[r] \in taken /\ "granted" \in Running \cup Final /\ "granted" \notin Running
    BY <2>1, LabelsApart DEF CallsType
  <2> QED BY <1>1, <2>1, <2>2, GotoType
<1>12. ASSUME NEW r \in Request, InsertFails(r) \/ InsertUnknown(r) \/ SetFails(r) \/ Crash(r)
       PROVE  CallsType'
  <2>1. \E label \in {"failed", "dead"} : Goto(r, label)
    BY <1>12 DEF InsertFails, InsertUnknown, SetFails, Crash
  <2> QED BY <1>7, <2>1
<1>13. CASE UNCHANGED callVars
  BY <1>1, <1>13, StayType
<1>14. CASE StartUp \/ RedisLost \/ UNCHANGED vars \/ \E r \in Request : Expire(r)
  BY <1>13, <1>14 DEF StartUp, RedisLost, Expire, vars
<1> QED
  BY <1>2, <1>3, <1>4, <1>5, <1>6, <1>8, <1>9, <1>10, <1>11, <1>12, <1>14 DEF Next, Serve

LEMMA TokensNext ==
  ASSUME TypeOK, [Next]_vars PROVE TokensType'
<1> USE TypeParts
<1>1. ASSUME NEW r \in Request, InsertOk(r) \/ InsertUnknown(r) PROVE TokensType'
  <2>1. author' = [author EXCEPT ![addr[r]] = r] /\ UNCHANGED tokenVars
    BY <1>1 DEF InsertOk, InsertUnknown
  <2> QED BY <2>1 DEF TokensType, tokenVars
<1>2. ASSUME NEW r \in Request, Revoke(r) \/ SetToken(r) \/ SetFails(r) PROVE TokensType'
  <2>1. live' \subseteq live \cup {r} /\ UNCHANGED <<index, ended, spared, author>>
    BY <1>2 DEF Revoke, SetToken, SetFails
  <2> QED BY <2>1 DEF TokensType
<1>3. ASSUME NEW r \in Request, RevokeFails(r) PROVE TokensType'
  <2>1. parent[r] \in Request
    BY <1>3 DEF RevokeFails, CallsType
  <2>2. spared' = spared \cup {parent[r]} /\ UNCHANGED <<live, index, ended, author>>
    BY <1>3 DEF RevokeFails
  <2> QED BY <2>1, <2>2 DEF TokensType
<1>4. ASSUME NEW r \in Request, Index(r) PROVE TokensType'
  <2>1. index' \in {index, [index EXCEPT ![addr[r]] = @ \cup {r}]}
    BY <1>4 DEF Index
  <2>2. index' \in [Name -> SUBSET Request]
    BY <2>1 DEF TokensType
  <2> QED BY <1>4, <2>2 DEF TokensType, Index
<1>5. ASSUME NEW r \in Request, NEW t \in Request, Logout(r, t) PROVE TokensType'
  BY <1>5 DEF TokensType, Logout, End
<1>6. ASSUME NEW t \in Request, Expire(t) PROVE TokensType'
  BY <1>6 DEF TokensType, Expire, End
<1>7. CASE RedisLost
  BY <1>7 DEF TokensType, RedisLost
<1>8. CASE UNCHANGED <<tokenVars, author>>
  BY <1>8 DEF TokensType, tokenVars
<1> QED
  BY <1>1, <1>2, <1>3, <1>4, <1>5, <1>6, <1>7, <1>8 DEF Next, Serve, vars, Register, Login, Refresh,
       InsertRefused, InsertFails, Record, RecordFails, Crash, StartUp

LEMMA ServingNext ==
  ASSUME serving \in BOOLEAN, [Next]_vars PROVE serving' \in BOOLEAN
<1>1. UNCHANGED serving \/ serving' = TRUE
  BY DEF Next, Serve, vars, Register, Login, Refresh, Logout, InsertOk, InsertRefused, InsertFails,
       InsertUnknown, Record, RecordFails, Revoke, RevokeFails, SetToken, SetFails, Index, Crash,
       Expire, StartUp, RedisLost
<1> QED BY <1>1

LEMMA TypeNext == TypeOK /\ [Next]_vars => TypeOK'
<1> SUFFICES ASSUME TypeOK, [Next]_vars PROVE TypeOK'
  OBVIOUS
<1>1. UniqueTypeOK' /\ faults' \in 0 .. MaxFaults
  BY TypeParts, NamesNext, FaultType
<1>2. CallsType' /\ TokensType'
  BY CallsNext, TokensNext
<1>3. serving' \in BOOLEAN
  BY TypeParts, ServingNext
<1> QED BY <1>1, <1>2, <1>3 DEF TypeOK, CallsType, TokensType

\* TypeOK: what a request, a token and the filter can be in any run.
THEOREM TypeCorrect == Spec => []TypeOK
<1> QED BY TypeInit, TypeNext, PTL DEF Spec

-----------------------------------------------------------------------------
(* The filter: NamesInv says what it holds and what it lacks. *)

\* The addresses whose account is made and whose BF.ADD is to come.
Recording == {addr[r] : r \in {q \in Request : pc[q] = "recordingNew"}}

\* What a warm-up has sent is in the filter still.
Sent == \A n \in fresh \ rest : MayContain(n)

NamesInv == FilterFromRows /\ Sent /\ AccountsAreKnown

LEMMA KnownMeans ==
  AccountsAreKnown <=> \A n \in taken : n \in missing \/ n \in Recording \/ MayContain(n)
BY DEF AccountsAreKnown, KnownUnless, Recording

\* One request moves: only its own address can stop being about to be added.
LEMMA MovesOne ==
  ASSUME TypeOK, NEW r \in Request, NEW label, pc' = [pc EXCEPT ![r] = label],
         \A q \in Request : q # r => addr'[q] = addr[q]
  PROVE  \A n \in Recording : n \in Recording' \/ (pc[r] = "recordingNew" /\ n = addr[r])
BY DEF TypeOK, Recording

\* A step that leaves the names alone, of a request that has nothing to add.
LEMMA NamesStay ==
  ASSUME TypeOK, NamesInv, UNCHANGED nameVars, \A n \in Recording : n \in Recording'
  PROVE  NamesInv'
<1>1. FilterFromRows' /\ Sent'
  BY DEF NamesInv, FilterFromRows, Sent, MayContain, BitsOf, nameVars
<1>2. \A n \in taken' : n \in missing' \/ n \in Recording' \/ MayContain(n)'
  BY KnownMeans DEF NamesInv, MayContain, nameVars
<1> QED BY <1>1, <1>2, KnownMeans DEF NamesInv, AccountsAreKnown, KnownUnless, Recording

LEMMA KnownNext ==
  ASSUME TypeOK, NamesInv, [Next]_vars PROVE NamesInv'
<1>1. ASSUME filter \subseteq filter', filter' \subseteq filter \cup BitsOf(taken), taken \subseteq taken',
             UNCHANGED <<rest, fresh>>, missing \subseteq missing',
             \A n \in taken' : n \in taken \/ n \in missing' \/ n \in Recording',
             \A n \in Recording : n \in missing' \/ n \in Recording' \/ MayContain(n)'
      PROVE  NamesInv'
  <2>1. BitsOf(taken) \subseteq BitsOf(taken')
    BY <1>1, BitsGrow
  <2>2. FilterFromRows' /\ Sent'
    BY <1>1, <2>1 DEF NamesInv, FilterFromRows, Sent, MayContain, BitsOf
  <2>3. \A n \in taken' : n \in missing' \/ n \in Recording' \/ MayContain(n)'
    BY <1>1, KnownMeans DEF NamesInv, MayContain
  <2> QED BY <2>2, <2>3 DEF NamesInv, AccountsAreKnown, KnownUnless, Recording
<1>2. ASSUME NEW r \in Request, NEW n, NEW t, NEW label, Begin(r, n, t, label), UNCHANGED nameVars
      PROVE  NamesInv'
  <2>1. \A m \in Recording : m \in Recording'
    BY <1>2, MovesOne DEF Begin, TypeOK
  <2> QED BY <1>2, <2>1, NamesStay
<1>3. ASSUME NEW r \in Request, NEW label, Goto(r, label)
      PROVE  \A m \in Recording : m \in Recording' \/ (pc[r] = "recordingNew" /\ m = addr[r])
  BY <1>3, MovesOne DEF Goto
<1>4. ASSUME NEW r \in Request, NEW label, Goto(r, label), pc[r] # "recordingNew", UNCHANGED nameVars
      PROVE  NamesInv'
  BY <1>3, <1>4, NamesStay
<1>5. ASSUME NEW r \in Request, InsertOk(r) PROVE NamesInv'
  <2>1. addr[r] \in Recording'
    BY <1>5 DEF InsertOk, Goto, Recording, TypeOK
  <2>2. taken' = taken \cup {addr[r]} /\ UNCHANGED <<filter, rest, fresh, missing>>
    BY <1>5 DEF InsertOk, Insert, filterVars
  <2> QED BY <1>1, <1>3, <1>5, <2>1, <2>2 DEF InsertOk
<1>6. ASSUME NEW r \in Request, InsertUnknown(r) PROVE NamesInv'
  <2>1. /\ taken' = taken \cup {addr[r]} /\ missing' = missing \cup {addr[r]}
        /\ UNCHANGED <<filter, rest, fresh>>
    BY <1>6 DEF InsertUnknown, Insert, filterVars
  <2> QED BY <1>1, <1>3, <1>6, <2>1 DEF InsertUnknown
<1>7. ASSUME NEW r \in Request, Record(r) PROVE NamesInv'
  <2>1. addr[r] \in taken
    BY <1>7, LabelsApart DEF Record, TypeOK
  <2>2. filter' = filter \cup Bits[addr[r]] /\ UNCHANGED <<taken, rest, fresh, missing>>
    BY <1>7 DEF Record, Add
  <2>3. Bits[addr[r]] \subseteq BitsOf(taken)
    BY <2>1, BitsOfOne
  <2>4. \A n \in Recording : n \in Recording' \/ MayContain(n)'
    BY <1>3, <1>7, <2>2 DEF Record, MayContain
  <2> QED BY <1>1, <2>2, <2>3, <2>4
<1>8. ASSUME NEW r \in Request, RecordFails(r) PROVE NamesInv'
  BY <1>1, <1>3, <1>8 DEF RecordFails, filterVars
<1>9. ASSUME NEW r \in Request, Crash(r) PROVE NamesInv'
  <2>1. missing \subseteq missing' /\ (pc[r] = "recordingNew" => addr[r] \in missing')
    BY <1>9 DEF Crash
  <2> QED BY <1>1, <1>3, <1>9, <2>1 DEF Crash, filterVars
<1>10. ASSUME UNCHANGED callVars PROVE Recording' = Recording
  BY <1>10 DEF callVars, Recording
<1>11. CASE WarmUp /\ UNCHANGED callVars
  <2>1. Recording' = Recording /\ UNCHANGED <<taken, filter, missing>> /\ fresh' = rest'
    BY <1>10, <1>11 DEF WarmUp
  <2> QED BY <2>1 DEF NamesInv, FilterFromRows, Sent, AccountsAreKnown, KnownUnless, Recording, MayContain, BitsOf
<1>12. CASE WarmBatch /\ UNCHANGED callVars
  <2>1. PICK names \in SUBSET rest : filter' = filter \cup BitsOf(names) /\ rest' = rest \ names
    BY <1>12 DEF WarmBatch, AddBatch
  <2>2. names \subseteq taken
    BY <2>1 DEF TypeOK, UniqueTypeOK
  <2>3. BitsOf(names) \subseteq BitsOf(taken)
    BY <2>2, BitsGrow
  <2>4. \A n \in names : Bits[n] \subseteq filter'
    BY <2>1, BitsOfOne
  <2>5. Recording' = Recording /\ UNCHANGED <<taken, fresh, missing>>
    BY <1>10, <1>12 DEF WarmBatch
  <2>6. FilterFromRows'
    BY <2>1, <2>3, <2>5 DEF NamesInv, FilterFromRows, BitsOf
  <2>7. Sent'
    BY <2>1, <2>4, <2>5 DEF NamesInv, Sent, MayContain
  <2>8. AccountsAreKnown'
    BY <2>1, <2>5 DEF NamesInv, AccountsAreKnown, KnownUnless, Recording, MayContain
  <2> QED BY <2>6, <2>7, <2>8 DEF NamesInv
<1>13. CASE Warmed /\ UNCHANGED callVars
  <2>1. /\ Recording' = Recording /\ UNCHANGED <<taken, filter, rest>>
        /\ rest = {} /\ fresh' = {} /\ missing' = missing \ fresh
    BY <1>10, <1>13 DEF Warmed
  <2>2. \A n \in fresh : MayContain(n)
    BY <2>1 DEF NamesInv, Sent
  <2>3. FilterFromRows' /\ Sent'
    BY <2>1 DEF NamesInv, FilterFromRows, Sent, BitsOf
  <2>4. AccountsAreKnown'
    BY <2>1, <2>2 DEF NamesInv, AccountsAreKnown, KnownUnless, Recording, MayContain
  <2> QED BY <2>3, <2>4 DEF NamesInv
<1>14. CASE WarmFails /\ UNCHANGED callVars
  <2>1. /\ Recording' = Recording /\ UNCHANGED <<taken, filter, missing>> /\ fresh' = {}
    BY <1>10, <1>14 DEF WarmFails
  <2> QED BY <2>1 DEF NamesInv, FilterFromRows, Sent, AccountsAreKnown, KnownUnless, Recording, MayContain, BitsOf
<1>15. CASE RedisLost
  <2>1. filter' = {} /\ fresh' = rest' /\ missing' = taken' /\ UNCHANGED taken
    BY <1>15 DEF RedisLost, FilterLost
  <2> QED BY <2>1 DEF NamesInv, FilterFromRows, Sent, AccountsAreKnown, KnownUnless
<1>16. CASE StartUp
  BY <1>11, <1>12, <1>13, <1>14, <1>16 DEF StartUp
<1>17. ASSUME NEW r \in Request, NEW n \in Name, Register(r, n) \/ Login(r, n) PROVE NamesInv'
  BY <1>2, <1>17 DEF Register, Login
<1>18. ASSUME NEW r \in Request, NEW t \in Request, Refresh(r, t) \/ Logout(r, t) PROVE NamesInv'
  BY <1>2, <1>18 DEF Refresh, Logout
<1>19. ASSUME NEW r \in Request, InsertRefused(r) PROVE NamesInv'
  BY <1>4, <1>19 DEF InsertRefused, Refused, nameVars, filterVars
<1>20. ASSUME NEW r \in Request,
              InsertFails(r) \/ Revoke(r) \/ RevokeFails(r) \/ SetToken(r) \/ SetFails(r) \/ Index(r)
       PROVE  NamesInv'
  BY <1>4, <1>20 DEF InsertFails, Revoke, RevokeFails, SetToken, SetFails, Index
<1>21. CASE UNCHANGED vars \/ \E r \in Request : Expire(r)
  BY <1>10, <1>21, NamesStay DEF vars, Expire
<1> QED
  BY <1>5, <1>6, <1>7, <1>8, <1>9, <1>15, <1>16, <1>17, <1>18, <1>19, <1>20, <1>21 DEF Next, Serve

\* AccountsAreKnown: however many requests insert and record while warm-ups
\* run and Redis is lost, an account is in the filter, is about to be, or was
\* kept out by a fault since the last warm-up.
THEOREM WarmUpsLeaveNoneOut == Spec => []AccountsAreKnown
<1>1. Init => NamesInv
  BY DEF Init, UniqueInit, NamesInv, FilterFromRows, Sent, AccountsAreKnown, KnownUnless
<1>2. NamesInv => AccountsAreKnown
  BY DEF NamesInv
<1>3. TypeOK /\ NamesInv /\ [Next]_vars => NamesInv'
  BY KnownNext
<1> QED BY <1>1, <1>2, <1>3, TypeInit, TypeNext, PTL DEF Spec

-----------------------------------------------------------------------------
(* What Register answers. *)

VerdictsInv ==
  \A r \in Request :
    /\ pc[r] \in {"recordingNew", "created"} => author[addr[r]] = r
    /\ pc[r] = "taken" => Bits[addr[r]] \subseteq BitsOf(taken)

LEMMA VerdictsStay ==
  ASSUME TypeOK, VerdictsInv, taken \subseteq taken',
         \A n \in taken : author'[n] = author[n],
         \A r \in Request : \/ pc'[r] = pc[r] /\ addr'[r] = addr[r]
                            \/ /\ pc'[r] \in {"recordingNew", "created"} => author'[addr'[r]] = r
                               /\ pc'[r] = "taken" => Bits[addr'[r]] \subseteq BitsOf(taken')
  PROVE  VerdictsInv'
<1> SUFFICES ASSUME NEW r \in Request, pc'[r] = pc[r], addr'[r] = addr[r]
             PROVE  /\ pc'[r] \in {"recordingNew", "created"} => author'[addr'[r]] = r
                    /\ pc'[r] = "taken" => Bits[addr'[r]] \subseteq BitsOf(taken')
  BY DEF VerdictsInv
<1>1. BitsOf(taken) \subseteq BitsOf(taken')
  BY BitsGrow
<1>2. pc[r] \in {"recordingNew", "created"} => addr[r] \in taken
  BY LabelsApart DEF TypeOK
<1> QED BY <1>1, <1>2 DEF VerdictsInv

LEMMA VerdictsNext ==
  ASSUME TypeOK, NamesInv, VerdictsInv, [Next]_vars PROVE VerdictsInv'
<1>1. taken \subseteq taken'
  BY NamesNext
<1>2. ASSUME NEW r \in Request, NEW n, NEW t, NEW label, Begin(r, n, t, label), UNCHANGED <<nameVars, author>>,
             label \notin {"recordingNew", "created"},
             label = "taken" => Bits[n] \subseteq BitsOf(taken)
      PROVE  VerdictsInv'
  <2>1. pc'[r] = label /\ addr'[r] = n /\ taken' = taken
    BY <1>2 DEF Begin, TypeOK, nameVars
  <2>2. \A q \in Request : q # r => pc'[q] = pc[q] /\ addr'[q] = addr[q]
    BY <1>2 DEF Begin, TypeOK
  <2> QED BY <1>1, <1>2, <2>1, <2>2, VerdictsStay
<1>3. ASSUME NEW r \in Request, NEW label, Goto(r, label), \A n \in taken : author'[n] = author[n],
             label \in {"recordingNew", "created"} => author'[addr[r]] = r,
             label = "taken" => Bits[addr[r]] \subseteq BitsOf(taken')
      PROVE  VerdictsInv'
  <2>1. pc'[r] = label /\ addr' = addr /\ \A q \in Request : q # r => pc'[q] = pc[q]
    BY <1>3 DEF Goto, TypeOK
  <2> QED BY <1>1, <1>3, <2>1, VerdictsStay
<1>4. ASSUME NEW r \in Request, NEW n \in Name, Register(r, n) PROVE VerdictsInv'
  <2>1. MayContain(n) => Bits[n] \subseteq BitsOf(taken)
    BY DEF MayContain, NamesInv, FilterFromRows
  <2> QED BY <1>2, <1>4, <2>1 DEF Register
<1>5. ASSUME NEW r \in Request, NEW n \in Name, Login(r, n) PROVE VerdictsInv'
  BY <1>2, <1>5 DEF Login
<1>6. ASSUME NEW r \in Request, NEW t \in Request, Refresh(r, t) \/ Logout(r, t) PROVE VerdictsInv'
  BY <1>2, <1>6 DEF Refresh, Logout
<1>7. ASSUME NEW r \in Request, InsertOk(r) \/ InsertUnknown(r) PROVE VerdictsInv'
  <2>1. /\ addr[r] \notin taken
        /\ author' = [author EXCEPT ![addr[r]] = r]
        /\ \E label \in {"recordingNew", "failed"} : Goto(r, label)
        /\ pc[r] = "inserting"
    BY <1>7 DEF InsertOk, InsertUnknown, Insert
  <2>2. addr[r] \in Name
    BY <2>1, LabelsApart DEF TypeOK
  <2>3. author'[addr[r]] = r /\ \A n \in taken : author'[n] = author[n]
    BY <2>1, <2>2 DEF TypeOK, UniqueTypeOK
  <2> QED BY <1>3, <2>1, <2>3
<1>8. ASSUME NEW r \in Request, Record(r) \/ RecordFails(r) PROVE VerdictsInv'
  <2>1. /\ Goto(r, Answered(r)) /\ UNCHANGED <<author, taken>>
        /\ pc[r] \in {"recordingNew", "recordingDup"}
    BY <1>8 DEF Record, RecordFails
  <2>2. addr[r] \in taken
    BY <2>1, LabelsApart DEF TypeOK
  <2>3. Bits[addr[r]] \subseteq BitsOf(taken')
    BY <2>1, <2>2, BitsOfOne
  <2>4. Answered(r) \in {"recordingNew", "created"} => author[addr[r]] = r
    BY <2>1 DEF Answered, VerdictsInv
  <2> QED BY <1>3, <2>1, <2>3, <2>4
<1>9. ASSUME NEW r \in Request,
             \/ InsertRefused(r) \/ InsertFails(r) \/ Revoke(r) \/ RevokeFails(r)
             \/ SetToken(r) \/ SetFails(r) \/ Index(r) \/ Crash(r)
      PROVE  VerdictsInv'
  <2>1. /\ author' = author
        /\ \E label \in {"recordingDup", "failed", "setting", "indexing", "granted", "dead"} : Goto(r, label)
    BY <1>9 DEF InsertRefused, InsertFails, Revoke, RevokeFails, SetToken, SetFails, Index, Crash
  <2> QED BY <1>3, <2>1
<1>10. CASE UNCHANGED <<callVars, author>>
  BY <1>1, <1>10, VerdictsStay DEF callVars
<1> QED
  BY <1>4, <1>5, <1>6, <1>7, <1>8, <1>9, <1>10 DEF Next, Serve, vars, StartUp, RedisLost, Expire

\* VerdictsAreJust: 201 goes to the one request that made the account,
\* however many race past the filter, and 409 is never for bits nobody set.
THEOREM RegisterAnswersRight == Spec => []VerdictsAreJust
<1>1. Init => NamesInv /\ VerdictsInv
  BY DEF Init, UniqueInit, NamesInv, FilterFromRows, Sent, AccountsAreKnown, KnownUnless, VerdictsInv
<1>2. VerdictsInv => VerdictsAreJust
  BY DEF VerdictsInv, VerdictsAreJust
<1>3. TypeOK /\ NamesInv /\ VerdictsInv /\ [Next]_vars => NamesInv' /\ VerdictsInv'
  BY KnownNext, VerdictsNext
<1> QED BY <1>1, <1>2, <1>3, TypeInit, TypeNext, PTL DEF Spec

-----------------------------------------------------------------------------
(* Rotation. *)

\* A token is presented only once a client has it, and until then it cannot
\* be taken from Redis but by its end.
TokensInv ==
  \A r \in Request :
    /\ parent[r] # None => pc[parent[r]] = "granted"
    /\ pc[r] = "indexing" => r \in live \cup ended

SessionInv == TokensInv /\ SessionsSurvive /\ RotatedTokensAreGone

\* How requests move: one begins, or one that goes on takes a step.
LEMMA Moves ==
  ASSUME [Next]_vars
  PROVE  \/ UNCHANGED callVars
         \/ \E r \in Request : \E n, label : \E t \in Request \cup {None} :
              Begin(r, n, t, label) /\ (t # None => pc[t] = "granted")
         \/ \E r \in Request, label \in Running \cup {"created", "taken", "granted", "failed", "dead"} :
              pc[r] \in Running /\ Goto(r, label)
<1>1. ASSUME NEW r \in Request, NEW n \in Name, Register(r, n) \/ Login(r, n)
      PROVE  \E label : Begin(r, n, None, label)
  BY <1>1 DEF Register, Login
<1>2. ASSUME NEW r \in Request, NEW t \in Request, Refresh(r, t) \/ Logout(r, t)
      PROVE  pc[t] = "granted" /\ \E label : Begin(r, addr[t], t, label)
  BY <1>2 DEF Refresh, Logout
<1>3. ASSUME NEW r \in Request,
             \/ InsertOk(r) \/ InsertRefused(r) \/ InsertFails(r) \/ InsertUnknown(r)
             \/ Revoke(r) \/ RevokeFails(r) \/ SetToken(r) \/ SetFails(r) \/ Index(r) \/ Crash(r)
      PROVE  \E label \in Running \cup {"created", "taken", "granted", "failed", "dead"} :
               pc[r] \in Running /\ Goto(r, label)
  BY <1>3, LabelsApart DEF InsertOk, InsertRefused, InsertFails, InsertUnknown, Revoke, RevokeFails,
       SetToken, SetFails, Index, Crash
<1>4. ASSUME NEW r \in Request, Record(r) \/ RecordFails(r)
      PROVE  \E label \in {"created", "taken"} : pc[r] \in Running /\ Goto(r, label)
  BY <1>4, LabelsApart DEF Record, RecordFails, Answered
<1> QED
  BY <1>1, <1>2, <1>3, <1>4 DEF Next, Serve, vars, StartUp, RedisLost, Expire

\* What does not change of a request that has begun.
LEMMA BegunStays ==
  ASSUME TypeOK, [Next]_vars
  PROVE  /\ \A q \in Request : pc[q] = "granted" => pc'[q] = "granted"
         /\ \A q \in Request : pc[q] # "idle" => parent'[q] = parent[q]
         /\ \A t \in Request : Uses(t) \subseteq Uses(t)'
         /\ \A q \in Request : parent'[q] # parent[q] /\ parent'[q] # None => pc[parent'[q]] = "granted"
<1>1. CASE UNCHANGED callVars
  BY <1>1 DEF callVars, Uses
<1>2. ASSUME NEW r \in Request, NEW n, NEW label, NEW t \in Request \cup {None}, Begin(r, n, t, label),
             t # None => pc[t] = "granted"
      PROVE  /\ \A q \in Request : pc[q] = "granted" => pc'[q] = "granted"
             /\ \A q \in Request : pc[q] # "idle" => parent'[q] = parent[q]
             /\ \A s \in Request : Uses(s) \subseteq Uses(s)'
             /\ \A q \in Request : parent'[q] # parent[q] /\ parent'[q] # None => pc[parent'[q]] = "granted"
  <2>1. pc[r] = "idle" /\ parent'[r] = t
    BY <1>2 DEF Begin, TypeOK
  <2>2. \A q \in Request : q # r => pc'[q] = pc[q] /\ parent'[q] = parent[q]
    BY <1>2 DEF Begin, TypeOK
  <2>3. \A s \in Request : Uses(s) \subseteq Uses(s)'
    BY <2>1, <2>2 DEF Uses
  <2> QED BY <1>2, <2>1, <2>2, <2>3
<1>3. ASSUME NEW r \in Request, NEW label \in Running \cup {"created", "taken", "granted", "failed", "dead"},
             pc[r] \in Running, Goto(r, label)
      PROVE  /\ \A q \in Request : pc[q] = "granted" => pc'[q] = "granted"
             /\ parent' = parent
             /\ \A s \in Request : Uses(s) \subseteq Uses(s)'
  <2>1. /\ pc'[r] = label /\ parent' = parent
        /\ \A q \in Request : q # r => pc'[q] = pc[q]
    BY <1>3 DEF Goto, TypeOK
  <2>2. /\ pc[r] # "granted"
        /\ label \notin {"idle", "denied", "left", "notLeft"}
    BY <1>3, LabelsApart
  <2> QED BY <2>1, <2>2 DEF Uses
<1> QED BY <1>1, <1>2, <1>3, Moves

\* Which steps write a token and which take one.
LEMMA TokenMoves ==
  ASSUME TypeOK, [Next]_vars
  PROVE  /\ ended \subseteq ended' /\ spared \subseteq spared'
         /\ \A t \in live' \ live : pc[t] = "setting"
         /\ \A t \in live : \/ t \in live' \cup ended'
                            \/ \E q \in Request : parent[q] = t /\ Revoke(q)
<1>1. ASSUME NEW r \in Request, Revoke(r)
      PROVE  /\ UNCHANGED <<ended, spared>> /\ live' \subseteq live
             /\ \A t \in live : t \in live' \/ (parent[r] = t /\ Revoke(r))
  BY <1>1 DEF Revoke
<1>2. ASSUME NEW r \in Request, SetToken(r) \/ SetFails(r)
      PROVE  /\ UNCHANGED <<ended, spared>> /\ live \subseteq live'
             /\ \A t \in live' \ live : pc[t] = "setting"
  BY <1>2 DEF SetToken, SetFails
<1>3. ASSUME NEW r \in Request, RevokeFails(r)
      PROVE  UNCHANGED <<live, ended>> /\ spared \subseteq spared'
  BY <1>3 DEF RevokeFails
<1>4. ASSUME NEW r \in Request, NEW t \in Request, Logout(r, t)
      PROVE  /\ ended \subseteq ended' /\ spared' = spared /\ live' \subseteq live
             /\ \A s \in live : s \in live' \cup ended'
  BY <1>4 DEF Logout, End
<1>5. ASSUME NEW t \in Request, Expire(t)
      PROVE  /\ ended \subseteq ended' /\ spared' = spared /\ live' \subseteq live
             /\ \A s \in live : s \in live' \cup ended'
  BY <1>5 DEF Expire, End
<1>6. CASE RedisLost
  BY <1>6 DEF RedisLost
<1>7. CASE UNCHANGED <<live, ended, spared>>
  BY <1>7
<1> QED
  BY <1>1, <1>2, <1>3, <1>4, <1>5, <1>6, <1>7 DEF Next, Serve, vars, tokenVars, Register, Login, Refresh,
       InsertOk, InsertRefused, InsertFails, InsertUnknown, Record, RecordFails, Index, Crash, StartUp

\* Which steps bring a request to its token.
LEMMA Arrivals ==
  ASSUME TypeOK, [Next]_vars, NEW r \in Request
  PROVE  /\ pc'[r] = "indexing" /\ pc[r] # "indexing" => r \in live'
         /\ pc'[r] = "granted" /\ pc[r] # "granted" => pc[r] = "indexing" /\ live' = live
         /\ pc'[r] \in Issuing \cup {"granted"} /\ pc[r] \notin Issuing \cup {"granted"} =>
              \/ parent'[r] = None
              \/ parent'[r] = parent[r] /\ (parent[r] \notin live' \/ parent[r] \in spared')
<1> DEFINE Goal ==
      /\ pc'[r] = "indexing" /\ pc[r] # "indexing" => r \in live'
      /\ pc'[r] = "granted" /\ pc[r] # "granted" => pc[r] = "indexing" /\ live' = live
      /\ pc'[r] \in Issuing \cup {"granted"} /\ pc[r] \notin Issuing \cup {"granted"} =>
           \/ parent'[r] = None
           \/ parent'[r] = parent[r] /\ (parent[r] \notin live' \/ parent[r] \in spared')
<1> SUFFICES Goal
  OBVIOUS
<1>1. ASSUME pc'[r] = pc[r] \/ pc'[r] \notin {"setting", "indexing", "granted"} PROVE Goal
  BY <1>1, LabelsApart
<1>2. ASSUME NEW q \in Request, q # r, NEW label, Goto(q, label) PROVE Goal
  BY <1>1, <1>2 DEF Goto, TypeOK
<1>3. ASSUME NEW q \in Request, q # r, NEW n, NEW t, NEW label, Begin(q, n, t, label) PROVE Goal
  BY <1>1, <1>3 DEF Begin, TypeOK
<1>4. ASSUME NEW label, label \notin {"setting", "indexing", "granted"}, Goto(r, label) PROVE Goal
  BY <1>1, <1>4 DEF Goto, TypeOK
<1>5. ASSUME NEW n, NEW t, NEW label, label \notin {"setting", "indexing", "granted"}, Begin(r, n, t, label)
      PROVE  Goal
  BY <1>1, <1>5 DEF Begin, TypeOK
<1>6. ASSUME NEW q \in Request, NEW n \in Name, Register(q, n) PROVE Goal
  <2>1. \E label \in {"taken", "inserting"} : Begin(q, n, None, label)
    BY <1>6 DEF Register
  <2> HIDE DEF Goal
  <2> QED BY <1>3, <1>5, <2>1
<1>7. ASSUME NEW q \in Request, NEW n \in Name, Login(q, n) PROVE Goal
  <2>1. CASE Begin(q, n, None, "setting") /\ q = r
    BY <2>1, LabelsApart DEF Begin, TypeOK
  <2>2. \E label \in {"setting", "denied", "failed"} : Begin(q, n, None, label)
    BY <1>7 DEF Login
  <2> HIDE DEF Goal
  <2> QED BY <1>3, <1>5, <2>1, <2>2
<1>8. ASSUME NEW q \in Request, NEW t \in Request, Refresh(q, t) \/ Logout(q, t) PROVE Goal
  <2>1. \E label \in {"revoking", "denied", "left", "notLeft"} : Begin(q, addr[t], t, label)
    BY <1>8 DEF Refresh, Logout
  <2> HIDE DEF Goal
  <2> QED BY <1>3, <1>5, <2>1
<1>9. ASSUME NEW q \in Request,
             InsertOk(q) \/ InsertRefused(q) \/ InsertFails(q) \/ InsertUnknown(q) \/ SetFails(q) \/ Crash(q)
      PROVE  Goal
  <2>1. \E label \in {"recordingNew", "recordingDup", "failed", "dead"} : Goto(q, label)
    BY <1>9 DEF InsertOk, InsertRefused, InsertFails, InsertUnknown, SetFails, Crash
  <2> HIDE DEF Goal
  <2> QED BY <1>2, <1>4, <2>1
<1>10. ASSUME NEW q \in Request, Record(q) \/ RecordFails(q) PROVE Goal
  <2>1. \E label \in {"created", "taken"} : Goto(q, label)
    BY <1>10 DEF Record, RecordFails, Answered
  <2> HIDE DEF Goal
  <2> QED BY <1>2, <1>4, <2>1
<1>11. ASSUME Revoke(r) \/ RevokeFails(r) PROVE Goal
  BY <1>11, LabelsApart DEF Revoke, RevokeFails, Goto, TypeOK
<1>12. CASE SetToken(r)
  BY <1>12, LabelsApart DEF SetToken, Goto, TypeOK
<1>13. CASE Index(r)
  BY <1>13, LabelsApart DEF Index, Goto, TypeOK
<1>14. ASSUME NEW q \in Request, q # r, Revoke(q) \/ RevokeFails(q) \/ SetToken(q) \/ Index(q) PROVE Goal
  <2>1. \E label : Goto(q, label)
    BY <1>14 DEF Revoke, RevokeFails, SetToken, Index
  <2> HIDE DEF Goal
  <2> QED BY <1>2, <1>14, <2>1
<1>15. CASE UNCHANGED callVars
  BY <1>1, <1>15 DEF callVars
<1> HIDE DEF Goal
<1>16. CASE StartUp \/ RedisLost \/ UNCHANGED vars \/ \E t \in Request : Expire(t)
  BY <1>15, <1>16 DEF vars, StartUp, RedisLost, Expire
<1>17. ASSUME NEW q \in Request, Revoke(q) \/ RevokeFails(q) \/ SetToken(q) \/ Index(q) PROVE Goal
  BY <1>11, <1>12, <1>13, <1>14, <1>17
<1>18. ASSUME NEW q \in Request, Serve(q) PROVE Goal
  BY <1>6, <1>7, <1>8, <1>9, <1>10, <1>17, <1>18 DEF Serve
<1> QED BY <1>16, <1>18 DEF Next

LEMMA SessionNext ==
  ASSUME TypeOK, TypeOK', SessionInv, [Next]_vars PROVE SessionInv'
<1> SUFFICES ASSUME NEW r \in Request
             PROVE  /\ parent'[r] # None => pc'[parent'[r]] = "granted"
                    /\ pc'[r] = "indexing" => r \in live' \cup ended'
                    /\ pc'[r] = "granted" => r \in live' \cup ended' \/ Uses(r)' # {}
                    /\ parent'[r] # None /\ pc'[r] \in Issuing \cup {"granted"} =>
                         parent'[r] \notin live' \/ parent'[r] \in spared'
  BY DEF SessionInv, TokensInv, SessionsSurvive, RotatedTokensAreGone
<1>1. parent'[r] # None => pc'[parent'[r]] = "granted"
  <2>1. parent'[r] \in Request \cup {None}
    BY DEF TypeOK
  <2>2. parent'[r] # None => pc[parent'[r]] = "granted"
    BY BegunStays DEF SessionInv, TokensInv
  <2> QED BY <2>1, <2>2, BegunStays
<1>2. pc'[r] = "indexing" => r \in live' \cup ended'
  <2> SUFFICES ASSUME pc'[r] = "indexing", pc[r] = "indexing" PROVE r \in live' \cup ended'
    BY Arrivals
  <2>1. r \in live \cup ended
    BY DEF SessionInv, TokensInv
  <2>2. ~ \E q \in Request : parent[q] = r
    BY AccountsAssumption DEF SessionInv, TokensInv
  <2> QED BY <2>1, <2>2, TokenMoves
<1>3. pc'[r] = "granted" => r \in live' \cup ended' \/ Uses(r)' # {}
  <2>1. CASE pc'[r] = "granted" /\ pc[r] # "granted"
    BY <2>1, Arrivals, TokenMoves DEF SessionInv, TokensInv
  <2>2. CASE pc[r] = "granted"
    <3>1. CASE Uses(r) # {}
      BY <3>1, BegunStays
    <3>2. CASE r \in ended
      BY <3>2, TokenMoves
    <3>3. ASSUME NEW q \in Request, parent[q] = r, Revoke(q) PROVE q \in Uses(r)
      BY <3>3 DEF Revoke, Uses
    <3> QED BY <2>2, <3>1, <3>2, <3>3, TokenMoves DEF SessionInv, SessionsSurvive
  <2> QED BY <2>1, <2>2
<1>4. parent'[r] # None /\ pc'[r] \in Issuing \cup {"granted"} =>
        parent'[r] \notin live' \/ parent'[r] \in spared'
  <2> SUFFICES ASSUME parent'[r] # None, pc'[r] \in Issuing \cup {"granted"},
                      pc[r] \in Issuing \cup {"granted"}
               PROVE  parent'[r] \notin live' \/ parent'[r] \in spared'
    BY Arrivals
  <2>1. parent'[r] = parent[r]
    BY LabelsApart, BegunStays
  <2>2. parent[r] \notin live \/ parent[r] \in spared
    BY <2>1 DEF SessionInv, RotatedTokensAreGone
  <2>3. pc[parent[r]] # "setting"
    BY <2>1 DEF SessionInv, TokensInv
  <2> QED BY <2>1, <2>2, <2>3, TokenMoves
<1> QED BY <1>1, <1>2, <1>3, <1>4

LEMMA SessionInit == Init => SessionInv
<1> SUFFICES ASSUME Init PROVE SessionInv
  OBVIOUS
<1>1. \A r \in Request : pc[r] = "idle" /\ parent[r] = None
  BY DEF Init
<1>2. TokensInv
  BY <1>1 DEF TokensInv
<1>3. SessionsSurvive
  BY <1>1 DEF SessionsSurvive
<1>4. RotatedTokensAreGone
  BY <1>1 DEF RotatedTokensAreGone
<1> QED BY <1>2, <1>3, <1>4 DEF SessionInv

\* SessionsSurvive: however many requests present one token, while calls
\* fail and processes die, a client's token is in Redis, has ended, or is
\* being or has been exchanged.
THEOREM RotationKeepsSessions == Spec => []SessionsSurvive
<1>1. SessionInv => SessionsSurvive
  BY DEF SessionInv
<1>2. TypeOK /\ TypeOK' /\ SessionInv /\ [Next]_vars => SessionInv'
  BY SessionNext
<1> QED BY <1>1, <1>2, SessionInit, TypeInit, TypeNext, PTL DEF Spec

\* RotatedTokensAreGone: no exchanged token comes back or is left behind, but
\* by a DEL that failed.
THEOREM RotationRetiresTokens == Spec => []RotatedTokensAreGone
<1>1. SessionInv => RotatedTokensAreGone
  BY DEF SessionInv
<1>2. TypeOK /\ TypeOK' /\ SessionInv /\ [Next]_vars => SessionInv'
  BY SessionNext
<1> QED BY <1>1, <1>2, SessionInit, TypeInit, TypeNext, PTL DEF Spec
=============================================================================
