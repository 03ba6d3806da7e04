------------------------------- MODULE Accounts -------------------------------
(***************************************************************************)
(* The auth service of internal/auth: Register, Login, Refresh and Logout  *)
(* of concurrent requests, on users in Postgres, the Bloom filter of       *)
(* e-mail addresses (UniqueName) and the refresh tokens in Redis.          *)
(*                                                                         *)
(* A Request is one HTTP call.  It is given at most one refresh token, so  *)
(* its identity serves as the id of that token.  Access tokens are signed  *)
(* and kept nowhere.                                                       *)
(***************************************************************************)
EXTENDS UniqueName

CONSTANTS
  Request,   \* the calls
  None,      \* no token, no request, no address
  MaxFaults  \* bound: failed calls, lost replies, crashes, losses of Redis

ASSUME AccountsAssumption ==
  /\ None \notin Request
  /\ None \notin Name
  /\ MaxFaults \in Nat

VARIABLES
  serving,  \* whether an API process has come up
  live,     \* the refresh tokens in Redis
  index,    \* the per-user index of tokens in Redis
  pc,       \* where each request is, and how it was answered
  addr,     \* the address of the account that it is about
  parent,   \* the refresh token that it presents
  author,   \* history: the request that inserted the account of an address
  ended,    \* history: the tokens that expired, were logged out or lost by Redis
  spared,   \* history: the presented tokens whose DEL failed
  faults    \* how many faults have happened

tokenVars == <<live, index, ended, spared>>
callVars  == <<pc, addr, parent>>
vars == <<nameVars, serving, tokenVars, callVars, author, faults>>

Registering == {"inserting", "recordingNew", "recordingDup"}
Issuing     == {"setting", "indexing"}
OfAccount   == Issuing \cup {"recordingNew", "recordingDup", "created", "revoking", "granted"}
Running     == Registering \cup {"revoking"} \cup Issuing
Broken      == {"failed", "dead"}
Final       == {"created", "taken", "granted", "denied", "left", "notLeft"} \cup Broken

TypeOK ==
  /\ UniqueTypeOK
  /\ serving \in BOOLEAN
  /\ live \subseteq Request
  /\ index \in [Name -> SUBSET Request]
  /\ pc \in [Request -> {"idle"} \cup Running \cup Final]
  /\ addr \in [Request -> Name \cup {None}]
  /\ \A r \in Request : pc[r] \in Running => addr[r] \in Name
  /\ \A r \in Request : pc[r] \in OfAccount => addr[r] \in taken
  /\ parent \in [Request -> Request \cup {None}]
  /\ \A r \in Request : pc[r] = "revoking" => parent[r] # None
  /\ author \in [Name -> Request \cup {None}]
  /\ ended \subseteq Request
  /\ spared \subseteq Request
  /\ faults \in 0 .. MaxFaults

Init ==
  /\ UniqueInit
  /\ serving = FALSE
  /\ live = {}
  /\ index = [n \in Name |-> {}]
  /\ pc = [r \in Request |-> "idle"]
  /\ addr = [r \in Request |-> None]
  /\ parent = [r \in Request |-> None]
  /\ author = [n \in Name |-> None]
  /\ ended = {}
  /\ spared = {}
  /\ faults = 0

Fault == faults < MaxFaults /\ faults' = faults + 1

Goto(r, label) == pc' = [pc EXCEPT ![r] = label] /\ UNCHANGED <<addr, parent>>

Begin(r, n, t, label) ==
  /\ serving
  /\ pc[r] = "idle"
  /\ pc' = [pc EXCEPT ![r] = label]
  /\ addr' = [addr EXCEPT ![r] = n]
  /\ parent' = [parent EXCEPT ![r] = t]

-----------------------------------------------------------------------------
(* Register: BF.EXISTS, INSERT, BF.ADD. *)

\* A name that may be in the filter is refused; a failed look goes on to
\* the table.
Register(r, n) ==
  /\ \/ MayContain(n) /\ Begin(r, n, None, "taken") /\ UNCHANGED faults
     \/ ~MayContain(n) /\ Begin(r, n, None, "inserting") /\ UNCHANGED faults
     \/ Begin(r, n, None, "inserting") /\ Fault
  /\ UNCHANGED <<nameVars, serving, tokenVars, author>>

InsertOk(r) ==
  /\ pc[r] = "inserting"
  /\ Insert(addr[r])
  /\ author' = [author EXCEPT ![addr[r]] = r]
  /\ Goto(r, "recordingNew")
  /\ UNCHANGED <<filterVars, missing, serving, tokenVars, faults>>

\* SQLSTATE 23505.
InsertRefused(r) ==
  /\ pc[r] = "inserting"
  /\ Refused(addr[r])
  /\ Goto(r, "recordingDup")
  /\ UNCHANGED <<filterVars, missing, serving, tokenVars, author, faults>>

\* Mutant: the address is recorded whatever the error of the INSERT.
InsertFailsRecorded(r) ==
  /\ pc[r] = "inserting"
  /\ Fault
  /\ Goto(r, "recordingDup")
  /\ UNCHANGED <<nameVars, serving, tokenVars, author>>

\* Any other error.
InsertFails(r) ==
  /\ pc[r] = "inserting"
  /\ Fault
  /\ Goto(r, "failed")
  /\ UNCHANGED <<nameVars, serving, tokenVars, author>>

\* The row is committed and the reply lost: nothing records the address.
InsertUnknown(r) ==
  /\ pc[r] = "inserting"
  /\ Fault
  /\ Insert(addr[r])
  /\ author' = [author EXCEPT ![addr[r]] = r]
  /\ missing' = missing \cup {addr[r]}
  /\ Goto(r, "failed")
  /\ UNCHANGED <<filterVars, serving, tokenVars>>

Answered(r) == IF pc[r] = "recordingNew" THEN "created" ELSE "taken"

Record(r) ==
  /\ pc[r] \in {"recordingNew", "recordingDup"}
  /\ Add(addr[r])
  /\ Goto(r, Answered(r))
  /\ UNCHANGED <<taken, warming, rest, fresh, missing, serving, tokenVars, author, faults>>

\* The error of BF.ADD is logged.
RecordFails(r) ==
  /\ pc[r] \in {"recordingNew", "recordingDup"}
  /\ Fault
  /\ missing' = missing \cup {addr[r]}
  /\ Goto(r, Answered(r))
  /\ UNCHANGED <<taken, filterVars, serving, tokenVars, author>>

-----------------------------------------------------------------------------
(* Login and Refresh end in issueTokens: SET of the token, then its index. *)

\* Mutant: an address without an account is let in.
LoginUnknown(r, n) ==
  /\ \/ Begin(r, n, None, "setting") /\ UNCHANGED faults
     \/ Begin(r, n, None, "denied") /\ UNCHANGED faults
     \/ Begin(r, n, None, "failed") /\ Fault
  /\ UNCHANGED <<nameVars, serving, tokenVars, author>>

\* FindByEmail and the right password; the wrong one is denied like an
\* address that has no account.
Login(r, n) ==
  /\ \/ n \in taken /\ Begin(r, n, None, "setting") /\ UNCHANGED faults
     \/ Begin(r, n, None, "denied") /\ UNCHANGED faults
     \/ Begin(r, n, None, "failed") /\ Fault
  /\ UNCHANGED <<nameVars, serving, tokenVars, author>>

\* Validate: GET of the presented token, which a client was given.  Every
\* error of it is a 401.
Refresh(r, t) ==
  /\ pc[t] = "granted"
  /\ \/ t \in live /\ Begin(r, addr[t], t, "revoking") /\ UNCHANGED faults
     \/ t \notin live /\ Begin(r, addr[t], t, "denied") /\ UNCHANGED faults
     \/ Begin(r, addr[t], t, "denied") /\ Fault
  /\ UNCHANGED <<nameVars, serving, tokenVars, author>>

\* Mutant: the whole index of the user is revoked.
RevokeAll(r) ==
  /\ pc[r] = "revoking"
  /\ live' = live \ ({parent[r]} \cup index[addr[r]])
  /\ Goto(r, "setting")
  /\ UNCHANGED <<nameVars, serving, index, ended, spared, author, faults>>

\* DEL, whether or not the token is still there.
Revoke(r) ==
  /\ pc[r] = "revoking"
  /\ live' = live \ {parent[r]}
  /\ Goto(r, "setting")
  /\ UNCHANGED <<nameVars, serving, index, ended, spared, author, faults>>

\* Mutant: the failure of the DEL is taken for its success.
RevokeFailsUnseen(r) ==
  /\ pc[r] = "revoking"
  /\ Fault
  /\ Goto(r, "setting")
  /\ UNCHANGED <<nameVars, serving, live, index, ended, spared, author>>

\* A failed DEL is logged and the request goes on; one that was done and
\* whose reply was lost is Revoke.
RevokeFails(r) ==
  /\ pc[r] = "revoking"
  /\ Fault
  /\ spared' = spared \cup {parent[r]}
  /\ Goto(r, "setting")
  /\ UNCHANGED <<nameVars, serving, live, index, ended, author>>

SetToken(r) ==
  /\ pc[r] = "setting"
  /\ live' = live \cup {r}
  /\ Goto(r, "indexing")
  /\ UNCHANGED <<nameVars, serving, index, ended, spared, author, faults>>

\* The client gets no token, though one may be in Redis.
SetFails(r) ==
  /\ pc[r] = "setting"
  /\ Fault
  /\ live' \in {live, live \cup {r}}
  /\ Goto(r, "failed")
  /\ UNCHANGED <<nameVars, serving, index, ended, spared, author>>

\* SADD and EXPIRE in one pipeline, whose failure is no error.
Index(r) ==
  /\ pc[r] = "indexing"
  /\ \/ index' = [index EXCEPT ![addr[r]] = @ \cup {r}] /\ UNCHANGED faults
     \/ UNCHANGED index /\ Fault
  /\ Goto(r, "granted")
  /\ UNCHANGED <<nameVars, serving, live, ended, spared, author>>

End(t) == live' = live \ {t} /\ ended' = ended \cup {t}

\* A failed DEL may have been done.
Logout(r, t) ==
  /\ pc[t] = "granted"
  /\ \/ Begin(r, addr[t], t, "left") /\ End(t) /\ UNCHANGED faults
     \/ Begin(r, addr[t], t, "notLeft") /\ (End(t) \/ UNCHANGED <<live, ended>>) /\ Fault
  /\ UNCHANGED <<nameVars, serving, index, spared, author>>

-----------------------------------------------------------------------------
(* Time, crashes, and processes that start. *)

Expire(t) ==
  /\ t \in live
  /\ End(t)
  /\ UNCHANGED <<nameVars, serving, index, spared, callVars, author, faults>>

\* The process of a request dies between two of its calls.
Crash(r) ==
  /\ pc[r] \in Running
  /\ Fault
  /\ missing' = missing \cup (IF pc[r] = "recordingNew" THEN {addr[r]} ELSE {})
  /\ Goto(r, "dead")
  /\ UNCHANGED <<taken, filterVars, serving, tokenVars, author>>

RedisLost ==
  /\ Fault
  /\ FilterLost
  /\ live' = {}
  /\ ended' = ended \cup live
  /\ index' = [n \in Name |-> {}]
  /\ UNCHANGED <<serving, spared, callVars, author>>

\* app.New of some replica: it serves once its warm-up has ended.
StartUp ==
  /\ \/ (WarmUp \/ WarmBatch) /\ UNCHANGED <<serving, faults>>
     \/ Warmed /\ serving' = TRUE /\ UNCHANGED faults
     \/ WarmFails /\ Fault /\ UNCHANGED serving
  /\ UNCHANGED <<tokenVars, callVars, author>>

Serve(r) ==
  \/ \E n \in Name : Register(r, n) \/ Login(r, n)
  \/ \E t \in Request : Refresh(r, t) \/ Logout(r, t)
  \/ InsertOk(r) \/ InsertRefused(r) \/ InsertFails(r) \/ InsertUnknown(r)
  \/ Record(r) \/ RecordFails(r)
  \/ Revoke(r) \/ RevokeFails(r)
  \/ SetToken(r) \/ SetFails(r) \/ Index(r)
  \/ Crash(r)

Next ==
  \/ \E r \in Request : Serve(r) \/ Expire(r)
  \/ StartUp
  \/ RedisLost

Spec == Init /\ [][Next]_vars

-----------------------------------------------------------------------------
(* Properties. *)

Uses(t) == {r \in Request : parent[r] = t /\ pc[r] \notin {"idle", "denied", "left", "notLeft"}}

\* Register says 201 only to the request that made the account, however
\* many race past the filter, and 409 only for an address whose bits are all
\* bits of addresses that have accounts: an address nobody has is never
\* refused for a registration that failed.
VerdictsAreJust ==
  \A r \in Request :
    /\ pc[r] = "created" => author[addr[r]] = r
    /\ pc[r] = "taken" => Bits[addr[r]] \subseteq BitsOf(taken)

\* An account is in the Bloom filter, or about to be added, unless a failed
\* call, a crash or the loss of Redis since the last warm-up kept it out: the
\* warm-up of a starting process leaves out no account that it found.
AccountsAreKnown ==
  KnownUnless({addr[r] : r \in {q \in Request : pc[q] = "recordingNew"}})

\* Rotation never loses a session: a token that a client has is in Redis, or
\* it expired, was logged out or lost by Redis, or a Refresh that presented it
\* goes on, or has been given its successor, or was broken by a fault.
SessionsSurvive ==
  \A t \in Request : pc[t] = "granted" =>
    t \in live \cup ended \/ Uses(t) # {}

\* A refresh token that has been exchanged is no longer in Redis when its
\* successor is made, and never comes back, unless its DEL failed.
RotatedTokensAreGone ==
  \A r \in Request :
    parent[r] # None /\ pc[r] \in Issuing \cup {"granted"} =>
      parent[r] \notin live \/ parent[r] \in spared

\* What docs/edge-cases.md says of a token that two parties use: the second
\* one gets a 401.
OneUsePerToken ==
  \A q, r \in Request :
    q # r /\ parent[q] # None /\ pc[q] = "granted" /\ pc[r] = "granted" => parent[q] # parent[r]
=============================================================================
