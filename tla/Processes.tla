------------------------------- MODULE Processes -------------------------------
(***************************************************************************)
(* The life of one process, of cmd/api or of cmd/worker: it opens its      *)
(* stores one after another, serves requests or runs consumers, is told to *)
(* stop or loses a part, drains for a while, and closes the stores.        *)
(***************************************************************************)
EXTENDS Naturals, Sequences, FiniteSets

CONSTANTS
  MaxRequests  \* bound: requests in flight

ASSUME ProcessesAssumption == MaxRequests \in Nat

VARIABLES
  role,       \* which main it is
  stage,      \* where its run function is
  built,      \* how many steps of the construction are done
  opened,     \* the stores that are open
  inflight,   \* api: the requests that handlers work on
  running,    \* worker: the goroutines of the wait group that have not returned
  querying,   \* how many of either hold a connection of the Postgres pool
  cancelled,  \* worker: whether ctx is cancelled
  signalled,  \* whether SIGINT or SIGTERM was delivered
  broken,     \* history: whether a part has returned an error
  quiet,      \* history: whether the like consumer has returned without one
  late,       \* history: whether the drain was cut off
  exit        \* what run returns

processVars == <<role, stage, built, opened, inflight, running, querying, cancelled, signalled, broken, quiet, late, exit>>

Stores    == {"postgres", "redis", "clickhouse"}
Consumers == {"like_worker", "like_reconciler", "view_worker"}

\* app.New and the run of cmd/worker.
Steps ==
  IF role = "api" THEN <<"postgres", "redis", "clickhouse", "emails", "products", "feed">>
  ELSE <<"postgres", "redis", "clickhouse">>

\* Application.Close, and the deferred calls of cmd/worker.
CloseOrder ==
  IF role = "api" THEN <<"postgres", "redis", "clickhouse">> ELSE <<"clickhouse", "redis", "postgres">>

ProcessInit ==
  /\ role \in {"api", "worker"}
  /\ stage = "building"
  /\ built = 0
  /\ opened = {}
  /\ inflight = 0
  /\ running = {}
  /\ querying = 0
  /\ cancelled = FALSE
  /\ signalled = FALSE
  /\ broken = FALSE
  /\ quiet = FALSE
  /\ late = FALSE
  /\ exit = "none"

\* Who may hold a connection of Postgres, and a step after which those who
\* are left hold all that are held.
Queriers == IF role = "api" THEN inflight ELSE Cardinality(running \cap {"like_worker", "like_reconciler"})

HoldersStay == querying <= Queriers' /\ UNCHANGED querying

IsNext(store) ==
  /\ stage = "closing"
  /\ store \in opened
  /\ \E i \in DOMAIN CloseOrder :
       CloseOrder[i] = store /\ \A j \in 1 .. i - 1 : CloseOrder[j] \notin opened

Go(next) == stage' = next /\ UNCHANGED <<role, built>>

Return(result) == Go("closing") /\ exit' = result

-----------------------------------------------------------------------------
(* Construction. *)

Build ==
  /\ stage = "building"
  /\ built < Len(Steps)
  /\ built' = built + 1
  /\ opened' = opened \cup (Stores \cap {Steps[built + 1]})
  /\ UNCHANGED <<role, stage, inflight, running, querying, cancelled, signalled, broken, quiet, late, exit>>

BuildFails ==
  /\ stage = "building"
  /\ built < Len(Steps)
  /\ Return("error")
  /\ broken' = TRUE
  /\ UNCHANGED <<opened, inflight, running, querying, cancelled, signalled, quiet, late>>

Start ==
  /\ stage = "building"
  /\ built = Len(Steps)
  /\ Go("running")
  /\ running' = IF role = "worker" THEN Consumers \cup {"metrics"} ELSE {}
  /\ UNCHANGED <<opened, inflight, querying, cancelled, signalled, broken, quiet, late, exit>>

-----------------------------------------------------------------------------
(* The HTTP server. *)

Arrive ==
  /\ role = "api"
  /\ stage = "running"
  /\ inflight < MaxRequests
  /\ inflight' = inflight + 1
  /\ UNCHANGED <<role, stage, built, opened, running, querying, cancelled, signalled, broken, quiet, late, exit>>

Respond ==
  /\ stage # "ended"
  /\ inflight > 0
  /\ inflight' = inflight - 1
  /\ UNCHANGED <<role, stage, built, opened, running, cancelled, signalled, broken, quiet, late, exit>>
  /\ HoldersStay

\* A handler, or a consumer, has a statement under way, for which nothing sets
\* a limit.
Query ==
  /\ stage # "ended"
  /\ "postgres" \in opened /\ ~IsNext("postgres")
  /\ querying < Queriers
  /\ querying' = querying + 1
  /\ UNCHANGED <<role, stage, built, opened, inflight, running, cancelled, signalled, broken, quiet, late, exit>>

Reply ==
  /\ querying > 0
  /\ stage # "ended"
  /\ querying' = querying - 1
  /\ UNCHANGED <<role, stage, built, opened, inflight, running, cancelled, signalled, broken, quiet, late, exit>>

\* ListenAndServe returns an error: run returns it at once.
ServerFails ==
  /\ role = "api"
  /\ stage = "running"
  /\ Return("error")
  /\ broken' = TRUE
  /\ UNCHANGED <<opened, inflight, running, querying, cancelled, signalled, quiet, late>>

-----------------------------------------------------------------------------
(* The goroutines of the worker. *)

\* Mutant: the error is logged and nothing else.
ConsumerFailsAlone(c) ==
  /\ stage # "ended"
  /\ c \in running \cap {"like_worker", "view_worker"}
  /\ ~cancelled
  /\ running' = running \ {c}
  /\ broken' = TRUE
  /\ UNCHANGED <<role, stage, built, opened, inflight, cancelled, signalled, quiet, late, exit>>
  /\ HoldersStay

\* A consumer, when its goroutine comes to run, cannot make its group: its
\* error cancels the context of all.
ConsumerFails(c) ==
  /\ stage # "ended"
  /\ c \in running \cap {"like_worker", "view_worker"}
  /\ ~cancelled
  /\ running' = running \ {c}
  /\ cancelled' = TRUE
  /\ broken' = TRUE
  /\ UNCHANGED <<role, stage, built, opened, inflight, signalled, quiet, late, exit>>
  /\ HoldersStay

\* The like consumer takes a dial timeout, which is a DeadlineExceeded, for
\* its own context's end and returns nil.
ConsumerQuits ==
  /\ stage # "ended"
  /\ "like_worker" \in running
  /\ running' = running \ {"like_worker"}
  /\ quiet' = TRUE
  /\ UNCHANGED <<role, stage, built, opened, inflight, cancelled, signalled, broken, late, exit>>
  /\ HoldersStay

\* The metrics server cannot listen, which is logged.
MetricsFails ==
  /\ stage # "ended"
  /\ "metrics" \in running
  /\ running' = running \ {"metrics"}
  /\ UNCHANGED <<role, stage, built, opened, inflight, querying, cancelled, signalled, broken, quiet, late, exit>>

GoroutineStops(g) ==
  /\ stage # "ended"
  /\ g \in running
  /\ cancelled
  /\ running' = running \ {g}
  /\ UNCHANGED <<role, stage, built, opened, inflight, cancelled, signalled, broken, quiet, late, exit>>
  /\ HoldersStay

-----------------------------------------------------------------------------
(* The end. *)

\* Before signal.Notify, a signal kills the process.
Signal ==
  /\ stage \in {"building", "running"}
  /\ ~signalled
  /\ signalled' = TRUE
  /\ IF stage = "building" THEN Go("ended") /\ exit' = "killed" /\ opened' = {}
     ELSE UNCHANGED <<role, stage, built, exit, opened>>
  /\ UNCHANGED <<inflight, running, querying, cancelled, broken, quiet, late>>

\* The select of either run.
Stop ==
  /\ stage = "running"
  /\ signalled \/ cancelled
  /\ Go("draining")
  /\ cancelled' = (role = "worker")
  /\ UNCHANGED <<opened, inflight, running, querying, signalled, broken, quiet, late, exit>>

\* Mutant: nobody is waited for.
DrainedAtOnce ==
  /\ stage = "draining"
  /\ Return("ok")
  /\ UNCHANGED <<opened, inflight, running, querying, cancelled, signalled, broken, quiet, late>>

\* Shutdown has seen the last request answered, or the wait group is done.
Drained ==
  /\ stage = "draining"
  /\ inflight = 0 /\ running = {}
  /\ Return("ok")
  /\ UNCHANGED <<opened, inflight, running, querying, cancelled, signalled, broken, quiet, late>>

\* SHUTDOWN_TIMEOUT, and the worker's ten seconds, which it does not report.
DrainTimeout ==
  /\ stage = "draining"
  /\ Return(IF role = "api" THEN "error" ELSE "ok")
  /\ late' = TRUE
  /\ UNCHANGED <<opened, inflight, running, querying, cancelled, signalled, broken, quiet>>

\* The pool of Postgres waits until its last connection is given back.
CloseNext ==
  /\ \E store \in opened :
       /\ IsNext(store)
       /\ store = "postgres" => querying = 0
       /\ opened' = opened \ {store}
  /\ UNCHANGED <<role, stage, built, inflight, running, querying, cancelled, signalled, broken, quiet, late, exit>>

End ==
  /\ stage = "closing"
  /\ opened = {}
  /\ Go("ended")
  /\ UNCHANGED <<opened, inflight, running, querying, cancelled, signalled, broken, quiet, late, exit>>

Run == Build \/ BuildFails \/ Start \/ Stop \/ Drained \/ DrainTimeout \/ CloseNext \/ End

ProcessNext ==
  \/ Run
  \/ Arrive \/ Respond \/ ServerFails \/ Query \/ Reply
  \/ \E c \in Consumers : ConsumerFails(c)
  \/ ConsumerQuits \/ MetricsFails
  \/ \E g \in Consumers \cup {"metrics"} : GoroutineStops(g)
  \/ Signal

\* The goroutine of main goes on, its timers fire, and Postgres answers.
\* Requests and consumers may hang otherwise.
ProcessSpec == ProcessInit /\ [][ProcessNext]_processVars /\ WF_processVars(Run) /\ WF_processVars(Reply)

-----------------------------------------------------------------------------
(* Properties. *)

\* No store is closed under a request or a consumer, and none is left open
\* when main returns, wherever the construction failed: only a drain that was
\* cut off, or a listener that failed under its requests, closes too early.
StoresOutliveTheirUsers ==
  /\ (inflight > 0 \/ running # {}) /\ stage # "ended" =>
       Stores \subseteq opened \/ late \/ (role = "api" /\ broken)
  /\ stage = "ended" => opened = {}

\* A process that was told to stop, or a part of which has returned an error,
\* ends, though requests and consumers hang in anything but a statement.
StopsWhenToldOrBroken == signalled \/ broken ~> stage = "ended"
=============================================================================
