# vidmerce in TLA+

Models, model-checking runs and machine-checked proofs for the parts of vidmerce
where something can go wrong that a test would hardly reach: work handed from
the API to a worker through a Redis stream, counters kept in two places, caches
and locks shared by replicas. Paths below are those of the repository.

- [The system](#the-system)
- [Plan](#plan)
- [Modules](#modules)
- [Runs](#runs)
- [Bounds](#bounds)
- [Fairness](#fairness)
- [Proofs](#proofs)
- [Where the code and its documents part](#where-the-code-and-its-documents-part)
- [Not modelled](#not-modelled)

## The system

vidmerce is a video service: an API process in any number of replicas, one
worker process, Postgres, Redis and ClickHouse.

| component | state | operations | what makes it correct |
|---|---|---|---|
| likes, API side (`internal/like/service.go`) | Redis: `user:{uid}:liked:videos`, `video:{vid}:likes`, `stream:likes` | `Like`, `Unlike`: one Lua script | the counter is the size of what it counts; each change is streamed once, in the order of the script |
| likes, worker (`worker.go`, `repository.go`) | Redis: consumer group with its cursor and pending list; Postgres: `likes`, `video_stats.likes_count` | `ensureGroup`, `read`, `process` (`Apply`, `XACK`) | each edge follows its user forward, the count is the number of edges, nothing is acknowledged unapplied |
| likes, reconciler (`reconciler.go`) | none of its own | `Once`: sample, two counts, a write | drift goes away; what is right stays right |
| views (`internal/view`) | Redis: `view:unique:*`, `video:{id}:dur`, `stream:views`, consumer group; the worker's batch; ClickHouse rows | `Track` (filter chain, `TryMark`, `XADD`), `Run`, `flush` | an acknowledged view is in ClickHouse; at most one unique view of a window; the batch stays small |
| stats (`internal/stats`) | Redis: `stats:*`, `lock:stats:*`; a singleflight table per process | `Get`: cache, singleflight, lock, compute, write, release | nobody releases another's lock; a result is never half computed; nobody waits for ever |
| rate limiter (`internal/platform/ratelimit`) | Redis: level and time per bucket | `Allow`: one Lua script with the caller's clock | no more than capacity and rate admit; a rejected call costs nothing |
| auth (`internal/auth`) | Postgres: `users`; Redis: refresh tokens, a Bloom filter | `Register`, `Login`, `Refresh`, `Logout` | one account per address, and no free address refused; rotation loses no session and leaves no old token |
| Bloom filters (`internal/platform/bloom`), products (`internal/product`) | Redis Bloom filters; Postgres: `products` with `UNIQUE (video_id)` | `Add`, `Exists`, warm-up; `Create` | the filter never refuses a free name, the constraint never admits a taken one |
| videos (`internal/video`), JSON cache (`internal/platform/cache`) | Postgres: `videos`; Redis: `video:*` | `Create`, `Get`, `Exists`, `AssertOwner` | what was created is found, whatever the cache does |
| feed (`internal/feed`) | Redis: `feed:global`, a capped sorted set, or Postgres alone | `Publish`, `Warmup`, `Fetch` with a cursor | paging shows each video once and passes over none |
| wiring (`cmd/api`, `cmd/worker`, `internal/platform/app`) | stores, goroutines, contexts | construct, run, supervise, drain, close | no store is closed under its users or left open; half a worker never runs on |

How they interact: the API writes likes and views to Redis only and answers at
once; the worker moves them to Postgres and ClickHouse; the stats service reads
those two and caches the result in Redis; the reconciler compares two tables that
the worker writes; the video service publishes to the feed after its commit.
Nothing but Redis and Postgres is shared between processes, and within a process
the singleflight table of the stats service is the only shared state.

What is hard: two systems with no transaction across them (Redis to Postgres,
Redis to ClickHouse), so every protocol here is "do, then acknowledge" and the
question is what a failure between the two leaves behind; reads, comparisons and
writes in separate statements with another writer in between; locks that expire;
clocks that are the caller's. `PROJECT.json` lists these hazards line by line
with the properties that cover them.

## Plan

In the order of what would hurt most; each step is a module or a group of them, its runs,
and then its proofs.

1. **Likes** (done): `LikeStore`, `StreamGroup`, `LikePipeline`, `LikeLedger`,
   `LikeReconciler`, with the proofs of the safety of both and of the refinement.
2. **Views** (done): `ViewPipeline`, the unique mark, the stream and the batching worker,
   with the proofs of its safety.
3. **Stats** (done): `StatsService`, replicas with several requests each, singleflight,
   the lock with its token and expiry, the cache, with the proofs of its safety.
4. **Names and sessions** (done): `UniqueName`, a Bloom filter in front of a UNIQUE column
   with the warm-up beside it; `Accounts`, registration and the rotation of refresh tokens,
   and `Catalog`, videos and products behind their caches, both with proofs.
5. **Feed** (done): `Feed`, clients that page while videos are published, with proofs.
6. **Rate limiter** (done): `LeakyBucket` and `ViewFilters`, with proofs.
7. **Processes** (done): construction, supervision, draining and closing, with the proof of
   its safety.
8. **Left**: a Redis that goes back by its last second under the two pipelines.

## Modules

| module | models |
|---|---|
| `LikeStore` | the two tables and what one SQL statement does to them; no behaviour of its own |
| `StreamGroup` | a Redis stream and its consumer group: `XADD` with `MAXLEN ~`, `ensureGroup`, `XREADGROUP >`; shared by both pipelines |
| `LikePipeline` | the script and the like worker, on a `StreamGroup`, and its mapping to a `LikeLedger` |
| `LikeLedger` | the abstract promise: Postgres follows each user's decisions forward |
| `MCLikePipeline` | what documents, comments and tests claim of the pipeline |
| `LikeReconciler` | the reconciler's pass beside a worker that changes the same rows |
| `ViewPipeline` | `Track` in two calls, the expiry of marks, and the batching view worker, on a `StreamGroup` |
| `StatsService` | `Get` and `fetch` of requests at several replicas, for one video |
| `MCStatsService` | which requests come to which replica |
| `UniqueName` | a Bloom filter and the UNIQUE column behind it, and the warm-up; shared by accounts and products |
| `Accounts` | `Register`, `Login`, `Refresh`, `Logout` of concurrent requests, on a `UniqueName` |
| `Catalog` | videos and products behind their JSON caches, on a `UniqueName` |
| `Feed` | `Publish`, `Warmup` and `Fetch` in either mode |
| `LeakyBucket` | one bucket: the script, and what its callers make of the answer |
| `ViewFilters` | the numbers of the view filters: how much has to be watched, and the bucket of a video |
| `Processes` | the life of one process of `cmd/api` or `cmd/worker` |
| `MCAccounts`, `MCCatalog`, `MCFeed`, `MCLeakyBucket` | names, bits, users, ids and policies for TLC |
| `MCPlatform` | the rate limiter and the processes side by side; they share nothing, so a behaviour is of one of them |
| `LikePipeline_proofs` | theorems about the pipeline and its refinement; lemmas about `LikeStore` |
| `LikeReconciler_proofs`, `StatsService_proofs`, `Accounts_proofs`, `Catalog_proofs`, `Feed_proofs` | theorems about the module they are named after |
| `ViewPipeline_proofs` | theorems about the pipeline; lemmas about `StreamGroup` |
| `Platform_proofs` | theorems about `LeakyBucket`, `ViewFilters` and `Processes` |

### LikePipeline

| variable | in the code |
|---|---|
| `liked`, `hot` | the set of a user and the counter of a video in Redis |
| `log`, `kept` | every `XADD` in order, and the oldest entry that `MAXLEN ~` has left |
| `grouped`, `cursor`, `pel` | the consumer group, its last-delivered-id, its pending entries |
| `pc`, `batch` | where a worker is in `Run`, and the entries of `entries` still to process |
| `edges`, `count` | `likes`, `video_stats.likes_count` |
| `applied`, `faults` | history: the entries whose statement committed; how many faults there were |

The script is one action, because Redis runs it as one; its no-op replies change
nothing and have no action. A stream id is a position in the order of `XADD`.
`Apply` and `XACK` are two calls, hence two actions (`ApplyOk`, `Ack`), and each
has its failures: nothing was committed (`ApplyFails`), it was and the reply was
lost (`ApplyUnknown`), the acknowledgement was lost (`AckLost`), a read delivered
and its reply was lost (`ReadLost`). An acknowledgement that arrived and whose
reply was lost is `Ack`, since `process` ignores the error. A lost `XADD` reply
changes what the client is told, not the state. `Stop` is the end of a process at
any point, and also a cancelled context: after that every call fails, so what is
left of the batch stays pending either way.

`Stored` is a subset of `Video`: the handler checks only that the id is
well-formed, so a like may name a video that has no row. `ApplyRefused` is what
the foreign key makes of it.

### LikeReconciler

`byAge` is the order of `updated_at`: only the order matters to the sample. Init
admits any small drift, since the process may start on a database that has some.
`Change` is the worker seen from the two tables, with events in any order; an event
that changes nothing moves no `updated_at` (the `UPDATE` depends on the inserted or
deleted row) and is left out. The failure of `SampleVideoIDs` ends a pass that has
done nothing and is left out with it.

### ViewPipeline

| variable | in the code |
|---|---|
| `marked` | the keys `view:unique:*` that exist |
| `sending` | what a run of `Track` has between `TryMark` and `XADD`: a view, or nothing |
| `log`, `kept`, `grouped`, `cursor`, `pel` | as for the likes |
| `batch`, `due` | `batch` of `Run`, and whether `lastFlush` is `FlushInterval` ago |
| `pc` | where a worker is: before a read, at the flush check, between `Insert` and `XACK`, or in the same steps of the last flush |
| `rows` | how many rows of `video_views` an entry has |
| `window`, `lost`, `faults` | history: the window of each key; inserts that landed and were reported failed; faults |

A `Key` is a subject and a video, the pair a mark is for. `Track` is two actions,
`Mark` and `Send`, because it is two calls to Redis; other requests, the expiry of the
mark and the end of the process come between them. Each call fails on its own:
`TryMark` with or without its effect (`MarkFails`, after which the view goes out as not
unique), `XADD` (`SendFails`). What the filter chain rejects changes none of these
variables, so the chain is which requests `Mark` is taken for.

The worker's batch outlives a read: `Read` adds to it, the flush check follows, and
`InsertOk` and `Ack` are the two calls of `flush`. `InsertFails` and `InsertUnknown`
keep the batch for the next pass, `AckLost` clears it. `Cancel` is SIGTERM: the call that
is under way fails, and the last flush, which has a context of its own, follows. `Stop`
is the end of the process with no flush. `ReadFails` stands for both kinds of errors of
a read: a deadline falls through to the flush check, any other starts over.

### StatsService

| variable | in the code |
|---|---|
| `stored`, `truth` | whether the video exists, and the counts in ClickHouse and Postgres |
| `cache`, `lock` | `stats:{id}` and `lock:stats:{id}` |
| `pc` | where a call of `Get` is, and how it ended: `answered`, `failed`, `missing` (404), or `dead` with its process |
| `flight` | the entry of `sf` of each replica: the request that runs `fetch` |
| `locked`, `part`, `value` | `gotLock`, the variables of `compute`, what `Get` returned |
| `gone` | the requests whose context is cancelled, because the client hung up |
| `lapsed`, `strayed`, `broken`, `expiries`, `faults` | history |

A request is one call of `Get` and its name is the UUID of its lock token. `fetch` runs with
the context of the request that started it, so `HangUp` makes its later calls fail
(`CallFails`), while a request that joined does not look at its own context: `Finish` hands
one result to all who share the fetch. A call that is under way when the client hangs up
is the same as one that ended just before, since nobody else sees the order, so calls
succeed only before. Each call is an action with its failures; `AcquireUnknown` is a SETNX
that was done and whose reply was lost, which leaves a token nobody has. The reads of
`compute` are two actions in either order; if one fails the other's result is dropped, so
its end is not shown. A count starts at one and a variable that was not filled is zero, so
a half computed value shows. `Exists` is one step: its answer does not change, as nothing
deletes videos and an id is unknown before its video is committed. A cached entry that
does not parse counts as a miss and nothing writes one, so it is left out.

### UniqueName and Accounts

| variable | in the code |
|---|---|
| `taken` | `users.email`, or `products.video_id` |
| `filter` | `bloom:emails` or `bloom:product_videos`: the bits that are set |
| `warming`, `rest` | whether a process is in its warm-up, and the rows it has read and not sent |
| `fresh`, `missing` | history: what that warm-up has sent or will send; the names a fault may have kept out |
| `serving` | whether a process has come up |
| `live`, `index` | the keys `refresh:{id}` and the sets `refresh:user:{uid}` |
| `pc`, `addr`, `parent` | where a request is, whose account it is about, which token it presents |
| `author`, `ended`, `spared`, `faults` | history |

A name is in the filter when its bits are, so a name that was never added may be found: the
constant `Bits` says which bits a name has, and the run gives one address a subset of the
other's. `WarmUp` is one `SELECT`, whose snapshot is `rest`; `WarmBatch` sends full batches
and at last a short one; requests of other replicas run in between. `Register` is `BF.EXISTS`,
`INSERT` and `BF.ADD`, an action each. A request gets at most one token, so a request is also
the id of that token. `Refresh` begins with the `GET` of the presented token, then `Revoke`
(`DEL`), `SetToken` (`SET`) and `Index`. A `DEL` that was done and whose reply was lost is
`Revoke`, because the code goes on in the same way. Passwords, secrets, access tokens and
validation of input change no state.

### Catalog

| variable | in the code |
|---|---|
| `owner` | `videos.user_id` of the videos that have a row |
| `taken`, `filter`, ... | `products.video_id` and its filter, as above |
| `cached`, `rubbish` | the keys `video:{id}`, `product:{id}`, `video:{id}:product` and `video:{id}:dur`, and those whose value cannot be decoded |
| `pc`, `kind`, `vid`, `user` | where a request is, what it asks for, of which video, as whom |
| `seller`, `told`, `toldAt` | history: who inserted a product; what clients were told, and when |

A product goes by its video's name, since there is at most one. The read-through of the
three caches is one set of actions (`LookHit`, `LookMiss`, `LookFails`, `Find`, `Fill`):
the code is the same three times. `POST /products` goes through that of the video, as
`AssertOwner` does, and then on to the filter, the `INSERT`, the filter again and two
cache entries. An entry never differs from its row, because no code changes a row: what
can be wrong with a cache is that an entry is missing, late, lost or cannot be read.

### Feed

| variable | in the code |
|---|---|
| `mode` | `FEED_MODE` |
| `clock`, `at` | the clock of Postgres and `created_at` |
| `step` | how far the request that creates a video is: `INSERT`, `ZADD`, `ZREMRANGEBYRANK` |
| `rows`, `zset` | `videos`, `feed:global` |
| `warm` | what warm-ups have read and not added |
| `cursor`, `pages` | what a client has |
| `stayed`, `owed` | history: what a client has to be given; what the set has to list |

`NOW()` is when a statement begins, so `Create` takes the time and `Commit` makes the row
visible, in any order. The two commands of `Publish` go in one pipeline, which is not
atomic: they are two actions. The order is that of `(created_at, id)`, which is also how a
sorted set breaks ties of its score, for ids of one length. Sets are taken apart with
`IsTop` and `IsOldest` rather than sorted. `stayed` is what is in the feed at the client's
first page and never trimmed or lost since.

### LeakyBucket and ViewFilters

| variable | in the code |
|---|---|
| `policy` | `Policy` and `FailOpen` |
| `level`, `last` | `level` and `last_ms` of the hash |
| `time`, `touched` | the time of Redis, from which the TTL counts |
| `answer` | what the last call was told |
| `latest`, `earned`, `admitted`, `promise` | history |

The level is measured in the time it takes to leak: `level / leak_rate`. That makes every
number of the script an integer of ticks, exactly; the rounding of its doubles is outside
the model. A stamp is `time.Now` of the caller before the call, so it is up to `Late`
behind the time at which the script runs and up to `Early` before it, and stamps come in
any order. `Fail` is a call that fails before or after the script has run, whose caller
lets the request pass or answers 503. `RatePolicy` and `RequiredWatch` translate
`internal/view/policy.go`; the run gives the login's kind of bucket and those of videos
of several lengths to `LeakyBucket`.

### Processes

`role` is which of the two mains, `stage` where its `run` is, `built` how many steps of
the construction are done, `opened` the open stores, `inflight` the requests that handlers
work on, `running` the goroutines of the wait group, `querying` how many of either hold
a connection of Postgres, `cancelled` the context of the worker. The pool of pgx waits in
`Close` until its last connection is given back and gives out no more, which is external:
`Query`, `Reply` and the guard of `CloseNext`. The names of the specification begin
with `Process`, so that `Platform_proofs` can extend it beside `LeakyBucket`. `ConsumerQuits` is the like consumer that
returns nil. Requests are not told apart, nor what they do but for statements.

## Runs

| run | shows |
|---|---|
| `like_pipeline` | the eight properties below hold with one worker |
| `like_first_boot` | `EveryLikePersists` fails: likes made before the group exists |
| `like_redelivery` | `HeldEventsGetApplied` fails: an entry whose `Apply` failed is never tried again |
| `like_reconciler` | with a sample smaller than the table, drift heals once the worker is quiet, but in a row behind a full sample of right ones; an undisturbed write heals its row; a right counter goes wrong in a race only |
| `like_reconciler_race` | `OnlyFixesDrift` fails: a pass makes a right counter wrong |
| `view_pipeline` | the seven properties below hold with two requests in flight and one worker |
| `stats_service` | the seven properties below hold with three requests at two replicas |
| `accounts` | the five properties below hold with four requests on two addresses |
| `accounts_rotation` | `OneUsePerToken` fails: two refreshes with one token both get a pair |
| `catalog` | the three properties below hold with two requests on two videos |
| `feed` | the three properties below hold with one client, three videos and either mode |
| `platform` | the four properties below hold, two for the login's policy and those of views, two for either process |

Properties of `like_pipeline`:

- `CountsExact`, `HotCountExact`: neither counter drifts from what it counts. The
  clamps at zero in the script and in the SQL never fire.
- `LatestAppliedAgrees`: once the newest event about a user and a video is in
  Postgres, the edge is what Redis says, whatever became of the older ones.
- `AppliesForward`: entries reach Postgres in stream order, none twice.
- `AckedOnlyIfApplied`: nothing leaves the pending list unapplied.
- `LossNeedsFault` has three parts. A delivered entry leaves the worker's hands unapplied, and
  is lost thereby, at a fault only or when the foreign key refuses it (`StrandedByFaults`). What
  is lost stays so (`LostForGood`). And each entry after the cursor is applied, or lost, or
  trimmed: the worker never passes over one nor waits for ever. The documents promise more,
  that what a fault leaves behind comes back: `HeldEventsGetApplied` of `like_redelivery`
  says that, and fails.
- `ImplementsLedger`: `LikeLedger`'s specification. Its `upto` is the newest
  applied entry of a pair, so a step back in time would be no step of it.
- `TypeOK`: the one type invariant.

Properties of `like_reconciler`:

- `DriftHeals`: once the worker is quiet, each counter becomes and stays the number of edges,
  except that of a row that is crowded out (`CrowdedOut`): the sample is full of older rows that
  are right, whose visits write nothing and so never make them younger, and no pass comes to the
  row. The run has three rows and samples two, so this does happen; of every row the claim is false.
- `UndisturbedWriteHeals`: a visit during which no event touches its row writes only if the
  counter was wrong, and makes it right.
- `DriftNeedsRace`: a right counter is made wrong in one way, by the write of a visit during
  which an event touched its row. `OnlyFixesDrift` of the violation run denies even that one.

Properties of `view_pipeline`:

- `AckedOnlyIfInserted`: nothing leaves the pending list without a row.
- `CopiesNeedLostReplies`: an entry has one row more than the inserts that landed and were
  reported failed, at most. The comment on the worker expects copies from crashes; there
  are none, because nothing is redelivered, and a failed `XACK` clears the batch.
- `OneUniquePerWindow`: whatever the order of the requests' calls, the stream has one unique
  view per key and window. `UniqueMissedOnlyByFaults`: and it has one, unless a call failed;
  a failed call costs one window at most.
- `BatchBounded`: the batch exceeds `FlushSize` by less than a read, and by a read more for
  each fault, so a batch that ClickHouse refuses grows while the outage lasts and only then.
- `LossNeedsFault`: a delivered view leaves the worker's hands without a row, and is lost
  thereby, at a fault only; and each entry after the cursor is inserted, or lost, or trimmed.
  It needs both triggers of the flush: with the size alone a short batch waits. The comments
  promise that what a fault leaves behind comes back; the code does the opposite, which
  is `LostForGood`, a part of this property as for the likes.

Properties of `stats_service`:

- `OneOwner`: two requests have the lock at once only when one has outlived its TTL. With a
  plain `DEL` the late one would release its successor's lock and let a third one in.
- `OneFetchPerReplica`: the backends see one compute per replica at a time, at most,
  whatever becomes of the lock.
- `NothingHalfComputed`: every answer and every cached value has both counts.
- `ErrorsHaveCause`: an error comes from a backend, or from the client of the request that
  fetched for the replica. A Redis that fails costs time, not answers. The second case is
  real: everyone who joined gets the error of a leader whose client went away.
- `LocksAreReturned`: each way out of `fetch` gives the lock back; one that is left to its
  TTL comes from a failed call (also one that failed because the client hung up) or a crash.
- `EveryGetReturns`: every call returns unless its process dies, though nothing ever
  makes a forgotten lock expire.

Properties of `accounts`:

- `VerdictsAreJust`: 201 goes to the request whose `INSERT` made the account, however many
  race past the filter; 409 only to an address whose bits come from accounts. Recording the
  address of a failed `INSERT` would refuse it for good.
- `AccountsAreKnown`: an account that is not in the filter, nor about to be added, has a
  failed call, a crash or a loss of Redis since the last warm-up to explain it. It is what the
  warm-up is for, and what makes the filter save a query; the table would catch the rest.
- `SessionsSurvive`: a token that a client was given is in Redis, or expired, was logged out
  or lost, or was presented by a `Refresh` that goes on, succeeded, or was broken by a fault.
  The last is real: the old token is deleted before the new one is written.
- `RotatedTokensAreGone`: an exchanged token is not there when its successor is made, and
  does not come back, unless its `DEL` failed, which the code logs and passes over.

Properties of `catalog`:

- `CreatedStaysFound`: after a 201, no later request for the video, the product or the
  product of the video gets a 404.
- `ProductsAreJust`: a product is of a video of its creator, although the owner is read
  early and from a cache; 201 and 409 are just, as for accounts.

Properties of `feed`:

- `PagesAreTheFeed`: a client that pages to the end is given all that was in the feed all the
  while, and no video twice or after an older one. In push mode the videos with the very
  microsecond of a page's last may be passed over: the exception is part of the
  property, and nothing beyond it is missed.
- `NewestAreListed`: what was published or warmed up and is not in the set has `Cap` newer
  ones in it, whatever order requests add and trim in, and though warm-ups add and do not trim.

Properties of `platform`, of the rate limiter:

- `AdmitsAtMost`: as long as Redis keeps its data, the calls that were charged cost no more
  than the capacity and what leaked while stamps went on. Its right side says what
  differing clocks can gain: `earned` counts a way forward again after each step back.
- `PromisesHold`: a client that waits a second longer than `Retry-After` says is not refused,
  unless a call was charged meanwhile. The second is needed because the header cuts seconds off.

Properties of `platform`, of the processes:

- `StoresOutliveTheirUsers`: no store is closed while requests or consumers run, unless the
  drain was cut off or the listener failed; and none is open when `run` returns, wherever
  the construction failed.
- `StopsWhenToldOrBroken`: a process that got a signal, or a part of which returned an error,
  ends.

## Bounds

`LikePipeline.cfg`: two users, two videos of which one is stored, four events, two
faults, batches of two, a stream that may be trimmed to two. Four events and
batches of two give a first and a second batch, a like, unlike and like of one pair,
and trimming both before and after delivery; two faults allow a fault during the
recovery from another. The violation runs have what their counterexample needs
and no more: one event and one fault for redelivery, say.
`LikeReconciler.cfg`: three rows of which two are sampled, so that a pass visits more than
one and leaves one out; three events, one before, between and after the reads of a visit;
drift of one in each counter, and more by a race; one failing statement.

`ViewPipeline.cfg`: one key, whose mark expires once, so that there are two windows; two
requests in flight, so that two of them race for the mark and across its expiry; three
events, read one by one and flushed in twos, so that a batch is filled by two reads, the
third entry makes a batch that only time can flush, and a batch that should have been
flushed would exceed its bound; two faults. Keys do not interact but through the stream.

`StatsService.cfg`: two requests at one replica and one at another, the least that share a
singleflight and contend for the lock; a request that comes to the first replica after a
fetch ended is the third owner that a wrongly released lock would let in. Two expiries,
of the lock or the cached value; one count grows by one; one fault, which leaves time for
what others do about it.

`Accounts.cfg`: two addresses, of which one has a subset of the other's bits; four requests, so
that two may register one address while a third is refused by it, or a login is followed by
two refreshes and a logout; a warm-up of batches of two that runs any number of times; one
fault. `AccountsRotation.cfg` has a login and two refreshes and no fault. `Catalog.cfg`: two
videos, two users, two requests of any kind, two faults, so that a bad entry meets a failed
call. `Feed.cfg`: three videos, a cap of two and pages of up to two, so that trimming takes one
and a page may end among ties; three instants, so that all may differ or be the same; one
warm-up at a time and one fault. `Platform.cfg`: two ticks to a second and twelve to a
minute, stamps one tick late or early, capacities from one to six, and time for the TTL to pass;
of a process, two requests in flight, one that hangs and one that does not.

The bounds are `MaxEvents`, `MaxFaults` (pipelines), `MaxExpiries` (views), `MaxChanges`, `MaxDrift` and
`MaxFaults` (reconciler), `MaxChanges`, `MaxExpiries` and `MaxFaults` (stats), `MaxFaults` (accounts,
catalog), `MaxTime`, `MaxStarts` and `MaxFaults` (feed), `MaxTime`, `MaxEarned` and `MaxFaults`
(bucket), `MaxRequests` (processes). Runs turn deadlock checking off, because a system whose
users do nothing more has nothing more to do.

## Fairness

`Work(w)` of each worker is weakly fair: the loop of `Run` has no exit but a
cancelled context, and each of its calls returns, since the clients have timeouts.
`Start` is part of it: a process that ended is started again by its supervisor
(`restart: unless-stopped` in `docker-compose.yml`). One case is outside this
assumption: `Run` returns nil when a read fails with an error that wraps
`context.DeadlineExceeded`, and `cmd/worker/main.go` ends the process only for an
error; the hazard is listed. Requests and faults are not fair: nobody has to like
anything, and nothing has to fail.

In `ViewPipeline`, `Work(w)` is weakly fair for the same reason, and so is `Tick(w)`: time
passes. Expiry is not: a mark that stays for ever would be no harm.

In `LikeReconciler`, `Reconcile` is weakly fair: the ticker fires for ever and a pass
that began goes on to its end. The worker is not fair; `DriftHeals` is about the time
after its last change, which the bound on `changes` brings about. It does not make
any row be visited: that one that is not crowded out is, is the point of `DriftHeals`.

In `StatsService`, `Serve(q)` of each request is weakly fair: a goroutine goes on, and its
calls return. Neither expiry is fair, nor a hang-up, nor a crash: `EveryGetReturns` needs
no lock to expire, which is what the bounded wait of `fetch` is for.

In `Processes`, and so in `MCPlatform`, `Run` is weakly fair: the goroutine of `main` goes on and its timers fire. So
is `Reply`: Postgres answers. Without it the process may never end, since the pool's `Close`
waits for the connections that are out and the code sets no limit to a statement; this wait
comes after `SHUTDOWN_TIMEOUT`. Handlers and consumers are not fair: they may hang elsewhere.

The other modules claim no liveness and state no fairness.

## Proofs

TLAPS proves for every value of the constants (any number of users, videos, keys,
requests, workers, events and faults, any batch and flush size and stream length), from
the named assumptions `StoreAssumption` (finitely many users, stored videos are videos),
`StreamAssumption`, `PipelineAssumption` and `ViewAssumption` (finitely many keys; the
numeric constants are naturals, the sizes positive), `StatsAssumption` (every request
has a replica, and `None` is no request), `NameAssumption` and `AccountsAssumption` (finitely many
names, any bits, positive batches, `None` is nothing), `FeedAssumption` (finitely many videos that
are numbers, positive cap and pages), `BucketAssumption` (positive capacities and costs, and a TTL
in which every bucket is empty again), `FiltersAssumption` (a positive minute and least length),
`ReconcilerAssumption` (finitely many videos, a positive sample, numbers for the bounds) and
`CatalogAssumption` (`None` is no user, request or video); `StoresStay` needs none:

| theorem | states |
|---|---|
| `TypeCorrect` | `Spec => []TypeOK` |
| `StoredCountsAreExact` | `Spec => []CountsExact` |
| `HotCountsAreExact` | `Spec => []HotCountExact` |
| `AcksFollowApplies` | `Spec => AckedOnlyIfApplied` |
| `FaultsAloneStrand` | `Spec => StrandedByFaults`, the first part of `LossNeedsFault` |
| `LossIsFinal` | `Spec => LostForGood`, the second part of `LossNeedsFault` |
| `OneWorkerAppliesForward` | `Spec => AppliesForward`, with at most one worker |
| `OneWorkerAgrees` | `Spec => []LatestAppliedAgrees`, with at most one worker |
| `OneWorkerImplementsLedger` | `Spec => ImplementsLedger`, with at most one worker |

Of `LikePipeline`. The first six hold with any number of workers. With two, an unlike may be applied
before the like it follows, so the last three assume one.

How the arguments go:

- `CountsExact` is inductive given `TypeOK`: the only step that touches the tables is
  `Apply`, and `ApplyLikeExact` and `ApplyUnlikeExact` show that it moves the counter by
  one exactly when an edge comes or goes. The clamp is harmless because a counter equal to a
  non-zero cardinality is not zero.
- `AckedOnlyIfApplied` needs `AckingIsApplied`: the entry a worker is about to
  acknowledge is in `applied`, because `ApplyOk` is the only way to `acking`.
- `FaultsAloneStrand` needs `ReadingHoldsNothing`: a read replaces the batch, so the worker must
  have nothing left of the one before. `StrandedStep` then goes through the steps that are no
  faults: only `ApplyRefused` takes an entry out of a batch and leaves it pending.
- `LossIsFinal`, of either pipeline: what is pending lies before the cursor, and a read delivers
  only what lies behind it, so no step gives a stranded entry to a worker (`LostStep`).
- `AppliesForward` needs `Ordered`: what is applied is never later than what a worker
  holds, and is earlier while it is applying. This is where `OneWorker` comes in: a
  second one could hold an older batch.
- `LatestAppliedAgrees` follows from two facts that are inductive: the newest event of
  a pair says whether Redis has the like (`NewestDecidesLiked`), and the newest
  *applied* event of a pair says whether Postgres has the edge (`NewestDecidesEdge`, by
  `Ordered`). Where the two newest events are the same, the two agree.

- `OneWorkerImplementsLedger` maps `upto` to the newest applied entry of a pair. `Max`
  chooses a greatest element, and that a finite set has one is an induction, which the prover cannot
  do; so `UptoExists` says as an invariant that there is one, and `UptoIs` that `Upto` is it.
  `LedgerStep` then has three cases: a request is a `Decide` (`RequestDecides`); a commit is a
  `CatchUp` of its pair, later than anything applied by `Ordered`, and with the edge that the entry
  asks for (`CommitCatchesUp`), and leaves the `upto` of every other pair alone (`CommitMovesUpto`);
  everything else stutters.

Of `LikeReconciler`, with any number of rows, users, events and faults and any drift:

| theorem | states |
|---|---|
| `TypeCorrect` | `Spec => []TypeOK` |
| `VisitsHeal` | `Spec => UndisturbedWriteHeals` |
| `RacesAloneDrift` | `Spec => DriftNeedsRace` |

- `TypeCorrect` needs that the order of the rows stays one: `TouchKeepsOrder` takes a row out of a
  sequence that has every row once and puts it at the end.
- The other two rest on `VisitKnows`: during a visit that no event disturbed, `stored` and `exact`,
  once they are read, are still the counter and the number of edges, and they differ when the write is
  reached. `VisitsHeal` is the write seen from there. For `RacesAloneDrift`, the worker's step keeps an
  exact counter exact (`ApplyExact`), and the write is of `exact`, which is right unless `touched`.

Of `ViewPipeline`, with any number of requests and workers:

| theorem | states |
|---|---|
| `TypeCorrect` | `Spec => []TypeOK` |
| `CopiesComeFromLostReplies` | `Spec => []CopiesNeedLostReplies` |
| `AcksFollowInserts` | `Spec => AckedOnlyIfInserted` |
| `FaultsAloneStrand` | `Spec => StrandedByFaults`, the first part of `LossNeedsFault` |
| `LossIsFinal` | `Spec => LostForGood`, the second part of `LossNeedsFault` |
| `UniqueViewsAreUnique` | `Spec => []OneUniquePerWindow` |
| `FaultsAloneMissUniques` | `Spec => []UniqueMissedOnlyByFaults` |
| `BatchesAreBounded` | `Spec => []BatchBounded` |

- `RowsInv` carries the first two facts about rows. No two workers hold the same entry
  (`BatchesDisjoint`, since a read delivers only what lies behind the cursor); an entry
  that is held and not yet being acknowledged has rows from lost replies only
  (`HeldIsAccountedFor`); one that is being acknowledged has a row (`AckingIsInserted`).
  `CopiesNeedLostReplies` alone is not inductive: an insert adds a row to what is held, so
  the rows of held entries have to be one below the bound.
- `UniqueInv`: a unique view, streamed or about to be, belongs to a window that is over or
  has its mark (`StreamedIsPast`, `SendingIsPast`), so one that `SETNX` makes now is of no
  earlier view's window; and a view that a request holds is not in the stream yet.
- `FaultsAloneMissUniques` compares the windows without a unique view before and after each
  step: only `MarkFails` and `SendFails` can add one, and they are faults.
- `BatchesAreBounded` needs `RoomToRead`: whenever a worker comes back to a read with a
  batch, either it is short or a fault has been counted for it.

Of `StatsService`, with any number of replicas and requests:

| theorem | states |
|---|---|
| `TypeCorrect` | `Spec => []TypeOK` |
| `OneFetchAtATime` | `Spec => []OneFetchPerReplica` |
| `LockHasOneOwner` | `Spec => []OneOwner` |
| `NoLockIsForgotten` | `Spec => []LocksAreReturned` |
| `ValuesAreWhole` | `Spec => []NothingHalfComputed` |
| `RedisAloneNeverFails` | `Spec => []ErrorsHaveCause` |

- `GotoEffect` and `FinishEffect` say once what a step does to the requests: one goes on, or
  all who share a fetch end together. Every later case is about one of the two.
- `FlightInv` is what `OneFetchPerReplica` lacks: the group of a replica names the request that
  fetches, so a second one can only join.
- `LockInv` is inductive as a whole: until its TTL passes, a holder's token is the value of
  the lock; who has `gotLock` is inside the fetch or has ended (so nobody who waits or
  joined has it); and a lock with nobody inside has a cause.
- `WholeInv` adds the parts themselves: they are at most the truth, and whole when `writing`
  or `releasing` is reached.
- `CauseInv` adds that a request that returns an error with the lock held has had a failed
  call, since `compute` is the only way there.

Of `Accounts`, with any number of requests and addresses and any hash functions:

| theorem | states |
|---|---|
| `TypeCorrect` | `Spec => []TypeOK` |
| `WarmUpsLeaveNoneOut` | `Spec => []AccountsAreKnown` |
| `RegisterAnswersRight` | `Spec => []VerdictsAreJust` |
| `RotationKeepsSessions` | `Spec => []SessionsSurvive` |
| `RotationRetiresTokens` | `Spec => []RotatedTokensAreGone` |

- `NamesInv`: every bit of the filter is of a row (`FilterFromRows`); what a warm-up has read and
  has not sent is `rest`, and the remainder of what it read is in the filter (`Sent`). When a warm-up
  ends, `rest` is empty, and `AccountsAreKnown` follows for all that it read.
- `VerdictsInv` adds the authors: a request that is about to answer 201 made the account; the
  rest is `FilterFromRows`.
- `SessionInv` is inductive as a whole: tokens that are there belong to requests that reached
  `SetToken` (`TokensInv`), so a deleted one cannot come back by another's step; each token that
  is gone has a use, and each use that passed the `DEL` has removed or spared its token.

Of `Catalog`, with any number of videos, users, requests and faults and any hash functions:

| theorem | states |
|---|---|
| `TypeCorrect` | `Spec => []TypeOK`, by which no cache has an entry without its row |
| `CreatedIsFound` | `Spec => []CreatedStaysFound` |
| `ProductsJust` | `Spec => []ProductsAreJust` |

- The three follow from one invariant, `IInv`, which was checked by TLC on the instance of the run
  before it was proved. Its core is `Fits`, what a request knows at each label: that the row it is to
  cache exists, that the caller owns the video it sells, that the product is its own once the `INSERT`
  has returned. None of that is stated by the properties, and each needs it: ownership is read from a
  cache long before the `INSERT`.
- `FitsStays` is why other requests do no harm: rows are made once and never changed (`RowsKept`), so
  what a request has read stays so. `GotoFits` and `BeginFits` then leave, for each action, only what
  its own request knows afterwards.
- `CreatedIsFound`: what is told has its row (`ToldHaveRows`), a request begins with what was told
  before, and only a read of Postgres that finds nothing answers 404 (`NotFoundNext`).
- For 409, `FilterFromRows` is part of the invariant, as for accounts.

Of `Feed`, with any number of clients and videos, any cap and page size:

| theorem | states |
|---|---|
| `TypeCorrect` | `Spec => []TypeOK` |
| `TrimmingKeepsTheNewest` | `Spec => []NewestAreListed` |
| `PagingIsSound` | `Spec => []PagesAreTheFeed` |

- `NewestAreListed` is inductive given `TypeOK`. A trim to the top `Cap` leaves `Cap` newer ones
  of what it removes; if it removes what another relied on, what it leaves is newer still, by the
  transitivity of `Newer`. It is proved for subsets of a finite set, by cardinalities.
- `PagingIsSound` goes through `ReaderInv`, for each reader on its own: what stayed and is not below
  the cursor has been given or is a tie of a page's end (`NothingLost`), and all that was given is
  not below the cursor, and pages go down (`GoesDown`). `FetchEffect` says what a page does to the
  reader who asked for it, `OthersKeep` that steps of everything else keep both.

Of `LeakyBucket` and `ViewFilters`:

| theorem | states |
|---|---|
| `TypeCorrect` | `Spec => []TypeOK`, with the level between nothing and the capacity |
| `BucketsAdmitAtMost` | `Spec => []AdmitsAtMost` |
| `WaitsAreEnough` | `Spec => PromisesHold` |
| `ViewPoliciesAreSound` | the buckets of `RatePolicy` admit and leak, and drain within a minute |
| `WatchIsAThird` | `RequiredWatch` is a third of the length but for what division cuts off, and never more than it |

- `BucketsAdmitAtMost` strengthens the inequality by the level: what was admitted and has not leaked
  is in the bucket, or the bucket has expired and, its TTL being long enough, had leaked empty.
- `WaitsAreEnough`: from the stamp of a refusal on, a bucket that nobody charges only leaks; a later
  refused call moves `last` and the level together, so the time at which the call fits stays.

Of `Processes`, with any number of requests in flight:

| theorem | states |
|---|---|
| `StoresStay` | `ProcessSpec => []StoresOutliveTheirUsers` |

- `ProcessInv` says for each stage who may be there and what is open: nobody before the
  construction is done, by when its first three steps have opened all three stores; everything is open
  until the drain ends; and when closing begins, either nobody is left or something was cut short.

Every invariant and every action property of the passing runs is stated by a theorem; `TypeOK` of
`LikeReconciler` and of `LeakyBucket` is proved and left out of the runs. Only
model-checked are the third part of either `LossNeedsFault`, which is liveness, and the liveness properties
`EveryGetReturns`, `DriftHeals` and `StopsWhenToldOrBroken`: their proofs need `ENABLED` of the fair actions, which
the prover does not handle. `OneWorkerImplementsLedger` is about safety, which is all that
`LikeLedger`'s specification states.

## Where the code and its documents part

Four are runs that find the violation; `PROJECT.json` quotes both sides.

- `like_first_boot`: a new consumer group starts at `$`, so likes made before the worker's first
  start are never delivered, while the end-to-end test describes exactly that sequence.
- `like_redelivery`: failed and interrupted entries stay in the pending list for good: reads ask
  for `>` only, and nothing claims pending entries, while comments and documents promise
  redelivery and speak of no path by which data is lost. The view worker reads in the same way,
  and its comment says that the pending list "ensures redelivery even across crashes";
  `LostForGood` of `ViewPipeline`, proved, says that what a crash or a failed last flush
  leaves there stays there.
- `like_reconciler_race`: the reconciler's reads and its write are not one transaction, and it can
  make a right counter wrong. Later passes repair that (`DriftHeals`) if they come to the row.
- `accounts_rotation`: `GET`, `DEL` and `SET` of a rotation are separate calls, and nobody looks at
  how many keys the `DEL` removed, so one refresh token used twice at once gives two sessions.
  `docs/edge-cases.md` says that the second use gets a 401.

The others were seen while reading and modelling the code, and the properties above are
stated so that they allow for them:

- A second worker in the group of the likes gets entries of one user and video in turn with the
  first, and an older event may be applied last; `AppliesForward`, `LatestAppliedAgrees` and
  `ImplementsLedger` are of one worker. The type comment of `Worker` and one section of
  `docs/scalability.md` warn of it; another section recommends it.
- Ordering the sample by `updated_at` lets clean rows keep their place at its head, so with more
  rows than `SampleSize` some are never visited, and drift in them stays (`CrowdedOut`), while
  `repository.go` says that ids come "ordered by least-recently reconciled".
- A request that misses the stats cache just before it is filled, and comes to singleflight just
  after the first fetch ended, finds the lock free and computes again, since `fetch` does not
  look in the cache once it has the lock. The README speaks of one query per window.
- A holder that outlives its lock overwrites its successor's newer counts. The document on
  edge cases says that the content is the same.
- The like consumer takes a dial timeout for the end of its own context and returns nil, and
  the worker goes on without it, while the comment in `cmd/worker` speaks of any goroutine that exits
  unexpectedly. The worker also returns nil, hence exit code 0, after a consumer failed.
- The log of a failed `Publish` says that reads fall back to Postgres; in push mode they do not,
  and the video stays out of the feed until a warm-up adds it.
- A comment on `Fetch` refers to `edge-cases.md` for ties, which does not mention them. The comment
  on `Page` says that there is a cursor exactly when there is another video: in push mode what
  follows may be ties of the last one only, and the next page is empty.
- `edge-cases.md` says that a video missing from the sorted set lands in it with the next
  `POST /videos`, which publishes the new one only.
- The script's comment on `now_ms` says server time; it is the API process's. A minute lets in
  the burst of a full bucket and a minute's leak, up to twice what "60/duration per
  minute" says.

## Not modelled

- `Service.Count` and `IsLikedBy` of the likes: nothing in the repository calls them.
- Malformed stream entries: only the script and `Track` write the streams.
- Deletion of videos and users, for which there is no operation.
- The loss of Redis' last second of writes (`appendfsync everysec`): it is a property of
  the deployment, listed as a hazard. Where all of Redis may be lost, the modules say so.
- The rounding of doubles in the rate limiter's script, whose level is exact in the model.
- A video whose `INSERT` commits after a newer one's: a client that has paged past its place does
  not see it. It was not in the feed all the while, so `PagesAreTheFeed` does not speak of it.
- The Redis collector of metrics, which reads and is not waited for.
- Configuration, logging, metrics, HTTP plumbing, the table of routes, JWT signing, hashing of
  passwords, validation of input, the demo and the load tests: no state that a protocol depends on.
- The division in `engagementRate`: the counts are abstract.
