# Rusty Gasket in TLA+

Rusty Gasket is a library for HTTP services on axum and tokio. An application is a list of
plugins. The library sorts and prepares them, assembles a router out of the layers and routes they
contribute, serves until a signal comes, and shuts them down; around this it offers caches,
authentication, rate limiting, database transactions and background jobs.

This directory holds TLA+ modules translated from the source under `src/rusty-gasket/src/` (paths
below are relative to it), TLC configurations that check them on small instances, and TLAPS proofs
of the main theorems for every instance. `PROJECT.json` lists the runs, the lines each definition stands for, one
mutated definition for every property (the mutation makes the property fail), the hazards
of the code and the theorems.

## 1. Inventory

| Part | State | Operations | Hard behaviour | Correct when |
|---|---|---|---|---|
| Object cache, `cache.rs` | backend entries with expiry; `in_flight`: key -> `Arc<Notify>` | `get`, `set`, `delete`, `get_or_load` | leader and followers on many threads, dropped futures, lazy expiry, failing backend | one leader per key; loads stored in order; only named causes let a call wait for ever |
| Response cache and remote backends, `cache.rs` | entries; one stream per Memcached server under a lock | `cached_get` middleware; Redis and Memcached `get` and `set` | overlapping misses, a request dropped between a command and its reply, a broken stream, whole-second lifetimes | a hit is the requester's own and fresh; a reply is read by who asked; it fails open |
| JWKS key store, `auth/backends/jwt.rs` | `ArcSwap` snapshot, a semaphore with one permit | `find_key` and the task it spawns | the caller may be dropped while its task runs on; expiry; key rotation | one attended fetch; no fetch under a fresh snapshot; every caller answered |
| AWS secrets, `aws/mod.rs` | cached secrets; `inflight`: name -> `Weak<Semaphore>` | `get_secret` | the semaphore dies with its last holder while others look it up; early returns; drops | one semaphore, hence one fetch, per secret |
| Lifecycle, `plugin/engine.rs`, `server.rs` | what was prepared, the app, the server | `build`, `run`, `ready`, `shutdown` | any hook fails; signals; requests in flight; the TLS grace period | shutdown pairs with prepare, in reverse; requests meet ready plugins; it stops |
| Plugin ordering, `plugin/ordering.rs` | adjacency sets, in-degrees, queue | `topological_sort` | contradictory or cyclic declarations; unsigned arithmetic | accepts only correct orders, rejects only the impossible |
| Router assembly, `plugin/engine.rs`, `pipeline.rs`, `middleware.rs` | none once built | `build_router`, named routers | slot order, per-name authentication | every guarded route is authenticated by its own chain; each layer at its slot |
| Authentication, `auth/` | backends, fallback, the request's extensions | `authenticate`, `auth_middleware`, policies, extractors | order of backends, errors, three records of one decision | the first opinion decides; records agree |
| Rate limiting, `rate_limit.rs` | a bucket per key | `rate_limit_middleware` | key extraction, exemptions, place relative to authentication | a request is charged on its own account |
| Request transactions, `db/` | pool, the transaction in the extensions | `transaction_middleware`, `DbTx`, `commit` | taken once, rollback on drop, a pool that is empty | committed only by its taker; no connection kept; no wait for ever |
| Configuration, `config.rs`, `db/config.rs` | none | `from_file`, `resolve`, sections | deep merge of overlays, aliases of environments | the override wins, the rest survives |
| Database plugin, scheduler, health, sinks, OTel: `db/plugin.rs`, `jobs.rs`, `health.rs`, `observability/sharded.rs`, `otel.rs` | pool, job loops, rings and batches, a flush thread | `prepare`, `shutdown`, ticks, the probe, push, drain, flush | abort without await, a job that holds a connection, overload, deadlines at exit | every tick runs; accepted lines are written; the worst status is reported; it stops |
| Error responses and extractors, `error.rs`, `extract.rs`, `auth/extractors.rs` | none | `into_response`, `from_request` | which layer's error reaches the client, with which id | the client, the log and the audit trail tell one story |
| Actions, OpenAPI, templates, presets, S3, DynamoDB, macros' parsing, test support, examples | none, or a client | | | outside this project, see section 7 |

How they interact:

* `build` sorts the plugins and calls their hooks. Everything that has state reaches handlers
  through the extensions that `prepare` filled.
* A request passes the layers of the router in slot order: transport security, logging,
  authentication (which may wait on the JWKS store), rate limit, transaction, custom layers,
  extractors, handler. The response goes back through the same layers. A handler calls the caches.
* The timeout layer, and a client that disconnects, drop the request's future at whatever await it
  stands. This is how callers of the caches and of the pool go away half-way, and why each
  model of a component they call has a `Drop` action.
* A signal ends the server; `run` then calls the shutdown hooks, which close pools and
  abort tasks that requests may have used; `main` flushes the log and OpenTelemetry last,
  or drops their guards when it returns by `?`.

## 2. Modules

| Module | Models | Variables and the code they stand for | Actions |
|---|---|---|---|
| `ObjectCache` | `ObjectCache` over the in-process backend | `cache` the backend, `in_flight` the map, `arc` the `Arc<Notify>` a follower cloned, `value` what a leader loaded, `pc` the place of each call, `version` the record upstream | one per piece of `get_or_load` between two points where other threads can be seen, e.g. `BecomeFollower` (critical section), `Register` (`notified()`), `RemoveInFlight` and `NotifyWaiters` (`finish_in_flight`); `Set`, `Delete`, `Expire`, `Drop` |
| `ResponseCache` | `cached_get` over moka, Redis and Memcached | `store` what the backend holds, `holder` the lock of each Memcached stream, `unread` the replies sent and not read, `broken` streams, `response` and `served` what the client got and from which entry, `clock` in half seconds | check of method and key, lookup, handler, conditions, store; for Memcached the command and the reading of its reply are steps of their own; failures, `Break`, `Drop`, `BodyFails`, `Evict`, `Tick` |
| `JwksKeyStore` | `find_key` and its task | `cached` the snapshot and its freshness, `permit` of `fetch_lock`, `task` the spawned fetch of each call, `rotation` the endpoint | lookup, acquire, second lookup, spawn, join; the task's fetch and publish; `Drop`, `Age`, `Rotate` |
| `SecretsProvider` | `get_secret` | `inflight` the weak references, `sem` the strong reference each call holds, `holder` the permits, `cache` | the two halves of `get_or_create_fetch_lock`, acquire, second read, fetch, insert, prune, `Drop`, `Age` |
| `LoadingCache` | what `get_or_load` promises: a call is answered from a fresh entry or by a load of its own that reads upstream at one moment; only a call that is still there stores what it loaded; with single-flight no load of a key begins before the one before it was stored, failed or given up | `entry`, `version`, `status` and `value` of each caller: no map, no Notify | ask, serve, begin, load, deliver, fail, read fails, leave; expire, remove, set, change |
| `CoalescedFetch` | what the secrets provider promises: a caller is served from a fresh entry or by its own fetch, and a fetch begins only if none of that name is under way and nothing fresh is stored | `entry`, `status` of each caller: no semaphores, no map | ask, serve, begin, deliver, fail, leave, age |
| `Lifecycle` | `build` and `run` | `phase` and `next` the main task, `prepared`, `readied`, `shut` the hooks' outcomes, `request`, `handled` and `signalled` the signals, `outcome` | one per iteration of each hook loop and per outcome; the server's start, drain and grace period; requests, signals, an abandoned future |
| `PluginOrdering` | `topological_sort` | `adj`, `in_degree`, `queue`, `sorted` as in the code; `checked` whether overflow checks are compiled in | one iteration of each loop |
| `Responses` | error responses and every extractor's rejection | none: operators | `Rejection` of each extractor, the body of each error type |
| `Credentials` | the four authentication backends with the JWT builder's checks, key selection | none: operators | `Answers(backend, request)`: the set of answers a backend may give |
| `RateLimiting` | key extractors, `from_env`, exemptions; `client_ip` | none: operators | |
| `RouterAssembly` | `build_router`, the transport plugins, route groups and named chains | none: operators; a stack is a sequence of layers | `Stack(plugins, route)`: the layers around a route |
| `RequestPipeline` | requests in the assembled router; extends the four modules above | `dir` and `depth` where a request is in its `stack`, `step` the backend or extractor it is at, `ext` its extensions, `summary` its `LoggingContext`, `conn` and `second` the connections it holds, `taken`, `committed`, `tokens`, `charged`, `audit`, `line`, `response` | one per layer entered, per backend asked, per wait on the pool, per extractor; the handler's own choices; the way out; `TimeOut`, `Drop`, `Refill` |
| `Options` | Rust's `Option` | `None`, shared by the modules below | |
| `Configuration` | `from_file`, `resolve`, one call of `deep_merge_json` (`Merged`), the sections of the database and of the log sink | none: operators; `DeepMerge` is a constant, assumed to do on JSON values what `Merged` says (`MergeAssumption`) | |
| `JsonMerge` | the recursion of `deep_merge_json`, which the runs give to `DeepMerge` | none: an operator | |
| `ShardedSink` | `to_sink_config`, `ShardedLineWriter`, `WriteDrain`, `ShardedLogGuard` | `settings` the clamped configuration, `rings` the lines queued per shard, `batch` what a worker has popped, `lock` the writer's mutex, `dead` workers that panicked, `accepted`, `shed`, `written` and `lost` the lines' fates, `sink` what became of the guard | spawn, inline write, push, shed; a worker's pop, lock, one line written or failed, unlock; a panic under the lock; shutdown and its three outcomes, the guard dropped |
| `HealthProbe` | `healthcheck_with_contributors` | `probe` whether it is asking, `check` each contributor's answer, `folded` and `overall` the loop over them, `health` the response | probe, contribution, time-out, one iteration of the fold, response |
| `Services` | configuration, pool, job loop and the end of `main`, around the two above; extends them and `Configuration` | `phase` of `main`, until its runtime is gone (`exited`), `config` and how many `configure` hooks have changed it (`configured`), `prepared`, `pool`, `job`, `aborting` (`abort` was called; the task ends at its next await), `holds` the job's connection, `ticks` and `runs`, `otel`, and the variables of the sink and the probe | start (which spawns the sink from the resolved section, before a plugin's `configure` can change it), one `Configure` per hook, the two `prepare`s, tick, run and its four ends, the sink's and the probe's steps (`LogStep`, `ProbeComes`, `ContributorAnswers`, `ProbeGoesOn`), signal, drain, shutdown in reverse, the two flushes with their deadlines, the guards dropped when `main` returns by `?` (`DropOtelGuard` flushes without a deadline), the drop of the runtime (`Exit`) |

`MC*` modules give the constants values, `*Proofs` modules hold theorems. Only `JsonMerge`
has a `RECURSIVE` operator, and only `MCServices` extends it: no module with a theorem reaches it. A JSON
value is a pair of a kind and a content, so that values of different kinds are different without
being compared.

What is abstracted. A cached value is the version of the record it was computed from; keys, secret
names and key ids are model values. An `Arc` or `Notify` is named by the call that created it,
which creates at most one. A semaphore's queue is not kept; its fairness is assumed where liveness
needs it. Steps of one loop iteration that no other task can observe are one action. In
`ObjectCache` an entry evicted for room or by a remote server's own expiry is a `Delete`, and so is
the eviction a plain `get` of an expired entry performs. In `Lifecycle` a hook is atomic at the
moment it returns: the hooks run one after another in one task, so only the requests and signals
interleave with them, and those may come before or after it. `GraceExpires` may come before the
requests end or after: after it, open connections are told to close and end by `Finish` or `Cut` in
their own time. In `Credentials` a token is a name whose decoding is a constant; signature and
claim checks are their outcome. A response is its status, code, exposure, correlation id and the
headers that layers set; a message is wording. A cached response is the request whose handler made
it and what the conditions for storing look at. Two Authorization values share no hash
(`ResponseCacheAssumption`), which `stable_hash`, a 64-bit hash, does not promise. In `ShardedSink`
rings and workers are a library's: they keep order within a shard and nothing across, and a worker
pops a batch of any length up to `drain_batch`. A line is logged once. `main` is the template's (`templates/oss/src/main.rs`: `build().await?`,
`run`, the runtime of `#[tokio::main]` dropped at the end), which wires neither the log's guard nor
OpenTelemetry's; these are added as the documentation in the code shows (`otel.rs:32-38`,
`observability/sharded.rs:229-239`). In `Services` a job that is aborted goes on until its next
await; one that blocks its thread and has none is not modelled. A line that comes while the
sink ends may be taken or shed; one that comes after a flush has succeeded is not modelled. A line
whose `write_all` returns an error is `lost`, however much of it was written.

External, modelled from how the code uses them: the runtime that polls and drops futures, hyper,
axum's calling of a handler and its extractors, the governor's bucket, the JWKS endpoint, the record
that a loader reads.

Undefined outcomes. Whether `in_degree -= 1` on zero panics or wraps depends on the build profile,
so `PluginOrdering` chooses `checked` initially and subtracts modulo `UsizeMax + 1`.

## 3. Runs

| Run | Instance | Shows |
|---|---|---|
| `object_cache` | 3 calls, 1 key, 2 versions, single-flight on and off, drops | `OneLeaderPerKey`; a leader never overwrites a load of a later version (`NoOlderLoadOverNewer`); `KeepsPromise`: it implements `LoadingCache`; a registered follower is woken (`RegisteredFollowersWake`); every call settles (`CallsSettle`) |
| `lost_wakeup` | the same, nobody dropped | violated: a follower registers too late |
| `dropped_leader` | the same, with drops | violated: followers sleep on a leader that is gone |
| `response_cache` | 2 requests of one route in 7 pairs, 3 backends, 2 Memcached servers, 2 policies, 2 outcomes, times to live of a half and of one and a half seconds | `HitsAreOwnAndFresh`; `OwnRepliesUnlessDropped`; `AnsweredDespiteFaults` |
| `jwks_key_store` | 3 calls, 2 keys, 1 rotation, drops | `OneAttendedFetch`, `FetchOnlyIfStale`, `JoinedKeysAreCached`, `KeysRegressOnlyAfterDrop`; `CallsAnswered`, `SpawnedFetchLands` |
| `secrets_provider` | 3 calls, 1 secret, drops | `OneFetchPerSecret`, `OneSemaphorePerSecret`, `NoFetchOfFreshSecret`, `CallsReturn`; `KeepsPromise`: the provider implements `CoalescedFetch` |
| `lifecycle` | 3 plugins, 2 requests, 2 signals, with and without TLS | `ShutdownInReverse`, `NothingLeftPrepared`, `ServesOnlyReadyPlugins`, `StopsUnlessARequestHangs` |
| `plugin_ordering` | 3 plugins, every set of at most 3 declarations, one unknown name | `AcceptedOrderHonoursAll`, `RejectsOnlyTheImpossible`, `SortAnswers` |
| `self_reference` | the same | violated: `before` oneself is accepted in a build without overflow checks |
| `request_pipeline` | 2 requests, 1 connection, 1 token per bucket; 4 chains, 8 routes, every backend, extractor and key extractor; time-outs and drops | `AdmittedByOwnChain`, `IdentitiesAreProven`, `OneAccountOfEachRequest`, `RejectedHoldNoConnection`, `CommittedByItsHandler`, `AuthenticatedAreCharged`, `RequestsSettle` |
| `services` | 15 starts: 9 from files, environments and orders, with 1 job of 2 ticks and 1 line; the three that serve also with 2 lines and 1 tick, and with probes of 2 contributors, 1 line and 1 tick | `OverridesWin`, `AcceptedAreWritten`, `HealthIsWorst`; main leaves nothing behind (`NothingOutlivesMain`); OpenTelemetry is flushed, and last (`TelemetryFlushedLast`); `EveryTickRuns`, `StopsDespiteHangs` |
| `server_override` | the same | violated: an override of `server` does not reach the server |

Why the bounds are enough. Three calls are what the races of the caching components need: one to
lead, one to wait with what the first left, one to arrive after it; two calls never meet a semaphore
that outlives its creator, nor a second leader behind a sleeping follower. One key or secret
suffices because the parts never relate two of them (the proofs are for any number). One rotation or
upstream change makes a later value overtaken by an older one possible. Three plugins put one before
and one after the plugin that fails. Three declarations are enough for a cycle of length three, and
for every pair of declarations that contradict each other, with a third around them.

Two cached requests are a reader and the writer of what it reads, or two on one Memcached stream,
one of which leaves a reply behind for the other. A third, which reads after two misses have stored
one over the other, is left to the theorem `HitsOwnAndFresh`, for any number of requests; two servers show that this stays with the server.
A clock of two half-seconds lets the shorter lifetime end and the longer last. Two requests over one
connection are one that holds what the other waits for, which is all the pool relates;
one token per bucket makes the second request of a key meet an empty one. Most of what is decided
about a request does not depend on others, so the scenarios pair a request of each kind with an idle
one, and the competing pairs are few. Two lines on rings of one or two slots overflow a ring, can be
popped together or apart, and contend for the writer on two shards; of two contributors the worse may be
first or last. Two ticks are
a run that ends badly and the next one. Ticks, lines and probes share little, so a start has two of
the ticks, two of the lines, or the probe (`ticks`, `lines` and `probed` of a scenario), and a single
tick or line beside them to see what hangs together. The starts are chosen for the outcomes of `resolve`: no file, a wrong extension, a malformed overlay, an alias,
an override of an object by an object, by a leaf, and beside one. Named bounds: `MaxVersion`,
`Rotations`, `UsizeMax`, `MaxClock`, the `ticks` of
a scenario, and the sizes of the constant sets.

`CHECK_DEADLOCK FALSE` stands in every configuration: a system whose calls have all returned, or an
application that has stopped, takes no more steps. The liveness properties say where it may stop.

### What the properties leave open

Some properties have exceptions, each a behaviour of the code that the run found and the formula
names:

* `HitsAreOwnAndFresh`, `OwnRepliesUnlessDropped`: a request dropped while its Memcached command is
  outstanding gives the stream's lock back with the reply unread, and later commands on that server
  read the reply of the one before them. From then on a hit may be somebody else's.
* `StopsDespiteHangs` assumes that the scheduler is registered after the database, so that it is
  shut down first. In the other order `Pool::close` waits for the connection of a job that hangs,
  and the abort that would free it comes after. It also assumes a `shutdown_timeout` of the log.
  A main that returns by `?` (a failed build, or `log_guard.shutdown().await?`) with OpenTelemetry
  on may never return: the guard's `Drop` flushes on the thread of `main`, without a deadline. And
  once main has returned, the drop of the runtime waits for the thread of a flush that was
  abandoned at its deadline, and for a worker in a write to the log.
* `TelemetryFlushedLast` counts a flush that its deadline or its collector cut short.
* `AcceptedAreWritten` excepts lines that the writer fails, and says nothing of completeness after
  a flush that failed or timed out: a worker whose writer panicked keeps its lines for good.
* `EveryTickRuns`: a run that panics or never returns ends its loop.
* `CallsSettle` excepts the two findings on `get_or_load`.
* `KeysRegressOnlyAfterDrop`, `FetchOnlyIfStale`: a dropped caller's fetch runs on without the permit.

### Disagreements with the documentation

The four violated runs each check one sentence of the repository's documentation (quoted under
`findings`):

* Object cache: "other callers wait and then read the populated value" fails twice, once by a race
  between `notified()` and `notify_waiters()` in which nothing fails at all, once by a leader that
  is dropped or panics. `CallsSettle` shows these are the only two ways to wait for ever.
* Ordering: a self-reference is neither rejected nor ignored, it panics or is accepted.
* Configuration: the guide's own example of an override, the server's address in production,
  has no effect.

Others were met while modelling; the modules follow the code and no run is spent on them:

* Key store: "bounded by a small constant" (`auth/backends/jwt.rs:893-896`); the number of
  fetches at once is bounded by the number of leaders dropped before the first fetch lands.
* Secrets: "entries self-evict after the fetch" (`CHANGELOG.md:209-211`); a waiter that is served
  from the cache under the permit, or a caller that is dropped, leaves its map entry behind.
* Lifecycle: "`ready` and `shutdown` errors are logged but do not abort the sequence"
  (`plugin.rs:381-382`); a `ready` error ends `run`, with every plugin prepared and none shut down.
* Errors: `docs/error-handling.md:191-194` gives every error a correlation id; the 408 of the timeout
  layer and the 413 of the body limit have none, and an `X-Request-ID` that is accepted but is
  not a UUID is replaced by a fresh one in the body. The limiter's 429 has no `X-Correlation-ID`.
* Router: `plugin/engine.rs:225-228` places a named chain's authentication in its slot; the code puts
  it outside all other protected layers of the named router.
* A request that times out leaves no "request completed" line, because the timeout layer is outside
  the logging layer and drops it.
* Response cache: multi-valued headers come back from a hit with their last value, and a response
  whose key Memcached would refuse is still marked as a miss.
* OpenTelemetry: a hung collector "MUST NOT prevent process shutdown" (`otel.rs:74-79`); `shutdown`
  does return at its deadline, but it flushes on a thread of `spawn_blocking`, for which the drop of a
  runtime made by `#[tokio::main]` waits without bound. `docs/observability.md:201-203` ends
  `main` with `drop(otel_guard)`, which `otel.rs:25-31` says not to do. The model has the
  `shutdown`.
* Configuration: an unknown environment should "fall back to `Environment::Local`"
  (`docs/configuration.md:138`), and `section_or_default` of a section that does not parse "logs a
  warning and returns the default" (`:202`); `resolve` and `section_or_default` return errors
  (`config.rs:329-335`, `421-430`).
* Configuration: a `gasket.toml` that does not parse is treated by the template's `main` like one
  that is missing.

## 4. Fairness

* Calls (`CallStep`): weak fairness. The runtime polls a woken task, the `in_flight` and map locks
  are held over no await, and loaders, backends and clients are taken to answer. Nothing is
  assumed of callers arriving or leaving, entries expiring, or upstream changing.
* `Acquire` in the key store and the secrets provider: strong fairness. tokio's semaphore is a
  FIFO queue, so a waiter that can have the permit again and again gets it.
* `TaskStep`: weak fairness. The task is owned by the runtime and its HTTP client has a timeout.
* `MainStep` in `Lifecycle`: weak fairness. Hooks return and the TLS grace period passes. None for
  requests, signals or a server error, so the liveness property has to allow a plain server that
  waits for a request that never ends.
* The sort is a loop: weak fairness of its step.
* `Progress` of a request in `ResponseCache`: strong fairness. tokio's mutex around a Memcached
  stream is FIFO, and a server answers or its stream fails; handlers return.
* `FrameworkStep` of a request in `RequestPipeline`: weak fairness. It covers the layers, the
  extractors and the acquire timeout of the pool, and not the body of a handler: it may hang with
  a connection, and `RequestsSettle` says that the requests behind it are answered all the same.
* `Services`: weak fairness of `main`, of the job's loop, of the answer of a probe and of each
  health check's timeout. No contributor, collector, log writer or run has to come back: there is none
  for `OtelFlushed`, `FlushLands` or the log's workers, and a run that hangs stays so
  until it is aborted. `LogFlushed`,
  `OtelTimesOut` and `Exit` are steps of `main`: the first needs the rings to be empty, which nothing
  promises, the second is the deadline, the third waits for threads that nothing makes come back.
  `JobDropped` is fair because an aborted task is dropped at its next await.

Fairness of the disjunction is enough where a call has one place at a time: from each place, any
enabled step moves it on.

## 5. Proofs

All theorems have the form `Spec => []P` or an action property, from the named assumptions on the
constants (which TLC also evaluates), for any number of calls, keys, plugins, requests, lines and
contributors.

* `ObjectCacheProofs`. The inductive invariant adds to `TypeOK` that, with single-flight on, a
  call that leads is the one published under its key; uniqueness of the leader follows because the
  map has one entry per key, and `EntryHasOwner` because only the owner removes it. The order of
  stores needs one fact more: the version a leader carries is no older than any loader's value in
  the cache, which holds since it read upstream while it was the only leader and none can store
  before it. `CacheKeepsPromise` is the refinement: the places of a call map to a status
  (`StatusAt`), all that a follower goes through is `asking`, so the map, registering, sleeping
  and being woken are stutters; `BecomeLeader`, or without single-flight the miss itself, is `Begin`,
  which ownership of the entry allows (`NoneUnderWay`); an expired entry that is evicted is a `Remove`.
  The promise is weaker than `CoalescedFetch`: a load may begin although something fresh has been
  stored since the miss, there being no second read.
* `ResponseCacheProofs`. `HitsAreOwnAndFresh` needs three things of every entry in the store: its
  key is the key of the request whose handler made it (`Keyed`, `MadeByItself`; equal keys are
  equal audiences because hashes are injective), it may be stored, and it expires within its
  lifetime. Over Memcached it also needs that the reply a request reads is the answer to its own
  command: unless a server was abandoned, a stream without a lock holder has no unread reply
  (`UnlockedIsRead`) and one with a holder has at most that holder's (`OneReplyAwaited`).
* `JwksKeyStoreProofs`. Every call past `Acquire` and before its end holds the permit; every
  attended fetch has a caller in `await`; while nobody was dropped the snapshot stays stale until
  the running fetch publishes. `JoinedKeysAreCached` is inductive with these: a second publication
  before the join would be that of a caller without the permit, which is an orphan's. For the key order: revisions in the cache and in fetches never
  exceed the endpoint's rotation, and an attended fetch that started under the permit can be
  overtaken only by an orphan's publication.
* `SecretsProviderProofs`. `OneSemaphorePerSecret` carries the argument: while any call
  holds a semaphore of a name, the map entry is that semaphore and is alive, so `Create` and `Prune`
  are disabled for it; the permit of that one semaphore then admits one call. The second read under
  the permit keeps the secret stale while it is fetched. `SecretsKeepPromise` is the refinement:
  the places of a call map to a status (`StatusAt`), everything between the first read and the
  second is `waiting`, `RecheckMiss` is `BeginFetch` (allowed because the next state has one
  fetcher), `Insert` is `Deliver`, and the steps on semaphores and the map are stutters.
* `LifecycleProofs`. What each hook loop has done is a function of its index: below `next` the
  plugins are prepared (or ready), above it they are shut down. `HookInv`, `ReadyInv` and
  `RunningWhile` state this per phase; the properties are read off it.
* `PluginOrderingProofs`. Kahn's invariant: `adj` holds the edges of the declarations read so far
  (`EdgesRead`); the in-degree of an unsorted plugin is the number of its unsorted predecessors, and
  a plugin has none exactly if it is sorted or queued (`Counted`); nothing is listed twice
  (`Distinct`); what is sorted has its predecessors before it (`PredecessorsFirst`). A full order then
  honours every edge, hence every declaration. For the rejection: if some order honours every
  declaration and the queue is empty, the earliest plugin that is not sorted would have to wait for
  one still earlier. That an order has an earliest plugin in every set follows from the library's
  theorem that strict inclusion of finite sets is well founded. A self-reference makes
  the count of a plugin wrap at the moment it is sorted, when the invariant speaks of it no more.
* `RequestPipelineProofs`, in five sections.
  *The router.* `StackInOrder` says what `build_router` makes of any contribution of layers: the
  deciding layers (logging, authentication, rate limit, transaction) stand in every stack at most once
  and in this order, logging wherever one of them stands, timeouts outside of them, and there is an
  authentication exactly where the route is guarded, with the route's own chain. The stable sort is
  stated by rank: `Precedes` is a strict total order on what is contributed (`PrecedesOrders`), so the
  ranks number it (`RanksNumber`) and `CollectLayers` lists each layer once, sorted (`CollectedLayers`).
  *Connections.* `CommittedByItsHandler`: a connection is in the pool or held by one request, in one of
  its two places (`OnePlace`), and held only inside the transaction layer or the handler
  (`HeldInside`); a taken transaction is held by its request (`TakenHeld`); the extractors passed so
  far did not reject (`PassedSoFar`). The step lemmas speak of what actions do to the pool
  (`Released`, `Entered`, `Advanced`) and each action is one of these.
  *Accounts.* The other invariants speak of requests past all layers; inductive is only what holds of a
  request between two of them. `Account(r)` says that: the backends asked so far had no opinion
  (`Asked`); within the authentication layer the request is admitted by its own chain, and what the
  limiter will see is the subject of its identity (`Vetted`); within a limiter it has paid by the key
  it has there (`Paid`); the audit event, the summary and the answer on its way out agree, nothing of
  them exists before the layer that writes it (`Recounted`); a body names the request only under a
  header that logging set or will set (`Correlated`). "Within" needs the order of the stack: `Paid`
  is kept by the entry into a limiter because authentication cannot come after it. An account
  depends on its request's own variables only (`AccountSame`), so the steps of others leave it alone,
  and each step of its own is one of ten kinds (`AccountAnswered` to `AccountTimedOut`).
  *Identities.* `AdmittedByOwnChain` says that some backend found the identity; `Vouches` says what
  that takes, in terms of the request and the configuration and, but for where a backend looks, not of its
  code: a secret, a known key, or a token. `BackendVouches` shows it of any answer of any backend. For a token it
  goes through the checks in their order: what `decode` lets pass is of the algorithm and the key it was
  given (`DecodedIsSigned`), what `find_key` returns is published, usable and the last with its id
  (`FoundIsPublished`), and the resolver compares both with the header (`TokenVouches`).
  *The theorems* read the invariants off these parts: `RejectedHoldNoConnection` since a held
  connection is within the transaction layer, hence within the two before it.
* `ServicesProofs`, in four sections.
  *The sink.* `Gone(s)` counts the lines of a shard that are in neither its batch nor its ring;
  `Queued` says that what the shard accepted is those, then the batch, then the ring, in order.
  `Passed`: exactly the lines that are gone are written or lost. With every line accepted once
  (`Apart`) the next line to settle is the first of the batch and is not in the log yet, which keeps
  `Once` and `InOrder`; an inline line is new. A flush that succeeds has found rings and batches
  empty, so all that was accepted is gone, hence settled. `SinkAssumption` only types the settings.
  The types (`SinkTypeOK`) are part of the inductive invariant.
  *The probe.* While answers come none is folded, and `overall` is the worst of those folded
  (`FoldedWorst`); when all are, it is the worst of all. The only assumption is that the number
  of contributors is natural.
  *The application.* Its steps take those of the two as they are, restricted by the phase, and are
  stutters of the others (`SinkSteps`, `ProbeSteps`): `Services` implements `SinkSpec` and `ProbeSpec`
  (`ServicesLog`, `ServicesProbe`), so what holds of them holds there. For `NothingOutlivesMain`,
  `MainInv` ties what is there to the plugins that are prepared: a pool is open, or closing, only
  while its plugin is prepared, a job that was not told to end is there only while the scheduler is,
  a connection is out only of such a pool, and the sink is in the state that belongs to the phase.
  `OtelInv` does the same for OpenTelemetry: it is on until a phase that flushes it, by `shutdown` or by the
  guard's drop, so no return of `main` finds it on, and off only where no endpoint is
  configured; with `MainInv` this is `TelemetryFlushedLast` (`TelemetryIsFlushedLast`). It needs nothing of the order, in which a plugin may even be missing.
  *The configuration.* `OverridesWin` speaks of paths of up to three names. `MergeAssumption` unfolds
  one call of `deep_merge_json`; `OneMerge` says what that makes of one level, `Descend` goes one name
  further down, three times at most, and `Ends` says what a leaf found there is. No induction over
  the depth is needed, and values may be as wide as they like, and as deep below the path. `ConfigInv` says that `config` is the resolved one with the sections that the
  hooks so far have set; the sections no hook sets are `resolve`'s to the end.

The pipeline's assumptions, each of which TLC evaluates on the run's instance: `Contributions`, the
layers that this library makes stand at the slots for which its plugins and documentation name them
(`middleware.rs:67-159`, `docs/authentication.md:291`, `docs/database.md:179`), and an application
contributes at most one each of authentication, rate limiter and transaction, which the code does not
enforce (with two of a kind nothing is said); its own layers are `custom`, at any slot, any number;
`Buildable`, the named chains exist (`build_router` fails otherwise), and a router
that authenticates globally has the global chain; the backends are of the four kinds; the
extractors of a route are a sequence of known ones; `None` stands for no identity, id, key or error;
the JWKS document is a sequence of keys; and the
keys that limiters extract are among `LimitKeys`, which names the buckets that `tokens` counts.

The type invariants of `ObjectCache`, `Lifecycle`, `RequestPipeline`, `ResponseCache`, `PluginOrdering`,
`JwksKeyStore`, `SecretsProvider` and the sink are proved (`TypeCorrect`, `OrderingTypeCorrect`, `SinkTypeCorrect`), and no run is spent on them.

Only model-checked:

* every liveness property and the fairness it rests on: `ENABLED` is out of the prover's reach;
* that the recursion of `JsonMerge` satisfies `MergeAssumption` on the values of the run (TLC evaluates
  it), and what it makes of paths of more than three names: induction over data;
* what `RateLimiting` makes of headers and variables, and `Responses` of extractors' inputs, beyond what
  the theorems say of charged keys and bodies: conversions, which the runs enumerate.

## 6. What could come next

1. `Services` with several jobs and with the requests' connections, composed with `Lifecycle`.
2. The parts of components listed as partly modelled: the audit logger's queue, Memcached's
   connecting.

## 7. Not modelled

* Actions: a map filled by `init` and read afterwards; no state after `build`.
* Object storage and DynamoDB: thin wrappers over SDK clients, without state of their own.
* OpenAPI merging, templates, presets, test support: documents, rendering, lists of plugins.
* `StringSet`, the parsing of durations and memory sizes, `problem_response` (another format of the
  same error), log levels and layouts, secrets from the environment, TLS material: conversions or
  data that no property tells apart.
* SQL, cryptography, base64, and the internals of hyper, axum, moka, governor and the log rings:
  external, and modelled by what the code relies on.

`components` in `PROJECT.json` gives the reason for each part and what is left out of the parts that
are modelled.
