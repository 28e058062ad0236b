# Formal models of the webhook debugger

The TLA+ modules of this directory model the stateful core of the Webhook Debugger & Logger
(`src/`), TLC checks them on small instances, and TLAPS proves their main invariants for all
values of the constants. `PROJECT.json` ties every definition to the lines it models.

## 1. The system and its parts

The program is one Node.js process: a single thread, in which everything between two `await`s is
atomic, and the interleavings are those of continuations, timers, requests and answers of the
services it awaits (DuckDB, the Apify Dataset and key-value store, HTTP targets).

| Part | Source | State it keeps | Operations |
|---|---|---|---|
| Sync service | `services/SyncService.js` | `#isRunning`, `#limiter`, `#cachedMaxOffset`, metrics | `start`, `stop`, `#onLogReceived`, `#triggerSync`, `#syncLogs` |
| Log repository | `repositories/LogRepository.js` | the table `logs` | `insertLog`, `batchInsertLogs`, `findOffloadedPayloads`, `deleteLogsByWebhookId`, the queries |
| DuckDB client | `db/duckdb.js` | instance, `initPromise`, pool, in-use set, write queue, operation counter, reset gate | `getDbInstance`, `executeQuery`, `executeWrite`, `executeTransaction`, `vacuumDb`, `resetDbInstance`, `closeDb` |
| Webhook manager | `webhook_manager.js` | `#webhooks`, `#persistPromise`, the record `STATE` | `init`, `persist`, `generateWebhooks`, `isValid`, `cleanup`, `updateRetention`, `getAllActive` |
| Application lifecycle | `main.js` | timers, server, `isShuttingDown` | `initialize`, `shutdown` (with retries and a forced exit) |
| Configuration | `utils/app_state.js`, `utils/hot_reload_manager.js`, `utils/config.js` | current options, last input, poll promise, debounce timer | `applyConfigUpdate`, poll, file watch |
| Ingest middleware | `logger_middleware.js`, `utils/storage_helper.js`, `middleware/json_parser.js` | options, compiled script, validators; nothing per request survives it | `ingestMiddleware` (stream to the key-value store), `middleware` (validate, prepare, script, respond), background tasks with a timeout, `updateOptions` |
| Signature verification | `utils/signature.js` | none | `verifySignature`, `createStreamVerifier`, `finalizeStreamVerification` |
| Custom scripts | `utils/custom_script_executor.js`, `utils/custom_script_worker.js` | a worker thread per call | message, error, exit, time limit, terminate |
| Alerting | `utils/alerting.js` | none | `triggerAlertIfNeeded`, `sendAlert` to each channel |
| Forwarding | `services/ForwardingService.js` | none of its own | `forwardWebhook`, `sendSafeRequest` (retries, back-off, abort) |
| Circuit breaker | `services/CircuitBreaker.js` | failures and next attempt per host | `isOpen`, `recordFailure`, `recordSuccess`, prune |
| Rate limiters | `utils/rate_limiter.js`, `utils/webhook_rate_limiter.js` | time stamps per client or webhook | `check`/middleware, prune, eviction, `limit` setter |
| Query route | `routes/logs.js` with `LogRepository.findLogs`, `findLogsCursor` | none; a client's position is in its `offset` or `cursor` | count, page, cursor page |
| Live stream | `routes/stream.js`, `routes/utils.js` | the set of SSE clients | subscribe, broadcast, heartbeat |
| Replay | `routes/replay.js` | none | resend a stored event, with retries |
| Stateless parts | SSRF, auth, security headers, config coercion, other query and page routes | none between requests | pure functions and single reads |

How they interact:

- The middleware emits `LOG_RECEIVED` on the event bus, *then* calls `Actor.pushData` (the Dataset
  is the source of truth) in a race with a timeout, then forwards. The sync service listens: it
  inserts the event at once and triggers a catch-up sync, which reads the Dataset from the next
  offset and upserts a batch.
- `main.js` (startup record) and the forwarding service (error items) push to the Dataset without
  any event.
- The webhook manager's cleanup, started by a timer, deletes rows (log repository) and payloads
  (key-value store) of expired webhooks and persists its map; a configuration change or a restart
  generates missing webhooks and extends active ones, and persists, too.
- Everything that touches `logs` goes through the DuckDB client, which may be reset at any time.
- Shutdown stops the hot reload, the server, the sync service, the database, and persists the map.

What is hard, and what makes each part correct:

- **Sync**: two writers of one table and up to five overlapping jobs, each with an offset read
  several awaits ago. Correct if nothing is skipped, offsets are positions, stop is quiet, and a
  lost database is rebuilt.
- **Webhooks**: `cleanup` iterates the live map over awaits; `persist` writes a snapshot later
  than it took it. Correct if expiry is final, active webhooks and their data stay, and the record
  is never older than the last snapshot taken before it.
- **DuckDB client**: a connection is acquired over several awaits and counted afterwards; the
  reset waits for writes and callers wait for the reset. Correct if connections have one user,
  writes never overlap, nothing counted loses its connection, no instance leaks, nobody is stuck.
- **Forwarding and breaker**: retries and back-off race an abort, and results of requests sent
  long ago reach a breaker that others have opened, closed or evicted since. Correct if attempts
  are bounded, every request ends, once, and no request counts twice against its host.
- **Ingest**: two middlewares and a worker thread around one request, with a reload, an expiry, a
  cleanup or a failure at every await. Correct if the client gets one answer, an event is marked
  genuine only if its sender knew the secret of the options it was judged under, payloads that were
  offloaded are found again or accounted for, and every request settles.
- **Limiters**: two arrays rewritten, pruned and evicted by a Map's order. Correct if none of that
  gives or costs a caller a request.
- **Queries**: a page is read long after the one before it. Correct if the cursor neither skips nor
  repeats a row that stays, ties of the timestamp included.
- **Lifecycle and hot reload**: an input is remembered before it is applied, the poll and the
  watcher call the same update, a shutdown may begin before the startup is over and overlap another.
  Correct if the configuration is of one piece, an input that stays is taken, and every shutdown
  ends, cleanly if its code is 0.

`PROJECT.json` lists these hazards one by one, each at its line, with the properties aimed at it.

## 2. Modules

| Module | What it is |
|---|---|
| `DatasetMirror` | Abstract specification: what a disposable view of an append-only log promises |
| `ReadModelSync` | `SyncService` with the table, the Dataset, the retention DELETE and crashes |
| `EventSource` | Abstract specification: what the ingest path promises the sync service |
| `ReadModelSyncProofs` | Its invariants, the refinement of `DatasetMirror` and what it assumes of its `EventSource`, proved |
| `WebhookLifecycle` | `WebhookManager`, with its callers in `main.js` and `AppState`, the key-value record, expiry, crashes |
| `WebhookLifecycleProofs` | Its invariants and action properties, proved |
| `DuckDbPool` | `db/duckdb.js` |
| `DuckDbPoolProofs` | Its safety invariants and its freedom from deadlock, proved |
| `Delivery` | Abstract specification: what the outbound side promises for each request |
| `Forwarding` | `ForwardingService`, `CircuitBreaker`, and their callers in the middleware and the replay route |
| `ForwardingProofs` | Its invariants, the refinement of `Delivery` and a bound on the steps of a request, proved |
| `Signature` | Pure operators: the decisions of both signature verifiers |
| `Ingest` | `LoggerMiddleware` from the arrival of a request to the end of its background tasks, with the body parser, the script's worker and the alerts |
| `IngestProofs` | Its invariants, the refinement of `EventSource` and the order of a request's stages, proved |
| `SlidingWindow` | Abstract specification: what a rate limiter promises |
| `RateLimiter` | `WebhookRateLimiter` and `RateLimiter` |
| `RateLimiterProofs` | Its type invariant and the refinement of `SlidingWindow`, proved |
| `LogQuery` | `GET /logs`: the handler, both queries of `LogRepository`, and a client that pages while the table changes |
| `ReadApiProofs` | Its invariants, the exactness of a listing by cursor and by offset, and the types of both parts of the read API side by side, proved |
| `AppLifecycle` | `initialize` and `shutdown` of `main.js`, `HotReloadManager`, `AppState.applyConfigUpdate`, the clients of the live stream |
| `AppLifecycleProofs` | Its invariants, proved |
| `MCReadModelSync`, `MCWebhookLifecycle`, `MCDuckDbPool`, `MCForwarding`, `MCIngest`, `MCAppLifecycle` | Instances for TLC |
| `MCReadApi` | The instance of `LogQuery` and `RateLimiter`, which share no state, side by side |

Definitions named `X_Something` before a definition `X`, introduced by "Seeded fault", are the
mutants by which each property is shown to be able to fail.

### ReadModelSync

One action per stretch of code between two awaits of `#syncLogs`: `BeginSync` (the limiter runs
the job, `#getNextOffset` takes the cache or queries), `AnswerMax` (DuckDB answers), `CacheMax`
(the await resumes, the cache is set *before* `#isRunning` is looked at), `ReadInfo`, `FetchData`,
`InsertBatch` (one transaction), `FinishSync` (cache, re-trigger on a full batch), `SyncFails`.
Of two consecutive awaits with nothing but an `#isRunning` test between them (`openDataset`,
`getInfo`) one action is made: a stop between them is seen by the next test.

A Bottleneck instance is an object: each `start()` makes a new one, and `phase[g]` says of limiter
`g` that it takes jobs (`open`), that `stop()` was called on it (it rejects jobs, drops the waiting
ones and lets the executing ones finish) or that this has ended; `limiter` is the one that
`#limiter` names, `stopPromise` the one that `#limiterStopPromise` belongs to. Calls of `stop()` and
`start()` may overlap, as those of a shutdown by a signal and of one by the timer of `testAndExit`
do: `call[c]` is the await at which a call is suspended, with the limiter that it captured
and whether it is a `start()` that stops a limiter left over. All calls
that wait for one limiter share its promise and resume together (`LimiterStopped`,
`LimiterStopFails`); each then disconnects and sets `#limiter = null`, whichever limiter that names
by now (`Disconnected`). So the limiter of a `start()` that came between two of them is lost
(`Lost`): the service runs, and nothing it triggers is scheduled. `RunningCanSync` says that there
is no other way. `live` holds the real-time inserts in flight; `PurgeWebhook` is the DELETE of a
cleanup; `Crash(keepDb)` loses the memory, and the database file or not. Events stand for Dataset
items with unique ids: every item this program pushes carries one, and only a custom script can take
it away or set it; a sync would give an item without id a new one each time that it fetches it
(`SyncService.js:298`), which is not modelled. Payloads and columns other than `source_offset` are
left out. `Push` may come without `Emit` (startup record, error items); an item that failed to be
pushed never comes.

### DatasetMirror

A log; a view, some of whose events (`placed`) were taken from the log; `forgotten` ones. A piece
may be taken in only when everything before it was taken in or forgotten: no job may leap ahead.
`ReadModelSync` implements it with `placed` = rows that carry an offset; jobs, cache, limiter and
failures are stutters or parts of these steps.

### EventSource

An event is announced at most once and kept at most once, never before it is announced.
`Ingest` implements it with `announced` = `emitted` and `kept` = `stored`. The steps that
`ReadModelSync` allows its environment (`Emit`, `Push`) are also steps of it, an item that nobody
announces being announced with its push. `Emit` and `Push` have no guards but those of `Announce` and
`Keep`, so that no order of events the ingest path can produce is left out of the checks and proofs
of the sync service.

### WebhookLifecycle

`clock` is `Date.now()` in hours and only advances. `phase` is how far the process is with `init()`:
not yet answered (`down`), answered and about to resume (`init`: `GetState` is the answer of
`getValue`, `InitManager` what `init()` does with it), or over (`up`). `ending` says whether a
shutdown has called its last `persist()`. `chain` is `#persistPromise`: snapshots in the order of
the calls, each written by `WriteState` or rejected by `WriteFails`. `config` is the one
reconciliation under way (startup, or a reload: the hot reload manager does not overlap reloads):
`Generate`, wait, `Extend`, wait. `cleaner[c]` is one `cleanup()` call at one of its awaits with its
own `now`; two may overlap because the timer does not wait. The iteration over the live map is "any
entry that has expired by `now`", since the order of iteration is that of insertion and nothing
depends on it. `LogRequest` stands for the ingest pipeline: it adds rows and payloads to a valid
webhook. `FinalPersist`, `Exit` and `Crash` end the process. A `FinalPersist` before `init()` has
ended is that of a termination signal whose handler, registered earlier, persists the empty map;
`init()` goes on all the same, restores the map from the answer it has or gets, and the empty
snapshot is written before or after that: then record and map differ although no write is pending.
`SavedIsCurrent` and `RestoredStaysSaved` except this one snapshot, by name (`caller = "signal"`),
and say that nothing else does that. A process that is ending this way may still reconcile, serve
and log. `lapsed`, `issued`, `restored` and `behind` are history. Left out: malformed dates, the
VACUUM counter, the number of files per payload, and cleanups that cannot open the store (they
change nothing).

### DuckDbPool

`op[o]` is one call at one of its awaits: waiting at the reset gate, queued, past the gate,
waiting for `initPromise`, at the pool, validating a pooled connection, connecting, running.
`active` is `activeConnectionOperations`, incremented only with `BeginOperation`; the vacuum's
connection is neither listed nor counted, as in the code. `reset` is `resetDbInstance` at its
awaits: write queue, counted operations, closing, the late initialization. An initialization is two
steps: `fromCache` opens the instance (`InstanceOpened`), a connection configures it, and only then
is it the current one (`InitReady`). `InitFails` may come before the first or between the two; in
the second case the instance stays open with nobody to close it, which is the one exception that
`NoInstanceLost` makes. An instance stands for one answer of `fromCache`. A write does not wait
at the gate (`skipResetWait`). Handles and instances are reused once nothing refers to them.
Microtasks run before any answer of the driver, hence the guards `Answered` and the one in
`Close`. Left out: SQL, parameters, the file system.

### Forwarding and Delivery

`at[t]` is the await at which request `t` is suspended: `push` (`Actor.pushData` in a race with a
timeout), `resolve` (the SSRF look-up; for a replay also the stored event), `send`, `backoff`,
`report` (pushing the error item). The three outcomes of an attempt are `Delivered`, `Rejected`
(not worth a retry) and `Unreachable` (a transient code or a timeout); whatever follows one in
`sendSafeRequest`, up to the next await, is in the same action, the breaker included. `failures`,
`wait` and `order` are the map of the breaker: failures, time left until `nextAttempt`, order of
insertion, by which `Prune` evicts. Its other branch deletes entries without failures; there are
none. Back-off delays and deadlines may take any time. `Abort` is the timer of the background
tasks, or the one of the replay, which is set when the look-ups are over: the attempt in flight
and the back-off listen to the signal, the other awaits settle first (`aborted` remembers). Left
out: headers, bodies, codes of errors, the answer to the replay's client.

`Delivery` knows neither hosts nor awaits: each request makes a bounded number of attempts and gets
one verdict, `delivered` only after an attempt, `dropped` only without one; a forwarded event that
failed may get one error item.

### Ingest and Signature

`stage[r]` is the await at which request `r` is suspended: `ingest` (the first middleware, up to the
stream or to the body parser), `streaming`, `stalled`, `parsing`, `parsed`, `preparing` (the offload
of a large body that came without a length), `transforming`, `scripting`, `terminating`,
`answering` (the delay of the response), `pushing`, `forwarding`, `alerting`. `opts[r]` are the
options the request goes by: read once in `ingestMiddleware` (`StreamBegins`), once more in
`middleware` (`Validate`); `compiled` is the script compiled last and is read a third time
(`StartWorker`). `worker[r]` is the thread that `executeCustomScript` starts and, when the script
failed, waits for. `UpdateOptions`, `Expire` and `Cleanup` are the hot reload, the webhook's expiry
and the manager's cleanup as seen from here. `parser` is whether the JSON parser was mounted when the
process started: only it keeps the bytes that were received.

The worker posts back the whole event and `restoreSandboxEvent` keeps every field, so that a script
may do what `AllEdits` lists: replace the body and with it the reference to the offloaded payload,
set, delete or forge `signatureValid`, set the status, give the event to another webhook (whose
cleanup then deletes the payload, `CleanupElsewhere`). The other kinds of edits are named for what the
code makes of them: no `webhookId` keeps the event out of the log, a status that cannot be sent makes
the response throw, a `BigInt` makes the broadcast throw after the event was emitted and leaves out
the push and the forwarding. A body that a script writes refers to no stored payload, and an event is
its request: a script that gives two events one `id` is beyond the models. `answers` and `wasLive`
are history.

In `Signature` a MAC is ideal: it matches only for the secret and the bytes that it was computed
from. What the rules of the five providers look at is kept (form, presence and age of the headers,
whether the timestamp is part of what is signed); their strings are not. What is verified is what the
middleware holds (`HeldBody`): the bytes; the JSON of the reference that replaced an offloaded body;
without the parser the JSON of a Buffer, which no sender signs; or, of a request without a body that
`body-parser` reads, `undefined`, which makes `verifySignature` throw, as an algorithm does that
crypto does not know (`VerificationThrows`: the answer is 500 and nothing is logged). The `encoding`
of a custom provider is taken to be one that crypto has.

Left out: the text of headers and their masking, per-webhook overrides of the options, the cache of
validators, the length of delays.

What the model makes visible of the code, and the properties take into account: a client that
leaves in the middle of a streamed body leaves the offload waiting for ever (`ClientLeaves`); a
body that streamed under options without signature, and is judged after a reload that brought one,
is verified as the JSON of its reference and never valid; with `enableJSONParsing` off every
signature of a request that is not streamed is invalid; the script that runs may be newer than
the options of the request; a push that fails or times out leaves the forwarding out; alerts are
sent even after the abort.

### RateLimiter and SlidingWindow

Both limiters are synchronous and alike but for their key (`Key`: address, or webhook and address)
and the values their limit may take (`kind`). The Map is `older` (for each key, the keys inserted
before it: its order of insertion, which serves as recency) and `hits` (how many times of each value
the array of the key holds). `Check` is the whole call: eviction at capacity, the array without what
has left the window, the comparison, the new time, the reinsertion at the end. `others` is history:
the keys checked since a key's last check. `SlidingWindow` has a log of admissions that forgets
what has left the window, and nothing else of a caller unless `Capacity` other keys were checked
since; it knows neither pruning nor arrays nor the order of the Map. Left out: the values of the
`X-RateLimit` headers.

### LogQuery

A row has four columns and an id; `Where` and `OrderBy` are `#buildWhereClause` and `#buildOrderBy`
with what they ignore (unknown operators and columns, and the `id` of the query string, which
`docs/api-reference.md` lists as a filter). A page by offset is two actions, `Count` and `ReadPage`,
since other writes may come between the two queries; a page by cursor is one. Ties of an ORDER BY
are open: `Ordered` has every order the database may return. `page` is the client with the query it
repeats; `got`, `stayed` and `disturbed` are history. `OffsetExact` names what an exact listing by
offset needs of this code (an invalid limit becomes the default one, where the documentation says
1): rows that stay as they are, a sort that tells all rows apart (the default one does not), and a
limit within `MAX_PAGE_LIMIT`, because `nextOffset` advances by the limit that was asked for and not
by the rows that were given. Left out: JSON filters on headers, bodies and queries beyond "a text
contains another", the hydration of offloaded bodies, and the encoding of the cursor, which is taken
to come back as it was given out.

### AppLifecycle

`boot` is the await that `initialize()` has reached; `down[s]` is one `shutdown()`, by a signal or
by the timer of `testAndExit`, at one of its awaits, with the number of its tries and the timers
that force the exit (a failed attempt does not clear its own). `reload[c]` is `#handleHotReload` as
called by the poll or by the watcher, `applied` says for each part of the configuration which input
it is from, `last` is `#lastInputStr`. An input may be one that cannot be coerced (`Broken`) or whose
webhooks cannot be generated (`Excessive`), which leaves the update half applied. A read may hang,
and then no reload runs any more. `debounce` may fire after `HotReloadManager.stop()`, as in the
code. `Dies` is `systemExit(1)`. Left out: the bootstrap of the INPUT file before the start, the
texts of log messages, and single options.

## 3. Runs

| Run | What it shows |
|---|---|
| `Sync` | All properties of the sync service |
| `SyncGapRecovery` | *violated*: an item that lands after the last triggered sync has looked stays out of the view until an unrelated event comes |
| `SyncPurgeReturns` | *violated*: a batch in flight puts purged rows back |
| `Webhooks` | All properties of the webhook manager |
| `WebhooksInitLost` | *violated*: an early signal, or an `init()` that could not read, loses the record |
| `DbPool` | All properties of the DuckDB client |
| `DbPoolTeardown` | *violated*: the reset closes pooled handles while a read is still acquiring its connection |
| `Forwarding` | All properties of the forwarding service and its breaker |
| `ForwardingCooldown` | *violated*: a replay, or a forward that had looked before, sends to a host whose breaker is open |
| `Ingest` | All properties of the ingest path |
| `ReadApi` | All properties of the paging client and of both rate limiters |
| `Lifecycle` | All properties of startup, hot reload, live streams and shutdown |

The violated properties are sentences of the repository's documentation or comments, quoted in
`PROJECT.json` under `findings`; they are disagreements about ordering, not about security.

The properties, by run:

- **Sync**. `NoGap`: everything below the offset that the next sync starts from, cached or
  recomputed, is in the view or was deleted. `OffsetIsPosition`: a stored offset is the event's
  position. `OffsetKept`: no step changes the offset of a row that stays. `QuietAfterStop`: once a
  limiter has stopped none of its jobs executes or waits. `RunningCanSync`: a running service has an
  open limiter, unless a call that was suspended in the stop of an earlier limiter has taken it
  away. `TriggeredSyncCatchesUp`: a triggered sync brings in everything then in the Dataset, unless
  stopped, failed or left without limiter. `ImplementsMirror`: the refinement.
- **Webhooks**. `LapsedForGood`: expiry is final. `ActiveKept`: while the process lives, an
  unexpired webhook is neither removed nor shortened. `ActiveKeepsData`: no overlapping cleanup
  deletes its rows or payloads. `SavedIsCurrent`: with no write pending, the record has every
  webhook of the map as it is. `RestoredStaysSaved`: a process that restored the record never writes
  an active webhook out of it. Both except the empty snapshot of a signal during `init()`.
  `ExpiredIsRemoved`: expired webhooks leave the map.
- **DbPool**. `NoInstanceLost`: between resets an open instance is the current one or one whose own
  set-up failed. `OneUser`, `SingleWriter`, `CountedKeepsConnection`, `ResetCompletes`,
  `ReadsSettle`, as their comments say.
- **Forwarding**. `EachRequestCountsOnce`: a host has at most as many failures counted as requests
  to it have failed, so that retries and aborts alone never open its breaker. `ImplementsDelivery`:
  the refinement. `RequestsEnd`: every request that started gets a verdict, although targets never
  answer.
- **Ingest**. `AnsweredOnce`: one answer per request, and effects only for an event whose status the
  client was given. `SignatureHonoured`: the program's verdicts are earned under the options they
  name, and where a genuine request is called invalid, it is for one of three named reasons.
  `PayloadsAccounted`: no logged reference without its payload, no payload without a reason.
  `EffectsJustified`: nothing is accepted for a webhook that was gone when the body was complete,
  nothing is forwarded before it is stored. `EveryRequestSettles`.
- **ReadApi**. `CursorExact` and `OffsetExact`: what a client that follows the cursors, or the
  offsets, gets. `WindowKept`: the refinement of `SlidingWindow` by both limiters.
- **Lifecycle**. `ConfigWhole`: no mixture of two inputs. `InputTaken`: an input that stays and can
  be applied is applied. `ShutdownEnds`: every shutdown ends, and cleanly with code 0.

### Bounds and why they are enough

- `Sync`: two items, batches of one, two job slots, two starts, one purge, and one fault, which may
  be a rejected call, a death of the process or a call of `stop()` or `start()` while another one is
  suspended, so that two calls share the promise of one limiter and a `start()` comes between their
  ends. Two jobs and two batches give every order of two overlapping offsets (older job last, newer
  job last, one stopped or failed in between); two starts give the restart of a stopped or crashed
  service; the second item alone belongs to the second webhook, so that a purge can take the row
  with the highest offset. 707,000 states. The proofs cover any number of everything.
- `SyncGapRecovery`, `SyncPurgeReturns`: one job, one caller and batches of two suffice for the
  trace.
- `Webhooks`: two ids (one issued, one to replace it), two cleanups, two retentions (extend, do not
  shrink), clock up to 2 (before, at and after the expiry of a one-hour webhook), one fault (a
  rejected call, a death of the process, or a signal before `init()` has ended), restarts unbounded.
  736,000 states.
- `DbPool`: a read, two writes (one executing, one waiting), a vacuum, one pooled connection, one
  reset, hence two initializations at most and two instances; four handles, which are reused. 67,000
  states.
- `Forwarding`: three forwards and a replay; the replay and two of the forwards share a host, so
  that a threshold of two is reached by either two of them and the third comes late; the other
  forward needs the one place of the map (`MaxSize = 1`), so that an open host is evicted. Retries
  allowed are two, none and one; the cool-down is two ticks, so that it is under way, about to end
  and over. Requests are finitely many in the proofs, too, but any number.
- `ForwardingCooldown`: one attempt each suffices for the trace.
- `Ingest`: requests share only the options, the script and the webhook, so that one of them meets
  everything the environment may do; one reload comes between any two of the three readings; the
  JSON parser is mounted or not; the five configurations differ in provider, secret, algorithm (one
  that crypto has or not), script (none, one that compiles, one that does not), schema, forwarding
  and alerts; bodies are missing, small, large without a length, or streamed; eleven scripts have
  each kind of edit and each field kept and set; senders sign for the right or another provider,
  with the right or another secret, in time or not, or not at all. 825,000 states. The proofs cover
  any number of requests.
- `ReadApi`: three of the four rows have the same timestamp and one is older, pages have one or two
  rows, so that ties lie on both sides of a page's end, arrive late and go; limits that are missing,
  unreadable, negative or above the maximum. The Map has two places for up to four keys, the window
  is two ticks of a clock that goes to two, so that hits leave the window, and the limit is 0, 1 or
  2. 224,000 states.
- `Lifecycle`: of the four inputs two can be applied, one cannot be read and one fails half-way; two
  writes of the record give a change while a reload of the former one is under way; two shutdowns,
  one of which may be tried twice; one fault. 684,000 states.

Bounds appear as `MaxStarts`, `MaxPurges`, `MaxFaults`, `MaxTime`, `MaxResets`, `MaxReloads` in the
guards of the actions that need them. Symmetry is not used, since the runs check liveness;
interchangeable cleanups and fresh ids are instead picked in a fixed order.

### Fairness and deadlock

- Sync: weak fairness of the jobs' continuations, the in-flight inserts, the stopping of the
  limiters and the continuations of those who wait for it, taken together: the event loop runs what
  is ready and awaited calls settle. No fairness for emitting, pushing, starting or stopping.
- Webhooks: weak fairness of the cleanup timer, of the cleanups' continuations taken together (one
  cleanup may be stuck for ever while others go on) and of the write chain.
- DbPool: weak fairness of each call's continuation and of the reset; strong fairness of `Usable`
  (the driver does not report good handles as broken for ever) and of `StartWrite` (Bottleneck
  serves its queue in order, so that a waiting write is not passed over for ever).
- Ingest: weak fairness of what the server does for each request (calls settle, with a result or an
  error; workers and timers answer) and of the end of a stream *or* the departure of its client.
  None for arrivals, reloads, expiry, the cleanup or the late effect of a push that timed out.
- Lifecycle: weak fairness of the poll's timer, of the calls that a reload awaits (they settle
  unless they hang, which is a step of its own) and of the timer that forces the exit. None for the
  startup, the watcher or the calls of a shutdown.
- Forwarding: weak fairness of the push and the look-up (each settles or times out), of the end of a
  back-off and of the abort timer. No fairness for answers, the breaker's timer or the clock.

`CHECK_DEADLOCK FALSE` is set for the Sync, Webhooks, Forwarding, Ingest and ReadApi runs: there the
bounded clock, starts, reloads, requests and events may be used up, and a stopped service or a
server whose requests are done has nothing to do; and for Lifecycle, where the process ends.
`DbPool` is checked for deadlock: callers that wait for a reset, and the reset that waits for them,
always go on.

## 4. Proofs

Theorems hold for all values of the constants that satisfy `ConstantsAssumption` of each module
(`BatchSize` positive, `Null` not a number, the three kinds of calls disjoint and finite, and the
like); nothing else is assumed.

- **ReadModelSyncProofs**. The inductive invariant `IInv` adds to the types: `NoTwice` (no item is
  in the Dataset twice), `OffsetIsPosition`, `RowsCovered` (below any stored offset everything is
  mirrored), `CacheCovered` (the same below the cache) and `JobsCovered` (the same below the next
  offset of *every* job, and its batch lies inside the Dataset). `NoGap` alone is not inductive: a
  job inserts at an offset that it read long ago, which is safe only because what lies below that
  offset stays mirrored or purged, whatever ran in between. `LifeInv` gives `QuietAfterStop` and
  `RunningCanSync`: `CallsFollow` (what a call of `stop()` may rely on at each of its awaits),
  `Quiet` (what each limiter has left to do) and `CanSync`; the step that loses a limiter is then
  traced to a call that had captured another one (`LimiterKept`). The refinement maps each action to
  one abstract step; `JobsCovered` is what makes `InsertBatch` a legal `TakeIn`. The greatest offset
  exists by well-founded induction on a finite set of naturals. The documentation's claim that
  purged logs stay away is violated (`SyncPurgeReturns`); `PassedOverStaysAway` is what remains of
  it: an item that was purged is not put back once every offset that a job, the cache or a new query
  may work from is beyond it, which a row after it in the dataset guarantees across restarts.
  `ReadsItsSource`: its inputs are those of `EventSource`.
- **WebhookLifecycleProofs**. `IInv`: `FreshNowhere` (an id that was not issued is in no map, record
  or snapshot), `LapsedOver` (a lapsed id has no later expiry in the map, the record or a snapshot),
  `NeverAhead` (no snapshot, and no record while the process restored it, is ahead of the map),
  `HoldsExpired` (a cleanup that holds an id holds one that has expired by the clock, or is gone),
  `EmptyUntilUp` (the map is empty before `init()` has ended) and `Answered` (the record is what
  `init()` has been answered, or the snapshot of a signal emptied it). From it `LapsedForGood`,
  `ActiveKept` and `ActiveKeepsData`. `SavedIsCurrent` and `RestoredStaysSaved` need more:
  `LatestIsMap` (the last snapshot that waits to be written is the map as it is, the record if none
  waits), and `Remembered` (what the restored record held is in the map until it expires).
  `IssuedEndsOnce` is what `Ingest` assumes of the one webhook in it (`Expire`, `Cleanup`): while
  the process lives, validity ends once, by time alone, and data is deleted only afterwards.
- **DuckDbPoolProofs**. Types, with the bound on the pool, and `SingleWriter`, from `HasConn` (a
  running call has a connection) and `OneRunning` (whatever executes is the job that the write queue
  counts, and a reset past its first wait has none). `Handles` adds who holds which connection:
  `Staged` (a call has one exactly while it checks or runs), `Exclusive` (no two holders, the pool
  included) and `CountIsRight` (`active` is the number of running calls that were counted, none of
  them left once a reset closes). It gives `OneUser` and `CountedKeepsConnection`. `OneInstance`
  says which instance may be open, besides those that are being set up or whose set-up failed: the
  one of the current promise (`Current`), or, from the moment a reset has taken the promise away
  until it is over, the one it waits for (`Overtaken`). It gives `NoInstanceLost`.
  `WaitsForSomebody` says that whoever waits waits for somebody who is there: a call at the gate for
  a reset under way, a write for an open queue, a reset for an operation that runs. From it
  `SomebodyReady`, the absence of deadlock that the run checks for a few calls, for any number of
  them (a step is ready when its guards hold, handles being available). `TeardownAfterCounted` is
  the part of the violated `TeardownAfterReads` that holds.
- **ForwardingProofs**. `IInv` adds to the types `Course` (where a request is tells what it has
  done: a verdict exactly at `report` and `done`, no attempt before `send`, no error item before
  `done`) and `EachRequestCountsOnce`. Every action but the breaker's timers is first reduced to one
  of four moves of one request (`Moves`), and what it tells the breaker; the invariant and the
  refinement are then proved for the moves. A failure is counted in the same step as the verdict,
  which is given once, so that the set of failed requests of the host grows by one with it. That no
  host is twice in the map needs the arithmetic of removing an entry from the middle of a sequence
  and dropping its oldest part. `OnlyOnward` gives each request a place, which each of its moves
  raises and which is at most 2 * `RetriesOf` + 4: no interleaving makes it go round for ever, so
  that what `RequestsEnd` needs of fairness is that each await ends.

- **IngestProofs**. `Sound(r)` is the conjunction, for each request, of `Course` (where it is tells
  what it has done: no answer before `done` or the background tasks, an event exactly from
  `transforming` on), `Threads` (a worker that runs or is being stopped belongs to a request at the
  script or behind it), `Judged` (the verdict of the stream names the options it was reached under,
  and the one in the event follows from them unless a script has written it), `Offloaded` (a
  reference is in the key-value store until the cleanup that finds it) and `Justified`. None of the
  properties is inductive alone: `SignatureHonoured` speaks of the event, which is built two awaits
  after the verdict, under other options. `OneRequest` is the frame: a step of one request keeps the
  others `Sound`. `Null` is not a record of the kind it stands in for (`ConstantsAssumption`).
  `Recorded` (a request that waits for `pushData` is not stored yet, and a late push belongs to an
  event that was emitted) gives the refinement of `EventSource`; `EventIsFinal` says that nothing
  changes an event once it is out. `OnlyOnward` (the rank of a stage rises with every move) and
  `AwaitedIsThere` (a request that waits for a worker has one) are the safety under
  `EveryRequestSettles`.
- **RateLimiterProofs**. `InOrder` (the sets of older keys of two keys are nested, so that a full
  Map has one oldest key, by well-founded induction) and `LaterSeen` (whoever was inserted after a
  key was checked after it). From these `EvictedCrowdedOut`: the key that is evicted was crowded out
  by `Capacity` others. The refinement maps `Check` to `Call`, pruning to a stutter and the clock to
  `Elapse`.
- **AppLifecycleProofs**. `OneUpdate` (at most one reload is under way, and the parts that it has
  not reached yet are all that may differ from the input taken last) gives `ConfigWhole`;
  `LeftBehind` (what each shutdown has closed behind it stays closed, although another may be at an
  earlier step and the startup may still go on) gives the safety part of `ShutdownEnds`,
  `CleanExit`. `Counted` (one timer for each failed attempt and one for that under way) gives
  `ExitIsForced`: a shutdown that has begun is never without a timer that ends it.

- **ReadApiProofs**. `NewestIsTotal` and `NewestIsTransitive` make the order of the listing, by
  timestamp and id, a strict total order, and `OrderedIsAll` makes the answer of a query all of its
  rows (an injection between finite sets of one size is onto). `Following` is the inductive
  invariant of a listing by cursor: what was given is sorted, the cursor is its last row, and a row
  that stayed was given or is beyond the cursor. For a listing by offset, `RankOf` (in an order by
  rules that tell the rows apart, the k-th row has k - 1 before it, by counting) gives `OneOrder`: two
  orders of the same rows are equal, whatever the database chose each time. `Listing` then says
  that what the client has is the beginning of that order, and a page appended to it a longer one.
  Timestamps are numbers, ids are
  numbers, and `Absent` is none (`QueryAssumption`).

Every invariant and action property that a passing run checks is proved. Only model-checked are the
eight liveness properties (`TriggeredSyncCatchesUp`, `ExpiredIsRemoved`, `ResetCompletes`,
`ReadsSettle`, `RequestsEnd`, `EveryRequestSettles`, `InputTaken`, and that a shutdown ends,
`ShutdownEnds`): they rest on weak and strong fairness, hence on ENABLED, and on induction over the
number of steps that are left, and the prover does neither. For five of them the theorems
above give the safety half: there is always a step to take (`SomebodyReady`, `AwaitedIsThere`,
`ExitIsForced`), or only boundedly many (`OnlyOnward`, twice).

The components meet in three places, and there their theorems fit together: what `Ingest` puts out is
an `EventSource`, which is what `ReadModelSync` takes in; what `WebhookLifecycle` guarantees of a
webhook is what `Ingest` assumes of its own; the client and the limiters of the read API share no
state.

## 5. What is not modelled, and the plan

Not modelled: rendering, logging, SQL text, HTTP parsing and the libraries; authentication, the SSRF
rules and the security headers (stateless checks of strings); the coercion of single options; the
text and the heartbeat of the live stream; the routes that read once and keep nothing; the
bootstrap of the INPUT file, which ends before the process starts anything.

Sentences of the repository that the models do not follow, since the code does not, and which no
run needs: `docs/api-reference.md` lists `id` as a filter of `GET /logs`, and `signatureError` as an
exact one, which is ILIKE in the code; `main.js:515` calls the ingest path "intentionally unlimited",
while the webhook limiter is in front of it. Further, `AppState` makes the default of a
`replayMaxRetries` of 0 when it is constructed, and the input of the environment is replaced by the
record at the first poll.

What is left, in the order planned:

1. The safety half of the three liveness properties that have none yet: a job of the sync service
   is answered or stopped, a cleanup's iteration gets shorter, a reload's parts run out.
2. An abstract specification of the persisted record, which `WebhookLifecycle` implements.
3. Pure operators for the configuration's coercion, checked against the schema of the input.
4. The composition of `Ingest` with `ReadModelSync` in one module: rows and payloads of a request
   that is logged while its webhook is cleaned up.
