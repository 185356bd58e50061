# A verification of notifkit

TLA+ models of the parts of notifkit where several processes, Redis and
PostgreSQL have to agree, the TLC runs that check them, and proofs (TLAPS) of
what matters most. Line numbers are those of the repository's `src/`.

## 1. The system

A notification goes through a pipeline of Redis streams, one consumer group per
stage, each stage any number of processes:

    API -> INBOUND_{critical,normal,low} -> enricher -> ENRICHED_* -> engine
        -> OUTBOUND_* -> delivery -> EVENTS_INBOUND -> event worker
    engine, delivery -> SCHEDULED -> scheduler -> (sorted sets) -> OUTBOUND_*
    engine -> AI_PENDING -> AI worker -> SCHEDULED or OUTBOUND_*
    API, timers, event worker -> WORKFLOW_INBOUND -> workflow worker -> INBOUND_*
    every stage -> DEAD_LETTER, replayed or deleted through the API

| component | state it keeps | operations | what is hard | what makes it correct |
|---|---|---|---|---|
| stream queue `queue/index.ts` | stream, pending list (PEL), delivery counts, ack buffer | publish, readBatch, ack, nack, autoclaim, touch | reclaims racing the holder, buffered and half-applied acks, stale counts | an entry leaves only when done or dead-lettered |
| worker loop `workers/index.ts` | permits, running tasks, state | consume, recover, process, stop, start | queued entries go idle, shutdown abandons work, poison pills | the backlog drains |
| idempotency guard `idempotency/index.ts` | key per piece of work | acquireLease, checkAndMark, markProcessed, unmark | death between key, work and mark; unconditional unmark | work is done once, a duplicate is a real duplicate |
| workflow engine `services/workflow` | instance, steps and waiters (PostgreSQL), lock and timers (Redis), inbox (stream) | trigger, run, wait, waitForEvent, cancel, timer poll, reaper | three stores, no transaction; early, late and duplicate resumes | no instance is stranded, no step repeated, no sleep cut short |
| event worker `services/events` | log and resume buffers, waiters | match, record, resume | buffered resume, waiter deleted first | an answered wait is resumed |
| scheduler `services/scheduler` | scheduled_payloads, 16 sorted sets, poll lock, sentinel | queue, claim, gate, release, cleanup, rebuild | crash between any two calls, loss of Redis, re-parks and cancels during a release | nothing parked is lost, early, repeated, or sent after it was stopped |
| enricher `services/enricher` | mark per event, user and contact batches, buffered events | resolve recipients chunk by chunk, fan out | failure midway leaves events of early chunks in the buffer; repetition | every address, once |
| engine `services/engine` | mark per event, caches of suppressions, settings, templates | gates, quiet hours, schedule or dispatch | its mark, redelivery after a release or cancel, stale gates, changes of the clocks | one task per recipient and channel, none against the recipient's will or at night |
| delivery `services/delivery` | lease per task, breakers, provider budgets, outcome batches | send, fail over, retry, defer, pass on, mark | the send cannot be undone; retry and duplicate meet; late acceptance | the provider accepts a send once; one verdict; nothing vanishes |
| AI worker `services/ai` | lease per task | generate prompts, hand on | several billed calls under one lease | a prompt is paid once, a message accounted for |
| primitives `shared` | breaker state, batches, pending loads | execute, add, flush, load | late answers to a probe, a full set of flush slots, a failed query among others | one probe; no item stuck; failures stay where they belong |
| caches `templates/cache.ts`, `rate-limiter/project-settings-cache.ts`, `api/main.ts` | one row each, with a TTL | get, invalidate | look-ups overtaken by invalidations | nothing older than the last invalidation |
| limiters `rate-limiter` | leased tokens, a sorted set per user | check, refill | leases over the end of their window; bookings ahead | no overrun, no refusal too many |
| API entry `services/api/main.ts`, `auth` | key cache and its hashes, sessions, sign-in counts | authenticate, authorise, revoke | revocation beside a look-up | who is let in may do what is asked, and can be kept out again |
| API handlers `services/api/handlers` | none of their own | notify, cancel, listings, dead letters, users, opt-outs | partial publish, pages over changing tables, two operators | a success answer is true; once means once |
| webhooks `services/api/webhooks.ts` | message log, suppressions | attribute, store, suppress | events before their log row, timeouts, repeats | an opt-out taken is an opt-out kept |
| live events `api/live-events.ts`, `delivery/live-events.ts` | subscription, quiet flag | subscribe, wake, publish, go quiet | three connections whose replies cross | who watches sees the outcomes |
| repositories `repositories` | rows and two caches | import, patch, remove, opt out | read before a transaction, caches cleared early or not at all | a write is kept and seen |
| server `server.ts`, `workers/bootstrap.ts`, `redis` | pools, the counted Redis handle, workers | start, stop, signals | stop beside start, a second stop, work in hand | nothing in use is closed, nothing left open |
| migrations `db/index.ts` | journals, schemas | retarget, apply, check | installs, processes and versions on one database | installs keep apart |
| providers `packages/provider-*` | none | send, read an answer, read a callback | codes that lie about whose fault it was; lost answers | no good message or address is given up |
| dashboard sign-in `dashboard/src/hooks/useAuth.tsx` | a token per tab, one stored for all | load, verify, sign in, sign out | answers that arrive after a newer sign-in | a tab keeps its session until it leaves |

Rendering, contracts, the client, the MCP server, the project generator, the
profiling scripts and the pages of the dashboard hold no protocol of their own
(section 6). The hazards of the code, each at its line with the properties that
cover it, are listed in `PROJECT.json`.

## 2. The modules

| module | models | composes |
|---|---|---|
| `StreamWorker` | a stream, its consumer group, the workers and the idempotency guard | queue, worker loop, guard |
| `Workflow` | one workflow instance and everything that drives it | workflow worker, timer poll, reaper, event worker, API |
| `Scheduler` | parked sends from the engine to the provider | engine, SCHEDULED consumer, poll and rebuild, delivery, API, loss of Redis |
| `Delivery`, `DeliveryPromise` | one task in the delivery workers; what delivery promises of it | delivery, its stream, its lease, the scheduler |
| `Breaker`, `Batch`, `Loader` | the primitives of `shared/` and the enricher's batches | |
| `Primitives` | the three side by side | `Breaker`, `Batch`, `Loader` |
| `Tokens`, `UserWindow` | the limiters over their Redis scripts | processes, Redis |
| `Limits` | both side by side | `Tokens`, `UserWindow` |
| `Caches` | one cached row and its invalidation | API, pub/sub, a worker |
| `Fanout`, `Notify` | one request from the enricher to the engine's task; a repeated POST of one | API, enricher, engine |
| `Intake` | what enters the pipeline, by a request or by a replay | `Notify`, `DeadLetters` |
| `OptOut`, `QuietHours` | whether and when an address may be mailed | webhook, API, engine, release gate |
| `AiWorker` | one AI message between two consumers | |
| `Users`, `Pages`, `DeadLetters` | what the API does to rows, listings and dead letters | API, repositories |
| `ApiGate`, `AdminTabs` | who is let in | API, dashboard |
| `Access` | both side by side | `ApiGate`, `AdminTabs` |
| `LiveStream` | the live feed | API, Redis pub/sub, delivery |
| `Lifecycle`, `Migrations` | start, stop, migrate | server, workers, Redis handle, database |
| `Operations` | both side by side | `Lifecycle`, `Migrations` |
| `Providers` | the transports' reading of their providers | |
| `MC...` | constants for TLC; `MCServices` composes 21 modules (section 3) | |
| `StreamWorkerProofs`, `WorkflowProofs`, `SchedulerProofs`, `DeliveryProofs`, `DeliveryPromiseProofs`, `FanoutProofs` | theorems about the module of that name (section 4); `FanoutProofs` also about `QuietHours` | |
| `ApiProofs` | theorems about `OptOut`, `Users`, `DeadLetters`, `Notify`, `Intake`, `ApiGate`, `AdminTabs`, `Access`, `Tokens`, `UserWindow`, `Limits`, `Pages` | |
| `ServiceProofs` | theorems about `Primitives` and its parts, `Caches`, `AiWorker`, `LiveStream`, `Providers`, `Lifecycle`, `Migrations`, `Operations` | |

They fit together by assumption: `Workflow` and `Scheduler` take a stream as what
`StreamWorker` shows it to be, at least once, with a redelivery after the death of
a consumer, and take a lease as what it shows that to be: held by at most one
live process. What `StreamWorker` shows to be broken (below) is not assumed: where a worker marks
before it works, the models of that worker let a redelivery be acknowledged as a
duplicate of work that was not done (`EngineSkips` in `Scheduler`; `FanBegin`,
`EngineBegin` and `EngineAgain` in `Fanout`), whether its first run is dead or alive.

### StreamWorker

An entry `m` has a place (`where`: unread, in the PEL, acknowledged but not
deleted, gone), a delivery count and an idle time. Every delivery starts one task
`<<m, d>>`, whose `pc` walks through `processWithTracking`, the handler and the
guard: waiting for a permit, the key, the work, the mark, the acknowledgement, or
unmark and the dead-letter stream. One action is one Redis call, so other workers
act between any two of them. `ScanList` and `ScanClaim` are the two halves of
`autoclaim`. A failed call is applied, not applied, or half applied (XACK without
XDEL). `Mode` picks the guard: `"lease"` is acquireLease (delivery, AI), `"mark"`
is checkAndMark (enricher, engine). Delivery does not await its mark
(delivery/main.ts:707): here, as in `Delivery`, the mark is a step that comes, or fails,
before the acknowledgement. An entry whose payload does not parse is acknowledged before
any task is made of it (queue/index.ts:366, 654), and does not appear. Time is in ticks; idle times and TTLs are
relative, so time never runs out.

### Workflow

`run[r]` is a call of `WorkflowWorker.process`, `poll[p]` a call of
`pollWorkflowTimers`, `event[e]` a matching event in the event worker. `step` and
`waiters` are rows, `timers` the members of the sorted set: one shared by all
waits, one per event step, one for deferred resumes, as their names in the code.
Every database and Redis call that another process can observe is an action of
its own: arming the timer, the pending step, the waiter; deleting the waiter,
writing the answer, publishing, removing the timer. `slips` names the races that
the code leaves open and that can strand an instance:

* `noRow`: a deferred trigger came due before the row was there (timers.ts:45-53)
* `rearmed`: a poll removed the timer of a later wait (timers.ts:124)
* `noWaiter`: a crash after the pending step and before the waiter (main.ts:445-453), or an
  insert of the waiter that fails and whose failure cannot be written (:443-460)
* `otherWaiter`: a poll that times out one wait deletes the waiters of every wait for
  that event name (timers.ts:81-90, under the comment "Clean up only this step's waiter")
* `pollFailed`: a poll failed after it had deleted the waiter (timers.ts:82-123)
* `eventFailed`: the event worker died with the resume in its buffer (events/main.ts:347)
* `reaped`: the reaper reset an instance between its look and its write (timers.ts:145-151)

Left out: an event recorded in the step of a later wait for the same name (all
event steps share one name here, and the late record is allowed); a lock lost by
a live holder; the loop over several timers in one poll (claimed one at a time).

### Scheduler

A task is parked by the engine (`EngineInsert`, `EngineAnnounce`) and again by
delivery's reschedule (`Repark`, `Announce`). When the engine dies, its event is delivered
again; the process finds its own mark expired and parks once more (`EngineAgain`), or finds
it there and acknowledges a duplicate (`EngineSkips`, engine/main.ts:229-232): then a row that
was inserted and not announced has nobody to announce it. Park `g` is the g-th payload of a
task; its `scheduledAt` (`due`) and its trace id, hence its sorted-set member, are
its own. A rebuild's member has no trace id and is the member 0 of every park. `row` is
the park whose payload the table holds. Each process goes through the poll one
call at a time (`pc`): sentinel, rebuild (read rows, ZADD NX, set sentinel), lock,
claim on all shards, load, gate, publish lane by lane, delete the rows that still
match, remove the members, unlock. The shards are claimed in one action: a task
lives on one shard, so no one can tell. The results of the rebuild's ZADDs are not read
(scheduler/main.ts:301): `RequeueFails` lets any of them be refused, as often as Redis likes,
and the sentinel is set all the same. `attempt` is delivery's handling of an
OUTBOUND entry, with its lease. `Wipe` empties Redis at any moment. `Cancel` and
`OptOut` come from outside. Left out: members that are not JSON, rows without a
send time, the limit of 100 per shard (a poll that leaves some due is a poll that
came before they were due), two deliveries of one task at the same moment (the
lease excludes it except for throttle deferrals), log retention.

`slips` again names what the code leaves open: `again` (the engine's event was
redelivered), `skipped` (and taken for a duplicate before its row was announced, with the
sentinel set or a rebuild past its rows), `unqueued` (a rebuild's ZADD of a row that no
other announcement covers was refused), `removed` (a poll removed by name the last
member of a later park, the one that a rebuild had queued for it meanwhile), `unmarked`
(the mark of a send was lost), `late` (canceled with success although a poll had
loaded the payload or the send was under way), `passed` (an opt-out after the
gate), `wiped` (Redis lost a send that had left the table, or its mark),
`sealed` (Redis lost its data during a rebuild). The first excuses a loss only in the
situation named: a poll that removes the member of a re-park that has another, or that was
queued by the re-park itself, is a violation of `Kept`.

### Delivery and its promise

`Delivery` follows one `notification.dispatched` task through `process` of
delivery/main.ts. `copy` are its stream entries, `parked` its row in
`scheduled_payloads`, `job[h]` a call of `process`, `sendKey` the lease and later the
mark. `Gate` is the throttle, before the lease as in the code; `TakeLease` the
guard; `ProviderAccepts`, `ProviderAcceptsLate`, `ProviderFails` and `TokenRejected`
the outcomes of one `send`, provider after provider; `Retry`, `Defer`, `PassToNext`,
`Tell...` what they lead to; `Settle` the mark, `AckEntry` the end. `ParkFails`,
`CallFails`, `SettleFails` and `Crash` interrupt any of them, and `Throw` is its
catch block. The abstract specification `DeliveryPromise` has four steps: a provider
accepts, a verdict is published, the task is passed to the next channel, something
goes unrecorded. Its guards say what is promised (accepted once, one verdict,
`failed` and the next channel only without an acceptance) and its variable
`unsure` names what voids the promise: `sent` (accepted, but its mark is not set:
the answer came after the timeout, the worker died, the mark failed), `verdict`
and `split` (a verdict or a hand-over not recorded by a mark) and `unchecked` (the
throttle drops a task without looking at its mark, main.ts:423). `Promised` is the
refinement; `NotLost` says that when no entry and no row is left, a provider, a
verdict, the next channel or the dead letters has the task.

### Primitives, limiters, caches

* `Breaker`: `execute` of circuit-breaker.ts is `AdmitPlain` or `AdmitProbe`, then
  `Succeed` or `Fail` at any later time; `Ripen` is `resetTimeoutMs`. `outlived`
  records the one crowd the code admits: a call older than the opening that succeeds
  and closes the breaker beside the probe.
* `Batch`: `add`, the timer, `flushOnce`, `flush`. A batch is answered (`Answer`) and
  its slot freed (`EndFlush`) in two steps, as promises and their `finally` are.
* `Loader`: `DataLoader` and the enricher's `flushUserBatch`; `kind` picks what one
  failed query does to the others.
* `Tokens`: `checkLimit` and the refill of api-rate-limiter.ts and throttle.ts over
  LUA_LEASE_API_RATE_LIMIT; a lease (`Grant`, `Outage`, then `Credit`) may arrive in a later
  window. `outages` marks windows in which Redis failed and the code lets all through.
* `UserWindow`: LUA_USER_THROTTLE; `at` is the send time and may lie ahead or behind.
* `Caches`: `cacheKind` picks the settings cache, the template cache of a worker that
  subscribes, the enricher's, which does not, or the key cache of the API.
  `overtaken` marks an entry stored by a look-up that an invalidation overtook.

### From request to task

* `Notify`: `Post`, `PersistInline`, `PublishChunk` per chunk, `AnswerPost`, or
  `PostFails` between any two; the caller repeats the request, with another list if
  it likes; `TakeInbound` is the enricher's deduplication by id.
* `Fanout`: the enricher's run (`FanBegin`, `FanLoad` per chunk, `FanEnd`, `FanAck`)
  with the buffer of its producer (`FlushBuffer`), and engines that take, gate,
  hand on, mark and acknowledge an address. Marks expire under dead holders only.
  `lapsed` are addresses whose mark was left by a worker that died or could not release it
  (the finding of `worker_mark`), or whose entry was acknowledged as a duplicate by a second
  delivery beside a run that failed afterwards (`Forsaken`, `Deserted`);
  `unrecorded` those handed on by a run that could not say so.
* `OptOut`: the webhook's steps (`ReadLog`, `StoreEvent`, `Suppress`, the answer, the
  timeout), the unsubscribe link, the operator, the engine's suppression cache (an
  entry of `seen`, aged in ticks) and the gate at release. `missed` are events that
  came before the row of their message.
* `QuietHours`: `isInQuietHours` and `localTimeToUtc` as operators over slots of a
  day, with an offset that changes once; the chain of at most 10 links is followed one
  link per step. The code has no limit on the windows of a user.
* `AiWorker`: one event, two consumers, time in ticks; the lease is
  `Timeout * MaxPrompts + Margin`, as in main.ts:136-142.

### API, dashboard, server

* `ApiGate`: the order of checks in the request handler of api/main.ts; the key cache
  (`authCache`) with its table of hashes, bounded as there.
* `AdminTabs`: the first administrator, sessions, and tabs of the dashboard that share
  local storage; a request of a tab is on the wire while it goes on.
* `Users`: a profile and an address; a value is the number of the call that wrote it. An
  attribute that nobody set is read as its default and written back as such by a PATCH
  (`Shown`). There are three caches, of as many repository instances: `own` (profiles, in
  the API, which clears it), `records` and `contacts` (in the enricher, which nobody
  clears: they lag by up to 30 s). `clobbered` and `behind` name the fields a PATCH wrote
  back and the reasons a cache may lag.
* `Pages`: the three listings by cursor over a table that changes between pages.
* `DeadLetters`: look-up, replay in two calls, delete, two operators.
* `LiveStream`: SUBSCRIBE and UNSUBSCRIBE in order on one connection, the wake-up on
  another, delivery's publish and its reply on a third.
* `Lifecycle`: `start`, `stop`, signals; pools, the counted handle on the shared Redis
  connection, and one message in hand at a time, possibly handed from enricher to
  engine to delivery inside the process.
  The order in which services start and stop is a rank for each
  (`StartTurn`, `StopTurn`).
* `Migrations`: `runMigrations` with its journal, retargeting and check; drizzle
  (external) reads the journal and applies in one transaction, which fails when a migration
  misses what it builds on (`BuildsOn`) or makes again what it cannot make twice
  (`Repeatable`). The check looks for tables only (`Creating`), so a skipped migration that
  creates none passes it.
* `Providers`: what each transport makes of an answer that follows from the person's
  address, our request and the moment; lost answers, acceptances that cannot be read (a
  success for WhatsApp and Discord, a retry for the others), repeats, callbacks, the cut of
  a body, which spares Telegram's markup (`formatted`). Resend keys a send by task, the others have nothing of the kind.

## 3. The runs

| run | instance | what it shows |
|---|---|---|
| `worker_lease` | 1 entry, 2 workers, lease, buffered acks, 3 deliveries, 2 retries, 1 fault | `NoLoss`, `AtMostOnce`: reads, reclaims by the other worker, expiry of the lease under its holder, dead-lettering at the limit, a fault in any call |
| `worker_shared` | 2 entries of one key, 1 worker with 2 permits | the same for a duplicate published twice, and a process that reclaims what it still queues |
| `worker_live` | 1 entry, 2 workers, fair | `Drains`: unread leads to gone, after crashes and failures |
| `worker_mark` | 1 entry, 2 workers, mark | violation of `DuplicateIsReal` |
| `workflow_timed` | notify, waitForEvent, wait, notify, run; 2 runs, 1 poll, no event, 1 fault of the worker or poll | not stranded, nothing twice, early or after a cancel, final states stay, the instance terminates |
| `workflow_event` | waitForEvent twice for one name, notify; 1 run, 1 poll, 1 event, 1 fault anywhere | `NotStranded`, `WaitsForAnswer` with the event racing its timeout, the other wait, the reaper and a cancel |
| `workflow_event_crash` | waitForEvent, notify; 1 run, 1 poll, 1 event, the event worker may die | violation of `AnsweredIsResumed` |
| `workflow_naps` | wait, wait; 1 run, no fault | violation of `SleeperHasTimer` |
| `scheduler_retry` | 1 task, 1 scheduler, 2 parks, 1 fault, fair (1.04 million states) | `Kept`, `SentOnce`, `StopHolds`, `NotEarly`, `Settles` over cancel, opt-out, throttle, retry, crash, failed call, wipe, refused ZADDs and a redelivery taken for a duplicate |
| `scheduler_two` | 1 task, 2 schedulers, 1 park, 1 fault (6.0 million states) | `Kept`, `SentOnce` with overlapping polls and rebuilds |
| `scheduler_wipe` | 1 task, 1 scheduler, 1 fault | violation of `SentinelIsHonest` |
| `services` | one instance of each of 21 modules (below) | two temporal conjunctions, the refinement `Delivery` => `DeliveryPromise`, and 14 invariants, for late answers, failed halves, stale reads, crashes and limits everywhere else |

Bounds. One entry, instance or task is enough where different ones share no
state; two entries are used where they share a key. Two workers, runs or schedulers
give every race between an old holder and a new one. `MaxDeliveries` is one more
than the retry limit: counts above it are treated alike. Two parks make one
release race one re-park. Visibility, lock and lease are one or two ticks: what
counts is the order in which they run out, and any number of ticks may pass between
two steps. Refused ZADDs of a rebuild need no fault: any number may occur. `skipped`,
`unqueued`, `sealed` and `wiped` are all reached, and needed, in `scheduler_two`; `removed`
needs two schedulers and two parks (Redis wiped between the deletion of a row and the removal
of its member, the other process rebuilding), which is beyond these instances: there
the exception is never used, and the proofs cover it. One fault per behaviour is the main limit: two independent failures are
explored by no run, though by the proofs.

Fairness. Workers, polls, reclaim scans, timers and the clock are driven by
intervals and loops that the processes restart, so each step they can take is
taken in the end (`WF`). No fairness is assumed of callers, events, cancels, opt-outs,
throttling or faults. `CHECK_DEADLOCK FALSE` stands in the workflow runs and in
`services`: an instance that has finished, a listing that has ended, a server that
has stopped has nothing left to do.

### The run `services`

`MCServices` holds one instance of 21 modules that share no variable. A behaviour
chooses its `part` at the start and follows it; the others rest in one initial
state. So the states are the sum of the parts (about 780,000) and not their product, and
a property of one part is checked on all behaviours of that part. Where
parts do interact, the composition is a module of its own (`Fanout`, `OptOut`,
`Delivery`, `LiveStream`, `Lifecycle`), or the stream and lease that `StreamWorker`
justifies. Several properties of a part, or of parts of one kind, form one
conjunction, named for what they say together (`PrimitivesHold` is defined in
`Primitives`, `EnteredOnce` in `Intake`, `AccessHolds` in `Access`, `LimitsHold` in
`Limits`, `OperationsHold` in `Operations`, `ServicesTypeOK` in `MCServices`):

| property | conjuncts | part and instance (distinct states) |
|---|---|---|
| `PrimitivesHold` | `ProviderIsSpared` | `Breaker`, 3 calls, threshold 2 (188) |
| | `BatchesSettle` | `Batch`, 4 items, batches of 2, 2 slots (7,668) |
| | `LoadsSettle` | `Loader`, 3 loads of 2 projects (495) |
| `LimitsHold` | `NoOverrun`, `RefusedWhenSpent` | `Tokens`, 2 processes, 3 requests, limits 2 and 11 (with and without batches of several), 2 windows (22,356) |
| | `WindowKept` | `UserWindow`, 3 messages, limit 2 (13,991) |
| `FreshAfterInvalidate` | | `Caches`, 2 look-ups, 2 changes, 4 kinds (2,561) |
| `StreamsAreFed` | `OpenIsHeard`, `NotQuiet` | `LiveStream`, 2 clients, 2 outcomes, 3 attempts (4,357) |
| `Promised`, `NotLost` | | `Delivery`, 2 handlers, 2 entries, 2 attempts, 1 deferral, 1 fault (72,644) |
| `EveryAddressOnce` | `AllFannedOut`, `NoneForgottenOnTheWay`, `HandedOnOnce` | `Fanout`, 2 addresses in 2 chunks, 2 engines, 2 faults (191,208) |
| `WritesAreKept` | `FieldsKept`, `CacheFollows` | `Users`, 2 callers, 2 writes, an attribute with a default, a preference, the API's cache and one of addresses (54,292) |
| `PaidAndAccounted` | `PaidOnce`, `Accounted` | `AiWorker`, 2 consumers, 3 prompts of which 2 are allowed (5,481) |
| `EnteredOnce` | `RequestsCountOnce` | `Notify`, lists of 2 and 3 in chunks of 2, 2 posts (3,860) |
| | `LettersCountOnce` | `DeadLetters`, 2 letters, 2 operators (3,218) |
| `EachEntryOnce` | `NoneTwice`, `AllListed` | `Pages`, 4 rows of 3 things, pages of 1, 1 change (19,693) |
| `OptOutHeeded` | `OptOutHeld`, `GateHeeds`, `SoonHeeded`, `FirstReasonWins` | `OptOut`, 1 event, its repeat, 1 mail (81,644) |
| `SentInDueTime` | `QuietKept`, `NotOverdue` | `QuietHours`, days of 5 slots, up to 2 windows, 2 zones, 3 changes of the clocks (50,150) |
| `AccessHolds` | `GateHolds` | `ApiGate`, 2 keys, a cache and a table of hashes of one (29,034) |
| | `SessionsHold` | `AdminTabs`, 2 tabs, 2 API processes, 2 sessions (18,672) |
| `OperationsHold` | `StopsCleanly` | `Lifecycle`, 3 sets of services, one start, 2 stops, 2 messages (154,382) |
| | `InstallsAreApart` | `Migrations`, 2 schemas, 2 processes, packages of 1 to 3 steps, the second of which creates no table, the third repeatable and not rewritable (41,572) |
| `AnswersJudged` | six conjuncts | `Providers`, 8 transports, 3 sends (5,743) |

`ServicesTypeOK` is the types of all of them. Two processes, callers, tabs or
handlers give every race between an old actor and a new one; limits are at most
3, so that each is reached, met exactly and passed. Days of five slots hold a
window that wraps, two that touch and one that covers a change of the clocks. No
fairness is assumed: what must eventually happen here ("no item stuck", "not
lost") is stated as an invariant over what would still make it happen.

History variables name the exceptions that the code leaves open. They are part
of the statement of a property, so a property says exactly when it may fail:

* a timed-out send may have been accepted; the next provider, a retry or the next
  channel sends it again (`sent`, delivery/main.ts:540);
* after the last deferral the throttle drops a task without a look at its mark, so a
  task already sent can be reported as failed or passed on (`unchecked`, :423);
* the enricher's template cache is never told of an invalidation, and template and
  key caches keep what an overtaken look-up stores (`overtaken`);
* a request that waits for tokens while its window turns is refused though nobody
  said the new one is spent (`turned`, api-rate-limiter.ts:94);
* a message decided after its own send time does not count (`late`, user-throttle.ts);
* a PATCH overwrites attributes written since its read (`clobbered`, user.ts:449), and
  stores the default of a language or time zone that nobody set (`FieldsKept`); a removal
  clears the cache before the row, an import clears none, nor does an opt-out that
  fails after its row was written, and nobody clears a worker's (`behind`);
* a second delivery of an entry, acknowledged as a duplicate beside its live run, leaves
  nothing to repeat when that run fails (`lapsed`, engine/main.ts:229-232, enricher/main.ts:333,
  workers/index.ts:258);
* a migration that creates no table is skipped without a word when a shared journal
  already reads past it, and for `public` so is any (`TablesAreThere`, db/index.ts:189-209);
* two operators, or a failure between two calls, replay a dead letter twice (`twice`);
* a log listing ends early after its last round, a user listing when the row of its
  cursor was deleted (`cutShort`);
* an opt-out reported before the log row of its message is lost (`missed`,
  webhooks.ts:74);
* the answer of a check of a stored token replaces a newer session
  (useAuth.tsx:60);
* a second stop() beside the first, or a stop() beside a start(), closes connections
  that are in use (`overlapped`); a drain ends after 30 s (`timedOut`);
  a recovered message that waited for a slot starts after the drain, which waits only for
  the tasks it saw at its end (`behindDrain`, workers/index.ts:118, 166);
* a reply to an outcome published before a subscription arrives after the wake-up and
  silences delivery again for the quiet period (`crossed`);
* an install in a schema that is named `drizzle` shares the journal of an install in
  `public`, and each takes the other's migrations for its own (`Apart` in `Migrations`,
  db/index.ts:79-84, 165-169).

### Seen in passing

Two comments differ from the code and have an exception instead of a run of their own. The
sentinel is "present while the scheduler ZSETs are known to be intact"
(scheduler/main.ts:258), but it is set whatever the ZADDs of the rebuild answered (:301,
:308): `unqueued`, the same sentence as in `scheduler_wipe`. And the defaults of language and time zone are
"Applied when a profile is read, not when it is written" (user.ts:17-20), but updatePartial
stores those that findById filled in (user.ts:42-49, 449-463).

Observed while translating, at the edge of what is modelled: deleting a project
announces no invalidation of its keys, handlers/projects.ts:21-31; starting the same
server object again after a stop forwards no events, server.ts:67-84, 266-270; an open
event stream keeps stop() waiting, api/main.ts:571; `invalidToken` acts for push
only, delivery/main.ts:556-571, though provider-twilio/src/index.ts:9 says its codes
suppress the contact; an unverifiable callback is dropped with the opt-out it
carries; quiet
hours follow at most 11 windows (quiet-hours.ts:137), so a user with more of them, back
to back, is mailed within one.

### Findings

* **The mark of the dead** (`worker_mark`). checkAndMark writes the value of a
  completed key before the work. If the process dies, the redelivery finds it and is
  acknowledged as a duplicate: the notification is lost, against the comment at
  engine/main.ts:228.
* **The buffered resume** (`workflow_event_crash`). The resume is pushed to a
  buffer, the waiter deleted, the buffer flushed later, against the comment at
  events/main.ts:321-324.
* **The shared timer** (`workflow_naps`). The poll publishes the resume and then
  removes the member by name; a run that has reached the next wait in between has
  its wake-up removed, against the comment at workflow/main.ts:368.
* **The sealed rebuild** (`scheduler_wipe`). If Redis loses its data during a
  rebuild, the sentinel is set over empty sorted sets, against the comment at
  scheduler/main.ts:258.

## 4. What is proved

`StreamWorkerProofs`, for every set of entries, keys and workers and every value
of the bounds, from `StreamWorkerAssumption` only (the constants have their types,
and `MaxDeliveries` exceeds the retry limit):

* `TypeInvariant`: `Spec => []TypeOK`.
* `NothingLost`: in lease mode, `Spec => []NoLoss`. `NoLoss` says of a state that
  an acknowledged entry is backed by work or a dead letter; it is not inductive,
  because a task that is about to acknowledge may have decided so long ago.
  `LossInv` adds the reasons: a key reads "1" only after the work (the step that
  fails in mark mode), a task at `mark` or `ack` and a buffered ack are backed by
  the work, a task at `nacked` by the dead letter. `FreshInv` (nothing is in memory
  for an entry that was never read) keeps a first read from overwriting a task.
* `WorkDoneOnce`: in both modes, `Spec => []AtMostOnce`. `OnceInv` says that, as
  long as no mark of the key was lost, at most one of its tasks is in process, the
  key is held while one is, the effect count is 1 exactly when that task has
  passed the work, and afterwards either it is about to write "1" or "1" is there
  without a TTL. The proof has a lemma for task steps (`OnceStep`), one for
  process steps (`OnceProcess`), and a frame lemma for steps that leave a key alone.

`DeliveryPromiseProofs`, from no assumption, holds one lemma that `DeliveryProofs` cites:
whoever implements the promise accepts a second time only after an acceptance that its mark
does not record (`AcceptedOnceHolds`; by the guard of the promise's step, and `UnsureGrows`).

`DeliveryProofs`, for any handlers, entries, retries, deferrals and faults
(`DeliveryAssumption`: the constants have their types):

* `NothingIsLost` (`NotLost`), `PromiseKept` (`Promised`, the refinement of
  `DeliveryPromise`), and from the latter with `AcceptedOnceHolds`, `TaskAcceptedOnce`: the
  provider accepts a task once, of the workers themselves.
* The inductive invariant says who has what. A handler holds a pending entry that no
  other handler has (`OwnEntries`), and works only under a lease that one handler holds
  (`LeaseHeld`); what it did without recording it follows from where it is (`DidFits`);
  an acceptance is in the mark or with the handler that will write it
  (`AcceptedKnown`); while nothing went unrecorded the task can be sent from one place
  only (`OneOpen`), and from none once there is a verdict or the next channel has it
  (`JudgedIsOver`, `PassedIsOver`); what is settled somebody outside has heard of
  (`SettledIsKnown`), and the task is always somewhere (`Somewhere`).
* `StepView` sums up each action by what it does to handlers, entries, lease and
  history. The invariant and the refinement are both proved from these summaries, so
  each action is expanded once. In the refinement `TakeLease`, parking
  and acknowledging stutter; the others map to a step of the promise, with the guard
  of that step from the invariant.

`WorkflowProofs`, for any program of steps, runs, polls, events and faults
(`WorkflowAssumption`): `TypesHold`, `FinishedForGood`, `SleptOut`, `Answered`,
`ActedOnce`, `CancelHeeded`, `NobodyStranded`, for the six properties of the runs and
the type invariant. The invariant is built in layers, each inductive over those below:

* `Base`: types, the kind of each step's row, one run behind the lock (`Alone`).
* `Order`: recorded steps are a prefix, only the last may be waited for, a run is at
  the first step without a row, waiters and polls refer to recorded event steps.
  `SleptOut` and `Answered` follow.
* `History`: an effect that was not redone happened once and its row is there or about
  to be (`Once`); the one effect after a cancel was under way (`LateOnce`).
* `Wakes`, while no slip has happened: a run has the instance to itself (`Owned`); the
  wake-up of an unfinished sleep is in the sorted set and no poll has it (`NapKept`); an
  event step without an answer is being written, has waiter and timeout, or is being
  timed out (`WaitKept`); an unfinished instance has a resume on its way or is waiting
  for one of these (`Driven`). It is the argument for `NotStranded`, and the actions
  that break it are those that set a slip.

`SchedulerProofs`, for any tasks, processes, parks and faults: `ParksTyped`,
`NeverEarly`, `SentJustOnce`, `StopsHold`, `NothingForgotten`.

* `Base`: types, and that nothing is announced, queued, read or sent of a park that was
  not made; the `Early...` clauses keep the first park out of every batch, set and copy
  before its time.
* `SentIsKnown`, `LeaseHeld`: the lease is held while a send is under way, and after an
  acceptance the mark is there or about to be: `SentOnce`.
* `AgainIsKnown`, `CanceledIsGone`, `OptedOutIsHeld`: a stopped send is nowhere, unless it
  was on its way: `StopHolds`.
* `Held`: a send that is owed has its row or an entry on OUTBOUND (`RowOrCopy`); a poll
  past the gate deletes only where there is an entry (`PublishedIsThere`,
  `ClaimedIsRead`); and a row that is owed will be looked at, because it has a member,
  is announced, or a rebuild has read or will read it (`SealedIsComing`,
  `RebuiltIsComing`): `Kept`. A redelivery that announces nothing and a refused ZADD break
  this last part only where they set a slip (`SkippedIsLost`, `RequeueFailsLeaves`).

`FanoutProofs`, for any addresses and chunks and a finite set of engines:
`FanoutTyped` and `EveryoneReachedOnce` (`EveryAddressOnce`). What a run of the enricher
has loaded is in the buffer or published, unless it was told of a failed flush
(`LoadedIsKnown`); a request leaves with every address published (`LeftIsReached`);
what is published has an entry or was handled (`PublishedIsHeld`), each message in an
engine whose entry was not acknowledged beside it an entry of its own (`EntryForEach`); a message at work holds its marker alone
(`WorksAlone`), and a task handed on is on record (`HandedIsKnown`).

Also in `FanoutProofs`, of the engine's `QuietHours`, for any windows, zones and changes
of the clocks:

* `QuietHoursKept`: the time found is never later than the quiet hours last, but for the
  hour skipped or repeated (`NotOverdue`), and is outside them unless `MaxChain` links
  were followed. One link (`LinkIsQuiet`) is the heart: by the cases of where the
  clocks change it ends later than it began, and all the time to its end is quiet. It
  needs that `localTimeToUtc` answers by one of two offsets (`ToUtcIs`) and that from a
  slot of a window to its end every slot is in it (`InWindowToEnd`).
* `SentWhenDue` (`SentInDueTime`, whole): if `2 * MaxWindows <= MaxChain` the chain is
  never cut off. For the code's 10 links that is every user with 5 windows or fewer; the
  hypothesis is part of the statement because the code has no such limit. The argument
  (`ChainBefore`, `ChainAfter`): unless the whole day is quiet, every link ends at the end of a
  window whose end the wall clock has not shown since the chain began, or since
  the first time found after the change of the clocks. Otherwise there would be a day of
  quiet in a row (`EndIsNew`, `SameSlotApart`, `DayOfQuiet`). So there are at most as
  many links as windows on either side of the change, but for one: just before clocks
  are put forward a link may stop short of its window's end, and the window is followed
  again. TLC refutes the statement for 2 windows and a chain of 3: for 2 windows the
  hypothesis is as weak as it can be.

`ServiceProofs`:

* `PrimitivesKept` (`PrimitivesHold`), from a theorem for each primitive.
  `ProviderSpared`: while the flag stands one call is the probe (`LoneProbe`), and a
  breaker that closed beside it was closed by a call older than the opening.
  `LoadsAnswered`: who is in a batch and has no answer is still to be asked for
  (`StillToAsk`). `BatchesSettled`: who is flushing is in one batch that is on its way,
  and an answered batch holds nobody who waits (`AnsweredIsTold`); its counting rests on
  the sizes of finite sets (`BatchSizes`).
* `CachesStayFresh` (`FreshAfterInvalidate`): the answer of a look-up that an
  invalidation overtook is marked, or will not be stored (`StaleIsMarked`).
* `AiPaidAndAccounted` (`PaidAndAccounted`): `LeaseCovers` says that the lease outlasts the
  run that took it, by a sum over the prompts left, so that one consumer works at a time
  (`WorksAlone`) and every bill but one is explained by a run that failed (`PaidSoFar`).
* `StreamsStayFed` (`StreamsAreFed`): the commands on their way fit what the API wants
  (`CommandsFit`), and between commands a listener is heard unless the subscription
  failed (`Heard`).
* `AnswersRead` (`AnswersJudged`): each transport's reading, case by case (`Judges`), and
  the cut of a body, which leaves no half of a surrogate pair (`TruncateIsWhole`).
* `OperationsKept` (`OperationsHold`), from `StopsKept` and `InstallsKept`. A connection is
  open exactly while it has references, and it has one at least for every handle
  (`RefsCover`); without an overlap of starts and stops as many as handles, and the
  services are where the turn of the start or stop says they are: those a stop is past are
  shut, the one it shuts is down, the ones to come are up (`Orderly`); a message in hand
  is in a stage that is up and that its owner reaches (`JobsFit`). For migrations: a
  package is rewritten for its own schema before it is read (`Rewritten`), what a process
  read in the journal is there when it applies the rest (`ReadIsThere`), and journal and
  tables agree.

`ApiProofs`:

* `OptOutsAreHeeded` (`OptOutHeeded`): what a gate heard before it began to read is still
  so when it decides (`HeardStands`), and a cached "clear" is older than the suppression
  that contradicts it (`AnswerIsOlder`).
* `WritesStay` (`WritesAreKept`): what a PATCH has read differs from the row only in what
  was written meanwhile, or in a default filled in (`ReadFits`), and each cache follows the
  row but for the named
  crossings (`EntryFollows`).
* `RequestsGoOnce`, `LettersGoOnce`, and from both `IntakeCountsOnce` (`EnteredOnce`): an
  event's id is a function of key and position (`IdFits`, `IdsDiffer`); a target of an
  answered request is taken or on the stream (`PublishedIsOnItsWay`); a dead letter goes
  one way, by one operator at a time (`GoesOneWay`, `OneAtATime`). What one target was
  taken for is counted by an injection into the positions of the list (`KeyedOnce`).
* `LimitsKept` (`LimitsHold`), from two theorems. `TokensAreKept`: what was admitted in a
  window, is in hand in a process or on its way in a lease is what the script gave out for it
  (`NoneOverrun`), so a lease that returns late cannot be credited to the next window; an
  empty lease and an empty answer are of a window that is spent (`EmptyLeases`,
  `EmptyAnswers`). `UserWindowIsKept`: as long as no send was late, every send that a
  window from now on can hold is still counted, and the key outlives what it counts
  (`StillCounted`), so neither pruning nor expiry forgets one.
* `PagesKept` (`EachEntryOnce`): the cursor parts what is listed from what is not, but for
  what changed, by the key of a row (`ByKey`) or by the newest row of a task (`ByTask`);
  within a page of the log so does the scan (`Scan`). A page takes the highest
  entries below the cursor; that it takes as many as fit and leaves none out between
  is a fact about ranks in a finite set (`RanksAreFilled`, `HigherHasFewer`), proved from
  the least element of a set of naturals (`LeastNat`) and the sizes of finite sets.
* `AccessKept` (`AccessHolds`), from `GateKept` and `TabsKept`: the key cache holds a key
  once and only with its hash, also when one is used, inserted, pushed out or expires
  (`CachedOnce`, lemmas `CacheShrinks`, `TouchFacts`); a look-up that found a row looked for
  a key (`FoundIsKey`); every token that a tab, the storage or a request holds is of a
  session that was made, and a tab leaves with its own (`TokensWereMade`).

What the proofs assume of the constants, beyond their types, is what the code or the
meaning of the constants gives: the AI lease has a margin (ai/main.ts:136-142); no run
is named as the free lock; engines are finitely many; a request body is a finite
list; a text comes with whole surrogate pairs; a role is not an API key; a table holds
finitely many rows; clocks are put forward by a day at most. TLC evaluates each
assumption in the runs.

Proving corrected the models in these places. `NobodyStranded` failed for an insert of
the waiter whose failure cannot be written, and for a poll that times out one wait and
deletes the waiters of another for the same name: both are what the code does, and are
slips now (`noWaiter`, `otherWaiter`; the run `workflow_event` has two waits for one name
to show the second). Engines had to be finite for the entries to be counted, and the
margin of the AI lease positive: without one the lease may run out in the tick in
which the last prompt ends. The key cache is written
with `RemoveAt` instead of a filter, which the provers cannot unfold. `InstallsKept`
failed for a schema named `drizzle`, whose journal is that of `public`: the code does that,
and `Apart` names it. The order of starts and stops is a rank for each service where it was a
filtered sequence, and what processes hold of a window is the size of a set of tokens
where it was a sum by a fold: the value of either for every set is an induction over
data.

Only model-checked:

* liveness (`Drains`, `Terminates`, `Settles`): the prover handles neither fairness nor
  ENABLED;
* the violations, which are counterexamples;
* `ServicesTypeOK`, the conjunction over the composition `MCServices`: the inductive
  invariants above contain the types of each part, in the form their proofs need.

## 5. Plan

Done: all modules of section 2 and the theorems of section 4. Every safety property of
a passing run is stated by a theorem, except `ServicesTypeOK`. What is left needs more
than another proof of the same kind:

1. Liveness by hand-made ranking functions: `Drains` and `Settles` would need a
   measure over entries, retries and faults, stated as an action property.
2. Two faults in one behaviour are covered by the proofs only; a run that explores them
   needs smaller instances than those of section 3.
3. The parts of section 6 that keep state: the fused pipeline, priorities, segments.

## 6. Not modelled

* Rendering of templates, contracts (schemas), logging, metrics, configuration and the
  layout of messages: data without a protocol. The client and the MCP server send one
  request per call and keep nothing. The project generator writes files once.
  The profiling scripts measure.
* Health: `/health` answers from a snapshot at most a second old, and reports worker
  states; a property of it would restate its conditions.
* Repositories of templates, segments, projects and campaigns: single statements.
  Where a race depends on one, the statement is a step of the module that uses it.
* The pages of the dashboard: views of one answer. They do not cancel a fetch when the
  project or filter changes, so a late answer can show another project's list.
* The fused pipeline appears in `Lifecycle` only; queues of several priorities, shards
  of the sorted sets and log retention do not appear.
