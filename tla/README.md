# Net2APP messaging gateway: TLA+ models and proofs

Net2APP is a multi-tenant SMS gateway: one Node.js process (Next.js), a PostgreSQL
schema per tenant, an SMPP server for clients and phones, SMPP links to suppliers,
and an HTTPS polling API for phones that cannot speak SMPP. This directory holds
TLA+ models of the parts in which several asynchronous handlers write the same
state: the life and billing of a message, the delivery receipts (DLRs) on their way
back to the client, the two kinds of phone gateway, submission over HTTP with its
duplicate guard and outcome poller, the links to suppliers, route fallback, and the
status column the dashboard shows.

Paths below are relative to `src/src/lib/` unless they start with `src/`.

## 1. The system and what is hard about it

| component | state | operations | interacts with |
|---|---|---|---|
| Charging modes (`charging.ts`) | mode of each client and supplier | which side pays at submit, at delivery, or by a forced outcome | every handler that bills |
| SMPP submit (`smpp-server.ts`, `processSubmitSm`) | row of `messages`, `tenants.sms_counter`, `dlrCallbacks`, timers | route, INSERT, count, register callback, `force_dlr` job, `force_dlr_timeout` timer | supplier links, phones, sweeper |
| Supplier receipts (`smpp-client.ts`, `processSupplierDlr`) | `pendingDeliveries` | match by id or destination, wait, recover from the database, update the row, fire the callback | submit, sweeper, DLR queue |
| Stale-DLR sweeper (`dlr-timeout-sweeper.ts`) | none of its own | select stale rows, resolve, charge, push | the same rows |
| DLR queue (`dlr-queue.ts`, `dlr-queue-persist.ts`) | queue per client, table `pending_dlrs` | enqueue, flush, requeue, load at start, cleanup | sessions, receipts |
| ESME sessions (`smpp-server.ts`) | `activeSessions`, `dlrRecoveredClients` | bind, rebind, close, recovery, flush, live push | DLR queue, receipts |
| REST gateway (`gateway-rest-registry.ts`, `src/src/app/api/public/gateway`) | registry entry: queue, claims, attempts | register, heartbeat, poll, result, cleanup | submit, callback, rows |
| SERVER-mode phone (`server-mt-queue.ts`, `smpp-server.ts`) | `activeSupplierSessions`, queue per phone | send, queue, bind, flush, expire, `deliver_sm` receipt | submit, fallback, rows |
| Bind status (`src/sync-bind-status.ts`, `smpp-server.ts`, `smpp-client.ts`) | `bind_status` and `last_bind_time` columns, grace timers | bind and close handlers, administrator, periodic job | sessions, links |
| Supplier links (`smpp-client.ts`) | `connections` (one leg or two), reconnect timers | connect, version fallback, close and error handlers, reconnect, BIND, REBIND, UNBIND | suppliers, bind status |
| Route fallback (`smpp-client.ts`, `deliverSmsWithFallback`) | calls under way, `pendingDeliveries` | try routes, retry after 1, 3, 7 s, wait for the answer, queue for a phone | links, phones, receipts |
| HTTP submit (`src/src/app/api/tenant/send-sms/route.ts`) | row of `messages`, counter, timers | duplicate guard, send, INSERT, count, force | deduplication, fallback, poller |
| Deduplication (`sms-dedupe.ts`) | markers in memory, with a window | mark, release after a failure | HTTP submit |
| DLR poller (`dlr-poller.ts`) | none of its own | select waiting rows of CUSTOM_API suppliers, time out, fetch, update, count | the same rows |
| campaigns, Kafka worker, OTT, voice OTP, billing service, rates, connectors, authentication, tenants, monitoring, forwarding, web pages | tables | see section 6 and `PROJECT.json` | |

JavaScript runs one handler at a time, but every `await` lets another in. So the
hard behaviours are these.

* **Interleaving at awaits.** Up to six handlers write one message row: submit,
  receipt, the two charge tasks of the callback, the forced outcome, the sweeper.
  Each reads, waits and writes; few of the writes test again what was read.
* **Statements nobody waits for.** The copy of the DLR queue in the database is
  written by statements fired without `await`, each on a connection of its own,
  so they execute in any order.
* **Restart.** Callbacks, tracking entries, timers, queues and sessions live in
  memory; rows live on. The DLR queue is loaded and deliveries are tracked again
  after a restart; phone queues are not.
* **Messages.** Suppliers and phones repeat receipts and results, send them late,
  under ids we do not know, or never; a connection may be gone when `send()` returns.
* **Timers.** Forced timeout, claim TTL, queue TTL, sweeper and cleanup intervals
  race with the late answer, and passes of one interval overlap.
* **Limits.** Queues at their limit, attempts at their maximum.

What makes each modelled component correct:

* billing: the counter is charged once for a message, an `on_dlr` side pays only for
  a delivery, the row shows what was charged, and a row that waits is resolved;
* DLR queue: bounded, ordered, and table and memory hold the same receipts;
* sessions: the last bind is the tracked one, no receipt disappears on the way, and
  recovery reaches the client;
* phones: a message is in one place, is given to the phone a bounded number of
  times, a final row stands, the client is told once, and nothing is held for ever;
* HTTP submit: a repeat of what is sent is refused, a retry of what failed is not, a
  failed message costs nothing, and a row the poller watches gets an outcome;
* links: one that is down is tried again unless it was ended on purpose (or the database refused the connection a reconnect needs), the map
  holds live sessions, and `bind_status` becomes true whatever order its writers ran in;
* fallback: a message is not taken twice, the reported outcome is true, routes are
  used in order, and a call ends unless a supplier without a timeout keeps silent.

## 2. Modules

| module | models | composes |
|---|---|---|
| `SmsLifecycle` | `processSubmitSm` for a CLIENT-mode SMPP supplier, `processSupplierDlr`, charge tasks, forced outcomes, sweeper, restart | |
| `Queues` | the arrays of the program: filtering one, cutting one to a limit | used by `DlrStore`, `Mailbox` and `AndroidGateway` |
| `DlrStore` | `dlr-queue.ts` and `dlr-queue-persist.ts` for one client | |
| `DlrDelivery` | sessions of that client, live push, flush, recovery | `DlrStore`: its operations are conjoined with the store's |
| `RestGateway` | the REST registry, its HTTP handlers, the rows and callback a result touches | |
| `AndroidGateway` | SERVER-mode phone: send, queue, flush, expiry, receipts | |
| `Mailbox` | what the DLR queue promises its client | implemented by `DlrStore` |
| `HttpSubmit` | `send-sms`, `sms-dedupe.ts`, `dlr-poller.ts` | |
| `DeliverFallback` | `deliverSmsWithFallback` and the connections it uses | |
| `BindSync` | the `bind_status` column and the job that repairs it | |
| `SupplierLink` | a supplier we connect to | `BindSync` |
| `ServerBinds` | a client or SERVER-mode supplier that connects to us | `BindSync` |
| `MCBindStatus` | one party, of any of these kinds, and the job | `SupplierLink`, `ServerBinds` |
| `MC...` | instances for TLC: destinations, keys, dates, plans, symmetry, one view | |
| `QueueFacts` | lemmas: what the operators on queues keep, drop and reorder; the least number of a set; where a loop ends | `Queues` and the library's theorems |
| `DlrProofs` | theorems (section 5) about the store, its refinement of `Mailbox`, and delivery | `DlrDelivery`, `QueueFacts` |
| `BindStatusProofs` | theorems about the links, the parties that bind, and the specification that composes them | `MCBindStatus` |
| `SmsLifecycleProofs`, `HttpSubmitProofs`, `RestGatewayProofs`, `AndroidGatewayProofs`, `DeliverFallbackProofs` | theorems | the module they are named for, the last three with `QueueFacts` |

One action is what a handler does between two awaits, or one database statement; an
operator named for the code stands for its effect. Where a `.tla` comment says
"Mutant of X", the operator above `X` is a plausible slip in that code, used to show
that a property would notice it.

### SmsLifecycle

State: the columns `status`, `cost`, `supplierCost`, `profit` of each row; `counted`,
the increments of `tenants.sms_counter` attributed to the message; `submit`, the
place where `processSubmitSm` is; `pending` (which registration owns the tracking
entry) and `callback`; per receipt the place of its `processSupplierDlr` call with
the client cost it has read; `charge`, the statements the callback's unawaited tasks
have yet to run; `force` and `seen` for the forced outcomes; `sweep` for passes; `backlog`, the older rows that
wait and that passes skip. `swept`, `reopened`, `reported` and `misread` are histories for the properties.

* `Accept .. Register`: submit, in the order of the code (track, INSERT, count,
  callback or forced outcome). A fault at any statement leaves the handler where
  the `catch` does.
* `Arrive, LateMatch, RecoverRead, RecoverResume, GiveUp, UpdateStatus, ReadCost,
  Stamp, FireCallback`: a receipt, with the fallback to the destination (which takes any tracked message when the receipt
  bears no number), the grace loop, and recovery from the database. A receipt of state PENDING puts that word in the row, which
  makes it wait again for the sweeper, not for recovery or the timer.
* `ChargeCost, ChargeCounter, ChargeSupplier`: the tasks.
* `ForceStep`: the `force_dlr` job and the `force_dlr_timeout` timer.
* `SweepRead, SweepStep`: a pass takes a row that waits, if it is among the `SweepLimit` oldest (`OlderRow` moves the
  `backlog` before it); ages are abstracted, so every row may be due at any time. `SweepMisread`: a lookup of a mode fails and is
  swallowed, and the pass goes on with `on_submit`, or no supplier. The lookups of rates have a `catch` too (`dlr-timeout-sweeper.ts:307, 314`) which
  nothing reaches, because `rates.ts` catches inside and returns its default.
* `Restart, HydrateRead, HydrateApply, ForgetStale`.

Abstractions: `UNDELIV` stands for all states mapped to FAILED, and `ACCEPTD` for all
states the code passes through unmapped but `PENDING`, which is one of its own because the sweeper knows the word; rates are two constants; modes do not change
during the life of a message (the sweeper reads the current ones); timers may fire at any
time. HTTP push, Kafka publishing and text handling are left out. The client's
notification is `DlrDelivery`'s subject.

### DlrStore and DlrDelivery

`DlrStore` keeps the memory `queue`, the `table`, and the bag `writes` of statements
in flight. `Exec...` executes any of them. `Flush(unsent)` is one synchronous
dequeue-send-requeue: the sends in `unsent` throw. `LoadRead`/`LoadApply` are the two halves
of the load at startup; `CleanupMemory`/`CleanupDb` those of the TTL cleanup, the first of
which tells ages from the submit date as text and so by `DateOf`. `dlr-queue.ts:58` says that
`requeueDlrs` prepends; it appends, which nothing can observe because a flush empties the
queue in the same synchronous step.

`DlrDelivery` adds one client's connections: `Bind` (tracks the session), `Resolve` (the
bind's answer is sent and the close handler knows the session), `BindFault` (the audit row cannot be written: the bind is refused
and the session stays tracked), `Break` (the peer is gone, sends
still "succeed"), `Close`; receipts (`UpdateRow`, `Callback`: push to a tracked session or
queue; a push that throws, `PushThrows`, does neither); the flush of a bind and of the startup timer (`RecoverRead`, `RecoverEnqueue`,
`Push`), with the per-client flag `recovered`; a recovery without a database connection rejects the whole flush (`RecoverFault`). Receipts of messages that survived a restart have no
callback and are queued even when the client is bound. The TTL cleanup is left to `DlrStore`.

`Mailbox` is the abstract specification: a bounded queue in order of arrival that loses its oldest
receipt when full, may expire old ones, is emptied by a crash, and is refilled at most once after each
start, behind what has arrived since. It has no database. `DlrStore` implements it under the mapping
`Box` (`pending` is the memory queue, `refillable` is "the load has not applied yet"); a statement that
executes is a stutter. So nothing the client can see depends on the order of the unawaited
statements, but for what a load brings back.

### RestGateway

`entry` is the registry entry of one phone; `queue`, `inflight`, `attempts` its content;
`aged` the claims and queue items older than the claim TTL as `cleanup` measures it (since the last
attempt, or since queueing). `Report` is the registry half of a result call, up to
the first await; `UpdateMessage` and `TriggerDlrCallback` are the rest. `CleanupFresh`
prunes from the front, where the requeued items are, and `cleanup` does not refresh
`lastAttempt`: an item it requeues stays aged. `MAX_QUEUE` refuses a new item
(`gateway-rest-registry.ts:130`), although the comment at line 50 says the oldest is dropped.

### AndroidGateway

`queue`, `flush` (each bind starts one) and `expiring` (dropped by the sweep, UPDATE
outstanding) are the places a queued message can be; a message enters from the
`ANDROID_SMS` path or from the end of the route fallback (`Entry`). `taken` is what
the phone took, which the process does not know when the answer times out. `billing` is what the lookups of a flush have read of modes and
rates (`Lookups`), `known` what the callback was registered with; a lookup that fails leaves `on_submit` and a price of 0 (`FlushBlind`, `blind`), and a
failing `pool.connect()` ends the flush (`FlushLost`). `ReceiptStep` is the
`deliver_sm` handler, which both fires the callback and charges on its own. Receipts
carry our message id (the branch that compares destinations looks in `pendingDeliveries`, which holds direct sends of the route fallback only:
no message of these two paths), rates are 1, modes are `on_submit` and `on_dlr`; `bind_status` and
MO messages are left out.

### HttpSubmit

`request` is the place of each `POST` handler, with its dedupe window and what delivery reported;
`seen` the markers of `sms-dedupe.ts`, `window` how many windows of a content have ended. `Submit` is
the synchronous test-and-mark, `Deliver` the send, `Insert` the INSERT and the release that follows without
an await, `Count`, `Force...` and `Timer...` the charge and the forced outcomes. `pass` holds the calls of
`pollCustomApiDlrs` under way: `PollSelect` takes the rows that wait, with the time of their last poll, and
`PollTimeout`, `PollNoUrl`, `PollFetch`, `PollAnswer`, `PollRead`, `PollWrite`, `PollCount` work through them without
looking at the row again. A delivery that has a cost to write is never written (see the divergences):
`NeedsCostUpdate`. What delivery may report is `Outcomes`, by connection type; `unread` is a CUSTOM_API answer that says success and whose
id cannot be extracted, which stores a FAILED row that is priced. `aged` are rows that have left the two hours of the poller's query, and `behind` rows that
older ones keep out of its `LIMIT 100`; `Ages` and `Advances` change them. `PollMisread` is the failing lookup before a poll's UPDATE. Left out: validation, the
OTT branch, hash collisions, and the failing lookup of the supplier's mode at submit (`src/src/app/api/tenant/send-sms/route.ts:794-804`), which is charged as `on_submit`.

### BindSync, SupplierLink, ServerBinds

`BindSync` is the job: it reads the column (`SyncRead`), looks at the maps when the row's turn comes
(`SyncTest`) and writes what it decided (`SyncWrite`), each its own step.

`SupplierLink`: `conn` is the map entry (one leg, or `tx` and `rx`), `session` every SMPP session with the
handlers registered on it, `timer` the reconnect timers, `call` the connection attempts under way, `writes` the
updates of `bind_status` nobody awaits, and `stopped` why nobody owes the link an attempt: it was `ended`, or it is `forgotten` because a reconnect got no
database connection (`ConnectFault`). `TimerFires`, `ReadFault`, `Reconnect`, `Rebind`, `BindOk`, `BindFails` are an attempt;
`CloseEvent` and `ErrorEvent` the handlers of a session; `AdminBind`, `AdminRebind`, `AdminUnbind` the actions of the
bind-control route. The versions an attempt goes through are one outcome, the backoff is "later", and the supplier's row stays active and in CLIENT mode.

`ServerBinds`: `peer` is the life of each session (`MarkBound` is the UPDATE of the bind handler, `Track` the map, `Resolve`
its answer), `slot` the session map, `lastBind` and `recent` what `last_bind_time` says, `graceTimers` the timers that run and
`graceTimer` the one that would be cancelled, `unbinds` the guarded updates under way. `Close` is `handleCleanup`, `Unbind` the
UPDATE with the `boundAt` guard, `AdminUnbinds` the administrator's UPDATE, which has none.

### DeliverFallback

`plan` is the list of routes, `link` the connections of each supplier, `call` the place of
`deliverSmsWithFallback`, `pdus` what was sent and not answered. `Attempt` sends over whatever the code prefers, `Takes` and
`Refuses` are the supplier, `Answered` its answer (a modem's refused SUBMIT_SM is sent again as DELIVER_SM), `TimeoutFires` a
phone's 30 seconds, `Resume` and `BackoffEnds` the continuation. `Drop` and `Connect` change the connections under a call that
waits. `taken`, `spent` and `late` are histories for the properties.

## 3. Runs

Sizes are distinct states. All runs allow termination (`CHECK_DEADLOCK FALSE`): the environment
need not send another message, and every instance bounds what it may do.

| run | question | instance | states |
|---|---|---|---|
| `life_billing` | counter and columns right in all interleavings? | 1 message, 16 mode pairs, 2 receipts (DELIVRD, PENDING), 2 overlapping sweeps, 1 fault | 2.0 M |
| `life_pair` | charged once, and for its own delivery? | 2 messages to 2 numbers, 2 receipts of 3 states, unknown ids and absent numbers, 1 restart | 3.3 M |
| `life_live` | does a stale row get resolved? | 1 message, 1 receipt, 2 sweeps, 1 older row before a limit of 1, 1 restart, 1 fault, fair sweeper | 0.3 M |
| `store_order` | order kept? a Mailbox to its client? | 3 receipts, room for 2, 1 refused send, 1 restart | 2.0 M |
| `store_faults` | memory and table agree? old receipts leave? | 2 receipts (one dated ahead), fault, refusal, restart, fair cleanup | 0.9 M |
| `deliv` | last bind tracked? does a receipt disappear? recovery reaches the client? | 2 sessions under one key, 1 receipt, one of restart, refusal, fault | 1.7 M |
| `rest_claims` | claims exclusive and short, tries end, outcomes final? | 2 messages, queue of 1, 2 attempts, 2 results, 1 restart, fair cleanup | 1.1 M |
| `gate_queue` | one place, one charge, expiry? | 3 messages, queue of 2, 2 flushes, fair handlers | 0.3 M |
| `gate_mixed` | does an `on_dlr` side pay only for a delivery? | 2 messages (one of each path), 2 flushes, 1 receipt, 1 restart, 1 fault | 1.4 M |
| `http_submit` | repeats refused, retries let through, costs right, waits of the last two hours over? | 2 equal requests, or 1 and 2 overlapping polls; 4 connection types, 6 mode pairs, 1 window, 1 fault or restart | 0.35 M |
| `bind_status` | links pursued, live and true in the column? | a supplier link of 3 sessions (trx or tx+rx) with 2 calls, 1 request and 1 fault for trx; or a party of 2 sessions, 1 admin update; fair timers and job | 0.41 M |
| `deliver_fallback` | sent twice? outcome true? order kept? call ends? | 1 message, 3 plans of 2 routes of different kinds, 4 tries each, 1 change of connections | 1.0 M |

All twelve runs pass.

Why the bounds are enough. What interleaves is a pair: two receipts, two sweeper
passes, two flushes, two sessions, two result calls; a third of a kind adds no
step the second does not have. One message suffices where state is kept per
message; `life_pair`, the gateways and the stores have two or three, because matching,
order and capacity relate messages. Capacities (1, 2) are below the number of
messages so that the limit is met (`store_faults` is about agreement and has room
on purpose: at the limit the table's trim and memory drop different receipts). One restart and one fault can happen
at every step. `MaxRestarts`, `MaxFaults`, `MaxRefused` (flushes and live pushes in which a send throws), `MaxOld` and `MaxBacklog` (older rows
that wait before ours) are the bounds on the environment; `Receipts`, `Results`, `Sweeps`, `Flushes` and `Sessions` bound how many of each there
are. `SweepLimit` is the `LIMIT 200` of the sweeper's query, reduced to 1 so that one older row fills it; `Addressings` says whether receipts may come without a number.

`deliv` bounds its trouble to one of restart, refusal and fault (`OneTrouble`), with one key: what two
keys of one client add is that the recovery flag is per client, which the divergences name. `bind_status` takes
one kind of party at a time because the kinds share nothing but the job, and gives requests and faults only to the
transceiver, whose states are few. Two routes are enough for `deliver_fallback`, since `tryNextRoute` only compares a
route with the one after it; a third would repeat the second. The bounds of `http_submit` are in `Loads`: either requests that repeat each other
or polls that overlap, as a request only meets a poll through its row.

Symmetry is used for values no constant tells apart and only in runs without
liveness: receipts and sweeps (`HandlerSymmetry`), receipts and messages when
every message has a number of its own (`PairSymmetry`), receipts with equal dates
(`DlrSymmetry`), flushes (`FlushSymmetry`). `IsMailbox` under `DlrSymmetry` is a refinement without fairness: only
initial states and steps are examined. The run `deliv` uses the view `LiveView`, which forgets the store's histories and, once nothing can read it again, the table; no action's guard and no checked
property reads what it forgets.

Fairness. Handlers of the outside world are never fair. `SmsLifecycle!FairSpec`: the sweeper's
interval runs as long as the process, a pass visits every row its SELECT returned and its statements are
answered or fail. Which rows those are is not fair: as long as skipped rows fill the limit, `SweepRead` is disabled for ours. `DlrStore!StoreFairSpec` and `RestGateway!FairSpec`: the cleanup interval.
`AndroidGateway!FairSpec`: submit handlers and
flushes that have begun continue (a flush waits at most `RESPONSE_TIMEOUT_MS` for the phone), time
passes, and the sweep's interval runs; a phone need not bind or answer. `HttpSubmit!FairSpec`: the poll interval runs, a pass
goes on (a fetch is aborted after 15 s), rows become due and too old, and the older rows before one get out of the way (`Advances`): each is resolved, by the timeout if by
nothing else, or leaves the two hours. That a row leaves the two hours (`Ages`) is not fair; a client need not send anything. `SupplierLink!Fairness`: timers fire, an
attempt ends (`BIND_TIMEOUT`), our own `close()` is answered by the event, updates execute, the job runs; an SMSC need not accept.
`ServerBinds!Fairness`: statements end, grace timers fire, two minutes pass, the job runs; a party binds and leaves at will.
`DeliverFallback!FairSpec`: timers fire and promises continue; no supplier has to answer.

## 4. What the checks show

Holds in the instances above:

* `SubmitChargedOnce`: a client charged at submit is counted once for a completed submit, and
  by nothing else. `DlrChargedOnce`: an `on_dlr` client at most once, unless the supplier's
  mode forces an outcome. `NoChargeWithoutDelivery`, `MarginIsolation`: neither an `on_dlr` client nor an
  `on_dlr` supplier is charged for a message without a DELIVRD receipt that is its own, bears its number, or bears none.
* `ProfitConsistent`, `BilledRowPriced`: later handlers do not write a charge away or leave
  a profit computed on old costs, unless a pass misread the client's mode. `SweptOnce`: overlapping passes push one forced receipt, and one more
  for each receipt that made a settled row wait again. `StaleResolved`: no row waits for ever behind fewer than `SweepLimit` skipped ones.
* `SentInOrder`, `IsMailbox`, `StoredIsQueued`, `QueuedIsStored`, `Expires`.
  `QueuedIsStored` assumes that no send was refused and no statement failed; without that it is false (below).
* `LatestBindTracked`, `RecoveryReaches`, and `NothingVanishes` but for a live push that throws.
* `ClaimedOnce`, `TriesEnd`, `ToldOnce`, `FinalRowStands`, `ClaimExpires`.
* `HeldOnce`, `QueuedChargedOnce`, `OfflineExpires`, and `PaidOnDelivery` but for a message flushed when its client's mode could not be read.
* `MarkerJustified`, `RepeatRefused`: a content is marked only while a request of its window is on its way or was sent, and
  then it is marked, but for a release left over from an earlier window. `CountedOnce`, `StatusStands`;
  `PricedForOutcome` but for the answer that could not be read; `PollResolves` for a row within the two hours of the query.
* `Pursued`, `Retried`, `TrackedAlive`: a link that is down is being worked on, a transceiver link for ever if need be, unless a reconnect found no database
  connection; and a transceiver in the map is alive. `NoFalseUnbind`, `ColumnHeals`: the guards and the job make `bind_status` true.
* `TakenOnce`, `OutcomeTrue`, `PriorityKept`, `Concludes`.

### Divergences

Where the code does something its comments, its tests or common sense would not expect. All of them were met while
modelling; the models contain what is marked with a model's behaviour above, and the properties are stated so as to hold beside it. No run states them as properties.

* Both sides charged: the client's charge task writes `supplier_cost` with the value it assumes for the supplier, 0 for an
  `on_dlr` one; if it runs after the supplier's task it erases that cost (`smpp-server.ts:1918`, against the comment at 1904).
* A phone's DELIVRD receipt fires the callback, which counts an `on_dlr` message, and then the handler counts it itself
  (`smpp-server.ts:569`, against the comment at 496-497).
* Two tracked messages to one number: a receipt with an unknown id may resolve and charge the wrong
  one; one with an empty `source_addr` may take any tracked message of the supplier, whatever its number (`smpp-client.ts:266-268`, `|| !dlrDest`). So
  `NoChargeWithoutDelivery` says `reported`, and not "its own receipt came".
* The `force_dlr_timeout` timer updates by message id only and may turn a row a receipt has just failed
  into DELIVERED (`smpp-server.ts:2118`).
* An `on_dlr` client of a `force_dlr` supplier is counted by the forced outcome and again by
  the receipt, whose callback stays registered (`smpp-server.ts:2022`).
* A receipt that comes before the INSERT changes no row; the row is inserted as SENT afterwards (`smpp-client.ts:361`).
* ACCEPTD ends the tracking of a message, so the DELIVRD that follows matches nothing (`smpp-client.ts:356`,
  against `src/NET2APP_TELECOM_ARCHITECTURE.md:227`).
* A receipt of state PENDING passes unmapped into the row (`smpp-client.ts:356`), and PENDING is one of the two words the sweeper waits
  for (`dlr-timeout-sweeper.ts:184`): a row it has settled becomes a candidate again and is pushed again, once for each such receipt. `reopened` counts them.
* The sweeper reads the 200 oldest waiting rows (`dlr-timeout-sweeper.ts:189-190`), and the rows it skips (269-272), those of plain `on_submit` clients, stay SENT
  at their head: once there are 200, later rows are never resolved, against the header, which says the worker resolves what is stuck in all flows (4-7).
* A pass that cannot read the client's mode takes it for `on_submit` (`dlr-timeout-sweeper.ts:232`) and may deliver an `on_dlr` client's row without counting or pricing it.
* The sweeper's comment says that each message resolves exactly once (`dlr-timeout-sweeper.ts:152`); `SweptOnce` says how often at most.
* A receipt stamps the profit with a client cost it read two statements before (`smpp-client.ts:374-385`); a forced outcome that prices an `on_dlr` client in between leaves a wrong profit.
* A message the sweeper failed keeps its callback and is charged when its receipt comes late (`dlr-timeout-sweeper.ts:276`,
  against lines 20-22).
* A refused receipt's INSERT may run before the DELETE of its flush, which takes the row; a flushed receipt's INSERT may run after it,
  which leaves the row; with a full queue the trim and memory may drop different receipts (`dlr-queue-persist.ts:51, 68, 234`).
* A live push that throws loses its receipt: `processSupplierDlr` logs it and deletes the callback (`smpp-client.ts:411-416`, 1566-1571 for phones), and
  nobody queues it, unlike the flush (`smpp-server.ts:2315-2318`); only a later recovery may bring it back. A receipt sent to a connection that is gone is lost the same way.
* A bind whose audit row cannot be written is refused with the session already in `activeSessions` (`smpp-server.ts:745, 754, 762`); a recovery that gets no connection
  rejects the flush, and the queue waits for the next bind with the flag set (2250).
* The queue's cleanup reads the submit date as epoch seconds: other formats expire at once or never (`dlr-queue.ts:114`).
* The recovery SELECT takes every DELIVERED row of the last day, those already pushed included; the recovery flag is per client,
  stays set when a session is replaced or closes before its flush, and then the next session recovers nothing;
  REST results are stored as DELIVRD and never recovered; the startup flush sends to transmitters; a session
  that closes while its bind is answered stays tracked (`smpp-server.ts:2255, 2410, 2248, 174, 211`).
* REST: a success reported after its claim expired leaves the item in the queue; the cleanup's last attempt leaves the
  row SENT; a phone silent for 90 s loses its messages; a success for a FAILED row still tells the client DELIVRD; an item that waited
  longer than the claim TTL is requeued at the first cleanup after its poll (`gateway-rest-registry.ts:164, 207, 200, 205`,
  `src/src/app/api/public/gateway/result/route.ts:90`).
* Phones: a direct send is never counted; the fallback's queued outcome is counted at submit and at the flush; a flush that ends
  early requeues only the current item; a flush that cannot read the billing modes sends all the same, counts an `on_dlr` client at once and writes
  prices of 0, and one that gets no connection loses what it has drained; a message flushed before its INSERT stays QUEUED; QUEUED rows outlive a restart
  (`smpp-server.ts:1758, 1865, 865, 871-895 and 928, 875 and 919, 1719`, `server-mt-queue.ts:86`).
* HTTP submit: a submit-charged client is counted for a send that FAILED or was REJECTED (`src/src/app/api/tenant/send-sms/route.ts:871`,
  against 813); a message that was QUEUED for a phone releases its marker, so a repeat is sent too (`sms-dedupe.ts:38`: "never send twice,
  never bill twice"); a failing request releases the marker whoever set it, also that of a later window; an INSERT that
  throws keeps the marker, so the retry is answered as a duplicate; a CUSTOM_API supplier without a connector sends nothing, and the
  message stays SENT and charged; an immediate `force_dlr` with an `on_dlr` client counts the client and leaves its cost 0 (906);
  the timer's UPDATE tests nothing (975); a CUSTOM_API
  answer that says success and whose id cannot be extracted stores a FAILED row (684-709) that `finalSuccess` prices all the same (790), against 813: "FAILED — don't charge client, don't pay supplier".
* Poller: the UPDATEs that price a delivery pass a parameter `$2` their text does not mention, which PostgreSQL refuses, so
  such a delivery is never recorded and the row fails when it is too old (`dlr-poller.ts:288, 296`); the counter grows for FAILED and
  UNKNOWN too, and once for each of two overlapping polls (309-321); the comment that a message without a DLR URL is marked DELIVERED after the timeout
  (151-153) does not come true, because the timeout has failed it just before; a timeout writes FAILED over a `dlr_status` that became DELIVERED meanwhile; a row that leaves
  the two hours of the query (371), after a downtime or with a longer timeout, waits for ever, because the sweeper leaves CUSTOM_API rows to the poller (`dlr-timeout-sweeper.ts:176, 186`).
* Links: BIND, REBIND or a full reconnect closes a session whose own close event then schedules another full
  reconnect, and so on; so does the session an UNBIND closes, and the link comes back; a receiver refused in TX_RX mode clears the timer that was just set, and
  the link is not retried; a transmitter that drops while the receiver binds has no handler yet and stays tracked as bound; the close of an old
  session removes what the map then holds for its leg; a failed TX-only reconnect schedules a full one, which cuts the live receiver (`smpp-client.ts:973` says it avoids that); an
  UNBIND during a TX_RX connect leaves half a link; `pool.connect()` is outside the `try` of all three reconnects, after their timer was deleted, so a
  failure forgets the link until somebody asks for it or the process restarts (`smpp-client.ts:938, 986, 1037`); updates of `bind_status` land in
  any order until the job repairs them, also when two passes of the job overlap (`src/src/instrumentation.ts:93-100`; the model has one at a time); an `error` event that no `close` follows would leave a link that nothing retries.
* Parties that bind to us: a close before the bind handler has answered is not heard, and the dead session stays
  tracked (`CloseUnheard`); of two binds at once the earlier may be tracked last; the administrator's UPDATE has no guard and may mark a party that
  has bound again UNBOUND until the job repairs it.
* Fallback: an SMSC or a modem that never answers leaves the call, and the flush or request behind it, waiting for ever (`smpp-client.ts:1255`); a phone that
  took a message after its 30 s gets it again, or another route sends it too; a message queued for a phone that has bound again meanwhile
  waits for its next bind or the TTL; an answer without a message id is not tracked; the late receipt of a phone that was given up on is taken for that of the route that followed.
* Outside the models: approving a payment updates it without testing its state, so two approvals at once, or an approval and a rejection, both act
  (`src/src/app/api/super/payment-approvals/route.ts`); the OTP forwarder's passes may overlap, and a crash between forwarding and logging forwards twice (`otp-forwarder.ts`); the
  Kafka bus switches itself off after five failed connects and loses what was to be published (`kafka-bus.ts`).

## 5. Proofs

Eight modules hold the theorems and lemmas, and TLAPS checks each to the last leaf. Each theorem holds for every value of
the constants that satisfies the module's assumption (`LifecycleAssumption` and the like: names are distinct, rates and bounds
are naturals, modes and states are the code's); sets of messages, receipts, sessions and passes may be infinite, unless
a count ranges over them (`Sweeps` of `SmsLifecycle`, `Msgs` of `RestGateway`, `Dlrs` of `DlrStore`). Every invariant the runs check, every action
property and the refinement of `Mailbox` is a theorem. Some need a hypothesis, which their statement names:

| hypothesis | theorems | why the code needs it |
|---|---|---|
| `SessionsNumbered`: sessions are numbered as they open | `NoFalseUnbindHolds` | it only gives the sessions names that can be compared, as the instance for TLC does |
| `[]Room`: the queue stays below `MAX_DLR_QUEUE_PER_CLIENT` | `StoredIsQueuedHolds`, `QueuedIsStoredHolds`, `NothingVanishesHolds`, `RecoveryReachesHolds` | a full queue gives up its oldest receipt, and then its trim and memory may drop different ones |
| no submit date is read as `"past"` | `StoredIsQueuedHolds` | the cleanup then removes a fresh receipt from memory and leaves its row |
| no row is written as `"DELIVRD"` | `RecoveryReachesHolds` | the recovery SELECT asks for `'DELIVERED'` only (`smpp-server.ts:2255`) |

The runs check the properties within these hypotheses too (the divergences name what happens outside them). Every
module follows one pattern: types first, with a frame lemma for each part that most steps leave alone; then the
strengthening, checked by TLC before it was proved, one lemma per group of actions; then the theorem.

**`SmsLifecycleProofs`.** `TypeCorrect`, and seven invariants, none of them inductive by itself.

* `SubmitChargedOnceHolds`: nothing in the property says that a message not yet counted has no count on its way. `SubmitBilling`
  adds that before `CountSubmit` the count is 0 and that no other handler (charge task, forced outcome, sweeper pass) holds one for such a client.
* `DlrChargedOnceHolds`: `ReceiptBilling` states that the unused callback, the charge task it started and the count are one
  token: `charge.cost + charge.counter + counted <= 1`, and 0 while the callback is or is not yet registered. Every receipt that reaches
  `FireCallback` finds the token or has nothing to spend.
* `Untouched`: before its INSERT nothing but the submit handler knows a message. The results below rest on it.
* `SweptOnceHolds`: `Resolved` says that forced receipts pushed or about to be are as many as the times a row was settled: once, and once more for each time it was
  reopened, and that a row that waits again has been.
* `BilledRowPricedHolds`: `PricedRows` says that the row of a submit-charged client is priced in every handler's eyes (a misread mode changes nothing for it); `OwedPriced` that a
  message that was counted, or is owed a count, has a priced row, `misread` ones excepted.
* `ProfitConsistentHolds`: uses `PricedRows`; `CostKept` shows which statements can write a cost at all.
* `MarginIsolationHolds`, `NoChargeWithoutDeliveryHolds`: `Told` says that what a receipt of a delivery was matched to, or may be matched to while it
  waits, is in `reported` (`CandidatesNamed`: a receipt is taken only for a message it names), and that only such a receipt goes on to a price;
  `SupplierPaid` and `ClientPaid` then tie every price, charge task, count and every cost a timer or pass has read to a reported delivery. No hypothesis on the numbers is needed.

**`HttpSubmitProofs`.** `TypeCorrect`; `StatusStandsHolds` from `RowFirst` (nothing is written to a row before its INSERT);
`MarkerJustifiedHolds` and `RepeatRefusedHolds` from `DedupeInv`, which adds that windows only grow and that two requests entitled to
one content exist only if a third released it; `PricedForOutcomeHolds` from `CostInv` (only a message that was sent, or whose answer
could not be read, is priced or forced, and only its timer runs); `CountedOnceHolds` from `CountRows` (nobody has counted before the request does, and a forced outcome counts only for
an on_dlr client) and `CountPasses` (a poll counts only what it found deferred).

**`RestGatewayProofs`.** `TypeCorrect`, `ClaimedOnceHolds`, `TriesEndHolds`, `FinalRowStandsHolds`, `ToldOnceHolds`. `Registry` is
`TypeOK`, `Places` (a message is in the queue once, or claimed, or neither) and `Tries` (the phone had it at most once more than it failed); `Rows`
says that what failed for good has left the registry, so no later result finds it; `Receipts` that the callback is the only way to tell the client. The lemmas about
queues say what appending, putting back at the front, taking from the front and cutting do to a queue without repetitions.

**`QueueFacts`.** Queues are filtered, cut and filled by recursive functions over positions. Of each the module proves, by the least
position at which it could fail, its elements, its length, that it repeats nothing and that it keeps the order (`WithoutQueue`,
`KeptQueue`, `NewestAgain`, `SetQueue`, ...). All queue proofs rest on it.

**`AndroidGatewayProofs`.** `PaidOnDeliveryHolds` from `Billed`: a price a receipt is about to write, or a charge task, belongs to a message whose delivery
was reported, and flushes count only for a client charged at submit, or for a message they send blindly (`blind`). `HeldOnceHolds` from `HeldInv`: queue, batches of the flushes and
expired entries are pairwise disjoint, none repeats a message, and a message not yet queued is in none (`Apart`). The property alone is not inductive: a message
that is enqueued must not be there already. `QueuedChargedOnceHolds` adds `Unpaid`: what waits has cost nothing, what failed unreported does not wait
again, and for a client charged at submit no charge task runs. `Moves` is the step form of it: no step makes a message wait again. By `Apart` no second flush can be
counting what waits.

**`DlrProofs`.** Types (`StoreTyped`, `DeliveryTyped`) and the results about one client's receipts.

* `SentInOrderHolds` from `StoreInv`: whatever is queued, stored, loaded or in flight has arrived (`AllArrived`), and both what was sent and what waits are sorted by arrival, and nothing
  sent follows what waits, but for delayed receipts (`InOrder`).
* `IsMailboxHolds`: with `StoreInv`, each step of the store is a step of `Mailbox` under `Box`, or a stutter: a statement that executes or fails is a stutter, `LoadApply` is a `Refill` that
  loses the oldest of the queue (`EnqueuedAll` is shown to be `Newest` of the concatenation).
* `StoredIsQueuedHolds` from `StoredWaits`: a receipt whose row exists, or is being written, is in the queue or in what the load has read.
* `QueuedIsStoredHolds` from `WaitsStored`: what waits has its row or an INSERT in flight, DELETEs in flight are only for what was sent, and no trim is in flight.
  The statements in flight are a bag; the lemmas say what putting one in and taking one out does to the others.
* `LatestBindTrackedHolds`: the guard of `removeSession` is enough, for any number of sessions and keys.
* `NothingVanishesHolds`: inductive with the types, once the lemmas say that flush and load keep every receipt; a live push that throws puts its receipt in `thrown`.
* `RecoveryReachesHolds` from `DueClaimed`: what a flush owes its client is among what its recovery found, and then in the queue, unless another flush took it.

**`BindStatusProofs`.** The theorems are about `PartySpec`, the specification the run checks: whichever module was chosen serves and the other one rests (`LinkServes`,
`BindsServe`), which each step keeps. `TrackedAliveHolds`; `PursuedHolds` from `LegsPursued`, which speaks of each leg of a link where the property speaks of the link: the proof shows for
every handler that what it takes down it leaves to a call, a timer or a close, unless it ends the link (`ended`) or finds no connection for it (`forgotten`); `NoFalseUnbindHolds` from `InOrder`: sessions are marked in the order
they open, `last_bind_time` names the latest of them or the job, and the slot holds one that was marked.

**`DeliverFallbackProofs`.** `TypeCorrect`, and for plans of any length and any number of messages and tries:

* `PriorityKeptHolds`: `InTurn` says what the attempts are behind the call, at its route and ahead of it. That the first connected route
  exists comes from the least-number principle of the library.
* `TakenOnceHolds`, `OutcomeTrueHolds` from `Account`, a bookkeeping of each message: what was taken, plus the attempts given up on that may be taken yet, is
  at most the late ones, and one more while the call has been told of a success or may still be (`Counted`); PDUs are of attempts that were made, one of each (`Known`); and a call that
  ended as sent is tracked (`Told`). `TotalTaken` sums a row of numbers; a lemma says what adding one to an entry does to it.

Model-checked only: the liveness properties `StaleResolved`, `Expires`, `ClaimExpires`, `OfflineExpires`, `PollResolves`, `Retried`, `ColumnHeals` and `Concludes`. Fairness and `ENABLED`
are beyond this prover. No theorem rests on them.

## 6. Not modelled

`PROJECT.json` lists every component with its status. The models cover the core in which handlers race for
shared state; most of the repository is something else:

* web pages and administration handlers (two thirds of the source) are forms and CRUD over the tables, with no state of their own;
* rates, number matching, translation, connector parsing and the answers of business APIs are functions on text, or calls to third parties;
* payments and invoices are sequential handlers whose statements test nothing they overwrite: a model would only restate that (see the divergences);
* the Kafka worker writes an audit trail nothing reads; monitoring and e-mail are I/O; OTT and voice are telephony and
  messenger libraries, whose states are theirs (`HttpSubmit` has the outcome of a voice call and its billing);
* the OTP forwarder is a polling loop of one table; campaigns call the submit path message by message.

In `processSubmitSm` the OTT, voice, CUSTOM_API and Business API branches, number validation and translation are left out;
`HttpSubmit` has the like of the last three over HTTP. HTTP push, Kafka publishing and MO messages are left out everywhere.

## 7. Plan

1. `SmsLifecycle`, `DlrStore`, `DlrDelivery`, `RestGateway`, `AndroidGateway`, and the first theorems: done.
2. `HttpSubmit`, `SupplierLink`, `ServerBinds`, `BindSync`, `DeliverFallback`; `Mailbox` and its refinement: done.
3. Theorems: every invariant, action property and the refinement the runs check: done; section 5 says what is left to TLC and why.
4. The remaining branches of `processSubmitSm` over SMPP, which would reuse `HttpSubmit`'s outcomes.
