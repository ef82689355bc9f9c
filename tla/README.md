# Scaleforge: specifications, model checking and proofs

TLA+ specifications of the stateful core of Scaleforge, an ordering backend
(NestJS, PostgreSQL through Prisma, Redis, RabbitMQ, BullMQ) that runs as API
replicas and worker replicas. They are checked with TLC on small instances, and
every invariant and action property of the passing runs, and the refinement, is proved
with TLAPS for every value of the constants. Paths below are relative to the repository
root.

## 1. Inventory of the system

| Component | State | Operations | Hard behaviour | What makes it correct |
|---|---|---|---|---|
| Outbox publisher `src/queue/outbox-publisher.service.ts` (in every API replica) | `outbox_events` rows (published_at, locked_at, locked_by, next_attempt_at, attempts); per process `instanceId`, `running`, the leased batch | `publishBatch` every second: lease, publish one by one, mark or defer | replicas race for rows; leases expire under a slow owner; any call fails before or after its effect; crash between confirm and mark | marked means accepted; duplicates only through failures or expiry; leases exclude; published is final; every event is published in the end |
| RabbitMQ publisher `src/queue/rabbit-publisher.service.ts` | connection, channel, the connect in progress | `publish` (with confirm), `ping`, `ensureConnected`, close handler | concurrent callers share one connect; the connection is lost while it is set up or in use; a confirm never comes | one connection at a time; reconnects after every kind of loss; callers are answered |
| Topology and consumers `src/queue/rabbit-topology.ts`, `rabbit-consumers.service.ts` | queues, retry queues, dead-letter queues; unacknowledged messages; connection | `consume`, `retryOrDeadLetter` | redelivery, duplicates, concurrent handlers, lost confirms, worker death, broker restart | nothing acknowledged before its effects; bounded retries; every event settles |
| Audit handler `src/audit/audit.repository.ts` | audit rows, `processed_messages` | `processEvent` | two handlers of one event | one row per event |
| Notification handler `src/notifications/notifications.repository.ts` (`processOrderCreated`) | deliveries, `processed_messages` | `processOrderCreated`, then `enqueue` | commit without enqueue | one delivery per event, and it is enqueued |
| Notification delivery `src/notifications/notification-queue.service.ts`, `notifications.repository.ts` | delivery status and attempts; BullMQ jobs keyed by delivery id | `enqueue`, `recoverPending`, `process`, `deliver`, `markFailed` | stalled jobs rerun, lost locks, retained job ids, crash after claim | one execution records a delivery; DELIVERED is final; pending rows are recovered |
| Orders `src/orders` | orders with status and version | `create`, `updateStatus`, `list` | read-check-write across two database calls; pages of a list that changes between and within page requests | transitions that were validated; one write per version; what a walk over the pages misses or repeats is bounded |
| Payments `src/payments` | payments by unique idempotency key | `complete` | retries and concurrent requests with one key; payment against status update | a key is charged once; a paid order is not pending |
| Catalog cache `src/restaurants`, `src/common/cache` | Redis entry with TTL 60 s | `listActive`, `create` | reader stores old data after an invalidation; invalidation lost | staleness explained and bounded |
| Authentication `src/auth`, `src/users`, `src/common/guards` | users with a role, refresh tokens; access tokens in the hands of clients | register, login, refresh, logout, `updateRole`, `canActivate` | registrations of one address race; a refresh overlaps another refresh or a logout of its token; answers are lost; a role in a token outlives its change | one account per address; every live token accounted for; revoked tokens refused; a scope ends with the token |
| Request pipeline, health, metrics `src/common`, `src/health`, `src/observability` | request counter | guards, interceptor, exception filter, `ready` | what is answered before the interceptor, or after it; a probe waits on a shared connection that may be gone | probes are answered, and ready only if the broker was reachable |
| Configuration, entry points | none | | | not modelled |
| Scaling lab `scripts/scaling-lab.ts` | counters, in-flight set and samples of one phase; exit code | `parseArgs`, `runPhase`, `executeRequest`, `summarize`, `main` | timers early or late, catching up, drops, targets that never answer, empty phases; values inline or in the next argument | command lines mean what they say; every request accounted for; open-loop schedule; percentiles and verdict right; a report comes |

How they interact: business transactions (orders, payments) insert outbox rows
in the same transaction as their data. Publishers move rows to the event
exchange. The two consumers in the workers read their queues and write audit
rows or deliveries; the notification consumer adds a BullMQ job per delivery;
BullMQ executions bring deliveries to DELIVERED or FAILED; a timer adds jobs for
pending deliveries again. The outbox publisher and the readiness probes of an API
process share one RabbitMQ connection. The role that scopes a list of orders comes
from the access token of the request. The hazards of this chain are listed at their lines in
`PROJECT.json`.

## 2. Modules

| Module | Models | Role |
|---|---|---|
| `ReliableOutbox` | what the outbox promises to the rest | abstract specification |
| `Outbox` | outbox publisher, the awaited `publish` | component |
| `OutboxProofs` | | theorems about `Outbox` |
| `EventConsumers` | topology, consumers, the two idempotent transactions | component |
| `EventConsumersProofs` | | theorems about `EventConsumers` |
| `NotificationDelivery` | delivery rows, jobs, recovery | component |
| `NotificationDeliveryProofs` | | theorems about `NotificationDelivery` |
| `OrderLifecycle` | orders and payments over one database | component (two services that share rows) |
| `OrderLifecycleProofs` | | theorems about `OrderLifecycle` |
| `CatalogCache` | cached catalog | component |
| `Sessions` | accounts and refresh tokens | component |
| `SessionsProofs` | | theorems about `Sessions` |
| `AccessTokens` | role, access tokens, `JwtAuthGuard` | component |
| `OrderListing` | `GET /orders` over `AccessTokens` | composition: extends `AccessTokens` with its steps |
| `OrderListingProofs` | | theorems about `OrderListing` |
| `RabbitPublisher` | the publisher's connection | component |
| `Readiness` | guards, interceptor, filter, readiness probe over `RabbitPublisher` | composition |
| `DependencyProofs` | | theorems about `CatalogCache`, `RabbitPublisher` and `Readiness` |
| `LabArguments` | command line of the lab, and its reference meaning | pure operators |
| `ScalingLab` | the load generator: phases, percentiles, verdict | component with pure operators |
| `ScalingLabProofs` | | theorems about `ScalingLab` and `LabArguments` |
| `MC...` | | symmetry sets and constant definitions for TLC |

Operators that directly precede a definition and describe a fault ("The update
forgets to clear the lease") are alternatives to that definition. They are used
by no action; putting one in place of its definition makes a property fail, which
is how the properties are known to depend on the code's behaviour.

### Outbox

Each database statement, and each awaited publish, is one step of `publishBatch`.
`phase`, `batch` and `current` are the program counter and locals of the loop;
`incarnation` stands for the random part of `instanceId`. A row is its position
in `created_at` order; rows commit in any order. Clock time is abstracted to the
two comparisons of the lease statement: `leaseFresh` and `due`. `Eligible`,
`IsOldest` and `RowLocked` are its WHERE, ORDER BY/LIMIT and SKIP LOCKED.
A failing call fails before or after its effect (`LeaseLost`, `PublishFails`,
`MarkFails`, `DeferFails`); `DeferFails` leaves the rest of the batch leased, as
the exception ends `publishBatch`. `expired` counts expiries per row and
`overruns` those that hit a working owner; both are history.
A publish whose connection ends is answered or not (`PublishUnanswered`): it fails
(`PublishFails`), or its confirm never comes and the replica polls no more until it
is restarted (`PublishHangs`), its lease being the only way out for its rows.
The backoff length is not modelled: only that a deferred row is not due until
some time has passed.

### EventConsumers

Queues are bags of <<consumer, event, retry count>>. `Route` is a topic exchange
with the bindings of `consumerDefinitions`; the retry exchange has the same
bindings on the retry queues, and an expired retry goes to the event exchange
under its original key (`RetryExpires`). A slot is one unacknowledged message
in hand. `Read`, `Write`, `Enqueue`, `Ack` are the awaited steps of `consume`;
`Write` and `WriteConflict` are the two outcomes of the transaction under the
unique constraint on (consumer, event). `RetryOrDeadLetter` publishes the copy,
the acknowledgement is the next step. `Poison` are the events whose handler
always throws (for instance a malformed one).
`Crash` is a process that dies, or whose connection breaks with an error
event that has no listener. `BrokerRestarts` is an orderly close, which amqplib
reports as a close event; running handlers go on and find a closed channel
(`ClosedChannel`): the unhandled rejection ends the process, or is only
reported where an error reporter has installed its handler.
Both retry queues are bound to one retry exchange and expire to the shared event
exchange, so one failure sends retries to both consumers. `Traffic` is what the
messages about an event can still become: with fan-out f a message with n retries
behind it weighs f^(2(MaxRetries - n)), because a failure makes a copy per retry
queue and each copy comes back to every consumer. `TrafficBounded` says this never
exceeds one such tree per publication and repeated delivery.

### NotificationDelivery

BullMQ is external and modelled as the code uses it: `add` with an existing job
id does nothing, in whatever state that job is; a failed attempt is delayed and
retried up to `attempts`; an active job without a lock is handed out once more
and then failed; finished jobs are kept up to a number (`Evict`). `Claim`,
`Record`, `MarkFailed` are the statements of `deliver` and `markFailed`.
`Enqueue` may happen at any time for a persisted row: it stands for the consumer,
its redeliveries, and recovery loops of other workers. `OrphansExplained` bounds
the rows left in PROCESSING; `RecoveredUnlessKept` names the only two ways in which
recovery passes over a pending row for ever.

### OrderLifecycle

A handler runs one request; `Load`/`Apply` are the read and the guarded update
of `updateStatus`; `Find`, `LookupMisses`/`LookupFinds`, `BeginTransaction`,
`CommitPayment` are the database calls of `PaymentsService.complete`.
The serializable transaction is a snapshot and a commit that fails when the row
it writes changed in between, or when the key is taken; `Abort` covers
spurious serialization failures. Actors are what the role and ownership checks
tell apart. A client sends any version from 1 on (`@Min(1)`); nothing compares it with
the version `updateStatus` reads. It validates the transition against the row it
reads but guards the write with the version sent, so a version ahead of the read
lets the status be written over one it was not validated against: `OnlyValidTransitions`,
what the summary of the endpoint says, is violated (`OrdersUnreadVersion`).
`ValidatedTransitions` and `OneWriterPerVersion` say that this is the only way:
every other write, of payments and of stale clients too, is a transition of the table
and alone on its version. Amounts and items are not modelled.

### CatalogCache

The catalog is its version number. `listActive` is `Miss`, `Query`, `Fill`;
`create` is `Commit`, `ScanKeys`, `Delete`. `dropped` and `raced` are history. Its
specification is `CacheSpec`: the names carry a prefix where `Readiness` has one of its
own, as `DependencyProofs` and `MCDependencies` extend both. `Sessions` is named apart
from `OrderListing` in the same way.

### Sessions

A request makes one database call per step: `Register` (the lookup),
`CreateUser` / `CreateConflict` (the insert under the unique constraint),
`Login`, `CreateToken`; `Refresh` (JWT verified), `FindRefreshToken` /
`FindRejects`, `RotateRefreshToken` (one transaction); `Logout`,
`RevokeRefreshToken`. A token is its `jti`; clients present tokens they were
given. `family` groups the tokens that descend from one login; `late`,
`overlaps` and `ended` are history. Signatures, hashes and passwords are right
by assumption, `users.active` is never cleared by the code.
Rotation updates the old record by id, whether or not it is revoked by then: a
refresh that read its token before another refresh or a logout committed still
gets a successor. `SessionsAccounted` counts exactly those, and
`RevokedIsRefused` says that nothing later than that gets one.

### ScalingLab

One event loop: `Sleep`, `StartRequest`, `DropRequest`, `EndLoop` are the
iterations of `runPhase`, and `Complete` runs only while the loop awaits its timer
or the drain. Time is in ticks; it may pass anywhere, which is how stalls of the
event loop enter, and a timer may fire `TimerSlack` ticks early because Node
truncates delays to milliseconds. `Percentile`, `LatencySummary`,
`ThresholdFailures` are the functions of the report, with the rounding of
`toFixed(2)`; ceilings of fractions are integer arithmetic (checked against the
double arithmetic of the code for every length below two million). `Sorted` is the
stable sort, given by where each value goes: as many places from the start as values
are smaller, or equal and not behind it. `Successful` is `filter`, the n-th sample kept
being the one with n kept up to it. The achieved
rate and the layout of the report are left out. `Start` parses a command line:
`LabArguments` has `collectArguments`, `readNumber` and `parseArgs` as operators on
sequences of arguments, `Iterate` being one iteration of the loop, with one option per
rule (URL; least value; range; flag) and one text per case the code tells apart, the ends
0 and 1 of the ranges included. An argument is what precedes a second `=`, and whether
there is `more` behind it: `InlineValue` is `split('=', 2)`, which drops it. `Url` is the
option, the environment or the default, in this order, and only an HTTP(S) URL passes. `Requested` is an independent definition by
position of what such a line asks for. The phases run with the load of the constants.
A refused command line ends with exit code 1, a failed threshold with 2.

### AccessTokens and OrderListing

`AccessTokens` has a clock, the role in the database, and the access tokens of one
client: `ReadUser` (login or refresh reads the user) and `SignAccessToken` are
separate steps, for a hash is verified in between; `UpdateRole` revokes nothing;
`Verifies` is the guard's check of signature and expiry. ADMIN and MANAGER are alike
here. `held` is history: when the user last had a role.
`OrderListing` lets a client walk the pages from 1 to `meta.pages`. Orders are
numbered by (createdAt, id) and commit in any order; the status filter is reduced to
whether an order matches it: an order may leave PENDING for good, and come to and leave
another status at most `MaxMoves` times in all, as versions sent ahead of the row leave
the transition table.
`FindMany` and `CountAndAnswer` are the two statements of the transaction, which
runs at READ COMMITTED. `returned`, `repeats`, `stable`, `arrivals` and `departures`
are history that every step keeps (`Tally`).
`docs/architecture.md:146` says that list scope is enforced in services, "not trusted
from JWT role alone". `OrdersService.list` takes the role of the token alone, so
`ScopeNotFromTokenAlone` is violated (`ListScope`). `StaleScopeExpires` says how long a
withdrawn role lasts: for the lifetime of the last token signed with it, counted from
the moment it was read.

### RabbitPublisher and Readiness

A connection is numbered and goes through connecting, set up, ready; it is lost
while set up (`lost`: the pending call of `connect` rejects) or in use (`closing`:
the close handler comes later), and is `leaked` when `connect` rejects after opening
it. `SendAtOnce`, `JoinConnecting`, `StartConnecting` are the three ways through
`ensureConnected`. amqplib, the broker and the network are external. A call on a lost
connection fails, but an awaited confirm may also never be answered. The connect of
`onModuleInit` is like one of the poller's.
`Readiness` puts requests around it: guards in the order of `app.module.ts`, then the
interceptor, the handler, the filter. `Settled` is the end of `allSettled`, with
PostgreSQL and Redis up or down. A handler other than `ready` is known by what it
ends in. `Reject` is what the framework answers before any guard: an unknown route
(404), a body that does not parse (400) or is too large (413, or 500, as the filter of the program knows
the status of an `HttpException` only and anything else that reaches it is a 500). `answer` is the answer of this step, with the
status the interceptor counted and the one that was sent; `reached` is history, whether
RabbitMQ was reachable since the probe was admitted. `ReadyIsCurrent` relates the two: a
200 comes from the broker itself, never from a channel that is only believed to work.
`counted` is there for the reader; no property is about it. The help text of the counter
(`observability/metrics.service.ts:16`) says "HTTP requests completed by method, route,
and status.", and the error panel of the Grafana dashboard selects 5xx: but `finalize`
runs before the filter sets the status, so a handler that throws is counted under its
status of success, and what the framework rejects or a guard refuses is not counted
(the label `unmatched` of the interceptor is never used, as an unknown route does not get there).

## 3. Runs

| Run | Instance | Shows |
|---|---|---|
| `Outbox` | 2 rows, 2 replicas, batch 2, 2 failing calls or restarts, 1 overrun | `MarkedMeansAccepted`, `DuplicatesExplained`, `ExclusiveLease`, `PublishedIsFinal`, `FreshLeaseRespected`, `EventuallyPublished`, `ImplementsPromise` |
| `ConsumersSafety` | 1 order event, 2 workers, 1 retry, 1 failure, 1 outage (crash or broker restart) | `NothingLost`, `ExactlyOnceEffect` |
| `ConsumersLiveness` | an order event that poisons the notification consumer, a payment event, 1 crash | `TrafficBounded`, `EventuallySettled`, `EventuallyDrained` |
| `ConsumersZombie` | 1 worker, 1 broker restart | `EventuallySettled` violated: see findings |
| `Delivery` | 2 deliveries, 2 executions, 2 job attempts, 2 faults, 1 crash or lost lock, 1 kept job, 1 row per scan | `OneDeliverer`, `OrphansExplained`, `DeliveredIsFinal`, `RecoveredUnlessKept` |
| `DeliveryRetainedJob` | as many faults as job attempts | `PendingIsRecovered` violated: see findings |
| `OrdersSafety` | 2 orders, 2 concurrent requests, 1 key, clients that send versions 1 to 3 | `OneWriterPerVersion`, `ChargedOnce`, `ReceiptsHonoured`, `PaidIsNotPending`, `ValidatedTransitions` |
| `OrdersUnreadVersion` | 1 order, 2 concurrent requests, versions 1 and 2 | `OnlyValidTransitions` violated: see findings |
| `Tokens`, `part = "sessions"` | 1 address, 3 concurrent requests, 3 tokens, 1 fault | `OneAccountPerEmail`, `TokenlessExplained`, `SessionsAccounted`, `RevokedIsRefused` |
| `Tokens`, `part = "listing"` | 3 orders, 2 of them the client's, pages of 1 or 2, no or either status filter, 1 status change, 1 failed page, 1 change of role, 2 tokens with a lifetime of 1 tick, 2 ticks | `SkipsExplained`, `RepeatsExplained`, `StaleScopeExpires` |
| `ListScope` | 1 token with a lifetime of 2 ticks, 1 change of role | `ScopeNotFromTokenAlone` violated: see findings |
| `Dependencies`, `part = "cache"` | 3 requests, 3 creations, 2 faults | `StaleExplained`, `EventuallyCurrent` |
| `Dependencies`, `part = "broker"` | 2 requests and the poller, 2 faults (lost connection, broker stop, refused set-up, restart) | `ConnectionsAccounted`, `ReadyIsCurrent`, `EventuallyConnected`, `ProbesAnswered` |
| `ScalingLab` | warm-up of 1 and measurement of 4 ticks, interval 2, timeout 3, 2 in flight, slack 1, both thresholds; percentiles also on runs of up to 120 samples; command lines of up to 3 arguments, with the environment unset, empty or a URL | `Accounting`, `OnSchedule`, `PercentilesAreNearestRank`, `VerdictJustified`, `CommandLineHonoured`, `EventuallyReported` |

`Tokens` and `Dependencies` each check two components that share no state. A behaviour
is one of either component (`part`) while the other one rests in an initial state, so
that their states add up and do not multiply, and the specification of a part,
fairness included, is that of its module.

The type invariants of `EventConsumers`, `NotificationDelivery`, `CatalogCache`,
`ScalingLab`, `OrderListing` and `Readiness` are conjuncts of one property of their
runs (`TrafficBounded`, `OneDeliverer`, `StaleExplained`, `Accounting`,
`SkipsExplained`, `ReadyIsCurrent`); those of `Outbox`, `OrderLifecycle` and
`Sessions` are only proved. The former are proved too.

Why the bounds are enough: two replicas, workers, executions or requests give
every race between a pair, and the code has no state that takes three actors to
corrupt; two rows let a batch be interrupted in its middle. The limit never cuts
a batch at this instance; the theorems below hold for every limit. In the sessions
three requests let two refreshes and a logout of one token overlap. In
`ScalingLab` the times are scaled down together; the schedule has one slot more
than the concurrency, its deadline falls on a slot, and an early timer
reaches it. In the listing three orders give three pages, or a full one and a part of one, and the bounds are tight: states with exactly
as many skips as departures, repetitions as arrivals, and a request at the last
admissible tick are reached. On the broker connection two faults hit two stages of one
connection, or a connection and its successor. Retry and attempt limits are
reduced (3 retries to 1, 5 attempts to 2, batch 25 to 2, 100 recovered rows to 1): the code only compares them, and
each run still passes below, at and beyond the limit. With versions up to 3 (`MaxVersion`) a client can
be behind, at, one and two ahead of a new order, and the row can catch up. A command line of 3
arguments has an option, its value and what follows. Deadlock checking is off where faults and events are
bounded and the system may come to rest (in `Tokens` when the tokens are used up or the walk is
over, in `Dependencies` when the creations are); the runs of `OrderLifecycle`
check it. Symmetry is used in safety runs only.

Fairness. Outbox: `@Interval(1000)` keeps calling `publishBatch`, awaited calls
end and clocks advance (`Step`, lease expiry of abandoned rows, backoff).
Consumers: the broker delivers to free slots and expires retries, awaited calls
end. Delivery: the recovery timer, BullMQ's hand-out, delays and stalled check,
awaited calls; the consumer's own enqueue is *not* fair. Cache: requests go on
and the TTL expires. Lab: time passes, timers fire, aborts end requests; answers
of the target are *not* fair. Readiness: `connect`, close
events (the heartbeat notices a dead peer), replies of a live broker and handlers
come to an end, and the orchestrator goes on probing (strong fairness of admitting a
probe, as other requests come in between); the poller is *not* fair, for it may hang.
Faults, crashes and restarts are never forced, and bounded:
liveness says what happens once an outage is over.

### Findings

* **A worker does not survive an orderly broker restart.** `docs/scaling-lab.md:215`
  asks to restart RabbitMQ and observe consumer processing; the consumers connect
  once and ignore the close event (`ConsumersZombie`).
* **A retained job defeats recovery.** `docs/architecture.md:179` says pending
  records are recovered; a row whose job failed all attempts before a claim stays
  pending, because its job id is kept (`DeliveryRetainedJob`).

* **A version nobody has read is accepted.** `src/orders/orders.controller.ts:29` promises
  "a validated order-state transition with optimistic locking"; a request that sends the
  next version is validated on one row and written over another, and a cancelled order
  becomes confirmed (`OrdersUnreadVersion`).
* **The list scope is the role of the token alone.** `docs/architecture.md:146` says it is
  not; a user whose staff role was withdrawn lists the orders of others until the token
  expires (`ListScope`).

Observed without a run of their own: retries reach both consumers
(`TrafficBounded` bounds it; `docs/architecture.md:94` gives "Each consumer" its own
retry queue); the status in the request counter is not the one answered, and many answers are not counted
(`Readiness` above); the lab takes `--concurrency=5=3` for 5 and cuts
`--url=http://h/?a=1` off before `=1` (`scripts/scaling-lab.ts:127`; no document says
otherwise, and given as the next argument the URL is whole). A row that stays in PROCESSING after a crash between claim
and record is documented as a limitation (`docs/architecture.md:184`);
`OrphansExplained` says that only such a crash, or a `markFailed` that fails too, leaves one.

## 4. Proofs

All proofs are for arbitrary constants under the assumptions named in the
component modules (finite sets of events, replicas, workers and runners, natural
bounds, NULL distinct from data); TLC evaluates them on every run.

**Outbox** (`OutboxProofs`). The inductive invariant `IInv` is `TypeOK` and
`Facts`: a process with a current record has it in its batch; a record about to be
marked has a confirmed copy; a published row has no lease; a fresh lease has a
holder; and a row in a batch whose lease never expired is leased to that very
incarnation. The last is what makes `ExclusiveLease` inductive, and "published
means unlocked" is what stops a late update: with `locked_by` cleared no
process matches it. From it follow `TypeCorrect`, `NoEventLost`,
`LeaseIsExclusive`, `PublishedRowsFinal`, `LeaseRespected`, and `KeepsPromise`:
every step maps to a step or a stutter of `ReliableOutbox`.
`DuplicatesBounded` needs a counting argument: the copies of a row, plus one for
each process that may still publish it under the current budget, stay within
1 + attempts + expiries.

**Orders and payments** (`OrderLifecycleProofs`). `IInv` says that what a
handler has read is a past state of the row: its version is not ahead, and if the
versions agree so do the statuses (`ReadsArePast`); a transition about to be
applied was checked against that read (`Checked`); an order seen beyond
PENDING stays beyond it (`LeftPending`); past writes were decided on smaller
versions (`BasesArePast`). If the version sent is not ahead of the read either, a match
with the row's version squeezes all three together: the write is decided on the current
row (`WriteIsCurrent`). Otherwise the request is one that sent ahead, and it was
still `Checked`. This gives `OneWriteWins` and `TransitionsAreValidated`, for clients that
send any version; `ChargesOnce`, `HonoursReceipts` and `PaidLeavesPending` hold without
exception.

**Sessions** (`SessionsProofs`). `IInv` adds to the types that known and presented
tokens have a record, that a registration or login under way has its address
(`Holds`), and that a token revoked when its request came in still is
(`LateStays`), because every step only advances the records (`Advances`: stored,
revoked and expired records stay so). Then the check of `revokedAt` stops every
late request, which is `RefusesRevoked`; `RevocationFinal` is `Advances` itself, and
`OneAccount` rests on the unique constraint in `CreateUser`.
`TokenlessAccounts` counts the accounts without a token: only a failing call makes
one more (`TokenlessCounted`), since a request that is to issue tokens covers its
account until then. `LiveTokensAccounted` counts the live tokens of each family. The
equation of `SessionsAccounted` is not inductive alone: a new login would join a
family that already has counts. `Families` says that the token a family is named
after is stored before any other, and that nothing is counted for a family without
it. Then a rotation takes one token from the live ones and adds one, or, if the old
one was revoked meanwhile, adds one and counts an overlap; a logout takes one and
counts it, or takes none.

**Order listing** (`OrderListingProofs`). `ScopeExpires`: `StaleScopeExpires` for any
orders, limits, token lifetime and number of changes. `IInv` is `Clock` (the role in
the database is held now, no role later than now), `Claims` (what was read of the
user, and signed, was held when it was read), `Admitted` (a request's role was held
within a token's lifetime, plus the lag from reading to signing, before it was
admitted) and `Scoped` (rows are read for an admitted user and in the scope of its
role). It needs `Claims` because the property is about a request while the cause is a
read two steps earlier; `HeldGrows` says that time and role changes only move `held`
forward, so nothing admitted loses its justification.

`MissesExplained` and `RepetitionsExplained` are the theorems about offset
pagination. `Rank` is an order's place in the list and `Top` its first s rows; `TopFull`
says that they are s or the whole list. `Crossing` is the heart: when a list
becomes another one, by any number of changes at once (a change of scope replaces
much of it), at most as many rows are pushed behind the first s as were added.
Read the other way round it bounds the rows that are pulled in front of the boundary
by those that left. `WalkExplained` is the inductive invariant: repetitions so far,
plus rows the client has that lie behind the boundary and may come again, are at
most the arrivals; rows that were there all the time, are in front of it and were not
returned are at most the departures. From findMany to the answer it holds twice,
at the boundary before the page and at the one behind it, because the answer may
still be lost and the page asked for again. `LastPage` is the arithmetic of
`meta.pages`: when the client stops, every row is in front of the boundary.

**Consumers** (`EventConsumersProofs`). `EffectsExactlyOnce` and `NoMessageLost` for
any events, poison, workers, prefetch and retries. `Inv` is the types, `Routed`
(messages are only where the bindings put them, so a retry that expires comes back
to the consumer it was for), `Marked` (a delivery is enqueued after its transaction),
`ExactlyOnceEffect`, and `Owed`: an event is done or a message about it remains that
is *not* about to be acknowledged. `NothingLost` counts those too and is therefore
not inductive: the acknowledgement would remove the last message. `Owed` is what
entitles `consume` to acknowledge; it needs `ExactlyOnceEffect`, since a handler that
finds the marker skips its effects. `DoneForGood` says that no later step undoes
what is done.

`RetriesBounded` is `TrafficBounded` for any retry limit: what one event can cause is
known although every retry is fanned out again. `Traffic` is a sum over the retry counts
of weight times load. `SumFacts`, `SumBalance` and `SumOfSlots` are the laws of that sum,
`WeightFacts` says that a weight is the next one times the fan-out squared. Then every
step is a balance. A delivery moves a message from queue to hand at one count; an
expired retry becomes a fan-out of messages of its count, which the load of the copy has
already paid for (`RetryExpiresTraffic`); `retryOrDeadLetter` replaces a message by
copies that weigh together what it weighed (`RetryOrDeadLetterTraffic`). What is not
balanced, a publication (`PublishTraffic`), a copy whose confirm failed
(`RetryPublishFailsTraffic`) and the messages that an outage puts back
(`RequeueTraffic`), is counted on the right side (`AllowedStep`). A process that ends
because of a closed channel is not counted there, so it must put back nothing. That
needs `CutOff` beside `Inv`: only a worker whose consumers the broker has forgotten works
on a closed channel, and none of the messages it holds can come back again.

**Notification delivery** (`NotificationDeliveryProofs`). `RecordedByOne` rests on the
job's lock while none is lost (`Owners`: whoever runs a job holds its lock), and on
the claim while no call fails (`Caught`: without a fault nobody is in the catch block
that gives a claim back). `Locks` and `Busy` tie jobs, locks and executions together.
`DeliveredStays` needs neither. `OrphansPaidFor` is by counting (`Accounted`): two for
each orphan and one for each execution in its catch block are at most two for each
crash and one for each fault.

**Catalog cache** (`DependencyProofs`). `StaleExplained` is inductive as it stands.
`CacheFreshAtRest` adds that no entry is ahead of the database (`NeverAhead`): with
no request in progress, no lost invalidation and no late reader, what is cached is
the current catalog.

**Connection and answers** (`DependencyProofs`). `OneConnection`: `Referred` says that
`channel` and `connecting` refer to a connection in the state they stand for, that one
of them is empty, and that every connection in use or in set-up is one of the two; a
leak costs a fault (`LeaksCounted`). `ReadyMeansReached`: an open connection means that
the broker is up (`OpenMeansUp`), so that a reply, which needs the open connection of its
call, comes at a moment at which RabbitMQ is reachable; `PingsHonest` keeps that until the
probe settles, and `AnswersHonest` in its answer.

**Scaling lab** (`ScalingLabProofs`). `IInv` is `Flow` and `Reported`. `Flow` has the
types, the balance of scheduled requests, and for each request in flight that its number
is below `scheduled`, so that the next one is not already in the set and the set grows by
one; and that it started on schedule. `SlotOffered` is the arithmetic of
the open loop: a slot that is due before the deadline is one of the offered ones.
From this follow `LoadOnSchedule` and, with `Reported` (the report is the summary of the
samples at hand, as nothing changes them after it), the theorems about the report:

* `PercentilesCorrect`, for sequences of any length and values. `Sorting` says that the
  positions are a permutation and that the sorted sequence does not decrease;
  `SortedCounts` that the k-th is among the values below any boundary exactly when at
  least k of them are;
  `Rank` that the index of the code is the least k with 100k >= f n. Together: the value
  at that index is the smallest one that f percent do not exceed (`NearestRankFound`).
* `VerdictCorrect`: with the nearest rank, p99 exceeds the SLO exactly when
  fewer than 99% of the samples meet it (`SloMissed`; rounding is monotone, so the p99 is
  rounded where the samples are), and failures are the samples that are not successful
  (`OutcomesAddUp`, `NthIndex`).
* `RequestsAccounted`: the four outcomes partition the samples (`FourParts`).
* `CommandLineParsed`, for command lines of any length. The invariant of the loop
  (`LoopOK`, kept by `IterateOK`) is that after n iterations it stands behind n or more
  arguments that are well formed, and that the map holds what they give; or
  that it has thrown, and the line is not well formed. After as many iterations as
  there are arguments the index is behind the last one (`Collected`). `Numbers` and
  `ParsedAsRequested` add the URL and the ranges.

What a loop, a sum or a recursive function computes is proved by induction, though not
with the induction theorems of the library, which have an operator as parameter and are
beyond the provers. `Least` takes from the well-foundedness of < that a set of
naturals has a least element, and `UpTo` from it that a set that has 0 and with n also
n + 1 has every number up to a bound: the induction is over the set of the n for which
the statement holds. That a recursive function exists is such an induction as well
(`Recursion`, `LoopExists`).

Only model-checked: all liveness (`EventuallyPublished`, `EventuallySettled`,
`EventuallyDrained`, `RecoveredUnlessKept`, `EventuallyCurrent`, `EventuallyReported`,
`EventuallyConnected`, `ProbesAnswered`), for fairness and ENABLED are outside the prover.

## 5. Not modelled

Validation of bodies, correlation ids, the text of errors, tracing and metrics other
than the request counter keep no state that a property could be about. Environment
validation (`configuration/env.validation.ts`) is a declarative schema and the entry
points are wiring; both run once. Prices and amounts of an order are data that no
property tells apart. Formatting of messages, logging, the printed report of the lab
and the length of delays are left out everywhere. `SKIP_EXTERNAL_CONNECTIONS` is a
test switch. Graceful shutdown closes channels and is covered by crash and restart.
`SetUp` is one step: a close emitted after the last declaration of `connect` is answered and
before the close listener is attached, two lines further on, is not represented.
`Math.min(...values)` in `latencySummary` has a limit on the number of its arguments;
samples are taken to be fewer.
The schema is in the modules that rely on its constraints; seed, OpenAPI generation
and the deployment manifests are not part of the running program.

## 6. What could come next

A composition of outbox, consumers and delivery with an abstract "every committed order
is notified and audited once", of which `KeepsPromise`, `NoMessageLost`,
`EffectsExactlyOnce` and `RecordedByOne` are the parts; and the length of the backoff,
with which the outbox could be said to be current within a time.
