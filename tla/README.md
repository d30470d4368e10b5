# A TLA+ model of the subscription platform

The platform bills subscriptions through two payment processors. A scheduler
selects what is due, the subscription service charges one subscription, and the
payment orchestrator carries a charge out: it recognises repeated requests,
chooses a processor, fails over to the other, and records the outcome. Money
moves in the orchestrator, is asked for again by the scheduler's retry queue,
and the subscription service moves the period on for it; these three have the
largest models and the proofs. Around them are the scheduler's own life, refunds,
the WebSocket hub that relays events, the routing rules and the network tokens.
Paths below are relative to the repository.

## Inventory

| Part | State | Operations | Talks to | Hard behaviour | Correct when |
|---|---|---|---|---|---|
| payment-orchestrator (`cmd/payment-orchestrator`) | `transactions` (Postgres), `idempotency:<key>` (Redis, 24 h), one health flag per processor client | charge, refund, health loop, events to the hub | BPAS, both processors, Postgres, Redis, WebSocket hub | a goroutine per request; time-outs after a capture; failed statements that are only logged; cancelled contexts; restarts | one capture per key; no success that was not captured; every request answered |
| mit-scheduler, retry queue (`retry.go`, `executor.go`, `policies.go`, `handlers.go`) | `retry_queue` | schedule, select due, retry, retry by hand, cancel | subscription-service | the tick and HTTP requests share rows without a claim; two-minute context; crash in mid-retry; CHECK constraints | at most `max_attempts` charges; none after a final answer; every entry resolved |
| mit-scheduler, loop and jobs (`scheduler.go`, `database.go`) | `running`, `stopCh`, `scheduler_jobs`, last result | Start, Stop, tick, TriggerManual | subscription-service, Postgres | manual trigger next to a tick, tick next to Stop, lock held across a query, slow subscriptions that stay the oldest | one billing per period; Stop waits for the batch and comes back; nobody is starved |
| subscription-service (`cmd/subscription-service`) | `subscriptions`: status, period, `cancel_at_period_end` | create, cancel, upgrade, downgrade, charge, advance | orchestrator, Postgres | key per calendar day; read-then-write of the status; lost replies | billed once per period; a cancelled one never again |
| bpas-service | routing rules, statistics | evaluate, edit a rule, reload the file | orchestrator | reloads read before they lock; edits move priorities; percentage rules | the active matching rule of least priority decides; a change lasts |
| mock processors A, B | failure rate, up or down, statistics | charge, refund, tokenize, admin | orchestrator | keep neither idempotency keys nor charges | a refund goes to who captured |
| network-token-service | token map, statistics | create, validate, refresh | nobody on the charge path | one mutex, released between look-up and use, and not taken by the dual-vault path | a token given out stays known; what is returned of it is one state of it |
| WebSocket hub (`internal/websocket`) | client set, 256-slot buffers | register, unregister, broadcast | orchestrator, browsers | full buffers, eviction, close against send | no send on a closed channel; a dead client leaves |
| event publisher (`internal/events`) | none | fire-and-forget POST | orchestrator | lost events; constructed by no service | - |
| token manager (`internal/tokens`) | token map | create with retry, validate and get, refresh | network-token-service; imported by no service | lost replies, two requests for one question | at most `maxRetries + 1` attempts; one token per call |
| api-gateway | none | reverse proxy | all services | pure I/O | - |
| other `internal` packages | none | wrappers | imported by no service | - | - |

`*.bak` and `*.backup` files are old copies and are not built.

Calls go one way: scheduler -> subscription-service -> orchestrator -> processors.
Each hop has its own time-out (30 s, 30 s and 5 s) and takes any error for a
failure, although the hop below may have succeeded. That, and the check-then-act
on every shared row, is where the hazards of `PROJECT.json` come from.

## Modules

| Module | Models |
|---|---|
| `Orchestrator` | `processCharge` and everything it calls, by any number of concurrent requests |
| `IdempotentCharge` | the abstract promise: per key, at most one capture, and one verdict for everybody |
| `RetryQueue` | the retry half of the tick, retries by hand, cancellations, over one table |
| `Billing` | billing over several days: due query, trigger, charge, advance, retries, customers; of the orchestrator what a caller can tell: look-up, charge, record |
| `MitScheduler` | the life of the scheduler: loop, ticks, triggers, Status, Stop and Shutdown, and the job rows and accounts of a batch |
| `Refunds` | `processRefund`, both processors with charges, refunds and switches, and the part of a charge that decides what a refund finds |
| `WsHub` | `Hub.Run`, `ServeWs` and both pumps of any number of clients, over bounded channels |
| `NetworkTokens` | the token service's map and lock, and the token manager that calls it |
| `Bpas` | routing rules as data, their evaluation as operators, edits and reloads as actions |
| `MC` + each of these names | instances for TLC (symmetry sets, the lengths of periods, routing rules) |
| each of these names but `IdempotentCharge` + `Proofs` | theorems and proofs |

Definitions whose name has a suffix, such as `Replayable_SuccessOnly`, stand
before the definition they vary: each is a plausible mistake in that code, and
the property paired with it in `PROJECT.json` fails when it is put in. They show
that a run can fail; no other definition uses them.

### Orchestrator

`pc[r]` is where request `r` is in `processCharge`. One action is one interaction
with something shared, since between two of these a goroutine touches only its
own variables.

| Model | Code |
|---|---|
| `key`, `Arrive` | decoding the request, `uuid.New()` for a missing key |
| `LookupCache`, `LookupRow` | `checkIdempotency`: Redis, then Postgres; an error counts as a miss |
| `Route`, `PrimaryOf`, `Decoded` | `GetRoutingDecision`; BPAS answers `target_processor`, the client decodes `primary_processor` |
| `LookupMethod` | `GetPaymentMethod`, 404 on any error |
| `Send`, `SkipUnhealthy`, `SendCancelled`, `Receive*`, `TimeOut`, `FailOver` | `chargeWithProcessor` and `ProcessorClient.Charge`, primary then secondary |
| `Handle` | the processor's charge endpoint, possibly after its caller gave up |
| `Store`, `Inserted` | `CreateTransaction`, `ON CONFLICT DO NOTHING`, error only logged |
| `Remember` | `cacheIdempotencyResult` (overwrites), then the response |
| `HealthCheck`, `Expire`, `Disconnect`, `Crash` | the 30 s loop, Redis expiry, `r.Context()` cancelled, process death |

`rivals` is a history variable: the same-key requests a request was in flight
with. `tx` in an answer names the request that computed it (the transaction id).
Amounts, user messages and processor transaction ids are left out: no property
tells them apart. Whether statements fail, replies are lost, answers expire,
clients disconnect, the process dies, and whether callers overlap on a key are
CONSTANTS, so that a property can be checked under exactly what it needs.

A remark on the schema: `CreateTransaction` and the lookup by key name a column
`user_error_message`, which the table of `migrations/001` lacks. On a database
made from the migrations alone every one of these statements fails, which is
`DbOutcomes = {"error"}`; only Redis then remembers a key.

### RetryQueue

One action is one SQL statement or one call to the subscription service.

| Model | Code |
|---|---|
| `Schedule`, `FreshRow` | `CreateRetryEntry`, reached from `ProcessJob` after a soft decline |
| `FallDue` | `next_retry_at` passes; when it does is the interval of `CalculateNextRetry`, abstracted to "later" |
| `Select`, `TakeNext` | `GetDueRetries` with its LIMIT, the loop of `ExecuteRetryBatch` |
| `RetryNow` | `Handler.RetryNow`: reads the row, refuses one not pending |
| `Mark`, `GetSubscription`, `Charge`, `ChargeDead`, `Answer` | `ProcessRetry` |
| `Reread`, `Attempted`, `Failed`, `Accepts`, `Write` | `UpdateRetryAfterAttempt`: SELECT, then UPDATE, under the CHECK of `migrations/004` |
| `CancelCheck`, `CancelWrite` | `Handler.CancelRetry` |
| `Expire`, `Crash` | the tick's two-minute context or the client's, process death |

History variables: `charges` counts the charges of an entry (saturating at
`MaxAttempts + 1`, which is enough to tell the bound broken), `over` the entries
whose charge came back as final, `contended` the entries two workers were at
together, `owed` the subscriptions soft-declined so far.

`PendingIndex` says whether the unique partial index exists that the `ON CONFLICT`
of `CreateRetryEntry` needs. The migrations create none, so with the repository's
schema no entry is ever queued; the runs suppose the
index, because that is the database the code is written for.
`Accepts` applies the index to updates as well.

### Billing

A worker is a goroutine of the scheduler (the ticker's, a manual trigger's, a
retry by hand's) together with the charge request it has open at the subscription
service: the former waits for the latter, so the two have one `pc`. One action is
one statement or one call to the orchestrator.

| Model | Code |
|---|---|
| `CreateSubscription`, `CancelSubscription`, `UpgradeSubscription`, `DowngradeSubscription` | the handlers of the same names and their statements |
| `Due`, `SelectDue`, `TakeNext`, `SkipJob` | `GetSubscriptionsDue`, `ExecuteBatch`, `ProcessJob` up to the call |
| `TakeRetry`, `Mark` | `ExecuteRetryBatch` or `RetryNow`; `ProcessRetry` up to the call |
| `ReadSubscription`, `FailCall`, `MarkPastDue` | `ChargeSubscription`: row and plan, key of the day, the call, `past_due` on anything but success |
| `Lookup`, `Capture`, `Decline` | `processCharge` of the orchestrator: `checkIdempotency`; the charge with its failover, the record of the answer, the response |
| `ReadPeriod`, `Advance` | `AdvanceSubscriptionPeriod`: read, then write |
| `Abandon` | the scheduler's 30 s or its two minutes are over: the request's context dies, and with it every later statement |
| `Report`, `Schedule`, `Retried`, `Resolve` | `ProcessJob` and `ProcessRetry` after the call: `CreateRetryEntry`, `UpdateRetryAfterAttempt` |
| `NextDay`, `Crash` | the calendar; death of the scheduler and of the charges it has open |

Time is days, the grain of the idempotency key. When a retry becomes due is
abstracted: a pending entry may be taken at once. The orchestrator looks the key
up and charges afterwards, as its code does, with nothing in between that claims the
key: two overlapping calls may both charge, or one charge and the other be
refused. Once recorded an answer is taken to stay (`told`; of two, a look-up may find
either): stores that fail are `Orchestrator`'s subject. Processors that did not reply
may have captured all the same, so that a key can be captured twice by one call
(`TakenTwice`). The unique index on pending entries is supposed, as in `RetryQueue`,
and batches reach no LIMIT. Cancelling a retry entry is in `RetryQueue` only. A charge by hand
(`POST /subscriptions/{id}/charge`) is left out: it checks no due date, so it is
a way to bill twice by request. A slot of `Entries` is used again once its row is
resolved.

Four history variables name the cases in which the code bills a period twice:

- `faulty`: the answer to a charge was lost, or its success not written down (no new
  period). A read that fails, a call that fails before a processor is asked, and a
  decline that is lost are not such cases: no money was taken.
- `overnight`: somebody was at the subscription at midnight.
- `raced`: two calls were past the look-up of one key.
- `stray`: a failed call left a retry beside a subscription that is not past due
  (the read of the row failed, or the UPDATE to `past_due` did, or the scheduler stopped
  waiting before it), so that the due query bills it and the retry bills it again; or it
  made past due, and scheduled a retry for, one that others were at or that was
  paid that day (`Shared`).

Two things the code does that a reader may not expect are modelled as they are:
a trial never ends, since the due query selects `active` rows only; and an
upgrade starts a new period without charging for it.

### MitScheduler

A worker is the loop's goroutine or the request of a manual trigger. One action is
one statement, one call, or one section under `Scheduler.mu`.

| Model | Code |
|---|---|
| `Tick`, `TickBegins`, `LoopEnds`, `Settle` | `run` and the ends of `tick` that take the mutex |
| `Trigger` | `TriggerManual`, until the server shuts down |
| `Query`, `Selected` | `GetSubscriptionsDue`: the oldest `BatchSize`; a failed query ends the batch |
| `CreateJob`, `ExecuteCharge`, `UpdateJob`, `ReadJob`, `BatchEnds` | `ExecuteBatch` and `ProcessJob`, each with its failing statements |
| `Verdict`, `Counted`, `Rest` | what `BatchResult` counts, and that the batch goes on after a failure |
| `Hang`, `Expired` | a statement that outlasts the two-minute context, and every statement after it |
| `StatusBegin`, `StatusEnd`, `MuFree` | `Status`, which keeps the read lock during `GetJobCount` |
| `Signal`, `Stop`, `StopReturns`, `Shutdown`, `ShutdownFails`, `Crash` | `main` after a signal |

`due` is the list the query orders by billing date. A charge that is answered takes
its subscription off the list (it is paid or past due); one that times out may or
may not have; those in `Slow` always time out and stay. Rows that are final are
forgotten; `left` keeps those that are not and that nobody is at. The retry half of a
tick is `RetryQueue`'s subject and is not repeated.

### Refunds

`at` and `handler` follow a charge through the orchestrator and each processor as
far as it decides what row it leaves: which processor, under which transaction
id. `Row` keeps the processor's id, as `processCharge` does before it replaces the
reply's by its own. Amounts are in half dollars, because the processors decode
amounts as integers and refuse any other (`Whole`).

| Model | Code |
|---|---|
| `SendCharge`, `HearCharge`, `LoseCharge`, `StoreCharge`, `GoOn`, `Settle` | `processCharge`; when the health flags let it pass a processor over is in `Orchestrator`, and any order here |
| `Charge`, `Outcomes`, `Valid`, `SetFailureRate`, `ToggleStatus` | the processors' handlers and switches |
| `ProcessRefund`, `Rejection`, `TooMuch`, `RouteOf` | `processRefund` up to the call |
| `CheckRefund`, `Refund`, `Mine` | the processors' `refund`: the prefix of the id, then chance |
| `HearRefund`, `Heard`, `LoseRefund` | `ProcessorClient.Refund` and the answer |

No refund is ever recorded: its row has a negative amount, and the table's
`CHECK (amount > 0)` refuses it, which is only logged. So nothing adds refunds up,
and several may together exceed the charge; `RefundsFit` says what does hold.

### WsHub

Each goroutine has a program counter: the hub's select, `ServeWs` (`handler`), a
client's `reader` and `writer`, and the goroutines a fan-out starts (`evict`).

| Model | Code |
|---|---|
| `Emit`, `Offered` | the `Emit*` methods and `POST /internal/events`, through `Broadcast`, which drops what does not fit |
| `Upgrade`, `Welcome`, `WelcomePanics` | `ServeWs`; a send on the closed channel panics in the handler, which net/http recovers |
| `Register`, `Unregister`, `Evict`, `Drop` | the `register` and `unregister` cases of `Run`, and who sends to them |
| `FanOut`, `Marked`, `Heartbeat`, `Beats` | the `broadcast` and ticker cases |
| `WriterTake`, `WriterFlush`, `WriterSeesClose`, `WriteFails` | `WritePump`: one message, then all that is queued, in one frame |
| `ReadFails`, `PeerLeaves`, `Broken` | `ReadPump`, and the peer that goes away or stalls |

The hub's panic would end the process (`crashed`); nothing recovers it. `owed` and
`missed` are history variables: `owed` is what a client was sent, its welcome included,
until its eviction is asked for, and has yet to receive; `Unwritten` is what its
writer and its channel hold.

### NetworkTokens

A call of the manager sends requests one after the other; `srv[q]` is the handler of
request `q`, which goes on when its caller has stopped waiting.

| Model | Code |
|---|---|
| `Call`, `Send`, `Created`, `Refused`, `ConnectionFails`, `Retry`, `GiveUp` | `CreateTokenWithRetry`, and the single requests of the other methods |
| `Validated`, `Informed`, `Refreshed` | `ValidateAndGetToken` (two requests) and `RefreshToken` |
| `Refuse`, `BeginStore`, `BeginStoreDual`, `EndStore` | `createToken`: the dual-vault path writes the map without the lock |
| `BeginFind`, `EndFind`, `Validate`, `ReadCard`, `ReadExpiresAt` | look-up under the read lock, use after it |
| `WriteCard`, `WriteExpiresAt` | `refreshToken`, both under the lock |
| `MonthBegins`, `Die` | the clock; the Go runtime, which may end a process that races on a map |

A race is undefined behaviour and so a choice: the write is lost, takes place, or the
process dies and starts again with an empty map.

### Bpas

`Matches`, `Evaluate` and `Sorted` are the pure part. `Evaluate` is the set of rules an
evaluation may return, since chance passes a percentage rule over; `Sorted` the set
of orders `sort.Slice` may leave, since it is not stable. `typed` says whether a
condition has the dynamic type the code asserts; an integer threshold in the
YAML file and the lists of `loadDefaultConfig` have not, and match nothing.
`ReadFile` and `Swap` are the two halves of `loadConfig` in a reload, `UpdateRule`,
`EvaluateRouting` and `Restart` the rest. `latest` is what the rules would be, were a
reload one step.

## Runs

| Run | Instance | Shows |
|---|---|---|
| `OrchestratorFaults` | 2 requests, 1 client key; lossy network, failing statements, disconnects, crashes | `TypeOK`; `SuccessIsBacked`: no reply, cached answer or row claims a success that no processor captured for that key; `RepeatNeedsCutOff`: two requests with one key are both captured only if they overlapped or one was itself cut off, by its client or by a crash |
| `OrchestratorRows` | 2 requests; reliable table, unreliable cache with expiry, lossy network | `DuplicateNeedsOverlap`, `DisagreementNeedsOverlap`: two requests are both captured, or remembered differently, only if they overlapped; `EveryChargeAnswered` |
| `OrchestratorSerial` | 2 requests that do not overlap on a key, cache failing and expiring, network reliable | `ZeroDuplicateCharges`: a key is captured once, over all requests and both processors; `ImplementsIdempotentCharge`: the refinement of `IdempotentCharge` |
| `RetryQueueFaults` | 1 entry, 3 attempts; tick, one retry by hand, one cancellation; lost calls, dead contexts, crashes | `TypeOK`, `AttemptsBounded`, `OverMeansOver`, `ResolvedIsFinal` |
| `RetryQueueLive` | 2 entries, batches of 1, 2 attempts; tick and one canceller; lost calls | `EveryRetryResolved` |
| `BillingPeriods` | 1 subscription, 2 entries, days 0 to 4, plans of 2 and of 3 days; the tick, and somebody who triggers billing or retries by hand; plan changes and every fault | `TypeOK`; `OncePerPeriod`: no day is paid twice and two payments are a period apart, but for the four cases below; `PaidIsAdvanced`: money taken moves the next billing a period past the payment |
| `BillingLive` | 1 subscription, 2 entries, days 0 to 3; tick and trigger; lost replies | `EveryBillSettled` |
| `MitSchedulerLife` | 2 subscriptions, one always slow; loop and one trigger; one failing or hanging statement, crash | `TypeOK`; `LeftoverNeedsFault`: an orderly stop leaves no open job row; `BatchAccounted`; `StopComesBack`; `EveryDueIsBilled`: the slow one starves nobody |
| `RefundsFaults` | 1 charge, 2 refunds, whole and odd amounts, a currency only A takes; lost replies, 2 turns of a switch | `TypeOK`; `RefundsFit`: money goes back from who captured it, no refund above the charge; `AnswerIsTrue`; `CapturedIsRefundable`; `EveryRefundAnswered` |
| `WsHubDelivery` | 2 clients, channels of 1, 2 events | `TypeOK`; `HubSurvives`: no send on and no second close of a closed channel; `NoSilentGap`: who is registered and not on the way out misses no message that was fanned out to it (`Broadcast` may drop one before that); `EveryoneIsServed`; `DeadClientsLeave` |
| `NetworkTokensCalls` | 2 calls of any kind, 1 retry, an older token, 2 dates | `TypeOK`; `RaceNeedsDualVault`; `GrantedIsKnown`; `ExtraTokenNeedsLoss`: one token per call unless a reply was lost; `InfoIsWhole` |
| `BpasRules` | 3 files, 4 edits, 2 reloads, 3 changes, 4 payments | `TypeOK`; `PriorityDecides`; `ChangesLast`: a change is undone only by a reload that began before it |

The orchestrator's runs delimit the promise "zero duplicate charges": it
is shown for callers that take turns with a key, a network that loses no reply, and
a table (or a cache) that keeps what it was told. Overlapping callers break it, and
so does a lost reply: the first processor captured, the request times out and fails
over to the second; hence the premise `ReliableNetwork` of the theorems.

`OncePerPeriod` excludes the subscriptions in `faulty`, `overnight`, `raced` and
`stray`, and needs to: without any one of the four, and without any one of the
places that add to them, TLC finds a behaviour of the code that bills a period
twice or charges one day twice (see "Known divergences"). Nothing else does:
failing reads and marks by themselves, declines, calls that do not get through,
triggers next to ticks that do not meet in the orchestrator, retries by hand, two
workers at one retry, plan changes, and crashes elsewhere need no exclusion.

**Bounds.** The orchestrator's properties speak of one request, or of two with one
key. Two requests give every pair: both with the client's key, one with a key of
its own, and each also fails over between both processors. A third adds other
rivals of the same kind; the theorems cover any number. In the retry queue a
property speaks of one entry and whoever is at it, so one entry with a tick, a
caller and a canceller shows every pair of actors; batching and starvation need
the two entries and `BatchSize = 1` of `RetryQueueLive`. `MaxAttempts` is the
code's 3 where attempts are counted. In `Billing` subscriptions meet only in a
batch, which one worker takes one by one, so one subscription with each kind of worker
shows them: a tick, and one person who triggers and retries by hand, are each pair. Two
entries allow two rows of one subscription, an old one in the works and a new one
pending; days 0 to 4 hold two renewals of a 2-day period, and with a second plan
of 3 days a change of plan during a charge makes a difference. `SomeoneIsOrderly`
stops exploring when every subscription is faulty, raced or stray, for nothing
makes one whole again; and one that midnight caught somebody at is followed until
the last day. What `PaidIsAdvanced` says beyond that rests on its theorem. The queue's and
the billing's runs do not check for deadlock: a queue whose entries are all
resolved has nothing left to do, and the calendar ends at `LastDay`.

In `MitScheduler` subscriptions meet only in a batch: one slow and one other show the
first holding up the second, batches hold both, and two slow charges exhaust a
batch's `Patience`. The loop and one trigger are each pair of workers. In `Refunds`
charges do not meet, and a refund is held against one charge; two refunds show that
neither knows of the other. In `WsHub` clients meet in the hub alone; channels of
capacity 1 fill at once, so that each overflow of the code's 256 happens, and two
events fill a buffer and find it full. In `NetworkTokens` two calls of up to two
requests each give every pair of accesses to the map, abandoned ones included. In
`Bpas` two reloads and three changes are enough for each to come between the halves
of another; the rules cover each type, inactive ones, equal priorities after an
edit, and percentages of 0, 30, 70 and 100. These five runs, but for `BpasRules`, do not
check for deadlock either: calls return, clients leave, the process exits.

**Fairness.** In the orchestrator `Step(r)` is weakly fair: the Go scheduler runs
a ready goroutine, and a call that is waiting ends with the client's 5 s time-out.
Processors owe an answer only on a network that loses nothing. Clients,
health checks, expiry and crashes are never fair. In the queue time passes
(`FallDue`), the ticker fires and a step that has begun goes on (calls end with
the 30 s time-out); nobody owes a cancellation, a retry by hand or a new billing.
`RetryQueueLive` leaves out crashes, dead contexts and retries by hand, for the
code does not promise to resolve an entry then: a row marked `processing` by a
worker that cannot write its outcome, for one of these reasons or because the
attempt ran past the table's CHECK, is selected by no query again. In `Billing` the ticker fires
and whoever is at work goes on; triggers, retries by hand, customers, the
calendar and failures are owed by nobody. `BillingLive` leaves out trials, which
never end, and failing statements, dead contexts and crashes, which can strand
a bill as they strand an entry.

In `MitScheduler` the ticker fires, what runs goes on, the mutex goes to who waits (a
waiting writer keeps new readers out), and a select that could stop again and again
stops once: Go picks among ready cases at random (`SF`). Signals and triggers are owed
by nobody. In `WsHub` it is likewise each ready case of the hub's select, a client's
goroutines, and a read of a broken connection, which its deadline ends; events, peers
that leave and writes that fail are owed by nobody. `Heartbeat` is the ticker. In
`Refunds` the client's 5 s are owed, and nothing of the processors. `NetworkTokens`
and `Bpas` have no liveness property and no fairness.

## Proofs

All theorems are for every value of the CONSTANTS that satisfies the module's
`ASSUME`, so for any number of requests, keys, entries, workers and attempts.

`OrchestratorProofs`

- `TypeCorrect`: `TypeOK` is inductive.
- `CallsInOrder`: a processor is called only by a request on its way, the
  secondary only after the primary. Every later proof needs it, since it is what
  keeps a second call from overwriting what became of the first.
- `SuccessAlwaysBacked`: `SuccessIsBacked`, whatever fails. The lemma
  `CaptureStays` (no step undoes a capture) carries an answer that is backed
  from step to step, including answers replayed from either store.
- `RepeatsNeedCutOff` (`RepeatNeedsCutOff`): assumes `DurableRecord`: the table, or the
  cache, never fails or forgets. Clients may leave, replies be lost and the process die.
  Strengthening `OverlapInv`: who passed the lookup together has seen one
  another, an answered request that was not cut off left its answer in the
  durable store, and only requests past the lookup have made calls.
- `DuplicatesOverlap`: assumes `Durable`: such a record, no disconnects, no crashes. It
  follows from `OverlapInv` and the lemma `CutOffNeedsFault`.
- `ZeroDuplicatesIfSerial`: from this, for callers that take turns, and from the lemma
  `OneProcessorIfReliable`: on a network that loses nothing (`ReliableNetwork`) a request at
  the secondary has nothing or a refusal from the primary.
- `DisagreementsOverlap`: assumes `Durable`. Strengthening `OriginInv`: every answer in the
  cache or the table is the result of a finished request with that key, and a replayed
  one is such an answer; so two different answers are those of two requests, which
  `OverlapInv` says something about.
- `ChargeImplementsIdeal`: the refinement of `IdempotentCharge`, for callers that take turns, a
  reliable network and `Durable`: the promise of zero duplicates as a caller sees it,
  one capture and one verdict for a key. `SerialInv` collects all of the above and
  `HonestInv`: a call under way is waited for, and who captured says so.
  `CaptureImplemented` maps a capture to `Capture`, `TellImplemented` a reply or a replay
  to `Tell`, `StutterImplemented` the rest; `EveryStepImplemented` is their sum.
- `CallersAgree`: what that is worth to a caller, proved of `IdempotentCharge`'s steps alone
  and carried over: no key is captured twice, and every verdict told stays true.

`RetryQueueProofs`

- `TypeCorrect`: through `IType`, which ties each worker's `pc` to its `cur`.
- `BoundedAttempts`, `FinalMeansFinal`: assume `ReliableTable`
  (a statement fails only on a dead context; lost calls, dead contexts, crashes
  and cancellations are all allowed). The properties are not inductive: a pending
  row with an attempt too low, or a charge under way on a row still pending,
  would break them one step later. `IInv` adds, for an entry no two workers were
  at together: it has one holder at most; a pending row has fewer charges than
  attempts and no final answer (`Ready`); a closed row has no holder (`Books`);
  and what its holder knows at each step (`Knows`), in particular that with a live
  context the row is no longer pending once it is about to be charged.
  If a statement could fail on a live context this is lost: the mark fails
  unnoticed, the charge goes through, and the row is selected again.
- `ClosedStaysClosed` needs no assumption: `HeldInv` is the part of `IInv` that failing
  statements leave standing. Whoever comes to an entry finds it pending, and the
  last statement of an attempt, which may close it, is where its one holder lets go.

`BillingProofs`

- `TypeCorrect`: through `IType`, whose part `Linked` ties a worker's `pc` to the
  subscription and the entry it is at. It holds under every fault.
- `MoneyBuysPeriod`: `PaidIsAdvanced`, for any number of subscriptions, workers and
  cycles, under every fault. Not inductive: the payment comes first and the
  advance two statements later. `PaidInv` says of every payment of a subscription
  that is not faulty that it has bought its period, or that a worker who knows
  of it is still on its way to `Advance`. The lemma `PaymentsKept` reduces a
  step that captures nothing to two questions: does it take a period back, and
  does somebody turn away from a payment without having advanced the period?
- `PeriodPaidOnce`: `OncePerPeriod`, just as generally. Two payments are compared, so the
  invariant must say what is known between them. `OnceInv` keeps the books of the queue and
  the keys (`BooksKept`) and says of every subscription in `Whole` that it is `Orderly`:
  what a worker knows is of today (`UpToDate`); today's key has one answer at most, and
  who charges under it is the first and alone (`OneVerdict`); who has paid today is active,
  or about to be (`PaidIsActive`); until it is refused today it is either billed by the due
  query or at its one retry, never both (`BilledOrRetried`, with `LeftPastDue` for the moment
  between a failed call and its report); a retry keeps it out of the due query
  (`RetryGuards`) and is about to be resolved once it is paid (`PaidIsResolved`); and while a
  charge may still come each payment is today's or a period old (`PastIsApart`), so that
  the next one is as well. `OrderKept` and `OrderAtWork` reduce a step to what it disturbs
  of this; the lemmas `OrderElsewhere` to `OrderAtCrash` go through the steps.

`MitSchedulerProofs`

- `TypeCorrect`, `AccountsAddUp` (`BatchAccounted`) and `LeftoversNeedFaults`
  (`LeftoverNeedsFault`), for any set of subscriptions, any part of them slow. One
  invariant carries all three; none is inductive alone. `Position` ties what a
  worker holds to its step. `Account` counts the verdict at hand as a success that
  is not yet reported (`Pending`) and bounds what was paid by what has left the
  batch. `Strain` is why an orderly stop leaves nothing behind: without faults a
  batch spends its two minutes on slow subscriptions only, on each once, because
  what is due is listed once (`Lists`); so its context can only be over if there are
  `Patience` slow ones. `LoopInv` says that once `Stop` has returned the loop is over.
  The lemmas up to `ListWithout` are about lists without repetitions.

`RefundsProofs`

- `TypeCorrect`, and the three properties of refunds, whatever is lost or written:
  `RefundsAlwaysFit` and `AnswersAreTrue` from `RefundsInv` (a row names the processor that
  captured under its charge, a refund under way was placed with the amount of such
  a row, and `Told` says what each state of a refund has been told);
  `CapturesAreRefundable` from `KnownInv` (`Known`: a charge that lost no reply knows of
  every capture made for it, at each of its steps).

`NetworkTokensProofs`

- `TypeCorrect`, through `IType`: what a handler is at belongs to what its call asks.
- `RacesNeedDualVault`: from `Exclusive`, the lock's own invariant: one writer alone, or
  readers, among all who do not store a dual-vault token.
- `GrantedStaysKnown`: from `KnownInv`. A handler that holds a token, and a reply that
  carries one, keep it in the map as long as nothing was lost and nobody died; the
  lemma `VaultKept` is that no other step takes a token away.
- `ExtraTokensNeedLoss`: from `TriesInv`, a call's further tries each cost it a connection.
- `InfoWhole` (`InfoIsWhole`, an action property). `WriteInv`: the two dates of a token differ
  only while one refresh is between its two writes, which the lock keeps from any
  other and from every look-up. `CalmInv`: a call that nobody disturbed has found its
  token while no refresh was at it, and what it has read since is what is there.

`BpasProofs`

- `TypeCorrect` and `PriorityHolds` (`PriorityDecides`), from: the rules are in order and
  who waits to swap has parsed a file. `BpasAssumption` asks that files hold rules and
  that the rules of `loadDefaultConfig`, which nobody sorts, are written in order.
  `SortedIsInOrder` and `ReplacedIsList` say what sorting and an edit preserve;
  `FirstDecides` is the heart: in an ordered list nothing after a certain rule is reached.
- `ChangesStay` (`ChangesLast`) assumes `NamesDiffer`: every file, and `loadDefaultConfig`, names a
  rule once. The service does not check that, and with a name used twice an edit
  changes one rule of the list while the name stands for both. `LastInv`: until changes
  overlap, the rules are those of the history, unless a reload is between its
  halves, and then what it has parsed is.

`WsHubProofs`

- `HubNeverPanics` (`HubSurvives`), for any clients and capacities: who has not been through
  registration has an open channel, who is registered has been through it, and a
  channel is closed in the step that forgets its client.
- `TypeCorrect`, in three parts: `HubTypes`, `PumpTypes` and `BufferTypes`, the last with the
  capacities of the channels.
- `NoGapIsSilent` (`NoSilentGap`): from `GapInv`. Who is not registered yet is owed nothing and
  has empty buffers; a writer holds a message only while it writes; and what is owed is
  what writer and channel hold. `QueueGrows` and `TakeMovesHead` are the two facts about
  sequences this takes: sending appends to both, and taking the head moves nothing.

Every invariant, every action property and the refinement that a run checks are
proved. Only model-checked are the liveness properties, for which TLAPS has no
ENABLED: `EveryChargeAnswered`, `EveryRetryResolved`, `EveryBillSettled`, `StopComesBack`,
`EveryDueIsBilled`, `EveryRefundAnswered`, `EveryoneIsServed` and `DeadClientsLeave`.

## Known divergences

Where the code does other than the repository says, the model does what the code
does. These were found on the way; each can be replayed by stating the promise as an
invariant of the module named.

- *Idempotency.* `README.md:8` has "Zero duplicate charges". `processCharge` looks a key
  up (`handlers.go:56`) and charges afterwards, with nothing that claims it in between:
  two overlapping requests both miss and are both captured. `Orchestrator` with
  `SerialCallers = FALSE`; `DuplicateNeedsOverlap` says that it takes that.
- *Billing twice.* `docs/database-schema.md:68` has "Idempotency keys prevent duplicate
  charges during retries". A period is billed twice
  (1) when a read of the subscription fails (`billing.go:63`, `:81`) or the UPDATE to
  `past_due` does (`:119`, `:168`): the scheduler takes the 500 for a soft decline and queues
  a retry (`executor.go:80`), while the row stays active and due; the due query bills it
  one day and the retry, under another day's key, again;
  (2) when a tick and a trigger are both past the look-up of one key, as above, or when
  one of two overlapping calls never gets to the orchestrator: it marks past due, and
  queues a retry for, what the other has paid;
  (3) when midnight passes between the selection of a job and its end: the worker bills
  under one day's key what another has billed under the other's;
  (4) when the answer to a capture, or the write of the new period, is lost: the next
  attempt, on a later day, has a new key; and the failover after a lost reply charges
  the second processor at once.
  `Billing`, with the history variable of the case left out of `Whole`.
- *Routing.* `README.md:7` has "BPAS controls traffic distribution".
  `RoutingDecision` decodes `primary_processor` (`clients.go:168`), BPAS answers
  `target_processor` (`bpas-service/main.go:69`): the advice is always empty and A is tried
  first (`Decoded`, `PrimaryOf`).
- *Retries.* `executor.go:79` has "On failure, create a retry entry". The `ON CONFLICT`
  of `retry.go:98` needs a unique partial index that neither `migrations/004:40` nor
  `EnsureRetryTableExists` creates: every INSERT is refused and the error logged.
- *Cancellation.* `subscription-service/handlers.go:184` answers that a subscription "will
  be canceled at the end of the current period". `ChargeSubscription` refuses the status
  `canceled` only (`billing.go:73`), which no statement writes: a pending retry charges a
  cancelled subscription and starts a new period.
- *Downgrade.* `handlers.go:351` answers "New plan takes effect at end of current period".
  The price is read before the charge and the length of the period after it
  (`database.go:475`): a downgrade in between makes a year that was paid for last a month.
- *Percentages* in BPAS chain: the 30 % rule after a 70 % rule draws again, so that B gets
  9 % and 21 % of payments match no rule (`main.go:271`). The lists of
  `loadDefaultConfig` and integer thresholds of the YAML file fail a type assertion and
  match nothing.
- *Refunds* are never recorded (see `Refunds`), and processors refuse amounts that are
  not whole, which the orchestrator allows.
- *Dead or unreachable code.* `bpas-service/main.go:619-625` registers handlers that no
  file defines, so that the service does not build as it stands. The debug route of
  `network-token-service/main.go:500` stands in front of `/admin/*` and `/health`. Nothing
  constructs the token manager or the event publisher; nothing calls
  `Client.SendMessage` or four of the `Emit*` methods.

## Not modelled

The gateway and the unused `internal` packages are I/O or dead code, and the event
publisher is a post whose failure is logged. Within the modelled parts: wording,
exact amounts, metrics, statistics, logging, listing endpoints, charges by hand,
plan and payment method administration, token formats for processors, tokenize,
processor B's latency switch (a reply may come after the client's time-out
whatever it is set to), the retry intervals, and the classification of error codes,
which is a table.

## Plan

Done, with their checks and the proofs of their safety properties: `Orchestrator` (and its
refinement of `IdempotentCharge`), `RetryQueue`, `Billing`, `MitScheduler`, `Refunds`, `WsHub`,
`NetworkTokens`, `Bpas`. Left, in this order:

1. `RetryQueue`: a bound on charges that survives statements failing on live contexts. It
   is not `MaxAttempts`: it would have to count the failed statements.
2. The safety part of the liveness properties: for each, that whoever waits has a
   step of its own enabled, or waits for somebody who has.
3. `Bpas`: `ChangesLast` where a file names a rule twice.
