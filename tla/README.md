# A verification project for mobility-transactions-domain

TLA+ models of the back end under `src/` (TypeScript on Node.js, Fastify,
PostgreSQL through Sequelize): rides, payments, driver dispatch, fares with the event bus and
the payment outbox, the seed engine, and the path of a request through the HTTP API. TLC checks
each model on small instances, and TLAPS proves the safety properties of each, and the three
refinements, for every size.
`PROJECT.json` holds the machine-readable side: for each definition the source lines
it stands for, the runs, the mutants, the hazards, the findings and the theorems.

Everything is translated from the code. Where the code and a document, comment
or test disagree, the model follows the code, and a violation run or section 6 shows the
disagreement.

## 1. The system

One process serves HTTP (`src/src/modules/*`), keeps its state in PostgreSQL
and in a few in-memory maps, and calls a payment provider. Within the process the only
interleaving is at `await`; several processes may share the database, so a
process's memory is never a lock. There are no queues: the event bus calls its
handlers in the same process.

| Component | State | Operations | Hard because |
|---|---|---|---|
| **Rides** `modules/rides` | `rides` (state, version, driver, four timestamps), `ride_transitions` (audit trail) | create; transition to one of 7 states; expire a batch of stale rides | optimistic locking over three awaits; the sweep works on snapshots with a clock read earlier; publish follows the commit |
| **Payments** `modules/payments` | `payment_intents`, `settlement_attempts`, `payment_outbox` | create an intent; initiate settlement; receipts and evidence (reads) | money moves between an unlocked read and a transaction that reads again; retries under old and new keys; crash or lost answer after the charge |
| **Dispatch saga** `modules/dispatch` | process store (memory) keyed by correlation id | dispatch a ride: search, reserve with retries, assign, compensate | a hand-written saga over two aggregates; compensation may itself fail; replay of a finished saga |
| **Drivers** `modules/drivers` | `drivers` (state, location, version), geo index (memory), `driver_locations` | register, change availability, update location | the driver's app and the sagas write the same rows; the reservation (`currentRideId`) is never persisted |
| **Fares** `modules/fares` | `fare_calculations`, one immutable row per ride | calculate and store a fare, from a request or from an event; read it | lookup and insert are two awaits, and handler and route race; ceilings of floating-point products |
| **Event bus and wiring** `shared/infrastructure/events` | handlers by type name (memory) | publish, subscribe | no persistence; handler errors are swallowed; names must match |
| **Payment outbox** `modules/payments` | `payment_outbox` | fetch, mark published, mark failed | no lock on what is fetched; a counter read and written back; no process of the repository runs the relay |
| **Seed engine, dbctl** `shared/infrastructure/database` | tables, constraints, seed rows, `seed_integrity`, `seed_meta`, advisory lock | schema ensure, migrate apply, seed apply, run-seeds | lock bound to a session of a pool, and not taken by run-seeds; serializable transactions with retries; log written after the commit |
| **Authentication and scopes** `shared/infrastructure/auth` | users, sessions, cookie cache (Better Auth) | resolve a session, require scopes | grants change while requests run on what was read before |
| **HTTP and JSON:API** `app.ts`, route files | none between requests | hooks, parser, validation, scopes, key, use case, answer | each route maps errors to statuses itself; a hook that does not yield stops the request |
| Migrations | unique indexes, checks, triggers | run by the commands above | the indexes are the last defence of payments and fares |
| Logging, metrics, configuration, bootstrap | none the properties are about | – | – |
| ETA | no code | – | – |

**How they interact.** A rider's request creates a ride; dispatch moves it through
the rides module's own repository; the driver's app and support staff move it on through
the transition route; the sweep moves it to EXPIRED. Each ride transition is handed to
the event bus after its commit. Fares were meant to be computed when the ride
ends and payment intents when the fare is known, but rides publish
`RideStateChanged`, fares subscribe to `RIDE_STATE_CHANGED`, and
nothing publishes `FARE_CALCULATED`; intents are therefore created through the
HTTP route only. The handlers exist and work if an event with the right name is published:
`EventPipeline` has both the events the code publishes and those of its catalogue. The seed
engine writes the tables of all modules past their domain code.

**What makes each correct.**

- *Rides*: however requests, sweeps and crashes overlap, the audit trail of a
  ride is a legal path of the transition table that ends at its row; the
  version counts it; nobody hears of a change that was not committed; only
  overdue rides expire, and each in the end does.
- *Payments*: a rider is charged at most once and every capture is recorded, unless his own
  settlements overlap, lose an answer or share a key; every
  recorded outcome was really reported; every recorded attempt is
  announced in the outbox; keys and successes are unique.
- *Fares and events*: a ride has one fare, whoever asks; a handler that was called has its
  effect or an error was logged; the outbox tells what became of each event.
- *Seeds*: seeds are atomic and repeatable, the ledger never runs ahead of the data, and
  concurrent commands do not mix their rows.
- *Requests*: an effect was allowed to its user; a status tells whether there was an effect;
  a retry acts once; every request is answered.
- *Dispatch and drivers*: a driver serves one ride at a time; a reservation is
  always held by a saga or a ride; answers are true; an available driver can be found.

## 2. Modules

| Module | Role |
|---|---|
| `RideStateTable` | transition table and terminal states, pure |
| `RideStateMachine` | abstract: a ride is one state that makes legal atomic moves |
| `RideLifecycle` | detailed: rows, audit trail, requests over three awaits, sweep, clock, crashes, bus |
| `RideLifecycleProofs` | the inductive invariant of `RideLifecycle` and the safety theorems |
| `RideRefinementProofs` | `RideLifecycle` implements `RideStateMachine` |
| `RideExpiryProofs` | the sweep expires overdue rides only; rows tell their history; conflict answers |
| `PaymentPolicy` | attempt policy, pure |
| `PaymentLedger` | abstract: per ride a growing list of attempts, at most 3, the last success final; what is left of that once settlements of the ride overlap |
| `PaymentSettlement` | detailed: intents, attempts, outbox, the two phases, provider, faults |
| `PaymentSettlementProofs` | records, announcements and unique indexes; the refinement; charges and captures of undisturbed rides |
| `DriverAssignment` | abstract: a driver is held for one ride at a time, a ride gets one driver, once |
| `DriverDispatch` | the saga composed with driver rows, geo index, apps and restarts |
| `DriverDispatchProofs` | answers, reservations and index; exclusion and the refinement while apps leave working drivers alone |
| `FarePricing` | the calculation of a fare, pure |
| `EventPipeline` | completed rides, the bus and its subscriptions, fares, intents, outbox and relay |
| `EventPipelineProofs` | one fare and its price; what outbox rows tell |
| `SeedData` | the seed rows of eight tables and what relates them, pure |
| `SeedEngine` | the commands that write: lock, schema, migrations, seeds, ledger, faults |
| `SeedEngineProofs` | hashes, ledger, constraints, writers; the seed rows themselves |
| `RouteTable` | scopes, roles, error tags and the sixteen routes, pure |
| `RequestGate` | a request from the first hook to the answer, accounts and sessions, faults |
| `RequestGateProofs` | rights, retries, answers |
| `MC...` | symmetry sets, policy functions and other values TLC needs |

Definitions named as weakened variants (`AnyVersion`, `SaveAttemptsSilently`,
`RetryForever`, ...) stand just before the definition they weaken. They are the
mutants: each is a plausible bug of that code, no specification uses them, and
each property is shown to fail when one is put in.

### RideLifecycle

| Code | Model |
|---|---|
| `rides` row, `ride_transitions` rows, events on the bus | `row[r]`, `log[r]`, `bus` |
| `CreateRideUseCase` + `create()` | `CreateRide` |
| `TransitionRideUseCase`, 1st await (`findById`) | `FindRide` |
| the aggregate's `transition`, 2nd await (re-read in the save) | `ApplyTransition`; `seen[w]` is what a conflict answer will name |
| conditional `UPDATE ... WHERE version = ?` + audit insert | `SaveRide`, or `SaveConflict` when no row matches |
| `eventBus.publish` after the commit | `PublishTransition` |
| `ExpireStaleRidesUseCase` | `StartSweep` (reads the clock), `FindExpired` (a batch, oldest deadline first), `ExpireNext` (per ride), `EndSweep` |
| process death | `CrashWorker`, `CrashSweep` |

`pc[w]` is the await request `w` is suspended at, `job[w]`, `agg[w]`, `prev[w]` and
`seen[w]` are its local memory. A database transaction is one step, placed at its
`UPDATE`: that takes the row lock, and the insert after it cannot be seen before
the commit. A request that the domain refuses is answered and changes nothing, so
it has no action. Time is a
small natural number; deadlines are clock plus a policy constant. A sweep's save
that fails for infrastructure reasons skips the one ride in the code; the model has only
`CrashSweep`, which gives up the rest of the batch as well. Either way a later sweep
finds the rides again.

### PaymentSettlement

| Code | Model |
|---|---|
| `payment_intents`, `settlement_attempts`, `payment_outbox` | `intent`, `attempts`, `outbox` |
| `CreatePaymentIntentUseCase`: lookup, then insert | `CreatePaymentIntent`, `InsertIntent` / `InsertRefused` |
| `InitiateSettlementUseCase` phase A (read, policy) | `InitiateSettlement` |
| provider call | `Charge` (answered), `ChargeError` (lost answer, the money moved or not) |
| phase B reload and aggregate's own checks | `AppendAttempt`, `ReplayAttempt`, `RejectAttempt` |
| phase B transaction: upsert of the attempts, outbox row | `SaveAttempts`, or `SaveRefused` by a unique index |
| process death | `Crash` |
| provider (external) | `results`, `captured`; `reported` is what phase A was told |

An attempt's primary key is `<intent>-attempt-<n>` with `n` computed from an
unlocked reload, and the upsert overwrites a row with that key: `Upserted`
models exactly this. `Compatible` models the unique indexes. The provider is
external; `captured[r]` counts what it took. `ProviderDedupes` says
whether it recognises a key it has seen; the code relies on nothing, so both
values are checked. `contested` and `disturbed` are history: the rides whose settlements have
overlapped, and the rides for which an answer of the provider was lost or a key was used a second
time (for another ride, or for the same one where the provider has no memory for keys). What the code
guarantees of money is stated of the other rides, whatever happens meanwhile to these. The outcome FAILED stands in the runs for PENDING and
UNKNOWN as well, which the policy treats alike: none of them blocks an attempt.

### DriverDispatch

| Code | Model |
|---|---|
| `drivers` row, `GeoIndexPort` | `row[d]`, `index` |
| `InMemoryDispatchProcessStore` | `store[c]` |
| `dispatchRide`: replay, search | `Replay`, `Begin` |
| candidate checks, selection | `CheckCandidate`, `NoEligibleDrivers` |
| reserve loop (load, reserve, conditional save, at most 3) | `ReserveLoad`, `ReserveRefused`, `ReserveSave`, `ReserveConflict` |
| ride to ASSIGNED, compensation | `Assign`, `AssignRefused`, `CompensateLoad`, `CompensateSave`, `CompensateConflict` |
| store the verdict | `MarkSucceeded`, `MarkFailed` |
| a failing statement | `StatementFails` |
| `DriverService`: register, availability, location; geo index upkeep | `RegisterDriver`, `UpdateAvailability`, `UpdateLocation`, `AppSave`, `AppConflict`, `AppIndex` |
| the ride reaches a terminal state | `RideEnds` |
| process restart | `Restart`: rows stay; index, store and sagas go |

Of a ride the saga sees only whether it waits, has a driver or is over:
`RideLifecycle` justifies the single-step transitions. Distance is abstracted to
a subset of the indexed drivers found in any order; a stale location is
a driver outside that subset.

### EventPipeline and FarePricing

| Code | Model |
|---|---|
| `fare_calculations`, `payment_intents`, `payment_outbox` | `fares`, `intents`, `outbox` |
| `initFareModule`, `initPaymentModule` | `FareSubscription`, `PaymentSubscription` |
| `TransitionRideUseCase` to COMPLETED, the event under `RideEventTypes` | `CompleteRide` |
| an event made by the creators of `event-types.ts` | `PublishCatalogued` (nothing calls them; bounded by `MaxEvents`) |
| `InProcessEventBus.publish` | `Publish`: looks up `HandlersOf(type)` and awaits each |
| `CalculateFareUseCase`, by request or handler | `RequestFare`; `FindFare`, `StoreFare`, `StoreFareRefused` |
| `CreatePaymentIntentUseCase`, by request or handler | `RequestIntent`; `FindIntent`, `StoreIntent` |
| `OutboxRepository` | `FetchUnpublished`, `MarkPublished`, `MarkFailedReads`, `MarkFailedWrites` |
| relay loop and broker (external) | `Deliver`, `DeliveryFails`, `RelayCrash`, `Handled` |
| a failing statement; death of the service | `StatementFails`, `Crash`; the events it loses go to `lost` |

`FarePricing` computes with whole metres and seconds. `Math.ceil` of a floating-point product
that is exact may come out one peso high, so `Fares(input)` is a set. `StoredFaresArePriced`
compares it with exact arithmetic: each of the two ceilings adds one peso at most.

### SeedEngine and SeedData

| Code | Model |
|---|---|
| tables and constraints | `synced`, `migrated` |
| seed rows of a table, `seed_integrity.hash`, `seed_meta.hash` | `rows[t]`, `integrity[s]`, `meta[s]`, each as the build that wrote it |
| `pg_try_advisory_lock`, unlock, loss of the session | `TryAcquire`, `LockContention`, `Release`, `SessionDrops` |
| `ensureSchema`, `runMigrations` | `Sync`, `RunMigration` |
| `runSeedEngine`: plan | `PlanSeeds` |
| `executeSeed`: begin, upserts, hash and commit | `BeginSeed`, `UpsertRows`, `CommitSeed`, or `CommitFails` |
| `executeSeedWithRetry` | `Retry`: SQLSTATE 40001, at most `MAX_RETRIES` |
| Umzug's log after the seed | `LogSeed` |
| other statements; death of the process | `StatementFails`, `Crash` |

A build of the repository has one version of the seed data; `Versions` are two of them. A
process waits in `waiting` while another has written the same rows, and is `stale` when that
one commits: PostgreSQL then refuses its upsert. Mutable tables take the newer rows, immutable
ones keep the older. `SeedData` has the rows themselves, with their keys, states and amounts;
`DriversFit`, `DriversServeRides`, `TrailFits`, `PaymentsFit` and `AuditsFit` are what the
modules expect of each other's rows.

### RequestGate and RouteTable

| Code | Model |
|---|---|
| users, sessions, the signed cookie | `account`, `session`, `cookie`; `granted` is history |
| `authMiddleware` | `Authenticate`, `AuthenticateFails`, `getSession`, `ScopesOf` |
| `registerRequestLifecycleHooks` | `LogRequest`, `Throw` (where `LifecycleHooks`) |
| parser, schemas, `requireScopes`, header and key checks | `Handle`, `Refusal`, `WellFormed`, `KeyAccepted` |
| `IdempotencyKey.create` | `IdempotencyKey`, `ValidKey` |
| the use case | `Execute`, `ExecuteFails`, with the `Outcomes` its `kind` allows |
| the read for the answer | `ReadBack`, `ReadBackFails` |
| `HTTP_STATUS_MAP` and the statuses routes choose by hand | `HTTP_STATUS_MAP`, `Only` |
| clients, account changes, the death of the server | `Send`, `ChangeGrant`, `SignIn`, `EndSession`, `CookieExpires`, `Crash` |

A use case is one step that comes to any of the results the code has: `refusals` are the tags
of a route's early returns, those of the ports it calls included (a dispatch passes on the ride's
NOT_FOUND), and the fare routes have UNEXPECTED_ERROR for a `createRideId` that throws. A dispatch that
has reserved a driver and is then refused by the ride answers a 4xx and may leave the reservation
behind, as the release is not certain: `Abandoned`, and such dispatches are in `leftovers`. What
overlapping use cases do to each other is the
subject of the other modules (the charge before a 409 is `PaymentSettlement`'s, overlapping
requests under one correlation id are `DriverDispatch`'s). A hook that has replied ends the
request. The `kind` of a route says what its use case makes of a request that was served before:
a new row (`fresh`), an update (`overwrite`), a conflict (`first`), the stored answer (`once`,
`keyed`), or the verdict of the process store (`saga`). `log` lists the requests that recorded
something, in order.

## 3. Runs

`pass` runs finish with no error; a `violation` run contradicts a sentence of the
repository (section 6).

| Run | Instance | Shows |
|---|---|---|
| `ride_lifecycle` | 1 ride, 1 driver, 2 requests at once, a sweep, clock to 2, 1 crash | audit trail, version, events, driver, timestamps, sweep's judgement; conflict answers; refinement of `RideStateMachine` |
| `ride_expiry` | 2 rides, 1 request at a time, batch of 1, clock to 1 | every overdue ride leaves in the end |
| `payment_settlement` | 1 ride, 4 keys, 2 amounts, 2 requests at once, 4 requests, 1 fault, provider without memory | what is recorded is true, announced, unique |
| `payment_charges` | 2 rides, 3 keys, 2 requests at once, 3 requests, 1 fault, provider with memory | what money can be taken twice or stay unrecorded for; refinement of `PaymentLedger` |
| `driver_dispatch` | 3 drivers, 2 rides, 2 sagas at once, 2 app requests, 1 fault | exclusion, ownership of reservations, true answers, complete index; refinement of `DriverAssignment` |
| `event_pipeline` | 1 ride, 2 workers, 2 relays with batches of 1, 2 catalogued events, 1 request, 2 faults | one fare and one answer, fares priced right, events that reach a handler take effect, the outbox tells deliveries |
| `seed_engine` | 2 processes, 2 builds, 3 commands, 1 fault | atomic and repeatable seeds, ledger behind the data, mutual exclusion, every command ends |
| `request_gate` | 2 users, 2 requests of one route, 1 disturbance, application without the lifecycle hooks | authorised effects, true statuses and what a refused dispatch leaves, retries, every request answered |
| `payment_double_charge`, `dispatch_double_assignment`, `fare_never`, `requests_hang` | as small as the counterexample allows | section 6 |

**Why the bounds are enough for what they are for.**

- *Two actors on one item.* Contention in this code is over one ride, one intent or one driver
  at a time. Two requests produce a winner and a loser; the sweep
  is a third actor. Rides do not interact except in a sweep's batch, which
  `ride_expiry` covers with two rides and batches of one.
- *Clock to 2, deadlines of one tick for DISPATCHING and two for ASSIGNED*: a ride can be
  dispatched, become overdue, be assigned late and become overdue again (120 s and 300 s
  in the code), with a sweep that started at any earlier time. `ride_expiry` has one
  tick for both, so that its clock of one tick reaches either deadline.
- *Four keys and four settlement requests* are one more than the policy's limit of three
  attempts, so the limit is met by the policy check of either phase.
- *`payment_charges`* needs two settlements that overlap on one ride and a third on the other, so that
  an undisturbed ride is there beside a disturbed one; with three keys and three requests keys are
  shared or not. The one fault is a crash or a lost answer at either.
- *Two dispatches, two app requests, one fault* give every pair of saga and app
  steps on the same driver, a conflict in both directions, and a
  compensation that fails. A third driver starts unregistered so that
  registration is met.
- *`event_pipeline`*: the events are the same one twice, or a completed ride and its fare; with
  the request that is three parties for one fare or one intent, of whom two overlap. Two faults
  are a relay that dies after a delivery and a broker error, or two errors that meet in one counter.
- *`seed_engine`*: three commands let one find what the other two left behind, in any order and
  overlapping. A retry after a serialization failure happens; running out of `MAX_RETRIES` needs
  four failures of one seed, and with two processes there are not that many.
- *`request_gate`*: two requests of one route suffice, because what is recorded through one
  route is looked up under that route's identity only. The operations are every route once,
  with the key in each spelling and place, a key and a correlation id used for two rides, each
  content type, a missing attribute, and a user with too little. One disturbance is a crash, a failing call, a change of account or session, or a cookie that expires.
- The bounds are constants that appear only as guards: `MaxTime`, `MaxCrashes`,
  `MaxRequests`, `MaxFaults`, `MaxUpdates`, `MaxDispatches`, `MaxEvents`, `MaxRuns`,
  `MaxDisturbances`. Numbers of ride versions
  and of audit entries need no bound: the table's paths are finite.

Symmetry is used in the safety runs over ids that the specification only
compares; the runs with a liveness property use none. Deadlock is checked in the ride runs, which
never stop since sweeps go on; elsewhere behaviours end when the requests, commands or events
are used up.

**Environment assumptions.** `driver_dispatch` sets `AppsLetGo = FALSE`: a
driver's app does not change the availability of a driver who is working. The
code does not enforce that; `dispatch_double_assignment` drops it and shows what
follows. Payments assume nothing of clients or faults, as the properties about money name what
they except. Without the exceptions they are false (`payment_double_charge`), because the money moves
in phase A and nothing is written before phase B; with them they say that nothing else can go wrong,
which a wrong lookup of a key or a policy that forgets a success breaks. `request_gate` has `LifecycleHooks = FALSE`: it is the
application with the authentication hook and the routes only, as `requests_hang` shows that with
the hooks of `buildApp` no request gets past them and nothing else could be asked.

## 4. Fairness

`OverdueRidesLeave` is checked under `ScheduledSpec`: weak fairness of
each worker's `Serve` (the event loop resumes a request whose await
has completed), of `Sweep` (a scheduler starts sweeps and a started sweep goes
on) and of `Tick` (the clock runs). Nothing is assumed of which request
wins, nor that anyone makes one. The scheduler is an assumption on the deployment:
`ExpireStaleRidesUseCase` is exported, but nothing in the repository calls it. Weak
fairness suffices since a sweep step, once enabled, is disabled only by a
sweep step.

The property is not obvious: batches are bounded and a sweep gives up on a
ride whose version has moved, so a ride could in principle be starved. It is not,
because the batch takes the oldest deadlines first and each conflict uses up a
transition of an acyclic table.

The other liveness properties assume only that what was started is served:

- `EventPipeline`: weak fairness of `Serve(w)`, as an await of the database that has completed is
  resumed. Clients and relays owe nothing. `CataloguedEventsTakeEffect` excepts events in `lost`, whose
  handling ended in an error or with the process, and `CompletedRidesGetAFare` does too.
- `SeedEngine`: weak fairness of `Proceed(p)`. `CommandsEnd` needs that whoever is waited for ends
  and that a retry starts with a new snapshot.
- `RequestGate`: weak fairness of `Proceed(q)`, for every request that reaches a living server.

## 5. Proofs

Eight modules prove, from the constants' assumptions, what follows for any number of requests,
actors, items and faults. Each runs along the same lines: an inductive invariant `Inv`, `Init =>
Inv`, one lemma per part of `Inv` or per action for `Inv /\ [Next]_vars => Inv'`, and the
properties as consequences. Each `Inv` was checked with TLC on the run's instance before it was proved.

| Module | Theorem | States |
|---|---|---|
| `RideLifecycleProofs` | `TypeCorrect`, `AuditTrailCorrect`, `PublicationCorrect` | `TypeOK`, `AuditTrailAccountsForRow`, `PublishedEventsWereCommitted` |
| `RideRefinementProofs` | `Implementation` | `ImplementsStateMachine` |
| `RideExpiryProofs` | `ExpiryCorrect`, `HistoryCorrect`, `ConflictCorrect` | `SweepExpiresOnlyOverdueRides`, `RowTellsItsHistory`, `ConflictNamesAStateSinceItsRead` |
| `PaymentSettlementProofs` | `TypeCorrect`, `UniquenessCorrect`, `OutboxCorrect` | `TypeOK`, `AttemptsAreUnique`, `OutboxAnnouncesRecords` |
| | `RecordsCorrect` (provider without memory for keys) | `RecordsAreTrue` |
| | `Implementation`, `ChargesCorrect`, `CapturesCorrect` | `ImplementsPaymentLedger`, `UndisturbedRidesAreChargedOnce`, `UndisturbedCapturesAreRecorded` |
| `DriverDispatchProofs` | `TypeCorrect`, `AnswersCorrect`, `ReservationsCorrect`, `IndexCorrect` | `TypeOK`, `AnswersAreTrue`, `ReservationsHaveAnOwner`, `IndexListsAvailableDrivers` |
| | `ExclusionCorrect`, `BusyCorrect`, `Implementation` (apps leave working drivers alone) | `NoDriverServesTwoRides`, `AssignedDriverIsBusy`, `ImplementsDriverAssignment` |
| `EventPipelineProofs` | `TypeCorrect`, `FaresCorrect`, `PricesCorrect`, `OutboxCorrect` | `TypeOK`, `FareAnswersAgree`, `StoredFaresArePriced`, `OutboxTellsDeliveries` |
| `SeedEngineProofs` | `TypeCorrect`, `VerificationCorrect`, `LedgerCorrect`, `DatabaseCorrect`, `WritersCorrect`, `ReexecutionCorrect` | `TypeOK`, `VerifiedSeedsAreApplied`, `LoggedSeedsWereCommitted`, `SeededDatabaseIsUsable`, `WritersExclude`, `ReexecutionChangesNothing` |
| `RequestGateProofs` | `TypeCorrect`, `EffectsCorrect`, `AnswersCorrect`, `OnceCorrect`, `RetriesCorrect` | `TypeOK`, `EffectsWereAuthorised`, `AnswersMatchEffects`, `RetriesActOnce`, `RetriesAreNotRefused` |

### Assumptions

The named `ASSUME`s of a module say of what kind its constants are: bounds are natural numbers, a
"none" value is none of the values it stands beside (`NoRowAssumption`), sets whose size is
used are finite (`RidesAssumption`, `RelaysAssumption`). A theorem that needs more says so itself:

- `~ProviderDedupes` (payments), for `RecordsCorrect` alone: it is about the provider of the repository,
  which has no memory for keys; one that has may answer a charge for one ride with the success of
  another. The other theorems about payments hold for either provider.
- `AppsLetGo = FALSE` (dispatch): `dispatch_double_assignment` is what happens otherwise. The other
  theorems about dispatch hold without it.

### Rides

None of the properties is inductive: a worker that saves
writes an aggregate computed two steps before, so one must know that the state
it started from is the state in the row. The compare-and-swap compares
versions, not states. The bridge is `Copy(r, v, s)`: *a copy of ride `r` with
version `v` and state `s` is not newer than the row, and is the row's
state if it is equally new.* The invariant `Inv` is the conjunction of

1. `TypeOK`;
2. `TrailInv(r)`: the audit trail of `r` is a legal path to its row, and its length
   is tied to the version;
3. `WorkerInv(w)`: what worker `w` holds before its save is a `Copy` with a
   legal move on top, and after the save is an entry of the audit trail;
4. `SweepInv`: every snapshot in the batch is a `Copy` of a ride that exists;
5. `PublishedEventsWereCommitted`.

A commit keeps `Copy` for everyone else since it strictly raises the version
(`v = row.version` becomes `v < row.version`), and it extends the trail by one
legal entry since the `Copy` of the committer was equally new. `CommitGrows` states what a commit
does to the row and the trail; `WorkerKept`, `SweepKept` and `BusKept` that the others'
parts of the invariant survive it.

The *refinement* follows from `Inv`: the mapping keeps a row's state and the states its
audit trail entered, a commit on a `Copy` of equal version starts at the row's own state
(`CommitMoves`), and every other step leaves both tables alone.

*Expiry* needs more of a snapshot than its state. `SnapshotInv` adds that what the sweep
holds was overdue by a clock that has not gone back, and that a snapshot with the row's
version equals the row, deadline included. It is kept because a row that exists never
changes without a higher version (`RowsRise`).

*History* needs the same of requests, and an order of times. `HistoryInv` says that each row tells
its trail (`Tells`), that no timestamp is ahead of the clock and a deadline comes after the request
(`Dated`), that what a worker is about to save is *one transition of the row as it is, at a time
after all the row's times*, if its version fits (`HeldInv`), and that the sweep's snapshots were due by
the sweep's own clock (`JudgedInv`). The last is what puts the end of an expired ride after its
request: the sweep stamps it with a clock it read before it read the row. `HeldInv` also has the
entry of the trail that a conflict answer names.

### Payments

Phase B writes a copy of the attempts that may be old, and the upsert replaces what others
wrote. `WorkerInv` says that nothing in a copy is unheard of: all of it was reported, all but the new
attempt is announced, and the new one is announced by the same transaction. Both last, so
it does not matter whose copy wins (`UpsertedRows` says what a row can be after an upsert). The unique
indexes (`Compatible`) give the rest.

The *refinement* follows rides that no overlap has touched. On such a ride a settlement is `Alone`, so its
copy is current and the policy still allows what it allowed (`CurrentInv`): its save appends, which is the
ledger's `Settle`. A settlement that starts while another is at work contests the ride (`Contest`).
From then on a save is an `Overwrite`: no copy is more than one attempt longer than the rows
(`CopyBound`), so no row is lost and at most one is new, and the indexes leave keys and success unique.

*Money.* `KeysInv` says that an undisturbed ride shares no key with another. `CleanInv` says of an
undisturbed ride that the provider has seen every key that was reported for it (`ReportsKnown`), that one
without memory is asked once under each (`FirstUse`), that it was charged once at most, and that what was
taken is recorded or is a success in the hands of a worker under a key not yet recorded (`Accounted`,
`FreshAt`). A second charge would need a policy check that passed after the first: the one settlement
at work is alone, and what it brings is not refused by an index, since all rows under its key are its own.

### Dispatch and drivers

As with rides, a copy in hand is not ahead of its row and, if it fits the row's version, the row is
what it was made from (`SagaInv`, `AppInv`). `RideInv` and `StoreInv` give a ride one driver, which the
process store names; `ReservedInv` gives a reservation its owner; `IndexInv` says that a driver will be
listed *once the request of his app is through*, as the row is written before the index.
`WorkInv` is the part that needs apps to leave working drivers alone: a driver with a ride or a saga is
BUSY, for one of them only, and an app whose save would go through does not change that.

The *refinement* maps the drivers held to the pairs of ride and driver of the sagas that have reserved
and not yet assigned or let go (`Holding`). A save of a reservation is `Hold`: the row was AVAILABLE,
so by `WorkInv` no saga holds the driver and no ride has him. `Assign` takes away one pair
and no more, because no second saga holds that driver. A compensation that saves, one that gives up
and a restart all let go, so a driver who is BUSY for nobody is free in the abstract.

### Events, fares and outbox

`FaresInv` needs only the unique index; `PricesCorrect` needs that a ceiling is at most one peso over
(`DistanceComponent`, `TimeComponent`), whichever way a floating-point product falls.
The outbox counts sets of relays: `DeliveryInv` says that before a row is marked each delivery
is a fault or belongs to a relay about to mark it, and after that only relays that fetched the row
earlier may deliver it. `RelayInv` keeps a counter read earlier from overstating the failures.

### Seeds

`ProcInv` is the order of a command (schema, migrations, seeds, ledger) as seen in the database, and
that a process past its lock holds it unless its session was lost. `HashInv` and `LedgerInv` need no lock: rows and
hash are one transaction, and two transactions do not write the same seed at once
(`OneWriterPerSeed`). `DatabaseCorrect` also proves the facts about the seed rows of `SeedData` themselves.

### Requests

Grants are only ever added to `granted`, so a request carries the rights of its session to its use
case (`AccountInv`, `RequestInv`), and the log only grows. Most steps are *quiet*: they move one request and record
nothing (`Quiet`, `QuietFacts`), so the properties about the log are argued for the use case alone, whose
possible results `OutcomeFacts` lists. The sixteen routes are shown to be routes once (`Routes`), and no
proof looks at one again unless the property names it. `EffectInv` adds what a success says,
that a dispatch remembered as successful was recorded under its correlation id, and that a reservation
is left behind by refused dispatches only.

### What stays with TLC

Liveness under fairness, and ENABLED, are out of the prover's reach: `OverdueRidesLeave`, `CataloguedEventsTakeEffect`,
`CommandsEnd` and `EveryRequestIsAnswered` are model-checked only, and so are the violations of section 6. Every
other property of a passing run is a theorem. No module uses a RECURSIVE operator.

## 6. Where the code and its documents disagree

| Run | The repository says | The code does |
|---|---|---|
| `payment_double_charge` | repeated initiation "MUST NOT produce multiple successful charges" (`PRD.md:225`, also `README.md:13`) | two overlapping settlements with different keys both charge |
| `dispatch_double_assignment` | `reserve` has an "Already reserved check" (`driver.aggregate.ts:215`), BUSY ends when the ride does (`driver-states.ts:34`) | the reservation is not persisted; once the app says AVAILABLE the driver is assigned again |
| `fare_never` | the handler "automatically calculates fare when a ride transitions to COMPLETED state" (`fare-on-ride-completed.ts:4-5`) | rides publish `RideStateChanged`, the handler is subscribed to `RIDE_STATE_CHANGED`: no fare, for ever |
| `requests_hang` | `expect(response.statusCode).toBe(201)` of the application `buildApp` makes (`drivers.integration.test.ts:265`) | its `onRequest` hook is a plain function that returns no promise and calls no `done` (`app.ts:179-188`): the request stops there; `onError` (`app.ts:221`) likewise |

Paths are under `src/`, `src/src/` and `src/src/modules/`.

Further disagreements, without a run of their own:

- *Conflict answers.* `PRD.md:166` promises "the current authoritative state"; the save names the
  state it re-read before the conditional `UPDATE` failed, so it may be the one the winner has just
  left. `ConflictNamesAStateSinceItsRead` is what does hold.
- *Deadlines.* The comment on `Ride.transition` (`ride.aggregate.ts:174-177`) says it enforces the
  expiration policy; it sets deadlines and never reads one, so an overdue ride that no sweep has met
  moves on.
- *Append-only attempts.* `payment.repository.ts:73` says "append-only"; two settlements that reload
  before either commits compute the same number, and the upsert replaces a row. Until settlements of a ride
  overlap `ImplementsPaymentLedger` shows it append-only, and after that what an overwrite may do.
- *Replay of a dispatch.* `dispatch-process-store.port.ts:5` promises deterministic replay; an
  overlapping loser overwrites the stored success with FAILED. And an id used again for another ride is
  answered with the first ride's driver (`dispatch.process-manager.ts:150-159` compares no ride):
  `AnswersMatchEffects` says what a dispatch's success rests on, which is its correlation id.
- *Idempotent writes.* `README.md:16` says "all writes are idempotent"; `POST /rides` makes a new ride
  each time, and after a failed read-back (`ride.jsonapi-routes.ts:244`) the client has a 500 for a
  ride that exists.
- *One place for statuses.* `http-error-mapper.ts:17-20` calls itself the only place where HTTP codes
  appear; rides, drivers and fares choose some by hand, and answer 500 where their document
  says 503, or 404 and 500 where it says 400 (`fare.jsonapi-routes.ts:119-125`, `172-178`).
- *Media types.* `application/vnd.api+json; ext=...` passes the parser, and `assertJsonApiRequestHeaders`
  throws a plain `Error`, which is a 500 except at dispatch.
- *Default scopes.* `authScopes` defaults to the empty string, which is a string, so a new account has
  no scopes rather than those of its role (`better-auth.ts:64-69`, `jwt.middleware.ts:130-137`).
- *Seed rows.* The seeded fare has `pricing_version` "2026-01-01" (`seed-data.ts`), which is not of the form
  `pricing-version.ts` reads, so reading that fare fails; its components do not follow the price list;
  terminal rides have no `completed_at`; versions count from 1 where the aggregate starts at 0. After
  a replay with other data the immutable fare keeps its amount while the mutable intent takes
  the new one, and `seed:verify` reports OK.

## 7. Not modelled

- *Reads* (get, list, receipt, status, evidence): they change nothing.
- *A provider's late answer* to a PENDING attempt: no code receives one. *A relay loop*: the code has
  only its operations; loop and broker are external in `EventPipeline`.
- *Global handlers* of the bus (`subscribeAll`) are mapped with `HandlersOf`, and nothing registers one.
- *Commands that only read* (`seed:plan`, `seed:status`, `seed:verify` as such, `doctor`): `VerifyStatus` and
  `Pending` are the judgements they print. What migrations do to rows that exist.
- *Dispatch*: the audit log, the `DriverDispatched` event, failing exits that
  touch only the process store, the location history table, a lost commit reply of the
  assignment, one correlation id used for two rides by sagas that overlap (`RequestGate` has such
  requests one after the other), overlapping requests of one driver's app, and the driver a caller names in the transition route
  directly (`RideLifecycle` has it; in `DriverDispatch` only sagas assign).
- *HTTP*: documents, rate limiting, health, docs and metrics routes, sign-up and sign-in as requests of
  their own; validation is one bit (`WellFormed`). *Logging, redaction, metrics, configuration,
  bootstrap and shutdown*: no state the properties are about. The tables of MIME types, header names
  and status codes under `shared/core/constants` are generated constants.
- *Old adapters* beside the wired ones.

## 8. Plan

Done, in this order: rides (detailed, abstract), payments (detailed, abstract), dispatch with
drivers (detailed, abstract), fares with the event pipeline and the outbox, seeds, requests; and for each of them the proofs
of what its runs check, liveness apart.

Left to model: a lost commit reply of `Assign` in dispatch, correlation ids used for another
ride by overlapping sagas, overlapping requests of one driver's app.

Theorems left: facts about single operators worth a name of their own (the price
list, the upsert, the batches of `findExpired`).
