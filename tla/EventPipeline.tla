---------------------------- MODULE EventPipeline ----------------------------
(***************************************************************************)
(* What follows a completed ride: the in-process event bus, the fare of    *)
(* the ride, its payment intent, and the outbox that carries the news of   *)
(* the intent out of the service.                                          *)
(*                                                                         *)
(* One process serves requests and runs the handlers of the bus.  It is    *)
(* suspended between a lookup and the insert that follows it, and a crash  *)
(* ends everything it was doing.  A relay, which is outside the            *)
(* repository, drains the outbox through the operations of its port.       *)
(***************************************************************************)
EXTENDS Integers, FiniteSets, FarePricing

CONSTANTS Rides,
          Workers,        \* requests and publications that overlap
          Relays,         \* processes that drain the outbox
          FareRequests,   \* inputs of POST /fares
          Amounts,        \* amounts of POST /payment-intents
          NoAmount,       \* no payment intent
          NoRow,          \* no outbox row
          BatchSize,      \* limit the relay passes to fetchUnpublished
          MaxEvents,      \* bound: events of event-types.ts that reach the bus
          MaxRequests,    \* bound: fare and intent requests
          MaxFaults       \* bound: failing statements, broker errors and crashes

\* The inputs fareOnRideCompleted passes: a base fare and placeholders.
StandardFare == [base |-> 3500, metres |-> 0, seconds |-> 0, minimum |-> 5000]

ASSUME FareRequestsAssumption == FareRequests \subseteq FareInputs
ASSUME NoAmountAssumption == NoAmount \notin Nat /\ Amounts \subseteq Nat
ASSUME RelaysAssumption == IsFiniteSet(Relays)
ASSUME PipelineBoundsAssumption == /\ BatchSize \in Nat \ {0}
                                   /\ MaxEvents \in Nat
                                   /\ MaxRequests \in Nat
                                   /\ MaxFaults \in Nat

VARIABLES completed,  \* rides whose transition to COMPLETED is committed
          fares,      \* rows of fare_calculations
          intents,    \* intents[r]: amount of the payment intent of ride r
          outbox,     \* outbox[r]: the row that announces the intent of ride r
          pc,         \* pc[w]: the await worker w is suspended at
          job,        \* job[w]: what worker w does
          relay,      \* relay[q]: the batch relay q has in hand and where it is
          answers,    \* fares shown to clients and handlers
          delivered,  \* delivered[r]: how often the broker took the row of ride r
          failures,   \* failures[r]: how often a relay recorded a failure for it
          lost,       \* events whose handling ended in an error or with the process
          events, requests, faults

vars == <<completed, fares, intents, outbox, pc, job, relay, answers, delivered,
          failures, lost, events, requests, faults>>
outboxVars == <<outbox, relay, delivered, failures>>
bounds == <<events, requests, faults>>

\* The two spellings of one name: the rides module publishes the first, the catalogue of
\* event types has the second.
RideEventTypes == {"RideStateChanged"}
CatalogueEventTypes == {"RIDE_STATE_CHANGED", "FARE_CALCULATED"}

\* Handlers the fares and the payments module subscribe when they are initialised.
FareSubscription == {<<"RIDE_STATE_CHANGED", "fareOnRideCompleted">>}
PaymentSubscription == {<<"FARE_CALCULATED", "paymentOnFareCalculated">>}

NoJob == [type |-> "none"]
FareJobs == [type : {"fare"} \cup RideEventTypes \cup CatalogueEventTypes,
             ride : Rides, input : FareRequests \cup {StandardFare}]
IntentJobs == [type : {"intent", "FARE_CALCULATED"}, ride : Rides, amount : Nat]

OutboxRows == [published : BOOLEAN, attempts : Nat]
ASSUME NoRowAssumption == NoRow \notin OutboxRows

RelayStates == [at : {"idle", "publishing", "delivered", "failed", "marking"},
                batch : SUBSET Rides, row : Rides \cup {NoRow}, read : Nat]
IdleRelay == [at |-> "idle", batch |-> {}, row |-> NoRow, read |-> 0]

HasFare(r) == \E f \in fares : f.ride = r
FareOf(r) == CHOOSE f \in fares : f.ride = r

Init == /\ completed = {}
        /\ fares = {}
        /\ intents = [r \in Rides |-> NoAmount]
        /\ outbox = [r \in Rides |-> NoRow]
        /\ pc = [w \in Workers |-> "idle"]
        /\ job = [w \in Workers |-> NoJob]
        /\ relay = [q \in Relays |-> IdleRelay]
        /\ answers = {}
        /\ delivered = [r \in Rides |-> 0]
        /\ failures = [r \in Rides |-> 0]
        /\ lost = {}
        /\ events = 0 /\ requests = 0 /\ faults = 0

Goto(w, label) == pc' = [pc EXCEPT ![w] = label] /\ UNCHANGED job
Start(w, label, j) == pc' = [pc EXCEPT ![w] = label] /\ job' = [job EXCEPT ![w] = j]
Finish(w) == pc' = [pc EXCEPT ![w] = "idle"] /\ job' = [job EXCEPT ![w] = NoJob]

\* The event a worker handles, if it handles one.
EventOf(w) == IF job[w].type \in {"none", "fare", "intent"} THEN {}
              ELSE {[type |-> job[w].type, ride |-> job[w].ride]}

-----------------------------------------------------------------------------
(* The event bus.                                                          *)

\* The transition to COMPLETED commits; its event is published afterwards.
CompleteRide(w, r) ==
    /\ pc[w] = "idle"
    /\ r \notin completed
    /\ completed' = completed \cup {r}
    /\ \E t \in RideEventTypes :
          Start(w, "publishing", [type |-> t, ride |-> r, input |-> StandardFare])
    /\ UNCHANGED <<fares, intents, outboxVars, answers, lost, bounds>>

\* Someone publishes an event made by the creators of event-types.ts: of a completed ride,
\* or of a stored fare.  The same event may be published again.
PublishCatalogued(w, r) ==
    /\ pc[w] = "idle"
    /\ events < MaxEvents
    /\ events' = events + 1
    /\ \/ /\ r \in completed
          /\ Start(w, "publishing",
                   [type |-> "RIDE_STATE_CHANGED", ride |-> r, input |-> StandardFare])
       \/ /\ HasFare(r)
          /\ Start(w, "publishing",
                   [type |-> "FARE_CALCULATED", ride |-> r, amount |-> FareOf(r).amount.total])
    /\ UNCHANGED <<completed, fares, intents, outboxVars, answers, lost, requests, faults>>

\* Mutant of HandlersOf: the payments module is not initialised.
FareHandlersOf(t) == {h \in {"fareOnRideCompleted", "paymentOnFareCalculated"} :
                         <<t, h>> \in FareSubscription}

\* The handlers the bus has under an event type.
HandlersOf(t) == {h \in {"fareOnRideCompleted", "paymentOnFareCalculated"} :
                     <<t, h>> \in FareSubscription \cup PaymentSubscription}

\* publish looks the handlers up and awaits each; no event type has two.
Publish(w) ==
    /\ pc[w] = "publishing"
    /\ \/ "fareOnRideCompleted" \in HandlersOf(job[w].type) /\ Goto(w, "findingFare")
       \/ "paymentOnFareCalculated" \in HandlersOf(job[w].type) /\ Goto(w, "findingIntent")
       \/ HandlersOf(job[w].type) = {} /\ Finish(w)
    /\ UNCHANGED <<completed, fares, intents, outboxVars, answers, lost, bounds>>

-----------------------------------------------------------------------------
(* Fares.                                                                  *)

RequestFare(w, r, input) ==
    /\ pc[w] = "idle"
    /\ requests < MaxRequests
    /\ requests' = requests + 1
    /\ Start(w, "findingFare", [type |-> "fare", ride |-> r, input |-> input])
    /\ UNCHANGED <<completed, fares, intents, outboxVars, answers, lost, events, faults>>

\* findByRideId finds a fare and answers it, or the insert is next.
FindFare(w) ==
    LET r == job[w].ride IN
    /\ pc[w] = "findingFare"
    /\ IF HasFare(r)
       THEN answers' = answers \cup {[ride |-> r, amount |-> FareOf(r).amount]} /\ Finish(w)
       ELSE Goto(w, "storingFare") /\ UNCHANGED answers
    /\ UNCHANGED <<completed, fares, intents, outboxVars, lost, bounds>>

\* Mutant of StoreFare: without the unique index on ride_id.
StoreFareAgain(w) ==
    LET r == job[w].ride IN
    /\ pc[w] = "storingFare"
    /\ \E f \in Fares(job[w].input) :
          /\ fares' = fares \cup {[ride |-> r, input |-> job[w].input, base |-> f.base,
                                   distance |-> f.distance, time |-> f.time,
                                   amount |-> f.amount]}
          /\ answers' = answers \cup {[ride |-> r, amount |-> f.amount]}
    /\ Finish(w)
    /\ UNCHANGED <<completed, intents, outboxVars, lost, bounds>>

\* The fare is computed and inserted.
StoreFare(w) ==
    LET r == job[w].ride IN
    /\ pc[w] = "storingFare"
    /\ ~HasFare(r)
    /\ \E f \in Fares(job[w].input) :
          /\ fares' = fares \cup {[ride |-> r, input |-> job[w].input, base |-> f.base,
                                   distance |-> f.distance, time |-> f.time,
                                   amount |-> f.amount]}
          /\ answers' = answers \cup {[ride |-> r, amount |-> f.amount]}
    /\ Finish(w)
    /\ UNCHANGED <<completed, intents, outboxVars, lost, bounds>>

\* The unique index refuses the insert: an error answer, or a handler that says nothing.
StoreFareRefused(w) ==
    /\ pc[w] = "storingFare"
    /\ HasFare(job[w].ride)
    /\ Finish(w)
    /\ UNCHANGED <<completed, fares, intents, outboxVars, answers, lost, bounds>>

-----------------------------------------------------------------------------
(* Payment intents.                                                        *)

RequestIntent(w, r, m) ==
    /\ pc[w] = "idle"
    /\ requests < MaxRequests
    /\ requests' = requests + 1
    /\ Start(w, "findingIntent", [type |-> "intent", ride |-> r, amount |-> m])
    /\ UNCHANGED <<completed, fares, intents, outboxVars, answers, lost, events, faults>>

\* An existing intent is answered, or the insert is next.
FindIntent(w) ==
    /\ pc[w] = "findingIntent"
    /\ IF intents[job[w].ride] # NoAmount THEN Finish(w) ELSE Goto(w, "storingIntent")
    /\ UNCHANGED <<completed, fares, intents, outboxVars, answers, lost, bounds>>

\* Mutant of NewOutboxRow: the row counts as published.
PublishedOutboxRow == [published |-> TRUE, attempts |-> 0]

\* Mutant of NewOutboxRow: the counter has no value.
OutboxRowWithoutCounter == [published |-> FALSE, attempts |-> NoAmount]

\* enqueue
NewOutboxRow == [published |-> FALSE, attempts |-> 0]

\* The intent and its outbox row are committed together, or the unique index refuses both.
StoreIntent(w) ==
    LET r == job[w].ride IN
    /\ pc[w] = "storingIntent"
    /\ IF intents[r] = NoAmount
       THEN /\ intents' = [intents EXCEPT ![r] = job[w].amount]
            /\ outbox' = [outbox EXCEPT ![r] = NewOutboxRow]
       ELSE UNCHANGED <<intents, outbox>>
    /\ Finish(w)
    /\ UNCHANGED <<completed, fares, relay, delivered, failures, answers, lost, bounds>>

-----------------------------------------------------------------------------
(* Failures of the service.                                                *)

\* A statement fails: a client is told, a handler logs the error and the bus goes on.
StatementFails(w) ==
    /\ pc[w] \in {"findingFare", "storingFare", "findingIntent", "storingIntent"}
    /\ faults < MaxFaults
    /\ faults' = faults + 1
    /\ lost' = lost \cup EventOf(w)
    /\ Finish(w)
    /\ UNCHANGED <<completed, fares, intents, outboxVars, answers, events, requests>>

\* The process dies: the bus keeps nothing.
Crash ==
    /\ faults < MaxFaults
    /\ faults' = faults + 1
    /\ lost' = lost \cup UNION {EventOf(w) : w \in Workers}
    /\ pc' = [w \in Workers |-> "idle"]
    /\ job' = [w \in Workers |-> NoJob]
    /\ UNCHANGED <<completed, fares, intents, outboxVars, answers, events, requests>>

-----------------------------------------------------------------------------
(* The outbox and its relay.                                               *)

\* Mutant of Unpublished: published rows are fetched too.
EveryRow == {r \in Rides : outbox[r] # NoRow}

Unpublished == {r \in Rides : outbox[r] # NoRow /\ ~outbox[r].published}

\* fetchUnpublished(BatchSize).  Creation times are taken before the commit, so the oldest
\* rows may be any of those that are visible.
FetchUnpublished(q) ==
    /\ relay[q].at = "idle"
    /\ \E batch \in SUBSET Unpublished :
          /\ batch # {}
          /\ Cardinality(batch) <= BatchSize
          /\ Cardinality(batch) = BatchSize \/ batch = Unpublished
          /\ relay' = [relay EXCEPT ![q] = [at |-> "publishing", batch |-> batch, row |-> NoRow,
                                              read |-> 0]]
    /\ UNCHANGED <<completed, fares, intents, outbox, pc, job, answers, delivered, failures,
                   lost, bounds>>

\* Relay q is done with row r of its batch.
Handled(q, r) ==
    LET rest == relay[q].batch \ {r} IN
    relay' = [relay EXCEPT ![q] = IF rest = {} THEN IdleRelay
                                  ELSE [at |-> "publishing", batch |-> rest, row |-> NoRow,
                                        read |-> 0]]

\* The broker takes a row of the batch.
Deliver(q, r) ==
    /\ relay[q].at = "publishing" /\ r \in relay[q].batch
    /\ delivered' = [delivered EXCEPT ![r] = @ + 1]
    /\ relay' = [relay EXCEPT ![q].at = "delivered", ![q].row = r]
    /\ UNCHANGED <<completed, fares, intents, outbox, pc, job, answers, failures, lost, bounds>>

\* The broker reports an error, whether or not it took the row.
DeliveryFails(q, r) ==
    /\ relay[q].at = "publishing" /\ r \in relay[q].batch
    /\ faults < MaxFaults
    /\ faults' = faults + 1
    /\ \/ delivered' = [delivered EXCEPT ![r] = @ + 1]
       \/ UNCHANGED delivered
    /\ relay' = [relay EXCEPT ![q].at = "failed", ![q].row = r]
    /\ UNCHANGED <<completed, fares, intents, outbox, pc, job, answers, failures, lost,
                   events, requests>>

MarkPublished(q) ==
    /\ relay[q].at = "delivered"
    /\ outbox' = [outbox EXCEPT ![relay[q].row].published = TRUE]
    /\ Handled(q, relay[q].row)
    /\ UNCHANGED <<completed, fares, intents, pc, job, answers, delivered, failures, lost,
                   bounds>>

\* markFailed finds the row ...
MarkFailedReads(q) ==
    /\ relay[q].at = "failed"
    /\ relay' = [relay EXCEPT ![q].at = "marking", ![q].read = outbox[relay[q].row].attempts]
    /\ UNCHANGED <<completed, fares, intents, outbox, pc, job, answers, delivered, failures,
                   lost, bounds>>

\* Mutant of MarkFailedWrites: the attempts are written back as they were read.
MarkFailedWritesBack(q) ==
    /\ relay[q].at = "marking"
    /\ outbox' = [outbox EXCEPT ![relay[q].row].attempts = relay[q].read]
    /\ failures' = [failures EXCEPT ![relay[q].row] = @ + 1]
    /\ Handled(q, relay[q].row)
    /\ UNCHANGED <<completed, fares, intents, pc, job, answers, delivered, lost, bounds>>

\* ... and writes one attempt more than it read.
MarkFailedWrites(q) ==
    /\ relay[q].at = "marking"
    /\ outbox' = [outbox EXCEPT ![relay[q].row].attempts = relay[q].read + 1]
    /\ failures' = [failures EXCEPT ![relay[q].row] = @ + 1]
    /\ Handled(q, relay[q].row)
    /\ UNCHANGED <<completed, fares, intents, pc, job, answers, delivered, lost, bounds>>

\* A relay dies and starts again.
RelayCrash(q) ==
    /\ relay[q].at # "idle"
    /\ faults < MaxFaults
    /\ faults' = faults + 1
    /\ relay' = [relay EXCEPT ![q] = IdleRelay]
    /\ UNCHANGED <<completed, fares, intents, outbox, pc, job, answers, delivered, failures,
                   lost, events, requests>>

-----------------------------------------------------------------------------

Request(w) == \E r \in Rides : \/ CompleteRide(w, r)
                               \/ PublishCatalogued(w, r)
                               \/ \E input \in FareRequests : RequestFare(w, r, input)
                               \/ \E m \in Amounts : RequestIntent(w, r, m)

Serve(w) == \/ Publish(w)
            \/ FindFare(w) \/ StoreFare(w) \/ StoreFareRefused(w)
            \/ FindIntent(w) \/ StoreIntent(w)

Drain(q) == \/ FetchUnpublished(q)
            \/ \E r \in Rides : Deliver(q, r) \/ DeliveryFails(q, r)
            \/ MarkPublished(q) \/ MarkFailedReads(q) \/ MarkFailedWrites(q)
            \/ RelayCrash(q)

Next == \/ \E w \in Workers : Request(w) \/ Serve(w) \/ StatementFails(w)
        \/ \E q \in Relays : Drain(q)
        \/ Crash

\* The event loop resumes every await that has an answer; clients and relays owe nothing.
Spec == Init /\ [][Next]_vars /\ \A w \in Workers : WF_vars(Serve(w))

-----------------------------------------------------------------------------
(* Properties.                                                             *)

\* Every variable holds a value of the kind the code keeps in it.
TypeOK ==
    /\ completed \subseteq Rides
    /\ \A f \in fares : /\ f.ride \in Rides /\ f.input \in FareRequests \cup {StandardFare}
                        /\ f.base \in Nat /\ f.distance \in Nat /\ f.time \in Nat
                        /\ f.amount \in [total : Nat, minimumApplied : BOOLEAN]
    /\ intents \in [Rides -> Nat \cup {NoAmount}]
    /\ outbox \in [Rides -> OutboxRows \cup {NoRow}]
    /\ pc \in [Workers -> {"idle", "publishing", "findingFare", "storingFare",
                           "findingIntent", "storingIntent"}]
    /\ job \in [Workers -> FareJobs \cup IntentJobs \cup {NoJob}]
    /\ relay \in [Relays -> RelayStates]
    /\ delivered \in [Rides -> Nat] /\ failures \in [Rides -> Nat]
    /\ events \in 0..MaxEvents /\ requests \in 0..MaxRequests /\ faults \in 0..MaxFaults

\* Whoever asks for the fare of a ride is told the same amount: the event handler and
\* overlapping requests with other inputs get the stored fare or an error, never another one.
FareAnswersAgree ==
    \A a \in answers : \A f \in fares : a.ride = f.ride => a.amount = f.amount

\* A stored fare covers what distance and time cost, exceeds it by one peso at most for
\* each of the two roundings, is not below the minimum it was asked with, and is flagged
\* exactly if the minimum raised it.
StoredFaresArePriced ==
    \A f \in fares :
        LET i == f.input
            exact60000 == 60000 * i.base + 60 * PricePerKm * i.metres
                              + 1000 * PricePerMinute * i.seconds
            raw == f.base + f.distance + f.time
        IN /\ exact60000 <= 60000 * raw
           /\ 60000 * raw <= exact60000 + 2 * 60000
           /\ f.amount.total >= i.minimum
           /\ f.amount.total # raw => f.amount.total = i.minimum
           /\ f.amount.minimumApplied <=> f.amount.total > raw

\* An intent and its outbox row exist together, and the row is marked published only after
\* the broker took it, whatever fails or dies in between.
MarkedRowsWereDelivered ==
    \A r \in Rides : /\ intents[r] = NoAmount <=> outbox[r] = NoRow
                     /\ outbox[r] # NoRow /\ outbox[r].published => delivered[r] > 0

\* The broker gets a row at most once from each relay, and once more for each fault:
\* a relay that comes back does not deliver what was already marked.
DeliveriesAreBounded ==
    \A r \in Rides : delivered[r] <= Cardinality(Relays) + faults

\* A row whose publication failed shows it, and never shows more failures than there were,
\* though two relays that read the same counter lose an increment.
FailuresAreSeen ==
    \A r \in Rides : outbox[r] # NoRow =>
        /\ failures[r] > 0 => outbox[r].attempts > 0
        /\ outbox[r].attempts <= failures[r]

\* The columns of an outbox row tell what became of its event, and its deliveries are few,
\* through relays that overlap, fail and die between the broker's answer and the update.
OutboxTellsDeliveries ==
    MarkedRowsWereDelivered /\ DeliveriesAreBounded /\ FailuresAreSeen

\* An event of the catalogue that is on the bus has its effect (the fare, or the intent),
\* unless the handling of one like it ended in a logged error or with the process.
CataloguedEventsTakeEffect ==
    \A r \in Rides :
        /\ (\E w \in Workers : [type |-> "RIDE_STATE_CHANGED", ride |-> r] \in EventOf(w))
              ~> (HasFare(r) \/ [type |-> "RIDE_STATE_CHANGED", ride |-> r] \in lost)
        /\ (\E w \in Workers : [type |-> "FARE_CALCULATED", ride |-> r] \in EventOf(w))
              ~> (intents[r] # NoAmount \/ [type |-> "FARE_CALCULATED", ride |-> r] \in lost)

\* A completed ride gets its fare, unless the handling of its event failed.  "automatically
\* calculates fare when a ride transitions to COMPLETED state" (fare-on-ride-completed.ts).
CompletedRidesGetAFare ==
    \A r \in Rides : (r \in completed) ~> (HasFare(r) \/ \E e \in lost : e.ride = r)
=============================================================================
