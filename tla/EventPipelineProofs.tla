------------------------- MODULE EventPipelineProofs -------------------------
(***************************************************************************)
(* Proofs about EventPipeline and FarePricing for every set of rides,      *)
(* workers and fare requests, every finite set of relays, and any number   *)
(* of events, requests and faults.                                         *)
(***************************************************************************)
EXTENDS EventPipeline, FiniteSetTheorems, TLAPS

\* A worker has the job its handler is for.
WorkerInv(w) ==
    /\ pc[w] = "publishing" =>
           \/ job[w] \in FareJobs /\ job[w].type \in {"RideStateChanged", "RIDE_STATE_CHANGED"}
           \/ job[w] \in IntentJobs /\ job[w].type = "FARE_CALCULATED"
    /\ pc[w] \in {"findingFare", "storingFare"} => job[w] \in FareJobs
    /\ pc[w] \in {"findingIntent", "storingIntent"} => job[w] \in IntentJobs

\* A ride has one fare, and every answer was a fare that is stored.
FaresInv == /\ \A f, g \in fares : f.ride = g.ride => f = g
            /\ \A a \in answers : \E f \in fares : f.ride = a.ride /\ f.amount = a.amount

\* What relay q has in hand are rows that exist; it marks what the broker took, and counts on
\* from a counter that does not overstate the failures.
RelayInv(q) ==
    LET s == relay[q]
    IN /\ s.at \in {"delivered", "failed", "marking"} => s.row \in s.batch
       /\ \A r \in s.batch : outbox[r] # NoRow
       /\ s.at = "delivered" => delivered[s.row] > 0
       /\ s.at = "marking" => s.read <= failures[s.row]

\* The relays that have delivered the row of ride r and not marked it yet, and those that
\* may still deliver it.
Delivering(r) == {q \in Relays : relay[q].at = "delivered" /\ relay[q].row = r}
MayDeliver(r) == {q \in Relays : /\ r \in relay[q].batch
                                 /\ relay[q].at = "publishing" \/ relay[q].row # r}

Published(r) == outbox[r] # NoRow /\ outbox[r].published

\* Until a row is marked, each delivery is a fault's or is about to be marked.  Once it is
\* marked, only the relays that had fetched it before may deliver it.
DeliveryInv(r) ==
    /\ ~Published(r) => delivered[r] <= faults + Cardinality(Delivering(r))
    /\ Published(r) => delivered[r] + Cardinality(MayDeliver(r)) <= faults + Cardinality(Relays)

AbsentRowsHaveNotFailed == \A r \in Rides : outbox[r] = NoRow => failures[r] = 0

\* The inductive invariant.
Inv == /\ TypeOK
       /\ \A w \in Workers : WorkerInv(w)
       /\ FaresInv
       /\ StoredFaresArePriced
       /\ \A q \in Relays : RelayInv(q)
       /\ MarkedRowsWereDelivered
       /\ FailuresAreSeen
       /\ AbsentRowsHaveNotFailed
       /\ \A r \in Rides : DeliveryInv(r)

-----------------------------------------------------------------------------
(* The price list.                                                         *)

\* A component is at least what the quantity costs, and at most one peso more.
LEMMA DistanceComponent ==
  ASSUME NEW m \in Nat, NEW d \in Component(PricePerKm, m, 1000)
  PROVE  d \in Nat /\ 1200 * m <= 1000 * d /\ 1000 * d <= 1200 * m + 1000
<1>1. CeilDiv(1200 * m, 1000) = (1200 * m + 999) \div 1000
  BY DEF CeilDiv
<1>2. PICK e \in Int : e = (1200 * m + 999) \div 1000
  OBVIOUS
<1>3. 1000 * e <= 1200 * m + 999 /\ 1200 * m + 999 < 1000 * e + 1000
  BY <1>2
<1>4. (1200 * m) % 1000 = 0 => 1000 * e = 1200 * m
  BY <1>2
<1>5. d = e \/ ((1200 * m) % 1000 = 0 /\ d = e + 1)
  BY <1>1, <1>2 DEF Component, PricePerKm
<1>6. QED
  BY <1>3, <1>4, <1>5

\* The ceiling of the price of s seconds is at most one peso high.
LEMMA TimeComponent ==
  ASSUME NEW s \in Nat, NEW t \in Component(PricePerMinute, s, 60)
  PROVE  t \in Nat /\ 200 * s <= 60 * t /\ 60 * t <= 200 * s + 60
<1>1. CeilDiv(200 * s, 60) = (200 * s + 59) \div 60
  BY DEF CeilDiv
<1>2. PICK e \in Int : e = (200 * s + 59) \div 60
  OBVIOUS
<1>3. 60 * e <= 200 * s + 59 /\ 200 * s + 59 < 60 * e + 60
  BY <1>2
<1>4. (200 * s) % 60 = 0 => 60 * e = 200 * s
  BY <1>2
<1>5. t = e \/ ((200 * s) % 60 = 0 /\ t = e + 1)
  BY <1>1, <1>2 DEF Component, PricePerMinute
<1>6. QED
  BY <1>3, <1>4, <1>5

\* What an input may be charged.
LEMMA PricedFare ==
  ASSUME NEW i \in FareInputs, NEW f \in Fares(i)
  PROVE  LET exact60000 == 60000 * i.base + 60 * PricePerKm * i.metres
                               + 1000 * PricePerMinute * i.seconds
             raw == f.base + f.distance + f.time
         IN /\ f.base \in Nat /\ f.distance \in Nat /\ f.time \in Nat
            /\ f.amount \in [total : Nat, minimumApplied : BOOLEAN]
            /\ exact60000 <= 60000 * raw
            /\ 60000 * raw <= exact60000 + 2 * 60000
            /\ f.amount.total >= i.minimum
            /\ f.amount.total # raw => f.amount.total = i.minimum
            /\ f.amount.minimumApplied <=> f.amount.total > raw
<1>1. /\ i.base \in Nat /\ i.metres \in Nat /\ i.seconds \in Nat /\ i.minimum \in Nat
  BY DEF FareInputs
<1>2. PICK d \in Component(PricePerKm, i.metres, 1000), t \in Component(PricePerMinute, i.seconds, 60) :
         f = [base |-> i.base, distance |-> d, time |-> t,
              amount |-> WithMinimum(i.base + d + t, i.minimum)]
  BY DEF Fares
<1>3. d \in Nat /\ 1200 * i.metres <= 1000 * d /\ 1000 * d <= 1200 * i.metres + 1000
  BY <1>1, DistanceComponent
<1>4. t \in Nat /\ 200 * i.seconds <= 60 * t /\ 60 * t <= 200 * i.seconds + 60
  BY <1>1, TimeComponent
<1>5. f.base = i.base /\ f.distance = d /\ f.time = t
      /\ f.amount = WithMinimum(i.base + d + t, i.minimum)
  BY <1>2
<1>6. /\ f.amount \in [total : Nat, minimumApplied : BOOLEAN]
      /\ f.amount.total >= i.minimum
      /\ f.amount.total # i.base + d + t => f.amount.total = i.minimum
      /\ f.amount.minimumApplied <=> f.amount.total > i.base + d + t
  <2>1. ASSUME NEW n \in Nat, NEW m \in Nat, NEW a, a = WithMinimum(n, m)
        PROVE  /\ a \in [total : Nat, minimumApplied : BOOLEAN]
               /\ a.total >= m
               /\ a.total # n => a.total = m
               /\ a.minimumApplied <=> a.total > n
    <3>1. CASE n < m
      <4>1. a = [total |-> m, minimumApplied |-> TRUE]
        BY <2>1, <3>1 DEF WithMinimum
      <4>2. QED
        BY <3>1, <4>1
    <3>2. CASE ~(n < m)
      <4>1. (n < m) = FALSE
        BY <3>2
      <4>2. a = [total |-> n, minimumApplied |-> FALSE]
        BY <2>1, <3>2, <4>1, Zenon DEF WithMinimum
      <4>3. QED
        BY <3>2, <4>2
    <3>3. QED
      BY <3>1, <3>2
  <2>2. i.base + d + t \in Nat
    BY <1>1, <1>3, <1>4
  <2>3. QED
    BY <1>1, <1>5, <2>1, <2>2
<1>7. /\ 60000 * i.base + 60 * PricePerKm * i.metres + 1000 * PricePerMinute * i.seconds
             <= 60000 * (i.base + d + t)
      /\ 60000 * (i.base + d + t)
             <= 60000 * i.base + 60 * PricePerKm * i.metres + 1000 * PricePerMinute * i.seconds
                    + 2 * 60000
  BY <1>1, <1>3, <1>4 DEF PricePerKm, PricePerMinute
<1>8. QED
  BY <1>1, <1>3, <1>4, <1>5, <1>6, <1>7

-----------------------------------------------------------------------------
(* Types and jobs.                                                         *)

Labels == {"idle", "publishing", "findingFare", "storingFare", "findingIntent",
           "storingIntent"}

\* What a job carries.
LEMMA JobKinds ==
  /\ \A j \in FareJobs : j.ride \in Rides /\ j.input \in FareRequests \cup {StandardFare}
                         /\ j.input \in FareInputs
  /\ \A j \in IntentJobs : j.ride \in Rides /\ j.amount \in Nat
<1>1. StandardFare \in FareInputs
  BY DEF StandardFare, FareInputs
<1>2. QED
  BY <1>1, FareRequestsAssumption DEF FareJobs, IntentJobs

\* The stored fare of a ride that has one.
LEMMA FareIsStored ==
  ASSUME NEW r \in Rides, HasFare(r)
  PROVE  FareOf(r) \in fares /\ FareOf(r).ride = r
  BY DEF HasFare, FareOf

\* What a worker begins with.
LEMMA StartedJobs ==
  ASSUME TypeOK, NEW r \in Rides
  PROVE  /\ \A t \in {"RideStateChanged", "RIDE_STATE_CHANGED"} :
               [type |-> t, ride |-> r, input |-> StandardFare] \in FareJobs
         /\ \A i \in FareRequests : [type |-> "fare", ride |-> r, input |-> i] \in FareJobs
         /\ \A m \in Amounts : [type |-> "intent", ride |-> r, amount |-> m] \in IntentJobs
         /\ HasFare(r) => [type |-> "FARE_CALCULATED", ride |-> r,
                           amount |-> FareOf(r).amount.total] \in IntentJobs
<1>1. HasFare(r) => FareOf(r).amount.total \in Nat
  BY FareIsStored DEF TypeOK
<1>2. QED
  BY <1>1, NoAmountAssumption DEF FareJobs, IntentJobs, RideEventTypes, CatalogueEventTypes

\* Which handler an event has.
LEMMA Handlers ==
  /\ HandlersOf("RideStateChanged") = {}
  /\ HandlersOf("RIDE_STATE_CHANGED") = {"fareOnRideCompleted"}
  /\ HandlersOf("FARE_CALCULATED") = {"paymentOnFareCalculated"}
  BY DEF HandlersOf, FareSubscription, PaymentSubscription

\* A step of the requests and handlers leaves the program counters and jobs well typed, and
\* each worker with the job its handler is for.
LEMMA WorkerStep ==
  ASSUME Inv, [Next]_vars
  PROVE  /\ pc' \in [Workers -> Labels]
         /\ job' \in [Workers -> FareJobs \cup IntentJobs \cup {NoJob}]
         /\ \A w \in Workers : WorkerInv(w)'
<1> DEFINE Goal == /\ pc' \in [Workers -> Labels]
                   /\ job' \in [Workers -> FareJobs \cup IntentJobs \cup {NoJob}]
                   /\ \A w \in Workers : WorkerInv(w)'
<1>0. /\ TypeOK /\ \A w \in Workers : WorkerInv(w)
      /\ pc \in [Workers -> Labels] /\ job \in [Workers -> FareJobs \cup IntentJobs \cup {NoJob}]
  BY DEF Inv, TypeOK, Labels
<1>1. CASE UNCHANGED <<pc, job>>
  BY <1>0, <1>1 DEF WorkerInv
<1>2. ASSUME NEW w \in Workers, Finish(w)
      PROVE  Goal
  BY <1>0, <1>2 DEF Finish, WorkerInv, Labels
<1>3. ASSUME NEW w \in Workers, NEW r \in Rides, CompleteRide(w, r)
      PROVE  Goal
  <2>1. PICK j \in FareJobs : j.type = "RideStateChanged" /\ Start(w, "publishing", j)
    BY <1>0, <1>3, StartedJobs DEF CompleteRide, RideEventTypes
  <2>2. QED
    BY <1>0, <2>1 DEF Start, WorkerInv, Labels
<1>4. ASSUME NEW w \in Workers, NEW r \in Rides, PublishCatalogued(w, r)
      PROVE  Goal
  <2>1. CASE Start(w, "publishing",
                   [type |-> "RIDE_STATE_CHANGED", ride |-> r, input |-> StandardFare])
    BY <1>0, <2>1, StartedJobs DEF Start, WorkerInv, Labels
  <2>2. CASE /\ HasFare(r)
             /\ Start(w, "publishing",
                   [type |-> "FARE_CALCULATED", ride |-> r, amount |-> FareOf(r).amount.total])
    <3>1. PICK j \in IntentJobs : j.type = "FARE_CALCULATED" /\ Start(w, "publishing", j)
      BY <1>0, <2>2, StartedJobs
    <3>2. QED
      BY <1>0, <3>1 DEF Start, WorkerInv, Labels
  <2>3. QED
    BY <1>4, <2>1, <2>2 DEF PublishCatalogued
<1>5. ASSUME NEW w \in Workers, Publish(w)
      PROVE  Goal
  <2>1. CASE job[w] \in FareJobs /\ job[w].type \in {"RideStateChanged", "RIDE_STATE_CHANGED"}
    <3>1. Goto(w, "findingFare") \/ Finish(w)
      BY <1>5, <2>1, Handlers DEF Publish
    <3>2. QED
      BY <1>0, <1>2, <2>1, <3>1 DEF Goto, WorkerInv, Labels
  <2>2. CASE job[w] \in IntentJobs /\ job[w].type = "FARE_CALCULATED"
    <3>1. Goto(w, "findingIntent")
      BY <1>5, <2>2, Handlers DEF Publish
    <3>2. QED
      BY <1>0, <2>2, <3>1 DEF Goto, WorkerInv, Labels
  <2>3. QED
    BY <1>0, <1>5, <2>1, <2>2 DEF Publish, WorkerInv
<1>6. ASSUME NEW w \in Workers, NEW r \in Rides, NEW i \in FareRequests, RequestFare(w, r, i)
      PROVE  Goal
  <2>1. PICK j \in FareJobs : Start(w, "findingFare", j)
    BY <1>0, <1>6, StartedJobs DEF RequestFare
  <2>2. QED
    BY <1>0, <2>1 DEF Start, WorkerInv, Labels
<1>7. ASSUME NEW w \in Workers, NEW r \in Rides, NEW m \in Amounts, RequestIntent(w, r, m)
      PROVE  Goal
  <2>1. PICK j \in IntentJobs : Start(w, "findingIntent", j)
    BY <1>0, <1>7, StartedJobs DEF RequestIntent
  <2>2. QED
    BY <1>0, <2>1 DEF Start, WorkerInv, Labels
<1>8. ASSUME NEW w \in Workers, FindFare(w) \/ FindIntent(w)
      PROVE  Goal
  <2>1. CASE Finish(w)
    BY <1>2, <2>1
  <2>2. CASE FindFare(w) /\ Goto(w, "storingFare")
    BY <1>0, <2>2 DEF FindFare, Goto, WorkerInv, Labels
  <2>3. CASE FindIntent(w) /\ Goto(w, "storingIntent")
    BY <1>0, <2>3 DEF FindIntent, Goto, WorkerInv, Labels
  <2>4. QED
    BY <1>8, <2>1, <2>2, <2>3 DEF FindFare, FindIntent
<1>9. CASE Crash
  BY <1>0, <1>9 DEF Crash, WorkerInv, Labels
<1>10. ASSUME NEW q \in Relays, Drain(q)
       PROVE  UNCHANGED <<pc, job>>
  BY <1>10 DEF Drain, FetchUnpublished, Deliver, DeliveryFails, MarkPublished, MarkFailedReads,
               MarkFailedWrites, RelayCrash
<1>11. ASSUME NEW w \in Workers, StoreFare(w) \/ StoreFareRefused(w) \/ StoreIntent(w) \/ StatementFails(w)
       PROVE  Finish(w)
  BY <1>11 DEF StoreFare, StoreFareRefused, StoreIntent, StatementFails
<1>12. CASE UNCHANGED vars
  BY <1>1, <1>12 DEF vars
<1> HIDE DEF Goal
<1>13. Goal
  BY <1>1, <1>2, <1>3, <1>4, <1>5, <1>6, <1>7, <1>8, <1>9, <1>10, <1>11, <1>12
     DEF Next, Request, Serve, Goal
<1>14. QED
  BY <1>13 DEF Goal

-----------------------------------------------------------------------------
(* Fares and answers.                                                      *)

FareTypes ==
    \A f \in fares : /\ f.ride \in Rides /\ f.input \in FareRequests \cup {StandardFare}
                     /\ f.base \in Nat /\ f.distance \in Nat /\ f.time \in Nat
                     /\ f.amount \in [total : Nat, minimumApplied : BOOLEAN]

\* Only StoreFare adds a fare, of a ride that has none and with the price of its input; only
\* it and FindFare add an answer, that of a stored fare.
LEMMA FareStep ==
  ASSUME Inv, [Next]_vars
  PROVE  FareTypes' /\ FaresInv' /\ StoredFaresArePriced'
<1> DEFINE Goal == FareTypes' /\ FaresInv' /\ StoredFaresArePriced'
<1>0. /\ TypeOK /\ FareTypes /\ FaresInv /\ StoredFaresArePriced
      /\ \A w \in Workers : WorkerInv(w)
  BY DEF Inv, TypeOK, FareTypes
<1>1. CASE UNCHANGED <<fares, answers>>
  BY <1>0, <1>1 DEF FareTypes, FaresInv, StoredFaresArePriced
<1>2. ASSUME NEW w \in Workers, FindFare(w)
      PROVE  Goal
  <2> DEFINE r == job[w].ride
             a == [ride |-> r, amount |-> FareOf(r).amount]
  <2>1. CASE UNCHANGED answers
    BY <1>1, <1>2, <2>1 DEF FindFare
  <2>2. CASE HasFare(r) /\ answers' = answers \cup {a} /\ UNCHANGED fares
    <3>1. r \in Rides
      BY <1>0, <1>2, JobKinds DEF FindFare, WorkerInv
    <3>2. FareOf(r) \in fares /\ FareOf(r).ride = r
      BY <2>2, <3>1, FareIsStored
    <3>3. FaresInv'
      BY <1>0, <2>2, <3>2 DEF FaresInv
    <3>4. QED
      BY <1>0, <2>2, <3>3 DEF FareTypes, StoredFaresArePriced
  <2>3. QED
    BY <1>2, <2>1, <2>2 DEF FindFare
<1>3. ASSUME NEW w \in Workers, StoreFare(w)
      PROVE  Goal
  <2> DEFINE r == job[w].ride
             i == job[w].input
             New(f) == [ride |-> r, input |-> i, base |-> f.base, distance |-> f.distance,
                        time |-> f.time, amount |-> f.amount]
  <2>1. r \in Rides /\ i \in FareInputs /\ i \in FareRequests \cup {StandardFare}
    BY <1>0, <1>3, JobKinds DEF StoreFare, WorkerInv
  <2>2. PICK f \in Fares(i) : /\ fares' = fares \cup {New(f)}
                              /\ answers' = answers \cup {[ride |-> r, amount |-> f.amount]}
    BY <1>3 DEF StoreFare
  <2>3. \A g \in fares : g.ride # r
    BY <1>3 DEF StoreFare, HasFare
  <2> DEFINE g == New(f)
  <2>4. /\ g.ride = r /\ g.input = i /\ g.base = f.base /\ g.distance = f.distance
        /\ g.time = f.time /\ g.amount = f.amount
    OBVIOUS
  <2> HIDE DEF g, r, i
  <2>5. FareTypes'
    BY <1>0, <2>1, <2>2, <2>4, PricedFare DEF FareTypes, g
  <2>6. FaresInv'
    <3>1. /\ fares' = fares \cup {g}
          /\ answers' = answers \cup {[ride |-> g.ride, amount |-> g.amount]}
      BY <2>2, <2>4 DEF g
    <3>2. \A h, k \in fares' : h.ride = k.ride => h = k
      BY <1>0, <2>3, <2>4, <3>1 DEF FaresInv
    <3>3. \A a \in answers' : \E h \in fares' : h.ride = a.ride /\ h.amount = a.amount
      BY <1>0, <3>1 DEF FaresInv
    <3>4. QED
      BY <3>2, <3>3 DEF FaresInv
  <2>7. StoredFaresArePriced'
    <3>1. fares' = fares \cup {g}
      BY <2>2 DEF g
    <3>2. /\ 60000 * g.input.base + 60 * PricePerKm * g.input.metres
                 + 1000 * PricePerMinute * g.input.seconds <= 60000 * (g.base + g.distance + g.time)
          /\ 60000 * (g.base + g.distance + g.time)
                <= 60000 * g.input.base + 60 * PricePerKm * g.input.metres
                   + 1000 * PricePerMinute * g.input.seconds + 2 * 60000
          /\ g.amount.total >= g.input.minimum
          /\ g.amount.total # g.base + g.distance + g.time => g.amount.total = g.input.minimum
          /\ g.amount.minimumApplied <=> g.amount.total > g.base + g.distance + g.time
      BY <2>1, <2>4, PricedFare
    <3>3. QED
      BY <1>0, <3>1, <3>2 DEF StoredFaresArePriced
  <2>8. QED
    BY <2>5, <2>6, <2>7
<1>4. ASSUME NEW w \in Workers, Request(w) \/ Publish(w) \/ StoreFareRefused(w) \/ FindIntent(w)
                                \/ StoreIntent(w) \/ StatementFails(w)
      PROVE  UNCHANGED <<fares, answers>>
  BY <1>4 DEF Request, CompleteRide, PublishCatalogued, RequestFare, RequestIntent, Publish,
              StoreFareRefused, FindIntent, StoreIntent, StatementFails
<1>5. ASSUME NEW q \in Relays, Drain(q)
      PROVE  UNCHANGED <<fares, answers>>
  BY <1>5 DEF Drain, FetchUnpublished, Deliver, DeliveryFails, MarkPublished, MarkFailedReads,
              MarkFailedWrites, RelayCrash
<1>6. CASE Crash \/ UNCHANGED vars
  BY <1>1, <1>6 DEF Crash, vars
<1> HIDE DEF Goal
<1>7. Goal
  BY <1>1, <1>2, <1>3, <1>4, <1>5, <1>6 DEF Next, Serve, Goal
<1>8. QED
  BY <1>7 DEF Goal

-----------------------------------------------------------------------------
(* The outbox and its relays.                                              *)

\* What the relays and the payments module share, well typed and true.
RowTypes ==
    /\ intents \in [Rides -> Nat \cup {NoAmount}]
    /\ outbox \in [Rides -> OutboxRows \cup {NoRow}]
    /\ relay \in [Relays -> RelayStates]
    /\ delivered \in [Rides -> Nat] /\ failures \in [Rides -> Nat]

RowsInv == /\ RowTypes
           /\ \A q \in Relays : RelayInv(q)
           /\ MarkedRowsWereDelivered
           /\ FailuresAreSeen
           /\ AbsentRowsHaveNotFailed

\* The types of the fields of a relay.
LEMMA RelayFields ==
  ASSUME RowTypes, NEW q \in Relays
  PROVE  /\ relay[q] \in RelayStates
         /\ relay[q].at \in {"idle", "publishing", "delivered", "failed", "marking"}
         /\ relay[q].batch \subseteq Rides /\ relay[q].row \in Rides \cup {NoRow}
         /\ relay[q].read \in Nat
  BY DEF RowTypes, RelayStates

\* The types of the fields of an outbox row that is there.
LEMMA RowFields ==
  ASSUME RowTypes, NEW r \in Rides, outbox[r] # NoRow
  PROVE  /\ outbox[r] \in OutboxRows /\ outbox[r].published \in BOOLEAN
         /\ outbox[r].attempts \in Nat
  BY DEF RowTypes, OutboxRows

\* A relay that has handled a row goes on with the rest of its batch.
LEMMA HandledRow ==
  ASSUME RowTypes, NEW q \in Relays, NEW r, Handled(q, r)
  PROVE  /\ relay' \in [Relays -> RelayStates]
         /\ relay'[q].batch = relay[q].batch \ {r} /\ relay'[q].at \in {"idle", "publishing"}
         /\ \A p \in Relays \ {q} : relay'[p] = relay[p]
<1> DEFINE rest == relay[q].batch \ {r}
           next == [at |-> "publishing", batch |-> rest, row |-> NoRow, read |-> 0]
<1>1. rest \in SUBSET Rides
  BY RelayFields
<1>2. next \in RelayStates /\ next.batch = rest /\ next.at = "publishing"
  BY <1>1 DEF RelayStates
<1>3. IdleRelay \in RelayStates /\ IdleRelay.batch = {} /\ IdleRelay.at = "idle"
  BY DEF IdleRelay, RelayStates
<1>4. relay' = [relay EXCEPT ![q] = IF rest = {} THEN IdleRelay ELSE next]
  BY DEF Handled
<1> HIDE DEF rest, next
<1>5. QED
  BY <1>1, <1>2, <1>3, <1>4 DEF RowTypes, rest

\* A relay that takes up row r of its batch.
LEMMA TakenUp ==
  ASSUME RowTypes, NEW q \in Relays, NEW r \in Rides, NEW l \in {"delivered", "failed"},
         relay' = [relay EXCEPT ![q].at = l, ![q].row = r]
  PROVE  /\ relay' \in [Relays -> RelayStates]
         /\ relay'[q].at = l /\ relay'[q].row = r /\ relay'[q].batch = relay[q].batch
         /\ \A p \in Relays \ {q} : relay'[p] = relay[p]
<1> DEFINE s == [[relay[q] EXCEPT !.at = l] EXCEPT !.row = r]
<1>1. relay' = [relay EXCEPT ![q] = s]
  BY DEF RowTypes
<1>2. s \in RelayStates /\ s.at = l /\ s.row = r /\ s.batch = relay[q].batch
  BY RelayFields DEF RelayStates
<1> HIDE DEF s
<1>3. QED
  BY <1>1, <1>2 DEF RowTypes

\* Every step keeps what is said of outbox rows and of the relays that hold them.
LEMMA RowsStep ==
  ASSUME Inv, [Next]_vars
  PROVE  RowsInv'
<1>0. /\ RowsInv /\ RowTypes /\ MarkedRowsWereDelivered /\ FailuresAreSeen
      /\ AbsentRowsHaveNotFailed
      /\ \A q \in Relays : RelayInv(q)
      /\ \A w \in Workers : WorkerInv(w)
  BY DEF Inv, TypeOK, RowTypes, RowsInv
<1>1. CASE UNCHANGED <<intents, outboxVars>>
  BY <1>0, <1>1 DEF RowsInv, outboxVars, RowTypes, RelayInv, MarkedRowsWereDelivered,
                    FailuresAreSeen, AbsentRowsHaveNotFailed
<1>2. ASSUME NEW w \in Workers, StoreIntent(w)
      PROVE  RowsInv'
  <2> DEFINE r == job[w].ride
             m == job[w].amount
  <2>1. r \in Rides /\ m \in Nat
    BY <1>0, <1>2, JobKinds DEF StoreIntent, WorkerInv
  <2>2. CASE UNCHANGED <<intents, outbox>>
    BY <1>1, <1>2, <2>2 DEF StoreIntent, outboxVars
  <2>3. CASE intents[r] = NoAmount
    <3>1. /\ intents' = [intents EXCEPT ![r] = m]
          /\ outbox' = [outbox EXCEPT ![r] = NewOutboxRow]
          /\ UNCHANGED <<relay, delivered, failures>>
      BY <1>2, <2>3 DEF StoreIntent
    <3>2. /\ NewOutboxRow \in OutboxRows /\ NewOutboxRow # NoRow /\ ~NewOutboxRow.published
          /\ NewOutboxRow.attempts = 0
      <4>1. NewOutboxRow.published = FALSE /\ NewOutboxRow.attempts = 0
        BY DEF NewOutboxRow
      <4>2. NewOutboxRow \in OutboxRows
        BY DEF NewOutboxRow, OutboxRows
      <4>3. QED
        BY <4>1, <4>2, NoRowAssumption
    <3>3. outbox[r] = NoRow /\ failures[r] = 0
      BY <1>0, <2>1, <2>3 DEF MarkedRowsWereDelivered, AbsentRowsHaveNotFailed
    <3> HIDE DEF r, m
    <3>4. RowTypes'
      BY <1>0, <2>1, <3>1, <3>2 DEF RowTypes
    <3>5. \A q \in Relays : RelayInv(q)'
      BY <1>0, <2>1, <3>1, <3>2 DEF RelayInv, RowTypes
    <3>6. MarkedRowsWereDelivered'
      BY <1>0, <2>1, <3>1, <3>2, NoAmountAssumption DEF MarkedRowsWereDelivered, RowTypes
    <3>7. FailuresAreSeen' /\ AbsentRowsHaveNotFailed'
      BY <1>0, <2>1, <3>1, <3>2, <3>3 DEF FailuresAreSeen, AbsentRowsHaveNotFailed, RowTypes
    <3>8. QED
      BY <3>4, <3>5, <3>6, <3>7 DEF RowsInv
  <2>4. QED
    BY <1>2, <2>2, <2>3 DEF StoreIntent
<1>3. ASSUME NEW q \in Relays, FetchUnpublished(q)
      PROVE  RowsInv'
  <2>1. PICK batch \in SUBSET Unpublished :
           relay' = [relay EXCEPT ![q] = [at |-> "publishing", batch |-> batch, row |-> NoRow,
                                          read |-> 0]]
    BY <1>3 DEF FetchUnpublished
  <2> DEFINE s == [at |-> "publishing", batch |-> batch, row |-> NoRow, read |-> 0]
  <2>2. s \in RelayStates /\ s.batch = batch /\ s.at = "publishing"
    BY DEF RelayStates, Unpublished
  <2> HIDE DEF s
  <2>3. relay' = [relay EXCEPT ![q] = s] /\ UNCHANGED <<intents, outbox, delivered, failures>>
    BY <1>3, <2>1 DEF FetchUnpublished, s
  <2>4. RowTypes' /\ MarkedRowsWereDelivered' /\ FailuresAreSeen' /\ AbsentRowsHaveNotFailed'
    BY <1>0, <2>2, <2>3 DEF RowTypes, MarkedRowsWereDelivered, FailuresAreSeen,
                            AbsentRowsHaveNotFailed
  <2>5. \A p \in Relays : RelayInv(p)'
    BY <1>0, <2>2, <2>3 DEF RelayInv, RowTypes, Unpublished
  <2>6. QED
    BY <2>4, <2>5 DEF RowsInv
<1>4. ASSUME NEW q \in Relays, NEW r \in Rides, Deliver(q, r) \/ DeliveryFails(q, r)
      PROVE  RowsInv'
  <2>1. PICK l \in {"delivered", "failed"} :
          /\ relay' = [relay EXCEPT ![q].at = l, ![q].row = r]
          /\ l = "delivered" => delivered' = [delivered EXCEPT ![r] = @ + 1]
    BY <1>4 DEF Deliver, DeliveryFails
  <2>2. /\ relay' \in [Relays -> RelayStates]
        /\ relay'[q].at = l /\ relay'[q].row = r /\ relay'[q].batch = relay[q].batch
        /\ \A p \in Relays \ {q} : relay'[p] = relay[p]
    BY <1>0, <2>1, TakenUp
  <2>3. /\ delivered' \in [Rides -> Nat]
        /\ \A s \in Rides : delivered'[s] >= delivered[s]
        /\ l = "delivered" => delivered'[r] > 0
    BY <1>0, <1>4, <2>1 DEF Deliver, DeliveryFails, RowTypes
  <2>4. UNCHANGED <<intents, outbox, failures>> /\ r \in relay[q].batch
    BY <1>4 DEF Deliver, DeliveryFails
  <2>5. RowTypes'
    BY <1>0, <2>2, <2>3, <2>4 DEF RowTypes
  <2>6. MarkedRowsWereDelivered' /\ FailuresAreSeen' /\ AbsentRowsHaveNotFailed'
    BY <1>0, <2>3, <2>4 DEF RowTypes, MarkedRowsWereDelivered, FailuresAreSeen,
                            AbsentRowsHaveNotFailed
  <2>7. ASSUME NEW p \in Relays
        PROVE  RelayInv(p)'
    <3>1. CASE p = q
      BY <1>0, <2>2, <2>3, <2>4, <3>1 DEF RelayInv
    <3>2. CASE p # q
      <4>1. relay'[p] = relay[p]
        BY <2>2, <3>2
      <4>2. relay[p].batch \subseteq Rides
        BY <1>0, RelayFields
      <4>3. QED
        BY <1>0, <2>3, <2>4, <4>1, <4>2 DEF RelayInv, RowTypes
    <3>3. QED
      BY <3>1, <3>2
  <2>8. QED
    BY <2>5, <2>6, <2>7 DEF RowsInv
<1>5. ASSUME NEW q \in Relays, NEW row \in OutboxRows, Handled(q, relay[q].row),
             relay[q].at \in {"delivered", "failed", "marking"},
             outbox' = [outbox EXCEPT ![relay[q].row] = row],
             failures' \in [Rides -> Nat],
             \A r \in Rides : /\ failures'[r] >= failures[r]
                              /\ failures'[r] # failures[r] => r = relay[q].row,
             failures'[relay[q].row] > 0 => row.attempts > 0,
             row.attempts <= failures'[relay[q].row],
             row.published => delivered[relay[q].row] > 0,
             UNCHANGED <<intents, delivered>>
      PROVE  RowsInv'
  <2> DEFINE r == relay[q].row
  <2>1. r \in Rides /\ outbox[r] # NoRow /\ row # NoRow
    BY <1>0, <1>5, RelayFields, NoRowAssumption DEF RelayInv
  <2>2. /\ relay' \in [Relays -> RelayStates]
        /\ relay'[q].batch = relay[q].batch \ {r} /\ relay'[q].at \in {"idle", "publishing"}
        /\ \A p \in Relays \ {q} : relay'[p] = relay[p]
    BY <1>0, <1>5, HandledRow
  <2>3. outbox' = [outbox EXCEPT ![r] = row]
    BY <1>5
  <2> HIDE DEF r
  <2>4. RowTypes'
    BY <1>0, <1>5, <2>1, <2>2, <2>3 DEF RowTypes
  <2>5. MarkedRowsWereDelivered'
    BY <1>0, <1>5, <2>1, <2>3 DEF RowTypes, MarkedRowsWereDelivered, r
  <2>6. FailuresAreSeen' /\ AbsentRowsHaveNotFailed'
    BY <1>0, <1>5, <2>1, <2>3 DEF RowTypes, FailuresAreSeen, AbsentRowsHaveNotFailed, r
  <2>7. ASSUME NEW p \in Relays
        PROVE  RelayInv(p)'
    <3>1. CASE p = q
      BY <1>0, <2>1, <2>2, <2>3, <3>1 DEF RelayInv, RowTypes
    <3>2. CASE p # q
      <4>1. relay'[p] = relay[p]
        BY <2>2, <3>2
      <4>2. relay[p].batch \subseteq Rides /\ relay[p].read \in Nat
        BY <1>0, RelayFields
      <4>3. \A s \in Rides : outbox[s] # NoRow => outbox'[s] # NoRow
        BY <1>0, <2>1, <2>3 DEF RowTypes
      <4>4. \A s \in Rides : failures'[s] >= failures[s] /\ failures[s] \in Nat /\ failures'[s] \in Nat
        BY <1>0, <1>5 DEF RowTypes
      <4>5. QED
        BY <1>0, <1>5, <4>1, <4>2, <4>3, <4>4 DEF RelayInv
    <3>3. QED
      BY <3>1, <3>2
  <2>8. QED
    BY <2>4, <2>5, <2>6, <2>7 DEF RowsInv
<1>6. ASSUME NEW q \in Relays, MarkPublished(q)
      PROVE  RowsInv'
  <2> DEFINE r == relay[q].row
             row == [outbox[r] EXCEPT !.published = TRUE]
  <2>1. r \in Rides /\ outbox[r] # NoRow /\ delivered[r] > 0
    BY <1>0, <1>6, RelayFields DEF MarkPublished, RelayInv
  <2>2. outbox[r] \in OutboxRows
    BY <1>0, <2>1, RowFields
  <2>3. row \in OutboxRows /\ row.attempts = outbox[r].attempts
    BY <2>2 DEF OutboxRows
  <2>4. outbox' = [outbox EXCEPT ![r] = row] /\ UNCHANGED <<intents, delivered, failures>>
    BY <1>6 DEF MarkPublished
  <2>5. failures[r] > 0 => row.attempts > 0
    BY <1>0, <2>1, <2>3 DEF FailuresAreSeen
  <2>6. row.attempts <= failures[r]
    BY <1>0, <2>1, <2>3 DEF FailuresAreSeen
  <2>7. failures' \in [Rides -> Nat] /\ \A s \in Rides : failures'[s] >= failures[s]
    BY <1>0, <2>4 DEF RowTypes
  <2>8. Handled(q, r) /\ relay[q].at = "delivered"
    BY <1>6 DEF MarkPublished
  <2> HIDE DEF row
  <2>9. QED
    BY <1>5, <2>1, <2>3, <2>4, <2>5, <2>6, <2>7, <2>8
<1>7. ASSUME NEW q \in Relays, MarkFailedReads(q)
      PROVE  RowsInv'
  <2> DEFINE r == relay[q].row
             n == outbox[r].attempts
             s == [[relay[q] EXCEPT !.at = "marking"] EXCEPT !.read = n]
  <2>1. r \in Rides /\ outbox[r] # NoRow /\ r \in relay[q].batch
    BY <1>0, <1>7, RelayFields DEF MarkFailedReads, RelayInv
  <2>2. n \in Nat /\ n <= failures[r]
    BY <1>0, <2>1, RowFields DEF FailuresAreSeen
  <2>3. relay' = [relay EXCEPT ![q] = s]
    BY <1>0, <1>7 DEF MarkFailedReads, RowTypes
  <2>4. relay[q] \in RelayStates
    BY <1>0, RelayFields
  <2>5. UNCHANGED <<intents, outbox, delivered, failures>>
    BY <1>7 DEF MarkFailedReads
  <2> HIDE DEF n
  <2>6. /\ s \in RelayStates /\ s.at = "marking" /\ s.read = n /\ s.row = r
        /\ s.batch = relay[q].batch
    BY <2>2, <2>4 DEF RelayStates
  <2> HIDE DEF s, r
  <2>7. RowTypes' /\ MarkedRowsWereDelivered' /\ FailuresAreSeen' /\ AbsentRowsHaveNotFailed'
    BY <1>0, <2>3, <2>5, <2>6 DEF RowTypes, MarkedRowsWereDelivered, FailuresAreSeen,
                                  AbsentRowsHaveNotFailed
  <2>8. \A p \in Relays : RelayInv(p)'
    BY <1>0, <2>1, <2>2, <2>3, <2>5, <2>6 DEF RelayInv, RowTypes
  <2>9. QED
    BY <2>7, <2>8 DEF RowsInv
<1>8. ASSUME NEW q \in Relays, MarkFailedWrites(q)
      PROVE  RowsInv'
  <2> DEFINE r == relay[q].row
             n == relay[q].read + 1
             row == [outbox[r] EXCEPT !.attempts = n]
  <2>1. /\ r \in Rides /\ outbox[r] # NoRow /\ relay[q].read <= failures[r]
        /\ relay[q].read \in Nat /\ failures[r] \in Nat
    BY <1>0, <1>8, RelayFields DEF MarkFailedWrites, RelayInv, RowTypes
  <2>2. outbox[r] \in OutboxRows
    BY <1>0, <2>1, RowFields
  <2>3. n \in Nat /\ n > 0 /\ n <= failures[r] + 1
    BY <2>1
  <2>4. outbox' = [outbox EXCEPT ![r] = row] /\ UNCHANGED <<intents, delivered>>
    BY <1>8 DEF MarkFailedWrites
  <2>5. failures' = [failures EXCEPT ![r] = failures[r] + 1]
    BY <1>8 DEF MarkFailedWrites
  <2>6. Handled(q, r) /\ relay[q].at = "marking"
    BY <1>8 DEF MarkFailedWrites
  <2> HIDE DEF n
  <2>7. row \in OutboxRows /\ row.attempts = n /\ row.published = outbox[r].published
    BY <2>2, <2>3 DEF OutboxRows
  <2>8. row.published => delivered[r] > 0
    BY <1>0, <2>1, <2>7 DEF MarkedRowsWereDelivered
  <2> HIDE DEF row
  <2>9. /\ failures' \in [Rides -> Nat] /\ failures'[r] = failures[r] + 1
        /\ \A s \in Rides : failures'[s] >= failures[s] /\ (failures'[s] # failures[s] => s = r)
    BY <1>0, <2>1, <2>5 DEF RowTypes
  <2>10. QED
    BY <1>5, <2>3, <2>4, <2>6, <2>7, <2>8, <2>9
<1>9. ASSUME NEW q \in Relays, RelayCrash(q)
      PROVE  RowsInv'
  <2>1. IdleRelay \in RelayStates /\ IdleRelay.batch = {} /\ IdleRelay.at = "idle"
    BY DEF IdleRelay, RelayStates
  <2>2. /\ relay' = [relay EXCEPT ![q] = IdleRelay]
        /\ UNCHANGED <<intents, outbox, delivered, failures>>
    BY <1>9 DEF RelayCrash
  <2>3. RowTypes' /\ MarkedRowsWereDelivered' /\ FailuresAreSeen' /\ AbsentRowsHaveNotFailed'
    BY <1>0, <2>1, <2>2 DEF RowTypes, MarkedRowsWereDelivered, FailuresAreSeen,
                            AbsentRowsHaveNotFailed
  <2>4. \A p \in Relays : RelayInv(p)'
    BY <1>0, <2>1, <2>2 DEF RelayInv, RowTypes
  <2>5. QED
    BY <2>3, <2>4 DEF RowsInv
<1>10. ASSUME NEW w \in Workers, Request(w) \/ Publish(w) \/ FindFare(w) \/ StoreFare(w)
                                 \/ StoreFareRefused(w) \/ FindIntent(w) \/ StatementFails(w)
       PROVE  UNCHANGED <<intents, outboxVars>>
  BY <1>10 DEF Request, CompleteRide, PublishCatalogued, RequestFare, RequestIntent, Publish,
               FindFare, StoreFare, StoreFareRefused, FindIntent, StatementFails
<1>11. CASE Crash \/ UNCHANGED vars
  BY <1>1, <1>11 DEF Crash, vars, outboxVars
<1>12. QED
  BY <1>1, <1>2, <1>3, <1>4, <1>6, <1>7, <1>8, <1>9, <1>10, <1>11 DEF Next, Serve, Drain

-----------------------------------------------------------------------------
(* How often a row is delivered.                                           *)

\* Both sets of relays are finite, and no relay is in both.
LEMMA RelaysOf ==
  ASSUME NEW r \in Rides
  PROVE  /\ IsFiniteSet(Delivering(r)) /\ Cardinality(Delivering(r)) \in Nat
         /\ IsFiniteSet(MayDeliver(r)) /\ Cardinality(MayDeliver(r)) \in Nat
         /\ Cardinality(Relays) \in Nat
         /\ Cardinality(Delivering(r)) + Cardinality(MayDeliver(r)) <= Cardinality(Relays)
<1> DEFINE D == Delivering(r)
           M == MayDeliver(r)
<1>1. D \subseteq Relays /\ M \subseteq Relays /\ D \cap M = {}
  BY DEF Delivering, MayDeliver
<1> HIDE DEF D, M
<1>2. IsFiniteSet(D) /\ IsFiniteSet(M) /\ IsFiniteSet(D \cup M)
  BY <1>1, RelaysAssumption, FS_Subset, FS_Union
<1>3. Cardinality(D \cup M) <= Cardinality(Relays) /\ Cardinality(Relays) \in Nat
  BY <1>1, RelaysAssumption, FS_Subset, FS_CardinalityType
<1>4. Cardinality(D \cup M) = Cardinality(D) + Cardinality(M) - Cardinality(D \cap M)
  BY <1>2, FS_Union
<1>5. Cardinality(D \cap M) = 0
  BY <1>1, FS_EmptySet
<1>6. Cardinality(D) \in Nat /\ Cardinality(M) \in Nat
  BY <1>2, FS_CardinalityType
<1>7. QED
  BY <1>2, <1>3, <1>4, <1>5, <1>6 DEF D, M

\* A step that neither delivers nor marks the row of r, after which no relay more may
\* deliver it if it is marked, and each that has delivered it still has to mark it or met with a fault.
LEMMA OtherSteps ==
  ASSUME Inv, TypeOK', NEW r \in Rides, delivered'[r] = delivered[r], faults' >= faults,
         Published(r)' <=> Published(r),
         Published(r) => MayDeliver(r)' \subseteq MayDeliver(r),
         \/ Delivering(r) \subseteq Delivering(r)'
         \/ /\ faults' = faults + 1
            /\ \E q \in Relays : Delivering(r) \subseteq Delivering(r)' \cup {q}
  PROVE  DeliveryInv(r)'
<1> DEFINE D == Delivering(r)
           M == MayDeliver(r)
           E == Delivering(r)'
           N == MayDeliver(r)'
<1>1. DeliveryInv(r) /\ delivered[r] \in Nat /\ faults \in Nat /\ faults' \in Nat
  BY PipelineBoundsAssumption DEF Inv, TypeOK
<1>2. /\ IsFiniteSet(D) /\ Cardinality(D) \in Nat /\ IsFiniteSet(M) /\ Cardinality(M) \in Nat
      /\ Cardinality(Relays) \in Nat
  BY RelaysOf
<1>3. (Published(r) => N \subseteq M) /\ N \subseteq Relays /\ E \subseteq Relays
  BY DEF Delivering, MayDeliver
<1>4. Delivering(r) \subseteq E \/ (faults' = faults + 1 /\ \E q \in Relays : D \subseteq E \cup {q})
  OBVIOUS
<1> HIDE DEF D, M, E, N
<1>5. IsFiniteSet(E) /\ Cardinality(E) \in Nat
  BY <1>3, RelaysAssumption, FS_Subset, FS_CardinalityType
<1>6. Cardinality(N) \in Nat /\ (Published(r) => Cardinality(N) <= Cardinality(M))
  BY <1>2, <1>3, RelaysAssumption, FS_Subset, FS_CardinalityType
<1>7. Cardinality(D) <= Cardinality(E) \/ (faults' = faults + 1 /\ Cardinality(D) <= Cardinality(E) + 1)
  <2>1. CASE D \subseteq E
    BY <1>5, <2>1, FS_Subset
  <2>2. ASSUME faults' = faults + 1, NEW q \in Relays, D \subseteq E \cup {q}
        PROVE  faults' = faults + 1 /\ Cardinality(D) <= Cardinality(E) + 1
    <3>1. /\ IsFiniteSet(E \cup {q})
          /\ Cardinality(E \cup {q}) = Cardinality(E) \/ Cardinality(E \cup {q}) = Cardinality(E) + 1
      BY <1>5, FS_AddElement
    <3>2. Cardinality(D) <= Cardinality(E \cup {q})
      BY <2>2, <3>1, FS_Subset
    <3>3. QED
      BY <1>2, <1>5, <2>2, <3>1, <3>2
  <2>3. QED
    BY <1>4, <2>1, <2>2 DEF D
<1>8. /\ ~Published(r) => delivered[r] <= faults + Cardinality(D)
      /\ Published(r) => delivered[r] + Cardinality(M) <= faults + Cardinality(Relays)
  BY <1>1 DEF DeliveryInv, D, M
<1>9. /\ ~Published(r)' => delivered'[r] <= faults' + Cardinality(E)
      /\ Published(r)' => delivered'[r] + Cardinality(N) <= faults' + Cardinality(Relays)
  <2>1. ~Published(r) => delivered[r] <= faults' + Cardinality(E)
    BY <1>1, <1>2, <1>5, <1>7, <1>8
  <2>2. Published(r) => delivered[r] + Cardinality(N) <= faults' + Cardinality(Relays)
    BY <1>1, <1>2, <1>6, <1>8
  <2>3. QED
    BY <2>1, <2>2
<1>10. QED
  BY <1>9 DEF DeliveryInv, E, N

\* The broker takes the row of r from relay q.
LEMMA DeliverStep ==
  ASSUME Inv, TypeOK', NEW r \in Rides, NEW q \in Relays,
         delivered'[r] = delivered[r] + 1, faults' >= faults,
         Published(r)' <=> Published(r), q \in MayDeliver(r),
         MayDeliver(r)' \subseteq MayDeliver(r) \ {q},
         \/ q \notin Delivering(r) /\ Delivering(r) \cup {q} \subseteq Delivering(r)'
         \/ faults' = faults + 1 /\ Delivering(r) \subseteq Delivering(r)'
  PROVE  DeliveryInv(r)'
<1> DEFINE D == Delivering(r)
           M == MayDeliver(r)
           E == Delivering(r)'
           N == MayDeliver(r)'
<1>1. DeliveryInv(r) /\ delivered[r] \in Nat /\ faults \in Nat /\ faults' \in Nat
  BY PipelineBoundsAssumption DEF Inv, TypeOK
<1>2. /\ IsFiniteSet(D) /\ Cardinality(D) \in Nat /\ IsFiniteSet(M) /\ Cardinality(M) \in Nat
      /\ Cardinality(Relays) \in Nat
  BY RelaysOf
<1>3. q \in M /\ N \subseteq M \ {q} /\ E \subseteq Relays
  BY DEF Delivering
<1>4. (q \notin D /\ D \cup {q} \subseteq E) \/ (faults' = faults + 1 /\ D \subseteq E)
  OBVIOUS
<1> HIDE DEF D, M, E, N
<1>5. IsFiniteSet(E) /\ Cardinality(E) \in Nat
  BY <1>3, RelaysAssumption, FS_Subset, FS_CardinalityType
<1>6. Cardinality(N) \in Nat /\ Cardinality(N) + 1 <= Cardinality(M)
  <2>1. IsFiniteSet(M \ {q}) /\ Cardinality(M \ {q}) = Cardinality(M) - 1
    BY <1>2, <1>3, FS_RemoveElement
  <2>2. IsFiniteSet(N) /\ Cardinality(N) <= Cardinality(M \ {q}) /\ Cardinality(N) \in Nat
    BY <1>3, <2>1, FS_Subset, FS_CardinalityType
  <2>3. QED
    BY <1>2, <2>1, <2>2
<1>7. Cardinality(D) + 1 <= Cardinality(E) \/ (faults' = faults + 1 /\ Cardinality(D) <= Cardinality(E))
  <2>1. CASE q \notin D /\ D \cup {q} \subseteq E
    <3>1. Cardinality(D \cup {q}) = Cardinality(D) + 1
      BY <1>2, <2>1, FS_AddElement
    <3>2. Cardinality(D \cup {q}) <= Cardinality(E)
      BY <1>5, <2>1, FS_Subset
    <3>3. QED
      BY <3>1, <3>2
  <2>2. CASE faults' = faults + 1 /\ D \subseteq E
    BY <1>5, <2>2, FS_Subset
  <2>3. QED
    BY <1>4, <2>1, <2>2
<1>8. /\ ~Published(r) => delivered[r] <= faults + Cardinality(D)
      /\ Published(r) => delivered[r] + Cardinality(M) <= faults + Cardinality(Relays)
  BY <1>1 DEF DeliveryInv, D, M
<1>9. /\ ~Published(r)' => delivered'[r] <= faults' + Cardinality(E)
      /\ Published(r)' => delivered'[r] + Cardinality(N) <= faults' + Cardinality(Relays)
  <2>1. ~Published(r) => delivered[r] + 1 <= faults' + Cardinality(E)
    BY <1>1, <1>2, <1>5, <1>7, <1>8
  <2>2. Published(r) => delivered[r] + 1 + Cardinality(N) <= faults' + Cardinality(Relays)
    BY <1>1, <1>2, <1>6, <1>8
  <2>3. QED
    BY <2>1, <2>2
<1>10. QED
  BY <1>9 DEF DeliveryInv, E, N

\* The row of r is marked: none that may still deliver it has delivered it.
LEMMA MarkStep ==
  ASSUME Inv, TypeOK', NEW r \in Rides, Published(r)',
         delivered'[r] = delivered[r], faults' = faults,
         MayDeliver(r)' \subseteq MayDeliver(r)
  PROVE  DeliveryInv(r)'
<1> DEFINE D == Delivering(r)
           M == MayDeliver(r)
           N == MayDeliver(r)'
<1>1. DeliveryInv(r) /\ delivered[r] \in Nat /\ faults \in Nat
  BY PipelineBoundsAssumption DEF Inv, TypeOK
<1>2. /\ IsFiniteSet(D) /\ Cardinality(D) \in Nat /\ IsFiniteSet(M) /\ Cardinality(M) \in Nat
      /\ Cardinality(Relays) \in Nat /\ Cardinality(D) + Cardinality(M) <= Cardinality(Relays)
  BY RelaysOf
<1>3. N \subseteq M
  OBVIOUS
<1> HIDE DEF D, M, N
<1>4. IsFiniteSet(N) /\ Cardinality(N) \in Nat /\ Cardinality(N) <= Cardinality(M)
  BY <1>2, <1>3, FS_Subset, FS_CardinalityType
<1>5. \/ delivered[r] <= faults + Cardinality(D)
      \/ delivered[r] + Cardinality(M) <= faults + Cardinality(Relays)
  BY <1>1 DEF DeliveryInv, D, M
<1>6. delivered'[r] + Cardinality(N) <= faults' + Cardinality(Relays)
  BY <1>1, <1>2, <1>4, <1>5
<1>7. QED
  BY <1>6 DEF DeliveryInv, N

\* Every step keeps the bound on how often the event of a ride is delivered.
LEMMA DeliveryStep ==
  ASSUME Inv, [Next]_vars, TypeOK', NEW r \in Rides
  PROVE  DeliveryInv(r)'
<1>0. /\ RowTypes /\ \A q \in Relays : RelayInv(q)
      /\ \A q \in Relays : relay[q].batch \subseteq Rides /\ relay[q] \in RelayStates
      /\ delivered \in [Rides -> Nat] /\ outbox \in [Rides -> OutboxRows \cup {NoRow}]
      /\ faults \in Nat /\ faults' \in Nat
  BY RelayFields, PipelineBoundsAssumption DEF Inv, TypeOK, RowTypes
<1>1. CASE UNCHANGED <<relay, delivered>> /\ (Published(r)' <=> Published(r)) /\ faults' >= faults
  BY <1>1, OtherSteps DEF Delivering, MayDeliver
<1>2. ASSUME NEW w \in Workers, StoreIntent(w)
      PROVE  UNCHANGED <<relay, delivered>> /\ (Published(r)' <=> Published(r)) /\ faults' >= faults
  <2> DEFINE s == job[w].ride
  <2>1. CASE UNCHANGED outbox
    BY <1>0, <1>2, <2>1 DEF StoreIntent, Published, bounds
  <2>2. CASE intents[s] = NoAmount /\ outbox' = [outbox EXCEPT ![s] = NewOutboxRow]
    <3>1. s \in Rides
      BY <1>2, JobKinds DEF StoreIntent, Inv, WorkerInv
    <3>2. outbox[s] = NoRow
      BY <2>2, <3>1 DEF Inv, MarkedRowsWereDelivered
    <3>3. NewOutboxRow.published = FALSE
      BY DEF NewOutboxRow
    <3> HIDE DEF s
    <3>4. Published(r)' <=> Published(r)
      BY <1>0, <2>2, <3>1, <3>2, <3>3 DEF Published
    <3>5. QED
      BY <1>0, <1>2, <3>4 DEF StoreIntent, bounds
  <2>3. QED
    BY <1>2, <2>1, <2>2 DEF StoreIntent
<1>3. ASSUME NEW w \in Workers, Request(w) \/ Publish(w) \/ FindFare(w) \/ StoreFare(w)
                                \/ StoreFareRefused(w) \/ FindIntent(w)
      PROVE  UNCHANGED <<relay, delivered, outbox, faults>>
  BY <1>3 DEF Request, CompleteRide, PublishCatalogued, RequestFare, RequestIntent, Publish,
              FindFare, StoreFare, StoreFareRefused, FindIntent, outboxVars, bounds
<1>4. ASSUME Crash \/ (\E w \in Workers : StatementFails(w))
      PROVE  UNCHANGED <<relay, delivered, outbox>> /\ faults' >= faults
  BY <1>0, <1>4 DEF Crash, StatementFails, outboxVars
<1>5. ASSUME UNCHANGED <<relay, delivered, outbox>>, faults' >= faults
      PROVE  DeliveryInv(r)'
  BY <1>1, <1>5 DEF Published
<1>6. ASSUME NEW q \in Relays, FetchUnpublished(q)
      PROVE  DeliveryInv(r)'
  <2>1. PICK batch \in SUBSET Unpublished :
           relay' = [relay EXCEPT ![q] = [at |-> "publishing", batch |-> batch, row |-> NoRow,
                                          read |-> 0]]
    BY <1>6 DEF FetchUnpublished
  <2>2. /\ relay[q].at = "idle" /\ delivered'[r] = delivered[r] /\ faults' >= faults
        /\ Published(r)' <=> Published(r)
    BY <1>0, <1>6 DEF FetchUnpublished, Published, bounds
  <2>3. Delivering(r) \subseteq Delivering(r)'
    BY <1>0, <2>1, <2>2 DEF Delivering, RowTypes
  <2>4. CASE Published(r)
    <3>1. r \notin batch
      BY <2>4 DEF Unpublished, Published
    <3>2. MayDeliver(r)' \subseteq MayDeliver(r)
      BY <1>0, <2>1, <3>1 DEF MayDeliver, RowTypes
    <3>3. QED
      BY <2>2, <2>3, <3>2, OtherSteps
  <2>5. CASE ~Published(r)
    BY <2>2, <2>3, <2>5, OtherSteps
  <2>6. QED
    BY <2>4, <2>5
<1>7. ASSUME NEW q \in Relays, NEW s \in Rides, Deliver(q, s) \/ DeliveryFails(q, s)
      PROVE  DeliveryInv(r)'
  <2>1. PICK l \in {"delivered", "failed"} :
          /\ relay' = [relay EXCEPT ![q].at = l, ![q].row = s]
          /\ \/ /\ l = "delivered" /\ Deliver(q, s)
                /\ delivered' = [delivered EXCEPT ![s] = @ + 1] /\ faults' = faults
             \/ /\ l = "failed" /\ DeliveryFails(q, s)
                /\ delivered' = [delivered EXCEPT ![s] = @ + 1] \/ UNCHANGED delivered
                /\ faults' = faults + 1
    BY <1>7 DEF Deliver, DeliveryFails, bounds
  <2>2. /\ relay' \in [Relays -> RelayStates]
        /\ relay'[q].at = l /\ relay'[q].row = s /\ relay'[q].batch = relay[q].batch
        /\ \A p \in Relays \ {q} : relay'[p] = relay[p]
    BY <1>0, <2>1, TakenUp
  <2>3. relay[q].at = "publishing" /\ s \in relay[q].batch /\ UNCHANGED outbox
    BY <1>7 DEF Deliver, DeliveryFails
  <2>4. (Published(r)' <=> Published(r)) /\ faults' >= faults
    BY <1>0, <2>1, <2>3 DEF Published
  <2>5. Delivering(r) \subseteq Delivering(r)' /\ q \notin Delivering(r)
    BY <2>2, <2>3 DEF Delivering
  <2>6. MayDeliver(r)' \subseteq MayDeliver(r)
    BY <2>2, <2>3 DEF MayDeliver
  <2>7. CASE delivered'[r] = delivered[r]
    BY <2>4, <2>5, <2>6, <2>7, OtherSteps
  <2>8. CASE delivered'[r] # delivered[r]
    <3>1. r = s /\ delivered'[r] = delivered[r] + 1
      BY <1>0, <2>1, <2>8
    <3>2. q \in MayDeliver(r) /\ q \notin MayDeliver(r)'
      BY <2>2, <2>3, <3>1 DEF MayDeliver
    <3>3. l = "delivered" => q \in Delivering(r)'
      BY <2>2, <3>1 DEF Delivering
    <3>4. \/ q \notin Delivering(r) /\ Delivering(r) \cup {q} \subseteq Delivering(r)'
          \/ faults' = faults + 1 /\ Delivering(r) \subseteq Delivering(r)'
      BY <2>1, <2>5, <3>3
    <3>5. QED
      BY <2>4, <2>6, <3>1, <3>2, <3>4, DeliverStep
  <2>9. QED
    BY <2>7, <2>8
<1>8. ASSUME NEW q \in Relays, MarkPublished(q) \/ MarkFailedWrites(q)
      PROVE  DeliveryInv(r)'
  <2> DEFINE s == relay[q].row
  <2>1. /\ relay[q].at \in {"delivered", "marking"} /\ Handled(q, s)
        /\ UNCHANGED <<delivered, faults>>
    BY <1>8 DEF MarkPublished, MarkFailedWrites, bounds
  <2>2. s \in Rides /\ outbox[s] # NoRow /\ outbox[s] \in OutboxRows
    BY <1>0, <2>1, RowFields DEF RelayInv
  <2>3. /\ relay'[q].batch = relay[q].batch \ {s} /\ relay'[q].at \in {"idle", "publishing"}
        /\ \A p \in Relays \ {q} : relay'[p] = relay[p]
    BY <1>0, <2>1, HandledRow
  <2>4. MayDeliver(r)' \subseteq MayDeliver(r)
    BY <2>1, <2>3 DEF MayDeliver
  <2>5. r # s => Delivering(r) \subseteq Delivering(r)'
    BY <2>3 DEF Delivering
  <2>6. relay[q].at = "marking" => Delivering(r) \subseteq Delivering(r)'
    BY <2>3 DEF Delivering
  <2>7. r # s => (Published(r)' <=> Published(r))
    BY <1>0, <1>8, <2>2 DEF MarkPublished, MarkFailedWrites, Published
  <2>8. CASE r # s
    BY <1>0, <2>1, <2>4, <2>5, <2>7, <2>8, OtherSteps
  <2>9. CASE r = s /\ MarkPublished(q)
    <3> DEFINE row == [outbox[r] EXCEPT !.published = TRUE]
    <3>1. row \in OutboxRows /\ row.published = TRUE
      BY <2>2, <2>9 DEF OutboxRows
    <3>2. outbox' = [outbox EXCEPT ![r] = row]
      BY <2>9 DEF MarkPublished
    <3> HIDE DEF row
    <3>3. Published(r)'
      BY <1>0, <3>1, <3>2, NoRowAssumption DEF Published
    <3>4. QED
      BY <2>1, <2>4, <3>3, MarkStep
  <2>10. CASE r = s /\ MarkFailedWrites(q)
    <3> DEFINE n == relay[q].read + 1
               row == [outbox[r] EXCEPT !.attempts = n]
    <3>1. n \in Nat
      BY <1>0, RelayFields
    <3>2. outbox' = [outbox EXCEPT ![r] = row] /\ relay[q].at = "marking"
      BY <2>10 DEF MarkFailedWrites
    <3> HIDE DEF n
    <3>3. row \in OutboxRows /\ row.published = outbox[r].published
      BY <2>2, <2>10, <3>1 DEF OutboxRows
    <3> HIDE DEF row
    <3>4. Published(r)' <=> Published(r)
      BY <1>0, <2>2, <2>10, <3>2, <3>3, NoRowAssumption DEF Published
    <3>5. QED
      BY <1>0, <2>1, <2>4, <2>6, <3>2, <3>4, OtherSteps
  <2>11. QED
    BY <1>8, <2>8, <2>9, <2>10
<1>9. ASSUME NEW q \in Relays, MarkFailedReads(q)
      PROVE  DeliveryInv(r)'
  <2> DEFINE n == outbox[relay[q].row].attempts
             s == [[relay[q] EXCEPT !.at = "marking"] EXCEPT !.read = n]
  <2>1. relay' = [relay EXCEPT ![q] = s] /\ relay[q].at = "failed"
    BY <1>0, <1>9 DEF MarkFailedReads, RowTypes
  <2>2. s.at = "marking" /\ s.row = relay[q].row /\ s.batch = relay[q].batch
    BY <1>0 DEF RelayStates
  <2> HIDE DEF s
  <2>3. Delivering(r) \subseteq Delivering(r)' /\ MayDeliver(r)' \subseteq MayDeliver(r)
    BY <1>0, <2>1, <2>2 DEF Delivering, MayDeliver, RowTypes
  <2>4. /\ delivered'[r] = delivered[r] /\ faults' >= faults
        /\ Published(r)' <=> Published(r)
    BY <1>0, <1>9 DEF MarkFailedReads, Published, bounds
  <2>5. QED
    BY <2>3, <2>4, OtherSteps
<1>10. ASSUME NEW q \in Relays, RelayCrash(q)
       PROVE  DeliveryInv(r)'
  <2>1. relay' = [relay EXCEPT ![q] = IdleRelay] /\ IdleRelay.batch = {}
    BY <1>10 DEF RelayCrash, IdleRelay
  <2>2. Delivering(r) \subseteq Delivering(r)' \cup {q} /\ MayDeliver(r)' \subseteq MayDeliver(r)
    BY <1>0, <2>1 DEF Delivering, MayDeliver, RowTypes
  <2>3. /\ delivered'[r] = delivered[r] /\ faults' = faults + 1 /\ faults' >= faults
        /\ Published(r)' <=> Published(r)
    BY <1>0, <1>10 DEF RelayCrash, Published
  <2>4. QED
    BY <2>2, <2>3, OtherSteps
<1>11. CASE UNCHANGED vars
  BY <1>0, <1>5, <1>11 DEF vars, bounds
<1>12. QED
  BY <1>0, <1>1, <1>2, <1>3, <1>4, <1>5, <1>6, <1>7, <1>8, <1>9, <1>10, <1>11
     DEF Next, Serve, Drain

-----------------------------------------------------------------------------
(* The theorems.                                                           *)

\* The invariant holds at first.
LEMMA InitInv == ASSUME Init PROVE Inv
<1>1. IdleRelay \in RelayStates /\ IdleRelay.batch = {} /\ IdleRelay.at = "idle"
  BY DEF IdleRelay, RelayStates
<1>2. TypeOK
  BY <1>1, PipelineBoundsAssumption DEF Init, TypeOK
<1>3. (\A w \in Workers : WorkerInv(w)) /\ FaresInv /\ StoredFaresArePriced
  BY DEF Init, WorkerInv, FaresInv, StoredFaresArePriced
<1>4. \A q \in Relays : RelayInv(q)
  BY <1>1 DEF Init, RelayInv
<1>5. MarkedRowsWereDelivered /\ FailuresAreSeen /\ AbsentRowsHaveNotFailed
  BY DEF Init, MarkedRowsWereDelivered, FailuresAreSeen, AbsentRowsHaveNotFailed
<1>6. ASSUME NEW r \in Rides
      PROVE  DeliveryInv(r)
  <2>1. delivered[r] = 0 /\ faults = 0 /\ ~Published(r)
    BY DEF Init, Published
  <2>2. Cardinality(Delivering(r)) \in Nat
    BY RelaysOf
  <2>3. QED
    BY <2>1, <2>2 DEF DeliveryInv
<1>7. QED
  BY <1>2, <1>3, <1>4, <1>5, <1>6 DEF Inv

BoundTypes == /\ completed \subseteq Rides
              /\ events \in 0..MaxEvents /\ requests \in 0..MaxRequests
              /\ faults \in 0..MaxFaults

\* Every step keeps the types of the counters that bound the model.
LEMMA BoundStep ==
  ASSUME Inv, [Next]_vars
  PROVE  BoundTypes'
<1>0. BoundTypes
  BY DEF Inv, TypeOK, BoundTypes
<1>1. CASE UNCHANGED <<completed, bounds>>
  BY <1>0, <1>1 DEF BoundTypes, bounds
<1>2. ASSUME NEW w \in Workers, Request(w) \/ StatementFails(w)
      PROVE  BoundTypes'
  <2>1. ASSUME NEW r \in Rides, CompleteRide(w, r)
        PROVE  BoundTypes'
    BY <1>0, <2>1 DEF CompleteRide, BoundTypes, bounds
  <2>2. ASSUME NEW r \in Rides, PublishCatalogued(w, r)
        PROVE  BoundTypes'
    BY <1>0, <2>2, PipelineBoundsAssumption DEF PublishCatalogued, BoundTypes
  <2>3. ASSUME NEW r \in Rides, NEW i, RequestFare(w, r, i) \/ RequestIntent(w, r, i)
        PROVE  BoundTypes'
    BY <1>0, <2>3, PipelineBoundsAssumption DEF RequestFare, RequestIntent, BoundTypes
  <2>4. CASE StatementFails(w)
    BY <1>0, <2>4, PipelineBoundsAssumption DEF StatementFails, BoundTypes
  <2>5. QED
    BY <1>2, <2>1, <2>2, <2>3, <2>4 DEF Request
<1>3. ASSUME NEW w \in Workers, Serve(w)
      PROVE  UNCHANGED <<completed, bounds>>
  BY <1>3 DEF Serve, Publish, FindFare, StoreFare, StoreFareRefused, FindIntent, StoreIntent
<1>4. ASSUME NEW q \in Relays, Drain(q)
      PROVE  BoundTypes'
  BY <1>0, <1>4, PipelineBoundsAssumption
     DEF Drain, FetchUnpublished, Deliver, DeliveryFails, MarkPublished, MarkFailedReads,
         MarkFailedWrites, RelayCrash, BoundTypes, bounds
<1>5. CASE Crash
  BY <1>0, <1>5, PipelineBoundsAssumption DEF Crash, BoundTypes
<1>6. CASE UNCHANGED vars
  BY <1>1, <1>6 DEF vars, bounds
<1>7. QED
  BY <1>1, <1>2, <1>3, <1>4, <1>5, <1>6 DEF Next

\* Every step keeps the type invariant.
LEMMA TypeStep ==
  ASSUME Inv, [Next]_vars
  PROVE  TypeOK'
<1>1. BoundTypes' /\ RowTypes' /\ FareTypes'
  BY BoundStep, RowsStep, FareStep DEF RowsInv
<1>2. /\ pc' \in [Workers -> Labels]
      /\ job' \in [Workers -> FareJobs \cup IntentJobs \cup {NoJob}]
  BY WorkerStep
<1>3. QED
  BY <1>1, <1>2 DEF BoundTypes, RowTypes, FareTypes, Labels, TypeOK

\* The invariant is kept by every step.
LEMMA NextInv == ASSUME Inv, [Next]_vars PROVE Inv'
<1>1. TypeOK'
  BY TypeStep
<1>2. \A r \in Rides : DeliveryInv(r)'
  BY <1>1, DeliveryStep
<1>3. QED
  BY <1>1, <1>2, WorkerStep, FareStep, RowsStep DEF Inv, RowsInv

\* The inductive invariant: fares, handlers' memories, intents, outbox rows and relays agree in
\* every reachable state.
THEOREM SpecInv == Spec => []Inv
<1>1. Init => Inv
  BY InitInv
<1>2. Inv /\ [Next]_vars => Inv'
  BY NextInv
<1>3. QED
  BY <1>1, <1>2, PTL DEF Spec

\* Every variable keeps to its type: a worker has no job its handler is not for, an outbox
\* counter is a number and a relay's batch is of rides.
THEOREM TypeCorrect == Spec => []TypeOK
<1>1. Inv => TypeOK
  BY DEF Inv
<1>2. QED
  BY <1>1, SpecInv, PTL

\* Whoever asks for the fare of a ride is told the stored amount: a ride never gets a second
\* fare, and every answer is a fare that is stored.
THEOREM FaresCorrect == Spec => []FareAnswersAgree
<1>1. Inv => FareAnswersAgree
  BY DEF Inv, FaresInv, FareAnswersAgree
<1>2. QED
  BY <1>1, SpecInv, PTL

\* A stored fare has the price of its input, for every distance, duration, base and minimum
\* and whichever way floating-point products fall.
THEOREM PricesCorrect == Spec => []StoredFaresArePriced
<1>1. Inv => StoredFaresArePriced
  BY DEF Inv
<1>2. QED
  BY <1>1, SpecInv, PTL

\* The columns of an outbox row are true and its deliveries few, for any number of relays
\* that overlap, fail and die.
THEOREM OutboxCorrect == Spec => []OutboxTellsDeliveries
<1>1. ASSUME Inv
      PROVE  DeliveriesAreBounded
  <2>1. ASSUME NEW r \in Rides
        PROVE  delivered[r] <= Cardinality(Relays) + faults
    <3>1. delivered[r] \in Nat /\ faults \in Nat
      BY <1>1, PipelineBoundsAssumption DEF Inv, TypeOK
    <3>2. DeliveryInv(r)
      BY <1>1 DEF Inv
    <3> DEFINE d == Cardinality(Delivering(r))
               m == Cardinality(MayDeliver(r))
               n == Cardinality(Relays)
    <3>3. d \in Nat /\ m \in Nat /\ n \in Nat /\ d + m <= n
      BY RelaysOf
    <3>4. delivered[r] <= faults + d \/ delivered[r] + m <= faults + n
      BY <3>2 DEF DeliveryInv
    <3> HIDE DEF d, m, n
    <3>5. delivered[r] <= n + faults
      BY <3>1, <3>3, <3>4
    <3>6. QED
      BY <3>5 DEF n
  <2>2. QED
    BY <2>1 DEF DeliveriesAreBounded
<1>2. Inv => OutboxTellsDeliveries
  BY <1>1 DEF Inv, OutboxTellsDeliveries
<1>3. QED
  BY <1>2, SpecInv, PTL
=============================================================================
