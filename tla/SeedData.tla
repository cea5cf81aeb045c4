------------------------------ MODULE SeedData ------------------------------
(***************************************************************************)
(* The rows of seed-data.ts, with the columns that other rows refer to,    *)
(* and the rules of the modules that read them.  Times are minutes after   *)
(* SEED_BASE_DATE.                                                         *)
(***************************************************************************)
EXTENDS Integers, Sequences, RideStateTable, PaymentPolicy

None == "none"      \* a column that IS NULL
Never == -10000

SEED_DRIVERS == [andres |-> [state |-> "AVAILABLE", seen |-> 55],
                 sofia  |-> [state |-> "BUSY",      seen |-> 30],
                 jorge  |-> [state |-> "OFFLINE",   seen |-> Never],
                 diana  |-> [state |-> "AVAILABLE", seen |-> 58]]

\* recorded_at of the rows of driver_locations
SEED_DRIVER_LOCATIONS == [andres |-> {50, 52, 55}, sofia |-> {25, 27, 30},
                          jorge |-> {}, diana |-> {53, 55, 58}]

Ride(d, s, requested, started, completed) ==
    [driver |-> d, state |-> s, requested |-> requested, started |-> started,
     completed |-> completed]

SEED_RIDES == [completed   |-> Ride("andres", "COMPLETED",   0,    10,    40),
               started     |-> Ride("sofia",  "STARTED",     15,   25,    Never),
               dispatching |-> Ride(None,     "DISPATCHING", 58,   Never, Never),
               canceled    |-> Ride(None,     "CANCELED",    -120, Never, Never),
               expired     |-> Ride(None,     "EXPIRED",     -180, Never, Never)]

\* The audit trail of the completed ride.
SEED_RIDE_TRANSITIONS == <<[from |-> "CREATED",     to |-> "DISPATCHING", at |-> 0],
                           [from |-> "DISPATCHING", to |-> "ASSIGNED",    at |-> 3],
                           [from |-> "ASSIGNED",    to |-> "STARTED",     at |-> 10],
                           [from |-> "STARTED",     to |-> "COMPLETED",   at |-> 40]>>

SEED_FARE_CALCULATIONS ==
    {[ride |-> "completed", base |-> 4500, distance |-> 6400, time |-> 7100, total |-> 18000,
      minimumApplied |-> FALSE]}

\* Mutant of SEED_PAYMENT_INTENTS: the amount is that of another fare.
SEED_OTHER_INTENTS ==
    {[ride |-> "completed", amount |-> 17900, base |-> 4500, distance |-> 6400, time |-> 7100,
      minimumApplied |-> FALSE]}

SEED_PAYMENT_INTENTS ==
    {[ride |-> "completed", amount |-> 18000, base |-> 4500, distance |-> 6400, time |-> 7100,
      minimumApplied |-> FALSE]}

\* settlement_attempts of the intent of each ride, by attempt_number
SEED_SETTLEMENT_ATTEMPTS ==
    [completed |-> <<[key |-> "seed_idem_settlement_001", outcome |-> "SUCCEEDED"]>>]

\* candidates: distance in metres of each eligible driver
SEED_DISPATCH_AUDITS ==
    {[ride |-> "completed", selected |-> "andres", outcome |-> "SUCCEEDED", at |-> 2,
      candidates |-> [andres |-> 450, diana |-> 2100]],
     [ride |-> "dispatching", selected |-> None, outcome |-> "NO_ELIGIBLE", at |-> 59,
      candidates |-> <<>>]}

-----------------------------------------------------------------------------

\* The current location of a driver is the last one of the history; who is offline has none.
DriversFit ==
    \A d \in DOMAIN SEED_DRIVERS :
        LET seen == SEED_DRIVER_LOCATIONS[d]
        IN IF SEED_DRIVERS[d].seen = Never THEN seen = {} /\ SEED_DRIVERS[d].state = "OFFLINE"
           ELSE SEED_DRIVERS[d].seen \in seen /\ \A t \in seen : t <= SEED_DRIVERS[d].seen

\* A driver is BUSY exactly while a ride is assigned to him or under way.
DriversServeRides ==
    {d \in DOMAIN SEED_DRIVERS : SEED_DRIVERS[d].state = "BUSY"} =
        {SEED_RIDES[r].driver : r \in {s \in DOMAIN SEED_RIDES :
                                          SEED_RIDES[s].state \in {"ASSIGNED", "STARTED"}}}

\* The trail is a legal path from CREATED to the state of the ride, with its times.
TrailFits ==
    LET q == SEED_RIDE_TRANSITIONS
        last == q[Len(q)]
        ride == SEED_RIDES.completed
    IN /\ q[1].from = "CREATED" /\ last.to = ride.state /\ last.at = ride.completed
       /\ \A i \in DOMAIN q : /\ CanTransition(q[i].from, q[i].to)
                              /\ i > 1 => q[i].from = q[i-1].to /\ q[i].at >= q[i-1].at
                              /\ q[i].to = "STARTED" => q[i].at = ride.started

\* A ride is paid what its fare says, in attempts the settlement policy allows.
PaymentsFit ==
    /\ \A f \in SEED_FARE_CALCULATIONS :
          f.total = f.base + f.distance + f.time /\ SEED_RIDES[f.ride].state = "COMPLETED"
    /\ \A i \in SEED_PAYMENT_INTENTS : \E f \in SEED_FARE_CALCULATIONS :
          /\ i.ride = f.ride /\ i.amount = f.total
          /\ <<i.base, i.distance, i.time>> = <<f.base, f.distance, f.time>>
          /\ i.minimumApplied = f.minimumApplied
    /\ \A r \in DOMAIN SEED_SETTLEMENT_ATTEMPTS :
          LET q == SEED_SETTLEMENT_ATTEMPTS[r]
          IN \A n \in DOMAIN q : CanAttemptSettlement(SubSeq(q, 1, n - 1), TRUE)

\* Dispatch selected the nearest candidate and the ride went to him, or found none.
AuditsFit ==
    \A a \in SEED_DISPATCH_AUDITS :
        IF a.outcome = "SUCCEEDED"
        THEN /\ a.selected = SEED_RIDES[a.ride].driver
             /\ \A d \in DOMAIN a.candidates : a.candidates[a.selected] <= a.candidates[d]
        ELSE a.selected = None /\ a.candidates = <<>> /\ SEED_RIDES[a.ride].driver = None
=============================================================================
