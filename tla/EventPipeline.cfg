\* One ride, two overlapping workers, two relays.
CONSTANTS
    r1 = r1
    r2 = r2
    w1 = w1
    w2 = w2
    q1 = q1
    q2 = q2
    Rides = {r1}
    Workers = {w1, w2}
    Relays = {q1, q2}
    FareRequests <- MCFareRequests
    Amounts <- MCAmounts
    NoAmount = NoAmount
    NoRow = NoRow
    BatchSize = 1
    MaxEvents = 2
    MaxRequests = 1
    MaxFaults = 2
SPECIFICATION Spec
INVARIANTS
    TypeOK
    FareAnswersAgree
    StoredFaresArePriced
    OutboxTellsDeliveries
PROPERTIES
    CataloguedEventsTakeEffect
\* A behaviour ends when its requests are used up.
CHECK_DEADLOCK FALSE
