\* One ride, one worker, no event but those the rides module publishes.
CONSTANTS
    r1 = r1
    r2 = r2
    w1 = w1
    w2 = w2
    q1 = q1
    q2 = q2
    Rides = {r1}
    Workers = {w1}
    Relays = {q1}
    FareRequests <- MCFareRequests
    Amounts <- MCAmounts
    NoAmount = NoAmount
    NoRow = NoRow
    BatchSize = 1
    MaxEvents = 0
    MaxRequests = 1
    MaxFaults = 0
SPECIFICATION Spec
PROPERTIES
    CompletedRidesGetAFare
\* A behaviour ends when its requests are used up.
CHECK_DEADLOCK FALSE
