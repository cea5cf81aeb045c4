\* Two rides and two overlapping requests, a provider that recognises keys, a fault.
CONSTANTS
    r1 = r1
    r2 = r2
    k1 = k1
    k2 = k2
    k3 = k3
    k4 = k4
    w1 = w1
    w2 = w2
    NoIntent = 0
    Rides = {r1, r2}
    Keys = {k1, k2, k3}
    Amounts = {1}
    Workers = {w1, w2}
    ProviderOutcomes <- MCOutcomes
    ProviderDedupes = TRUE
    MaxRequests = 3
    MaxFaults = 1
SPECIFICATION Spec
SYMMETRY MCSymmetry
INVARIANTS
    UndisturbedRidesAreChargedOnce
    UndisturbedCapturesAreRecorded
PROPERTIES
    ImplementsPaymentLedger
\* A behaviour ends when its requests are used up.
CHECK_DEADLOCK FALSE
