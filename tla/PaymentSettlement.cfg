\* Two overlapping requests on one ride, a provider without memory, a crash.
CONSTANTS
    r1 = r1
    r2 = r2
    k1 = k1
    k2 = k2
    k3 = k3
    k4 = k4
    w1 = w1
    w2 = w2
    NoIntent = 0
    Rides = {r1}
    Keys = {k1, k2, k3, k4}
    Amounts = {1, 2}
    Workers = {w1, w2}
    ProviderOutcomes <- MCOutcomes
    ProviderDedupes = FALSE
    MaxRequests = 4
    MaxFaults = 1
SPECIFICATION Spec
SYMMETRY MCSymmetry
INVARIANTS
    TypeOK
    AttemptsAreUnique
    RecordsAreTrue
    OutboxAnnouncesRecords
\* A behaviour ends when its requests are used up.
CHECK_DEADLOCK FALSE
