\* Two overlapping requests, a provider that recognises keys, no faults.
CONSTANTS
    r1 = r1
    r2 = r2
    k1 = k1
    k2 = k2
    k3 = k3
    k4 = k4
    w1 = w1
    w2 = w2
    NoIntent = 0
    Rides = {r1}
    Keys = {k1, k2}
    Amounts = {1}
    Workers = {w1, w2}
    ProviderOutcomes <- MCOutcomes
    ProviderDedupes = TRUE
    MaxRequests = 2
    MaxFaults = 0
SPECIFICATION Spec
SYMMETRY MCSymmetry
INVARIANTS
    NoDoubleCharge
\* A behaviour ends when its requests are used up.
CHECK_DEADLOCK FALSE
