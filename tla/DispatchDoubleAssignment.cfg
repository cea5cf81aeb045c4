\* Two sagas and a driver whose app makes him available while he is at work.
CONSTANTS
    r1 = r1
    r2 = r2
    c1 = c1
    c2 = c2
    w1 = w1
    w2 = w2
    d1 = d1
    d2 = d2
    d3 = d3
    Drivers = {d1}
    Rides = {r1, r2}
    Corrs = {c1, c2}
    RideOf <- MCRideOf
    Workers = {w1, w2}
    OnlineDrivers = {d1}
    AppsLetGo = TRUE
    NoDriver = NoDriver
    NoRide = NoRide
    NoCorr = NoCorr
    MaxUpdates = 1
    MaxDispatches = 2
    MaxFaults = 0
SPECIFICATION Spec
INVARIANTS
    NoDriverServesTwoRides
\* A behaviour ends when its requests are used up.
CHECK_DEADLOCK FALSE
