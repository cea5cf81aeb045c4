\* Two sagas for two rides, two drivers online and one to register.
CONSTANTS
    r1 = r1
    r2 = r2
    c1 = c1
    c2 = c2
    w1 = w1
    w2 = w2
    d1 = d1
    d2 = d2
    d3 = d3
    Drivers = {d1, d2, d3}
    Rides = {r1, r2}
    Corrs = {c1, c2}
    RideOf <- MCRideOf
    Workers = {w1, w2}
    OnlineDrivers = {d1, d2}
    AppsLetGo = FALSE
    NoDriver = NoDriver
    NoRide = NoRide
    NoCorr = NoCorr
    MaxUpdates = 2
    MaxDispatches = 2
    MaxFaults = 1
SPECIFICATION Spec
SYMMETRY MCSymmetry
INVARIANTS
    TypeOK
    NoDriverServesTwoRides
    AssignedDriverIsBusy
    AnswersAreTrue
    ReservationsHaveAnOwner
    IndexListsAvailableDrivers
PROPERTY
    ImplementsDriverAssignment
\* A behaviour ends when its requests are used up.
CHECK_DEADLOCK FALSE
