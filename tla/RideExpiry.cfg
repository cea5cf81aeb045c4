\* Two rides compete for sweeps of one ride each, under a scheduler.
CONSTANTS
    r1 = r1
    r2 = r2
    w1 = w1
    w2 = w2
    d1 = d1
    d2 = d2
    Rides = {r1, r2}
    Drivers = {d1}
    Workers = {w1}
    NoDriver = NoDriver
    ExpirationPolicySeconds <- MCShortPolicy
    BatchSize = 1
    MaxTime = 1
    MaxCrashes = 0
SPECIFICATION ScheduledSpec
PROPERTIES
    OverdueRidesLeave
