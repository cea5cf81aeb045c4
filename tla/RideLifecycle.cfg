\* One contended ride, two overlapping requests and the sweep.
CONSTANTS
    r1 = r1
    r2 = r2
    w1 = w1
    w2 = w2
    d1 = d1
    d2 = d2
    Rides = {r1}
    Drivers = {d1}
    Workers = {w1, w2}
    NoDriver = NoDriver
    ExpirationPolicySeconds <- MCPolicy
    BatchSize = 1
    MaxTime = 2
    MaxCrashes = 1
SPECIFICATION Spec
SYMMETRY MCSymmetry
INVARIANTS
    TypeOK
    AuditTrailAccountsForRow
    PublishedEventsWereCommitted
    RowTellsItsHistory
PROPERTIES
    ConflictNamesAStateSinceItsRead
    SweepExpiresOnlyOverdueRides
    ImplementsStateMachine
