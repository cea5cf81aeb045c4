\* Two processes, builds with two versions of the seed data, three commands, one fault.
CONSTANTS
    p1 = p1
    p2 = p2
    v1 = v1
    v2 = v2
    Procs = {p1, p2}
    Versions = {v1, v2}
    NoVersion = NoVersion
    NoProc = NoProc
    Invocations <- MCInvocations
    MaxRuns = 3
    MaxFaults = 1
SPECIFICATION Spec
INVARIANTS
    TypeOK
    VerifiedSeedsAreApplied
    LoggedSeedsWereCommitted
    SeededDatabaseIsUsable
    WritersExclude
PROPERTIES
    ReexecutionChangesNothing
    CommandsEnd
\* A behaviour ends when its commands are used up.
CHECK_DEADLOCK FALSE
