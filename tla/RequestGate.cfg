\* Two requests of two accounts, behind the authentication hook alone.
CONSTANTS
    u1 = u1
    u2 = u2
    MaxRequests = 2
    Users = {u1, u2}
    Operations <- MCOperations
    Profiles <- MCProfiles
    FirstProfile <- MCFirstProfile
    Browsers = {u2}
    NoKey = NoKey
    NoProfile = NoProfile
    NoOperation = NoOperation
    LifecycleHooks = FALSE
    MaxDisturbances = 1
SPECIFICATION Spec
INVARIANTS
    TypeOK
    EffectsWereAuthorised
    AnswersMatchEffects
    RetriesActOnce
    RetriesAreNotRefused
PROPERTIES
    EveryRequestIsAnswered
\* A behaviour ends when every request is answered or lost.
CHECK_DEADLOCK FALSE
