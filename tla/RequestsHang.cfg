\* One request to the application as buildApp makes it, nothing failing.
CONSTANTS
    u1 = u1
    u2 = u2
    MaxRequests = 1
    Users = {u1, u2}
    Operations <- MCOperations
    Profiles <- MCProfiles
    FirstProfile <- MCFirstProfile
    Browsers = {u2}
    NoKey = NoKey
    NoProfile = NoProfile
    NoOperation = NoOperation
    LifecycleHooks = TRUE
    MaxDisturbances = 0
SPECIFICATION Spec
PROPERTIES
    EveryRequestIsAnswered
CHECK_DEADLOCK FALSE
