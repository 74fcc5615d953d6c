\* Every kind of call against every registry, which a restart may change, and
\* a server that takes its time with the job, or for ever.
SPECIFICATION FairSpec
CONSTANTS
    Models <- MCModels
    Registries <- MCRegistries
    Calls <- AllCalls
    Unspecified = Unspecified
    Timeout = 3
    Interval = 2
    RequestTime = 2
    MaxRestarts = 1
    None = None
    logistic = logistic
    other = other
    small = small
    large = large
INVARIANTS
    TypeOK
    WaitIsBounded
    GivesUpOnlyOnUnfinished
PROPERTIES
    NoAvoidableRefusal
    CallEnds
\* A behaviour is one call; it ends.
CHECK_DEADLOCK FALSE
