\* Expected violation: the caller names the second version.
SPECIFICATION Spec
CONSTANTS
    Models <- MCModels
    Registries <- TwoVersions
    Calls <- TwoCalls
    Unspecified = Unspecified
    Timeout = 1
    Interval = 1
    RequestTime = 1
    MaxRestarts = 0
    None = None
    logistic = logistic
    other = other
    small = small
    large = large
INVARIANTS
    SessionCompatible
\* A behaviour is one call; it ends.
CHECK_DEADLOCK FALSE
