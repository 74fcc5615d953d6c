\* Three parameter sets and one that is refused, room for two: handlers evict
\* each other's contexts between their two calls.
SPECIFICATION Spec
CONSTANTS
    Threads = {th1, th2}
    Params <- FourParams
    Unusable <- Refused
    MaxSize = 2
    MaxBuilds = 3
    None = None
SYMMETRY ThreadSymmetry
INVARIANTS
    TypeOK
    RightContext
    CacheBounded
\* No more contexts can be built, so the model stops.
CHECK_DEADLOCK FALSE
