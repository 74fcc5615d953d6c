\* Three handlers, two parameter sets, room for both.
SPECIFICATION Spec
CONSTANTS
    Threads = {th1, th2, th3}
    Params <- TwoParams
    Unusable = {}
    MaxSize = 2
    MaxBuilds = 4
    None = None
SYMMETRY ThreadSymmetry
INVARIANTS
    ContextShared
    SecondCallHits
    BuildsBounded
