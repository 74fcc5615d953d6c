\* Two handlers race for the buckets of two tenants.
SPECIFICATION FairSpec
CONSTANTS
    Threads = {th1, th2}
    Names = {acme}
    DefaultTenant = default
    Nobody = Nobody
    Limit = 2
    Window = 1
    MaxTime = 3
    MaxHits = 4
INVARIANTS
    TypeOK
    LiveWindowBound
    BucketBounded
PROPERTIES
    RejectionJustified
    LockReleased
\* The clock and the histories are bounded, so the model stops.
CHECK_DEADLOCK FALSE
