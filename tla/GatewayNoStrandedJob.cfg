\* A backend that never raises and a server that never restarts: what strands
\* a job is the one ciphertext that passes the checks.
SPECIFICATION Spec
CONSTANTS
    Threads = {th1, th2}
    Clients = {c1}
    JobIds = {j1, j2}
    Models <- MCModels
    Entry <- MCEntry
    Requests <- AllRequests
    BackendRaises = FALSE
    MaxRestarts = 0
    NoJob = NoJob
    NoRequest = NoRequest
    NoResult = NoResult
    NoReply = NoReply
    NoPayload = NoPayload
    Absent = Absent
    Gone = Gone
    logistic = logistic
    loose = loose
    flat = flat
    partial = partial
    unknown = unknown
    alice = alice
    bob = bob
INVARIANT
    NoStrandedJob
CHECK_DEADLOCK FALSE
