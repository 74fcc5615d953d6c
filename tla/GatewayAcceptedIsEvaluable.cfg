\* Every branch of the validation of the two routes.
SPECIFICATION Spec
CONSTANTS
    Threads = {th1, th2}
    Clients = {c1}
    JobIds = {j1, j2}
    Models <- MCModels
    Entry <- MCEntry
    Requests <- AllRequests
    BackendRaises = FALSE
    MaxRestarts = 0
    NoJob = NoJob
    NoRequest = NoRequest
    NoResult = NoResult
    NoReply = NoReply
    NoPayload = NoPayload
    Absent = Absent
    Gone = Gone
    logistic = logistic
    loose = loose
    flat = flat
    partial = partial
    unknown = unknown
    alice = alice
    bob = bob
INVARIANT
    AcceptedIsEvaluable
CHECK_DEADLOCK FALSE
