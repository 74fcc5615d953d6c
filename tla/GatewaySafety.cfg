\* Two handlers, two clients, a restart.
SPECIFICATION Spec
CONSTANTS
    Threads = {th1, th2}
    Clients = {c1, c2}
    JobIds = {j1, j2}
    Models <- MCModels
    Entry <- MCEntry
    Requests <- JobRequests
    BackendRaises = TRUE
    MaxRestarts = 1
    NoJob = NoJob
    NoRequest = NoRequest
    NoResult = NoResult
    NoReply = NoReply
    NoPayload = NoPayload
    Absent = Absent
    Gone = Gone
    logistic = logistic
    loose = loose
    flat = flat
    partial = partial
    unknown = unknown
    alice = alice
    bob = bob
SYMMETRY ThreadsAndClients
INVARIANTS
    TypeOK
    ReceiptHonoured
    FirstPollIsFinal
    SoleWriter
PROPERTIES
    JobsMonotone
    ReadsAgree
\* The ids are used up, so the model stops.
CHECK_DEADLOCK FALSE
