\* Every way through a handler: the jobs are the promised
\* ones, and handlers run to their end, their client there or not.
SPECIFICATION FairSpec
CONSTANTS
    Threads = {th1, th2}
    Clients = {c1}
    JobIds = {j1, j2}
    Models <- MCModels
    Entry <- MCEntry
    Requests <- EveryOutcome
    BackendRaises = FALSE
    MaxRestarts = 1
    NoJob = NoJob
    NoRequest = NoRequest
    NoResult = NoResult
    NoReply = NoReply
    NoPayload = NoPayload
    Absent = Absent
    Gone = Gone
    logistic = logistic
    loose = loose
    flat = flat
    partial = partial
    unknown = unknown
    alice = alice
    bob = bob
    NoView = NoView
    Torn = Torn
INVARIANTS
    StrandedForCause
    AnswerHasCause
PROPERTIES
    ImplementsAbstractJobs
    PostAnswered
    HalfWrittenHeals
\* The ids are used up, so the model stops.
CHECK_DEADLOCK FALSE
