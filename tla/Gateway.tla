------------------------------ MODULE Gateway ------------------------------
(***************************************************************************)
(* The inference gateway as its clients see it: POST /infer and            *)
(* POST /infer/plain (server/app/routes/infer.py, infer_plain.py), the job *)
(* store they write (server/core/jobs/queue.py) and GET /jobs/{id}         *)
(* (server/app/routes/jobs.py).                                            *)
(*                                                                         *)
(* Every handler is a plain `def`, run on a worker thread; JOB_STORE is a  *)
(* module-level dict without a lock, so handlers interleave between any    *)
(* two of its reads and writes.  A client whose socket times out is gone,  *)
(* its handler is not: it runs to its end.  A restart of the server        *)
(* empties the store and kills the handlers, and the clients keep the job  *)
(* ids they were told.                                                     *)
(*                                                                         *)
(* The limiter is a free choice here (RateLimiter has its state), the      *)
(* model registry is constant, as it is after start-up, and may hold all   *)
(* that its validation lets through; ciphertexts are names.                *)
(***************************************************************************)
EXTENDS Integers, FiniteSets

CONSTANTS
    Threads,         \* worker threads of the server
    Clients,         \* concurrent callers of the HTTP API
    JobIds,          \* the ids uuid4 can return; bounds the jobs of a run
    Models,          \* identities (model_id, version) in MODEL_REGISTRY
    Entry,           \* model -> its entry in MODEL_REGISTRY
    Requests,        \* the requests clients send, see RequestAssumption
    BackendRaises,   \* may the crypto library, or an arithmetic operation of
                     \* the plain evaluator, raise on a good request?
    MaxRestarts,     \* bound on server restarts
    NoJob, NoRequest, NoResult, NoReply, NoPayload, Absent, Gone

(* What the activation polynomial leaves of an encrypted input: there is   *)
(* no polynomial; it is identically zero, which the evaluator refuses; it  *)
(* is a constant, a number; it is a constant that int.to_bytes() has one   *)
(* byte for, an integer of 1 to 255; a ciphertext.                         *)
Leftovers == {"absent", "zero", "number", "byte", "ciphertext"}

(* The registry requires a positive dimension and limit, as many weights   *)
(* as the dimension, and no parameters or polynomial at all.  To JSON      *)
(* Schema 2.0 is an integer, to isinstance(x, int) it is none.             *)
ASSUME ModelAssumption ==
    \A m \in Models : LET entry == Entry[m] IN
        /\ entry.dimension \in Nat \ {0}            \* input_dimension
        /\ entry.limit \in Nat \ {0}                \* max_batch_size
        /\ entry.floats \subseteq {"dimension", "batch"}  \* written n.0
        /\ entry.parameters \in BOOLEAN             \* has weights and bias
        /\ entry.activation \in Leftovers

ASSUME RequestAssumption ==
    \A r \in Requests :
        /\ r.route \in {"infer", "plain"}   \* the path of the POST
        /\ r.wellFormed \in BOOLEAN         \* passes the JSON schema
        /\ r.arity \in Nat \ {0}            \* len(inputs)
        /\ r.sound \in BOOLEAN              \* every ciphertext is compatible
        /\ r.batch \in Nat \ {0}            \* batch_size, 1 on /infer/plain
        /\ r.finite \in BOOLEAN             \* a plain output is no inf or nan
        /\ r.route = "plain" => r.batch = 1

ASSUME BoundAssumption == BackendRaises \in BOOLEAN /\ MaxRestarts \in Nat

Statuses == {"queued", "running", "completed"}

Outputs == [model : Models, sample : {r.sample : r \in Requests}]
Results == [model : Models, payload : Outputs \cup {NoPayload}, batch : Nat]
Jobs    == [model : Models, status : Statuses, result : Results \cup {NoResult}]
Replies == [code   : {200, 400, 404, 429, 500},
            status : Statuses \cup {"none"},
            job    : JobIds \cup {NoJob},
            result : Results \cup {NoResult}]

(* The markers are none of the values they stand beside.                   *)
ASSUME MarkerAssumption ==
    /\ NoJob \notin JobIds
    /\ NoRequest \notin Requests
    /\ Gone \notin Clients
    /\ NoResult \notin Results
    /\ Absent \notin Jobs
    /\ NoReply \notin Replies

VARIABLES
    jobs,      \* JOB_STORE: id -> job record, or Absent
    origin,    \* history: id -> the request create_job was called for
    pc,        \* where each worker thread is
    req,       \* the request of a POST handler, NoRequest in a GET handler
    own,       \* POST: the handler's job_id; GET: the job_id of the path
    serves,    \* the client at the other end of the connection, or Gone
    draft,     \* the response a handler is about to send
    cpc,       \* where each client is
    asked,     \* the client's latest request
    receipt,   \* the job id POST /infer told the client
    told,      \* the latest response the client got
    restarts

serverVars == <<jobs, origin, pc, req, own, serves, draft>>
clientVars == <<cpc, asked, receipt, told>>
vars == <<serverVars, clientVars, restarts>>

----------------------------------------------------------------------------
(* What a request computes: the model it names applied to its sample.      *)
Output(r) == [model |-> r.model, sample |-> r.sample]

(* The result complete_job stores: requested and processed batch size are  *)
(* always passed the same value, and the plain route stores no payload.    *)
ResultFor(model, r) ==
    [model   |-> model,
     payload |-> IF r.route = "plain" THEN NoPayload ELSE Output(r),
     batch   |-> r.batch]

Reply(code, status, job, result) ==
    [code |-> code, status |-> status, job |-> job, result |-> result]

Error(code) == Reply(code, "none", NoJob, NoResult)

(* POST /infer/plain returns the outputs, and no id of the job it made.    *)
(* JSON has no inf and no nan: the response fails, and the job is done.    *)
PlainAnswer(r) ==
    IF r.finite
    THEN Reply(200, "none", NoJob,
               [model |-> r.model, payload |-> Output(r), batch |-> r.batch])
    ELSE Error(500)

Accepted(r, id) ==
    IF r.route = "plain" THEN PlainAnswer(r)
                         ELSE Reply(200, "completed", id, NoResult)

(* The checks of /infer on a request for a registered model.  A limit      *)
(* written as a float is none, and a single ciphertext passes whatever the *)
(* model's dimension.                                                      *)
InferVerdict(r) ==
    LET entry == Entry[r.model] IN
    IF \/ "batch" \notin entry.floats /\ r.batch > entry.limit
       \/ r.arity \notin {1, entry.dimension}
       \/ ~r.sound
    THEN 400 ELSE 200

(* Those of /infer/plain, which serves no model with a float dimension.    *)
PlainVerdict(r) ==
    LET entry == Entry[r.model] IN
    IF "dimension" \in entry.floats THEN 500
    ELSE IF r.arity # entry.dimension THEN 400 ELSE 200

(* The checks of both routes in the order of the code; 200 when all pass.  *)
Verdict(r) ==
    IF ~r.wellFormed THEN 400
    ELSE IF r.model \notin Models THEN 404
    ELSE IF r.route = "plain" THEN PlainVerdict(r)
    ELSE InferVerdict(r)

(* The evaluators want weights, one input for each and a polynomial.  What *)
(* it leaves is the plain route's output, whatever it is; /infer has to    *)
(* call its to_bytes().                                                    *)
Evaluable(r) ==
    LET entry == Entry[r.model] IN
    /\ entry.parameters
    /\ r.arity = entry.dimension
    /\ entry.activation # "absent"
    /\ r.route = "infer" => entry.activation \in {"byte", "ciphertext"}

NewJob(r) == [model |-> r.model, status |-> "queued", result |-> NoResult]

Issued == {id \in JobIds : origin[id] # NoRequest}

(* Threads that have a job and have not done with it.                      *)
WorkPcs == {"start", "evaluate", "complete", "result"}
Working(th) == pc[th] \in WorkPcs

(* POST handlers that may yet create a job.                                *)
Undecided == {th \in Threads : pc[th] \in {"limit", "validate", "create"}}

Goto(th, label) == pc' = [pc EXCEPT ![th] = label]

(* Leave the handler with a response: only Deliver is left to do.          *)
Answer(th, reply) ==
    /\ Goto(th, "reply")
    /\ draft' = [draft EXCEPT ![th] = reply]

----------------------------------------------------------------------------
(* Mutants of the actions below: the errors the properties are there for.  *)

(* An id that is not in use just now, given out before or not.             *)
CreateJobRecycled(th) ==
    /\ pc[th] = "create"
    /\ \E id \in JobIds :
          /\ jobs[id] = Absent
          /\ jobs' = [jobs EXCEPT ![id] = NewJob(req[th])]
          /\ origin' = [origin EXCEPT ![id] = req[th]]
          /\ own' = [own EXCEPT ![th] = id]
    /\ Goto(th, "start")
    /\ UNCHANGED <<req, serves, draft, clientVars, restarts>>

(* An id that need not be unique, like the size of the store.              *)
CreateJobColliding(th) ==
    /\ pc[th] = "create"
    /\ \E id \in JobIds :
          /\ jobs' = [jobs EXCEPT ![id] = NewJob(req[th])]
          /\ origin' = [origin EXCEPT ![id] = req[th]]
          /\ own' = [own EXCEPT ![th] = id]
    /\ Goto(th, "start")
    /\ UNCHANGED <<req, serves, draft, clientVars, restarts>>

(* The exception is swallowed, and the route returns its job id.           *)
EvaluationSwallowed(th) ==
    /\ pc[th] = "evaluate"
    /\ BackendRaises \/ ~Evaluable(req[th])
    /\ Answer(th, Accepted(req[th], own[th]))
    /\ UNCHANGED <<jobs, origin, req, own, serves, clientVars, restarts>>

(* The job is put back in the queue for another try.                       *)
EvaluationRequeued(th) ==
    /\ pc[th] = "evaluate"
    /\ BackendRaises \/ ~Evaluable(req[th])
    /\ jobs' = [jobs EXCEPT ![own[th]].status = "queued"]
    /\ Answer(th, Error(500))
    /\ UNCHANGED <<origin, req, own, serves, clientVars, restarts>>

(* The name docs/api.md has for the last status.                           *)
SetDone(th) ==
    /\ pc[th] = "complete"
    /\ jobs' = [jobs EXCEPT ![own[th]].status = "done"]
    /\ Goto(th, "result")
    /\ UNCHANGED <<origin, req, own, serves, draft, clientVars, restarts>>

(* The route answers before the result is stored.                          *)
SetCompletedAndAnswer(th) ==
    /\ pc[th] = "complete"
    /\ jobs' = [jobs EXCEPT ![own[th]].status = "completed"]
    /\ Answer(th, Accepted(req[th], own[th]))
    /\ UNCHANGED <<origin, req, own, serves, clientVars, restarts>>

(* The job is completed when somebody asks for it.                         *)
SetCompletedOnPoll(th) ==
    /\ pc[th] = "complete"
    /\ \E other \in Threads : pc[other] = "lookup" /\ own[other] = own[th]
    /\ jobs' = [jobs EXCEPT ![own[th]].status = "completed"]
    /\ Goto(th, "result")
    /\ UNCHANGED <<origin, req, own, serves, draft, clientVars, restarts>>

(* The handler is cancelled with its connection, as a coroutine would be.  *)
ClientTimeoutCancels(c) ==
    /\ cpc[c] \in {"posting", "polling"}
    /\ cpc' = [cpc EXCEPT ![c] = IF @ = "posting" THEN "idle" ELSE "holding"]
    /\ LET mine == {th \in Threads : serves[th] = c} IN
       /\ pc' = [th \in Threads |-> IF th \in mine THEN "idle" ELSE pc[th]]
       /\ req' = [th \in Threads |-> IF th \in mine THEN NoRequest ELSE req[th]]
       /\ own' = [th \in Threads |-> IF th \in mine THEN NoJob ELSE own[th]]
       /\ serves' = [th \in Threads |-> IF th \in mine THEN Gone ELSE serves[th]]
       /\ draft' = [th \in Threads |-> IF th \in mine THEN NoReply ELSE draft[th]]
    /\ UNCHANGED <<jobs, origin, asked, receipt, told, restarts>>

----------------------------------------------------------------------------
Init ==
    /\ jobs = [id \in JobIds |-> Absent]
    /\ origin = [id \in JobIds |-> NoRequest]
    /\ pc = [th \in Threads |-> "idle"]
    /\ req = [th \in Threads |-> NoRequest]
    /\ own = [th \in Threads |-> NoJob]
    /\ serves = [th \in Threads |-> Gone]
    /\ draft = [th \in Threads |-> NoReply]
    /\ cpc = [c \in Clients |-> "idle"]
    /\ asked = [c \in Clients |-> NoRequest]
    /\ receipt = [c \in Clients |-> NoJob]
    /\ told = [c \in Clients |-> NoReply]
    /\ restarts = 0

(* A client posts; a request that still waits for a thread has no effect   *)
(* on the server yet.  The first conjunct keeps an id for every handler.   *)
Submit(th, c, r) ==
    /\ Cardinality(Issued) + Cardinality(Undecided) < Cardinality(JobIds)
    /\ cpc[c] = "idle"
    /\ pc[th] = "idle"
    /\ Goto(th, "limit")
    /\ req' = [req EXCEPT ![th] = r]
    /\ serves' = [serves EXCEPT ![th] = c]
    /\ cpc' = [cpc EXCEPT ![c] = "posting"]
    /\ asked' = [asked EXCEPT ![c] = r]
    /\ told' = [told EXCEPT ![c] = NoReply]
    /\ UNCHANGED <<jobs, origin, own, draft, receipt, restarts>>

(* enforce_infer_rate_limit raises 429 or returns.                         *)
RateLimited(th) ==
    /\ pc[th] = "limit"
    /\ Answer(th, Error(429))
    /\ UNCHANGED <<jobs, origin, req, own, serves, clientVars, restarts>>

WithinLimit(th) ==
    /\ pc[th] = "limit"
    /\ Goto(th, "validate")
    /\ UNCHANGED <<jobs, origin, req, own, serves, draft, clientVars, restarts>>

Refuse(th) ==
    /\ pc[th] = "validate"
    /\ Verdict(req[th]) # 200
    /\ Answer(th, Error(Verdict(req[th])))
    /\ UNCHANGED <<jobs, origin, req, own, serves, clientVars, restarts>>

(* The CKKS context of the model cannot be made: 500, and still no job.    *)
ContextFails(th) ==
    /\ pc[th] = "validate"
    /\ BackendRaises
    /\ req[th].route = "infer" /\ req[th].wellFormed /\ req[th].model \in Models
    /\ Answer(th, Error(500))
    /\ UNCHANGED <<jobs, origin, req, own, serves, clientVars, restarts>>

Validated(th) ==
    /\ pc[th] = "validate"
    /\ Verdict(req[th]) = 200
    /\ Goto(th, "create")
    /\ UNCHANGED <<jobs, origin, req, own, serves, draft, clientVars, restarts>>

(* create_job: uuid4 never returns an id twice, restarts included.         *)
CreateJob(th) ==
    /\ pc[th] = "create"
    /\ \E id \in JobIds \ Issued :
          /\ jobs' = [jobs EXCEPT ![id] = NewJob(req[th])]
          /\ origin' = [origin EXCEPT ![id] = req[th]]
          /\ own' = [own EXCEPT ![th] = id]
    /\ Goto(th, "start")
    /\ UNCHANGED <<req, serves, draft, clientVars, restarts>>

StartJob(th) ==
    /\ pc[th] = "start"
    /\ jobs' = [jobs EXCEPT ![own[th]].status = "running"]
    /\ Goto(th, "evaluate")
    /\ UNCHANGED <<origin, req, own, serves, draft, clientVars, restarts>>

Evaluate(th) ==
    /\ pc[th] = "evaluate"
    /\ Evaluable(req[th])
    /\ Goto(th, "complete")
    /\ UNCHANGED <<jobs, origin, req, own, serves, draft, clientVars, restarts>>

(* The evaluator, or the backend under it, raises: 500, and the handler    *)
(* leaves the job as it is (fail_job has no caller).                       *)
EvaluationRaises(th) ==
    /\ pc[th] = "evaluate"
    /\ BackendRaises \/ ~Evaluable(req[th])
    /\ Answer(th, Error(500))
    /\ UNCHANGED <<jobs, origin, req, own, serves, clientVars, restarts>>

(* complete_job writes the status first ...                                *)
SetCompleted(th) ==
    /\ pc[th] = "complete"
    /\ jobs' = [jobs EXCEPT ![own[th]].status = "completed"]
    /\ Goto(th, "result")
    /\ UNCHANGED <<origin, req, own, serves, draft, clientVars, restarts>>

(* ... and the result after it; then the route returns.                    *)
SetResult(th) ==
    /\ pc[th] = "result"
    /\ jobs' = [jobs EXCEPT ![own[th]].result =
                   ResultFor(jobs[own[th]].model, req[th])]
    /\ Answer(th, Accepted(req[th], own[th]))
    /\ UNCHANGED <<origin, req, own, serves, clientVars, restarts>>

(* GET /jobs/{id} by a client that was told the id.                        *)
Poll(th, c) ==
    /\ cpc[c] = "holding"
    /\ pc[th] = "idle"
    /\ Goto(th, "lookup")
    /\ own' = [own EXCEPT ![th] = receipt[c]]
    /\ serves' = [serves EXCEPT ![th] = c]
    /\ cpc' = [cpc EXCEPT ![c] = "polling"]
    /\ UNCHANGED <<jobs, origin, req, draft, asked, receipt, told, restarts>>

UnknownJob(th) ==
    /\ pc[th] = "lookup"
    /\ jobs[own[th]] = Absent
    /\ Answer(th, Error(404))
    /\ UNCHANGED <<jobs, origin, req, own, serves, clientVars, restarts>>

FoundJob(th) ==
    /\ pc[th] = "lookup"
    /\ jobs[own[th]] # Absent
    /\ Goto(th, "status")
    /\ UNCHANGED <<jobs, origin, req, own, serves, draft, clientVars, restarts>>

(* The route reads the status, and for a completed job the result after    *)
(* it; any other status goes out as it is.                                 *)
ReadStatus(th) ==
    /\ pc[th] = "status"
    /\ LET job == jobs[own[th]] IN
       IF job.status = "completed"
       THEN Goto(th, "fetch") /\ UNCHANGED draft
       ELSE Answer(th, Reply(200, job.status, own[th], NoResult))
    /\ UNCHANGED <<jobs, origin, req, own, serves, clientVars, restarts>>

(* job["result"] is a KeyError, and a 500, as long as there is none.       *)
ReadResult(th) ==
    /\ pc[th] = "fetch"
    /\ LET job == jobs[own[th]] IN
       Answer(th, IF job.result = NoResult THEN Error(500)
                  ELSE Reply(200, "completed", NoJob, job.result))
    /\ UNCHANGED <<jobs, origin, req, own, serves, clientVars, restarts>>

(* What a client knows after a response: POST /infer leaves it with a job  *)
(* id, everything else it posts is over, and a poll can be repeated.       *)
Receive(c, reply) ==
    /\ told' = [told EXCEPT ![c] = reply]
    /\ receipt' = [receipt EXCEPT ![c] =
                      IF cpc[c] = "posting" THEN reply.job ELSE @]
    /\ cpc' = [cpc EXCEPT ![c] =
                  IF receipt'[c] = NoJob THEN "idle" ELSE "holding"]

Deliver(th) ==
    /\ pc[th] = "reply"
    /\ Goto(th, "idle")
    /\ req' = [req EXCEPT ![th] = NoRequest]
    /\ own' = [own EXCEPT ![th] = NoJob]
    /\ serves' = [serves EXCEPT ![th] = Gone]
    /\ draft' = [draft EXCEPT ![th] = NoReply]
    /\ IF serves[th] = Gone THEN UNCHANGED <<cpc, receipt, told>>
                            ELSE Receive(serves[th], draft[th])
    /\ UNCHANGED <<jobs, origin, asked, restarts>>

----------------------------------------------------------------------------
(* A client without its connection: what it posted is lost to it, what it  *)
(* polled it can poll again.                                               *)
CutOff(state) ==
    CASE state = "posting" -> "idle"
      [] state = "polling" -> "holding"
      [] OTHER -> state

(* The client's socket timeout; the SDK raises ConnectionError.            *)
ClientTimeout(c) ==
    /\ cpc[c] \in {"posting", "polling"}
    /\ cpc' = [cpc EXCEPT ![c] = CutOff(@)]
    /\ serves' = [th \in Threads |-> IF serves[th] = c THEN Gone ELSE serves[th]]
    /\ UNCHANGED <<jobs, origin, pc, req, own, draft, asked, receipt, told,
                   restarts>>

(* The client has what it wanted, or has given up.                         *)
Forget(c) ==
    /\ cpc[c] = "holding"
    /\ cpc' = [cpc EXCEPT ![c] = "idle"]
    /\ receipt' = [receipt EXCEPT ![c] = NoJob]
    /\ told' = [told EXCEPT ![c] = NoReply]
    /\ UNCHANGED <<serverVars, asked, restarts>>

(* The process dies and comes back with an empty JOB_STORE.                *)
Restart ==
    /\ restarts < MaxRestarts
    /\ restarts' = restarts + 1
    /\ jobs' = [id \in JobIds |-> Absent]
    /\ pc' = [th \in Threads |-> "idle"]
    /\ req' = [th \in Threads |-> NoRequest]
    /\ own' = [th \in Threads |-> NoJob]
    /\ serves' = [th \in Threads |-> Gone]
    /\ draft' = [th \in Threads |-> NoReply]
    /\ cpc' = [c \in Clients |-> CutOff(cpc[c])]
    /\ UNCHANGED <<origin, asked, receipt, told>>

PostStep(th) ==
    \/ RateLimited(th)
    \/ WithinLimit(th)
    \/ Refuse(th)
    \/ ContextFails(th)
    \/ Validated(th)
    \/ CreateJob(th)
    \/ StartJob(th)
    \/ Evaluate(th)
    \/ EvaluationRaises(th)
    \/ SetCompleted(th)
    \/ SetResult(th)

GetStep(th) ==
    \/ UnknownJob(th)
    \/ FoundJob(th)
    \/ ReadStatus(th)
    \/ ReadResult(th)

HandlerStep(th) == PostStep(th) \/ GetStep(th) \/ Deliver(th)

Next ==
    \/ \E th \in Threads :
          \/ \E c \in Clients, r \in Requests : Submit(th, c, r)
          \/ \E c \in Clients : Poll(th, c)
          \/ HandlerStep(th)
    \/ \E c \in Clients : ClientTimeout(c) \/ Forget(c)
    \/ Restart

Spec == Init /\ [][Next]_vars

(* A worker thread that has a handler runs it: nothing in a handler waits  *)
(* for another one.  Clients and restarts are under no obligation.         *)
FairSpec == Spec /\ \A th \in Threads : WF_vars(HandlerStep(th))
----------------------------------------------------------------------------
PostPcs == {"limit", "validate", "create"} \cup WorkPcs
GetPcs  == {"lookup", "status", "fetch"}

(* Every variable has its type.                                            *)
TypeOK ==
    /\ jobs \in [JobIds -> Jobs \cup {Absent}]
    /\ origin \in [JobIds -> Requests \cup {NoRequest}]
    /\ pc \in [Threads -> {"idle", "reply"} \cup PostPcs \cup GetPcs]
    /\ req \in [Threads -> Requests \cup {NoRequest}]
    /\ own \in [Threads -> JobIds \cup {NoJob}]
    /\ serves \in [Threads -> Clients \cup {Gone}]
    /\ draft \in [Threads -> Replies \cup {NoReply}]
    /\ cpc \in [Clients -> {"idle", "posting", "holding", "polling"}]
    /\ asked \in [Clients -> Requests \cup {NoRequest}]
    /\ receipt \in [Clients -> JobIds \cup {NoJob}]
    /\ told \in [Clients -> Replies \cup {NoReply}]
    /\ restarts \in Nat

(* A restart took the job away; nothing else ever does.                    *)
Lost(id) == jobs[id] = Absent /\ restarts > 0

(* The job a request leaves behind when all went well.                     *)
Finished(r) ==
    [model |-> r.model, status |-> "completed", result |-> ResultFor(r.model, r)]

(* A client that was told a job id can rely on it: the id is the job of    *)
(* its own request, and the job has its own complete result, unless a      *)
(* restart has lost it.  POST /infer answers only after complete_job.      *)
ReceiptHonoured ==
    \A c \in Clients : receipt[c] # NoJob =>
        /\ origin[receipt[c]] = asked[c]
        /\ jobs[receipt[c]] = Finished(asked[c]) \/ Lost(receipt[c])

(* No GET reads between the two writes of complete_job, although nothing   *)
(* locks the store: every poll is answered with the final result of the    *)
(* job it asks for, or with 404 after a restart; never a KeyError, and     *)
(* never a "running" that the SDK's wait would have to sleep on.           *)
FirstPollIsFinal ==
    \A th \in Threads : pc[th] = "reply" /\ req[th] = NoRequest =>
        LET r == origin[own[th]] IN
        \/ draft[th] = Reply(200, "completed", NoJob, ResultFor(r.model, r))
        \/ draft[th] = Error(404) /\ restarts > 0

(* No two handlers ever work on one job.                                   *)
SoleWriter ==
    \A th, other \in Threads :
        Working(th) /\ Working(other) /\ own[th] = own[other] => th = other

(* What can be left of a job that no handler works on: the finished job of *)
(* its request or, if its evaluation could not succeed, the job as         *)
(* start_job left it.  A handler is never lost between create_job and      *)
(* start_job or between the two writes of complete_job, whoever times out  *)
(* meanwhile; only a restart takes handlers, and it takes their jobs too.  *)
StrandedForCause ==
    \A id \in JobIds : jobs[id] # Absent =>
        \/ \E th \in Threads : Working(th) /\ own[th] = id
        \/ jobs[id] = Finished(origin[id])
        \/ /\ jobs[id] = [NewJob(origin[id]) EXCEPT !.status = "running"]
           /\ BackendRaises \/ ~Evaluable(origin[id])

(* An answer a POST may have: the limit; what the checks say of it; 500    *)
(* for a backend that raises or a model that cannot be evaluated on the    *)
(* inputs; the outputs of this very request, or the id of its own job.     *)
AnswerFits(r, reply) ==
    \/ reply = Error(429)
    \/ Verdict(r) # 200 /\ reply = Error(Verdict(r))
    \/ /\ reply = Error(500)
       /\ r.wellFormed /\ r.model \in Models
       /\ BackendRaises \/ (Verdict(r) = 200 /\ ~Evaluable(r))
    \/ /\ Verdict(r) = 200 /\ Evaluable(r)
       /\ \E id \in JobIds : origin[id] = r /\ reply = Accepted(r, id)

(* Every answer to a POST has its cause in the request it answers, with    *)
(* the handler and still with the client, whose earlier requests may have  *)
(* handlers left: nobody gets what another request computed, nor a 200 for *)
(* an evaluation that failed, nor an error that is not its own.            *)
AnswerHasCause ==
    /\ \A th \in Threads :
          pc[th] = "reply" /\ req[th] # NoRequest => AnswerFits(req[th], draft[th])
    /\ \A c \in Clients :
          cpc[c] = "idle" /\ told[c] # NoReply => AnswerFits(asked[c], told[c])

(* docs/api.md:103-104: "Job state transitions are monotonic" and "Results *)
(* are immutable once produced", whoever writes and in whatever order; the *)
(* model of a job never changes, and a job only goes away altogether.      *)
Later(old, new) ==
    /\ new.model = old.model
    /\ old.result # NoResult => new = old
    /\ <<old.status, new.status>> \in
          {<<s, s>> : s \in Statuses} \cup
          {<<"queued", "running">>, <<"running", "completed">>}

MovesForward(id) ==
    jobs[id] # Absent =>
        \/ jobs'[id] # Absent /\ Later(jobs[id], jobs'[id])
        \/ jobs'[id] = Absent /\ restarts' = restarts + 1

JobsMonotone == [][\A id \in JobIds : MovesForward(id)]_vars

(* What a client reads about one job never changes under it: the same      *)
(* result again, or 404 from a restart on; a job id is not recycled.       *)
ReadsOn(c) ==
    cpc[c] = "polling" /\ told'[c] # told[c] =>
        \/ told[c].job = receipt[c]              \* the first poll
        \/ told'[c] = Error(404) /\ restarts > 0

ReadsAgree == [][\A c \in Clients : ReadsOn(c)]_vars

(* A posting client gets an answer or sees its connection drop: no handler *)
(* waits for another one.                                                  *)
PostAnswered == \A c \in Clients : cpc[c] = "posting" ~> cpc[c] # "posting"

(* A job that is "completed" without a result does not stay so, even when  *)
(* the client that asked for it is gone.                                   *)
HalfWritten(id) ==
    jobs[id] # Absent /\ jobs[id].status = "completed" /\ jobs[id].result = NoResult

HalfWrittenHeals == \A id \in JobIds : HalfWritten(id) ~> ~HalfWritten(id)

(* A job that is not finished is being worked on.  Refuted: the handler    *)
(* that answers 500 leaves its job "running" for good.                     *)
NoStrandedJob ==
    \A id \in JobIds :
        jobs[id] # Absent /\ jobs[id].status # "completed"
            => \E th \in Threads : Working(th) /\ own[th] = id

(* What the checks of the route let through can be evaluated.  Refuted:    *)
(* one "pre-aggregated" ciphertext passes and always fails in evaluation.  *)
AcceptedIsEvaluable ==
    \A th \in Threads : Working(th) => Evaluable(req[th])
============================================================================
