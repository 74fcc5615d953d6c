--------------------------- MODULE GatewayProofs ---------------------------
(***************************************************************************)
(* Proofs about Gateway, for any number of threads, clients and jobs, any  *)
(* models and requests, and any number of restarts.                        *)
(***************************************************************************)
EXTENDS Gateway, FiniteSetTheorems, TLAPS

(* The job a handler holds, at each place of the handler.                  *)
StatusAt(label) ==
    CASE label = "start" -> "queued"
      [] label = "result" -> "completed"
      [] OTHER -> "running"

JobAt(label, r) ==
    [model |-> r.model, status |-> StatusAt(label), result |-> NoResult]

(* Nothing will ever change the job again, short of a restart.             *)
Settled(id) ==
    /\ origin[id] \in Requests
    /\ Verdict(origin[id]) = 200
    /\ jobs[id] = Finished(origin[id]) \/ Lost(id)

(* A POST handler has a request, and past the checks a valid one.          *)
PostInv ==
    \A th \in Threads :
        /\ pc[th] \in PostPcs => req[th] \in Requests
        /\ pc[th] \in WorkPcs \cup {"create"} => Verdict(req[th]) = 200

(* An id that was never given out names no job.                            *)
FreshInv == \A id \in JobIds : origin[id] = NoRequest => jobs[id] = Absent

(* The job of a handler is in the state its handler left it in.            *)
WorkOf(th) ==
    /\ own[th] \in JobIds
    /\ origin[own[th]] = req[th]
    /\ jobs[own[th]] = JobAt(pc[th], req[th])

WorkInv == \A th \in Threads : Working(th) => WorkOf(th)

(* A GET handler asks for a settled job, and keeps asking for it.          *)
GetOf(th) ==
    /\ pc[th] \in GetPcs \cup {"idle"} => req[th] = NoRequest
    /\ pc[th] \in GetPcs =>
          /\ own[th] \in JobIds
          /\ Settled(own[th])
          /\ pc[th] # "lookup" => jobs[own[th]] # Absent

GetInv == \A th \in Threads : GetOf(th)

(* What a handler is about to say is true, and stays true.                 *)
ReplyOf(th) ==
    /\ draft[th] \in Replies
    /\ req[th] = NoRequest =>
          /\ own[th] \in JobIds
          /\ Settled(own[th])
          /\ draft[th].job = NoJob
          /\ LET r == origin[own[th]] IN
             \/ /\ draft[th] = Reply(200, "completed", NoJob,
                                     ResultFor(r.model, r))
                /\ jobs[own[th]] = Finished(r)
             \/ draft[th] = Error(404) /\ jobs[own[th]] = Absent
    /\ draft[th].job # NoJob =>
          /\ origin[draft[th].job] = req[th]
          /\ Settled(draft[th].job)

ReplyInv == \A th \in Threads : pc[th] = "reply" => ReplyOf(th)

(* Connections: whom a thread serves waits for just this thread.           *)
ServeInv ==
    \A th \in Threads : serves[th] # Gone =>
        /\ pc[th] # "idle"
        /\ req[th] # NoRequest =>
              cpc[serves[th]] = "posting" /\ asked[serves[th]] = req[th]
        /\ req[th] = NoRequest =>
              cpc[serves[th]] = "polling" /\ own[th] = receipt[serves[th]]
        /\ \A other \in Threads : serves[other] = serves[th] => other = th

(* A client holds an id exactly while it can poll; the id is settled, and  *)
(* the latest it has heard of the job is true.                             *)
ClientOf(c) ==
    /\ receipt[c] # NoJob <=> cpc[c] \in {"holding", "polling"}
    /\ receipt[c] # NoJob =>
          /\ origin[receipt[c]] = asked[c]
          /\ Settled(receipt[c])
          /\ \/ told[c].job = receipt[c]
             \/ told[c] = Reply(200, "completed", NoJob,
                                ResultFor(asked[c].model, asked[c]))
             \/ told[c] = Error(404) /\ Lost(receipt[c])

ClientInv == \A c \in Clients : ClientOf(c)

IInv ==
    /\ TypeOK
    /\ PostInv
    /\ FreshInv
    /\ WorkInv
    /\ SoleWriter
    /\ GetInv
    /\ ReplyInv
    /\ ServeInv
    /\ ClientInv

----------------------------------------------------------------------------
(* The data: what a valid request leads to has the right type.             *)
LEMMA VerdictType == \A r : Verdict(r) \in {200, 400, 404, 500}
  BY DEF Verdict, InferVerdict, PlainVerdict

LEMMA ResultType ==
  ASSUME NEW r \in Requests, Verdict(r) = 200
  PROVE  /\ r.model \in Models
         /\ ResultFor(r.model, r) \in Results
         /\ ResultFor(r.model, r) # NoResult
<1>1. r.model \in Models
  BY DEF Verdict, InferVerdict, PlainVerdict
<1>2. Output(r) \in Outputs
  BY <1>1 DEF Output, Outputs
<1>3. r.batch \in Nat
  BY RequestAssumption
<1>4. ResultFor(r.model, r) \in Results
  BY <1>1, <1>2, <1>3 DEF ResultFor, Results
<1> QED BY <1>1, <1>4, MarkerAssumption

LEMMA AcceptedType ==
  ASSUME NEW r \in Requests, Verdict(r) = 200, NEW id \in JobIds
  PROVE  /\ Accepted(r, id) \in Replies
         /\ Accepted(r, id).job \in {id, NoJob}
<1>1. r.model \in Models /\ Output(r) \in Outputs /\ r.batch \in Nat
  BY ResultType, RequestAssumption DEF Output, Outputs
<1>2. [model |-> r.model, payload |-> Output(r), batch |-> r.batch] \in Results
  BY <1>1 DEF Results
<1>3. CASE r.route = "plain"
  <2>1. Accepted(r, id) = PlainAnswer(r)
    BY <1>3 DEF Accepted
  <2>2. CASE r.finite
    BY <1>2, <2>1, <2>2 DEF PlainAnswer, Reply, Replies, Statuses
  <2>3. CASE ~r.finite
    BY <2>1, <2>3 DEF PlainAnswer, Error, Reply, Replies, Statuses
  <2> QED BY <2>2, <2>3
<1>4. CASE r.route # "plain"
  BY <1>4 DEF Accepted, Reply, Replies, Statuses
<1> QED BY <1>3, <1>4

LEMMA ErrorType ==
  \A code \in {400, 404, 429, 500} :
      Error(code) \in Replies /\ Error(code).job = NoJob
  BY DEF Error, Reply, Replies

LEMMA JobType ==
  ASSUME NEW r \in Requests, Verdict(r) = 200
  PROVE  /\ \A label \in WorkPcs : JobAt(label, r) \in Jobs
         /\ Finished(r) \in Jobs
         /\ NewJob(r) = JobAt("start", r)
  BY ResultType DEF JobAt, StatusAt, Finished, NewJob, Jobs, Statuses, WorkPcs

(* How a handler moves its job along.                                      *)
LEMMA JobMoves ==
  ASSUME NEW r
  PROVE  /\ [JobAt("start", r) EXCEPT !.status = "running"] = JobAt("evaluate", r)
         /\ JobAt("evaluate", r) = JobAt("complete", r)
         /\ [JobAt("complete", r) EXCEPT !.status = "completed"]
               = JobAt("result", r)
         /\ [JobAt("result", r) EXCEPT
                !.result = ResultFor(JobAt("result", r).model, r)] = Finished(r)
  BY DEF JobAt, StatusAt, Finished

----------------------------------------------------------------------------
(* Initially nothing is going on.                                          *)
LEMMA InitIInv == Init => IInv
<1> SUFFICES ASSUME Init PROVE IInv
  OBVIOUS
<1> USE DEF Init
<1>1. TypeOK
  BY DEF TypeOK
<1>2. PostInv /\ FreshInv /\ WorkInv /\ SoleWriter /\ GetInv
  BY DEF PostInv, FreshInv, WorkInv, SoleWriter, GetInv, GetOf, Working, WorkPcs,
         PostPcs, GetPcs
<1>3. ReplyInv /\ ServeInv /\ ClientInv
  BY DEF ReplyInv, ServeInv, ClientInv, ClientOf
<1> QED BY <1>1, <1>2, <1>3 DEF IInv

(* Every action keeps the types.                                           *)
LEMMA TypeStep == IInv /\ [Next]_vars => TypeOK'
<1> SUFFICES ASSUME IInv, [Next]_vars PROVE TypeOK'
  OBVIOUS
<1>0. TypeOK /\ PostInv /\ WorkInv
  BY DEF IInv
<1> USE <1>0 DEF TypeOK
<1> USE DEF PostPcs, WorkPcs, GetPcs
<1>1. ASSUME NEW th \in Threads, NEW c \in Clients, NEW r \in Requests,
             Submit(th, c, r)
      PROVE  TypeOK'
  BY <1>1 DEF Submit, Goto
<1>2. ASSUME NEW th \in Threads, NEW c \in Clients, Poll(th, c)
      PROVE  TypeOK'
  BY <1>2 DEF Poll, Goto
<1>3. ASSUME NEW th \in Threads, NEW reply \in Replies, Answer(th, reply)
      PROVE  /\ pc' \in [Threads -> {"idle", "reply"} \cup PostPcs \cup GetPcs]
             /\ draft' \in [Threads -> Replies \cup {NoReply}]
  BY <1>3 DEF Answer, Goto
<1>4. ASSUME NEW th \in Threads, RateLimited(th) PROVE TypeOK'
  BY <1>3, <1>4, ErrorType DEF RateLimited, clientVars
<1>5. ASSUME NEW th \in Threads, WithinLimit(th) \/ Validated(th) \/ Evaluate(th)
      PROVE  TypeOK'
  BY <1>5 DEF WithinLimit, Validated, Evaluate, Goto, clientVars
<1>6. ASSUME NEW th \in Threads, Refuse(th) PROVE TypeOK'
  <2>1. Verdict(req[th]) \in {400, 404, 500}
    BY <1>6, VerdictType DEF Refuse
  <2> QED BY <2>1, <1>3, <1>6, ErrorType DEF Refuse, clientVars
<1>6a. ASSUME NEW th \in Threads, ContextFails(th) PROVE TypeOK'
  BY <1>3, <1>6a, ErrorType DEF ContextFails, clientVars
<1>7. ASSUME NEW th \in Threads, CreateJob(th) PROVE TypeOK'
  <2>1. req[th] \in Requests /\ Verdict(req[th]) = 200
    BY <1>7 DEF CreateJob, PostInv
  <2>2. NewJob(req[th]) \in Jobs
    BY <2>1, JobType
  <2> QED BY <2>1, <2>2, <1>7 DEF CreateJob, Goto, clientVars
<1>8. ASSUME NEW th \in Threads, Working(th)
      PROVE  /\ own[th] \in JobIds
             /\ req[th] \in Requests
             /\ Verdict(req[th]) = 200
             /\ jobs[own[th]] = JobAt(pc[th], req[th])
  BY <1>8 DEF Working, PostInv, WorkInv, WorkOf
<1>9. ASSUME NEW th \in Threads, StartJob(th) PROVE TypeOK'
  <2>1. Working(th) /\ pc[th] = "start"
    BY <1>9 DEF StartJob, Working
  <2>2. [jobs[own[th]] EXCEPT !.status = "running"] \in Jobs
    BY <1>8, <2>1, JobType, JobMoves
  <2> QED BY <2>1, <2>2, <1>8, <1>9 DEF StartJob, Goto, clientVars
<1>10. ASSUME NEW th \in Threads, EvaluationRaises(th) PROVE TypeOK'
  BY <1>3, <1>10, ErrorType DEF EvaluationRaises, clientVars
<1>11. ASSUME NEW th \in Threads, SetCompleted(th) PROVE TypeOK'
  <2>1. Working(th) /\ pc[th] = "complete"
    BY <1>11 DEF SetCompleted, Working
  <2>2. [jobs[own[th]] EXCEPT !.status = "completed"] \in Jobs
    BY <1>8, <2>1, JobType, JobMoves
  <2> QED BY <2>1, <2>2, <1>8, <1>11 DEF SetCompleted, Goto, clientVars
<1>12. ASSUME NEW th \in Threads, SetResult(th) PROVE TypeOK'
  <2>1. Working(th) /\ pc[th] = "result"
    BY <1>12 DEF SetResult, Working
  <2>2. [jobs[own[th]] EXCEPT !.result =
            ResultFor(jobs[own[th]].model, req[th])] \in Jobs
    BY <1>8, <2>1, JobType, JobMoves
  <2>3. Accepted(req[th], own[th]) \in Replies
    BY <1>8, <2>1, AcceptedType
  <2> QED BY <2>1, <2>2, <2>3, <1>3, <1>8, <1>12
          DEF SetResult, clientVars
<1>13. ASSUME NEW th \in Threads, UnknownJob(th) PROVE TypeOK'
  BY <1>3, <1>13, ErrorType DEF UnknownJob, clientVars
<1>14. ASSUME NEW th \in Threads, FoundJob(th) PROVE TypeOK'
  BY <1>14 DEF FoundJob, Goto, clientVars
<1>15. ASSUME NEW th \in Threads, pc[th] \in {"status", "fetch"}
       PROVE  own[th] \in JobIds /\ jobs[own[th]] \in Jobs
  BY <1>15, MarkerAssumption DEF IInv, GetInv, GetOf
<1>16. ASSUME NEW th \in Threads, ReadStatus(th) PROVE TypeOK'
  <2>1. own[th] \in JobIds /\ jobs[own[th]] \in Jobs
    BY <1>15, <1>16 DEF ReadStatus
  <2>2. Reply(200, jobs[own[th]].status, own[th], NoResult) \in Replies
    BY <2>1 DEF Jobs, Reply, Replies
  <2> QED BY <2>1, <2>2, <1>3, <1>16 DEF ReadStatus, Goto, clientVars
<1>17. ASSUME NEW th \in Threads, ReadResult(th) PROVE TypeOK'
  <2>1. jobs[own[th]] \in Jobs
    BY <1>15, <1>17 DEF ReadResult
  <2>2. jobs[own[th]].result # NoResult =>
          Reply(200, "completed", NoJob, jobs[own[th]].result) \in Replies
    BY <2>1 DEF Jobs, Reply, Replies, Statuses
  <2> QED BY <2>1, <2>2, <1>3, <1>17, ErrorType DEF ReadResult, clientVars
<1>18. ASSUME NEW th \in Threads, Deliver(th) PROVE TypeOK'
  <2>1. draft[th] \in Replies
    BY <1>18 DEF Deliver, IInv, ReplyInv, ReplyOf
  <2>2. draft[th].job \in JobIds \cup {NoJob}
    BY <2>1 DEF Replies
  <2>3. CASE serves[th] = Gone
    BY <2>3, <1>18 DEF Deliver, Goto
  <2>4. CASE serves[th] # Gone
    <3>1. serves[th] \in Clients /\ Receive(serves[th], draft[th])
      BY <2>4, <1>18 DEF Deliver
    <3>2. /\ told' \in [Clients -> Replies \cup {NoReply}]
          /\ receipt' \in [Clients -> JobIds \cup {NoJob}]
          /\ cpc' \in [Clients -> {"idle", "posting", "holding", "polling"}]
      BY <3>1, <2>1, <2>2 DEF Receive
    <3> QED BY <3>2, <1>18 DEF Deliver, Goto
  <2> QED BY <2>3, <2>4
<1>19. ASSUME NEW c \in Clients, ClientTimeout(c) PROVE TypeOK'
  BY <1>19 DEF ClientTimeout, CutOff
<1>20. ASSUME NEW c \in Clients, Forget(c) PROVE TypeOK'
  BY <1>20 DEF Forget, serverVars
<1>21. CASE Restart
  <2>1. \A c \in Clients :
          CutOff(cpc[c]) \in {"idle", "posting", "holding", "polling"}
    BY DEF CutOff
  <2> QED BY <2>1, <1>21 DEF Restart
<1>22. CASE UNCHANGED vars
  BY <1>22 DEF vars, serverVars, clientVars
<1> QED BY <1>1, <1>2, <1>4, <1>5, <1>6, <1>6a, <1>7, <1>9, <1>10, <1>11, <1>12,
           <1>13, <1>14, <1>16, <1>17, <1>18, <1>19, <1>20, <1>21, <1>22
        DEF Next, HandlerStep, PostStep, GetStep

----------------------------------------------------------------------------
(* A job that a handler works on is not settled.                           *)
LEMMA WorkingJob ==
  ASSUME IInv, NEW th \in Threads, Working(th)
  PROVE  /\ own[th] \in JobIds
         /\ req[th] \in Requests
         /\ Verdict(req[th]) = 200
         /\ origin[own[th]] = req[th]
         /\ jobs[own[th]] = JobAt(pc[th], req[th])
         /\ jobs[own[th]] # Absent
         /\ ~Settled(own[th])
<1>1. /\ own[th] \in JobIds
      /\ req[th] \in Requests
      /\ Verdict(req[th]) = 200
      /\ origin[own[th]] = req[th]
      /\ jobs[own[th]] = JobAt(pc[th], req[th])
      /\ pc[th] \in WorkPcs
  BY DEF IInv, PostInv, WorkInv, WorkOf, Working, PostPcs
<1>2. jobs[own[th]] # Absent
  BY <1>1, JobType, MarkerAssumption
<1>3. JobAt(pc[th], req[th]) # Finished(req[th])
  BY <1>1, ResultType DEF JobAt, Finished
<1> QED BY <1>1, <1>2, <1>3 DEF Settled, Lost

(* What a step can do to the store: make a job of an unused id, move the   *)
(* job of one handler, lose everything, or nothing.                        *)
CreatesJob(th, id) ==
    /\ pc[th] = "create"
    /\ origin[id] = NoRequest
    /\ jobs' = [jobs EXCEPT ![id] = NewJob(req[th])]
    /\ origin' = [origin EXCEPT ![id] = req[th]]
    /\ UNCHANGED restarts

MovesJob(th) ==
    /\ Working(th)
    /\ \E job \in Jobs : jobs' = [jobs EXCEPT ![own[th]] = job]
    /\ UNCHANGED <<origin, restarts>>

LosesJobs ==
    /\ jobs' = [id \in JobIds |-> Absent]
    /\ UNCHANGED origin
    /\ restarts' = restarts + 1

LEMMA HandlerStoreStep ==
  ASSUME IInv, NEW th \in Threads, HandlerStep(th)
  PROVE  \/ \E id \in JobIds : CreatesJob(th, id)
         \/ MovesJob(th)
         \/ UNCHANGED <<jobs, origin, restarts>>
<1>0. TypeOK
  BY DEF IInv
<1>1. CASE \/ RateLimited(th) \/ WithinLimit(th) \/ Refuse(th)
           \/ ContextFails(th)
           \/ Validated(th) \/ Evaluate(th) \/ EvaluationRaises(th)
           \/ GetStep(th) \/ Deliver(th)
  BY <1>1 DEF RateLimited, WithinLimit, Refuse, ContextFails,
     Validated, Evaluate,
              EvaluationRaises, GetStep, UnknownJob, FoundJob, ReadStatus,
              ReadResult, Deliver
<1>2. CASE CreateJob(th)
  BY <1>2 DEF CreateJob, CreatesJob, Issued
<1>3. ASSUME Working(th), NEW job \in Jobs,
             jobs' = [jobs EXCEPT ![own[th]] = job],
             UNCHANGED <<origin, restarts>>
      PROVE  MovesJob(th)
  BY <1>3 DEF MovesJob
<1>4. CASE StartJob(th)
  <2>1. Working(th) /\ pc[th] = "start"
    BY <1>4 DEF StartJob, Working, WorkPcs
  <2>2. [jobs[own[th]] EXCEPT !.status = "running"] \in Jobs
    BY <2>1, WorkingJob, JobType, JobMoves DEF WorkPcs
  <2> QED BY <2>1, <2>2, <1>3, <1>4 DEF StartJob
<1>5. CASE SetCompleted(th)
  <2>1. Working(th) /\ pc[th] = "complete"
    BY <1>5 DEF SetCompleted, Working, WorkPcs
  <2>2. [jobs[own[th]] EXCEPT !.status = "completed"] \in Jobs
    BY <2>1, WorkingJob, JobType, JobMoves DEF WorkPcs
  <2> QED BY <2>1, <2>2, <1>3, <1>5 DEF SetCompleted
<1>6. CASE SetResult(th)
  <2>1. Working(th) /\ pc[th] = "result"
    BY <1>6 DEF SetResult, Working, WorkPcs
  <2>2. [jobs[own[th]] EXCEPT !.result =
           ResultFor(jobs[own[th]].model, req[th])] \in Jobs
    BY <2>1, WorkingJob, JobType, JobMoves
  <2> QED BY <2>1, <2>2, <1>3, <1>6 DEF SetResult
<1> QED BY <1>1, <1>2, <1>4, <1>5, <1>6 DEF HandlerStep, PostStep

LEMMA StoreSteps ==
  ASSUME IInv, [Next]_vars
  PROVE  \/ \E th \in Threads, id \in JobIds : CreatesJob(th, id)
         \/ \E th \in Threads : MovesJob(th)
         \/ LosesJobs
         \/ UNCHANGED <<jobs, origin, restarts>>
<1>1. ASSUME NEW th \in Threads, NEW c \in Clients,
             Poll(th, c) \/ \E r \in Requests : Submit(th, c, r)
      PROVE  UNCHANGED <<jobs, origin, restarts>>
  BY <1>1 DEF Submit, Poll
<1>2. ASSUME NEW c \in Clients, ClientTimeout(c) \/ Forget(c)
      PROVE  UNCHANGED <<jobs, origin, restarts>>
  BY <1>2 DEF ClientTimeout, Forget, serverVars
<1>3. CASE \E th \in Threads : HandlerStep(th)
  BY <1>3, HandlerStoreStep
<1>4. CASE Restart
  BY <1>4 DEF Restart, LosesJobs
<1>5. CASE UNCHANGED vars
  BY <1>5 DEF vars, serverVars
<1> QED BY <1>1, <1>2, <1>3, <1>4, <1>5 DEF Next

LEMMA SettledJob ==
  ASSUME NEW id \in JobIds, Settled(id)
  PROVE  LET r == origin[id] IN
         /\ r \in Requests
         /\ ResultFor(r.model, r) \in Results
         /\ Finished(r) # Absent
         /\ jobs[id] # Absent => jobs[id] = Finished(r)
         /\ jobs[id] = Absent => restarts > 0
  BY ResultType, JobType, MarkerAssumption DEF Settled, Lost

(* A settled job, and the request it was made for, stay as they are until  *)
(* a restart loses the job for good.                                       *)
LEMMA SettledStays ==
  ASSUME IInv, [Next]_vars, NEW id \in JobIds, Settled(id)
  PROVE  /\ Settled(id)'
         /\ origin'[id] = origin[id]
         /\ \/ jobs'[id] = jobs[id] /\ restarts' = restarts
            \/ jobs'[id] = Absent /\ restarts' = restarts + 1
<1>0. TypeOK
  BY DEF IInv
<1>1. ASSUME NEW th \in Threads, NEW new \in JobIds, CreatesJob(th, new)
      PROVE  id # new
  BY <1>1, MarkerAssumption DEF CreatesJob, Settled
<1>2. ASSUME NEW th \in Threads, MovesJob(th)
      PROVE  id # own[th]
  BY <1>2, WorkingJob DEF MovesJob
<1>3. ASSUME jobs'[id] = jobs[id], origin'[id] = origin[id], UNCHANGED restarts
      PROVE  Settled(id)'
  BY <1>3 DEF Settled, Lost
<1>4. CASE \E th \in Threads, new \in JobIds : CreatesJob(th, new)
  <2>1. /\ jobs'[id] = jobs[id]
        /\ origin'[id] = origin[id]
        /\ UNCHANGED restarts
    BY <1>0, <1>1, <1>4 DEF CreatesJob, TypeOK
  <2> QED BY <2>1, <1>3
<1>5. CASE \E th \in Threads : MovesJob(th)
  <2>1. /\ jobs'[id] = jobs[id]
        /\ origin'[id] = origin[id]
        /\ UNCHANGED restarts
    BY <1>0, <1>2, <1>5 DEF MovesJob, TypeOK
  <2> QED BY <2>1, <1>3
<1>6. CASE LosesJobs
  BY <1>0, <1>6 DEF LosesJobs, Settled, Lost, TypeOK
<1>7. CASE UNCHANGED <<jobs, origin, restarts>>
  BY <1>3, <1>7
<1> QED BY <1>4, <1>5, <1>6, <1>7, StoreSteps

----------------------------------------------------------------------------
(* Handlers only get past the checks with a request that passes them.      *)
LEMMA PostStepInv == IInv /\ [Next]_vars => PostInv'
<1> SUFFICES ASSUME IInv, [Next]_vars PROVE PostInv'
  OBVIOUS
<1>0. TypeOK /\ PostInv
  BY DEF IInv
<1> USE <1>0 DEF TypeOK, PostInv, PostPcs, WorkPcs
<1>1. ASSUME NEW th \in Threads, NEW c \in Clients, NEW r \in Requests,
             Submit(th, c, r)
      PROVE  PostInv'
  BY <1>1 DEF Submit, Goto
<1>2. ASSUME NEW th \in Threads, NEW c \in Clients, Poll(th, c)
      PROVE  PostInv'
  BY <1>2 DEF Poll, Goto
<1>3. ASSUME NEW th \in Threads, PostStep(th)
      PROVE  PostInv'
  BY <1>3 DEF PostStep, RateLimited, WithinLimit, Refuse, ContextFails,
     Validated, CreateJob,
              StartJob, Evaluate, EvaluationRaises, SetCompleted, SetResult,
              Answer, Goto
<1>4. ASSUME NEW th \in Threads, GetStep(th)
      PROVE  PostInv'
  BY <1>4 DEF GetStep, UnknownJob, FoundJob, ReadStatus, ReadResult, Answer, Goto
<1>5. ASSUME NEW th \in Threads, Deliver(th)
      PROVE  PostInv'
  BY <1>5 DEF Deliver, Goto
<1>6. ASSUME NEW c \in Clients, ClientTimeout(c) \/ Forget(c)
      PROVE  PostInv'
  BY <1>6 DEF ClientTimeout, Forget, serverVars
<1>7. CASE Restart
  BY <1>7 DEF Restart
<1>8. CASE UNCHANGED vars
  BY <1>8 DEF vars, serverVars
<1> QED BY <1>1, <1>2, <1>3, <1>4, <1>5, <1>6, <1>7, <1>8
        DEF Next, HandlerStep

(* Ids that were not given out stay unused.                                *)
LEMMA FreshStepInv == IInv /\ [Next]_vars => FreshInv'
<1> SUFFICES ASSUME IInv, [Next]_vars PROVE FreshInv'
  OBVIOUS
<1>0. TypeOK /\ FreshInv
  BY DEF IInv
<1>1. ASSUME NEW th \in Threads, NEW id \in JobIds, CreatesJob(th, id)
      PROVE  FreshInv'
  <2>1. req[th] # NoRequest
    BY <1>1, MarkerAssumption DEF IInv, PostInv, CreatesJob, PostPcs
  <2> QED BY <1>0, <1>1, <2>1 DEF CreatesJob, FreshInv, TypeOK
<1>2. ASSUME NEW th \in Threads, MovesJob(th) PROVE FreshInv'
  <2>1. own[th] \in JobIds /\ origin[own[th]] # NoRequest
    BY <1>2, WorkingJob, MarkerAssumption DEF MovesJob
  <2> QED BY <1>0, <1>2, <2>1 DEF MovesJob, FreshInv, TypeOK
<1>3. CASE LosesJobs
  BY <1>3 DEF LosesJobs, FreshInv
<1>4. CASE UNCHANGED <<jobs, origin, restarts>>
  BY <1>0, <1>4 DEF FreshInv
<1> QED BY <1>1, <1>2, <1>3, <1>4, StoreSteps

(* A fresh id belongs to nobody, so no two handlers share a job.           *)
LEMMA SoleWriterStep == IInv /\ [Next]_vars => SoleWriter'
<1> SUFFICES ASSUME IInv, [Next]_vars PROVE SoleWriter'
  OBVIOUS
<1>0. TypeOK /\ SoleWriter
  BY DEF IInv
<1> USE <1>0 DEF TypeOK, SoleWriter, Working, WorkPcs
<1>1. ASSUME NEW th \in Threads, NEW c \in Clients,
             Poll(th, c) \/ \E r \in Requests : Submit(th, c, r)
      PROVE  SoleWriter'
  BY <1>1 DEF Submit, Poll, Goto
<1>2. ASSUME NEW th \in Threads, CreateJob(th)
      PROVE  SoleWriter'
  <2>1. PICK id \in JobIds \ Issued : own' = [own EXCEPT ![th] = id]
    BY <1>2 DEF CreateJob
  <2>2. pc' = [pc EXCEPT ![th] = "start"] /\ pc[th] = "create"
    BY <1>2 DEF CreateJob, Goto
  <2>3. ASSUME NEW other \in Threads, Working(other)
        PROVE  own[other] # id
    BY <2>3, WorkingJob, MarkerAssumption DEF Issued
  <2> QED BY <2>1, <2>2, <2>3
<1>3. ASSUME NEW th \in Threads,
             \/ RateLimited(th) \/ WithinLimit(th) \/ Refuse(th)
             \/ ContextFails(th)
             \/ Validated(th) \/ StartJob(th) \/ Evaluate(th)
             \/ EvaluationRaises(th) \/ SetCompleted(th) \/ SetResult(th)
      PROVE  SoleWriter'
  BY <1>3 DEF RateLimited, WithinLimit, Refuse, ContextFails,
     Validated, StartJob, Evaluate,
              EvaluationRaises, SetCompleted, SetResult, Answer, Goto
<1>4. ASSUME NEW th \in Threads, GetStep(th)
      PROVE  SoleWriter'
  BY <1>4 DEF GetStep, UnknownJob, FoundJob, ReadStatus, ReadResult, Answer, Goto
<1>5. ASSUME NEW th \in Threads, Deliver(th)
      PROVE  SoleWriter'
  BY <1>5 DEF Deliver, Goto
<1>6. ASSUME NEW c \in Clients, ClientTimeout(c) \/ Forget(c)
      PROVE  SoleWriter'
  BY <1>6 DEF ClientTimeout, Forget, serverVars
<1>7. CASE Restart
  BY <1>7 DEF Restart
<1>8. CASE UNCHANGED vars
  BY <1>8 DEF vars, serverVars
<1> QED BY <1>1, <1>2, <1>3, <1>4, <1>5, <1>6, <1>7, <1>8
        DEF Next, HandlerStep, PostStep

(* The steps of one handler leave the jobs of the others alone.            *)
LEMMA OthersWork ==
  ASSUME IInv, NEW th \in Threads, HandlerStep(th),
         NEW other \in Threads, other # th, Working(other)
  PROVE  WorkOf(other)'
<1>0. /\ own[other] \in JobIds
      /\ origin[own[other]] = req[other]
      /\ req[other] \in Requests
      /\ jobs[own[other]] = JobAt(pc[other], req[other])
  BY WorkingJob
<1>1. TypeOK /\ SoleWriter
  BY DEF IInv
<1>2. /\ own'[other] = own[other]
      /\ pc'[other] = pc[other]
      /\ req'[other] = req[other]
  BY <1>1 DEF TypeOK, HandlerStep, PostStep, GetStep, RateLimited, WithinLimit,
     Refuse, ContextFails,
        Validated, CreateJob, StartJob, Evaluate, EvaluationRaises,
     SetCompleted, SetResult, UnknownJob, FoundJob, ReadStatus, ReadResult,
     Deliver, Answer, Goto
<1>3. CASE \E id \in JobIds : CreatesJob(th, id)
  <2>1. PICK id \in JobIds : CreatesJob(th, id)
    BY <1>3
  <2>2. own[other] # id
    BY <2>1, <1>0, MarkerAssumption DEF CreatesJob
  <2> QED BY <2>1, <2>2, <1>0, <1>1, <1>2 DEF CreatesJob, WorkOf, TypeOK
<1>4. CASE MovesJob(th)
  <2>1. own[other] # own[th] /\ own[th] \in JobIds
    BY <1>1, <1>4, WorkingJob DEF MovesJob, SoleWriter
  <2> QED BY <2>1, <1>0, <1>1, <1>2, <1>4 DEF MovesJob, WorkOf, TypeOK
<1>5. CASE UNCHANGED <<jobs, origin>>
  BY <1>0, <1>2, <1>5 DEF WorkOf
<1>6. \/ \E id \in JobIds : CreatesJob(th, id)
      \/ MovesJob(th)
      \/ UNCHANGED <<jobs, origin>>
  BY HandlerStoreStep
<1> QED BY <1>3, <1>4, <1>5, <1>6

(* A handler's own steps move its job as its place in the handler says.    *)
LEMMA OwnWork ==
  ASSUME IInv, NEW th \in Threads, HandlerStep(th), Working(th)'
  PROVE  WorkOf(th)'
<1>0. TypeOK
  BY DEF IInv
<1> USE <1>0 DEF TypeOK
<1>1. CASE CreateJob(th)
  <2>1. /\ pc[th] = "create" /\ pc'[th] = "start"
        /\ req' = req
        /\ req[th] \in Requests /\ Verdict(req[th]) = 200
    BY <1>1 DEF CreateJob, Goto, IInv, PostInv, PostPcs, WorkPcs
  <2>2. PICK id \in JobIds :
          /\ jobs' = [jobs EXCEPT ![id] = NewJob(req[th])]
          /\ origin' = [origin EXCEPT ![id] = req[th]]
          /\ own' = [own EXCEPT ![th] = id]
    BY <1>1 DEF CreateJob
  <2> QED BY <2>1, <2>2, JobType DEF WorkOf
<1>2. CASE StartJob(th)
  <2>1. /\ Working(th) /\ pc[th] = "start" /\ pc'[th] = "evaluate"
        /\ UNCHANGED <<req, own, origin>>
        /\ jobs' = [jobs EXCEPT ![own[th]] =
                       [jobs[own[th]] EXCEPT !.status = "running"]]
    BY <1>2 DEF StartJob, Goto, Working, WorkPcs
  <2> QED BY <2>1, WorkingJob, JobMoves DEF WorkOf
<1>3. CASE Evaluate(th)
  <2>1. /\ Working(th) /\ pc[th] = "evaluate" /\ pc'[th] = "complete"
        /\ UNCHANGED <<req, own, origin, jobs>>
    BY <1>3 DEF Evaluate, Goto, Working, WorkPcs
  <2> QED BY <2>1, WorkingJob, JobMoves DEF WorkOf
<1>4. CASE SetCompleted(th)
  <2>1. /\ Working(th) /\ pc[th] = "complete" /\ pc'[th] = "result"
        /\ UNCHANGED <<req, own, origin>>
        /\ jobs' = [jobs EXCEPT ![own[th]] =
                       [jobs[own[th]] EXCEPT !.status = "completed"]]
    BY <1>4 DEF SetCompleted, Goto, Working, WorkPcs
  <2> QED BY <2>1, WorkingJob, JobMoves DEF WorkOf
<1>5. CASE \/ RateLimited(th) \/ WithinLimit(th) \/ Refuse(th)
           \/ ContextFails(th)
           \/ Validated(th) \/ EvaluationRaises(th) \/ SetResult(th)
           \/ GetStep(th) \/ Deliver(th)
  <2>1. pc'[th] \in {"validate", "create", "status", "fetch", "reply", "idle"}
    BY <1>5 DEF RateLimited, WithinLimit, Refuse, ContextFails,
       Validated, EvaluationRaises,
       SetResult, GetStep, UnknownJob, FoundJob, ReadStatus, ReadResult,
       Deliver, Answer, Goto
  <2> QED BY <2>1 DEF Working, WorkPcs
<1> QED BY <1>1, <1>2, <1>3, <1>4, <1>5 DEF HandlerStep, PostStep

LEMMA WorkStepInv == IInv /\ [Next]_vars => WorkInv'
<1> SUFFICES ASSUME IInv, [Next]_vars PROVE WorkInv'
  OBVIOUS
<1>0. TypeOK /\ WorkInv
  BY DEF IInv
<1>1. ASSUME NEW th \in Threads, HandlerStep(th) PROVE WorkInv'
  <2>1. ASSUME NEW other \in Threads, Working(other)', other # th
        PROVE  Working(other)
    BY <1>0, <1>1, <2>1 DEF TypeOK, Working, HandlerStep, PostStep, GetStep,
       RateLimited, WithinLimit, Refuse, ContextFails,
          Validated, CreateJob, StartJob,
       Evaluate, EvaluationRaises, SetCompleted, SetResult, UnknownJob,
       FoundJob, ReadStatus, ReadResult, Deliver, Answer, Goto
  <2>2. ASSUME NEW other \in Threads, Working(other)'
        PROVE  WorkOf(other)'
    BY <1>1, <2>1, <2>2, OwnWork, OthersWork
  <2> QED BY <2>2 DEF WorkInv, WorkOf
<1>2. ASSUME NEW th \in Threads, NEW c \in Clients,
             Poll(th, c) \/ \E r \in Requests : Submit(th, c, r)
      PROVE  WorkInv'
  <2>1. /\ pc[th] = "idle" /\ pc'[th] \in {"limit", "lookup"}
        /\ UNCHANGED <<jobs, origin>>
        /\ \A other \in Threads : other # th =>
              /\ pc'[other] = pc[other] /\ own'[other] = own[other]
              /\ req'[other] = req[other]
    BY <1>0, <1>2 DEF TypeOK, Poll, Submit, Goto
  <2> QED BY <1>0, <2>1 DEF WorkInv, WorkOf, Working, WorkPcs
<1>3. CASE UNCHANGED <<jobs, origin, pc, req, own>>
  BY <1>0, <1>3 DEF WorkInv, WorkOf, Working
<1>4. ASSUME NEW c \in Clients, ClientTimeout(c) \/ Forget(c)
      PROVE  WorkInv'
  BY <1>3, <1>4 DEF ClientTimeout, Forget, serverVars
<1>5. CASE Restart
  BY <1>5 DEF Restart, WorkInv, Working, WorkPcs
<1>6. CASE UNCHANGED vars
  BY <1>3, <1>6 DEF vars, serverVars
<1> QED BY <1>1, <1>2, <1>4, <1>5, <1>6 DEF Next

(* Steps of one handler touch no other handler, and no step but a restart  *)
(* changes a settled job.                                                  *)
LEMMA OthersStay ==
  ASSUME IInv, NEW th \in Threads,
         \/ HandlerStep(th)
         \/ \E c \in Clients : Poll(th, c) \/ \E r \in Requests : Submit(th, c, r),
         NEW other \in Threads, other # th
  PROVE  /\ pc'[other] = pc[other] /\ req'[other] = req[other]
         /\ own'[other] = own[other] /\ serves'[other] = serves[other]
         /\ draft'[other] = draft[other]
  BY DEF IInv, TypeOK, HandlerStep, PostStep, GetStep, RateLimited, WithinLimit,
     Refuse, ContextFails,
        Validated, CreateJob, StartJob, Evaluate, EvaluationRaises,
     SetCompleted, SetResult, UnknownJob, FoundJob, ReadStatus, ReadResult,
     Deliver, Poll, Submit, Answer, Goto

LEMMA SettledUnlessRestart ==
  ASSUME IInv, [Next]_vars, restarts' = restarts, NEW id \in JobIds, Settled(id)
  PROVE  /\ Settled(id)'
         /\ jobs'[id] = jobs[id]
         /\ origin'[id] = origin[id]
  BY SettledStays DEF IInv, TypeOK

LEMMA GetKept ==
  ASSUME IInv, [Next]_vars, restarts' = restarts, NEW th \in Threads,
         pc'[th] = pc[th], req'[th] = req[th], own'[th] = own[th]
  PROVE  GetOf(th)'
<1>1. GetOf(th)
  BY DEF IInv, GetInv, GetOf
<1>2. CASE pc[th] \in GetPcs
  <2>1. own[th] \in JobIds /\ Settled(own[th])
    BY <1>1, <1>2 DEF GetOf
  <2>2. Settled(own[th])' /\ jobs'[own'[th]] = jobs[own[th]]
    BY <2>1, SettledUnlessRestart DEF Settled, Lost
  <2> QED BY <1>1, <2>1, <2>2 DEF GetOf, Settled, Lost
<1> QED BY <1>1, <1>2 DEF GetOf

(* A GET handler's job was settled when the client was told of it.         *)
LEMMA GetStepInv == IInv /\ [Next]_vars => GetInv'
<1> SUFFICES ASSUME IInv, [Next]_vars PROVE GetInv'
  OBVIOUS
<1>0. TypeOK
  BY DEF IInv
<1>1. ASSUME NEW th \in Threads, PostStep(th) \/ Deliver(th)
      PROVE  /\ pc'[th] \notin GetPcs
             /\ pc'[th] = "idle" => req'[th] = NoRequest
             /\ UNCHANGED restarts
  BY <1>0, <1>1 DEF TypeOK, PostStep, RateLimited, WithinLimit, Refuse, ContextFails,
     Validated, CreateJob, StartJob, Evaluate, EvaluationRaises, SetCompleted,
     SetResult, Deliver, Answer, Goto, GetPcs
<1>2. ASSUME NEW th \in Threads, GetStep(th)
      PROVE  GetOf(th)' /\ UNCHANGED restarts
  <2>1. GetOf(th)
    BY DEF IInv, GetInv, GetOf
  <2>2. UNCHANGED <<jobs, origin, req, own, restarts>>
    BY <1>2 DEF GetStep, UnknownJob, FoundJob, ReadStatus, ReadResult
  <2>3. /\ pc[th] \in GetPcs
        /\ pc'[th] # "idle"
        /\ pc'[th] \in GetPcs => jobs[own[th]] # Absent
    BY <1>0, <1>2, <2>1 DEF TypeOK, GetOf, GetStep, UnknownJob, FoundJob,
       ReadStatus, ReadResult, Answer, Goto, GetPcs
  <2>4. Settled(own[th])'
    BY <2>1, <2>2, <2>3 DEF GetOf, Settled, Lost
  <2> QED BY <2>1, <2>2, <2>3, <2>4 DEF GetOf
<1>3. ASSUME NEW th \in Threads, NEW c \in Clients, Poll(th, c)
      PROVE  GetOf(th)' /\ UNCHANGED restarts
  <2>1. /\ pc'[th] = "lookup" /\ own'[th] = receipt[c] /\ cpc[c] = "holding"
        /\ pc[th] = "idle" /\ UNCHANGED <<jobs, origin, req, restarts>>
    BY <1>0, <1>3 DEF TypeOK, Poll, Goto
  <2>2. receipt[c] \in JobIds /\ Settled(receipt[c])
    BY <1>0, <2>1 DEF TypeOK, IInv, ClientInv, ClientOf, Settled
  <2>3. req[th] = NoRequest
    BY <2>1 DEF IInv, GetInv, GetOf
  <2>4. Settled(own[th])'
    BY <2>1, <2>2 DEF Settled, Lost
  <2> QED BY <2>1, <2>2, <2>3, <2>4 DEF GetOf
<1>4. ASSUME NEW th \in Threads, NEW c \in Clients, NEW r \in Requests,
             Submit(th, c, r)
      PROVE  GetOf(th)' /\ UNCHANGED restarts
  BY <1>0, <1>4 DEF TypeOK, Submit, Goto, GetOf, GetPcs
<1>5. ASSUME NEW th \in Threads,
             \/ HandlerStep(th)
             \/ \E c \in Clients :
                   Poll(th, c) \/ \E r \in Requests : Submit(th, c, r)
      PROVE  GetInv'
  <2>1. GetOf(th)' /\ UNCHANGED restarts
    BY <1>1, <1>2, <1>3, <1>4, <1>5 DEF HandlerStep, GetOf
  <2>2. ASSUME NEW other \in Threads, other # th
        PROVE  GetOf(other)'
    BY <1>5, <2>1, <2>2, OthersStay, GetKept
  <2> QED BY <2>1, <2>2 DEF GetInv, GetOf
<1>6. CASE UNCHANGED <<pc, req, own, restarts>>
  <2>1. ASSUME NEW th \in Threads PROVE GetOf(th)'
    BY <1>6, GetKept
  <2> QED BY <2>1 DEF GetInv, GetOf
<1>7. ASSUME NEW c \in Clients, ClientTimeout(c) \/ Forget(c)
      PROVE  GetInv'
  BY <1>6, <1>7 DEF ClientTimeout, Forget, serverVars
<1>8. CASE Restart
  BY <1>8 DEF Restart, GetInv, GetOf, GetPcs
<1>9. CASE UNCHANGED vars
  BY <1>6, <1>9 DEF vars, serverVars
<1> QED BY <1>5, <1>7, <1>8, <1>9 DEF Next

LEMMA ReplyKept ==
  ASSUME IInv, [Next]_vars, restarts' = restarts, NEW th \in Threads,
         pc[th] = "reply",
         draft'[th] = draft[th], req'[th] = req[th], own'[th] = own[th]
  PROVE  ReplyOf(th)'
<1>1. ReplyOf(th)
  BY DEF IInv, ReplyInv, ReplyOf
<1>2. ASSUME NEW id \in JobIds, Settled(id)
      PROVE  /\ Settled(id)' /\ jobs'[id] = jobs[id] /\ origin'[id] = origin[id]
  BY <1>2, SettledUnlessRestart
<1>3. CASE req[th] = NoRequest
  <2>1. /\ own[th] \in JobIds
        /\ origin'[own[th]] = origin[own[th]]
        /\ jobs'[own[th]] = jobs[own[th]]
    <3>1. own[th] \in JobIds
      BY <1>1, <1>3 DEF ReplyOf
    <3>2. Settled(own[th])
      BY <1>1, <1>3 DEF ReplyOf
    <3> QED BY <3>1, <3>2, <1>2
  <2>2. Settled(own[th])'
    BY <2>1, <1>1, <1>2, <1>3 DEF ReplyOf, Settled, Lost
  <2> QED BY <2>1, <2>2, <1>1, <1>3 DEF ReplyOf
<1>4. CASE req[th] # NoRequest
  <2>1. draft[th].job # NoJob => draft[th].job \in JobIds
    BY <1>1 DEF ReplyOf, Replies
  <2> QED BY <2>1, <1>1, <1>2, <1>4 DEF ReplyOf, Settled, Lost
<1> QED BY <1>3, <1>4

(* Whatever a handler answers is so, and no other handler undoes it.       *)
LEMMA ReplyStepInv == IInv /\ [Next]_vars => ReplyInv'
<1> SUFFICES ASSUME IInv, [Next]_vars PROVE ReplyInv'
  OBVIOUS
<1>0. TypeOK
  BY DEF IInv
<1>1. ASSUME NEW th \in Threads, NEW code \in {400, 404, 429, 500},
             Answer(th, Error(code)), req[th] # NoRequest,
             UNCHANGED req
      PROVE  ReplyOf(th)'
  <2>1. draft'[th] = Error(code)
    BY <1>0, <1>1 DEF TypeOK, Answer
  <2> QED BY <2>1, <1>1, ErrorType DEF ReplyOf
<1>2. ASSUME NEW th \in Threads, PostStep(th), pc'[th] = "reply"
      PROVE  ReplyOf(th)'
  <2>1. /\ pc[th] \in PostPcs /\ UNCHANGED req
        /\ req[th] \in Requests /\ req[th] # NoRequest
    BY <1>0, <1>2, MarkerAssumption DEF IInv, PostInv, PostPcs, WorkPcs, PostStep,
       RateLimited, WithinLimit, Refuse, ContextFails,
          Validated, CreateJob, StartJob,
       Evaluate, EvaluationRaises, SetCompleted, SetResult
  <2>2. CASE RateLimited(th) \/ ContextFails(th) \/ EvaluationRaises(th)
    BY <2>1, <2>2, <1>1 DEF RateLimited, ContextFails, EvaluationRaises
  <2>3. CASE Refuse(th)
    <3>1. Verdict(req[th]) \in {400, 404, 500}
      BY <2>3, VerdictType DEF Refuse
    <3> QED BY <3>1, <2>1, <2>3, <1>1 DEF Refuse
  <2>4. CASE SetResult(th)
    <3>1. /\ Working(th) /\ pc[th] = "result"
          /\ jobs' = [jobs EXCEPT ![own[th]] =
                         [jobs[own[th]] EXCEPT !.result =
                            ResultFor(jobs[own[th]].model, req[th])]]
          /\ draft'[th] = Accepted(req[th], own[th])
          /\ UNCHANGED <<origin, own, restarts>>
      BY <1>0, <2>4 DEF TypeOK, SetResult, Answer, Working, WorkPcs
    <3>2. /\ own[th] \in JobIds /\ Verdict(req[th]) = 200
          /\ origin[own[th]] = req[th]
          /\ jobs[own[th]] = JobAt("result", req[th])
      BY <3>1, WorkingJob
    <3>3. jobs'[own[th]] = Finished(req[th])
      BY <1>0, <3>1, <3>2, JobMoves DEF TypeOK
    <3>4. Settled(own[th])'
      BY <2>1, <3>1, <3>2, <3>3 DEF Settled
    <3>5. draft'[th] \in Replies /\ draft'[th].job \in {own[th], NoJob}
      BY <2>1, <3>1, <3>2, AcceptedType
    <3>6. draft'[th].job # NoJob =>
             origin'[draft'[th].job] = req'[th] /\ Settled(draft[th].job)'
      BY <2>1, <3>1, <3>2, <3>4, <3>5 DEF Settled, Lost
    <3> QED BY <2>1, <3>5, <3>6 DEF ReplyOf
  <2>5. CASE \/ WithinLimit(th) \/ Validated(th) \/ CreateJob(th)
             \/ StartJob(th) \/ Evaluate(th) \/ SetCompleted(th)
    BY <1>0, <1>2, <2>5 DEF TypeOK, WithinLimit, Validated, CreateJob, StartJob,
       Evaluate, SetCompleted, Goto
  <2> QED BY <1>2, <2>2, <2>3, <2>4, <2>5 DEF PostStep
<1>3. ASSUME NEW th \in Threads, GetStep(th), pc'[th] = "reply"
      PROVE  ReplyOf(th)'
  <2>1. /\ pc[th] \in GetPcs
        /\ UNCHANGED <<jobs, origin, req, own, restarts>>
    BY <1>3 DEF GetStep, UnknownJob, FoundJob, ReadStatus, ReadResult, GetPcs
  <2>2. /\ req[th] = NoRequest /\ own[th] \in JobIds /\ Settled(own[th])
        /\ pc[th] # "lookup" => jobs[own[th]] = Finished(origin[own[th]])
    BY <2>1, SettledJob DEF IInv, GetInv, GetOf
  <2>3. Settled(own[th])'
    BY <2>1, <2>2 DEF Settled, Lost
  <2>4. CASE UnknownJob(th)
    <3>1. draft'[th] = Error(404) /\ jobs[own[th]] = Absent
      BY <1>0, <2>4 DEF TypeOK, UnknownJob, Answer
    <3> QED BY <2>1, <2>2, <2>3, <3>1, ErrorType DEF ReplyOf
  <2>5. CASE FoundJob(th)
    BY <1>0, <1>3, <2>5 DEF TypeOK, FoundJob, Goto
  <2>6. CASE ReadStatus(th)
    <3>1. jobs[own[th]].status = "completed"
      BY <2>2, <2>6 DEF ReadStatus, Finished
    <3> QED BY <1>0, <1>3, <2>6, <3>1 DEF TypeOK, ReadStatus, Goto
  <2>7. CASE ReadResult(th)
    <3> DEFINE r == origin[own[th]]
    <3>1. jobs[own[th]] = Finished(r)
      BY <2>2, <2>7 DEF ReadResult
    <3>2. r \in Requests
      BY <2>2 DEF Settled
    <3>3. jobs[own[th]].result = ResultFor(r.model, r)
      BY <3>1 DEF Finished
    <3>4. ResultFor(r.model, r) \in Results
      BY <2>2, SettledJob
    <3>5. draft'[th] = Reply(200, "completed", NoJob, ResultFor(r.model, r))
      BY <1>0, <2>7, <3>3, <3>4, MarkerAssumption DEF TypeOK, ReadResult, Answer
    <3>6. draft'[th] \in Replies /\ draft'[th].job = NoJob
      BY <3>4, <3>5 DEF Reply, Replies, Statuses
    <3> QED BY <2>1, <2>2, <2>3, <3>1, <3>5, <3>6 DEF ReplyOf
  <2> QED BY <1>3, <2>4, <2>5, <2>6, <2>7 DEF GetStep
<1>4. ASSUME NEW th \in Threads,
             \/ HandlerStep(th)
             \/ \E c \in Clients :
                   Poll(th, c) \/ \E r \in Requests : Submit(th, c, r)
      PROVE  ReplyInv'
  <2>1. UNCHANGED restarts
    BY <1>4, HandlerStoreStep DEF CreatesJob, MovesJob, Poll, Submit
  <2>2. ASSUME NEW c \in Clients, Poll(th, c) \/ \E r \in Requests : Submit(th, c, r)
        PROVE  pc'[th] # "reply"
    BY <1>0, <2>2 DEF TypeOK, Poll, Submit, Goto
  <2>3. Deliver(th) => pc'[th] # "reply"
    BY <1>0 DEF TypeOK, Deliver, Goto
  <2>4. pc'[th] = "reply" => ReplyOf(th)'
    BY <1>2, <1>3, <1>4, <2>2, <2>3 DEF HandlerStep
  <2>5. ASSUME NEW other \in Threads, other # th, pc'[other] = "reply"
        PROVE  ReplyOf(other)'
    BY <1>4, <2>1, <2>5, OthersStay, ReplyKept
  <2> QED BY <2>4, <2>5 DEF ReplyInv, ReplyOf
<1>5. CASE UNCHANGED <<pc, draft, req, own, restarts>>
  <2>1. ASSUME NEW th \in Threads, pc'[th] = "reply" PROVE ReplyOf(th)'
    BY <1>5, <2>1, ReplyKept
  <2> QED BY <2>1 DEF ReplyInv, ReplyOf
<1>6. ASSUME NEW c \in Clients, ClientTimeout(c) \/ Forget(c)
      PROVE  ReplyInv'
  BY <1>5, <1>6 DEF ClientTimeout, Forget, serverVars
<1>7. CASE Restart
  BY <1>7 DEF Restart, ReplyInv
<1>8. CASE UNCHANGED vars
  BY <1>5, <1>8 DEF vars, serverVars
<1> QED BY <1>4, <1>6, <1>7, <1>8 DEF Next

(* A client waits for one thread only, and that thread for nobody else.    *)
LEMMA ServeStepInv == IInv /\ [Next]_vars => ServeInv'
<1> SUFFICES ASSUME IInv, [Next]_vars PROVE ServeInv'
  OBVIOUS
<1>0. TypeOK /\ ServeInv
  BY DEF IInv
<1> USE <1>0, MarkerAssumption DEF TypeOK, ServeInv
<1>1. ASSUME NEW th \in Threads, NEW c \in Clients, NEW r \in Requests,
             Submit(th, c, r)
      PROVE  ServeInv'
  <2>1. \A other \in Threads : serves[other] # c
    BY <1>1 DEF Submit
  <2>2. /\ serves' = [serves EXCEPT ![th] = c]
        /\ pc' = [pc EXCEPT ![th] = "limit"]
        /\ req' = [req EXCEPT ![th] = r]
        /\ cpc' = [cpc EXCEPT ![c] = "posting"]
        /\ asked' = [asked EXCEPT ![c] = r]
        /\ UNCHANGED <<own, receipt>>
    BY <1>1 DEF Submit, Goto
  <2> QED BY <2>1, <2>2
<1>2. ASSUME NEW th \in Threads, NEW c \in Clients, Poll(th, c)
      PROVE  ServeInv'
  <2>1. /\ \A other \in Threads : serves[other] # c
        /\ req[th] = NoRequest
    BY <1>2 DEF Poll, IInv, GetInv, GetOf
  <2>2. /\ serves' = [serves EXCEPT ![th] = c]
        /\ pc' = [pc EXCEPT ![th] = "lookup"]
        /\ own' = [own EXCEPT ![th] = receipt[c]]
        /\ cpc' = [cpc EXCEPT ![c] = "polling"]
        /\ UNCHANGED <<req, asked, receipt>>
    BY <1>2 DEF Poll, Goto
  <2> QED BY <2>1, <2>2
<1>3. ASSUME NEW th \in Threads, PostStep(th) \/ GetStep(th)
      PROVE  ServeInv'
  <2>1. /\ UNCHANGED <<serves, req, cpc, asked, receipt>>
        /\ pc'[th] # "idle"
        /\ own' = own \/ req[th] # NoRequest
        /\ \A other \in Threads : other # th =>
              pc'[other] = pc[other] /\ own'[other] = own[other]
    BY <1>3 DEF IInv, PostInv, PostPcs, PostStep, GetStep, RateLimited,
       WithinLimit, Refuse, ContextFails,
          Validated, CreateJob, StartJob, Evaluate,
       EvaluationRaises, SetCompleted, SetResult, UnknownJob, FoundJob,
       ReadStatus, ReadResult, Answer, Goto, clientVars
  <2> QED BY <2>1
<1>4. ASSUME NEW th \in Threads, Deliver(th)
      PROVE  ServeInv'
  <2>1. /\ serves' = [serves EXCEPT ![th] = Gone]
        /\ UNCHANGED asked
        /\ \A other \in Threads : other # th =>
              /\ pc'[other] = pc[other] /\ own'[other] = own[other]
              /\ req'[other] = req[other]
    BY <1>4 DEF Deliver, Goto
  <2>2. \A c \in Clients : c # serves[th] =>
          cpc'[c] = cpc[c] /\ receipt'[c] = receipt[c]
    BY <1>4 DEF Deliver, Receive
  <2> QED BY <2>1, <2>2
<1>5. ASSUME NEW c \in Clients, ClientTimeout(c)
      PROVE  ServeInv'
  <2>1. /\ cpc' = [cpc EXCEPT ![c] = CutOff(cpc[c])]
        /\ serves' = [th \in Threads |->
                         IF serves[th] = c THEN Gone ELSE serves[th]]
        /\ UNCHANGED <<pc, req, own, asked, receipt>>
    BY <1>5 DEF ClientTimeout
  <2> QED BY <2>1
<1>6. ASSUME NEW c \in Clients, Forget(c)
      PROVE  ServeInv'
  <2>1. \A th \in Threads : serves[th] # c
    BY <1>6 DEF Forget
  <2>2. /\ cpc' = [cpc EXCEPT ![c] = "idle"]
        /\ receipt' = [receipt EXCEPT ![c] = NoJob]
        /\ UNCHANGED <<serves, pc, req, own, asked>>
    BY <1>6 DEF Forget, serverVars
  <2> QED BY <2>1, <2>2
<1>7. CASE Restart
  BY <1>7 DEF Restart
<1>8. CASE UNCHANGED vars
  BY <1>8 DEF vars, serverVars, clientVars
<1> QED BY <1>1, <1>2, <1>3, <1>4, <1>5, <1>6, <1>7, <1>8
        DEF Next, HandlerStep

(* A client that nothing happens to keeps a good receipt.                  *)
LEMMA ClientKept ==
  ASSUME IInv, [Next]_vars, NEW c \in Clients,
         UNCHANGED <<receipt[c], asked[c], told[c]>>,
         cpc[c] \in {"holding", "polling"} <=> cpc'[c] \in {"holding", "polling"}
  PROVE  ClientOf(c)'
<1>1. ClientOf(c)
  BY DEF IInv, ClientInv
<1>2. CASE receipt[c] = NoJob
  BY <1>1, <1>2 DEF ClientOf
<1>3. CASE receipt[c] # NoJob
  <2>1. receipt[c] \in JobIds /\ Settled(receipt[c])
    BY <1>1, <1>3 DEF ClientOf, IInv, TypeOK
  <2>2. /\ Settled(receipt[c])'
        /\ origin'[receipt[c]] = origin[receipt[c]]
        /\ Lost(receipt[c]) => Lost(receipt[c])'
    <3>1. PICK id \in JobIds : id = receipt[c]
      BY <2>1
    <3>2. /\ Settled(id)'
          /\ origin'[id] = origin[id]
          /\ \/ jobs'[id] = jobs[id] /\ restarts' = restarts
             \/ jobs'[id] = Absent /\ restarts' = restarts + 1
      BY <2>1, <3>1, SettledStays
    <3>3. restarts \in Nat
      BY DEF IInv, TypeOK
    <3> QED BY <3>1, <3>2, <3>3 DEF Lost, Settled
  <2> QED BY <1>1, <1>3, <2>1, <2>2 DEF ClientOf
<1> QED BY <1>2, <1>3

(* What a client is told is true, and its receipt remains good.            *)
LEMMA ClientStepInv == IInv /\ [Next]_vars => ClientInv'
<1> SUFFICES ASSUME IInv, [Next]_vars PROVE ClientInv'
  OBVIOUS
<1>0. TypeOK /\ ClientInv /\ ServeInv
  BY DEF IInv
<1> USE <1>0, MarkerAssumption DEF TypeOK
<1>1. ASSUME NEW th \in Threads, NEW c \in Clients, NEW r \in Requests,
             Submit(th, c, r), NEW d \in Clients
      PROVE  ClientOf(d)'
  <2>1. CASE d = c
    <3>1. cpc[c] = "idle" /\ cpc'[c] = "posting" /\ receipt'[c] = receipt[c]
      BY <1>1 DEF Submit
    <3>2. receipt[c] = NoJob
      BY <3>1 DEF ClientInv, ClientOf
    <3> QED BY <2>1, <3>1, <3>2 DEF ClientOf
  <2>2. CASE d # c
    <3>1. UNCHANGED <<receipt[d], asked[d], told[d], cpc[d]>>
      BY <1>1, <2>2 DEF Submit
    <3> QED BY <3>1, ClientKept
  <2> QED BY <2>1, <2>2
<1>2. ASSUME NEW th \in Threads, NEW c \in Clients, Poll(th, c),
             NEW d \in Clients
      PROVE  ClientOf(d)'
  <2>1. /\ UNCHANGED <<receipt[d], asked[d], told[d]>>
        /\ cpc[d] \in {"holding", "polling"} <=> cpc'[d] \in {"holding", "polling"}
    BY <1>2 DEF Poll
  <2> QED BY <2>1, ClientKept
<1>3. ASSUME NEW th \in Threads, PostStep(th) \/ GetStep(th), NEW d \in Clients
      PROVE  ClientOf(d)'
  <2>1. UNCHANGED clientVars
    BY <1>3 DEF PostStep, GetStep, RateLimited, WithinLimit, Refuse, ContextFails,
       Validated,
       CreateJob, StartJob, Evaluate, EvaluationRaises, SetCompleted, SetResult,
       UnknownJob, FoundJob, ReadStatus, ReadResult, clientVars
  <2> QED BY <2>1, ClientKept DEF clientVars
<1>4. ASSUME NEW th \in Threads, Deliver(th), NEW d \in Clients
      PROVE  ClientOf(d)'
  <2>1. /\ pc[th] = "reply" /\ UNCHANGED <<jobs, origin, asked, restarts>>
        /\ ReplyOf(th)
    BY <1>4 DEF Deliver, IInv, ReplyInv
  <2>2. CASE d # serves[th]
    <3>1. UNCHANGED <<receipt[d], asked[d], told[d], cpc[d]>>
      BY <1>4, <2>1, <2>2 DEF Deliver, Receive
    <3> QED BY <3>1, ClientKept
  <2>3. CASE d = serves[th]
    <3>1. /\ told'[d] = draft[th]
          /\ receipt'[d] = IF cpc[d] = "posting" THEN draft[th].job ELSE receipt[d]
          /\ cpc'[d] = IF receipt'[d] = NoJob THEN "idle" ELSE "holding"
      BY <1>4, <2>3 DEF Deliver, Receive
    <3>2. CASE req[th] # NoRequest
      <4>1. cpc[d] = "posting" /\ asked[d] = req[th]
        BY <2>3, <3>2 DEF ServeInv
      <4>2. receipt'[d] = draft[th].job
        BY <3>1, <4>1
      <4>3. draft[th].job # NoJob =>
              origin[draft[th].job] = req[th] /\ Settled(draft[th].job)
        BY <2>1 DEF ReplyOf
      <4> QED BY <2>1, <3>1, <4>1, <4>2, <4>3 DEF ClientOf, Settled, Lost
    <3>3. CASE req[th] = NoRequest
      <4>1. cpc[d] = "polling" /\ own[th] = receipt[d]
        BY <2>3, <3>3 DEF ServeInv
      <4>2. /\ receipt'[d] = receipt[d] /\ cpc'[d] = "holding"
            /\ receipt[d] # NoJob /\ origin[receipt[d]] = asked[d]
            /\ Settled(receipt[d])
        BY <3>1, <4>1 DEF ClientInv, ClientOf
      <4>3. \/ draft[th] = Reply(200, "completed", NoJob,
                                 ResultFor(asked[d].model, asked[d]))
            \/ draft[th] = Error(404) /\ jobs[receipt[d]] = Absent
        BY <2>1, <3>3, <4>1, <4>2 DEF ReplyOf
      <4>4. jobs[receipt[d]] = Absent => restarts > 0
        BY <4>2, SettledJob
      <4> QED BY <2>1, <3>1, <4>2, <4>3, <4>4 DEF ClientOf, Settled, Lost
    <3> QED BY <3>2, <3>3
  <2> QED BY <2>2, <2>3
<1>5. ASSUME NEW c \in Clients, ClientTimeout(c), NEW d \in Clients
      PROVE  ClientOf(d)'
  <2>1. /\ UNCHANGED <<receipt[d], asked[d], told[d]>>
        /\ cpc[d] \in {"holding", "polling"} <=> cpc'[d] \in {"holding", "polling"}
    BY <1>5 DEF ClientTimeout, CutOff
  <2> QED BY <2>1, ClientKept
<1>6. ASSUME NEW c \in Clients, Forget(c), NEW d \in Clients
      PROVE  ClientOf(d)'
  <2>1. CASE d = c
    BY <1>6, <2>1 DEF Forget, ClientOf
  <2>2. CASE d # c
    <3>1. UNCHANGED <<receipt[d], asked[d], told[d], cpc[d]>>
      BY <1>6, <2>2 DEF Forget
    <3> QED BY <3>1, ClientKept
  <2> QED BY <2>1, <2>2
<1>7. ASSUME Restart, NEW d \in Clients
      PROVE  ClientOf(d)'
  <2>1. /\ UNCHANGED <<receipt[d], asked[d], told[d]>>
        /\ cpc[d] \in {"holding", "polling"} <=> cpc'[d] \in {"holding", "polling"}
    BY <1>7 DEF Restart, CutOff
  <2> QED BY <2>1, ClientKept
<1>8. ASSUME UNCHANGED vars, NEW d \in Clients
      PROVE  ClientOf(d)'
  BY <1>8, ClientKept DEF vars, clientVars
<1> QED BY <1>1, <1>2, <1>3, <1>4, <1>5, <1>6, <1>7, <1>8
        DEF Next, HandlerStep, ClientInv

----------------------------------------------------------------------------
(* The inductive invariant holds in every reachable state.                 *)
THEOREM Inductive == Spec => []IInv
<1>1. IInv /\ [Next]_vars => IInv'
  BY TypeStep, PostStepInv, FreshStepInv, WorkStepInv, SoleWriterStep,
     GetStepInv, ReplyStepInv, ServeStepInv, ClientStepInv DEF IInv
<1> QED BY <1>1, InitIInv, PTL DEF Spec

(* Every variable keeps its type.                                          *)
THEOREM TypeCorrect == Spec => []TypeOK
<1>1. IInv => TypeOK
  BY DEF IInv
<1> QED BY <1>1, Inductive, PTL

(* No two handlers ever work on one job.                                   *)
THEOREM OneWriterPerJob == Spec => []SoleWriter
<1>1. IInv => SoleWriter
  BY DEF IInv
<1> QED BY <1>1, Inductive, PTL

(* A job id that was told to a client is the id of its own job, with its   *)
(* own complete result, until a restart loses it.                          *)
THEOREM ReceiptsAreGood == Spec => []ReceiptHonoured
<1>1. IInv => ReceiptHonoured
  <2> SUFFICES ASSUME IInv, NEW c \in Clients, receipt[c] # NoJob
               PROVE  /\ origin[receipt[c]] = asked[c]
                      /\ \/ jobs[receipt[c]] = Finished(asked[c])
                         \/ Lost(receipt[c])
    BY DEF ReceiptHonoured
  <2> QED BY DEF IInv, ClientInv, ClientOf, Settled
<1> QED BY <1>1, Inductive, PTL

(* Every poll is answered with the final result of the job it asks for, or *)
(* with 404 after a restart: a half-written job is never read.             *)
THEOREM PollsAreFinal == Spec => []FirstPollIsFinal
<1>1. IInv => FirstPollIsFinal
  <2> SUFFICES ASSUME IInv, NEW th \in Threads,
                      pc[th] = "reply", req[th] = NoRequest
               PROVE  LET r == origin[own[th]] IN
                      \/ draft[th] = Reply(200, "completed", NoJob,
                                           ResultFor(r.model, r))
                      \/ draft[th] = Error(404) /\ restarts > 0
    BY DEF FirstPollIsFinal
  <2>1. ReplyOf(th)
    BY DEF IInv, ReplyInv
  <2> QED BY <2>1, SettledJob DEF ReplyOf
<1> QED BY <1>1, Inductive, PTL

----------------------------------------------------------------------------
(* The steps of one handler move its own job forward, and no other.        *)
LEMMA HandlerMovesForward ==
  ASSUME IInv, NEW th \in Threads, HandlerStep(th), NEW id \in JobIds
  PROVE  MovesForward(id)
<1>0. TypeOK
  BY DEF IInv
<1>1. CASE jobs'[id] = jobs[id]
  BY <1>0, <1>1 DEF MovesForward, Later, TypeOK, Jobs
<1>2. CASE CreateJob(th)
  <2>1. PICK new \in JobIds \ Issued : jobs' = [jobs EXCEPT ![new] = NewJob(req[th])]
    BY <1>2 DEF CreateJob
  <2>2. jobs[new] = Absent
    BY <2>1, <1>0 DEF Issued, IInv, FreshInv, TypeOK
  <2> QED BY <1>0, <1>1, <2>1, <2>2 DEF TypeOK, MovesForward
<1>3. ASSUME NEW new, jobs' = [jobs EXCEPT ![own[th]] = new],
             new # Absent, Later(jobs[own[th]], new)
      PROVE  MovesForward(id)
  <2>1. CASE id = own[th]
    <3>1. jobs'[id] = new
      BY <1>0, <1>3, <2>1 DEF TypeOK
    <3> QED BY <1>3, <2>1, <3>1 DEF MovesForward
  <2>2. CASE id # own[th]
    BY <1>0, <1>1, <1>3, <2>2 DEF TypeOK
  <2> QED BY <2>1, <2>2
<1>4. ASSUME NEW r \in Requests, Verdict(r) = 200
      PROVE  /\ Later(JobAt("start", r), JobAt("evaluate", r))
             /\ Later(JobAt("complete", r), JobAt("result", r))
             /\ Later(JobAt("result", r), Finished(r))
             /\ \A label \in WorkPcs : JobAt(label, r) # Absent
             /\ Finished(r) # Absent
  <2>1. /\ \A label \in WorkPcs : JobAt(label, r) # Absent
        /\ Finished(r) # Absent
    BY <1>4, JobType, MarkerAssumption
  <2> QED BY <2>1 DEF Later, JobAt, StatusAt, Finished, Statuses
<1>5. CASE StartJob(th)
  <2>1. /\ Working(th) /\ pc[th] = "start"
        /\ jobs' = [jobs EXCEPT ![own[th]] =
                       [jobs[own[th]] EXCEPT !.status = "running"]]
    BY <1>5 DEF StartJob, Working, WorkPcs
  <2>2. /\ req[th] \in Requests /\ Verdict(req[th]) = 200
        /\ jobs[own[th]] = JobAt("start", req[th])
    BY <2>1, WorkingJob
  <2>3. jobs' = [jobs EXCEPT ![own[th]] = JobAt("evaluate", req[th])]
    BY <2>1, <2>2, JobMoves
  <2>4. JobAt("evaluate", req[th]) # Absent
    BY <1>4, <2>2 DEF WorkPcs
  <2>5. Later(jobs[own[th]], JobAt("evaluate", req[th]))
    BY <1>4, <2>2
  <2> QED BY <1>3, <2>3, <2>4, <2>5
<1>6. CASE SetCompleted(th)
  <2>1. /\ Working(th) /\ pc[th] = "complete"
        /\ jobs' = [jobs EXCEPT ![own[th]] =
                       [jobs[own[th]] EXCEPT !.status = "completed"]]
    BY <1>6 DEF SetCompleted, Working, WorkPcs
  <2>2. /\ req[th] \in Requests /\ Verdict(req[th]) = 200
        /\ jobs[own[th]] = JobAt("complete", req[th])
    BY <2>1, WorkingJob
  <2>3. jobs' = [jobs EXCEPT ![own[th]] = JobAt("result", req[th])]
    BY <2>1, <2>2, JobMoves
  <2>4. JobAt("result", req[th]) # Absent
    BY <1>4, <2>2 DEF WorkPcs
  <2>5. Later(jobs[own[th]], JobAt("result", req[th]))
    BY <1>4, <2>2
  <2> QED BY <1>3, <2>3, <2>4, <2>5
<1>7. CASE SetResult(th)
  <2>1. /\ Working(th) /\ pc[th] = "result"
        /\ jobs' = [jobs EXCEPT ![own[th]] =
                       [jobs[own[th]] EXCEPT !.result =
                          ResultFor(jobs[own[th]].model, req[th])]]
    BY <1>7 DEF SetResult, Working, WorkPcs
  <2>2. /\ req[th] \in Requests /\ Verdict(req[th]) = 200
        /\ jobs[own[th]] = JobAt("result", req[th])
    BY <2>1, WorkingJob
  <2>3. jobs' = [jobs EXCEPT ![own[th]] = Finished(req[th])]
    BY <2>1, <2>2, JobMoves
  <2>4. Finished(req[th]) # Absent
    BY <1>4, <2>2 DEF WorkPcs
  <2>5. Later(jobs[own[th]], Finished(req[th]))
    BY <1>4, <2>2
  <2> QED BY <1>3, <2>3, <2>4, <2>5
<1>8. CASE \/ RateLimited(th) \/ WithinLimit(th) \/ Refuse(th)
           \/ ContextFails(th)
           \/ Validated(th) \/ Evaluate(th) \/ EvaluationRaises(th)
           \/ GetStep(th) \/ Deliver(th)
  BY <1>1, <1>8 DEF RateLimited, WithinLimit, Refuse, ContextFails,
     Validated, Evaluate,
     EvaluationRaises, GetStep, UnknownJob, FoundJob, ReadStatus, ReadResult,
     Deliver
<1> QED BY <1>2, <1>5, <1>6, <1>7, <1>8 DEF HandlerStep, PostStep

(* docs/api.md:103-104: job states only move forward, and a result never   *)
(* changes once it is there.                                               *)
THEOREM JobsOnlyMoveForward == Spec => JobsMonotone
<1>1. IInv /\ [Next]_vars => [\A id \in JobIds : MovesForward(id)]_vars
  <2> SUFFICES ASSUME IInv, [Next]_vars, NEW id \in JobIds
               PROVE  MovesForward(id)
    OBVIOUS
  <2>0. TypeOK
    BY DEF IInv
  <2>1. CASE \E th \in Threads : HandlerStep(th)
    BY <2>1, HandlerMovesForward
  <2>2. CASE Restart
    BY <2>2 DEF Restart, MovesForward
  <2>3. CASE UNCHANGED jobs
    BY <2>0, <2>3 DEF MovesForward, Later, TypeOK, Jobs
  <2>4. CASE \E c \in Clients :
               \/ ClientTimeout(c) \/ Forget(c)
               \/ \E th \in Threads :
                     Poll(th, c) \/ \E r \in Requests : Submit(th, c, r)
    BY <2>3, <2>4 DEF ClientTimeout, Forget, Poll, Submit, serverVars
  <2>5. CASE UNCHANGED vars
    BY <2>3, <2>5 DEF vars, serverVars
  <2> QED BY <2>1, <2>2, <2>4, <2>5 DEF Next
<1> QED BY <1>1, Inductive, PTL DEF JobsMonotone, Spec

(* Successive polls of one job agree: once a client has its result, it     *)
(* reads that result or 404 ever after.                                    *)
THEOREM PollsAgree == Spec => ReadsAgree
<1>1. IInv /\ [Next]_vars => [\A c \in Clients : ReadsOn(c)]_vars
  <2> SUFFICES ASSUME IInv, [Next]_vars, NEW c \in Clients,
                      cpc[c] = "polling", told'[c] # told[c]
               PROVE  \/ told[c].job = receipt[c]
                      \/ told'[c] = Error(404) /\ restarts > 0
    BY DEF ReadsOn
  <2>0. TypeOK
    BY DEF IInv
  <2>1. PICK th \in Threads : Deliver(th) /\ serves[th] = c
    <3>1. ASSUME NEW th \in Threads, PostStep(th) \/ GetStep(th) PROVE FALSE
      BY <3>1 DEF PostStep, GetStep, RateLimited, WithinLimit, Refuse, ContextFails,
         Validated,
         CreateJob, StartJob, Evaluate, EvaluationRaises, SetCompleted,
         SetResult, UnknownJob, FoundJob, ReadStatus, ReadResult, clientVars
    <3>2. ASSUME NEW th \in Threads, NEW d \in Clients,
                 Poll(th, d) \/ \E r \in Requests : Submit(th, d, r)
          PROVE  FALSE
      BY <2>0, <3>2 DEF Poll, Submit, TypeOK
    <3>3. ASSUME NEW d \in Clients, ClientTimeout(d) \/ Forget(d) PROVE FALSE
      BY <2>0, <3>3 DEF ClientTimeout, Forget, TypeOK
    <3>4. ~Restart /\ ~UNCHANGED vars
      BY DEF Restart, vars, clientVars
    <3>5. PICK th \in Threads : Deliver(th)
      BY <3>1, <3>2, <3>3, <3>4 DEF Next, HandlerStep
    <3>6. serves[th] = c
      BY <2>0, <3>5 DEF Deliver, Receive, TypeOK
    <3> QED BY <3>5, <3>6
  <2>2. /\ ReplyOf(th) /\ told'[c] = draft[th]
    BY <2>0, <2>1, MarkerAssumption DEF Deliver, Receive, TypeOK, IInv, ReplyInv
  <2>3. req[th] = NoRequest /\ own[th] = receipt[c]
    BY <2>1, MarkerAssumption DEF IInv, ServeInv
  <2>4. ClientOf(c) /\ receipt[c] # NoJob
    BY DEF IInv, ClientInv, ClientOf
  <2>5. receipt[c] \in JobIds /\ Settled(receipt[c]) /\ origin[receipt[c]] = asked[c]
    BY <2>0, <2>4 DEF ClientOf, TypeOK
  <2>6. CASE draft[th] = Error(404) /\ jobs[receipt[c]] = Absent
    BY <2>2, <2>5, <2>6, SettledJob
  <2>7. CASE /\ draft[th] = Reply(200, "completed", NoJob,
                                 ResultFor(asked[c].model, asked[c]))
             /\ jobs[receipt[c]] = Finished(asked[c])
    <3>1. ~Lost(receipt[c])
      BY <2>5, <2>7, SettledJob DEF Lost
    <3> QED BY <2>2, <2>4, <2>7, <3>1 DEF ClientOf
  <2> QED BY <2>2, <2>3, <2>5, <2>6, <2>7 DEF ReplyOf
<1> QED BY <1>1, Inductive, PTL DEF ReadsAgree, Spec
----------------------------------------------------------------------------
(* What an answer may be: a handler has evaluated what it completes, and a *)
(* client that waits for an answer has none yet.                           *)
EvaluatedInv ==
    \A th \in Threads : pc[th] \in {"complete", "result"} => Evaluable(req[th])

PostingInv ==
    \A c \in Clients :
        /\ cpc[c] = "posting" => told[c] = NoReply
        /\ told[c] # NoReply => asked[c] \in Requests

CauseInv == EvaluatedInv /\ PostingInv /\ AnswerHasCause

(* An id that was given out keeps its request for ever.                    *)
LEMMA OriginStays ==
  ASSUME IInv, [Next]_vars, NEW id \in JobIds, origin[id] # NoRequest
  PROVE  origin'[id] = origin[id]
<1>0. TypeOK
  BY DEF IInv
<1>1. ASSUME NEW th \in Threads, NEW new \in JobIds, CreatesJob(th, new)
      PROVE  origin'[id] = origin[id]
  BY <1>0, <1>1 DEF CreatesJob, TypeOK
<1>2. CASE \E th \in Threads : MovesJob(th)
  BY <1>2 DEF MovesJob
<1>3. CASE LosesJobs \/ UNCHANGED <<jobs, origin, restarts>>
  BY <1>3 DEF LosesJobs
<1> QED BY <1>1, <1>2, <1>3, StoreSteps

(* So an answer that fits a request goes on fitting it.                    *)
LEMMA FitsStays ==
  ASSUME IInv, [Next]_vars, NEW r \in Requests, NEW reply, AnswerFits(r, reply)
  PROVE  AnswerFits(r, reply)'
<1>1. ASSUME NEW id \in JobIds, origin[id] = r
      PROVE  origin'[id] = r
  BY <1>1, OriginStays, MarkerAssumption
<1> QED BY <1>1 DEF AnswerFits

LEMMA EvaluatedStep == IInv /\ CauseInv /\ [Next]_vars => EvaluatedInv'
<1> SUFFICES ASSUME IInv, EvaluatedInv, [Next]_vars PROVE EvaluatedInv'
  BY DEF CauseInv
<1>0. TypeOK
  BY DEF IInv
<1> USE <1>0 DEF TypeOK, EvaluatedInv
<1>1. ASSUME NEW th \in Threads, HandlerStep(th)
      PROVE  EvaluatedInv'
  <2>1. pc'[th] \in {"complete", "result"} => Evaluable(req[th]) /\ req'[th] = req[th]
    BY <1>1 DEF HandlerStep, PostStep, GetStep, RateLimited, WithinLimit, Refuse,
       ContextFails, Validated, CreateJob, StartJob, Evaluate, EvaluationRaises,
       SetCompleted, SetResult, UnknownJob, FoundJob, ReadStatus, ReadResult,
       Deliver, Answer, Goto
  <2> QED BY <1>1, <2>1, OthersStay
<1>2. ASSUME NEW th \in Threads, NEW c \in Clients,
             Poll(th, c) \/ \E r \in Requests : Submit(th, c, r)
      PROVE  EvaluatedInv'
  BY <1>2 DEF Poll, Submit, Goto
<1>3. ASSUME NEW c \in Clients, ClientTimeout(c) \/ Forget(c)
      PROVE  EvaluatedInv'
  BY <1>3 DEF ClientTimeout, Forget, serverVars
<1>4. CASE Restart
  BY <1>4 DEF Restart
<1>5. CASE UNCHANGED vars
  BY <1>5 DEF vars, serverVars
<1> QED BY <1>1, <1>2, <1>3, <1>4, <1>5 DEF Next

LEMMA PostingStep == IInv /\ CauseInv /\ [Next]_vars => PostingInv'
<1> SUFFICES ASSUME IInv, PostingInv, [Next]_vars PROVE PostingInv'
  BY DEF CauseInv
<1>0. TypeOK
  BY DEF IInv
<1> USE <1>0 DEF TypeOK, PostingInv
<1>1. ASSUME NEW th \in Threads, PostStep(th) \/ GetStep(th)
      PROVE  PostingInv'
  <2>1. UNCHANGED clientVars
    BY <1>1 DEF PostStep, GetStep, RateLimited, WithinLimit, Refuse, ContextFails,
       Validated, CreateJob, StartJob, Evaluate, EvaluationRaises, SetCompleted,
       SetResult, UnknownJob, FoundJob, ReadStatus, ReadResult, clientVars
  <2> QED BY <2>1 DEF clientVars
<1>2. ASSUME NEW th \in Threads, Deliver(th)
      PROVE  PostingInv'
  <2>1. ASSUME serves[th] # Gone
        PROVE  asked[serves[th]] \in Requests
    <3>1. CASE req[th] # NoRequest
      BY <2>1, <3>1 DEF IInv, ServeInv
    <3>2. CASE req[th] = NoRequest
      <4>1. PICK d \in Clients : d = serves[th]
        BY <2>1
      <4>2. cpc[d] = "polling"
        BY <2>1, <3>2, <4>1 DEF IInv, ServeInv
      <4> QED BY <4>1, <4>2 DEF IInv, ClientInv, ClientOf, Settled
    <3> QED BY <3>1, <3>2
  <2> QED BY <1>2, <2>1 DEF Deliver, Receive
<1>3. ASSUME NEW th \in Threads, NEW c \in Clients,
             Poll(th, c) \/ \E r \in Requests : Submit(th, c, r)
      PROVE  PostingInv'
  BY <1>3 DEF Poll, Submit
<1>4. ASSUME NEW c \in Clients, ClientTimeout(c) \/ Forget(c)
      PROVE  PostingInv'
  BY <1>4 DEF ClientTimeout, Forget, CutOff
<1>5. CASE Restart
  BY <1>5 DEF Restart, CutOff
<1>6. CASE UNCHANGED vars
  BY <1>6 DEF vars, clientVars
<1> QED BY <1>1, <1>2, <1>3, <1>4, <1>5, <1>6 DEF Next, HandlerStep

(* The answers of a handler fit its request when it makes them.            *)
LEMMA AnswerMade ==
  ASSUME IInv, CauseInv, NEW th \in Threads, HandlerStep(th),
         pc[th] # "reply", pc'[th] = "reply", req[th] # NoRequest
  PROVE  AnswerFits(req[th], draft'[th]) /\ UNCHANGED <<req, origin>>
<1>0. TypeOK
  BY DEF IInv
<1> USE <1>0 DEF TypeOK
<1>1. CASE RateLimited(th)
  BY <1>1 DEF RateLimited, Answer, AnswerFits
<1>2. CASE Refuse(th)
  BY <1>2 DEF Refuse, Answer, AnswerFits
<1>3. CASE ContextFails(th)
  BY <1>3 DEF ContextFails, Answer, AnswerFits
<1>4. CASE EvaluationRaises(th)
  <2>1. Working(th)
    BY <1>4 DEF EvaluationRaises, Working, WorkPcs
  <2>2. Verdict(req[th]) = 200
    BY <2>1, WorkingJob
  <2>3. req[th].wellFormed /\ req[th].model \in Models
    BY <2>2 DEF Verdict
  <2>4. draft'[th] = Error(500) /\ UNCHANGED <<req, origin>>
    BY <1>4 DEF EvaluationRaises, Answer
  <2>5. BackendRaises \/ ~Evaluable(req[th])
    BY <1>4 DEF EvaluationRaises
  <2> QED BY <2>2, <2>3, <2>4, <2>5 DEF AnswerFits
<1>5. CASE SetResult(th)
  <2>1. Working(th) /\ pc[th] = "result"
    BY <1>5 DEF SetResult, Working, WorkPcs
  <2>2. Verdict(req[th]) = 200 /\ own[th] \in JobIds /\ origin[own[th]] = req[th]
    BY <2>1, WorkingJob
  <2>3. Evaluable(req[th])
    BY <2>1 DEF CauseInv, EvaluatedInv
  <2>4. draft'[th] = Accepted(req[th], own[th]) /\ UNCHANGED <<req, origin>>
    BY <1>5 DEF SetResult, Answer
  <2> QED BY <2>2, <2>3, <2>4 DEF AnswerFits
<1>6. CASE \/ WithinLimit(th) \/ Validated(th) \/ CreateJob(th) \/ StartJob(th)
           \/ Evaluate(th) \/ SetCompleted(th) \/ Deliver(th)
  BY <1>6 DEF WithinLimit, Validated, CreateJob, StartJob, Evaluate, SetCompleted,
     Deliver, Goto
<1>7. CASE GetStep(th)
  <2>1. pc[th] \in GetPcs
    BY <1>7 DEF GetStep, UnknownJob, FoundJob, ReadStatus, ReadResult, GetPcs
  <2> QED BY <2>1 DEF IInv, GetInv, GetOf
<1> QED BY <1>1, <1>2, <1>3, <1>4, <1>5, <1>6, <1>7 DEF HandlerStep, PostStep
(* A handler keeps its answer till it is delivered, and no other step of   *)
(* it makes one.                                                           *)
LEMMA AnswerKept ==
  ASSUME IInv, [Next]_vars, NEW th \in Threads, pc[th] = "reply",
         req[th] # NoRequest, AnswerFits(req[th], draft[th]),
         pc'[th] = pc[th], req'[th] = req[th], draft'[th] = draft[th]
  PROVE  AnswerFits(req[th], draft[th])'
<1>1. PICK r \in Requests : r = req[th]
  BY DEF IInv, TypeOK
<1>2. PICK reply : reply = draft[th]
  OBVIOUS
<1>3. AnswerFits(r, reply)'
  BY <1>1, <1>2, FitsStays
<1> QED BY <1>1, <1>2, <1>3 DEF AnswerFits

LEMMA DraftStep ==
  ASSUME IInv, CauseInv, [Next]_vars, NEW th \in Threads,
         pc'[th] = "reply", req'[th] # NoRequest
  PROVE  AnswerFits(req[th], draft[th])'
<1>0. TypeOK
  BY DEF IInv
<1>1. pc[th] = "reply" /\ req[th] # NoRequest => AnswerFits(req[th], draft[th])
  BY DEF CauseInv, AnswerHasCause
<1>2. CASE HandlerStep(th)
  <2>1. pc[th] # "reply"
    BY <1>0, <1>2 DEF TypeOK, HandlerStep, PostStep, GetStep, RateLimited,
       WithinLimit, Refuse, ContextFails, Validated, CreateJob, StartJob, Evaluate,
       EvaluationRaises, SetCompleted, SetResult, UnknownJob, FoundJob, ReadStatus,
       ReadResult, Deliver, Goto
  <2>2. req' = req
    BY <1>0, <1>2 DEF TypeOK, HandlerStep, PostStep, GetStep, RateLimited,
       WithinLimit, Refuse, ContextFails, Validated, CreateJob, StartJob, Evaluate,
       EvaluationRaises, SetCompleted, SetResult, UnknownJob, FoundJob, ReadStatus,
       ReadResult, Deliver, Goto
  <2> QED BY <1>2, <2>1, <2>2, AnswerMade DEF AnswerFits
<1>3. ASSUME NEW other \in Threads, other # th,
             \/ HandlerStep(other)
             \/ \E c \in Clients :
                   Poll(other, c) \/ \E r \in Requests : Submit(other, c, r)
      PROVE  AnswerFits(req[th], draft[th])'
  <2>1. pc'[th] = pc[th] /\ req'[th] = req[th] /\ draft'[th] = draft[th]
    BY <1>3, OthersStay
  <2> QED BY <1>1, <2>1, AnswerKept
<1>4. ASSUME NEW c \in Clients,
             Poll(th, c) \/ \E r \in Requests : Submit(th, c, r)
      PROVE  FALSE
  BY <1>0, <1>4 DEF TypeOK, Poll, Submit, Goto
<1>5. CASE UNCHANGED <<pc, req, draft>>
  BY <1>1, <1>5, AnswerKept
<1>6. ASSUME NEW c \in Clients, ClientTimeout(c) \/ Forget(c)
      PROVE  UNCHANGED <<pc, req, draft>>
  BY <1>6 DEF ClientTimeout, Forget, serverVars
<1>7. CASE Restart
  BY <1>7 DEF Restart
<1>8. CASE UNCHANGED vars
  BY <1>5, <1>8 DEF vars, serverVars
<1> QED BY <1>2, <1>3, <1>4, <1>5, <1>6, <1>7, <1>8 DEF Next

(* What a client was told fits what it asked.                              *)
LEMMA ToldKept ==
  ASSUME IInv, [Next]_vars, NEW c \in Clients, asked[c] \in Requests,
         AnswerFits(asked[c], told[c]), asked'[c] = asked[c], told'[c] = told[c]
  PROVE  AnswerFits(asked[c], told[c])'
<1>1. PICK r \in Requests : r = asked[c]
  OBVIOUS
<1>2. PICK reply : reply = told[c]
  OBVIOUS
<1>3. AnswerFits(r, reply)'
  BY <1>1, <1>2, FitsStays
<1> QED BY <1>1, <1>2, <1>3 DEF AnswerFits

LEMMA ToldStep ==
  ASSUME IInv, CauseInv, [Next]_vars, NEW c \in Clients,
         cpc'[c] = "idle", told'[c] # NoReply
  PROVE  AnswerFits(asked[c], told[c])'
<1>0. TypeOK
  BY DEF IInv
<1>1. cpc[c] = "idle" /\ told[c] # NoReply =>
         asked[c] \in Requests /\ AnswerFits(asked[c], told[c])
  BY DEF CauseInv, AnswerHasCause, PostingInv
<1>2. CASE /\ cpc'[c] = cpc[c] /\ told'[c] = told[c] /\ asked'[c] = asked[c]
  BY <1>1, <1>2, ToldKept
<1>3. ASSUME NEW th \in Threads, PostStep(th) \/ GetStep(th)
      PROVE  UNCHANGED clientVars
  BY <1>3 DEF PostStep, GetStep, RateLimited, WithinLimit, Refuse, ContextFails,
     Validated, CreateJob, StartJob, Evaluate, EvaluationRaises, SetCompleted,
     SetResult, UnknownJob, FoundJob, ReadStatus, ReadResult, clientVars
<1>4. ASSUME NEW th \in Threads, Deliver(th), serves[th] = c
      PROVE  AnswerFits(asked[c], told[c])'
  <2>1. /\ pc[th] = "reply" /\ asked' = asked /\ told'[c] = draft[th]
        /\ receipt'[c] = IF cpc[c] = "posting" THEN draft[th].job ELSE receipt[c]
        /\ receipt'[c] = NoJob
    BY <1>0, <1>4, MarkerAssumption DEF TypeOK, Deliver, Receive
  <2>2. CASE req[th] = NoRequest
    <3>1. cpc[c] = "polling"
      BY <1>4, <2>2, MarkerAssumption DEF IInv, ServeInv
    <3> QED BY <2>1, <3>1 DEF IInv, ClientInv, ClientOf
  <2>3. CASE req[th] # NoRequest
    <3>1. asked[c] = req[th] /\ asked[c] \in Requests
      BY <1>0, <1>4, <2>3, MarkerAssumption DEF TypeOK, IInv, ServeInv
    <3>2. AnswerFits(req[th], draft[th])
      BY <2>1, <2>3 DEF CauseInv, AnswerHasCause
    <3>3. PICK r \in Requests : r = asked[c]
      BY <3>1
    <3>4. PICK reply : reply = draft[th]
      OBVIOUS
    <3>5. AnswerFits(r, reply)'
      BY <3>1, <3>2, <3>3, <3>4, FitsStays
    <3> QED BY <2>1, <3>3, <3>4, <3>5 DEF AnswerFits
  <2> QED BY <2>2, <2>3
<1>5. ASSUME NEW th \in Threads, Deliver(th), serves[th] # c
      PROVE  UNCHANGED <<cpc[c], told[c], asked[c]>>
  BY <1>0, <1>5 DEF TypeOK, Deliver, Receive
<1>6. ASSUME NEW th \in Threads, NEW d \in Clients, d # c,
             Poll(th, d) \/ \E r \in Requests : Submit(th, d, r)
      PROVE  UNCHANGED <<cpc[c], told[c], asked[c]>>
  BY <1>0, <1>6 DEF TypeOK, Poll, Submit
<1>7. ASSUME NEW th \in Threads, Poll(th, c) \/ \E r \in Requests : Submit(th, c, r)
      PROVE  FALSE
  BY <1>0, <1>7 DEF TypeOK, Poll, Submit
<1>8. ASSUME NEW d \in Clients, d # c, ClientTimeout(d) \/ Forget(d)
      PROVE  UNCHANGED <<cpc[c], told[c], asked[c]>>
  BY <1>0, <1>8 DEF TypeOK, ClientTimeout, Forget
<1>9. CASE ClientTimeout(c)
  <2>1. cpc[c] = "posting" /\ told'[c] = told[c]
    BY <1>0, <1>9 DEF TypeOK, ClientTimeout, CutOff
  <2> QED BY <2>1 DEF CauseInv, PostingInv
<1>10. ASSUME Forget(c)
       PROVE  FALSE
  BY <1>0, <1>10 DEF TypeOK, Forget
<1>11. CASE Restart
  <2>1. cpc[c] \in {"idle", "posting"} /\ told'[c] = told[c] /\ asked'[c] = asked[c]
    BY <1>0, <1>11 DEF TypeOK, Restart, CutOff
  <2>2. cpc[c] = "idle"
    BY <2>1 DEF CauseInv, PostingInv
  <2> QED BY <1>2, <2>1, <2>2
<1>12. CASE UNCHANGED vars
  BY <1>2, <1>12 DEF vars, clientVars
<1> QED BY <1>2, <1>3, <1>4, <1>5, <1>6, <1>7, <1>8, <1>9, <1>10, <1>11, <1>12
        DEF Next, HandlerStep, clientVars

LEMMA CauseStep == IInv /\ CauseInv /\ [Next]_vars => CauseInv'
<1> SUFFICES ASSUME IInv, CauseInv, [Next]_vars PROVE CauseInv'
  OBVIOUS
<1>1. EvaluatedInv' /\ PostingInv'
  BY EvaluatedStep, PostingStep
<1>2. AnswerHasCause'
  BY DraftStep, ToldStep DEF AnswerHasCause, AnswerFits
<1> QED BY <1>1, <1>2 DEF CauseInv

(* Every answer to a POST, on its way and with the client, has its cause   *)
(* in the request it answers: nobody gets the outputs of another request,  *)
(* nor a 200 for an evaluation that failed.                                *)
THEOREM AnswersHaveCauses == Spec => []AnswerHasCause
<1>1. Init => CauseInv
  BY DEF Init, CauseInv, EvaluatedInv, PostingInv, AnswerHasCause
<1>2. CauseInv => AnswerHasCause
  BY DEF CauseInv
<1> QED BY <1>1, <1>2, CauseStep, Inductive, PTL DEF Spec
----------------------------------------------------------------------------
(* What becomes of the jobs that nobody works on any more.                 *)
Abandoned(id) ==
    \/ jobs[id] = Finished(origin[id])
    \/ /\ jobs[id] = [NewJob(origin[id]) EXCEPT !.status = "running"]
       /\ BackendRaises \/ ~Evaluable(origin[id])

LEMMA RunningJob ==
  \A r : JobAt("evaluate", r) = [NewJob(r) EXCEPT !.status = "running"]
  BY DEF JobAt, StatusAt, NewJob

(* A handler that is done with its job has finished it, or its evaluation  *)
(* has failed.                                                             *)
LEMMA HandlerLeaves ==
  ASSUME IInv, NEW th \in Threads, HandlerStep(th), Working(th)
  PROVE  \/ Working(th)' /\ own'[th] = own[th]
         \/ Abandoned(own[th])' /\ own' = own
<1>0. /\ TypeOK
      /\ own[th] \in JobIds /\ req[th] \in Requests
      /\ origin[own[th]] = req[th]
      /\ jobs[own[th]] = JobAt(pc[th], req[th])
      /\ pc[th] \in WorkPcs
  BY WorkingJob DEF IInv, Working
<1> USE <1>0 DEF TypeOK
<1>1. CASE StartJob(th) \/ Evaluate(th) \/ SetCompleted(th)
  BY <1>1 DEF StartJob, Evaluate, SetCompleted, Goto, Working, WorkPcs
<1>2. CASE EvaluationRaises(th)
  <2>1. /\ pc[th] = "evaluate" /\ UNCHANGED <<jobs, origin, own>>
        /\ BackendRaises \/ ~Evaluable(req[th])
    BY <1>2 DEF EvaluationRaises
  <2>2. jobs[own[th]] = [NewJob(origin[own[th]]) EXCEPT !.status = "running"]
    BY <2>1, RunningJob
  <2> QED BY <2>1, <2>2 DEF Abandoned
<1>3. CASE SetResult(th)
  <2>1. /\ pc[th] = "result" /\ UNCHANGED <<origin, own>>
        /\ jobs' = [jobs EXCEPT ![own[th]] =
                       [jobs[own[th]] EXCEPT !.result =
                          ResultFor(jobs[own[th]].model, req[th])]]
    BY <1>3 DEF SetResult
  <2>2. jobs'[own[th]] = Finished(req[th])
    BY <2>1, JobMoves
  <2> QED BY <2>1, <2>2 DEF Abandoned
<1>4. CASE \/ RateLimited(th) \/ WithinLimit(th) \/ Refuse(th) \/ ContextFails(th)
           \/ Validated(th) \/ CreateJob(th) \/ GetStep(th) \/ Deliver(th)
  BY <1>4 DEF RateLimited, WithinLimit, Refuse, ContextFails, Validated, CreateJob,
     GetStep, UnknownJob, FoundJob, ReadStatus, ReadResult, Deliver, WorkPcs
<1> QED BY <1>1, <1>2, <1>3, <1>4 DEF HandlerStep, PostStep

(* A job that nobody works on stays as it is, or a restart takes it.       *)
LEMMA AbandonedStays ==
  ASSUME IInv, [Next]_vars, NEW id \in JobIds, jobs[id] # Absent,
         \A th \in Threads : ~(Working(th) /\ own[th] = id)
  PROVE  \/ jobs'[id] = jobs[id] /\ origin'[id] = origin[id]
         \/ jobs'[id] = Absent
<1>0. TypeOK /\ origin[id] # NoRequest
  BY DEF IInv, FreshInv
<1>1. origin'[id] = origin[id]
  BY <1>0, OriginStays
<1>2. ASSUME NEW th \in Threads, NEW new \in JobIds, CreatesJob(th, new)
      PROVE  jobs'[id] = jobs[id]
  BY <1>0, <1>2 DEF CreatesJob, TypeOK
<1>3. ASSUME NEW th \in Threads, MovesJob(th)
      PROVE  jobs'[id] = jobs[id]
  BY <1>0, <1>3 DEF MovesJob, TypeOK
<1>4. CASE LosesJobs
  BY <1>4 DEF LosesJobs
<1> QED BY <1>1, <1>2, <1>3, <1>4, StoreSteps

LEMMA StrandedStep == IInv /\ StrandedForCause /\ [Next]_vars => StrandedForCause'
<1> SUFFICES ASSUME IInv, StrandedForCause, [Next]_vars,
                    NEW id \in JobIds, jobs'[id] # Absent
             PROVE  \/ \E th \in Threads : Working(th)' /\ own'[th] = id
                    \/ Abandoned(id)'
  BY DEF StrandedForCause, Abandoned, Working
<1>0. TypeOK
  BY DEF IInv
<1>1. CASE /\ jobs[id] # Absent
           /\ \A th \in Threads : ~(Working(th) /\ own[th] = id)
  <2>1. Abandoned(id)
    BY <1>1 DEF StrandedForCause, Abandoned
  <2>2. jobs'[id] = jobs[id] /\ origin'[id] = origin[id]
    BY <1>1, AbandonedStays
  <2> QED BY <2>1, <2>2 DEF Abandoned
<1>2. ASSUME NEW th \in Threads, Working(th), own[th] = id
      PROVE  \/ \E w \in Threads : Working(w)' /\ own'[w] = id
             \/ Abandoned(id)'
  <2>1. CASE HandlerStep(th)
    <3>1. CASE Working(th)' /\ own'[th] = own[th]
      BY <1>2, <3>1
    <3>2. CASE Abandoned(own[th])' /\ own' = own
      BY <1>2, <3>2 DEF Abandoned
    <3> QED BY <1>2, <2>1, <3>1, <3>2, HandlerLeaves
  <2>2. ASSUME NEW other \in Threads, other # th,
               \/ HandlerStep(other)
               \/ \E c \in Clients :
                     Poll(other, c) \/ \E r \in Requests : Submit(other, c, r)
        PROVE  Working(th)' /\ own'[th] = id
    BY <1>2, <2>2, OthersStay DEF Working
  <2>3. ASSUME NEW c \in Clients,
               Poll(th, c) \/ \E r \in Requests : Submit(th, c, r)
        PROVE  FALSE
    BY <1>2, <2>3 DEF Poll, Submit, Working, WorkPcs
  <2>4. ASSUME NEW c \in Clients, ClientTimeout(c) \/ Forget(c)
        PROVE  Working(th)' /\ own'[th] = id
    BY <1>2, <2>4 DEF ClientTimeout, Forget, serverVars, Working
  <2>5. CASE Restart
    BY <2>5 DEF Restart
  <2>6. CASE UNCHANGED vars
    BY <1>2, <2>6 DEF vars, serverVars, Working
  <2> QED BY <2>1, <2>2, <2>3, <2>4, <2>5, <2>6 DEF Next
<1>3. CASE jobs[id] = Absent
  <2>1. ASSUME NEW th \in Threads, MovesJob(th)
        PROVE  FALSE
    <3>1. own[th] \in JobIds /\ jobs[own[th]] # Absent
      BY <2>1, WorkingJob DEF MovesJob
    <3> QED BY <1>0, <1>3, <2>1, <3>1 DEF MovesJob, TypeOK
  <2>2. jobs' # jobs /\ ~LosesJobs
    BY <1>3 DEF LosesJobs
  <2>3. PICK th \in Threads : CreateJob(th)
    <3>1. ASSUME NEW th \in Threads, HandlerStep(th), ~CreateJob(th)
          PROVE  jobs' = jobs \/ MovesJob(th)
      <4>1. \A new \in JobIds : ~CreatesJob(th, new)
        <5>1. pc[th] # "create"
          BY <3>1 DEF HandlerStep, PostStep, GetStep, RateLimited, WithinLimit,
             Refuse, ContextFails, Validated, StartJob, Evaluate,
             EvaluationRaises, SetCompleted, SetResult, UnknownJob, FoundJob,
             ReadStatus, ReadResult, Deliver
        <5> QED BY <5>1 DEF CreatesJob
      <4> QED BY <3>1, <4>1, HandlerStoreStep
    <3>2. ASSUME NEW th \in Threads, NEW c \in Clients,
                 Poll(th, c) \/ \E r \in Requests : Submit(th, c, r)
          PROVE  jobs' = jobs
      BY <3>2 DEF Poll, Submit
    <3>3. ASSUME NEW c \in Clients, ClientTimeout(c) \/ Forget(c)
          PROVE  jobs' = jobs
      BY <3>3 DEF ClientTimeout, Forget, serverVars
    <3>4. ~Restart /\ ~UNCHANGED vars
      BY <2>2 DEF Restart, LosesJobs, vars, serverVars
    <3> QED BY <2>1, <2>2, <3>1, <3>2, <3>3, <3>4 DEF Next
  <2>4. PICK new \in JobIds :
          /\ jobs' = [jobs EXCEPT ![new] = NewJob(req[th])]
          /\ own' = [own EXCEPT ![th] = new]
    BY <2>3 DEF CreateJob
  <2>5. new = id
    BY <1>0, <1>3, <2>4 DEF TypeOK
  <2>6. pc'[th] = "start"
    BY <1>0, <2>3 DEF TypeOK, CreateJob, Goto
  <2> QED BY <1>0, <2>4, <2>5, <2>6 DEF TypeOK, Working, WorkPcs
<1> QED BY <1>1, <1>2, <1>3

(* A job that nobody works on is finished, or is left "running" because    *)
(* its evaluation could fail; none is left queued or half-written.         *)
THEOREM StrandedOnlyByFailure == Spec => []StrandedForCause
<1>1. Init => StrandedForCause
  BY DEF Init, StrandedForCause
<1> QED BY <1>1, StrandedStep, Inductive, PTL DEF Spec

----------------------------------------------------------------------------
(* What the checks let through and the evaluator does not: on /infer a     *)
(* single ciphertext for a model of several features, or a polynomial that *)
(* leaves no bytes; on either route a model without parameters or without  *)
(* a polynomial.                                                           *)
Aggregated(r) ==
    r.route = "infer" /\ r.arity = 1 /\ Entry[r.model].dimension # 1

Incomplete(r) ==
    ~Entry[r.model].parameters \/ Entry[r.model].activation = "absent"

Constant(r) ==
    r.route = "infer" /\ Entry[r.model].activation \in {"zero", "number"}

(* The checks of the routes leave these kinds open and no other.           *)
LEMMA PassedChecks ==
  ASSUME NEW r \in Requests, Verdict(r) = 200
  PROVE  Evaluable(r) <=> ~(Aggregated(r) \/ Incomplete(r) \/ Constant(r))
<1> DEFINE entry == Entry[r.model]
<1>1. r.model \in Models
  BY DEF Verdict
<1>2. entry.parameters \in BOOLEAN /\ entry.activation \in Leftovers
  BY <1>1, ModelAssumption
<1>3. r.route \in {"infer", "plain"}
  BY RequestAssumption
<1>4. r.route = "plain" => r.arity = entry.dimension
  BY DEF Verdict, PlainVerdict
<1>5. r.route = "infer" => r.arity \in {1, entry.dimension}
  BY DEF Verdict, InferVerdict
<1> HIDE DEF entry
<1>6. Evaluable(r) <=> /\ entry.parameters
                       /\ r.arity = entry.dimension
                       /\ entry.activation # "absent"
                       /\ r.route = "infer" => entry.activation \in {"byte", "ciphertext"}
  BY DEF Evaluable, entry
<1>7. /\ Aggregated(r) <=> r.route = "infer" /\ r.arity = 1 /\ entry.dimension # 1
      /\ Incomplete(r) <=> ~entry.parameters \/ entry.activation = "absent"
      /\ Constant(r) <=> r.route = "infer" /\ entry.activation \in {"zero", "number"}
  BY DEF Aggregated, Incomplete, Constant, entry
<1> QED BY <1>2, <1>3, <1>4, <1>5, <1>6, <1>7 DEF Leftovers

(* What exactly AcceptedIsEvaluable fails for: the evaluation of a job is  *)
(* refused just when its request is of one of the three kinds.             *)
THEOREM ThreeKindsFail ==
  Spec => [](\A th \in Threads : Working(th) =>
                ( ~Evaluable(req[th]) <=>
                     Aggregated(req[th]) \/ Incomplete(req[th]) \/ Constant(req[th]) ))
<1>1. IInv => \A th \in Threads : Working(th) =>
                ( ~Evaluable(req[th]) <=>
                     Aggregated(req[th]) \/ Incomplete(req[th]) \/ Constant(req[th]) )
  BY WorkingJob, PassedChecks
<1> QED BY <1>1, Inductive, PTL

(* Only requests that pass the checks have jobs.                           *)
JobsChecked ==
    \A id \in JobIds :
        jobs[id] # Absent => origin[id] \in Requests /\ Verdict(origin[id]) = 200

LEMMA CheckedStep == IInv /\ JobsChecked /\ [Next]_vars => JobsChecked'
<1> SUFFICES ASSUME IInv, JobsChecked, [Next]_vars PROVE JobsChecked'
  OBVIOUS
<1>0. TypeOK
  BY DEF IInv
<1>1. ASSUME NEW th \in Threads, NEW id \in JobIds, CreatesJob(th, id)
      PROVE  JobsChecked'
  <2>1. req[th] \in Requests /\ Verdict(req[th]) = 200
    BY <1>1 DEF IInv, PostInv, CreatesJob, PostPcs
  <2> QED BY <1>0, <1>1, <2>1 DEF CreatesJob, JobsChecked, TypeOK
<1>2. ASSUME NEW th \in Threads, MovesJob(th) PROVE JobsChecked'
  <2>1. own[th] \in JobIds /\ jobs[own[th]] # Absent
    BY <1>2, WorkingJob DEF MovesJob
  <2> QED BY <1>0, <1>2, <2>1 DEF MovesJob, JobsChecked, TypeOK
<1>3. CASE LosesJobs
  BY <1>3 DEF LosesJobs, JobsChecked
<1>4. CASE UNCHANGED <<jobs, origin, restarts>>
  BY <1>4 DEF JobsChecked
<1> QED BY <1>1, <1>2, <1>3, <1>4, StoreSteps

(* What exactly NoStrandedJob fails for: with a backend that never raises, *)
(* callers that send one ciphertext per feature, as the SDK does, and a    *)
(* registry whose entries are complete and whose polynomials leave what    *)
(* has bytes, no job is left behind, whatever times out, vanishes and      *)
(* restarts.  The registry's validation asks for neither of its entries.   *)
THEOREM NoneStrandedOtherwise ==
  ASSUME ~BackendRaises,
         \A r \in Requests : ~Aggregated(r),
         \A m \in Models :
            Entry[m].parameters /\ Entry[m].activation \in {"byte", "ciphertext"}
  PROVE  Spec => []NoStrandedJob
<1>1. Init => JobsChecked
  BY DEF Init, JobsChecked
<1>2. JobsChecked /\ StrandedForCause => NoStrandedJob
  <2> SUFFICES ASSUME JobsChecked, StrandedForCause, NEW id \in JobIds,
                      jobs[id] # Absent, jobs[id].status # "completed"
               PROVE  \E th \in Threads : Working(th) /\ own[th] = id
    BY DEF NoStrandedJob
  <2>1. Evaluable(origin[id])
    <3>1. origin[id] \in Requests /\ Verdict(origin[id]) = 200
      BY DEF JobsChecked
    <3>2. origin[id].model \in Models
      BY <3>1 DEF Verdict
    <3> QED BY <3>1, <3>2, PassedChecks DEF Incomplete, Constant
  <2>2. jobs[id] # Finished(origin[id])
    BY DEF Finished
  <2> QED BY <2>1, <2>2 DEF StrandedForCause
<1> QED BY <1>1, <1>2, CheckedStep, StrandedOnlyByFailure, Inductive, PTL DEF Spec
----------------------------------------------------------------------------
(* No handler waits: what PostAnswered and HalfWrittenHeals rest on.  With *)
(* finitely many ids and threads, the guard of Submit keeps an id for      *)
(* every handler that may want one.                                        *)
IdsLeft == Cardinality(Issued) + Cardinality(Undecided) <= Cardinality(JobIds)

LEMMA Countable ==
  ASSUME IsFiniteSet(JobIds), IsFiniteSet(Threads)
  PROVE  /\ IsFiniteSet(Issued) /\ IsFiniteSet(Undecided)
         /\ Cardinality(Issued) \in Nat
         /\ Cardinality(Undecided) \in Nat
         /\ Cardinality(JobIds) \in Nat
  BY FS_Subset, FS_CardinalityType DEF Issued, Undecided

(* Only Submit makes a handler undecided, and only CreateJob uses an id.   *)
LEMMA FewerUndecided ==
  ASSUME IsFiniteSet(JobIds), IsFiniteSet(Threads), IdsLeft,
         Issued' = Issued, Undecided' \subseteq Undecided
  PROVE  IdsLeft'
<1>1. /\ Cardinality(Undecided') <= Cardinality(Undecided)
      /\ Cardinality(Undecided') \in Nat
  BY Countable, FS_Subset, FS_CardinalityType
<1>2. Cardinality(Issued') = Cardinality(Issued)
  OBVIOUS
<1> QED BY <1>1, <1>2, Countable DEF IdsLeft

LEMMA IdsStep ==
  ASSUME IsFiniteSet(JobIds), IsFiniteSet(Threads)
  PROVE  IInv /\ IdsLeft /\ [Next]_vars => IdsLeft'
<1> SUFFICES ASSUME IInv, IdsLeft, [Next]_vars PROVE IdsLeft'
  OBVIOUS
<1>0. TypeOK
  BY DEF IInv
<1>1. ASSUME NEW th \in Threads, NEW c \in Clients, NEW r \in Requests,
             Submit(th, c, r)
      PROVE  IdsLeft'
  <2>1. Issued' = Issued /\ Undecided' = Undecided \cup {th}
    BY <1>0, <1>1 DEF TypeOK, Submit, Goto, Issued, Undecided
  <2>2. /\ Cardinality(Undecided') <= Cardinality(Undecided) + 1
        /\ Cardinality(Undecided') \in Nat
    <3>1. /\ IsFiniteSet(Undecided \cup {th})
          /\ Cardinality(Undecided \cup {th})
                = IF th \in Undecided THEN Cardinality(Undecided)
                                      ELSE Cardinality(Undecided) + 1
      BY Countable, FS_AddElement
    <3>2. Cardinality(Undecided \cup {th}) \in Nat
      BY <3>1, FS_CardinalityType
    <3> QED BY <2>1, <3>1, <3>2, Countable
  <2>3. Cardinality(Issued') = Cardinality(Issued)
    BY <2>1
  <2>4. Cardinality(Issued) + Cardinality(Undecided) < Cardinality(JobIds)
    BY <1>1 DEF Submit
  <2> QED BY <2>2, <2>3, <2>4, Countable DEF IdsLeft
<1>2. ASSUME NEW th \in Threads, CreateJob(th)
      PROVE  IdsLeft'
  <2>1. PICK id \in JobIds \ Issued : origin' = [origin EXCEPT ![id] = req[th]]
    BY <1>2 DEF CreateJob
  <2>2. req[th] # NoRequest
    BY <1>2, MarkerAssumption DEF CreateJob, IInv, PostInv, PostPcs
  <2>3. Issued' = Issued \cup {id} /\ id \notin Issued
    BY <1>0, <2>1, <2>2 DEF TypeOK, Issued
  <2>4. Undecided' = Undecided \ {th} /\ th \in Undecided
    BY <1>0, <1>2 DEF TypeOK, CreateJob, Goto, Undecided
  <2>5. Cardinality(Issued') = Cardinality(Issued) + 1
    BY <2>3, Countable, FS_AddElement
  <2>6. Cardinality(Undecided') = Cardinality(Undecided) - 1
    BY <2>4, Countable, FS_RemoveElement
  <2> QED BY <2>5, <2>6, Countable DEF IdsLeft
<1>3. ASSUME NEW th \in Threads, HandlerStep(th), ~CreateJob(th)
      PROVE  origin' = origin /\ Undecided' \subseteq Undecided
  BY <1>0, <1>3 DEF TypeOK, HandlerStep, PostStep, GetStep, RateLimited, WithinLimit,
     Refuse, ContextFails, Validated, StartJob, Evaluate, EvaluationRaises,
     SetCompleted, SetResult, UnknownJob, FoundJob, ReadStatus, ReadResult,
     Deliver, Answer, Goto, Undecided
<1>4. ASSUME NEW th \in Threads, NEW c \in Clients, Poll(th, c)
      PROVE  origin' = origin /\ Undecided' \subseteq Undecided
  BY <1>0, <1>4 DEF TypeOK, Poll, Goto, Undecided
<1>5. ASSUME NEW c \in Clients, ClientTimeout(c) \/ Forget(c)
      PROVE  origin' = origin /\ Undecided' \subseteq Undecided
  BY <1>5 DEF ClientTimeout, Forget, serverVars, Undecided
<1>6. CASE Restart
  <2>1. origin' = origin /\ Undecided' \subseteq Undecided
    BY <1>6 DEF Restart, Undecided
  <2> QED BY <2>1, FewerUndecided DEF Issued
<1>7. CASE UNCHANGED vars
  <2>1. origin' = origin /\ Undecided' \subseteq Undecided
    BY <1>7 DEF vars, serverVars, Undecided
  <2> QED BY <2>1, FewerUndecided DEF Issued
<1>8. CASE origin' = origin /\ Undecided' \subseteq Undecided
  BY <1>8, FewerUndecided DEF Issued
<1> QED BY <1>1, <1>2, <1>3, <1>4, <1>5, <1>6, <1>7, <1>8 DEF Next, HandlerStep

(* What a handler needs for its next step is there: an id to give out, and *)
(* the record that start_job, complete_job and the job route look up.      *)
Provided(th) ==
    /\ pc[th] = "create" => \E id \in JobIds : origin[id] = NoRequest
    /\ pc[th] \in WorkPcs \cup {"status", "fetch"} => jobs[own[th]] \in Jobs
    /\ pc[th] = "fetch" => jobs[own[th]].result # NoResult

(* A handler never waits and never looks up what is not there: JOB_STORE   *)
(* has the record at every access by key, the route's job["result"] among  *)
(* them, whatever other handlers do.                                       *)
THEOREM HandlersNeverWait ==
  ASSUME IsFiniteSet(JobIds), IsFiniteSet(Threads)
  PROVE  Spec => [](\A th \in Threads : Provided(th))
<1>1. Init => IdsLeft
  <2> SUFFICES ASSUME Init PROVE IdsLeft
    OBVIOUS
  <2>1. Issued = {} /\ Undecided = {}
    BY DEF Init, Issued, Undecided
  <2> QED BY <2>1, FS_EmptySet, Countable DEF IdsLeft
<1>2. IInv /\ IdsLeft => \A th \in Threads : Provided(th)
  <2> SUFFICES ASSUME IInv, IdsLeft, NEW th \in Threads PROVE Provided(th)
    OBVIOUS
  <2>1. CASE pc[th] = "create"
    <3>1. Undecided # {}
      BY <2>1 DEF Undecided
    <3>2. Cardinality(Undecided) # 0
      BY <3>1, Countable, FS_EmptySet
    <3>3. Issued # JobIds
      BY <3>2, Countable DEF IdsLeft
    <3> QED BY <2>1, <3>3 DEF Issued, Provided, WorkPcs
  <2>2. CASE Working(th)
    <3>1. jobs[own[th]] \in Jobs
      BY <2>2, WorkingJob, JobType DEF Working
    <3> QED BY <2>2, <3>1 DEF Provided, Working, WorkPcs
  <2>3. CASE pc[th] \in {"status", "fetch"}
    <3>1. own[th] \in JobIds /\ Settled(own[th]) /\ jobs[own[th]] # Absent
      BY <2>3 DEF IInv, GetInv, GetOf, GetPcs
    <3>2. jobs[own[th]] = Finished(origin[own[th]])
      BY <3>1, SettledJob
    <3>3. Finished(origin[own[th]]) \in Jobs /\ Finished(origin[own[th]]).result # NoResult
      BY <3>1, JobType, ResultType DEF Settled, Finished
    <3> QED BY <2>3, <3>2, <3>3 DEF Provided
  <2> QED BY <2>1, <2>2, <2>3 DEF Provided, Working
<1> QED BY <1>1, <1>2, IdsStep, Inductive, PTL DEF Spec

(* The steps a handler has left at most, its answer included.              *)
StepsLeft(label) ==
    CASE label = "limit"    -> 8
      [] label = "validate" -> 7
      [] label = "create"   -> 6
      [] label = "start"    -> 5
      [] label = "evaluate" -> 4
      [] label = "complete" -> 3
      [] label = "result"   -> 2
      [] label = "lookup"   -> 4
      [] label = "status"   -> 3
      [] label = "fetch"    -> 2
      [] label = "reply"    -> 1
      [] label = "idle"     -> 0

(* A handler answers within eight steps of its own: each brings it nearer  *)
(* to its end, and nobody but a restart moves it otherwise, neither its    *)
(* client's timeout nor another handler.                                   *)
THEOREM HandlersMoveOn ==
  Spec => [][\A th \in Threads : pc[th] # "idle" =>
                \/ HandlerStep(th) /\ StepsLeft(pc'[th]) < StepsLeft(pc[th])
                \/ pc'[th] = pc[th]
                \/ Restart]_vars
<1>1. ASSUME TypeOK, [Next]_vars, NEW th \in Threads, pc[th] # "idle"
      PROVE  \/ HandlerStep(th) /\ StepsLeft(pc'[th]) < StepsLeft(pc[th])
             \/ pc'[th] = pc[th]
             \/ Restart
  <2> USE <1>1 DEF TypeOK
  <2>1. CASE PostStep(th)
    BY <2>1 DEF HandlerStep, PostStep, RateLimited, WithinLimit, Refuse,
       ContextFails, Validated, CreateJob, StartJob, Evaluate, EvaluationRaises,
       SetCompleted, SetResult, Answer, Goto, StepsLeft
  <2>2. CASE GetStep(th) \/ Deliver(th)
    BY <2>2 DEF HandlerStep, GetStep, UnknownJob, FoundJob, ReadStatus, ReadResult,
       Deliver, Answer, Goto, StepsLeft
  <2>3. ASSUME NEW other \in Threads, other # th, HandlerStep(other)
        PROVE  pc'[th] = pc[th]
    BY <2>3 DEF HandlerStep, PostStep, GetStep, RateLimited, WithinLimit, Refuse,
       ContextFails, Validated, CreateJob, StartJob, Evaluate, EvaluationRaises,
       SetCompleted, SetResult, UnknownJob, FoundJob, ReadStatus, ReadResult,
       Deliver, Answer, Goto
  <2>4. ASSUME NEW other \in Threads, NEW c \in Clients,
               Poll(other, c) \/ \E r \in Requests : Submit(other, c, r)
        PROVE  pc'[th] = pc[th]
    BY <2>4 DEF Poll, Submit, Goto
  <2>5. ASSUME NEW c \in Clients, ClientTimeout(c) \/ Forget(c)
        PROVE  pc'[th] = pc[th]
    BY <2>5 DEF ClientTimeout, Forget, serverVars
  <2>6. CASE UNCHANGED vars
    BY <2>6 DEF vars, serverVars
  <2> QED BY <2>1, <2>2, <2>3, <2>4, <2>5, <2>6 DEF Next, HandlerStep
<1>2. TypeOK /\ [Next]_vars =>
        [\A th \in Threads : pc[th] # "idle" =>
                \/ HandlerStep(th) /\ StepsLeft(pc'[th]) < StepsLeft(pc[th])
                \/ pc'[th] = pc[th]
                \/ Restart]_vars
  BY <1>1
<1> QED BY <1>2, TypeCorrect, PTL DEF Spec
============================================================================
