---------------------- MODULE GatewayRefinementProofs ----------------------
(***************************************************************************)
(* The gateway implements AbstractJobs: every step of Gateway is a step of *)
(* the abstract specification under the mapping of GatewayRefinement, or   *)
(* leaves the abstract state alone.                                        *)
(***************************************************************************)
EXTENDS GatewayRefinement, GatewayProofs

(* The abstract state of a job at each place of the handler that has it.   *)
LEMMA StateOfWork ==
  ASSUME IInv, NEW th \in Threads, Working(th)
  PROVE  /\ pc[th] = "start" => StateOf(own[th]) = [state |-> "queued"]
         /\ pc[th] # "start" => StateOf(own[th]) = [state |-> "running"]
<1>1. /\ jobs[own[th]] = JobAt(pc[th], req[th])
      /\ jobs[own[th]] # Absent
  BY WorkingJob
<1>2. pc[th] \in WorkPcs
  BY DEF Working
<1>3. jobs[own[th]].result = NoResult /\ jobs[own[th]].status = StatusAt(pc[th])
  BY <1>1 DEF JobAt
<1> QED BY <1>1, <1>2, <1>3 DEF StateOf, HalfWritten, StatusAt, WorkPcs

AbsStore == [id \in JobIds |-> StateOf(id)]
AbsView == [th \in Threads |-> IF Looked(th) THEN ViewOf(draft[th]) ELSE NoView]

(* The abstract store only depends on the jobs, the view on the handlers.  *)
LEMMA StoreStutters == UNCHANGED jobs => UNCHANGED AbsStore
  BY DEF AbsStore, StateOf, HalfWritten

(* A handler's view only changes when it answers or leaves.                *)
LEMMA ViewStutters ==
  ASSUME \A th \in Threads :
            Looked(th)' = Looked(th) /\ (Looked(th) => draft'[th] = draft[th])
  PROVE  UNCHANGED AbsView
  BY DEF AbsView, ViewOf

(* The abstract state a step of one handler on one job leads to.           *)
LEMMA StoreMoves ==
  ASSUME TypeOK, NEW id \in JobIds, NEW job, jobs' = [jobs EXCEPT ![id] = job],
         NEW state, StateOf(id)' = state
  PROVE  AbsStore' = [AbsStore EXCEPT ![id] = state]
  BY DEF AbsStore, StateOf, HalfWritten, TypeOK

(* Init maps to Init.                                                      *)
LEMMA RefinementInit == Init => Promise!Init
  BY DEF Init, Promise!Init, StateOf, HalfWritten, Looked

(* POST handlers: what they do to their job is what the abstract job does. *)
LEMMA PostRefines ==
  ASSUME IInv, NEW th \in Threads, PostStep(th)
  PROVE  [Promise!Next]_(Promise!vars)
<1>0. TypeOK
  BY DEF IInv
<1>1. /\ pc[th] \in PostPcs
      /\ UNCHANGED req
      /\ req[th] \in Requests /\ req[th] # NoRequest
  BY MarkerAssumption DEF IInv, PostInv, PostPcs, WorkPcs, PostStep, RateLimited,
     WithinLimit, Refuse, ContextFails,
        Validated, CreateJob, StartJob, Evaluate,
     EvaluationRaises, SetCompleted, SetResult
<1>2. UNCHANGED AbsView
  <2>1. ~Looked(th) /\ ~Looked(th)'
    BY <1>1 DEF Looked
  <2>2. ASSUME NEW other \in Threads, other # th
        PROVE  Looked(other)' = Looked(other) /\ draft'[other] = draft[other]
    BY <2>2, OthersStay DEF Looked, HandlerStep
  <2>3. ASSUME NEW t \in Threads
        PROVE  Looked(t)' = Looked(t) /\ (Looked(t) => draft'[t] = draft[t])
    <3>1. CASE t = th
      BY <2>1, <3>1 DEF Looked
    <3>2. CASE t # th
      BY <2>2, <3>2
    <3> QED BY <3>1, <3>2
  <2> QED BY <2>3, ViewStutters
<1>3. CASE UNCHANGED <<jobs, origin>>
  BY <1>2, <1>3, StoreStutters DEF Promise!vars, AbsStore, AbsView
<1>4. CASE CreateJob(th)
  <2>1. PICK id \in JobIds \ Issued :
          /\ jobs' = [jobs EXCEPT ![id] = NewJob(req[th])]
          /\ origin' = [origin EXCEPT ![id] = req[th]]
    BY <1>4 DEF CreateJob
  <2>2. origin[id] = NoRequest
    BY <2>1 DEF Issued
  <2>3. Verdict(req[th]) = 200
    BY <1>4 DEF IInv, PostInv, CreateJob
  <2>4. NewJob(req[th]) # Absent
    BY <1>1, <2>3, JobType, MarkerAssumption DEF WorkPcs
  <2>5. StateOf(id)' = [state |-> "queued"]
    BY <1>0, <2>1, <2>4 DEF StateOf, HalfWritten, NewJob, TypeOK
  <2>6. AbsStore' = [AbsStore EXCEPT ![id] = [state |-> "queued"]]
    BY <1>0, <2>1, <2>5, StoreMoves
  <2>7. Promise!Create(id, req[th])
    BY <1>2, <2>1, <2>2, <2>6
       DEF Promise!Create, Promise!Queued, AbsStore, AbsView
  <2> QED BY <1>1, <2>1, <2>7 DEF Promise!Next
<1>5. ASSUME Working(th)
      PROVE  /\ own[th] \in JobIds /\ req[th] \in Requests
             /\ Verdict(req[th]) = 200 /\ origin[own[th]] = req[th]
             /\ jobs[own[th]] = JobAt(pc[th], req[th])
             /\ jobs[own[th]] # Absent
  BY <1>5, WorkingJob
<1>6. CASE StartJob(th)
  <2>1. /\ Working(th) /\ pc[th] = "start" /\ UNCHANGED origin
        /\ jobs' = [jobs EXCEPT ![own[th]] =
                       [jobs[own[th]] EXCEPT !.status = "running"]]
    BY <1>6 DEF StartJob, Working, WorkPcs
  <2>0. jobs[own[th]] = JobAt("start", req[th])
    BY <1>5, <2>1
  <2>2. jobs' = [jobs EXCEPT ![own[th]] = JobAt("evaluate", req[th])]
    BY <2>0, <2>1, JobMoves
  <2>3. JobAt("evaluate", req[th]) # Absent
    BY <1>5, <2>1, JobType, MarkerAssumption DEF WorkPcs
  <2>4. PICK id \in JobIds : id = own[th]
    BY <1>5, <2>1
  <2>5. StateOf(id)' = [state |-> "running"]
    BY <1>0, <2>2, <2>3, <2>4 DEF StateOf, HalfWritten, JobAt, StatusAt, TypeOK
  <2>6. StateOf(id) = [state |-> "queued"]
    BY <2>1, <2>4, StateOfWork
  <2>7. AbsStore' = [AbsStore EXCEPT ![id] = [state |-> "running"]]
    BY <1>0, <2>2, <2>4, <2>5, StoreMoves
  <2>8. Promise!Start(id)
    BY <1>2, <2>1, <2>6, <2>7
       DEF Promise!Start, Promise!Queued, Promise!Running, AbsStore, AbsView
  <2> QED BY <2>8 DEF Promise!Next
<1>7. CASE SetCompleted(th)
  <2>1. /\ Working(th) /\ pc[th] = "complete" /\ UNCHANGED origin
        /\ jobs' = [jobs EXCEPT ![own[th]] =
                       [jobs[own[th]] EXCEPT !.status = "completed"]]
    BY <1>7 DEF SetCompleted, Working, WorkPcs
  <2>0. jobs[own[th]] = JobAt("complete", req[th])
    BY <1>5, <2>1
  <2>2. jobs' = [jobs EXCEPT ![own[th]] = JobAt("result", req[th])]
    BY <2>0, <2>1, JobMoves
  <2>3. JobAt("result", req[th]) # Absent
    BY <1>5, <2>1, JobType, MarkerAssumption DEF WorkPcs
  <2>4. PICK id \in JobIds : id = own[th]
    BY <1>5, <2>1
  <2>5. StateOf(id)' = [state |-> "running"]
    BY <1>0, <2>2, <2>3, <2>4 DEF StateOf, HalfWritten, JobAt, StatusAt, TypeOK
  <2>6. StateOf(id) = [state |-> "running"]
    BY <2>1, <2>4, StateOfWork
  <2>7. AbsStore' = [AbsStore EXCEPT ![id] = [state |-> "running"]]
    BY <1>0, <2>2, <2>4, <2>5, StoreMoves
  <2>8. AbsStore' = AbsStore
    BY <2>6, <2>7 DEF AbsStore
  <2> QED BY <1>2, <2>1, <2>8 DEF Promise!vars, AbsStore, AbsView
<1>8. CASE SetResult(th)
  <2>1. /\ Working(th) /\ pc[th] = "result" /\ UNCHANGED origin
        /\ jobs' = [jobs EXCEPT ![own[th]] =
                       [jobs[own[th]] EXCEPT !.result =
                          ResultFor(jobs[own[th]].model, req[th])]]
    BY <1>8 DEF SetResult, Working, WorkPcs
  <2>0. jobs[own[th]] = JobAt("result", req[th])
    BY <1>5, <2>1
  <2>2. jobs' = [jobs EXCEPT ![own[th]] = Finished(req[th])]
    BY <2>0, <2>1, JobMoves
  <2>3. Finished(req[th]) # Absent
    BY <1>5, <2>1, JobType, MarkerAssumption
  <2>4. PICK id \in JobIds : id = own[th]
    BY <1>5, <2>1
  <2> DEFINE res == ResultFor(req[th].model, req[th])
  <2>5. res # NoResult
    BY <1>5, <2>1, ResultType
  <2>6. StateOf(id)' = [state |-> "done", result |-> res]
    <3>1. jobs'[id] = Finished(req[th])
      BY <1>0, <2>2, <2>4 DEF TypeOK
    <3>2. Finished(req[th]).result = res
      BY DEF Finished
    <3>3. jobs'[id] # Absent /\ jobs'[id].result = res
      BY <2>3, <3>1, <3>2
    <3> QED BY <2>5, <3>3 DEF StateOf, HalfWritten
  <2>7. StateOf(id) = [state |-> "running"]
    BY <2>1, <2>4, StateOfWork
  <2>8. AbsStore' = [AbsStore EXCEPT ![id] = [state |-> "done", result |-> res]]
    BY <1>0, <2>2, <2>4, <2>6, StoreMoves
  <2>9. [r \in Requests |-> ResultFor(r.model, r)][origin[id]] = res
    BY <1>5, <2>1, <2>4
  <2>10. Promise!Finish(id)
    BY <1>2, <2>1, <2>7, <2>8, <2>9
       DEF Promise!Finish, Promise!Running, Promise!Done, AbsStore, AbsView
  <2> QED BY <2>10 DEF Promise!Next
<1>9. CASE \/ RateLimited(th) \/ WithinLimit(th) \/ Refuse(th)
           \/ ContextFails(th)
           \/ Validated(th) \/ Evaluate(th) \/ EvaluationRaises(th)
  BY <1>3, <1>9 DEF RateLimited, WithinLimit, Refuse, ContextFails,
     Validated, Evaluate,
     EvaluationRaises
<1> QED BY <1>4, <1>6, <1>7, <1>8, <1>9 DEF PostStep

(* GET handlers: the answer is the state of the job at one instant.        *)
LEMMA GetRefines ==
  ASSUME IInv, NEW th \in Threads, GetStep(th)
  PROVE  [Promise!Next]_(Promise!vars)
<1>0. TypeOK
  BY DEF IInv
<1>1. /\ pc[th] \in GetPcs
      /\ UNCHANGED <<jobs, origin, req, own>>
      /\ req[th] = NoRequest
  BY DEF IInv, GetInv, GetOf, GetPcs, GetStep, UnknownJob, FoundJob, ReadStatus,
     ReadResult
<1>2. UNCHANGED AbsStore
  BY <1>1, StoreStutters
<1>3. ASSUME NEW other \in Threads, other # th
      PROVE  /\ Looked(other)' = Looked(other)
             /\ draft'[other] = draft[other]
  BY <1>3, OthersStay DEF Looked, HandlerStep
<1>4. ~Looked(th)
  BY <1>1 DEF Looked, GetPcs
<1>5. PICK id \in JobIds : id = own[th] /\ Settled(id)
  BY <1>1 DEF IInv, GetInv, GetOf
<1>6. ASSUME pc'[th] = "reply", ViewOf(draft[th])' = StateOf(id)
      PROVE  [Promise!Next]_(Promise!vars)
  <2>1. AbsView' = [AbsView EXCEPT ![th] = StateOf(id)]
    <3>1. Looked(th)'
      BY <1>1, <1>6 DEF Looked
    <3>2. ASSUME NEW other \in Threads, other # th
          PROVE  AbsView'[other] = AbsView[other]
      BY <1>3, <3>2 DEF AbsView, ViewOf
    <3> QED BY <1>6, <3>1, <3>2 DEF AbsView
  <2>2. Promise!Look(th, id)
    BY <1>1, <1>2, <1>4, <2>1 DEF Promise!Look, AbsStore, AbsView
  <2> QED BY <2>2 DEF Promise!Next
<1>7. CASE pc'[th] # "reply"
  <2>1. ~Looked(th)'
    BY <1>7 DEF Looked
  <2>2. UNCHANGED AbsView
    <3>1. ASSUME NEW t \in Threads
          PROVE  Looked(t)' = Looked(t) /\ (Looked(t) => draft'[t] = draft[t])
      <4>1. CASE t = th
        BY <1>4, <2>1, <4>1 DEF Looked
      <4>2. CASE t # th
        BY <1>3, <4>2
      <4> QED BY <4>1, <4>2
    <3> QED BY <3>1, ViewStutters
  <2> QED BY <1>1, <1>2, <2>2 DEF Promise!vars, AbsStore, AbsView
<1>8. CASE UnknownJob(th)
  <2>1. draft'[th] = Error(404) /\ pc'[th] = "reply" /\ jobs[id] = Absent
    BY <1>0, <1>5, <1>8 DEF UnknownJob, Answer, Goto, TypeOK
  <2>2. ViewOf(draft[th])' = Absent
    BY <2>1 DEF ViewOf, Error, Reply
  <2>3. StateOf(id) = Absent
    BY <2>1 DEF StateOf, HalfWritten
  <2> QED BY <1>6, <2>1, <2>2, <2>3
<1>9. CASE FoundJob(th)
  BY <1>0, <1>7, <1>9 DEF FoundJob, Goto, TypeOK
<1>10. ASSUME pc[th] # "lookup"
       PROVE  /\ jobs[id] = Finished(origin[id]) /\ jobs[id] # Absent
              /\ ResultFor(origin[id].model, origin[id]) # NoResult
  BY <1>1, <1>5, <1>10, SettledJob, MarkerAssumption DEF IInv, GetInv, GetOf
<1>11. CASE ReadStatus(th)
  <2>1. jobs[id].status = "completed"
    BY <1>10, <1>11 DEF ReadStatus, Finished
  <2> QED BY <1>0, <1>5, <1>7, <1>11, <2>1 DEF ReadStatus, Goto, TypeOK
<1>12. CASE ReadResult(th)
  <2> DEFINE res == ResultFor(origin[id].model, origin[id])
  <2>1. jobs[id] = Finished(origin[id]) /\ jobs[id] # Absent /\ res # NoResult
    BY <1>10, <1>12 DEF ReadResult
  <2>2. jobs[id].result = res
    BY <2>1 DEF Finished
  <2>3. draft'[th] = Reply(200, "completed", NoJob, res) /\ pc'[th] = "reply"
    BY <1>0, <1>5, <1>12, <2>1, <2>2 DEF ReadResult, Answer, Goto, TypeOK
  <2>4. ViewOf(draft'[th]) = [state |-> "done", result |-> res]
    BY <2>1, <2>3 DEF ViewOf, Reply
  <2>5. StateOf(id) = [state |-> "done", result |-> res]
    <3>1. jobs[id].result # NoResult
      BY <2>1, <2>2
    <3> QED BY <2>1, <2>2, <3>1 DEF StateOf, HalfWritten
  <2> QED BY <1>6, <2>3, <2>4, <2>5 DEF ViewOf
<1> QED BY <1>8, <1>9, <1>11, <1>12 DEF GetStep

(* A response leaves: a reader is done, a POST handler was none.           *)
LEMMA DeliverRefines ==
  ASSUME IInv, NEW th \in Threads, Deliver(th)
  PROVE  [Promise!Next]_(Promise!vars)
<1>0. TypeOK
  BY DEF IInv
<1>1. UNCHANGED <<jobs, origin>> /\ pc'[th] # "reply"
  BY <1>0 DEF Deliver, Goto, TypeOK
<1>2. UNCHANGED AbsStore
  BY <1>1, StoreStutters
<1>3. ASSUME NEW other \in Threads, other # th
      PROVE  AbsView'[other] = AbsView[other]
  <2>1. Looked(other)' = Looked(other) /\ draft'[other] = draft[other]
    BY <1>3, OthersStay DEF Looked, HandlerStep
  <2> QED BY <2>1 DEF AbsView, ViewOf
<1>4. AbsView' = [AbsView EXCEPT ![th] = NoView]
  <2>1. ~Looked(th)'
    BY <1>1 DEF Looked
  <2> QED BY <1>3, <2>1 DEF AbsView
<1>5. Promise!Leave(th)
  BY <1>1, <1>2, <1>4 DEF Promise!Leave, AbsStore, AbsView
<1> QED BY <1>5 DEF Promise!Next

(* Every step of the gateway is a step of the promise, or none.            *)
LEMMA RefinementStep == IInv /\ [Next]_vars => [Promise!Next]_(Promise!vars)
<1> SUFFICES ASSUME IInv, [Next]_vars PROVE [Promise!Next]_(Promise!vars)
  OBVIOUS
<1>0. TypeOK
  BY DEF IInv
<1>1. ASSUME UNCHANGED <<jobs, origin>>,
             \A th \in Threads :
                Looked(th)' = Looked(th) /\ (Looked(th) => draft'[th] = draft[th])
      PROVE  UNCHANGED Promise!vars
  BY <1>1, StoreStutters, ViewStutters DEF Promise!vars, AbsStore, AbsView
<1>2. ASSUME NEW th \in Threads, NEW c \in Clients,
             Poll(th, c) \/ \E r \in Requests : Submit(th, c, r)
      PROVE  UNCHANGED Promise!vars
  <2>1. UNCHANGED <<jobs, origin, draft>> /\ ~Looked(th) /\ ~Looked(th)'
    BY <1>0, <1>2 DEF Poll, Submit, Goto, Looked, TypeOK
  <2>2. ASSUME NEW other \in Threads, other # th
        PROVE  Looked(other)' = Looked(other)
    BY <1>2, <2>2, OthersStay DEF Looked
  <2>3. ASSUME NEW t \in Threads
        PROVE  Looked(t)' = Looked(t) /\ (Looked(t) => draft'[t] = draft[t])
    <3>1. CASE t = th
      BY <2>1, <3>1 DEF Looked
    <3>2. CASE t # th
      BY <2>1, <2>2, <3>2
    <3> QED BY <3>1, <3>2
  <2> QED BY <1>1, <2>1, <2>3
<1>3. ASSUME NEW c \in Clients, ClientTimeout(c) \/ Forget(c)
      PROVE  UNCHANGED Promise!vars
  BY <1>1, <1>3 DEF ClientTimeout, Forget, serverVars, Looked
<1>4. CASE Restart
  <2>1. AbsStore' = [id \in JobIds |-> Absent]
    BY <1>4 DEF Restart, AbsStore, StateOf, HalfWritten
  <2>2. AbsView' = [th \in Threads |-> NoView]
    BY <1>4 DEF Restart, AbsView, Looked
  <2>3. Promise!Crash
    BY <1>4, <2>1, <2>2 DEF Restart, Promise!Crash, AbsStore, AbsView
  <2> QED BY <2>3 DEF Promise!Next
<1>5. CASE UNCHANGED vars
  BY <1>1, <1>5 DEF vars, serverVars, Looked
<1> QED BY <1>2, <1>3, <1>4, <1>5, PostRefines, GetRefines, DeliverRefines
        DEF Next, HandlerStep

(* The gateway keeps the promise of docs/api.md.                           *)
THEOREM GatewayImplementsAbstractJobs == Spec => ImplementsAbstractJobs
<1> QED BY RefinementInit, RefinementStep, Inductive, PTL
        DEF Spec, ImplementsAbstractJobs, Promise!Spec
============================================================================

