------------------------- MODULE GatewayRefinement -------------------------
(***************************************************************************)
(* The gateway implements AbstractJobs.  complete_job writes the status    *)
(* and the result in two steps; the job is done when the second one is,    *)
(* so "completed" without a result is still running to a reader.  A GET    *)
(* handler has looked when it has read what it answers with.               *)
(***************************************************************************)
EXTENDS Gateway

CONSTANTS NoView, Torn

(* The state of a job on the abstract level.                               *)
StateOf(id) ==
    CASE jobs[id] = Absent -> Absent
      [] jobs[id] # Absent /\ jobs[id].result # NoResult ->
            [state |-> "done", result |-> jobs[id].result]
      [] HalfWritten(id) -> [state |-> "running"]
      [] OTHER -> [state |-> jobs[id].status]

(* What the answer of a GET handler says about the job; Torn is the 500 of *)
(* a reader that came between the two writes.                              *)
ViewOf(reply) ==
    CASE reply.code = 404 -> Absent
      [] reply.code = 500 -> Torn
      [] reply.code = 200 /\ reply.result # NoResult ->
            [state |-> "done", result |-> reply.result]
      [] OTHER -> [state |-> reply.status]

Looked(th) == pc[th] = "reply" /\ req[th] = NoRequest

Promise == INSTANCE AbstractJobs WITH
    Ids     <- JobIds,
    Inputs  <- Requests,
    Result  <- [r \in Requests |-> ResultFor(r.model, r)],
    Readers <- Threads,
    NoInput <- NoRequest,
    Unknown <- Absent,
    store   <- [id \in JobIds |-> StateOf(id)],
    input   <- origin,
    view    <- [th \in Threads |->
                   IF Looked(th) THEN ViewOf(draft[th]) ELSE NoView]

(* The jobs of the gateway, and every answer about one, are those of       *)
(* docs/api.md: in particular no reader ever sees a half-written job.      *)
ImplementsAbstractJobs == Promise!Spec
============================================================================
