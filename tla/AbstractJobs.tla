---------------------------- MODULE AbstractJobs ----------------------------
(***************************************************************************)
(* What docs/api.md ("GET /jobs{job_id}", Guarantees) promises of the jobs *)
(* of the gateway, without threads, handlers or half-done writes: a job is *)
(* created once, moves forward in single steps, is finished and has its    *)
(* result at one and the same instant, and a reader sees one state of one  *)
(* job.  A crash may take all jobs and readers at once.                    *)
(***************************************************************************)
CONSTANTS
    Ids,        \* job identifiers
    Inputs,     \* what a job can be asked to compute
    Result,     \* Result[i] is the only right result of input i
    Readers,    \* whoever can look at jobs
    NoInput, Unknown, NoView

VARIABLES
    store,      \* id -> state of the job, or Unknown
    input,      \* id -> the input the id was given out for, once and for all
    view        \* reader -> the job state it has looked up, or NoView

vars == <<store, input, view>>

Queued    == [state |-> "queued"]
Running   == [state |-> "running"]
Done(res) == [state |-> "done", result |-> res]

Init ==
    /\ store = [id \in Ids |-> Unknown]
    /\ input = [id \in Ids |-> NoInput]
    /\ view = [rd \in Readers |-> NoView]

Create(id, i) ==
    /\ input[id] = NoInput
    /\ input' = [input EXCEPT ![id] = i]
    /\ store' = [store EXCEPT ![id] = Queued]
    /\ UNCHANGED view

Start(id) ==
    /\ store[id] = Queued
    /\ store' = [store EXCEPT ![id] = Running]
    /\ UNCHANGED <<input, view>>

Finish(id) ==
    /\ store[id] = Running
    /\ store' = [store EXCEPT ![id] = Done(Result[input[id]])]
    /\ UNCHANGED <<input, view>>

Look(rd, id) ==
    /\ view[rd] = NoView
    /\ view' = [view EXCEPT ![rd] = store[id]]
    /\ UNCHANGED <<store, input>>

Leave(rd) ==
    /\ view' = [view EXCEPT ![rd] = NoView]
    /\ UNCHANGED <<store, input>>

Crash ==
    /\ store' = [id \in Ids |-> Unknown]
    /\ view' = [rd \in Readers |-> NoView]
    /\ UNCHANGED input

Next ==
    \/ \E id \in Ids :
          \/ \E i \in Inputs : Create(id, i)
          \/ Start(id)
          \/ Finish(id)
          \/ \E rd \in Readers : Look(rd, id)
    \/ \E rd \in Readers : Leave(rd)
    \/ Crash

Spec == Init /\ [][Next]_vars
=============================================================================
