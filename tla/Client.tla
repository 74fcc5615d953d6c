-------------------------------- MODULE Client --------------------------------
(***************************************************************************)
(* One call of the SDK's Client.infer (client/src/heapi_client/client.py): *)
(* discover the model, check the values against it, make a CKKS session,   *)
(* submit, and poll for the result (discovery.py, ckks/session.py, api.py, *)
(* jobs.py).                                                               *)
(*                                                                         *)
(* The server is any that keeps to the HTTP API: it may work on a job      *)
(* while the client polls, as jobs.py expects, it may refuse or fail, and  *)
(* it may be restarted between two requests with another registry.  The    *)
(* server of this repository is one of them; Gateway shows that its jobs   *)
(* are finished before their first poll.                                   *)
(*                                                                         *)
(* Time is that of Jobs.wait, from its first line on.  It passes while a   *)
(* request is under way and while the client sleeps; what the client does  *)
(* in between takes none.                                                  *)
(***************************************************************************)
EXTENDS Integers, Sequences

CONSTANTS
    Models,        \* entries of GET /models, see ModelAssumption
    Registries,    \* sets of models a server may serve
    Calls,         \* calls of infer, see CallAssumption
    Unspecified,   \* version=None
    Timeout,       \* timeout of Jobs.wait
    Interval,      \* its interval
    RequestTime,   \* longest a GET takes, see FairSpec
    MaxRestarts,   \* bound: restarts of the server
    None           \* no model, no call, no request, not yet

(* Versions are numbered in the order of their strings, 0 is the empty     *)
(* string; params stands for encryption_parameters.                        *)
ASSUME ModelAssumption ==
    \A m \in Models :
        /\ m.version \in Nat
        /\ m.dimension \in Nat \ {0} /\ m.limit \in Nat \ {0}
        /\ m.floats \subseteq {"dimension", "batch"}  \* those written n.0
        /\ m.parameters \in BOOLEAN
        /\ m.activation \in {"absent", "zero", "number", "byte", "ciphertext"}

(* ModelRegistry!AllOrNothing: one entry per identity.                     *)
ASSUME RegistryAssumption ==
    /\ Registries \subseteq SUBSET Models
    /\ \A R \in Registries : \A m, n \in R :
          m.id = n.id /\ m.version = n.version => m = n

ASSUME CallAssumption ==
    /\ Unspecified \notin Nat
    /\ \A c \in Calls :
          /\ c.version \in Nat \cup {Unspecified}
          /\ c.rows \in Seq(Nat)     \* lengths; a flat list is one row
          /\ c.numeric \in BOOLEAN   \* lists of numbers only

ASSUME TimeAssumption ==
    /\ Timeout \in Nat /\ Interval \in Nat \ {0} /\ RequestTime \in Nat \ {0}
    /\ MaxRestarts \in Nat

ASSUME NoneAssumption == None \notin Models \cup Calls \cup Nat

VARIABLES
    registry,    \* what the server serves
    restarts,
    job,         \* the job at the server
    finishedAt,  \* history: when it was completed or failed
    pc,          \* where the call is
    call,        \* its arguments
    model,       \* what get_model returned
    sent,        \* the request submitted
    status,      \* of the latest answer to GET /jobs/{id}
    elapsed,     \* time.time() - start_time
    since,       \* when the request or the sleep under way began
    outcome      \* what the call returned or raised

serverVars == <<registry, restarts, job, finishedAt>>
timeVars == <<status, elapsed, since>>
vars == <<serverVars, pc, call, model, sent, timeVars, outcome>>

Waiting == {"poll", "get", "answering", "got", "sleep"}

----------------------------------------------------------------------------
(* The schema of GET /models, unlike that of the registry, requires both   *)
(* parameters and activation_parameters.                                   *)
Complete(m) == m.parameters /\ m.activation # "absent"

(* GET /models sorts the registry by identity: versions of one model come  *)
(* in the order of their strings.                                          *)
ListedBefore(m, n) == m.id = n.id /\ m.version < n.version

(* get_model returns the first match.                                      *)
FirstListed(m) ==
    /\ m \in registry /\ m.id = call.id
    /\ ~\E n \in registry : ListedBefore(n, m)

(* version, or that of the model.                                          *)
Version == IF call.version = Unspecified THEN model.version ELSE call.version

(* _normalize_batch: a non-empty list of non-empty lists of numbers.       *)
Normal == call.numeric /\ call.rows # <<>> /\ \A i \in DOMAIN call.rows : call.rows[i] > 0

(* Mutant: any for all.                                                    *)
SomeRowFits ==
    /\ model.floats = {}
    /\ \E i \in DOMAIN call.rows : call.rows[i] = model.dimension
    /\ Len(call.rows) <= model.limit

(* _validate_inputs_against_model.                                         *)
FitsModel ==
    /\ model.floats = {}
    /\ \A i \in DOMAIN call.rows : call.rows[i] = model.dimension
    /\ Len(call.rows) <= model.limit

(* One ciphertext per feature, each with a slot per row.                   *)
Submission ==
    [id |-> call.id, version |-> Version, batch |-> Len(call.rows),
     arity |-> call.rows[1], params |-> model.params]

(* What Gateway!InferVerdict tests in a request for model m, but for the   *)
(* ciphertexts; a limit written as a float is none.                        *)
Admits(m, s) ==
    /\ m.id = s.id /\ m.version = s.version
    /\ "batch" \in m.floats \/ s.batch <= m.limit
    /\ s.arity \in {1, m.dimension}

(* Mutant: the deadline is for jobs that run.                              *)
TimedOutRunning == elapsed > Timeout /\ status = "running"

TimedOut == elapsed > Timeout

(* The call returns or raises.                                             *)
End(result) == pc' = "over" /\ outcome' = result

----------------------------------------------------------------------------
(* Mutants of the actions below: the errors the properties are there for.  *)

(* get_model returns None for a model that is not listed.                  *)
DiscoverNothing ==
    /\ pc = "discover"
    /\ \A m \in registry : Complete(m)
    /\ \A m \in registry : m.id # call.id
    /\ pc' = "check"
    /\ UNCHANGED <<serverVars, call, model, sent, timeVars, outcome>>

(* The deadline is tested after the sleep, before another look.            *)
WakeAndGiveUp ==
    /\ pc = "sleep"
    /\ elapsed = since + Interval
    /\ IF TimedOut THEN End("timeout") ELSE pc' = "poll" /\ UNCHANGED outcome
    /\ UNCHANGED <<serverVars, call, model, sent, timeVars>>

(* start_time is taken inside the loop.                                    *)
SnoozeFromZero ==
    /\ pc = "got"
    /\ status \in {"queued", "running", "pending"}
    /\ ~TimedOut
    /\ pc' = "sleep"
    /\ elapsed' = 0
    /\ since' = 0
    /\ UNCHANGED <<serverVars, call, model, sent, status, outcome>>

----------------------------------------------------------------------------
Init ==
    /\ registry \in Registries
    /\ restarts = 0
    /\ job = "none"
    /\ finishedAt = None
    /\ pc = "idle"
    /\ call = None /\ model = None /\ sent = None
    /\ status = "none"
    /\ elapsed = 0 /\ since = 0
    /\ outcome = "none"

Infer(c) ==
    /\ pc = "idle"
    /\ pc' = "discover"
    /\ call' = c
    /\ UNCHANGED <<serverVars, model, sent, timeVars, outcome>>

(* GET /models is validated as a whole before the model is looked up.      *)
Discover ==
    /\ pc = "discover"
    /\ \A m \in registry : Complete(m)
    /\ \E m \in registry : FirstListed(m) /\ model' = m
    /\ pc' = "check"
    /\ UNCHANGED <<serverVars, call, sent, timeVars, outcome>>

Undiscovered ==
    /\ pc = "discover"
    /\ \A m \in registry : Complete(m)
    /\ \A m \in registry : m.id # call.id
    /\ End("notListed")
    /\ UNCHANGED <<serverVars, call, model, sent, timeVars>>

ListingRejected ==
    /\ pc = "discover"
    /\ \E m \in registry : ~Complete(m)
    /\ End("schema")
    /\ UNCHANGED <<serverVars, call, model, sent, timeVars>>

(* The values pass, the session is made and the columns are encrypted.     *)
Encrypt ==
    /\ pc = "check"
    /\ Version # 0 /\ Normal /\ FitsModel
    /\ sent' = Submission
    /\ pc' = "submit"
    /\ UNCHANGED <<serverVars, call, model, timeVars, outcome>>

ValuesRejected ==
    /\ pc = "check"
    /\ ~(Version # 0 /\ Normal /\ FitsModel)
    /\ End("schema")
    /\ UNCHANGED <<serverVars, call, model, sent, timeVars>>

(* CKKS_Session or an encryption raises.                                   *)
CryptoFails ==
    /\ pc = "check"
    /\ Version # 0 /\ Normal /\ FitsModel
    /\ End("crypto")
    /\ UNCHANGED <<serverVars, call, model, sent, timeVars>>

(* POST /infer answers with a job id, and Jobs.wait begins.  Ciphertexts   *)
(* of other parameters than the model's may be noticed or not.             *)
Submitted ==
    /\ pc = "submit"
    /\ \E m \in registry : Admits(m, sent)
    /\ job' = "queued"
    /\ pc' = "poll"
    /\ UNCHANGED <<registry, restarts, finishedAt, call, model, sent, timeVars,
                   outcome>>

(* The server refuses the request for what it says: 400 or 404.            *)
SubmissionRefused ==
    /\ pc = "submit"
    /\ ~\E m \in registry : Admits(m, sent) /\ m.params = sent.params
    /\ End("refused")
    /\ UNCHANGED <<serverVars, call, model, sent, timeVars>>

(* Any request can fail for the server's own reasons or time out.          *)
RequestFails ==
    /\ pc \in {"discover", "submit", "get", "answering"}
    /\ End("unavailable")
    /\ UNCHANGED <<serverVars, call, model, sent, timeVars>>

SendGet ==
    /\ pc = "poll"
    /\ pc' = "get"
    /\ since' = elapsed
    /\ UNCHANGED <<serverVars, call, model, sent, status, elapsed, outcome>>

(* The server looks at the job, and says so in the words jobs.py knows or  *)
(* in those of docs/api.md.                                                *)
AnswerGet ==
    /\ pc = "get"
    /\ job # "lost"
    /\ \E word \in (CASE job = "queued" -> {"queued", "pending"}
                      [] job = "completed" -> {"completed", "result", "done"}
                      [] OTHER -> {job}) : status' = word
    /\ pc' = "answering"
    /\ UNCHANGED <<serverVars, call, model, sent, elapsed, since, outcome>>

(* 404: raise_for_status.                                                  *)
JobLost ==
    /\ pc = "get"
    /\ job = "lost"
    /\ End("refused")
    /\ UNCHANGED <<serverVars, call, model, sent, timeVars>>

ReceiveGet ==
    /\ pc = "answering"
    /\ pc' = "got"
    /\ UNCHANGED <<serverVars, call, model, sent, timeVars, outcome>>

GiveUp ==
    /\ pc = "got"
    /\ status \in {"queued", "running", "pending"}
    /\ TimedOut
    /\ End("timeout")
    /\ UNCHANGED <<serverVars, call, model, sent, timeVars>>

Snooze ==
    /\ pc = "got"
    /\ status \in {"queued", "running", "pending"}
    /\ ~TimedOut
    /\ pc' = "sleep"
    /\ since' = elapsed
    /\ UNCHANGED <<serverVars, call, model, sent, status, elapsed, outcome>>

Wake ==
    /\ pc = "sleep"
    /\ elapsed = since + Interval
    /\ pc' = "poll"
    /\ UNCHANGED <<serverVars, call, model, sent, timeVars, outcome>>

(* What comes of a final answer: JobFailedError, SchemaValidationError for *)
(* a status the SDK does not know, or a result, which may yet fail its     *)
(* schema or its decryption.                                               *)
Outcomes(word) ==
    CASE word = "failed" -> {"jobFailed"}
      [] word \in {"completed", "result"} -> {"returned", "schema", "crypto"}
      [] OTHER -> {"badStatus"}

Conclude ==
    /\ pc = "got"
    /\ status \notin {"queued", "running", "pending"}
    /\ \E result \in Outcomes(status) : End(result)
    /\ UNCHANGED <<serverVars, call, model, sent, timeVars>>

----------------------------------------------------------------------------
Step ==
    \/ Discover \/ Undiscovered \/ ListingRejected
    \/ Encrypt \/ ValuesRejected \/ CryptoFails
    \/ Submitted \/ SubmissionRefused \/ RequestFails
    \/ SendGet \/ AnswerGet \/ JobLost \/ ReceiveGet
    \/ GiveUp \/ Snooze \/ Wake \/ Conclude

(* A GET is over, one way or the other, when RequestTime is.               *)
Tick ==
    /\ \/ pc \in {"get", "answering"} /\ elapsed < since + RequestTime
       \/ pc = "sleep" /\ elapsed < since + Interval
    /\ elapsed' = elapsed + 1
    /\ UNCHANGED <<serverVars, pc, call, model, sent, status, since, outcome>>

(* The server works on the job; it need not.                               *)
Work ==
    /\ \/ job = "queued" /\ job' = "running"
       \/ job = "running" /\ job' \in {"completed", "failed"}
    /\ finishedAt' = IF job' = "running" THEN None ELSE elapsed
    /\ UNCHANGED <<registry, restarts, pc, call, model, sent, timeVars, outcome>>

(* The server comes back without its jobs, and with another registry.      *)
Restart ==
    /\ restarts < MaxRestarts
    /\ restarts' = restarts + 1
    /\ registry' \in Registries
    /\ job' = IF job = "none" THEN "none" ELSE "lost"
    /\ UNCHANGED <<finishedAt, pc, call, model, sent, timeVars, outcome>>

Next ==
    \/ \E c \in Calls : Infer(c)
    \/ Step
    \/ Tick
    \/ Work
    \/ Restart

Spec == Init /\ [][Next]_vars

(* The client's code runs and time passes; of the server nothing but that  *)
(* a request ends, RequestTime after it began at the latest.  API.timeout  *)
(* sees to it for a server that is silent: requests applies it to the      *)
(* connection and to each read.  A server that keeps sending an answer in  *)
(* small pieces is not cut off by it, and is not one of these servers.     *)
FairSpec == Spec /\ WF_vars(Step) /\ WF_vars(Tick)
----------------------------------------------------------------------------
(* Every variable has its type, and a call has a model once it has         *)
(* discovered one.                                                         *)
TypeOK ==
    /\ registry \in Registries
    /\ restarts \in Nat
    /\ job \in {"none", "queued", "running", "completed", "failed", "lost"}
    /\ finishedAt \in Nat \cup {None}
    /\ pc \in {"idle", "discover", "check", "submit", "over"} \cup Waiting
    /\ call \in Calls \cup {None}
    /\ pc # "idle" => call \in Calls
    /\ model \in Models \cup {None}
    /\ pc \in {"check", "submit"} \cup Waiting => model \in Models
    /\ elapsed \in Nat /\ since \in Nat
    /\ outcome \in {"none", "notListed", "schema", "crypto", "refused",
                    "unavailable", "timeout", "returned", "jobFailed",
                    "badStatus"}

(* However slow the server, Jobs.wait is over one interval and one request *)
(* after its timeout: the deadline is tested after every answer that is    *)
(* not final, and one sleep and one GET may follow the last test.          *)
WaitIsBounded == elapsed <= Timeout + Interval + RequestTime

(* Jobs.wait never reports a timeout for a job that was finished in time.  *)
(* It looks before it gives up, and its look is at most one request old.   *)
GivesUpOnlyOnUnfinished ==
    outcome = "timeout" /\ finishedAt # None
        => finishedAt + RequestTime > Timeout

(* A call that leaves the version to the SDK is not refused for what it    *)
(* says: the checks of the client, against the entry it has discovered,    *)
(* are as strict as those of the server, and session, dimension, limit and *)
(* version of the request are those of that one entry.  It is refused only *)
(* by a server that has come back without this entry, or without the job.  *)
RefusedForCause ==
    outcome # "refused" /\ outcome' = "refused" /\ call.version = Unspecified
        => \/ pc = "submit" /\ model \notin registry
           \/ job = "lost"

NoAvoidableRefusal == [][RefusedForCause]_vars

(* A call is over some time, whatever the server does with the job.        *)
CallEnds == pc # "idle" ~> pc = "over"

(* README.md:34: "constructing a compatible CKKS session locally".         *)
(* Refuted: for a version the caller names, the session has the parameters *)
(* of the first version listed.                                            *)
SessionCompatible ==
    pc = "submit" => \A m \in registry :
        m.id = sent.id /\ m.version = sent.version => m.params = sent.params
==============================================================================
