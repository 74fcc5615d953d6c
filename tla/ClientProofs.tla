---------------------------- MODULE ClientProofs ----------------------------
(***************************************************************************)
(* Client, for every server and every timeout, interval and request time.  *)
(*                                                                         *)
(* The bounds on the wait need to know, at every place of the loop, how    *)
(* long it can have taken to get there (Clock); that a timeout is          *)
(* deserved, that the job was not finished when the answer was made        *)
(* (Look); that nothing is refused without a cause, that the request was   *)
(* made from an entry of the server's and fits it (Checked).               *)
(***************************************************************************)
EXTENDS Client, WellFoundedInduction, TLAPS

Pcs == {"idle", "discover", "check", "submit", "over"} \cup Waiting

Unfinished == {"queued", "running", "pending"}

(* How long the wait can have lasted.                                      *)
Clock ==
    /\ pc \notin Waiting \cup {"over"} => elapsed = 0
    /\ pc = "poll" => elapsed <= Timeout + Interval
    /\ pc \in {"get", "answering", "got"} =>
          /\ since <= Timeout + Interval
          /\ since <= elapsed /\ elapsed <= since + RequestTime
    /\ pc = "sleep" =>
          since <= Timeout /\ elapsed <= since + Interval
    /\ pc = "over" => elapsed <= Timeout + Interval + RequestTime

(* An answer that is not final was true when its GET was sent.             *)
Look ==
    /\ pc \notin Waiting \cup {"over"} => job = "none"
    /\ job \in {"none", "queued", "running"} => finishedAt = None
    /\ pc \in {"answering", "got"} /\ status \in Unfinished /\ finishedAt # None
          => finishedAt >= since
    /\ outcome = "timeout" => pc = "over" /\ elapsed > Timeout

(* The request of a call is made from the entry it has discovered, which   *)
(* is one with weights and a polynomial.                                   *)
Checked ==
    /\ outcome # "none" => pc = "over"
    /\ pc \in {"check", "submit"} => model.id = call.id /\ Complete(model)
    /\ pc = "submit" => Normal /\ FitsModel /\ sent = Submission

IInv == TypeOK /\ Clock /\ Look /\ Checked /\ GivesUpOnlyOnUnfinished

LEMMA Initial == Init => IInv
BY NoneAssumption, TimeAssumption
DEF Init, IInv, TypeOK, Clock, Look, Checked, GivesUpOnlyOnUnfinished, Waiting

LEMMA TypeInductive == TypeOK /\ [Next]_vars => TypeOK'
<1> SUFFICES ASSUME TypeOK, [Next]_vars PROVE TypeOK'
    OBVIOUS
<1> USE DEF TypeOK, Waiting, serverVars, timeVars, End
<1>1. ASSUME NEW c \in Calls, Infer(c) PROVE TypeOK'
    BY <1>1 DEF Infer
<1>2. CASE Discover
    <2>1. PICK m \in registry : FirstListed(m) /\ model' = m
        BY <1>2 DEF Discover
    <2>2. m \in Models
        BY <2>1, RegistryAssumption
    <2> QED BY <1>2, <2>1, <2>2 DEF Discover
<1>3. CASE Undiscovered \/ ListingRejected \/ ValuesRejected \/ CryptoFails
           \/ SubmissionRefused \/ RequestFails \/ JobLost \/ GiveUp
    BY <1>3 DEF Undiscovered, ListingRejected, ValuesRejected, CryptoFails,
                SubmissionRefused, RequestFails, JobLost, GiveUp
<1>4. CASE Encrypt \/ Submitted \/ SendGet \/ ReceiveGet \/ Snooze \/ Wake
    BY <1>4 DEF Encrypt, Submitted, SendGet, ReceiveGet, Snooze, Wake
<1>5. CASE AnswerGet
    BY <1>5 DEF AnswerGet
<1>6. CASE Conclude
    <2>1. outcome' \in {"jobFailed", "returned", "schema", "crypto",
                       "badStatus"}
        BY <1>6 DEF Conclude, Outcomes
    <2> QED BY <1>6, <2>1 DEF Conclude
<1>7. CASE Tick
    <2>1. elapsed \in Nat => elapsed + 1 \in Nat
        OBVIOUS
    <2> QED BY <1>7, <2>1 DEF Tick
<1>8. CASE Work
    BY <1>8 DEF Work
<1>9. CASE Restart
    <2>1. restarts \in Nat => restarts + 1 \in Nat
        OBVIOUS
    <2> QED BY <1>9, <2>1 DEF Restart
<1>10. CASE UNCHANGED vars
    BY <1>10 DEF vars
<1> QED BY <1>1, <1>2, <1>3, <1>4, <1>5, <1>6, <1>7, <1>8, <1>9, <1>10
        DEF Next, Step

(* How long each place of the loop can take.                               *)
LEMMA ClockInductive == TypeOK /\ Clock /\ [Next]_vars => Clock'
<1> SUFFICES ASSUME TypeOK, Clock, [Next]_vars PROVE Clock'
    OBVIOUS
<1>n. /\ elapsed \in Nat /\ since \in Nat
      /\ Timeout \in Nat /\ Interval \in Nat /\ RequestTime \in Nat
    BY TimeAssumption DEF TypeOK
<1> USE <1>n DEF Clock, Waiting, serverVars, timeVars, End
<1>1. ASSUME NEW c \in Calls, Infer(c) PROVE Clock'
    BY <1>1 DEF Infer
<1>2. CASE Discover \/ Undiscovered \/ ListingRejected \/ Encrypt
           \/ ValuesRejected \/ CryptoFails \/ Submitted \/ SubmissionRefused
    BY <1>2 DEF Discover, Undiscovered, ListingRejected, Encrypt,
                ValuesRejected, CryptoFails, Submitted, SubmissionRefused
<1>3. CASE RequestFails \/ JobLost \/ GiveUp \/ Conclude
    BY <1>3 DEF RequestFails, JobLost, GiveUp, Conclude
<1>4. CASE SendGet
    BY <1>4 DEF SendGet
<1>5. CASE AnswerGet \/ ReceiveGet
    BY <1>5 DEF AnswerGet, ReceiveGet
<1>6. CASE Snooze
    BY <1>6 DEF Snooze, TimedOut
<1>7. CASE Wake
    BY <1>7 DEF Wake
<1>8. CASE Tick
    BY <1>8 DEF Tick
<1>9. CASE Work \/ Restart \/ UNCHANGED vars
    BY <1>9 DEF Work, Restart, vars
<1> QED BY <1>1, <1>2, <1>3, <1>4, <1>5, <1>6, <1>7, <1>8, <1>9
        DEF Next, Step

(* The client looks before it gives up.                                    *)
LEMMA LookInductive ==
    TypeOK /\ Clock /\ Look /\ GivesUpOnlyOnUnfinished /\ Checked /\ [Next]_vars
        => Look' /\ GivesUpOnlyOnUnfinished'
<1> SUFFICES ASSUME TypeOK, Clock, Look, GivesUpOnlyOnUnfinished, Checked,
                    [Next]_vars
             PROVE  Look' /\ GivesUpOnlyOnUnfinished'
    OBVIOUS
<1>n. /\ elapsed \in Nat /\ since \in Nat /\ finishedAt \in Nat \cup {None}
      /\ Timeout \in Nat /\ Interval \in Nat /\ RequestTime \in Nat
      /\ None \notin Nat
    BY TimeAssumption, NoneAssumption DEF TypeOK
<1> USE <1>n DEF Look, GivesUpOnlyOnUnfinished, Unfinished, Waiting,
            serverVars, timeVars, End
<1>0. outcome # "none" => pc = "over"
    BY DEF Checked
<1>1. ASSUME NEW c \in Calls, Infer(c) PROVE Look' /\ GivesUpOnlyOnUnfinished'
    BY <1>1 DEF Infer
<1>2. CASE Discover \/ Undiscovered \/ ListingRejected \/ Encrypt
           \/ ValuesRejected \/ CryptoFails \/ SubmissionRefused
    BY <1>2 DEF Discover, Undiscovered, ListingRejected, Encrypt,
                ValuesRejected, CryptoFails, SubmissionRefused
<1>3. CASE Submitted
    BY <1>3 DEF Submitted
<1>4. CASE RequestFails \/ JobLost
    BY <1>4 DEF RequestFails, JobLost
<1>5. CASE SendGet \/ Wake
    BY <1>5 DEF SendGet, Wake
<1>6. CASE AnswerGet
    <2>1. job \notin {"queued", "running"} => status' \notin Unfinished
        BY <1>6, TimeAssumption DEF AnswerGet, TypeOK
    <2>2. finishedAt' = finishedAt /\ job' = job /\ since' = since /\ outcome' = outcome
          /\ pc' = "answering" /\ elapsed' = elapsed /\ pc = "get"
        BY <1>6 DEF AnswerGet
    <2>3. status' \in Unfinished => finishedAt' = None
        BY <2>1, <2>2
    <2> QED BY <1>0, <2>2, <2>3
<1>7. CASE ReceiveGet
    BY <1>0, <1>7 DEF ReceiveGet
<1>8. CASE GiveUp
    BY <1>8 DEF GiveUp, TimedOut, Clock
<1>9. CASE Snooze
    BY <1>9 DEF Snooze
<1>10. CASE Conclude
    <2>1. outcome' # "timeout"
        BY <1>10 DEF Conclude, Outcomes
    <2> QED BY <1>10, <2>1 DEF Conclude
<1>11. CASE Tick
    BY <1>0, <1>11 DEF Tick
<1>12. CASE Work
    BY <1>12 DEF Work, Clock, TypeOK
<1>13. CASE Restart
    BY <1>13 DEF Restart, TypeOK
<1>14. CASE UNCHANGED vars
    BY <1>14 DEF vars
<1> QED BY <1>1, <1>2, <1>3, <1>4, <1>5, <1>6, <1>7, <1>8, <1>9, <1>10, <1>11,
           <1>12, <1>13, <1>14 DEF Next, Step

(* An entry that a checked call was made for admits its request, if the    *)
(* call is for the version of this entry.                                  *)
LEMMA CheckedIsAdmitted ==
    ASSUME TypeOK, Checked, pc = "submit", Version = model.version
    PROVE  Admits(model, sent) /\ model.params = sent.params
<1>1. /\ model.id = call.id
      /\ Normal /\ FitsModel /\ sent = Submission
    BY DEF Checked
<1>2. call \in Calls
    BY DEF TypeOK
<1>3. call.rows \in Seq(Nat)
    BY <1>2, CallAssumption
<1>4. 1 \in DOMAIN call.rows
    BY <1>1, <1>3 DEF Normal
<1>5. call.rows[1] = model.dimension /\ Len(call.rows) <= model.limit
    BY <1>1, <1>4 DEF FitsModel
<1> QED BY <1>1, <1>5 DEF Submission, Admits

LEMMA CheckedInductive == TypeOK /\ Checked /\ [Next]_vars => Checked'
<1> SUFFICES ASSUME TypeOK, Checked, [Next]_vars PROVE Checked'
    OBVIOUS
<1> USE DEF Waiting, serverVars, timeVars, End
<1>t. pc \in Pcs
    BY DEF TypeOK, Pcs
<1>1. ASSUME NEW c \in Calls, Infer(c) PROVE Checked'
    BY <1>1 DEF Infer, Checked
<1>2. CASE Discover
    <2>1. PICK m \in registry : FirstListed(m) /\ model' = m
        BY <1>2 DEF Discover
    <2>2. /\ call' = call /\ outcome' = outcome
          /\ pc = "discover" /\ pc' = "check"
          /\ Complete(m) /\ m.id = call.id
        BY <1>2, <2>1 DEF Discover, FirstListed
    <2>3. model'.id = call'.id /\ Complete(model)'
        BY <2>1, <2>2 DEF Complete
    <2> QED BY <2>2, <2>3 DEF Checked
<1>3. CASE Undiscovered \/ ListingRejected \/ ValuesRejected \/ CryptoFails
           \/ SubmissionRefused \/ RequestFails \/ JobLost \/ GiveUp \/ Conclude
    BY <1>3 DEF Undiscovered, ListingRejected, ValuesRejected, CryptoFails,
                SubmissionRefused, RequestFails, JobLost, GiveUp, Conclude, Checked
<1>4. CASE Encrypt
    BY <1>4 DEF Encrypt, Checked, Normal, FitsModel, Submission, Version, Complete
<1>5. CASE Submitted \/ SendGet \/ AnswerGet \/ ReceiveGet \/ Snooze \/ Wake \/ Tick
    BY <1>5 DEF Submitted, SendGet, AnswerGet, ReceiveGet, Snooze, Wake, Tick,
                Checked, Normal, FitsModel, Submission, Version, Complete
<1>6. CASE Work \/ Restart \/ UNCHANGED vars
    BY <1>6 DEF Work, Restart, vars, Checked, Normal, FitsModel, Submission,
                Version, Complete
<1> QED BY <1>1, <1>2, <1>3, <1>4, <1>5, <1>6 DEF Next, Step

(* The inductive invariant.                                                *)
LEMMA Inductive == Spec => []IInv
<1>1. IInv /\ [Next]_vars => IInv'
    BY TypeInductive, ClockInductive, LookInductive, CheckedInductive DEF IInv
<1> QED BY <1>1, Initial, PTL DEF Spec

(* Types of a call, for every server.                                      *)
THEOREM TypeCorrect == Spec => []TypeOK
BY Inductive, PTL DEF IInv

(* Jobs.wait ends within one interval and one request of its timeout.      *)
THEOREM WaitNeverOverlong == Spec => []WaitIsBounded
<1>1. TypeOK /\ Clock => WaitIsBounded
    BY TimeAssumption DEF TypeOK, Clock, WaitIsBounded, Waiting
<1> QED BY <1>1, Inductive, PTL DEF IInv

(* No job that was finished in time is given up.                           *)
THEOREM TimeoutDeserved == Spec => []GivesUpOnlyOnUnfinished
BY Inductive, PTL DEF IInv

(* A call of a default version is refused only by a server without the     *)
(* entry the call was made for or without its job, however often servers   *)
(* with other registries take over.                                        *)
THEOREM DefaultVersionAccepted == Spec => NoAvoidableRefusal
<1>1. ASSUME TypeOK, Checked, [Next]_vars,
             outcome # "refused", outcome' = "refused",
             call.version = Unspecified
      PROVE  \/ pc = "submit" /\ model \notin registry
             \/ job = "lost"
    <2>1. SubmissionRefused \/ JobLost
        <3>1. CASE Conclude
            BY <1>1, <3>1 DEF Conclude, Outcomes, End
        <3> QED BY <1>1, <3>1 DEF Next, Step, Infer, Discover, Undiscovered,
               ListingRejected, Encrypt, ValuesRejected, CryptoFails, Submitted,
               RequestFails, SendGet, AnswerGet, ReceiveGet, GiveUp, Snooze, Wake,
               Tick, Work, Restart, vars, serverVars, timeVars, End
    <2>2. CASE SubmissionRefused
        <3>1. pc = "submit" /\ Version = model.version
            BY <1>1, <2>2 DEF SubmissionRefused, Version
        <3>2. Admits(model, sent) /\ model.params = sent.params
            BY <1>1, <3>1, CheckedIsAdmitted
        <3> QED BY <2>2, <3>1, <3>2 DEF SubmissionRefused
    <2>3. CASE JobLost
        BY <2>3 DEF JobLost
    <2> QED BY <2>1, <2>2, <2>3
<1>2. TypeOK /\ Checked /\ [Next]_vars => [RefusedForCause]_vars
    BY <1>1 DEF RefusedForCause
<1> QED BY <1>2, Inductive, PTL DEF IInv, Spec, NoAvoidableRefusal
-----------------------------------------------------------------------------
(* What the session is made for.  SessionCompatible does not hold of every *)
(* call; it holds of those that ask for the version listed first, by name  *)
(* or by leaving it to the SDK.                                            *)

(* Without a restart, the entry is still the first listed of its model.    *)
Chosen == pc \in {"check", "submit"} /\ restarts = 0 => FirstListed(model)

LEMMA ChosenInductive == TypeOK /\ Chosen /\ [Next]_vars => Chosen'
<1> SUFFICES ASSUME TypeOK, Chosen, [Next]_vars PROVE Chosen'
    OBVIOUS
<1> USE DEF Waiting, serverVars, timeVars, End
<1>t. pc \in Pcs /\ restarts \in Nat
    BY DEF TypeOK, Pcs
<1>1. ASSUME NEW c \in Calls, Infer(c) PROVE Chosen'
    BY <1>1 DEF Infer, Chosen
<1>2. CASE Discover
    <2>1. PICK m \in registry : FirstListed(m) /\ model' = m
        BY <1>2 DEF Discover
    <2>2. UNCHANGED <<registry, call>> /\ pc' = "check"
        BY <1>2 DEF Discover
    <2>3. FirstListed(model)'
        BY <2>1, <2>2 DEF FirstListed
    <2> QED BY <2>2, <2>3 DEF Chosen
<1>3. CASE Undiscovered \/ ListingRejected \/ ValuesRejected \/ CryptoFails
           \/ SubmissionRefused \/ RequestFails \/ JobLost \/ GiveUp \/ Conclude
    BY <1>3 DEF Undiscovered, ListingRejected, ValuesRejected, CryptoFails,
                SubmissionRefused, RequestFails, JobLost, GiveUp, Conclude, Chosen
<1>4. CASE Encrypt
    BY <1>4 DEF Encrypt, Chosen, FirstListed
<1>5. CASE Submitted \/ SendGet \/ AnswerGet \/ ReceiveGet \/ Snooze \/ Wake \/ Tick
    BY <1>5 DEF Submitted, SendGet, AnswerGet, ReceiveGet, Snooze, Wake, Tick, Chosen
<1>6. CASE Work \/ UNCHANGED vars
    BY <1>6 DEF Work, vars, Chosen, FirstListed
<1>7. CASE Restart
    BY <1>7, <1>t DEF Restart, Chosen
<1> QED BY <1>1, <1>2, <1>3, <1>4, <1>5, <1>6, <1>7 DEF Next, Step

(* An identity names one entry, so the entry the server finds for the      *)
(* request is the one the session was made for.                            *)
LEMMA OneEntryForIt ==
    ASSUME TypeOK, Checked, Chosen, pc = "submit", restarts = 0,
           Version = model.version
    PROVE  /\ SessionCompatible
           /\ Admits(model, sent) /\ model \in registry
<1>1. model \in registry /\ Admits(model, sent) /\ model.params = sent.params
    BY CheckedIsAdmitted DEF Chosen, FirstListed
<1>2. registry \in Registries
    BY DEF TypeOK
<1>3. \A m \in registry :
          m.id = sent.id /\ m.version = sent.version => m = model
    BY <1>1, <1>2, RegistryAssumption DEF Admits
<1> QED BY <1>1, <1>3 DEF SessionCompatible

(* The session of Client.infer fits the model, and the server admits the   *)
(* request, whenever the version asked for is the one discovery returned   *)
(* and the server has not been restarted: the mismatch SessionCompatible   *)
(* is refuted by comes of naming another version, and of nothing else.     *)
THEOREM FirstVersionIsServed ==
    Spec => [](pc = "submit" /\ restarts = 0 /\ Version = model.version
                 => SessionCompatible /\ \E m \in registry : Admits(m, sent))
<1>1. Init => Chosen
    BY DEF Init, Chosen
<1>2. IInv /\ Chosen /\ pc = "submit" /\ restarts = 0 /\ Version = model.version
        => SessionCompatible /\ \E m \in registry : Admits(m, sent)
    BY OneEntryForIt DEF IInv
<1> QED BY <1>1, <1>2, ChosenInductive, Inductive, PTL DEF Spec, IInv

-----------------------------------------------------------------------------
(* The safety half of CallEnds: a call always has something to do next,    *)
(* and each step of it, and of the time it waits, leaves less to do.       *)

(* A set of numbers has a least one.                                       *)
LEMMA Least ==
    ASSUME NEW T \in SUBSET Nat, T # {}
    PROVE  \E x \in T : \A y \in T : x <= y
<1> DEFINE R == OpToRel(<, Nat)
<1>1. IsWellFoundedOn(R, Nat)
    BY NatLessThanWellFounded
<1> HIDE DEF R
<1>2. PICK x \in T : \A y \in T : ~(<<y, x>> \in R)
    BY <1>1, WFMin
<1>3. \A m, n \in Nat : m < n => <<m, n>> \in R
    BY DEF R, OpToRel
<1>4. ASSUME NEW y \in T PROVE x <= y
    <2>1. x \in Nat /\ y \in Nat
        OBVIOUS
    <2>2. ~(y < x)
        BY <2>1, <1>2, <1>3
    <2> QED BY <2>1, <2>2
<1> QED BY <1>4

(* Of the versions of a model one is listed first.                         *)
LEMMA SomeIsFirst ==
    ASSUME TypeOK, NEW m \in registry, m.id = call.id
    PROVE  \E n \in registry : FirstListed(n)
<1> DEFINE same == {n \in registry : n.id = call.id}
           versions == {n.version : n \in same}
<1>1. registry \subseteq Models
    BY RegistryAssumption DEF TypeOK
<1>2. versions \subseteq Nat
    BY <1>1, ModelAssumption
<1>3. m.version \in versions
    OBVIOUS
<1> HIDE DEF versions
<1>4. PICK v \in versions : \A w \in versions : v <= w
    BY <1>2, <1>3, Least
<1>5. PICK n \in same : n.version = v
    BY DEF versions
<1>6. ASSUME NEW o \in registry, ListedBefore(o, n) PROVE FALSE
    <2>1. o \in same /\ o.version < n.version
        BY <1>6 DEF ListedBefore
    <2>2. o.version \in versions
        BY <2>1 DEF versions
    <2>3. o.version \in Nat /\ n.version \in Nat
        BY <2>1, <1>1, ModelAssumption
    <2> QED BY <2>1, <2>2, <2>3, <1>4, <1>5
<1> QED BY <1>5, <1>6 DEF FirstListed

(* Something to do that is not a failure of the server: the conditions of  *)
(* the actions from Discover to Conclude, and of Tick.                     *)
Ready ==
    \/ pc = "discover" /\ \E m \in registry : ~Complete(m)
    \/ pc = "discover" /\ \E m \in registry : FirstListed(m)
    \/ pc = "discover" /\ \A m \in registry : m.id # call.id
    \/ pc \in {"check", "submit", "poll", "get", "answering"}
    \/ pc = "got" /\ status \in Unfinished /\ TimedOut
    \/ pc = "got" /\ status \in Unfinished /\ ~TimedOut
    \/ pc = "got" /\ status \notin Unfinished /\ Outcomes(status) # {}
    \/ pc = "sleep" /\ elapsed < since + Interval
    \/ pc = "sleep" /\ elapsed = since + Interval

(* How far a call is from the end of its turn.  A sleep that has begun to  *)
(* pass is before the next poll, one that has not is after the last.       *)
Place ==
    CASE pc = "idle"      -> 8
      [] pc = "discover"  -> 7
      [] pc = "check"     -> 6
      [] pc = "submit"    -> 5
      [] pc = "poll"      -> 4
      [] pc = "get"       -> 3
      [] pc = "answering" -> 2
      [] pc = "got"       -> 1
      [] pc = "sleep"     -> IF elapsed = since THEN 0 ELSE 5
      [] OTHER            -> 0

(* The time that is left counts for more than a turn.                      *)
Remaining == 6 * (Timeout + Interval + RequestTime - elapsed) + Place

(* A call that has begun and is not over is never stuck, and it has a      *)
(* bounded number of steps to go.                                          *)
THEOREM CallNeverStuck ==
    Spec => []( /\ pc \notin {"idle", "over"} => Ready
                /\ Remaining \in 0 .. 6 * (Timeout + Interval + RequestTime) + 8 )
<1>1. ASSUME IInv, pc \notin {"idle", "over"} PROVE Ready
    <2>i. Clock /\ TypeOK
        BY <1>1 DEF IInv
    <2>t. pc \in Pcs /\ elapsed \in Nat /\ since \in Nat /\ Interval \in Nat
        BY <2>i, TimeAssumption DEF TypeOK, Pcs
    <2>1. CASE pc = "discover"
        BY <2>1, <2>i, SomeIsFirst DEF Ready
    <2>2. CASE pc = "got"
        BY <2>2 DEF Ready, Outcomes
    <2>3. CASE pc = "sleep"
        BY <2>3, <2>i, <2>t DEF Ready, Clock
    <2> QED BY <1>1, <2>1, <2>2, <2>3, <2>t DEF Ready, Pcs, Waiting
<1>2. ASSUME IInv
      PROVE  Remaining \in 0 .. 6 * (Timeout + Interval + RequestTime) + 8
    <2>1. WaitIsBounded /\ elapsed \in Nat
        BY <1>2, TimeAssumption DEF IInv, TypeOK, Clock, WaitIsBounded, Waiting
    <2>2. Place \in 0 .. 8
        BY DEF Place
    <2> HIDE DEF Place
    <2> QED BY <2>1, <2>2, TimeAssumption DEF WaitIsBounded, Remaining
<1> QED BY <1>1, <1>2, Inductive, PTL

(* Each step of the call, and each tick, brings its end nearer, whatever   *)
(* the answers are; the server's own steps and its restarts do not move    *)
(* it.  What CallEnds owes to fairness is only that those steps are taken. *)
THEOREM CallMovesOn ==
    Spec => [][/\ Step \/ Tick => Remaining' < Remaining
               /\ Work \/ Restart => Remaining' = Remaining]_vars
<1>n. TypeOK /\ Clock =>
          /\ elapsed \in Nat /\ since \in Nat /\ pc \in Pcs
          /\ Timeout \in Nat /\ Interval \in Nat \ {0} /\ RequestTime \in Nat
    BY TimeAssumption DEF TypeOK, Pcs
<1>1. ASSUME TypeOK, Clock, Step PROVE Remaining' < Remaining
    <2>1. Place \in 0 .. 8 /\ Place' \in 0 .. 8
        BY DEF Place
    <2>2. elapsed' = elapsed
        BY <1>1 DEF Step, Discover, Undiscovered, ListingRejected, Encrypt,
               ValuesRejected, CryptoFails, Submitted, SubmissionRefused,
               RequestFails, SendGet, AnswerGet, JobLost, ReceiveGet, GiveUp,
               Snooze, Wake, Conclude, timeVars
    <2>3. \/ pc = "discover" /\ pc' \in {"check", "over"}
          \/ pc = "check" /\ pc' \in {"submit", "over"}
          \/ pc = "submit" /\ pc' \in {"poll", "over"}
          \/ pc = "poll" /\ pc' = "get"
          \/ pc = "get" /\ pc' \in {"answering", "over"}
          \/ pc = "answering" /\ pc' \in {"got", "over"}
          \/ pc = "got" /\ pc' = "over"
          \/ pc = "got" /\ pc' = "sleep" /\ since' = elapsed
          \/ pc = "sleep" /\ pc' = "poll" /\ elapsed = since + Interval
        BY <1>1 DEF Step, Discover, Undiscovered, ListingRejected, Encrypt,
               ValuesRejected, CryptoFails, Submitted, SubmissionRefused,
               RequestFails, SendGet, AnswerGet, JobLost, ReceiveGet, GiveUp,
               Snooze, Wake, Conclude, End
    <2>4. pc = "sleep" /\ elapsed = since + Interval => elapsed # since
        BY <1>1, <1>n
    <2>5. Place' < Place
        BY <2>2, <2>3, <2>4 DEF Place
    <2> HIDE DEF Place
    <2> QED BY <2>1, <2>2, <2>5, <1>n, <1>1 DEF Remaining
<1>2. ASSUME TypeOK, Clock, Tick PROVE Remaining' < Remaining
    <2>1. elapsed' = elapsed + 1 /\ pc' = pc /\ since' = since
        BY <1>2 DEF Tick, serverVars
    <2>2. Place \in 0 .. 8 /\ Place' \in 0 .. 8 /\ Place' <= Place + 5
        BY <2>1, <1>n, <1>2 DEF Place
    <2> HIDE DEF Place
    <2> QED BY <2>1, <2>2, <1>n, <1>2 DEF Remaining
<1>3. ASSUME Work \/ Restart PROVE Remaining' = Remaining
    <2>1. UNCHANGED <<pc, elapsed, since>>
        BY <1>3 DEF Work, Restart, timeVars
    <2> QED BY <2>1 DEF Remaining, Place
<1>4. IInv /\ [Next]_vars =>
          [/\ Step \/ Tick => Remaining' < Remaining
           /\ Work \/ Restart => Remaining' = Remaining]_vars
    BY <1>1, <1>2, <1>3 DEF IInv
<1> QED BY <1>4, Inductive, PTL DEF Spec
=============================================================================
