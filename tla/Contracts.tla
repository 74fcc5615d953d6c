------------------------------- MODULE Contracts -------------------------------
(***************************************************************************)
(* What the client checks before it submits, against what the gateway      *)
(* checks when it is asked: Client has its own words for the server's test *)
(* (Admits), and this module shows that they are Gateway's (Verdict), for  *)
(* the registry both speak of and for every request.  It follows what a    *)
(* call of Client.infer can count on once it has been accepted.  Of the    *)
(* three ways in which an accepted request can fail in the evaluation      *)
(* (GatewayProofs!ThreeKindsFail), two are not open to it: it sends one    *)
(* ciphertext per feature, and discovery refuses a listing with incomplete *)
(* entries.  The third is: nobody looks at the polynomial's coefficients.  *)
(***************************************************************************)
EXTENDS ClientProofs

CONSTANTS
    Requests,      \* of the gateway, all the clients'
    Deployment     \* the rest of its constants, which the checks do not read

VARIABLE server    \* the gateway's variables, which they do not read either

Name(m) == <<m.id, m.version>>

Names(R) == {Name(m) : m \in R}

Named(R, name) == CHOOSE m \in R : Name(m) = name

(* The gateway that has loaded registry R.                                 *)
Gate(R) == INSTANCE Gateway WITH
    Threads <- Deployment.threads, Clients <- Deployment.clients,
    JobIds <- Deployment.ids, BackendRaises <- Deployment.raises,
    Models <- Names(R),
    Entry <- [name \in Names(R) |-> Named(R, name)],
    NoJob <- None, NoRequest <- None, NoResult <- None, NoReply <- None,
    NoPayload <- None, Absent <- None, Gone <- None,
    jobs <- server.jobs, origin <- server.origin, pc <- server.pc,
    req <- server.req, own <- server.own, serves <- server.serves,
    draft <- server.draft, cpc <- server.cpc, asked <- server.asked,
    receipt <- server.receipt, told <- server.told,
    restarts <- server.restarts

(* r is submission s of the SDK as the gateway sees it, its ciphertexts    *)
(* compatible with the model's parameters.                                 *)
Carries(r, s) ==
    /\ r.route = "infer" /\ r.wellFormed /\ r.sound
    /\ r.model = <<s.id, s.version>>
    /\ r.batch = s.batch /\ r.arity = s.arity

(* An entry is the one its name stands for.                                *)
LEMMA NamedItself ==
    ASSUME NEW R \in Registries, NEW m \in R
    PROVE  Named(R, Name(m)) = m
<1>1. \A n \in R : Name(n) = Name(m) => n = m
    BY RegistryAssumption DEF Name
<1> QED BY <1>1 DEF Named

(* What Gateway's tests come to for a request that names entry m.          *)
LEMMA VerdictOfEntry ==
    ASSUME NEW R \in Registries, NEW m \in R, NEW r,
           r.route = "infer", r.wellFormed, r.model = Name(m),
           r.batch \in Nat
    PROVE  /\ Gate(R)!Verdict(r) =
                 IF /\ "batch" \in m.floats \/ r.batch <= m.limit
                    /\ r.arity \in {1, m.dimension}
                    /\ r.sound
                 THEN 200 ELSE 400
           /\ Gate(R)!Evaluable(r) <=>
                 /\ m.parameters
                 /\ r.arity = m.dimension
                 /\ m.activation \in {"byte", "ciphertext"}
<1> DEFINE entries == [name \in Names(R) |-> Named(R, name)]
<1>1. Name(m) \in Names(R)
    BY DEF Names
<1>2. entries[r.model] = m
    BY <1>1, NamedItself
<1>3. m.limit \in Nat
    BY RegistryAssumption, ModelAssumption
<1>4. Gate(R)!Verdict(r) = Gate(R)!InferVerdict(r)
    BY <1>1 DEF Gate!Verdict
<1>5. Gate(R)!InferVerdict(r) =
          IF \/ "batch" \notin entries[r.model].floats
                /\ r.batch > entries[r.model].limit
             \/ r.arity \notin {1, entries[r.model].dimension}
             \/ ~r.sound
          THEN 400 ELSE 200
    BY DEF Gate!InferVerdict
<1>6. Gate(R)!Evaluable(r) <=>
          /\ entries[r.model].parameters
          /\ r.arity = entries[r.model].dimension
          /\ entries[r.model].activation # "absent"
          /\ r.route = "infer" => entries[r.model].activation \in {"byte", "ciphertext"}
    BY DEF Gate!Evaluable
<1> HIDE DEF entries
<1>7. r.batch > m.limit <=> ~(r.batch <= m.limit)
    BY <1>3
<1>8. Gate(R)!Evaluable(r) <=>
          /\ m.parameters
          /\ r.arity = m.dimension
          /\ m.activation \in {"byte", "ciphertext"}
    BY <1>2, <1>6
<1>9. Gate(R)!InferVerdict(r) =
          IF \/ "batch" \notin m.floats /\ r.batch > m.limit
             \/ r.arity \notin {1, m.dimension}
             \/ ~r.sound
          THEN 400 ELSE 200
    BY <1>2, <1>5
<1> QED BY <1>4, <1>7, <1>8, <1>9

(* The gateway answers a request that carries a submission with 200 just   *)
(* when the registry has an entry that admits it, with 404 just when it    *)
(* has none of that name, and with 400 otherwise: Client's server is       *)
(* Gateway, as far as a refusal goes.                                      *)
THEOREM SameVerdict ==
    ASSUME NEW R \in Registries, NEW s, NEW r, Carries(r, s),
           r.batch \in Nat
    PROVE  Gate(R)!Verdict(r) =
              IF \E m \in R : Admits(m, s) THEN 200
              ELSE IF <<s.id, s.version>> \notin Names(R) THEN 404 ELSE 400
<1>1. CASE <<s.id, s.version>> \notin Names(R)
    <2>1. ~\E m \in R : Admits(m, s)
        BY <1>1 DEF Names, Name, Admits
    <2>2. Gate(R)!Verdict(r) = 404
        BY <1>1 DEF Gate!Verdict, Carries
    <2> QED BY <1>1, <2>1, <2>2
<1>2. CASE <<s.id, s.version>> \in Names(R)
    <2>1. PICK m \in R : r.model = Name(m)
        BY <1>2 DEF Names, Carries
    <2>2. m.id = s.id /\ m.version = s.version
        BY <2>1 DEF Name, Carries
    <2>3. \A n \in R : Admits(n, s) => n = m
        BY <2>2, RegistryAssumption DEF Admits
    <2>4. Admits(m, s) <=> /\ "batch" \in m.floats \/ r.batch <= m.limit
                           /\ r.arity \in {1, m.dimension}
        BY <2>2 DEF Admits, Carries
    <2>5. Gate(R)!Verdict(r) =
              IF /\ "batch" \in m.floats \/ r.batch <= m.limit
                 /\ r.arity \in {1, m.dimension}
                 /\ r.sound
              THEN 200 ELSE 400
        BY <2>1, VerdictOfEntry DEF Carries
    <2>6. (\E n \in R : Admits(n, s)) <=> Admits(m, s)
        BY <2>3
    <2>7. r.sound
        BY DEF Carries
    <2> QED BY <1>2, <2>4, <2>5, <2>6, <2>7
<1> QED BY <1>1, <1>2

(* A call that gets as far as a request, for the version discovery         *)
(* returned and with no restart in between, is accepted by the gateway,    *)
(* and its evaluation has weights, one input for each, and a polynomial:   *)
(* it can still be refused, with a job left behind, for a polynomial that  *)
(* leaves nothing with a to_bytes(), and for no other reason.              *)
THEOREM CallIsServed ==
    Spec => [](pc = "submit" /\ restarts = 0 /\ Version = model.version =>
                 \A R, r : R = registry /\ Carries(r, sent) =>
                    /\ Gate(R)!Verdict(r) = 200
                    /\ Gate(R)!Evaluable(r) <=>
                          model.activation \in {"byte", "ciphertext"})
<1>1. ASSUME TypeOK, Checked, Chosen, pc = "submit", restarts = 0,
             Version = model.version,
             NEW R, NEW r, R = registry, Carries(r, sent)
      PROVE  /\ Gate(R)!Verdict(r) = 200
             /\ Gate(R)!Evaluable(r) <=> model.activation \in {"byte", "ciphertext"}
    <2>1. model \in R /\ Admits(model, sent)
        BY <1>1, OneEntryForIt
    <2>2. R \in Registries
        BY <1>1 DEF TypeOK
    <2>3. /\ Normal /\ FitsModel /\ sent = Submission
          /\ call.rows \in Seq(Nat)
        BY <1>1, CallAssumption DEF Checked, TypeOK
    <2>4. 1 \in DOMAIN call.rows
        BY <2>3 DEF Normal
    <2>5. /\ sent.batch = Len(call.rows) /\ sent.arity = model.dimension
          /\ sent.batch <= model.limit
        BY <2>3, <2>4 DEF Submission, FitsModel
    <2>6. r.batch \in Nat /\ r.batch <= model.limit
        BY <1>1, <2>3, <2>5 DEF Carries
    <2>7. r.arity = model.dimension /\ r.model = Name(model)
        BY <1>1, <2>1, <2>5 DEF Carries, Name, Admits
    <2>8. r.route = "infer" /\ r.wellFormed /\ r.sound
        BY <1>1 DEF Carries
    <2>9. model.parameters
        BY <1>1 DEF Checked, Complete
    <2> QED BY <2>1, <2>2, <2>6, <2>7, <2>8, <2>9, VerdictOfEntry
<1>2. IInv /\ Chosen =>
          (pc = "submit" /\ restarts = 0 /\ Version = model.version =>
             \A R, r : R = registry /\ Carries(r, sent) =>
                /\ Gate(R)!Verdict(r) = 200
                /\ Gate(R)!Evaluable(r) <=>
                      model.activation \in {"byte", "ciphertext"})
    BY <1>1 DEF IInv
<1>3. Init => Chosen
    BY DEF Init, Chosen
<1>4. TypeOK /\ Chosen /\ [Next]_vars => Chosen'
    BY ChosenInductive
<1> QED BY <1>2, <1>3, <1>4, Inductive, PTL DEF Spec, IInv
================================================================================
