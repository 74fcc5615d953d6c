------------------------------ MODULE Evaluation ------------------------------
(***************************************************************************)
(* What one encrypted inference computes, from the values the caller has   *)
(* to the numbers it gets back: CKKS_Session packs and encrypts them       *)
(* (client/src/heapi_client/ckks/session.py, wire.py), the server          *)
(* validates the ciphertexts one by one (crypto/ciphertxt_validation.py,   *)
(* crypto_backends/ckks_pyfhel/backend.py), evaluates the model on them    *)
(* (he_execution/logistic.py), and the session decrypts the result.  The   *)
(* reference is the plain evaluator (plain_execution/logistic.py).         *)
(*                                                                         *)
(* A ciphertext is the vector of the values in its slots and the number of *)
(* multiplications it has been through; the library's arithmetic is taken  *)
(* to be exact, and numbers to be integers.  Who may ask what is Gateway's *)
(* and Client's concern, what models there are is ModelRegistry's.         *)
(***************************************************************************)
EXTENDS Integers, Sequences

CONSTANTS
    Models,     \* what the registry serves, see ModelAssumption
    Requests,   \* [model, batch, scale], see RequestAssumption
    Slots,      \* values a ciphertext packs, half the ring degree
    NoBlock,    \* an optional part a model does not have
    None        \* Python's None; no request

Numbers == Seq(Int) \ {<<>>}

(* Mutant: abs is forgotten.                                               *)
RequiredDepthSigned(coefficients) == IF coefficients[3] > 0 THEN 2 ELSE 1

(* The depth the registry wants of a model with this polynomial.           *)
RequiredDepth(coefficients) == IF coefficients[3] # 0 THEN 2 ELSE 1

(* What semantic_model_registry_validation has seen to.  Whether the       *)
(* constant coefficient is written as an integer (literal) is nothing to   *)
(* it.                                                                     *)
Registered(m) ==
    /\ m.weights # NoBlock => Len(m.weights) = m.dimension
    /\ m.coefficients # NoBlock =>
          /\ Len(m.coefficients) = 3
          /\ m.depth >= RequiredDepth(m.coefficients)

ASSUME ModelAssumption ==
    \A m \in Models :
        /\ m.dimension \in Nat \ {0} /\ m.scale \in Nat \ {0} /\ m.depth \in Nat
        /\ m.weights \in Numbers \cup {NoBlock} /\ m.bias \in Int
        /\ m.coefficients \in Numbers \cup {NoBlock}
        /\ m.literal \in BOOLEAN
        /\ Registered(m)

(* One row of features for each sample: as many as the model has, or one   *)
(* that stands for all of them ("pre-aggregated").  The scale is that of   *)
(* the caller's session.                                                   *)
ASSUME RequestAssumption ==
    \A r \in Requests :
        /\ r.model \in Models
        /\ r.batch \in Seq(Numbers) /\ r.batch # <<>>
        /\ Len(r.batch[1]) \in {1, r.model.dimension}
        /\ \A s \in DOMAIN r.batch : Len(r.batch[s]) = Len(r.batch[1])
        /\ r.scale \in Int

ASSUME SlotAssumption == Slots \in Nat \ {0}

Vectors == [1 .. Slots -> Int]

(* What the evaluator's variables hold: a ciphertext, or a plain number    *)
(* that is as good as one with the number in every slot until somebody     *)
(* wants its bytes.                                                        *)
Values == [cipher : BOOLEAN, depth : Nat, slots : Vectors]

Payloads == [slots : Vectors, scale : Int, intact : BOOLEAN]

ASSUME MarkerAssumption ==
    None \notin Values /\ None \notin Requests /\ NoBlock \notin Numbers

VARIABLES
    pc,        \* where the inference is
    request,   \* what the caller asked
    inputs,    \* the ciphertexts it sends, one per feature
    features,  \* feature_ciphertexts: those validated so far
    linear,    \* linear_ct
    result,    \* result of the polynomial
    turn,      \* turns the loop under way has made
    outputs,   \* what the caller gets
    outcome    \* returned, or what went wrong

vars == <<pc, request, inputs, features, linear, result, turn, outputs, outcome>>

model == request.model
batch == request.batch
Width == Len(batch[1])

----------------------------------------------------------------------------
(* The plain evaluator: partial sums from zero, a turn for each term.      *)
Sums(terms) ==
    LET sum[k \in 0 .. Len(terms)] ==
            IF k = 0 THEN 0 ELSE sum[k - 1] + terms[k]
    IN  sum

(* x ** degree, for the degrees of three coefficients.                     *)
Pow(x, degree) == IF degree = 0 THEN 1 ELSE IF degree = 1 THEN x ELSE x * x

Weighted(m, row) == [k \in 1 .. Len(m.weights) |-> row[k] * m.weights[k]]

PlainLinear(m, row) == Sums(Weighted(m, row))[Len(m.weights)] + m.bias

PlainTerms(m, row) ==
    [k \in 1 .. Len(m.coefficients) |->
        IF m.coefficients[k] = 0 THEN 0
        ELSE m.coefficients[k] * Pow(PlainLinear(m, row), k - 1)]

PlainOutput(m, row) == Sums(PlainTerms(m, row))[Len(m.coefficients)]

----------------------------------------------------------------------------
(* Operations on ciphertexts, slot by slot.                                *)
Number(c) == [cipher |-> FALSE, depth |-> 0, slots |-> [s \in 1 .. Slots |-> c]]

Deeper(a, b) == IF a.depth > b.depth THEN a.depth ELSE b.depth

Plus(a, b) ==
    [cipher |-> a.cipher \/ b.cipher, depth |-> Deeper(a, b),
     slots  |-> [s \in 1 .. Slots |-> a.slots[s] + b.slots[s]]]

Times(a, c) ==
    [cipher |-> a.cipher, depth |-> a.depth + 1,
     slots  |-> [s \in 1 .. Slots |-> a.slots[s] * c]]

Power(a, degree) ==
    [cipher |-> a.cipher, depth |-> a.depth + degree - 1,
     slots  |-> [s \in 1 .. Slots |-> Pow(a.slots[s], degree)]]

(* x if nothing has been added up yet, the sum otherwise.                  *)
Join(acc, x) == IF acc = None THEN x ELSE Plus(acc, x)

(* Feature i of every sample, in the order of the samples.                 *)
Column(i) == [s \in DOMAIN batch |-> batch[s][i]]

(* encryptFrac and to_bytes: the slots that are left over are zero.        *)
Encrypted(column) ==
    [slots  |-> [s \in 1 .. Slots |-> IF s <= Len(column) THEN column[s] ELSE 0],
     scale  |-> request.scale,
     intact |-> TRUE]

Loaded(payload) == [cipher |-> TRUE, depth |-> 0, slots |-> payload.slots]

(* It can be read, and its scale is not out of all proportion.             *)
Compatible(payload) ==
    payload.intact /\ payload.scale > 0 /\ payload.scale <= 4 * model.scale

(* The term of a degree whose coefficient is not zero.                     *)
Term(degree, c) ==
    IF degree = 0 THEN Number(c)
    ELSE IF degree = 1 THEN Times(linear, c)
    ELSE IF c = 1 THEN Power(linear, degree)
    ELSE Times(Power(linear, degree), c)

(* One ciphertext for each weight.                                         *)
OnePerWeight == model.weights # NoBlock /\ Len(features) = Len(model.weights)

(* to_bytes of a ciphertext.                                               *)
HasBytes == result # None /\ result.cipher

(* A plain number has none, but for an integer that fits into one byte.    *)
OneByte ==
    /\ result # None /\ ~result.cipher
    /\ model.literal /\ result.slots[1] \in 0 .. 255

End(what) == pc' = "over" /\ outcome' = what

----------------------------------------------------------------------------
(* Mutants of the actions below: the errors the properties are there for.  *)

(* The newest ciphertext comes first.                                      *)
ValidateBackwards ==
    /\ pc = "validate"
    /\ Len(features) < Len(inputs)
    /\ Compatible(inputs[Len(features) + 1])
    /\ features' = <<Loaded(inputs[Len(features) + 1])>> \o features
    /\ UNCHANGED <<pc, request, inputs, linear, result, turn, outputs, outcome>>

(* The first ciphertext speaks for all of them.                            *)
ValidateFirstOnly ==
    /\ pc = "validate"
    /\ Len(features) < Len(inputs)
    /\ Compatible(inputs[1])
    /\ features' = Append(features, Loaded(inputs[Len(features) + 1]))
    /\ UNCHANGED <<pc, request, inputs, linear, result, turn, outputs, outcome>>

(* A plain number is sent as it is.                                        *)
RespondAnything ==
    /\ pc = "activate"
    /\ turn = Len(model.coefficients)
    /\ result # None
    /\ pc' = "decrypt"
    /\ UNCHANGED <<request, inputs, features, linear, result, turn, outputs, outcome>>

----------------------------------------------------------------------------
Init ==
    /\ pc = "idle"
    /\ request = None
    /\ inputs = <<>> /\ features = <<>>
    /\ linear = None /\ result = None
    /\ turn = 0
    /\ outputs = <<>>
    /\ outcome = "none"

Ask(r) ==
    /\ pc = "idle"
    /\ request' = r
    /\ pc' = "encrypt"
    /\ UNCHANGED <<inputs, features, linear, result, turn, outputs, outcome>>

EncryptColumn ==
    /\ pc = "encrypt"
    /\ Len(batch) <= Slots
    /\ inputs' = Append(inputs, Encrypted(Column(Len(inputs) + 1)))
    /\ pc' = IF Len(inputs') = Width THEN "validate" ELSE "encrypt"
    /\ UNCHANGED <<request, features, linear, result, turn, outputs, outcome>>

(* The library packs half the ring degree, the registry allows a batch of  *)
(* the whole of it.                                                        *)
EncryptionFails ==
    /\ pc = "encrypt"
    /\ Len(batch) > Slots
    /\ End("notEncrypted")
    /\ UNCHANGED <<request, inputs, features, linear, result, turn, outputs>>

(* A payload need not arrive as the session has made it.                   *)
Damage(k) ==
    /\ pc = "validate"
    /\ features = <<>>
    /\ inputs[k].intact
    /\ inputs' = [inputs EXCEPT ![k].intact = FALSE]
    /\ UNCHANGED <<pc, request, features, linear, result, turn, outputs, outcome>>

(* validate_ciphertext_structure returns, for one input.                   *)
Validate ==
    /\ pc = "validate"
    /\ Len(features) < Len(inputs)
    /\ Compatible(inputs[Len(features) + 1])
    /\ features' = Append(features, Loaded(inputs[Len(features) + 1]))
    /\ UNCHANGED <<pc, request, inputs, linear, result, turn, outputs, outcome>>

(* It raises: 400.                                                         *)
Invalid ==
    /\ pc = "validate"
    /\ Len(features) < Len(inputs)
    /\ ~Compatible(inputs[Len(features) + 1])
    /\ End("invalid")
    /\ UNCHANGED <<request, inputs, features, linear, result, turn, outputs>>

(* All are valid, and evaluate_encrypted_logistic is called.               *)
Begin ==
    /\ pc = "validate"
    /\ Len(features) = Len(inputs)
    /\ OnePerWeight
    /\ pc' = "weigh"
    /\ UNCHANGED <<request, inputs, features, linear, result, turn, outputs, outcome>>

(* It raises KeyError, or ValueError for their number: 500.                *)
BeginFails ==
    /\ pc = "validate"
    /\ Len(features) = Len(inputs)
    /\ ~OnePerWeight
    /\ End("failed")
    /\ UNCHANGED <<request, inputs, features, linear, result, turn, outputs>>

Weigh ==
    /\ pc = "weigh"
    /\ turn < Len(model.weights)
    /\ linear' = Join(linear, Times(features[turn + 1], model.weights[turn + 1]))
    /\ turn' = turn + 1
    /\ UNCHANGED <<pc, request, inputs, features, result, outputs, outcome>>

AddBias ==
    /\ pc = "weigh"
    /\ turn = Len(model.weights)
    /\ model.coefficients # NoBlock
    /\ linear' = Plus(linear, Number(model.bias))
    /\ turn' = 0
    /\ pc' = "activate"
    /\ UNCHANGED <<request, inputs, features, result, outputs, outcome>>

(* KeyError: activation_parameters.                                        *)
NoActivation ==
    /\ pc = "weigh"
    /\ turn = Len(model.weights)
    /\ model.coefficients = NoBlock
    /\ End("failed")
    /\ UNCHANGED <<request, inputs, features, linear, result, turn, outputs>>

(* One turn of _apply_polynomial_sigmoid: zero coefficients are skipped.   *)
Activate ==
    /\ pc = "activate"
    /\ turn < Len(model.coefficients)
    /\ LET c == model.coefficients[turn + 1] IN
       result' = IF c = 0 THEN result ELSE Join(result, Term(turn, c))
    /\ turn' = turn + 1
    /\ UNCHANGED <<pc, request, inputs, features, linear, outputs, outcome>>

(* There is a ciphertext to take the bytes of.                             *)
Respond ==
    /\ pc = "activate"
    /\ turn = Len(model.coefficients)
    /\ HasBytes
    /\ pc' = "decrypt"
    /\ UNCHANGED <<request, inputs, features, linear, result, turn, outputs, outcome>>

(* The polynomial is a constant and its one byte is the payload: 200, and  *)
(* a completed job, with a result that decrypt_slots cannot read.          *)
RespondByte ==
    /\ pc = "activate"
    /\ turn = Len(model.coefficients)
    /\ OneByte
    /\ End("unreadable")
    /\ UNCHANGED <<request, inputs, features, linear, result, turn, outputs>>

(* ValueError for a polynomial that is zero, AttributeError for a constant *)
(* that is no integer, OverflowError for one that is no byte: 500.         *)
NothingToRespond ==
    /\ pc = "activate"
    /\ turn = Len(model.coefficients)
    /\ ~HasBytes /\ ~OneByte
    /\ End("failed")
    /\ UNCHANGED <<request, inputs, features, linear, result, turn, outputs>>

(* decrypt_slots: as many values as there were samples.                    *)
Decrypt ==
    /\ pc = "decrypt"
    /\ outputs' = [s \in 1 .. Len(batch) |-> result.slots[s]]
    /\ End("returned")
    /\ UNCHANGED <<request, inputs, features, linear, result, turn>>

----------------------------------------------------------------------------
Step ==
    \/ EncryptColumn \/ EncryptionFails
    \/ Validate \/ Invalid \/ Begin \/ BeginFails
    \/ Weigh \/ AddBias \/ NoActivation
    \/ Activate \/ Respond \/ RespondByte \/ NothingToRespond
    \/ Decrypt

Next ==
    \/ \E r \in Requests : Ask(r)
    \/ Step
    \/ \E k \in DOMAIN inputs : Damage(k)

Spec == Init /\ [][Next]_vars
----------------------------------------------------------------------------
Asked == pc # "idle"

(* Every variable has its type, and what is answered has bytes.            *)
TypeOK ==
    /\ pc \in {"idle", "encrypt", "validate", "weigh", "activate", "decrypt", "over"}
    /\ request \in Requests \cup {None}
    /\ Asked => request \in Requests
    /\ inputs \in Seq(Payloads)
    /\ features \in Seq(Values)
    /\ linear \in Values \cup {None}
    /\ result \in Values \cup {None}
    /\ pc = "decrypt" => result \in Values /\ result.cipher
    /\ turn \in Nat
    /\ outputs \in Seq(Int)
    /\ outcome \in {"none", "notEncrypted", "invalid", "failed",
                   "unreadable", "returned"}

(* The caller gets for every sample, in the order of the samples, what the *)
(* plain evaluator computes for it: packing by features, padding, products *)
(* by weight and by slot, the terms that are skipped and the slots that    *)
(* are cut off come to the same as a loop over each sample.                *)
AgreesWithPlain ==
    outcome = "returned" =>
        outputs = [s \in 1 .. Len(batch) |-> PlainOutput(model, batch[s])]

Varies(coefficients) == coefficients[2] # 0 \/ coefficients[3] # 0

Incomplete(m) == m.weights = NoBlock \/ m.coefficients = NoBlock

(* What has to come of an inference: the first of these that applies.      *)
Verdict ==
    IF Len(batch) > Slots THEN "notEncrypted"
    ELSE IF \E k \in DOMAIN inputs : ~Compatible(inputs[k]) THEN "invalid"
    ELSE IF Incomplete(model) \/ Width # model.dimension THEN "failed"
    ELSE IF Varies(model.coefficients) THEN "returned"
    ELSE IF model.literal /\ model.coefficients[1] \in 1 .. 255 THEN "unreadable"
    ELSE "failed"

(* Each outcome has its cause, and no cause is missed or hidden by a later *)
(* one: a request is invalid for one of its ciphertexts, wherever it is,   *)
(* and whatever the model; an evaluation fails for a model without         *)
(* parameters, for one ciphertext in the place of several, or for a        *)
(* constant polynomial, which the plain evaluator has no trouble with --   *)
(* unless that is an integer from 1 to 255: then it succeeds, and what the *)
(* caller gets is no ciphertext.                                           *)
OutcomeHasCause == outcome # "none" => outcome = Verdict

(* An evaluation multiplies once more than the model declares, at most:    *)
(* the weights are one level and the polynomial has RequiredDepth.         *)
DepthBounded == result # None => result.depth <= model.depth + 1
=============================================================================
