--------------------------- MODULE EvaluationProofs ---------------------------
(***************************************************************************)
(* Proofs about Evaluation.                                                *)
(***************************************************************************)
EXTENDS Evaluation, WellFoundedInduction, TLAPS

----------------------------------------------------------------------------
(* Induction as a statement about sets, which is first-order.              *)
LEMMA SetInduction ==
    ASSUME NEW S, 0 \in S, \A n \in Nat : n \in S => n + 1 \in S
    PROVE  Nat \subseteq S
<1> DEFINE T == {n \in Nat : n \notin S}
           R == OpToRel(<, Nat)
<1>1. SUFFICES ASSUME T # {} PROVE FALSE
  OBVIOUS
<1>2. T \subseteq Nat
  OBVIOUS
<1>3. IsWellFoundedOn(R, Nat)
  BY NatLessThanWellFounded, Zenon
<1>4. PICK x \in T : \A y \in T : <<y, x>> \notin R
  <2> HIDE DEF T, R
  <2> QED BY <1>1, <1>2, <1>3, WFMin, Zenon
<1>5. \A y \in T : ~(y < x)
  BY <1>4, Zenon DEF OpToRel
<1>6. x \in Nat /\ x # 0
  OBVIOUS
<1>7. x - 1 \in Nat
  BY <1>6
<1>8. x - 1 \in S
  BY <1>5, <1>6, <1>7
<1> QED BY <1>6, <1>7, <1>8

IsSum(t, f) ==
    f = [k \in 0 .. Len(t) |-> IF k = 0 THEN 0 ELSE f[k - 1] + t[k]]

(* The recursion in Sums has a solution.                                   *)
LEMMA SumsExist ==
    ASSUME NEW t \in Seq(Int)
    PROVE  \E f : IsSum(t, f)
<1> DEFINE P(m, f) == /\ f \in [0 .. m -> Int]
                      /\ f[0] = 0
                      /\ \A k \in 1 .. m : f[k] = f[k - 1] + t[k]
           Reached(m) == m <= Len(t) => \E f \in [0 .. m -> Int] : P(m, f)
           S == {m \in Nat : Reached(m)}
<1>1. 0 \in S
  <2>1. P(0, [k \in 0 .. 0 |-> 0])
    OBVIOUS
  <2> QED BY <2>1
<1>2. ASSUME NEW n \in Nat, n \in S PROVE n + 1 \in S
  <2> SUFFICES Reached(n + 1)
    BY n + 1 \in Nat
  <2>1. SUFFICES ASSUME n + 1 <= Len(t) PROVE \E f \in [0 .. n + 1 -> Int] : P(n + 1, f)
    OBVIOUS
  <2>2. PICK f \in [0 .. n -> Int] : P(n, f)
    BY <1>2, <2>1
  <2>3. t[n + 1] \in Int
    BY <2>1
  <2> DEFINE g == [k \in 0 .. n + 1 |-> IF k = n + 1 THEN f[n] + t[n + 1] ELSE f[k]]
  <2>4. g \in [0 .. n + 1 -> Int]
    BY <2>2, <2>3
  <2>5. ASSUME NEW k \in 1 .. n + 1 PROVE g[k] = g[k - 1] + t[k]
    BY <2>2
  <2>6. g[0] = 0
    BY <2>2
  <2> HIDE DEF g
  <2> QED BY <2>4, <2>5, <2>6
<1>3. Nat \subseteq S
  <2> HIDE DEF S
  <2> QED BY <1>1, <1>2, SetInduction
<1>4. Len(t) \in Nat
  OBVIOUS
<1>5. PICK f \in [0 .. Len(t) -> Int] : P(Len(t), f)
  <2>1. Reached(Len(t))
    <3> HIDE DEF Reached
    <3> QED BY <1>3, <1>4
  <2> QED BY <2>1, <1>4
<1>6. IsSum(t, f)
  BY <1>5 DEF IsSum
<1> QED BY <1>6

LEMMA SumsIsSum ==
    ASSUME NEW t \in Seq(Int)
    PROVE  IsSum(t, Sums(t))
<1>1. PICK f : IsSum(t, f)
  BY SumsExist
<1>2. Sums(t) = CHOOSE g : IsSum(t, g)
  BY Zenon DEF Sums, IsSum
<1> QED BY <1>1, <1>2, Zenon

(* Sums adds up its terms from the left.                                   *)
LEMMA SumsUnfold ==
    ASSUME NEW t \in Seq(Int)
    PROVE  /\ Sums(t)[0] = 0
           /\ \A k \in 1 .. Len(t) : Sums(t)[k] = Sums(t)[k - 1] + t[k]
           /\ \A k \in 0 .. Len(t) : Sums(t)[k] \in Int
<1> DEFINE f == Sums(t)
<1>1. f = [k \in 0 .. Len(t) |-> IF k = 0 THEN 0 ELSE f[k - 1] + t[k]]
  BY SumsIsSum DEF IsSum
<1> HIDE DEF f
<1>2. f[0] = 0
  BY <1>1
<1>3. \A k \in 1 .. Len(t) : f[k] = f[k - 1] + t[k]
  BY <1>1
<1> DEFINE S == {m \in Nat : m <= Len(t) => f[m] \in Int}
<1>4. 0 \in S
  BY <1>2
<1>5. ASSUME NEW n \in Nat, n \in S PROVE n + 1 \in S
  BY <1>3, <1>5
<1>6. Nat \subseteq S
  <2> HIDE DEF S
  <2> QED BY <1>4, <1>5, SetInduction
<1> QED BY <1>2, <1>3, <1>6 DEF f

----------------------------------------------------------------------------
(* The inductive invariant.                                                *)

(* What is sent is the batch by columns; nothing else has happened before. *)
InputInv ==
    /\ pc = "idle" => inputs = <<>>
    /\ pc \in {"idle", "encrypt"} => features = <<>>
    /\ pc = "encrypt" => Len(inputs) < Width
    /\ pc \in {"validate", "weigh", "activate", "decrypt"} => Len(inputs) = Width
    /\ inputs # <<>> => Len(batch) <= Slots
    /\ \A k \in DOMAIN inputs : inputs[k].slots = Encrypted(Column(k)).slots

(* What has been validated is what was sent, in its order.                 *)
FeatureInv ==
    /\ Len(features) <= Len(inputs)
    /\ \A k \in DOMAIN features :
          Compatible(inputs[k]) /\ features[k] = Loaded(inputs[k])

(* The evaluator runs on one ciphertext per weight.                        *)
MatchInv ==
    pc \in {"weigh", "activate", "decrypt"} =>
        OnePerWeight /\ Len(features) = Len(inputs)

(* The loop over the weights: linear_ct holds the partial sums.            *)
LinearInv ==
    /\ pc \in {"idle", "encrypt", "validate"} => turn = 0 /\ linear = None
    /\ pc = "weigh" =>
          /\ turn <= Len(model.weights)
          /\ linear = None <=> turn = 0
          /\ linear # None =>
                /\ linear.cipher /\ linear.depth = 1
                /\ \A s \in 1 .. Len(batch) :
                      linear.slots[s] = Sums(Weighted(model, batch[s]))[turn]
    /\ pc = "activate" =>
          /\ linear # None /\ linear.cipher /\ linear.depth = 1
          /\ \A s \in 1 .. Len(batch) :
                linear.slots[s] = PlainLinear(model, batch[s])

Sofar(s) == Sums(PlainTerms(model, batch[s]))[turn]

(* The loop over the coefficients: result is None while they are zero, and *)
(* holds the partial sums from the first on that is not.                   *)
ResultInv ==
    /\ pc \in {"idle", "encrypt", "validate", "weigh"} => result = None
    /\ pc \in {"activate", "decrypt"} =>
          /\ model.coefficients # NoBlock
          /\ turn <= Len(model.coefficients)
          /\ result = None <=> \A k \in 1 .. turn : model.coefficients[k] = 0
          /\ HasBytes <=> \E k \in 2 .. turn : model.coefficients[k] # 0
          /\ \A s \in 1 .. Len(batch) :
                Sofar(s) = IF result = None THEN 0 ELSE result.slots[s]
    /\ pc = "decrypt" => turn = Len(model.coefficients) /\ HasBytes

(* The depth the registry counts is that of the polynomial alone.          *)
DepthInv ==
    result # None =>
        /\ Asked /\ model.coefficients # NoBlock
        /\ result.depth <= RequiredDepth(model.coefficients) + 1

(* An outcome is for good.                                                 *)
EndInv == outcome # "none" <=> pc = "over"

IInv ==
    /\ TypeOK
    /\ InputInv /\ FeatureInv /\ MatchInv /\ LinearInv /\ ResultInv
    /\ DepthInv /\ EndInv
    /\ AgreesWithPlain /\ OutcomeHasCause

----------------------------------------------------------------------------
(* Types of models, requests and the operations on ciphertexts.            *)

LEMMA ModelFacts ==
    ASSUME NEW m \in Models
    PROVE  /\ m.dimension \in Nat \ {0} /\ m.scale \in Nat \ {0}
           /\ m.depth \in Nat /\ m.bias \in Int
           /\ m.weights # NoBlock =>
                 m.weights \in Seq(Int) /\ Len(m.weights) = m.dimension
           /\ m.coefficients # NoBlock =>
                 /\ m.coefficients \in Seq(Int) /\ Len(m.coefficients) = 3
                 /\ m.depth >= RequiredDepth(m.coefficients)
BY ModelAssumption DEF Registered, Numbers

LEMMA RequestFacts ==
    ASSUME Asked, TypeOK
    PROVE  /\ model \in Models
           /\ request.scale \in Int
           /\ Len(batch) \in Nat \ {0}
           /\ Width \in Nat \ {0} /\ Width \in {1, model.dimension}
           /\ \A s \in 1 .. Len(batch) :
                 /\ batch[s] \in Seq(Int) /\ Len(batch[s]) = Width
                 /\ \A k \in 1 .. Width : batch[s][k] \in Int
<1>1. request \in Requests
  BY DEF TypeOK
<1>2. /\ model \in Models /\ request.scale \in Int
      /\ batch \in Seq(Numbers) /\ batch # <<>>
      /\ Width \in {1, model.dimension}
      /\ \A s \in DOMAIN batch : Len(batch[s]) = Width
  BY <1>1, RequestAssumption DEF model, batch, Width
<1>3. Len(batch) \in Nat \ {0} /\ DOMAIN batch = 1 .. Len(batch)
  BY <1>2
<1>4. \A s \in 1 .. Len(batch) : batch[s] \in Numbers
  BY <1>2, <1>3
<1>5. Width \in Nat \ {0}
  BY <1>2, ModelFacts
<1>6. ASSUME NEW s \in 1 .. Len(batch)
      PROVE  /\ batch[s] \in Seq(Int) /\ Len(batch[s]) = Width
             /\ \A k \in 1 .. Width : batch[s][k] \in Int
  BY <1>2, <1>3, <1>4 DEF Numbers
<1> QED BY <1>2, <1>3, <1>5, <1>6

LEMMA NumberType ==
    ASSUME NEW c \in Int
    PROVE  Number(c) \in Values
BY DEF Number, Values, Vectors

LEMMA ValueFields ==
    ASSUME NEW a \in Values
    PROVE  /\ a.cipher \in BOOLEAN /\ a.depth \in Nat /\ a.slots \in Vectors
           /\ \A s \in 1 .. Slots : a.slots[s] \in Int
BY DEF Values, Vectors

LEMMA PlusType ==
    ASSUME NEW a \in Values, NEW b \in Values
    PROVE  Plus(a, b) \in Values
<1>1. [s \in 1 .. Slots |-> a.slots[s] + b.slots[s]] \in Vectors
  BY ValueFields DEF Vectors
<1>2. Deeper(a, b) \in Nat
  BY ValueFields DEF Deeper
<1>3. (a.cipher \/ b.cipher) \in BOOLEAN
  OBVIOUS
<1> QED BY <1>1, <1>2, <1>3, Zenon DEF Plus, Values

LEMMA TimesType ==
    ASSUME NEW a \in Values, NEW c \in Int
    PROVE  Times(a, c) \in Values
<1>1. [s \in 1 .. Slots |-> a.slots[s] * c] \in Vectors
  BY ValueFields DEF Vectors
<1>2. a.depth + 1 \in Nat /\ a.cipher \in BOOLEAN
  BY ValueFields
<1> QED BY <1>1, <1>2, Zenon DEF Times, Values

LEMMA PowType ==
    ASSUME NEW x \in Int, NEW degree \in Nat
    PROVE  Pow(x, degree) \in Int
BY DEF Pow

LEMMA PowerType ==
    ASSUME NEW a \in Values, NEW degree \in Nat \ {0}
    PROVE  Power(a, degree) \in Values
<1>1. [s \in 1 .. Slots |-> Pow(a.slots[s], degree)] \in Vectors
  BY ValueFields, PowType DEF Vectors
<1>2. a.depth + degree - 1 \in Nat /\ a.cipher \in BOOLEAN
  BY ValueFields
<1> QED BY <1>1, <1>2, Zenon DEF Power, Values

LEMMA JoinType ==
    ASSUME NEW acc \in Values \cup {None}, NEW x \in Values
    PROVE  Join(acc, x) \in Values
BY PlusType DEF Join

LEMMA TermType ==
    ASSUME linear \in Values, NEW degree \in Nat, NEW c \in Int
    PROVE  Term(degree, c) \in Values
<1>1. CASE degree = 0
  BY <1>1, NumberType DEF Term
<1>2. CASE degree # 0
  <2>1. Power(linear, degree) \in Values
    BY <1>2, PowerType
  <2> QED BY <1>2, <2>1, TimesType DEF Term
<1> QED BY <1>1, <1>2

LEMMA EncryptedType ==
    ASSUME Asked, TypeOK, NEW k \in 1 .. Width
    PROVE  Encrypted(Column(k)) \in Payloads
<1>1. /\ Len(batch) \in Nat /\ request.scale \in Int
      /\ \A s \in 1 .. Len(batch) : batch[s][k] \in Int
  BY RequestFacts
<1>2. DOMAIN batch = 1 .. Len(batch)
  <2>1. batch \in Seq(Numbers)
    BY RequestAssumption DEF TypeOK, batch
  <2> QED BY <2>1
<1>3. Len(Column(k)) = Len(batch) /\ \A s \in 1 .. Len(batch) : Column(k)[s] = batch[s][k]
  BY <1>1, <1>2 DEF Column
<1> DEFINE v == [s \in 1 .. Slots |-> IF s <= Len(Column(k)) THEN Column(k)[s] ELSE 0]
<1>4. v \in Vectors
  BY <1>1, <1>3, SlotAssumption DEF Vectors
<1> HIDE DEF v
<1> QED BY <1>1, <1>4 DEF Encrypted, Payloads, v

LEMMA LoadedType ==
    ASSUME NEW payload \in Payloads
    PROVE  Loaded(payload) \in Values
BY DEF Loaded, Payloads, Values

----------------------------------------------------------------------------
(* Types.                                                                  *)

LEMMA Frame ==
    ASSUME request' = request
    PROVE  /\ model' = model /\ batch' = batch /\ Width' = Width
           /\ \A k : Column(k)' = Column(k)
           /\ \A k : Encrypted(Column(k))' = Encrypted(Column(k))
           /\ \A payload : Compatible(payload)' = Compatible(payload)
BY DEF model, batch, Width, Column, Encrypted, Compatible

(* Where an inference goes on there is a request, which no step but Ask    *)
(* changes.                                                                *)
LEMMA SameRequest ==
    ASSUME TypeOK, Step \/ \E k \in DOMAIN inputs : Damage(k)
    PROVE  Asked /\ request' = request
BY DEF Step, EncryptColumn, EncryptionFails, Validate, Invalid, Begin, BeginFails,
       Weigh, AddBias, NoActivation, Activate, Respond, RespondByte, NothingToRespond,
       Decrypt, Damage, Asked

LEMMA InitIInv == Init => IInv
BY DEF Init, IInv, TypeOK, InputInv, FeatureInv, MatchInv, LinearInv, ResultInv,
       DepthInv, EndInv, AgreesWithPlain, OutcomeHasCause, Asked

(* What the loops take is there to be taken.                               *)
LEMMA LoopFacts ==
    ASSUME IInv
    PROVE  /\ pc = "weigh" /\ turn < Len(model.weights) =>
                 /\ turn + 1 \in 1 .. Len(features)
                 /\ features[turn + 1] \in Values
                 /\ model.weights[turn + 1] \in Int
           /\ pc = "weigh" /\ turn = Len(model.weights) => linear \in Values
           /\ pc = "activate" => linear \in Values /\ Len(model.coefficients) = 3
           /\ pc = "activate" /\ turn < Len(model.coefficients) =>
                 model.coefficients[turn + 1] \in Int
           /\ pc = "decrypt" => Len(batch) <= Slots /\ Len(batch) \in Nat
<1>1. turn \in Nat /\ features \in Seq(Values) /\ linear \in Values \cup {None}
      /\ inputs \in Seq(Payloads)
  BY DEF IInv, TypeOK
<1>2. ASSUME Asked PROVE model \in Models /\ Len(batch) \in Nat /\ Width \in Nat \ {0}
  BY <1>2, RequestFacts DEF IInv
<1>3. CASE pc = "weigh"
  <2>1. /\ model.weights # NoBlock /\ Len(features) = Len(model.weights)
        /\ linear = None <=> turn = 0
    BY <1>3 DEF IInv, MatchInv, LinearInv, OnePerWeight
  <2>2. model.weights \in Seq(Int) /\ Len(model.weights) \in Nat \ {0}
    BY <1>2, <1>3, <2>1, ModelFacts DEF Asked
  <2>3. turn < Len(model.weights) => turn + 1 \in 1 .. Len(features)
    BY <1>1, <2>1, <2>2
  <2>4. turn = Len(model.weights) => linear \in Values
    BY <1>1, <2>1, <2>2
  <2> QED BY <1>1, <1>3, <2>1, <2>2, <2>3, <2>4
<1>4. CASE pc = "activate"
  <2>1. linear # None /\ model.coefficients # NoBlock
    BY <1>4 DEF IInv, LinearInv, ResultInv
  <2>2. model.coefficients \in Seq(Int) /\ Len(model.coefficients) = 3
    BY <1>2, <1>4, <2>1, ModelFacts DEF Asked
  <2> QED BY <1>1, <1>4, <2>1, <2>2
<1>5. CASE pc = "decrypt"
  <2>1. inputs # <<>>
    BY <1>1, <1>2, <1>5 DEF IInv, InputInv, Asked
  <2> QED BY <1>2, <1>5, <2>1 DEF IInv, InputInv, Asked
<1> QED BY <1>3, <1>4, <1>5

LEMMA TypeStep ==
    ASSUME IInv, Next
    PROVE  TypeOK'
<1>1. TypeOK
  BY DEF IInv
<1>2. ASSUME NEW r \in Requests, Ask(r) PROVE TypeOK'
  BY <1>1, <1>2 DEF TypeOK, Ask, Asked
<1>3. ASSUME NEW k \in DOMAIN inputs, Damage(k) PROVE TypeOK'
  <2>1. inputs \in Seq(Payloads)
    BY <1>1 DEF TypeOK
  <2>2. inputs' = [inputs EXCEPT ![k].intact = FALSE]
    BY <1>3 DEF Damage
  <2>3. [inputs[k] EXCEPT !.intact = FALSE] \in Payloads
    <3>1. inputs[k] \in Payloads
      BY <2>1
    <3> QED BY <3>1 DEF Payloads
  <2>4. inputs' \in Seq(Payloads)
    BY <2>1, <2>2, <2>3
  <2> QED BY <1>1, <1>3, <2>4 DEF TypeOK, Damage, Asked
<1>4. CASE EncryptColumn
  <2>1. Len(inputs) + 1 \in 1 .. Width
    BY <1>1, <1>4, RequestFacts DEF EncryptColumn, IInv, InputInv, TypeOK, Asked
  <2>2. Encrypted(Column(Len(inputs) + 1)) \in Payloads
    BY <1>1, <1>4, <2>1, EncryptedType DEF EncryptColumn, Asked
  <2>3. inputs' \in Seq(Payloads)
    BY <1>1, <1>4, <2>2 DEF EncryptColumn, TypeOK
  <2>4. pc' \in {"validate", "encrypt"}
    BY <1>4 DEF EncryptColumn
  <2> QED BY <1>1, <1>4, <2>3, <2>4 DEF TypeOK, EncryptColumn, Asked
<1>5. CASE EncryptionFails \/ Invalid \/ BeginFails \/ NoActivation
          \/ RespondByte \/ NothingToRespond
  BY <1>1, <1>5 DEF TypeOK, EncryptionFails, Invalid, BeginFails, NoActivation,
                    RespondByte, NothingToRespond, End, Asked
<1>6. CASE Validate
  <2>1. inputs[Len(features) + 1] \in Payloads
    BY <1>1, <1>6 DEF TypeOK, Validate
  <2>2. features' \in Seq(Values)
    BY <1>1, <1>6, <2>1, LoadedType DEF TypeOK, Validate
  <2> QED BY <1>1, <1>6, <2>2 DEF TypeOK, Validate, Asked
<1>7. CASE Begin
  BY <1>1, <1>7 DEF TypeOK, Begin, Asked
<1>8. CASE Weigh
  <2>1. Times(features[turn + 1], model.weights[turn + 1]) \in Values
    BY <1>8, LoopFacts, TimesType DEF Weigh
  <2>2. linear' \in Values
    BY <1>1, <1>8, <2>1, JoinType DEF Weigh, TypeOK
  <2> QED BY <1>1, <1>8, <2>2 DEF TypeOK, Weigh, Asked
<1>9. CASE AddBias
  <2>1. Number(model.bias) \in Values
    <3>1. model.bias \in Int
      BY <1>1, <1>9, RequestFacts, ModelFacts DEF AddBias, Asked
    <3> QED BY <3>1, NumberType
  <2>2. linear' \in Values
    BY <1>9, <2>1, LoopFacts, PlusType DEF AddBias
  <2> QED BY <1>1, <1>9, <2>2 DEF TypeOK, AddBias, Asked
<1>10. CASE Activate
  <2> DEFINE c == model.coefficients[turn + 1]
  <2>1. c \in Int /\ linear \in Values /\ turn \in Nat
    BY <1>1, <1>10, LoopFacts DEF Activate, TypeOK
  <2>2. Term(turn, c) \in Values
    BY <2>1, TermType
  <2>3. Join(result, Term(turn, c)) \in Values
    BY <1>1, <2>2, JoinType DEF TypeOK
  <2>4. result' \in Values \cup {None}
    BY <1>1, <1>10, <2>3 DEF TypeOK, Activate
  <2> QED BY <1>1, <1>10, <2>4 DEF TypeOK, Activate, Asked
<1>11. CASE Respond
  BY <1>1, <1>11 DEF TypeOK, Respond, HasBytes, Asked
<1>12. CASE Decrypt
  <2>1. result \in Values
    BY <1>1, <1>12 DEF TypeOK, Decrypt
  <2>2. \A s \in 1 .. Len(batch) : result.slots[s] \in Int
    BY <1>12, <2>1, LoopFacts, ValueFields, SlotAssumption DEF Decrypt
  <2>3. outputs' \in Seq(Int)
    <3>1. Len(batch) \in Nat
      BY <1>12, LoopFacts DEF Decrypt
    <3> QED BY <1>12, <2>2, <3>1 DEF Decrypt
  <2> QED BY <1>1, <1>12, <2>3 DEF TypeOK, Decrypt, End, Asked
<1> QED
  BY <1>2, <1>3, <1>4, <1>5, <1>6, <1>7, <1>8, <1>9, <1>10, <1>11, <1>12
  DEF Next, Step

----------------------------------------------------------------------------
(* The parts of the invariant, step by step.                               *)

LEMMA InputStep ==
    ASSUME IInv, Next
    PROVE  InputInv'
<1>1. TypeOK /\ InputInv /\ inputs \in Seq(Payloads)
  BY DEF IInv, TypeOK
<1>2. ASSUME NEW r \in Requests, Ask(r) PROVE InputInv'
  <2>1. Len(r.batch[1]) \in Nat \ {0}
    <3>1. r.model.dimension \in Nat \ {0}
      BY RequestAssumption, ModelAssumption
    <3>2. Len(r.batch[1]) \in {1, r.model.dimension}
      BY RequestAssumption, Zenon
    <3>3. ASSUME NEW w, w \in {1, r.model.dimension} PROVE w \in Nat \ {0}
      BY <3>1, <3>3
    <3> QED BY <3>2, <3>3, Zenon
  <2>2. Width' = Len(r.batch[1])
    BY <1>2 DEF Ask, Width, batch
  <2>3. inputs' = <<>> /\ features' = <<>> /\ pc' = "encrypt"
    BY <1>1, <1>2 DEF Ask, InputInv
  <2> QED BY <2>1, <2>2, <2>3 DEF InputInv
<1>3. ASSUME Step \/ \E k \in DOMAIN inputs : Damage(k)
      PROVE  /\ Asked /\ Width' = Width /\ batch' = batch
             /\ \A k : Encrypted(Column(k))' = Encrypted(Column(k))
  BY <1>1, <1>3, SameRequest, Frame
<1>4. ASSUME NEW k \in DOMAIN inputs, Damage(k) PROVE InputInv'
  <2>1. /\ DOMAIN inputs' = DOMAIN inputs /\ Len(inputs') = Len(inputs)
        /\ inputs' # <<>> /\ inputs # <<>>
        /\ \A j \in DOMAIN inputs : inputs'[j].slots = inputs[j].slots
    BY <1>1, <1>4 DEF Damage, Payloads
  <2> QED BY <1>1, <1>3, <1>4, <2>1 DEF InputInv, Damage
<1>5. CASE EncryptColumn
  <2> DEFINE new == Encrypted(Column(Len(inputs) + 1))
  <2>1. new \in Payloads
    <3>1. Len(inputs) + 1 \in 1 .. Width
      BY <1>1, <1>3, <1>5, RequestFacts DEF EncryptColumn, InputInv, Step
    <3> QED BY <1>1, <1>3, <1>5, <3>1, EncryptedType DEF Step
  <2>2. inputs' = Append(inputs, new)
    BY <1>5 DEF EncryptColumn
  <2> HIDE DEF new
  <2>3. /\ Len(inputs') = Len(inputs) + 1
        /\ DOMAIN inputs' = DOMAIN inputs \cup {Len(inputs) + 1}
        /\ \A j \in DOMAIN inputs : inputs'[j] = inputs[j]
        /\ inputs'[Len(inputs) + 1] = new
    BY <1>1, <2>1, <2>2
  <2>4. \A j \in DOMAIN inputs' : inputs'[j].slots = Encrypted(Column(j)).slots
    BY <1>1, <2>3 DEF InputInv, new
  <2>5. Len(inputs) < Width /\ Len(inputs) \in Nat /\ Width \in Nat
    BY <1>1, <1>3, <1>5, RequestFacts DEF EncryptColumn, InputInv, Step
  <2>6. /\ features' = <<>>
        /\ Len(batch) <= Slots
        /\ pc' = "encrypt" => Len(inputs') < Width
        /\ pc' # "encrypt" => pc' = "validate" /\ Len(inputs') = Width
    BY <1>1, <1>5, <2>3, <2>5 DEF EncryptColumn, InputInv
  <2>7. /\ pc' \in {"encrypt", "validate"} /\ Width' = Width /\ batch' = batch
        /\ \A k : Encrypted(Column(k))' = Encrypted(Column(k))
    BY <1>3, <1>5, <2>6 DEF Step, EncryptColumn
  <2> QED BY <2>4, <2>6, <2>7 DEF InputInv
<1>6. CASE Step /\ ~EncryptColumn
  <2>1. /\ inputs' = inputs
        /\ features' = features \/ pc' = "validate"
        /\ pc' \in {"validate", "weigh", "activate", "decrypt"} =>
              pc \in {"validate", "weigh", "activate", "decrypt"}
        /\ pc' \notin {"idle", "encrypt"}
    BY <1>6 DEF Step, EncryptionFails, Validate, Invalid, Begin, BeginFails, Weigh,
                AddBias, NoActivation, Activate, Respond, RespondByte, NothingToRespond, Decrypt, End
  <2> QED BY <1>1, <1>3, <1>6, <2>1 DEF InputInv
<1> QED BY <1>2, <1>4, <1>5, <1>6 DEF Next

LEMMA FeatureStep ==
    ASSUME IInv, Next
    PROVE  FeatureInv'
<1>1. /\ TypeOK /\ InputInv /\ FeatureInv /\ inputs \in Seq(Payloads)
      /\ features \in Seq(Values)
  BY DEF IInv, TypeOK
<1>2. ASSUME NEW r \in Requests, Ask(r) PROVE FeatureInv'
  <2>1. features' = <<>> /\ inputs' = inputs
    BY <1>1, <1>2 DEF Ask, InputInv
  <2> QED BY <1>1, <2>1 DEF FeatureInv
<1>3. ASSUME Step \/ \E k \in DOMAIN inputs : Damage(k)
      PROVE  \A payload : Compatible(payload)' = Compatible(payload)
  BY <1>1, <1>3, SameRequest, Frame
<1>4. ASSUME NEW k \in DOMAIN inputs, Damage(k) PROVE FeatureInv'
  <2>1. features' = <<>> /\ inputs' \in Seq(Payloads)
    BY <1>4, TypeStep DEF Damage, TypeOK, Next
  <2> QED BY <2>1 DEF FeatureInv
<1>5. CASE EncryptColumn
  <2>1. features' = <<>> /\ inputs' \in Seq(Payloads)
    BY <1>1, <1>5, TypeStep DEF EncryptColumn, TypeOK, InputInv, Next, Step
  <2> QED BY <2>1 DEF FeatureInv
<1>6. CASE Validate
  <2> DEFINE n == Len(features) + 1
             new == Loaded(inputs[n])
  <2>1. n \in DOMAIN inputs /\ n \in 1 .. Len(inputs) /\ new \in Values
    BY <1>1, <1>6, LoadedType DEF Validate
  <2>2. features' = Append(features, new) /\ inputs' = inputs /\ Compatible(inputs[n])
    BY <1>6 DEF Validate
  <2> HIDE DEF new
  <2>3. /\ Len(features') = n
        /\ DOMAIN features' = DOMAIN features \cup {n}
        /\ \A j \in DOMAIN features : features'[j] = features[j]
        /\ features'[n] = new
    BY <1>1, <2>1, <2>2
  <2>4. \A k \in DOMAIN features' : Compatible(inputs[k]) /\ features'[k] = Loaded(inputs[k])
    BY <1>1, <2>2, <2>3 DEF FeatureInv, new
  <2> QED BY <1>3, <1>6, <2>1, <2>2, <2>3, <2>4 DEF FeatureInv, Step
<1>7. CASE Step /\ ~EncryptColumn /\ ~Validate
  <2>1. inputs' = inputs /\ features' = features
    BY <1>7 DEF Step, EncryptionFails, Invalid, Begin, BeginFails, Weigh,
                AddBias, NoActivation, Activate, Respond, RespondByte, NothingToRespond, Decrypt
  <2> QED BY <1>1, <1>3, <1>7, <2>1 DEF FeatureInv
<1> QED BY <1>2, <1>4, <1>5, <1>6, <1>7 DEF Next

LEMMA MatchStep ==
    ASSUME IInv, Next
    PROVE  MatchInv'
<1>1. TypeOK /\ MatchInv
  BY DEF IInv
<1>2. ASSUME NEW r \in Requests, Ask(r) PROVE MatchInv'
  BY <1>2 DEF Ask, MatchInv
<1>3. ASSUME NEW k \in DOMAIN inputs, Damage(k) PROVE MatchInv'
  BY <1>3 DEF Damage, MatchInv
<1>4. CASE Step
  <2>1. model' = model
    BY <1>1, <1>4, SameRequest, Frame
  <2>2. CASE Begin
    BY <2>1, <2>2 DEF Begin, MatchInv, OnePerWeight
  <2>3. CASE ~Begin
    <3>1. pc' \in {"weigh", "activate", "decrypt"} =>
             /\ pc \in {"weigh", "activate", "decrypt"}
             /\ inputs' = inputs /\ features' = features
      BY <1>4, <2>3 DEF Step, EncryptColumn, EncryptionFails, Validate, Invalid,
         BeginFails, Weigh, AddBias, NoActivation, Activate, Respond,
         RespondByte, NothingToRespond, Decrypt, End
    <3> QED BY <1>1, <2>1, <3>1 DEF MatchInv, OnePerWeight
  <2> QED BY <2>2, <2>3
<1> QED BY <1>2, <1>3, <1>4 DEF Next
(* The ciphertexts that were validated hold the batch, by columns.         *)
LEMMA FeatureFacts ==
    ASSUME IInv, pc = "weigh"
    PROVE  /\ model.weights \in Seq(Int)
           /\ Len(features) = Len(model.weights) /\ Len(model.weights) \in Nat \ {0}
           /\ Width = Len(model.weights)
           /\ Len(batch) \in Nat \ {0} /\ Len(batch) <= Slots
           /\ \A s \in 1 .. Len(batch), k \in 1 .. Len(features) :
                 /\ features[k] \in Values
                 /\ features[k].cipher /\ features[k].depth = 0
                 /\ features[k].slots[s] = batch[s][k]
<1>1. /\ TypeOK /\ InputInv /\ FeatureInv /\ MatchInv /\ Asked
      /\ inputs \in Seq(Payloads) /\ features \in Seq(Values)
  BY DEF IInv, TypeOK, Asked
<1>2. /\ model \in Models /\ Len(batch) \in Nat \ {0} /\ Width \in Nat \ {0}
  BY <1>1, RequestFacts
<1>3. /\ model.weights # NoBlock /\ Len(features) = Len(model.weights)
      /\ Len(features) = Len(inputs) /\ Len(inputs) = Width
  BY <1>1 DEF MatchInv, OnePerWeight, InputInv
<1>4. model.weights \in Seq(Int)
  BY <1>2, <1>3, ModelFacts
<1>5. inputs # <<>>
  BY <1>1, <1>2, <1>3
<1>6. Len(batch) <= Slots
  BY <1>1, <1>5 DEF InputInv
<1>7. DOMAIN batch = 1 .. Len(batch)
  <2>1. batch \in Seq(Numbers)
    BY <1>1, RequestAssumption DEF TypeOK, batch
  <2> QED BY <2>1
<1>8. ASSUME NEW s \in 1 .. Len(batch), NEW k \in 1 .. Len(features)
      PROVE  /\ features[k] \in Values
             /\ features[k].cipher /\ features[k].depth = 0
             /\ features[k].slots[s] = batch[s][k]
  <2>1. features[k] = Loaded(inputs[k]) /\ k \in DOMAIN inputs
    BY <1>1, <1>3 DEF FeatureInv
  <2>2. inputs[k].slots = Encrypted(Column(k)).slots
    BY <1>1, <2>1 DEF InputInv
  <2>3. Len(Column(k)) = Len(batch) /\ Column(k)[s] = batch[s][k]
    BY <1>2, <1>7 DEF Column
  <2>4. s \in 1 .. Slots /\ s <= Len(Column(k))
    BY <1>2, <1>6, <2>3, SlotAssumption
  <2>5. Encrypted(Column(k)).slots[s] = batch[s][k]
    BY <2>3, <2>4 DEF Encrypted
  <2>6. features[k] \in Values
    BY <1>1
  <2> QED BY <2>1, <2>2, <2>5, <2>6 DEF Loaded
<1> QED BY <1>2, <1>3, <1>4, <1>6, <1>8

LEMMA WeightedFacts ==
    ASSUME NEW m, m.weights \in Seq(Int),
           NEW row \in Seq(Int), Len(row) = Len(m.weights)
    PROVE  /\ Weighted(m, row) \in Seq(Int)
           /\ Len(Weighted(m, row)) = Len(m.weights)
           /\ \A k \in 1 .. Len(m.weights) : Weighted(m, row)[k] = row[k] * m.weights[k]
<1>1. \A k \in 1 .. Len(m.weights) : row[k] * m.weights[k] \in Int
  OBVIOUS
<1> QED BY <1>1 DEF Weighted

(* One turn of the loop over the weights adds a term to the partial sum.   *)
LEMMA WeighSlot ==
    ASSUME IInv, Weigh, NEW s \in 1 .. Len(batch)
    PROVE  linear'.slots[s] = Sums(Weighted(model, batch[s]))[turn + 1]
<1> DEFINE w == model.weights[turn + 1]
           x == Times(features[turn + 1], w)
           terms == Weighted(model, batch[s])
<1>1. pc = "weigh" /\ turn < Len(model.weights) /\ linear' = Join(linear, x)
  BY DEF Weigh
<1>2. turn \in Nat /\ turn + 1 \in 1 .. Len(model.weights)
  BY <1>1, FeatureFacts DEF IInv, TypeOK
<1>3. s \in 1 .. Slots
  BY <1>1, FeatureFacts, SlotAssumption
<1>4. batch[s] \in Seq(Int) /\ Len(batch[s]) = Len(model.weights)
  BY <1>1, RequestFacts, FeatureFacts DEF IInv, Asked
<1>5. /\ terms \in Seq(Int) /\ Len(terms) = Len(model.weights)
      /\ terms[turn + 1] = batch[s][turn + 1] * w
  BY <1>1, <1>2, <1>4, WeightedFacts, FeatureFacts
<1>6. x.slots[s] = terms[turn + 1]
  <2>1. features[turn + 1].slots[s] = batch[s][turn + 1]
    BY <1>1, <1>2, FeatureFacts
  <2> QED BY <1>3, <1>5, <2>1 DEF Times
<1> HIDE DEF x, terms
<1>7. /\ Sums(terms)[turn + 1] = Sums(terms)[turn] + terms[turn + 1]
      /\ Sums(terms)[0] = 0
      /\ terms[turn + 1] \in Int
  <2>1. (turn + 1) - 1 = turn
    BY <1>2
  <2> QED BY <1>2, <1>5, <2>1, SumsUnfold
<1>8. CASE linear = None
  <2>1. turn = 0
    BY <1>1, <1>8 DEF IInv, LinearInv
  <2>2. linear' = x
    BY <1>1, <1>8 DEF Join
  <2>3. Sums(terms)[turn + 1] = terms[turn + 1]
    BY <1>7, <2>1
  <2> QED BY <1>6, <2>2, <2>3, Zenon DEF terms
<1>9. CASE linear # None
  <2>1. linear.slots[s] = Sums(terms)[turn]
    BY <1>1, <1>9 DEF IInv, LinearInv, terms
  <2>2. linear'.slots[s] = linear.slots[s] + x.slots[s]
    BY <1>1, <1>3, <1>9 DEF Join, Plus
  <2>3. linear'.slots[s] = Sums(terms)[turn + 1]
    BY <1>6, <1>7, <2>1, <2>2
  <2> QED BY <2>3, Zenon DEF terms
<1> QED BY <1>8, <1>9
LEMMA WeighMeta ==
    ASSUME IInv, Weigh
    PROVE  linear' \in Values /\ linear'.cipher /\ linear'.depth = 1
<1> DEFINE x == Times(features[turn + 1], model.weights[turn + 1])
<1>1. pc = "weigh" /\ turn < Len(model.weights) /\ linear' = Join(linear, x)
  BY DEF Weigh
<1>2. /\ turn + 1 \in 1 .. Len(features) /\ features[turn + 1] \in Values
      /\ model.weights[turn + 1] \in Int
  BY <1>1, LoopFacts
<1>3. 1 \in 1 .. Len(batch)
  BY <1>1, FeatureFacts
<1>4. features[turn + 1].cipher /\ features[turn + 1].depth = 0
  BY <1>1, <1>2, <1>3, FeatureFacts
<1>5. x \in Values /\ x.cipher /\ x.depth = 1
  <2>1. x \in Values
    BY <1>2, TimesType
  <2>2. x.cipher = features[turn + 1].cipher /\ x.depth = features[turn + 1].depth + 1
    BY Zenon DEF Times
  <2> QED BY <1>4, <2>1, <2>2
<1> HIDE DEF x
<1>6. linear \in Values \cup {None}
  BY DEF IInv, TypeOK
<1>7. linear' \in Values
  BY <1>1, <1>5, <1>6, JoinType
<1>8. CASE linear = None
  BY <1>1, <1>5, <1>7, <1>8 DEF Join
<1>9. CASE linear # None
  <2>1. linear.cipher /\ linear.depth = 1
    BY <1>1, <1>9 DEF IInv, LinearInv
  <2>2. linear' = Plus(linear, x)
    BY <1>1, <1>9 DEF Join
  <2>3. linear'.cipher = (linear.cipher \/ x.cipher) /\ linear'.depth = Deeper(linear, x)
    BY <2>2, Zenon DEF Plus
  <2>4. Deeper(linear, x) = 1
    BY <1>5, <2>1 DEF Deeper
  <2> QED BY <1>7, <2>1, <2>3, <2>4
<1> QED BY <1>8, <1>9

LEMMA BiasSlots ==
    ASSUME IInv, AddBias
    PROVE  /\ linear' # None /\ linear'.cipher /\ linear'.depth = 1
           /\ \A s \in 1 .. Len(batch) : linear'.slots[s] = PlainLinear(model, batch[s])
<1> DEFINE b == Number(model.bias)
<1>1. pc = "weigh" /\ turn = Len(model.weights) /\ linear' = Plus(linear, b)
  BY DEF AddBias
<1>2. turn # 0 /\ linear \in Values
  BY <1>1, FeatureFacts, LoopFacts
<1>3. /\ linear.cipher /\ linear.depth = 1
      /\ \A s \in 1 .. Len(batch) :
            linear.slots[s] = Sums(Weighted(model, batch[s]))[Len(model.weights)]
  <2>1. linear # None
    BY <1>1, <1>2 DEF IInv, LinearInv
  <2> QED BY <1>1, <2>1 DEF IInv, LinearInv
<1>4. model.bias \in Int
  BY <1>1, RequestFacts, ModelFacts DEF IInv, Asked
<1>5. b \in Values /\ b.depth = 0 /\ \A s \in 1 .. Slots : b.slots[s] = model.bias
  BY <1>4, NumberType DEF Number
<1> HIDE DEF b
<1>6. linear' # None
  BY <1>1, <1>2, <1>5, PlusType, MarkerAssumption
<1>7. linear'.cipher
  BY <1>1, <1>3, Zenon DEF Plus
<1>8. linear'.depth = 1
  BY <1>1, <1>3, <1>5 DEF Plus, Deeper
<1>9. ASSUME NEW s \in 1 .. Len(batch)
      PROVE  linear'.slots[s] = PlainLinear(model, batch[s])
  <2>1. s \in 1 .. Slots
    BY <1>1, FeatureFacts, SlotAssumption
  <2>2. linear'.slots[s] = linear.slots[s] + model.bias
    BY <1>1, <1>5, <2>1 DEF Plus
  <2> QED BY <1>3, <2>2 DEF PlainLinear
<1> QED BY <1>6, <1>7, <1>8, <1>9

LEMMA LinearStep ==
    ASSUME IInv, Next
    PROVE  LinearInv'
<1>1. TypeOK /\ LinearInv /\ EndInv /\ turn \in Nat
  BY DEF IInv, TypeOK
<1>2. ASSUME NEW r \in Requests, Ask(r) PROVE LinearInv'
  BY <1>1, <1>2 DEF Ask, LinearInv
<1>3. ASSUME NEW k \in DOMAIN inputs, Damage(k) PROVE LinearInv'
  BY <1>1, <1>3 DEF Damage, LinearInv
<1>4. ASSUME Step PROVE Asked /\ model' = model /\ batch' = batch
  BY <1>1, <1>4, SameRequest, Frame
<1>5. CASE Weigh
  <2>1. linear' # None /\ linear'.cipher /\ linear'.depth = 1
    BY <1>5, WeighMeta, MarkerAssumption DEF IInv
  <2>2. /\ pc = "weigh" /\ pc' = "weigh" /\ turn' = turn + 1
        /\ turn + 1 <= Len(model.weights) /\ turn + 1 # 0
    BY <1>1, <1>5, FeatureFacts DEF Weigh
  <2>3. \A s \in 1 .. Len(batch) :
           linear'.slots[s] = Sums(Weighted(model, batch[s]))[turn']
    BY <1>5, <2>2, WeighSlot
  <2> QED BY <1>4, <1>5, <2>1, <2>2, <2>3 DEF LinearInv, Step
<1>6. CASE AddBias
  <2>1. pc' = "activate"
    BY <1>6 DEF AddBias
  <2> QED BY <1>4, <1>6, <2>1, BiasSlots DEF LinearInv, Step
<1>7. CASE Begin
  <2>1. /\ pc' = "weigh" /\ turn' = 0 /\ linear' = None
    BY <1>1, <1>7 DEF Begin, LinearInv
  <2>2. Len(model.weights) \in Nat
    <3>1. model.weights # NoBlock
      BY <1>7 DEF Begin, OnePerWeight
    <3> QED BY <1>1, <1>4, <1>7, <3>1, RequestFacts, ModelFacts DEF Step
  <2> QED BY <1>4, <1>7, <2>1, <2>2 DEF LinearInv, Step
<1>8. CASE Step /\ ~Weigh /\ ~AddBias /\ ~Begin
  <2>1. /\ linear' = linear
        /\ pc' \in {"idle", "encrypt", "validate"} =>
              pc \in {"idle", "encrypt", "validate"} /\ turn' = turn
        /\ pc' # "weigh"
        /\ pc' = "activate" => pc = "activate"
    BY <1>8 DEF Step, EncryptColumn, EncryptionFails, Validate, Invalid,
       BeginFails, NoActivation, Activate, Respond, RespondByte, NothingToRespond, Decrypt, End
  <2> QED BY <1>1, <1>4, <1>8, <2>1 DEF LinearInv
<1> QED BY <1>2, <1>3, <1>5, <1>6, <1>7, <1>8 DEF Next
(* What is known once the evaluator runs.                                  *)
LEMMA RunFacts ==
    ASSUME IInv, pc \in {"weigh", "activate", "decrypt"}
    PROVE  /\ TypeOK /\ Asked
           /\ model.weights \in Seq(Int) /\ Width = Len(model.weights)
           /\ Width = model.dimension
           /\ model.weights # NoBlock
           /\ Len(batch) \in Nat \ {0} /\ Len(batch) <= Slots
           /\ \A k \in DOMAIN inputs : Compatible(inputs[k])
<1>1. /\ TypeOK /\ InputInv /\ FeatureInv /\ MatchInv /\ Asked
      /\ inputs \in Seq(Payloads) /\ features \in Seq(Values)
  BY DEF IInv, TypeOK, Asked
<1>2. model \in Models /\ Len(batch) \in Nat \ {0} /\ Width \in Nat \ {0}
  BY <1>1, RequestFacts
<1>3. /\ model.weights # NoBlock /\ Len(features) = Len(model.weights)
      /\ Len(features) = Len(inputs) /\ Len(inputs) = Width
  BY <1>1 DEF MatchInv, OnePerWeight, InputInv
<1>4. Len(batch) <= Slots
  BY <1>1, <1>2, <1>3 DEF InputInv
<1>5. model.weights \in Seq(Int) /\ Len(model.weights) = model.dimension
  BY <1>2, <1>3, ModelFacts
<1>6. \A k \in DOMAIN inputs : Compatible(inputs[k])
  BY <1>1, <1>3 DEF FeatureInv
<1> QED BY <1>1, <1>2, <1>3, <1>4, <1>5, <1>6

(* The terms the plain evaluator adds up.                                  *)
LEMMA PlainFacts ==
    ASSUME IInv, pc \in {"weigh", "activate", "decrypt"},
           model.coefficients # NoBlock, NEW s \in 1 .. Len(batch)
    PROVE  /\ model.coefficients \in Seq(Int) /\ Len(model.coefficients) = 3
           /\ PlainLinear(model, batch[s]) \in Int
           /\ PlainTerms(model, batch[s]) \in Seq(Int)
           /\ Len(PlainTerms(model, batch[s])) = 3
           /\ \A k \in 1 .. 3 :
                 PlainTerms(model, batch[s])[k] =
                     IF model.coefficients[k] = 0 THEN 0
                     ELSE model.coefficients[k] * Pow(PlainLinear(model, batch[s]), k - 1)
<1> DEFINE C == model.coefficients
           L == PlainLinear(model, batch[s])
           terms == PlainTerms(model, batch[s])
<1>1. model \in Models /\ batch[s] \in Seq(Int) /\ Len(batch[s]) = Len(model.weights)
  BY RunFacts, RequestFacts
<1>2. C \in Seq(Int) /\ Len(C) = 3 /\ model.bias \in Int
  BY <1>1, ModelFacts
<1>3. L \in Int
  <2>1. /\ Weighted(model, batch[s]) \in Seq(Int)
        /\ Len(Weighted(model, batch[s])) = Len(model.weights)
    BY <1>1, RunFacts, WeightedFacts
  <2>2. Sums(Weighted(model, batch[s]))[Len(model.weights)] \in Int
    <3>1. Len(model.weights) \in 0 .. Len(Weighted(model, batch[s]))
      BY <2>1, RunFacts
    <3> QED BY <2>1, <3>1, SumsUnfold
  <2> QED BY <1>2, <2>2 DEF PlainLinear
<1>4. terms = [k \in 1 .. 3 |-> IF C[k] = 0 THEN 0 ELSE C[k] * Pow(L, k - 1)]
  BY <1>2 DEF PlainTerms
<1> HIDE DEF C, L, terms
<1>5. ASSUME NEW k \in 1 .. 3
      PROVE  (IF C[k] = 0 THEN 0 ELSE C[k] * Pow(L, k - 1)) \in Int
  <2>1. C[k] \in Int
    <3>1. C \in Seq(Int) /\ k \in 1 .. Len(C)
      BY <1>2
    <3> QED BY <3>1
  <2>2. k - 1 \in Nat
    OBVIOUS
  <2>3. Pow(L, k - 1) \in Int
    BY <1>3, <2>2, PowType, Zenon
  <2> QED BY <2>1, <2>3
<1>6. terms \in Seq(Int) /\ Len(terms) = 3
  BY <1>4, <1>5
<1> QED BY <1>2, <1>3, <1>4, <1>6 DEF C, L, terms

(* The term of one turn, as the evaluator gets it.                         *)
LEMMA TermFacts ==
    ASSUME IInv, Activate, model.coefficients[turn + 1] # 0
    PROVE  LET c == model.coefficients[turn + 1]
               x == Term(turn, c)
           IN  /\ x \in Values
               /\ x.cipher <=> turn # 0
               /\ x.depth <= IF turn = 2 THEN 3 ELSE 2
               /\ \A s \in 1 .. Len(batch) :
                     x.slots[s] = c * Pow(PlainLinear(model, batch[s]), turn)
<1> DEFINE c == model.coefficients[turn + 1]
           x == Term(turn, c)
<1>1. pc = "activate" /\ turn < Len(model.coefficients)
  BY DEF Activate
<1>2. /\ c \in Int /\ linear \in Values /\ Len(model.coefficients) = 3
      /\ model.coefficients # NoBlock /\ turn \in Nat
      /\ linear.cipher /\ linear.depth = 1
  BY <1>1, LoopFacts DEF IInv, TypeOK, LinearInv, ResultInv
<1>3. turn \in {0, 1, 2}
  BY <1>1, <1>2
<1>4. x \in Values
  BY <1>2, TermType
<1>5. ASSUME NEW s \in 1 .. Len(batch)
      PROVE  s \in 1 .. Slots /\ linear.slots[s] = PlainLinear(model, batch[s])
             /\ linear.slots[s] \in Int
  <2>1. Len(batch) \in Nat /\ Len(batch) <= Slots
    BY <1>1, RunFacts
  <2>2. linear.slots[s] = PlainLinear(model, batch[s])
    BY <1>1 DEF IInv, LinearInv
  <2>3. PlainLinear(model, batch[s]) \in Int
    BY <1>1, <1>2, PlainFacts
  <2> QED BY <2>1, <2>2, <2>3, SlotAssumption
<1> HIDE DEF c
<1>6. CASE turn = 0
  <2>1. x = Number(c)
    BY <1>6 DEF Term
  <2>2. ~x.cipher /\ x.depth = 0
    BY <2>1 DEF Number
  <2>3. ASSUME NEW s \in 1 .. Len(batch)
        PROVE  x.slots[s] = c * Pow(PlainLinear(model, batch[s]), turn)
    <3>1. x.slots[s] = c
      BY <1>5, <2>1 DEF Number
    <3> QED BY <1>2, <1>6, <3>1 DEF Pow
  <2> QED BY <1>4, <1>6, <2>2, <2>3 DEF c
<1>7. CASE turn = 1
  <2>1. x = Times(linear, c)
    BY <1>7 DEF Term
  <2>2. x.cipher /\ x.depth = 2
    BY <1>2, <2>1 DEF Times
  <2>3. ASSUME NEW s \in 1 .. Len(batch)
        PROVE  x.slots[s] = c * Pow(PlainLinear(model, batch[s]), turn)
    <3>1. x.slots[s] = linear.slots[s] * c
      BY <1>5, <2>1 DEF Times
    <3> QED BY <1>2, <1>5, <1>7, <3>1 DEF Pow
  <2> QED BY <1>4, <1>7, <2>2, <2>3 DEF c
<1>8. CASE turn = 2
  <2> DEFINE p == Power(linear, 2)
  <2>1. p.cipher /\ p.depth = 2
    BY <1>2 DEF Power
  <2>2. \A s \in 1 .. Len(batch) :
           p.slots[s] = Pow(PlainLinear(model, batch[s]), 2)
    BY <1>5 DEF Power
  <2> HIDE DEF p
  <2>3. CASE c = 1
    <3>1. x = p
      BY <1>8, <2>3 DEF Term, p
    <3>2. ASSUME NEW s \in 1 .. Len(batch)
          PROVE  x.slots[s] = c * Pow(PlainLinear(model, batch[s]), turn)
      <4>1. Pow(PlainLinear(model, batch[s]), 2) \in Int
        BY <1>5, PowType
      <4> QED BY <1>8, <2>2, <2>3, <3>1, <4>1
    <3> QED BY <1>4, <1>8, <2>1, <3>1, <3>2 DEF c
  <2>4. CASE c # 1
    <3>1. x = Times(p, c)
      BY <1>8, <2>4 DEF Term, p
    <3>2. x.cipher /\ x.depth = 3
      BY <2>1, <3>1 DEF Times
    <3>3. ASSUME NEW s \in 1 .. Len(batch)
          PROVE  x.slots[s] = c * Pow(PlainLinear(model, batch[s]), turn)
      <4>1. x.slots[s] = p.slots[s] * c
        BY <1>5, <3>1 DEF Times
      <4>2. Pow(PlainLinear(model, batch[s]), 2) \in Int
        BY <1>5, PowType
      <4> QED BY <1>2, <1>8, <2>2, <4>1, <4>2
    <3> QED BY <1>4, <1>8, <3>2, <3>3 DEF c
  <2> QED BY <2>3, <2>4
<1> QED BY <1>3, <1>6, <1>7, <1>8
(* One turn of the loop over the coefficients.                             *)
LEMMA ActivateFacts ==
    ASSUME IInv, Activate
    PROVE  /\ model.coefficients # NoBlock /\ Len(model.coefficients) = 3
           /\ turn \in 0 .. 2 /\ pc = "activate" /\ pc' = "activate" /\ turn' = turn + 1
<1>1. /\ pc = "activate" /\ pc' = "activate" /\ turn' = turn + 1
      /\ turn < Len(model.coefficients)
  BY DEF Activate
<1>2. Len(model.coefficients) = 3
  BY <1>1, LoopFacts
<1>3. model.coefficients # NoBlock /\ turn \in Nat
  BY <1>1 DEF IInv, ResultInv, TypeOK
<1>4. turn \in 0 .. 2
  BY <1>1, <1>2, <1>3
<1> QED BY <1>1, <1>2, <1>3, <1>4

LEMMA ActivateBytes ==
    ASSUME IInv, Activate
    PROVE  HasBytes' <=> \E k \in 2 .. turn + 1 : model.coefficients[k] # 0
<1> DEFINE c == model.coefficients[turn + 1]
           x == Term(turn, c)
<1>1. /\ turn \in 0 .. 2
      /\ result' = IF c = 0 THEN result ELSE Join(result, x)
  BY ActivateFacts DEF Activate
<1>2. HasBytes <=> \E k \in 2 .. turn : model.coefficients[k] # 0
  BY ActivateFacts DEF IInv, ResultInv
<1> HIDE DEF x
<1>3. CASE c = 0
  <2>1. HasBytes' <=> HasBytes
    BY <1>1, <1>3 DEF HasBytes
  <2> QED BY <1>1, <1>2, <1>3, <2>1
<1>4. CASE c # 0
  <2>1. x \in Values /\ (x.cipher <=> turn # 0)
    BY <1>4, TermFacts DEF x
  <2>2. result' = Join(result, x)
    BY <1>1, <1>4
  <2>3. result \in Values \cup {None}
    BY DEF IInv, TypeOK
  <2>4. result' # None
    BY <2>1, <2>2, <2>3, JoinType, MarkerAssumption
  <2>5. result'.cipher <=> HasBytes \/ x.cipher
    BY <2>2, Zenon DEF Join, Plus, HasBytes
  <2>6. HasBytes' <=> HasBytes \/ turn # 0
    BY <2>1, <2>4, <2>5 DEF HasBytes
  <2> QED BY <1>1, <1>2, <1>4, <2>6
<1> QED BY <1>3, <1>4

LEMMA ActivateNone ==
    ASSUME IInv, Activate
    PROVE  result' = None <=> \A k \in 1 .. turn + 1 : model.coefficients[k] = 0
<1> DEFINE c == model.coefficients[turn + 1]
           x == Term(turn, c)
<1>1. /\ turn \in 0 .. 2
      /\ result' = IF c = 0 THEN result ELSE Join(result, x)
  BY ActivateFacts DEF Activate
<1>2. result = None <=> \A k \in 1 .. turn : model.coefficients[k] = 0
  BY ActivateFacts DEF IInv, ResultInv
<1> HIDE DEF x
<1>3. CASE c = 0
  BY <1>1, <1>2, <1>3
<1>4. CASE c # 0
  <2>1. x \in Values
    BY <1>4, TermFacts DEF x
  <2>2. result' = Join(result, x) /\ result \in Values \cup {None}
    BY <1>1, <1>4 DEF IInv, TypeOK
  <2>3. result' # None
    BY <2>1, <2>2, JoinType, MarkerAssumption
  <2> QED BY <1>1, <1>4, <2>3
<1> QED BY <1>3, <1>4

LEMMA ActivateSlot ==
    ASSUME IInv, Activate, NEW s \in 1 .. Len(batch)
    PROVE  Sums(PlainTerms(model, batch[s]))[turn + 1] =
               IF result' = None THEN 0 ELSE result'.slots[s]
<1> DEFINE c == model.coefficients[turn + 1]
           x == Term(turn, c)
           terms == PlainTerms(model, batch[s])
           L == PlainLinear(model, batch[s])
<1>1. /\ turn \in 0 .. 2 /\ turn + 1 \in 1 .. 3
      /\ result' = IF c = 0 THEN result ELSE Join(result, x)
  BY ActivateFacts DEF Activate
<1>2. /\ terms \in Seq(Int) /\ Len(terms) = 3
      /\ terms[turn + 1] = IF c = 0 THEN 0 ELSE c * Pow(L, turn)
  <2>1. (turn + 1) - 1 = turn
    BY <1>1
  <2> QED BY <1>1, <2>1, ActivateFacts, PlainFacts
<1>3. Sums(terms)[turn] = IF result = None THEN 0 ELSE result.slots[s]
  BY ActivateFacts DEF IInv, ResultInv, Sofar
<1>4. s \in 1 .. Slots
  BY ActivateFacts, RunFacts, SlotAssumption
<1>5. result \in Values \cup {None}
  BY DEF IInv, TypeOK
<1>6. c # 0 => x \in Values /\ x.slots[s] = c * Pow(L, turn)
  BY TermFacts
<1> HIDE DEF terms, x, L, c
<1>7. /\ Sums(terms)[turn + 1] = Sums(terms)[turn] + terms[turn + 1]
      /\ Sums(terms)[turn] \in Int /\ terms[turn + 1] \in Int
  <2>1. (turn + 1) - 1 = turn /\ turn \in 0 .. 3
    BY <1>1
  <2>2. turn + 1 \in 1 .. Len(terms) /\ turn \in 0 .. Len(terms)
    BY <1>1, <1>2
  <2>3. terms[turn + 1] \in Int
    <3>1. ASSUME NEW t \in Seq(Int), NEW k \in 1 .. Len(t) PROVE t[k] \in Int
      OBVIOUS
    <3> QED BY <1>2, <2>2, <3>1
  <2>4. Sums(terms)[turn + 1] = Sums(terms)[(turn + 1) - 1] + terms[turn + 1]
    BY <1>2, <2>2, SumsUnfold, Zenon
  <2>5. Sums(terms)[turn] \in Int
    BY <1>2, <2>2, SumsUnfold, Zenon
  <2> QED BY <2>1, <2>3, <2>4, <2>5
<1>8. CASE c = 0
  <2>1. result' = result /\ terms[turn + 1] = 0
    BY <1>1, <1>2, <1>8
  <2>2. Sums(terms)[turn + 1] = Sums(terms)[turn]
    BY <1>7, <2>1
  <2> QED BY <1>3, <2>1, <2>2, Zenon DEF terms
<1>9. CASE c # 0
  <2>1. result' = Join(result, x) /\ x \in Values /\ x.slots[s] = terms[turn + 1]
    BY <1>1, <1>2, <1>6, <1>9
  <2>2. result' # None
    BY <1>5, <2>1, JoinType, MarkerAssumption
  <2>3. CASE result = None
    <3>1. result' = x
      BY <2>1, <2>3 DEF Join
    <3>2. Sums(terms)[turn + 1] = terms[turn + 1]
      BY <1>3, <1>7, <2>3
    <3> QED BY <2>1, <2>2, <3>1, <3>2, Zenon DEF terms
  <2>4. CASE result # None
    <3>1. result'.slots[s] = result.slots[s] + x.slots[s]
      BY <1>4, <2>1, <2>4 DEF Join, Plus
    <3>2. Sums(terms)[turn + 1] = result'.slots[s]
      BY <1>3, <1>7, <2>1, <2>4, <3>1
    <3> QED BY <2>2, <3>2, Zenon DEF terms
  <2> QED BY <2>3, <2>4
<1> QED BY <1>8, <1>9

LEMMA ActivateDepth ==
    ASSUME IInv, Activate, result' # None
    PROVE  result'.depth <= RequiredDepth(model.coefficients) + 1
<1> DEFINE c == model.coefficients[turn + 1]
           x == Term(turn, c)
           bound == RequiredDepth(model.coefficients) + 1
<1>1. /\ turn \in 0 .. 2
      /\ result' = IF c = 0 THEN result ELSE Join(result, x)
  BY ActivateFacts DEF Activate
<1>2. result # None => result.depth <= bound
  BY DEF IInv, DepthInv
<1>3. CASE c = 0
  BY <1>1, <1>2, <1>3
<1>4. CASE c # 0
  <2>1. x \in Values /\ x.depth <= (IF turn = 2 THEN 3 ELSE 2)
    BY <1>4, TermFacts
  <2>2. bound \in {2, 3} /\ (turn = 2 => bound = 3)
    BY <1>1, <1>4 DEF RequiredDepth
  <2>3. x.depth <= bound
    <3>1. x.depth \in Nat
      BY <2>1, ValueFields
    <3> HIDE DEF x, bound
    <3> QED BY <1>1, <2>1, <2>2, <3>1
  <2> HIDE DEF x, bound
  <2>4. result' = x \/ (result # None /\ result' = Plus(result, x))
    BY <1>1, <1>4 DEF Join
  <2>5. CASE result # None /\ result' = Plus(result, x)
    <3>1. result'.depth = Deeper(result, x)
      BY <2>5, Zenon DEF Plus
    <3> QED BY <1>2, <2>3, <2>5, <3>1 DEF Deeper, bound
  <2> QED BY <2>3, <2>4, <2>5 DEF bound
<1> QED BY <1>3, <1>4
LEMMA ResultStep ==
    ASSUME IInv, Next
    PROVE  ResultInv'
<1>1. TypeOK /\ ResultInv /\ LinearInv /\ turn \in Nat
  BY DEF IInv, TypeOK
<1>2. ASSUME NEW r \in Requests, Ask(r) PROVE ResultInv'
  BY <1>1, <1>2 DEF Ask, ResultInv
<1>3. ASSUME NEW k \in DOMAIN inputs, Damage(k) PROVE ResultInv'
  BY <1>1, <1>3 DEF Damage, ResultInv
<1>4. ASSUME Step PROVE model' = model /\ batch' = batch
  BY <1>1, <1>4, SameRequest, Frame
<1>5. CASE AddBias
  <2>1. /\ pc = "weigh" /\ pc' = "activate" /\ turn' = 0 /\ result' = None
        /\ model.coefficients # NoBlock
    BY <1>1, <1>5 DEF AddBias, ResultInv
  <2>2. ~HasBytes'
    BY <2>1 DEF HasBytes
  <2>3. \A s \in 1 .. Len(batch) :
           PlainTerms(model, batch[s]) \in Seq(Int) /\ Len(model.coefficients) = 3
    BY <2>1, PlainFacts
  <2>4. \A s \in 1 .. Len(batch) : Sums(PlainTerms(model, batch[s]))[0] = 0
    BY <2>3, SumsUnfold
  <2>5. Len(model.coefficients) = 3
    <3>1. 1 \in 1 .. Len(batch)
      BY <2>1, RunFacts
    <3> QED BY <2>3, <3>1
  <2>6. \A s \in 1 .. Len(batch)' : Sofar(s)' = 0
    BY <1>4, <1>5, <2>1, <2>4 DEF Sofar, Step
  <2>7. result' = None <=> \A k \in 1 .. turn' : model.coefficients[k] = 0
    BY <2>1
  <2> QED BY <1>4, <1>5, <2>1, <2>2, <2>5, <2>6, <2>7 DEF ResultInv, Step
<1>6. CASE Activate
  <2>1. /\ pc' = "activate" /\ turn' = turn + 1 /\ turn \in 0 .. 2
        /\ model.coefficients # NoBlock /\ Len(model.coefficients) = 3
    BY <1>6, ActivateFacts
  <2>2. HasBytes' <=> \E k \in 2 .. turn' : model.coefficients[k] # 0
    BY <1>6, <2>1, ActivateBytes
  <2>3. \A s \in 1 .. Len(batch) :
           Sofar(s)' = IF result' = None THEN 0 ELSE result'.slots[s]
    BY <1>4, <1>6, <2>1, ActivateSlot DEF Sofar, Step
  <2>4. result' = None <=> \A k \in 1 .. turn' : model.coefficients[k] = 0
    BY <1>6, <2>1, ActivateNone
  <2> QED BY <1>4, <1>6, <2>1, <2>2, <2>3, <2>4 DEF ResultInv, Step
<1>7. CASE Respond
  <2>1. /\ pc = "activate" /\ pc' = "decrypt" /\ turn' = turn /\ result' = result
        /\ turn = Len(model.coefficients) /\ HasBytes
    BY <1>7 DEF Respond
  <2>2. HasBytes' = HasBytes /\ \A s : Sofar(s)' = Sofar(s)
    BY <1>4, <1>7, <2>1 DEF HasBytes, Sofar, Step
  <2> QED BY <1>1, <1>4, <1>7, <2>1, <2>2 DEF ResultInv, Step
<1>8. CASE Step /\ ~AddBias /\ ~Activate /\ ~Respond
  <2>1. /\ result' = result
        /\ pc' \in {"idle", "encrypt", "validate", "weigh"} =>
              pc \in {"idle", "encrypt", "validate", "weigh"}
        /\ pc' \notin {"activate", "decrypt"}
    BY <1>8 DEF Step, EncryptColumn, EncryptionFails, Validate, Invalid, Begin,
       BeginFails, Weigh, NoActivation, RespondByte, NothingToRespond, Decrypt, End
  <2> QED BY <1>1, <2>1 DEF ResultInv
<1> QED BY <1>2, <1>3, <1>5, <1>6, <1>7, <1>8 DEF Next

LEMMA DepthStep ==
    ASSUME IInv, Next
    PROVE  DepthInv'
<1>1. TypeOK /\ DepthInv /\ ResultInv
  BY DEF IInv
<1>2. ASSUME NEW r \in Requests, Ask(r) PROVE DepthInv'
  BY <1>1, <1>2 DEF Ask, DepthInv, ResultInv
<1>3. ASSUME NEW k \in DOMAIN inputs, Damage(k) PROVE DepthInv'
  BY <1>1, <1>3 DEF Damage, DepthInv, ResultInv
<1>4. ASSUME Step PROVE model' = model /\ pc' # "idle"
  <2>1. pc' # "idle"
    BY <1>4 DEF Step, EncryptColumn, EncryptionFails, Validate, Invalid, Begin,
       BeginFails, Weigh, AddBias, NoActivation, Activate, Respond,
       RespondByte, NothingToRespond, Decrypt, End
  <2> QED BY <1>1, <1>4, <2>1, SameRequest, Frame
<1>5. CASE Activate
  <2>1. model.coefficients # NoBlock
    BY <1>5, ActivateFacts
  <2> QED BY <1>4, <1>5, <2>1, ActivateDepth DEF DepthInv, Asked, Step
<1>6. CASE Step /\ ~Activate
  <2>1. result' = result
    BY <1>6 DEF Step, EncryptColumn, EncryptionFails, Validate, Invalid, Begin,
       BeginFails, Weigh, AddBias, NoActivation, Respond, RespondByte, NothingToRespond, Decrypt
  <2> QED BY <1>1, <1>4, <1>6, <2>1 DEF DepthInv, Asked
<1> QED BY <1>2, <1>3, <1>5, <1>6 DEF Next

(* Nothing happens after the end, and nothing ends without an outcome.     *)
LEMMA EndStep ==
    ASSUME IInv, Next
    PROVE  EndInv' /\ outcome = "none"
<1>1. EndInv
  BY DEF IInv
<1>2. pc # "over"
  BY DEF Next, Step, Ask, Damage, EncryptColumn, EncryptionFails, Validate, Invalid,
     Begin, BeginFails, Weigh, AddBias, NoActivation, Activate, Respond,
     RespondByte, NothingToRespond, Decrypt
<1>3. outcome = "none"
  BY <1>1, <1>2 DEF EndInv
<1>4. \/ pc' # "over" /\ outcome' = outcome
      \/ pc' = "over" /\ outcome' # "none"
  <2>1. CASE EncryptColumn
    BY <2>1 DEF EncryptColumn
  <2> QED
    BY <1>2, <2>1 DEF Next, Step, Ask, Damage, EncryptionFails, Validate, Invalid,
       Begin, BeginFails, Weigh, AddBias, NoActivation, Activate, Respond,
       RespondByte, NothingToRespond, Decrypt, End
<1> QED BY <1>3, <1>4 DEF EndInv

LEMMA AgreesStep ==
    ASSUME IInv, Next
    PROVE  AgreesWithPlain'
<1>1. CASE outcome' # "returned"
  BY <1>1 DEF AgreesWithPlain
<1>2. CASE outcome' = "returned"
  <2>1. Decrypt
    BY <1>2, EndStep
    DEF Next, Step, Ask, Damage, EncryptColumn, EncryptionFails, Validate, Invalid,
        Begin, BeginFails, Weigh, AddBias, NoActivation, Activate, Respond,
        RespondByte, NothingToRespond, End
  <2>2. model' = model /\ batch' = batch
    BY <2>1, SameRequest, Frame DEF IInv, Step
  <2>3. /\ pc = "decrypt" /\ turn = Len(model.coefficients) /\ HasBytes
        /\ \A s \in 1 .. Len(batch) : Sofar(s) = result.slots[s]
    BY <2>1 DEF Decrypt, IInv, ResultInv, HasBytes
  <2>4. \A s \in 1 .. Len(batch) : result.slots[s] = PlainOutput(model, batch[s])
    BY <2>3 DEF Sofar, PlainOutput
  <2>5. outputs' = [s \in 1 .. Len(batch) |-> result.slots[s]]
    BY <2>1 DEF Decrypt
  <2> QED BY <2>2, <2>4, <2>5 DEF AgreesWithPlain
<1> QED BY <1>1, <1>2

----------------------------------------------------------------------------
(* The logistic model's polynomial of a linear score.                      *)
PolynomialAt(c, z) == c[1] + c[2] * z + c[3] * (z * z)

(* The loop over the coefficients of the plain evaluator, which skips the  *)
(* zeros, evaluates the polynomial.                                        *)
LEMMA PlainIsPolynomial ==
    ASSUME NEW m \in Models, m.weights # NoBlock, m.coefficients # NoBlock,
           NEW row \in Seq(Int), Len(row) = m.dimension
    PROVE  PlainOutput(m, row) = PolynomialAt(m.coefficients, PlainLinear(m, row))
<1> DEFINE C == m.coefficients
           L == PlainLinear(m, row)
           terms == PlainTerms(m, row)
<1>1. /\ m.weights \in Seq(Int) /\ Len(m.weights) = m.dimension
      /\ C \in Seq(Int) /\ Len(C) = 3 /\ m.bias \in Int
  BY ModelFacts
<1>2. C[1] \in Int /\ C[2] \in Int /\ C[3] \in Int
  <2>1. /\ 1 \in 1 .. Len(C) /\ 2 \in 1 .. Len(C) /\ 3 \in 1 .. Len(C)
        /\ C \in Seq(Int)
    BY <1>1
  <2> HIDE DEF C
  <2> QED BY <2>1
<1>3. L \in Int
  <2>1. /\ Weighted(m, row) \in Seq(Int)
        /\ Len(Weighted(m, row)) = Len(m.weights)
    BY <1>1, WeightedFacts
  <2>2. Len(m.weights) \in 0 .. Len(Weighted(m, row))
    BY <1>1, <2>1
  <2>3. Sums(Weighted(m, row))[Len(m.weights)] \in Int
    BY <2>1, <2>2, SumsUnfold
  <2> QED BY <1>1, <2>3 DEF PlainLinear
<1>4. terms = [k \in 1 .. 3 |-> IF C[k] = 0 THEN 0 ELSE C[k] * Pow(L, k - 1)]
  BY <1>1 DEF PlainTerms
<1>5. PlainOutput(m, row) = Sums(terms)[3]
  BY <1>1 DEF PlainOutput
<1> HIDE DEF C, L, terms
<1>6. L * L \in Int
  BY <1>3
<1>7. /\ terms[1] = C[1] /\ terms[2] = C[2] * L /\ terms[3] = C[3] * (L * L)
      /\ terms[1] \in Int /\ terms[2] \in Int /\ terms[3] \in Int
  <2>1. Pow(L, 0) = 1 /\ Pow(L, 1) = L /\ Pow(L, 2) = L * L
    BY DEF Pow
  <2>2. /\ terms[1] = IF C[1] = 0 THEN 0 ELSE C[1] * Pow(L, 0)
        /\ terms[2] = IF C[2] = 0 THEN 0 ELSE C[2] * Pow(L, 1)
        /\ terms[3] = IF C[3] = 0 THEN 0 ELSE C[3] * Pow(L, 2)
    BY <1>4
  <2>3. terms[1] = C[1]
    BY <1>2, <2>1, <2>2
  <2>4. terms[2] = C[2] * L
    BY <1>2, <1>3, <2>1, <2>2
  <2>5. terms[3] = C[3] * (L * L)
    <3> DEFINE q == L * L
    <3>1. q \in Int /\ terms[3] = IF C[3] = 0 THEN 0 ELSE C[3] * q
      BY <1>6, <2>1, <2>2
    <3> HIDE DEF q
    <3>2. terms[3] = C[3] * q
      BY <1>2, <3>1
    <3> QED BY <3>2 DEF q
  <2> QED BY <1>2, <1>3, <1>6, <2>3, <2>4, <2>5
<1>8. terms \in Seq(Int) /\ Len(terms) = 3
  <2>1. \A k \in 1 .. 3 : terms[k] \in Int
    BY <1>7
  <2> QED BY <1>4, <2>1
<1>9. /\ Sums(terms)[0] = 0
      /\ Sums(terms)[1] = Sums(terms)[0] + terms[1]
      /\ Sums(terms)[2] = Sums(terms)[1] + terms[2]
      /\ Sums(terms)[3] = Sums(terms)[2] + terms[3]
  <2>1. \A k \in 1 .. 3 : Sums(terms)[k] = Sums(terms)[k - 1] + terms[k]
    BY <1>8, SumsUnfold
  <2> QED BY <1>8, <2>1, SumsUnfold
<1>10. Sums(terms)[3] = terms[1] + terms[2] + terms[3]
  BY <1>7, <1>9
<1> QED BY <1>5, <1>7, <1>10 DEF PolynomialAt, C, L

(* What is left when there is no ciphertext to respond with: the constant  *)
(* coefficient, or nothing if that is zero too.                            *)
LEMMA ConstantResult ==
    ASSUME IInv, pc = "activate", turn = Len(model.coefficients), ~HasBytes
    PROVE  /\ ~Varies(model.coefficients) /\ model.coefficients # NoBlock
           /\ result = None <=> model.coefficients[1] = 0
           /\ result # None => result.slots[1] = model.coefficients[1]
<1> DEFINE C == model.coefficients
<1>1. /\ TypeOK /\ Asked /\ model \in Models /\ model.weights # NoBlock
      /\ 1 \in 1 .. Len(batch) /\ batch[1] \in Seq(Int)
      /\ Len(batch[1]) = model.dimension
  BY RunFacts, RequestFacts
<1>2. /\ C # NoBlock /\ C \in Seq(Int) /\ Len(C) = 3 /\ turn = 3
      /\ PlainLinear(model, batch[1]) \in Int
  BY <1>1, PlainFacts DEF IInv, ResultInv
<1>3. /\ C[1] \in Int /\ C[2] = 0 /\ C[3] = 0
      /\ result = None <=> C[1] = 0
  BY <1>2 DEF IInv, ResultInv
<1>4. Sofar(1) = IF result = None THEN 0 ELSE result.slots[1]
  BY <1>1 DEF IInv, ResultInv
<1>5. Sofar(1) = PlainOutput(model, batch[1])
  BY DEF Sofar, PlainOutput
<1>6. Sofar(1) = PolynomialAt(C, PlainLinear(model, batch[1]))
  BY <1>1, <1>2, <1>5, PlainIsPolynomial
<1>7. Sofar(1) = C[1]
  <2> DEFINE L == PlainLinear(model, batch[1])
             Q == L * L
  <2>1. L \in Int /\ Q \in Int
    BY <1>2
  <2>2. Sofar(1) = C[1] + C[2] * L + C[3] * Q
    BY <1>6 DEF PolynomialAt
  <2> HIDE DEF L, Q, C
  <2>3. C[2] * L = 0 /\ C[3] * Q = 0
    BY <1>3, <2>1
  <2> QED BY <1>3, <2>2, <2>3
<1> QED BY <1>2, <1>3, <1>4, <1>7 DEF Varies

LEMMA CauseStep ==
    ASSUME IInv, Next
    PROVE  OutcomeHasCause'
<1>1. /\ TypeOK /\ InputInv /\ ResultInv /\ outcome = "none"
      /\ inputs \in Seq(Payloads) /\ features \in Seq(Values)
  BY EndStep DEF IInv, TypeOK
<1>2. CASE outcome' = "none"
  BY <1>2 DEF OutcomeHasCause
<1>3. ASSUME Step
      PROVE  /\ Asked /\ model' = model /\ batch' = batch /\ Width' = Width
             /\ \A payload : Compatible(payload)' = Compatible(payload)
             /\ inputs' = inputs => Verdict' = Verdict
  BY <1>1, <1>3, SameRequest, Frame DEF Incomplete, Varies, Verdict
<1>4. CASE EncryptionFails
  <2>1. outcome' = "notEncrypted" /\ inputs' = inputs /\ Verdict = "notEncrypted"
    BY <1>4 DEF EncryptionFails, End, Verdict
  <2> QED BY <1>3, <1>4, <2>1 DEF OutcomeHasCause, Step
<1>5. CASE Invalid
  <2>1. /\ outcome' = "invalid" /\ inputs' = inputs
        /\ inputs # <<>> /\ \E k \in DOMAIN inputs : ~Compatible(inputs[k])
    BY <1>1, <1>5 DEF Invalid, End
  <2>2. ~(Len(batch) > Slots)
    BY <1>1, <1>3, <1>5, <2>1, RequestFacts, SlotAssumption DEF InputInv, Step
  <2>3. Verdict = "invalid"
    BY <2>1, <2>2 DEF Verdict
  <2> QED BY <1>3, <1>5, <2>1, <2>3 DEF OutcomeHasCause, Step
<1>f. ASSUME Step, outcome' = "failed", inputs' = inputs, Len(batch) <= Slots,
             \A k \in DOMAIN inputs : Compatible(inputs[k]),
             Incomplete(model) \/ Width # model.dimension
      PROVE  OutcomeHasCause'
  <2>1. ~(Len(batch) > Slots)
    BY <1>1, <1>3, <1>f, RequestFacts, SlotAssumption
  <2>2. Verdict = "failed"
    BY <1>f, <2>1 DEF Verdict
  <2> QED BY <1>3, <1>f, <2>2 DEF OutcomeHasCause
<1>6. CASE BeginFails
  <2>1. /\ outcome' = "failed" /\ inputs' = inputs /\ pc = "validate"
        /\ Len(features) = Width /\ Len(features) = Len(inputs) /\ ~OnePerWeight
    BY <1>1, <1>6 DEF BeginFails, End, InputInv
  <2>2. model \in Models /\ Width \in Nat \ {0}
    BY <1>1, <1>3, <1>6, RequestFacts DEF Step
  <2>3. Incomplete(model) \/ Width # model.dimension
    <3>1. model.weights # NoBlock => Len(model.weights) = model.dimension
      BY <2>2, ModelFacts
    <3> QED BY <2>1, <3>1 DEF OnePerWeight, Incomplete
  <2>4. Len(batch) <= Slots
    BY <1>1, <2>1, <2>2 DEF InputInv
  <2>5. \A k \in DOMAIN inputs : Compatible(inputs[k])
    BY <1>1, <2>1 DEF IInv, FeatureInv
  <2> QED BY <1>6, <1>f, <2>1, <2>3, <2>4, <2>5 DEF Step
<1>7. CASE NoActivation
  <2>1. outcome' = "failed" /\ inputs' = inputs /\ pc = "weigh" /\ Incomplete(model)
    BY <1>7 DEF NoActivation, End, Incomplete
  <2> QED BY <1>7, <1>f, <2>1, RunFacts DEF Step
<1>8. CASE NothingToRespond \/ RespondByte
  <2>1. /\ inputs' = inputs /\ ~HasBytes
        /\ pc = "activate" /\ turn = Len(model.coefficients)
        /\ outcome' = IF OneByte THEN "unreadable" ELSE "failed"
    BY <1>8 DEF NothingToRespond, RespondByte, End, OneByte, HasBytes
  <2>2. /\ ~Varies(model.coefficients) /\ ~Incomplete(model)
        /\ Width = model.dimension /\ ~(Len(batch) > Slots)
        /\ \A k \in DOMAIN inputs : Compatible(inputs[k])
    BY <2>1, ConstantResult, RunFacts, SlotAssumption DEF Incomplete
  <2>3. OneByte <=> model.literal /\ model.coefficients[1] \in 1 .. 255
    <3>1. model.coefficients[1] \in Int
      <4>1. model.coefficients \in Seq(Int) /\ Len(model.coefficients) = 3
        BY <1>1, <1>3, <1>8, <2>1, ConstantResult, RequestFacts, ModelFacts DEF Step
      <4> QED BY <4>1
    <3>2. /\ result = None <=> model.coefficients[1] = 0
          /\ result # None => result.slots[1] = model.coefficients[1]
      BY <2>1, ConstantResult
    <3>3. CASE result = None
      <4>1. ~OneByte /\ ~(model.coefficients[1] \in 1 .. 255)
        BY <3>2, <3>3 DEF OneByte
      <4> QED BY <4>1, Zenon
    <3>4. CASE result # None
      <4>1. OneByte <=> model.literal /\ model.coefficients[1] \in 0 .. 255
        BY <2>1, <3>2, <3>4, Zenon DEF OneByte, HasBytes
      <4>2. model.coefficients[1] \in 0 .. 255 <=> model.coefficients[1] \in 1 .. 255
        BY <3>1, <3>2, <3>4
      <4> QED BY <4>1, <4>2, Zenon
    <3> QED BY <3>3, <3>4
  <2>4. Verdict = IF OneByte THEN "unreadable" ELSE "failed"
    BY <2>2, <2>3 DEF Verdict
  <2> QED BY <1>3, <1>8, <2>1, <2>4 DEF OutcomeHasCause, Step
<1>9. CASE Decrypt
  <2>1. /\ outcome' = "returned" /\ inputs' = inputs /\ pc = "decrypt"
    BY <1>9 DEF Decrypt, End
  <2>2. /\ turn = Len(model.coefficients) /\ HasBytes
        /\ model.coefficients # NoBlock
        /\ \E k \in 2 .. turn : model.coefficients[k] # 0
    BY <1>1, <2>1 DEF ResultInv
  <2>3. turn = 3
    <3>1. model \in Models
      BY <1>1, <1>3, <1>9, RequestFacts DEF Step
    <3> QED BY <2>2, <3>1, ModelFacts
  <2>4. Varies(model.coefficients)
    BY <2>2, <2>3 DEF Varies
  <2>5. /\ ~Incomplete(model) /\ Width = model.dimension
        /\ \A k \in DOMAIN inputs : Compatible(inputs[k])
    BY <2>1, <2>2, RunFacts DEF Incomplete
  <2>6. ~(Len(batch) > Slots)
    BY <2>1, RunFacts, SlotAssumption
  <2>7. Verdict = "returned"
    BY <2>4, <2>5, <2>6 DEF Verdict
  <2> QED BY <1>3, <1>9, <2>1, <2>7 DEF OutcomeHasCause, Step
<1>10. outcome' = "none" \/ EncryptionFails \/ Invalid \/ BeginFails \/ NoActivation
       \/ RespondByte \/ NothingToRespond \/ Decrypt
  BY <1>1 DEF Next, Step, Ask, Damage, EncryptColumn, Validate, Begin, Weigh,
     AddBias, Activate, Respond
<1> QED BY <1>2, <1>4, <1>5, <1>6, <1>7, <1>8, <1>9, <1>10
----------------------------------------------------------------------------
(* Theorems.                                                               *)

LEMMA Inductive == Spec => []IInv
<1>1. IInv /\ [Next]_vars => IInv'
  <2> SUFFICES ASSUME IInv, [Next]_vars PROVE IInv'
    OBVIOUS
  <2>1. CASE Next
    BY <2>1, TypeStep, InputStep, FeatureStep, MatchStep, LinearStep, ResultStep,
       DepthStep, EndStep, AgreesStep, CauseStep DEF IInv
  <2>2. CASE UNCHANGED vars
    <3>1. /\ model' = model /\ batch' = batch /\ Width' = Width
          /\ \A k : Encrypted(Column(k))' = Encrypted(Column(k))
          /\ \A payload : Compatible(payload)' = Compatible(payload)
      BY <2>2, Frame DEF vars
    <3>2. TypeOK' /\ EndInv' /\ DepthInv' /\ AgreesWithPlain'
      BY <2>2, <3>1 DEF vars, IInv, TypeOK, EndInv, DepthInv, AgreesWithPlain, Asked
    <3>3. InputInv' /\ FeatureInv' /\ MatchInv'
      BY <2>2, <3>1 DEF vars, IInv, InputInv, FeatureInv, MatchInv, OnePerWeight
    <3>4. LinearInv' /\ ResultInv'
      BY <2>2, <3>1 DEF vars, IInv, LinearInv, ResultInv, HasBytes, Sofar
    <3>5. OutcomeHasCause'
      BY <2>2, <3>1 DEF vars, IInv, OutcomeHasCause, Verdict, Incomplete, Varies
    <3> QED BY <3>2, <3>3, <3>4, <3>5 DEF IInv
  <2> QED BY <2>1, <2>2
<1> QED BY InitIInv, <1>1, PTL DEF Spec

(* Every variable keeps its type through an evaluation, and what the       *)
(* server answers with is a ciphertext.                                    *)
THEOREM TypeCorrect == Spec => []TypeOK
BY Inductive, PTL DEF IInv

(* For models of any dimension and batches of any size, the numbers the    *)
(* caller decrypts are those the plain evaluator computes, in its order.   *)
THEOREM ResultsAgree == Spec => []AgreesWithPlain
BY Inductive, PTL DEF IInv

(* Whether an inference returns, and how it fails if it does not, follows  *)
(* from the batch, the ciphertexts and the model alone, by the guards of   *)
(* the session, the validation and the evaluator taken in that order.      *)
THEOREM OutcomesHaveCauses == Spec => []OutcomeHasCause
BY Inductive, PTL DEF IInv

(* No result is more than one level deeper than its model declares.        *)
THEOREM DepthIsBounded == Spec => []DepthBounded
<1>1. IInv => DepthBounded
  <2> SUFFICES ASSUME IInv, result # None PROVE result.depth <= model.depth + 1
    BY DEF DepthBounded
  <2>1. /\ Asked /\ model.coefficients # NoBlock
        /\ result.depth <= RequiredDepth(model.coefficients) + 1
        /\ result \in Values
    BY DEF IInv, DepthInv, TypeOK
  <2>2. model.depth \in Nat /\ model.depth >= RequiredDepth(model.coefficients)
    BY <2>1, RequestFacts, ModelFacts DEF IInv
  <2>3. RequiredDepth(model.coefficients) \in Nat /\ result.depth \in Nat
    BY <2>1, ValueFields DEF RequiredDepth
  <2> QED BY <2>1, <2>2, <2>3
<1> QED BY Inductive, <1>1, PTL
----------------------------------------------------------------------------
(* What the caller decrypts for a sample is the model's polynomial of the  *)
(* sample's own linear score, however the other samples of the batch look, *)
(* which coefficients the evaluator skips and whatever was multiplied slot *)
(* by slot.                                                                *)
THEOREM ReturnsThePolynomial ==
    Spec => [](outcome = "returned" =>
                 /\ DOMAIN outputs = 1 .. Len(batch)
                 /\ \A s \in 1 .. Len(batch) :
                       outputs[s] = PolynomialAt(model.coefficients,
                                                 PlainLinear(model, batch[s])))
<1>1. ASSUME IInv, outcome = "returned"
      PROVE  /\ DOMAIN outputs = 1 .. Len(batch)
             /\ \A s \in 1 .. Len(batch) :
                   outputs[s] = PolynomialAt(model.coefficients,
                                             PlainLinear(model, batch[s]))
  <2>1. /\ TypeOK /\ AgreesWithPlain /\ Verdict = "returned" /\ Asked
    BY <1>1 DEF IInv, OutcomeHasCause, EndInv, Asked
  <2>2. ~Incomplete(model) /\ Width = model.dimension
    BY <2>1 DEF Verdict
  <2>3. outputs = [s \in 1 .. Len(batch) |-> PlainOutput(model, batch[s])]
    BY <1>1, <2>1 DEF AgreesWithPlain
  <2>4. ASSUME NEW s \in 1 .. Len(batch)
        PROVE  PlainOutput(model, batch[s])
                 = PolynomialAt(model.coefficients, PlainLinear(model, batch[s]))
    <3>1. /\ model \in Models /\ batch[s] \in Seq(Int)
          /\ Len(batch[s]) = model.dimension
      BY <2>1, <2>2, RequestFacts
    <3>2. model.weights # NoBlock /\ model.coefficients # NoBlock
      BY <2>2 DEF Incomplete
    <3> QED BY <3>1, <3>2, PlainIsPolynomial
  <2> QED BY <2>3, <2>4
<1> QED BY <1>1, Inductive, PTL

----------------------------------------------------------------------------
(* Termination without fairness: there is always a next step, and every    *)
(* one leaves less to do.                                                  *)

(* What each place of the session, the route and the evaluator goes on     *)
(* with: the conditions of the actions of Step.                            *)
Ready ==
    \/ pc = "encrypt"
    \/ pc = "validate" /\ Len(features) < Len(inputs)
    \/ pc = "validate" /\ Len(features) = Len(inputs)
    \/ pc = "weigh" /\ turn < Len(model.weights) /\ turn + 1 \in DOMAIN features
    \/ pc = "weigh" /\ turn = Len(model.weights) /\ linear # None
    \/ pc = "activate" /\ turn < Len(model.coefficients) /\ linear # None
    \/ pc = "activate" /\ turn = Len(model.coefficients)
    \/ pc = "decrypt" /\ result # None /\ Len(batch) <= Slots

(* Steps that are left: one for each ciphertext to make and to validate,   *)
(* for each weight and each coefficient, and one out of each loop.         *)
Remaining ==
    CASE pc = "encrypt"  -> (Width - Len(inputs)) + Width + model.dimension + 8
      [] pc = "validate" -> (Width - Len(features)) + model.dimension + 7
      [] pc = "weigh"    -> (model.dimension - turn) + 6
      [] pc = "activate" -> (3 - turn) + 2
      [] pc = "decrypt"  -> 1
      [] OTHER           -> 0

(* What the rank counts with, and how far each loop has come.              *)
LEMMA RankFacts ==
    ASSUME IInv, Asked
    PROVE  /\ Width \in Nat \ {0} /\ model.dimension \in Nat \ {0}
           /\ Len(inputs) \in Nat /\ Len(features) \in Nat /\ turn \in Nat
           /\ pc = "encrypt" => Len(inputs) < Width
           /\ pc = "validate" => Len(inputs) = Width /\ Len(features) <= Width
           /\ pc = "weigh" =>
                 /\ turn <= Len(model.weights) /\ Len(model.weights) = model.dimension
                 /\ Len(features) = Len(model.weights)
                 /\ turn = Len(model.weights) => linear # None
           /\ pc = "activate" =>
                 /\ Len(model.coefficients) = 3 /\ turn <= 3 /\ linear # None
           /\ pc = "decrypt" => result # None /\ Len(batch) <= Slots
<1>1. TypeOK /\ inputs \in Seq(Payloads) /\ features \in Seq(Values) /\ turn \in Nat
  BY DEF IInv, TypeOK
<1>2. Width \in Nat \ {0} /\ model.dimension \in Nat \ {0} /\ model \in Models
  BY <1>1, RequestFacts, ModelFacts
<1>3. /\ pc = "encrypt" => Len(inputs) < Width
      /\ pc = "validate" => Len(inputs) = Width /\ Len(features) <= Width
  BY DEF IInv, InputInv, FeatureInv
<1>4. ASSUME pc = "weigh"
      PROVE  /\ turn <= Len(model.weights) /\ Len(model.weights) = model.dimension
             /\ Len(features) = Len(model.weights)
             /\ turn = Len(model.weights) => linear # None
  <2>1. /\ turn <= Len(model.weights)
        /\ linear = None <=> turn = 0
        /\ model.weights # NoBlock /\ Len(features) = Len(model.weights)
    BY <1>4 DEF IInv, LinearInv, MatchInv, OnePerWeight
  <2>2. Len(model.weights) = model.dimension
    BY <1>2, <2>1, ModelFacts
  <2> QED BY <1>2, <2>1, <2>2
<1>5. ASSUME pc = "activate"
      PROVE  Len(model.coefficients) = 3 /\ turn <= 3 /\ linear # None
  BY <1>2, <1>5, ModelFacts DEF IInv, LinearInv, ResultInv
<1>6. ASSUME pc = "decrypt" PROVE result # None /\ Len(batch) <= Slots
  BY <1>6, RunFacts DEF IInv, ResultInv, HasBytes
<1> QED BY <1>1, <1>2, <1>3, <1>4, <1>5, <1>6

(* An inference that has been asked for and is not over has a step to      *)
(* take, and what the step reads is there: the ciphertext of the turn, the *)
(* sum so far, the slots that are cut off.                                 *)
THEOREM InferenceNeverStuck ==
    Spec => [](Asked /\ pc # "over" => Ready /\ Remaining \in Nat \ {0})
<1>1. ASSUME IInv, Asked, pc # "over" PROVE Ready /\ Remaining \in Nat \ {0}
  <2>1. pc \in {"encrypt", "validate", "weigh", "activate", "decrypt"}
    BY <1>1 DEF IInv, TypeOK, Asked
  <2>2. CASE pc = "encrypt"
    BY <1>1, <2>2, RankFacts DEF Ready, Remaining
  <2>3. CASE pc = "validate"
    BY <1>1, <2>3, RankFacts DEF Ready, Remaining
  <2>4. CASE pc = "weigh"
    <3>1. turn < Len(model.weights) => turn + 1 \in DOMAIN features
      <4>1. features \in Seq(Values)
        BY <1>1 DEF IInv, TypeOK
      <4> QED BY <1>1, <2>4, <4>1, RankFacts
    <3> QED BY <1>1, <2>4, <3>1, RankFacts DEF Ready, Remaining
  <2>5. CASE pc = "activate"
    <3>1. Len(model.coefficients) = 3 /\ turn <= 3 /\ linear # None /\ turn \in Nat
      BY <1>1, <2>5, RankFacts
    <3>2. Ready
      BY <2>5, <3>1 DEF Ready
    <3>3. Remaining = (3 - turn) + 2
      BY <2>5 DEF Remaining
    <3> QED BY <3>1, <3>2, <3>3
  <2>6. CASE pc = "decrypt"
    BY <1>1, <2>6, RankFacts DEF Ready, Remaining
  <2> QED BY <2>1, <2>2, <2>3, <2>4, <2>5, <2>6
<1> QED BY <1>1, Inductive, PTL

(* Each step of an inference leaves fewer, an inference of n ciphertexts   *)
(* and a model of dimension d takes at most 2n + d + 8 of them, and damage *)
(* to a payload costs none: by its own steps no evaluation runs on.        *)
THEOREM InferenceMovesOn ==
    Spec => [][/\ Step => Remaining' < Remaining
               /\ \A r \in Requests : Ask(r) =>
                     Remaining' = 2 * Len(r.batch[1]) + r.model.dimension + 8
               /\ \A k \in DOMAIN inputs : Damage(k) => Remaining' = Remaining]_vars
<1>1. ASSUME IInv, Step PROVE Remaining' < Remaining
  <2>1. Asked /\ request' = request
    BY <1>1, SameRequest DEF IInv
  <2>2. model' = model /\ batch' = batch /\ Width' = Width
    BY <2>1, Frame
  <2>3. /\ inputs \in Seq(Payloads) /\ features \in Seq(Values)
    BY <1>1 DEF IInv, TypeOK
  <2>4. CASE EncryptColumn
    <3>1. /\ pc = "encrypt" /\ features' = features
          /\ inputs' = Append(inputs, Encrypted(Column(Len(inputs) + 1)))
          /\ pc' = IF Len(inputs') = Width' THEN "validate" ELSE "encrypt"
      BY <2>2, <2>4 DEF EncryptColumn
    <3>2. Len(inputs') = Len(inputs) + 1
      BY <2>3, <3>1
    <3>3. features = <<>>
      BY <1>1, <3>1 DEF IInv, InputInv
    <3>4. Len(features') = 0
      BY <3>1, <3>3
    <3> QED BY <1>1, <2>1, <2>2, <3>1, <3>2, <3>4, RankFacts DEF Remaining
  <2>5. CASE EncryptionFails \/ Invalid \/ BeginFails \/ NoActivation
             \/ RespondByte \/ NothingToRespond \/ Decrypt
    <3>1. pc' = "over" /\ pc \in {"encrypt", "validate", "weigh", "activate", "decrypt"}
      BY <2>5 DEF EncryptionFails, Invalid, BeginFails, NoActivation,
         RespondByte, NothingToRespond, Decrypt, End
    <3> QED BY <1>1, <2>1, <3>1, RankFacts DEF Remaining
  <2>6. CASE Validate
    <3>1. /\ pc = "validate" /\ pc' = pc
          /\ features' = Append(features, Loaded(inputs[Len(features) + 1]))
          /\ Len(features) < Len(inputs)
      BY <2>6 DEF Validate
    <3>2. Len(features') = Len(features) + 1
      BY <2>3, <3>1
    <3> QED BY <1>1, <2>1, <2>2, <3>1, <3>2, RankFacts DEF Remaining
  <2>7. CASE Begin
    <3>1. pc = "validate" /\ pc' = "weigh" /\ turn' = turn
      BY <2>7 DEF Begin
    <3>2. turn = 0
      BY <1>1, <3>1 DEF IInv, LinearInv
    <3> QED BY <1>1, <2>1, <2>2, <3>1, <3>2, RankFacts DEF Remaining
  <2>8. CASE Weigh
    <3>1. pc = "weigh" /\ pc' = pc /\ turn' = turn + 1 /\ turn < Len(model.weights)
      BY <2>8 DEF Weigh
    <3> QED BY <1>1, <2>1, <2>2, <3>1, RankFacts DEF Remaining
  <2>9. CASE AddBias
    <3>1. pc = "weigh" /\ pc' = "activate" /\ turn' = 0 /\ turn = Len(model.weights)
      BY <2>9 DEF AddBias
    <3> QED BY <1>1, <2>1, <2>2, <3>1, RankFacts DEF Remaining
  <2>10. CASE Activate
    <3>1. /\ pc = "activate" /\ pc' = pc /\ turn' = turn + 1
          /\ turn < Len(model.coefficients)
      BY <2>10 DEF Activate
    <3> QED BY <1>1, <2>1, <2>2, <3>1, RankFacts DEF Remaining
  <2>11. CASE Respond
    <3>1. pc = "activate" /\ pc' = "decrypt"
      BY <2>11 DEF Respond
    <3> QED BY <1>1, <2>1, <2>2, <3>1, RankFacts DEF Remaining
  <2> QED BY <1>1, <2>4, <2>5, <2>6, <2>7, <2>8, <2>9, <2>10, <2>11 DEF Step
<1>2. ASSUME IInv, NEW r \in Requests, Ask(r)
      PROVE  Remaining' = 2 * Len(r.batch[1]) + r.model.dimension + 8
  <2>1. pc' = "encrypt" /\ inputs' = inputs /\ request' = r /\ inputs = <<>>
    BY <1>2 DEF Ask, IInv, InputInv
  <2>2. Width' = Len(r.batch[1]) /\ model'.dimension = r.model.dimension
    BY <2>1 DEF Width, batch, model
  <2>3. Len(inputs') = 0
    BY <2>1
  <2>4. r.model.dimension \in Nat
    BY RequestAssumption, ModelAssumption
  <2>5. Len(r.batch[1]) \in Nat
    <3>1. Len(r.batch[1]) \in {1, r.model.dimension}
      BY RequestAssumption, Zenon
    <3>2. ASSUME NEW w, w \in {1, r.model.dimension} PROVE w \in Nat
      BY <2>4, <3>2
    <3> QED BY <3>1, <3>2, Zenon
  <2>6. Remaining' = (Width' - Len(inputs')) + Width' + model'.dimension + 8
    BY <2>1 DEF Remaining
  <2> QED BY <2>2, <2>3, <2>4, <2>5, <2>6
<1>3. ASSUME IInv, NEW k \in DOMAIN inputs, Damage(k)
      PROVE  Remaining' = Remaining
  <2>1. UNCHANGED <<pc, request, features, turn>> /\ pc = "validate"
    BY <1>3 DEF Damage
  <2>2. model' = model /\ Width' = Width
    BY <2>1, Frame
  <2> QED BY <2>1, <2>2 DEF Remaining
<1>4. IInv /\ [Next]_vars =>
        [/\ Step => Remaining' < Remaining
         /\ \A r \in Requests : Ask(r) =>
               Remaining' = 2 * Len(r.batch[1]) + r.model.dimension + 8
         /\ \A k \in DOMAIN inputs : Damage(k) => Remaining' = Remaining]_vars
  BY <1>1, <1>2, <1>3
<1> QED BY <1>4, Inductive, PTL DEF Spec
=============================================================================
