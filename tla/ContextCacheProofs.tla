------------------------- MODULE ContextCacheProofs -------------------------
(***************************************************************************)
(* Proofs about ContextCache, for any threads, any parameter sets and any  *)
(* size of the cache.                                                      *)
(***************************************************************************)
EXTENDS ContextCache, FiniteSetTheorems, WellFoundedInduction, TLAPS

(* A handler past "idle" has a model; a context it holds is the model's.   *)
HandlerInv ==
    \A th \in Threads :
        /\ pc[th] # "idle" => model[th] \in Params
        /\ pc[th] \in {"store", "using"} =>
              context[th] \in Contexts /\ context[th].params = model[th]

(* An entry was made from the parameters it is found under.                *)
EntryInv == \A k \in Cached : cache[k] \in Contexts /\ Key(cache[k].params) = k

SizeInv == IsFiniteSet(Cached) /\ CacheBounded

(* Without eviction: what a handler was given by its first call is there   *)
(* for its second one, and still there when it uses it.                    *)
StayInv ==
    Fits => \A th \in Threads :
        /\ pc[th] \in {"build", "store"} => call[th] = 1
        /\ pc[th] = "lookup" /\ call[th] = 2 => MyKey(th) \in Cached
        /\ pc[th] = "using" =>
              MyKey(th) \in Cached /\ context[th] = cache[MyKey(th)]

IInv == TypeOK /\ HandlerInv /\ EntryInv /\ SizeInv /\ StayInv

----------------------------------------------------------------------------
(* Two parameter sets with one key are one parameter set.                  *)
LEMMA KeyInjective ==
  ASSUME NEW p \in Params, NEW q \in Params, Key(p) = Key(q)
  PROVE  p = q
<1>1. p.degree = q.degree /\ p.bits = q.bits /\ p.scale = q.scale
  BY DEF Key
<1> QED BY <1>1, ParamsAssumption

LEMMA KeyType == \A p \in Params : Key(p) \in Keys
  BY DEF Keys

(* Initially no handler runs and nothing is cached.                        *)
LEMMA InitIInv == Init => IInv
<1> SUFFICES ASSUME Init PROVE IInv
  OBVIOUS
<1>1. TypeOK /\ HandlerInv
  BY DEF Init, TypeOK, HandlerInv
<1>2. Cached = {}
  BY DEF Init, Cached
<1>3. EntryInv /\ SizeInv
  BY <1>2, FS_EmptySet, SizeAssumption DEF EntryInv, SizeInv, CacheBounded
<1>4. StayInv
  BY DEF Init, StayInv
<1> QED BY <1>1, <1>3, <1>4 DEF IInv

(* As long as something is not cached there is room, if all of it fits.    *)
LEMMA RoomForAll ==
  ASSUME Fits, NEW k \in Keys, k \notin Cached, SizeInv
  PROVE  ~Full
<1>1. Cached \subseteq Keys
  BY DEF Cached
<1>2. Cardinality(Cached) <= Cardinality(Keys) /\ Cardinality(Cached) # Cardinality(Keys)
  BY <1>1, FS_Subset DEF Fits
<1>3. Cardinality(Cached) \in Nat /\ Cardinality(Keys) \in Nat
  BY FS_CardinalityType DEF Fits, SizeInv
<1> QED BY <1>2, <1>3, SizeAssumption DEF Fits, Full

(* The effect of the three ways to end a call.                             *)
LEMMA ReturnSteps ==
  ASSUME TypeOK, NEW th \in Threads, Return(th)
  PROVE  /\ pc' \in [Threads -> {"idle", "lookup", "build", "store", "using"}]
         /\ call' \in [Threads -> {1, 2}]
         /\ \A other \in Threads \ {th} :
               pc'[other] = pc[other] /\ call'[other] = call[other]
         /\ \/ call[th] = 1 /\ pc'[th] = "lookup" /\ call'[th] = 2
            \/ call[th] = 2 /\ pc'[th] = "using"
  BY DEF TypeOK, Return

LEMMA TouchType ==
  ASSUME older \subseteq Keys \X Keys, NEW k \in Keys, NEW S \in SUBSET Keys
  PROVE  Touch(k, S) \subseteq Keys \X Keys
  BY DEF Touch

(* The entries after a store, with or without a victim.                    *)
LEMMA CacheAfterStore ==
  ASSUME TypeOK, HandlerInv, EntryInv, NEW th \in Threads, pc[th] = "store",
         Store(th)
  PROVE  /\ cache' \in [Keys -> Contexts \cup {None}]
         /\ MyKey(th) \in Keys
         /\ Cached' = Cached \cup {MyKey(th)}
         /\ cache'[MyKey(th)] = context[th]
         /\ \A k \in Cached : cache'[k] = cache[k]
<1>1. MyKey(th) \in Keys /\ context[th] \in Contexts
  BY KeyType DEF HandlerInv, MyKey
<1>2. cache' = [cache EXCEPT ![MyKey(th)] = context[th]] /\ MyKey(th) \notin Cached
  BY DEF Store
<1> QED BY <1>1, <1>2, NoneAssumption DEF TypeOK, Cached

LEMMA CacheAfterReplace ==
  ASSUME TypeOK, HandlerInv, EntryInv, NEW th \in Threads, pc[th] = "store",
         Replace(th)
  PROVE  /\ cache' \in [Keys -> Contexts \cup {None}]
         /\ MyKey(th) \in Keys
         /\ cache'[MyKey(th)] = context[th]
         /\ \E victim \in Cached :
               /\ Cached' = (Cached \ {victim}) \cup {MyKey(th)}
               /\ older' = Touch(MyKey(th), Cached \ {victim})
         /\ \A k \in Cached' : k # MyKey(th) => k \in Cached /\ cache'[k] = cache[k]
<1>1. MyKey(th) \in Keys /\ context[th] \in Contexts
  BY KeyType DEF HandlerInv, MyKey
<1>2. PICK victim \in Cached :
         /\ cache' = [cache EXCEPT ![victim] = None, ![MyKey(th)] = context[th]]
         /\ older' = Touch(MyKey(th), Cached \ {victim})
  BY DEF Replace
<1>3. MyKey(th) \notin Cached /\ victim \in Keys /\ victim # MyKey(th)
  BY <1>2 DEF Replace, Cached
<1>4. cache' \in [Keys -> Contexts \cup {None}]
  BY <1>1, <1>2 DEF TypeOK
<1>5. \A k \in Keys :
         cache'[k] = IF k = MyKey(th) THEN context[th]
                     ELSE IF k = victim THEN None ELSE cache[k]
  BY <1>1, <1>2, <1>3 DEF TypeOK
<1>6. Cached' = (Cached \ {victim}) \cup {MyKey(th)}
  BY <1>1, <1>3, <1>5, NoneAssumption DEF Cached
<1> QED BY <1>1, <1>2, <1>3, <1>4, <1>5, <1>6 DEF Cached

----------------------------------------------------------------------------
(* What a step does outside the cache: a handler moves, the others do not. *)
LEMMA OthersStay ==
  ASSUME TypeOK, NEW th \in Threads, NEW other \in Threads, other # th,
         \/ \E p \in Params : Enter(th, p)
         \/ Hit(th) \/ Miss(th) \/ BuildFails(th) \/ Build(th)
         \/ StoreTooLate(th) \/ Store(th) \/ Replace(th) \/ Leave(th)
  PROVE  /\ pc'[other] = pc[other]
         /\ model'[other] = model[other]
         /\ call'[other] = call[other]
         /\ context'[other] = context[other]
<1>1. CASE \/ \E p \in Params : Enter(th, p)
           \/ Miss(th) \/ BuildFails(th) \/ Build(th) \/ Leave(th)
  BY <1>1 DEF Enter, Miss, BuildFails, Build, Leave, TypeOK
<1>2. CASE Hit(th) \/ StoreTooLate(th) \/ Store(th) \/ Replace(th)
  BY <1>2 DEF Hit, StoreTooLate, Store, Replace, Return, TypeOK
<1> QED BY <1>1, <1>2

(* What a step does to the cache: nothing, an entry more, or a replacement.*)
LEMMA CacheStep ==
  ASSUME TypeOK, HandlerInv, EntryInv, NEW th \in Threads,
         \/ \E p \in Params : Enter(th, p)
         \/ Hit(th) \/ Miss(th) \/ BuildFails(th) \/ Build(th)
         \/ StoreTooLate(th) \/ Store(th) \/ Replace(th) \/ Leave(th)
  PROVE  \/ UNCHANGED cache
         \/ pc[th] = "store" /\ MyKey(th) \notin Cached /\ (Store(th) \/ Replace(th))
  BY DEF Enter, Hit, Miss, BuildFails, Build, StoreTooLate, Store, Replace, Leave

(* Every action keeps the types.                                           *)
LEMMA TypeStep == IInv /\ [Next]_vars => TypeOK'
<1> SUFFICES ASSUME IInv, [Next]_vars PROVE TypeOK'
  OBVIOUS
<1>0. TypeOK /\ HandlerInv /\ EntryInv /\ Cached \subseteq Keys
  BY DEF IInv, Cached
<1>1. ASSUME NEW th \in Threads, NEW p \in Params, Enter(th, p) PROVE TypeOK'
  BY <1>0, <1>1 DEF Enter, TypeOK
<1>2. ASSUME NEW th \in Threads, Miss(th) \/ BuildFails(th) \/ Leave(th)
      PROVE  TypeOK'
  BY <1>0, <1>2 DEF Miss, BuildFails, Leave, TypeOK
<1>3. ASSUME NEW th \in Threads, Build(th) PROVE TypeOK'
  <2>1. model[th] \in Params
    BY <1>0, <1>3 DEF Build, HandlerInv
  <2>2. builds[model[th]] + 1 \in Nat
    BY <1>0, <2>1 DEF TypeOK
  <2>3. Context(model[th], builds[model[th]] + 1) \in Contexts
    BY <2>1, <2>2 DEF Context, Contexts
  <2> QED BY <1>0, <1>3, <2>2, <2>3 DEF Build, TypeOK
<1>4. ASSUME NEW th \in Threads, Hit(th) PROVE TypeOK'
  <2>1. MyKey(th) \in Keys /\ cache[MyKey(th)] \in Contexts
    BY <1>0, <1>4 DEF Hit, EntryInv
  <2>2. older' \subseteq Keys \X Keys
    BY <1>0, <1>4, <2>1, TouchType DEF Hit, TypeOK
  <2>3. Return(th) /\ UNCHANGED <<cache, builds, model>>
    BY <1>4 DEF Hit
  <2>4. context' \in [Threads -> Contexts \cup {None}]
    BY <1>0, <1>4, <2>1 DEF Hit, TypeOK
  <2> QED BY <1>0, <2>2, <2>3, <2>4, ReturnSteps DEF TypeOK
<1>5. ASSUME NEW th \in Threads, StoreTooLate(th) PROVE TypeOK'
  <2>1. Return(th) /\ UNCHANGED <<cache, older, builds, model, context>>
    BY <1>5 DEF StoreTooLate
  <2> QED BY <1>0, <2>1, ReturnSteps DEF TypeOK
<1>6. ASSUME NEW th \in Threads, Store(th) PROVE TypeOK'
  <2>1. /\ pc[th] = "store" /\ Return(th)
        /\ older' = Touch(MyKey(th), Cached)
        /\ UNCHANGED <<builds, model, context>>
    BY <1>6 DEF Store
  <2>2. cache' \in [Keys -> Contexts \cup {None}] /\ MyKey(th) \in Keys
    BY <1>0, <1>6, <2>1, CacheAfterStore
  <2>3. older' \subseteq Keys \X Keys
    BY <1>0, <2>1, <2>2, TouchType DEF TypeOK
  <2> QED BY <1>0, <2>1, <2>2, <2>3, ReturnSteps DEF TypeOK
<1>7. ASSUME NEW th \in Threads, Replace(th) PROVE TypeOK'
  <2>1. pc[th] = "store" /\ Return(th) /\ UNCHANGED <<builds, model, context>>
    BY <1>7 DEF Replace
  <2>2. /\ cache' \in [Keys -> Contexts \cup {None}] /\ MyKey(th) \in Keys
        /\ \E victim \in Cached : older' = Touch(MyKey(th), Cached \ {victim})
    BY <1>0, <1>7, <2>1, CacheAfterReplace
  <2>3. older' \subseteq Keys \X Keys
    BY <1>0, <2>2, TouchType DEF TypeOK
  <2> QED BY <1>0, <2>1, <2>2, <2>3, ReturnSteps DEF TypeOK
<1>8. CASE UNCHANGED vars
  BY <1>0, <1>8 DEF vars, TypeOK
<1> QED BY <1>1, <1>2, <1>3, <1>4, <1>5, <1>6, <1>7, <1>8 DEF Next

(* Every handler keeps the context of its model.                           *)
LEMMA HandlerStep == IInv /\ [Next]_vars => HandlerInv'
<1> SUFFICES ASSUME IInv, [Next]_vars PROVE HandlerInv'
  OBVIOUS
<1>0. TypeOK /\ HandlerInv /\ EntryInv
  BY DEF IInv
<1> DEFINE Good(t) ==
             /\ pc[t] # "idle" => model[t] \in Params
             /\ pc[t] \in {"store", "using"} =>
                   context[t] \in Contexts /\ context[t].params = model[t]
<1>1. ASSUME NEW th \in Threads, Good(th)',
             \/ \E p \in Params : Enter(th, p)
             \/ Hit(th) \/ Miss(th) \/ BuildFails(th) \/ Build(th)
             \/ StoreTooLate(th) \/ Store(th) \/ Replace(th) \/ Leave(th)
      PROVE  HandlerInv'
  <2>1. ASSUME NEW other \in Threads, other # th PROVE Good(other)'
    BY <1>0, <1>1, <2>1, OthersStay DEF HandlerInv
  <2> QED BY <1>1, <2>1 DEF HandlerInv
<1>2. ASSUME NEW th \in Threads,
             \/ \E p \in Params : Enter(th, p)
             \/ Miss(th) \/ BuildFails(th) \/ Leave(th)
      PROVE  Good(th)'
  BY <1>0, <1>2 DEF Enter, Miss, BuildFails, Leave, TypeOK, HandlerInv
<1>3. ASSUME NEW th \in Threads, Build(th) PROVE Good(th)'
  <2>1. model[th] \in Params
    BY <1>0, <1>3 DEF Build, HandlerInv
  <2>2. builds[model[th]] + 1 \in Nat
    BY <1>0, <2>1 DEF TypeOK
  <2>3. context'[th] = Context(model[th], builds[model[th]] + 1) /\ model'[th] = model[th]
    BY <1>0, <1>3 DEF Build, TypeOK
  <2> QED BY <2>1, <2>2, <2>3 DEF Context, Contexts
<1>4. ASSUME NEW th \in Threads, Hit(th) PROVE Good(th)'
  <2>1. context'[th] = cache[MyKey(th)] /\ model'[th] = model[th] /\ model[th] \in Params
    BY <1>0, <1>4 DEF Hit, TypeOK, HandlerInv
  <2>2. cache[MyKey(th)] \in Contexts /\ Key(cache[MyKey(th)].params) = Key(model[th])
    BY <1>0, <1>4 DEF Hit, EntryInv, MyKey
  <2>3. cache[MyKey(th)].params = model[th]
    BY <2>1, <2>2, KeyInjective DEF Contexts
  <2> QED BY <2>1, <2>2, <2>3
<1>5. ASSUME NEW th \in Threads, StoreTooLate(th) \/ Store(th) \/ Replace(th)
      PROVE  Good(th)'
  BY <1>0, <1>5 DEF StoreTooLate, Store, Replace, HandlerInv
<1>6. CASE UNCHANGED vars
  BY <1>0, <1>6 DEF vars, HandlerInv
<1> HIDE DEF Good
<1> QED BY <1>1, <1>2, <1>3, <1>4, <1>5, <1>6 DEF Next

(* Every entry stays true to its key.                                      *)
LEMMA EntryStep == IInv /\ [Next]_vars => EntryInv'
<1> SUFFICES ASSUME IInv, [Next]_vars, NEW k \in Cached'
             PROVE  cache'[k] \in Contexts /\ Key(cache'[k].params) = k
  BY DEF EntryInv, Cached
<1>0. TypeOK /\ HandlerInv /\ EntryInv
  BY DEF IInv
<1>1. CASE UNCHANGED cache
  BY <1>0, <1>1 DEF EntryInv, Cached
<1>2. ASSUME NEW th \in Threads, pc[th] = "store", Store(th) \/ Replace(th)
      PROVE  cache'[k] \in Contexts /\ Key(cache'[k].params) = k
  <2>1. /\ cache'[MyKey(th)] = context[th]
        /\ k # MyKey(th) => k \in Cached /\ cache'[k] = cache[k]
    BY <1>0, <1>2, CacheAfterStore, CacheAfterReplace
  <2>2. context[th] \in Contexts /\ Key(context[th].params) = MyKey(th)
    BY <1>0, <1>2 DEF HandlerInv, MyKey
  <2> QED BY <1>0, <2>1, <2>2 DEF EntryInv
<1>3. CASE UNCHANGED vars
  BY <1>1, <1>3 DEF vars
<1> QED BY <1>0, <1>1, <1>2, <1>3, CacheStep DEF Next

(* The cache keeps to its size.                                            *)
LEMMA SizeStep == IInv /\ [Next]_vars => SizeInv'
<1> SUFFICES ASSUME IInv, [Next]_vars PROVE SizeInv'
  OBVIOUS
<1>0. TypeOK /\ HandlerInv /\ EntryInv /\ SizeInv
  BY DEF IInv
<1>1. CASE UNCHANGED cache
  <2>1. Cached' = Cached
    BY <1>1 DEF Cached
  <2> QED BY <1>0, <2>1 DEF SizeInv, CacheBounded
<1>2. Cardinality(Cached) \in Nat
  BY <1>0, FS_CardinalityType DEF SizeInv
<1>3. ASSUME NEW th \in Threads, pc[th] = "store", MyKey(th) \notin Cached, Store(th)
      PROVE  SizeInv'
  <2>1. Cached' = Cached \cup {MyKey(th)}
    BY <1>0, <1>3, CacheAfterStore
  <2>2. IsFiniteSet(Cached') /\ Cardinality(Cached') = Cardinality(Cached) + 1
    BY <1>0, <1>3, <2>1, FS_AddElement DEF SizeInv
  <2>3. Cardinality(Cached) < MaxSize
    BY <1>2, <1>3, SizeAssumption DEF Store, Full
  <2> QED BY <1>2, <2>2, <2>3, SizeAssumption DEF SizeInv, CacheBounded
<1>4. ASSUME NEW th \in Threads, pc[th] = "store", MyKey(th) \notin Cached, Replace(th)
      PROVE  SizeInv'
  <2>1. PICK victim \in Cached : Cached' = (Cached \ {victim}) \cup {MyKey(th)}
    BY <1>0, <1>4, CacheAfterReplace
  <2>2. /\ IsFiniteSet(Cached \ {victim})
        /\ Cardinality(Cached \ {victim}) = Cardinality(Cached) - 1
    BY <1>0, FS_RemoveElement DEF SizeInv
  <2>3. IsFiniteSet(Cached') /\ Cardinality(Cached') = Cardinality(Cached) - 1 + 1
    BY <1>4, <2>1, <2>2, FS_AddElement
  <2> QED BY <1>0, <1>2, <2>3 DEF SizeInv, CacheBounded
<1>5. CASE UNCHANGED vars
  BY <1>1, <1>5 DEF vars
<1> QED BY <1>0, <1>1, <1>3, <1>4, <1>5, CacheStep DEF Next

(* When everything fits, an entry is never changed and never leaves.       *)
LEMMA EntriesStay ==
  ASSUME IInv, [Next]_vars, Fits, NEW k \in Cached
  PROVE  k \in Cached' /\ cache'[k] = cache[k]
<1>0. TypeOK /\ HandlerInv /\ EntryInv /\ SizeInv
  BY DEF IInv
<1>1. CASE UNCHANGED cache
  BY <1>1 DEF Cached
<1>2. ASSUME NEW th \in Threads, pc[th] = "store", Store(th)
      PROVE  k \in Cached' /\ cache'[k] = cache[k]
  BY <1>0, <1>2, CacheAfterStore
<1>3. ASSUME NEW th \in Threads, pc[th] = "store", MyKey(th) \notin Cached, Replace(th)
      PROVE  FALSE
  <2>1. MyKey(th) \in Keys
    BY <1>0, <1>3, KeyType DEF HandlerInv, MyKey
  <2> QED BY <1>0, <1>3, <2>1, RoomForAll DEF Replace
<1>4. CASE UNCHANGED vars
  BY <1>1, <1>4 DEF vars
<1> QED BY <1>0, <1>1, <1>2, <1>3, <1>4, CacheStep DEF Next

LEMMA StayStep == IInv /\ [Next]_vars => StayInv'
<1> DEFINE Stays(t) ==
             /\ pc[t] \in {"build", "store"} => call[t] = 1
             /\ pc[t] = "lookup" /\ call[t] = 2 => MyKey(t) \in Cached
             /\ pc[t] = "using" =>
                   MyKey(t) \in Cached /\ context[t] = cache[MyKey(t)]
<1> SUFFICES ASSUME IInv, [Next]_vars, Fits, NEW t \in Threads PROVE Stays(t)'
  BY DEF StayInv, Fits
<1>0. TypeOK /\ HandlerInv /\ EntryInv /\ SizeInv /\ Stays(t)
  BY DEF IInv, StayInv
<1>1. ASSUME pc'[t] = pc[t], model'[t] = model[t], call'[t] = call[t],
             context'[t] = context[t]
      PROVE  Stays(t)'
  BY <1>0, <1>1, EntriesStay DEF MyKey
<1>2. ASSUME NEW th \in Threads, th # t,
             \/ \E p \in Params : Enter(th, p)
             \/ Hit(th) \/ Miss(th) \/ BuildFails(th) \/ Build(th)
             \/ StoreTooLate(th) \/ Store(th) \/ Replace(th) \/ Leave(th)
      PROVE  Stays(t)'
  BY <1>0, <1>1, <1>2, OthersStay
<1>3. CASE \E p \in Params : Enter(t, p)
  BY <1>0, <1>3 DEF Enter, TypeOK
<1>4. CASE BuildFails(t) \/ Leave(t)
  BY <1>0, <1>4 DEF BuildFails, Leave, TypeOK
<1>5. CASE Miss(t)
  <2>1. call[t] = 1
    BY <1>0, <1>5 DEF Miss, TypeOK
  <2> QED BY <1>0, <1>5, <2>1 DEF Miss, TypeOK
<1>6. CASE Build(t)
  BY <1>0, <1>6 DEF Build, TypeOK
<1>7. ASSUME Return(t), MyKey(t)' = MyKey(t), MyKey(t) \in Cached',
             call[t] = 2 => context'[t] = cache'[MyKey(t)]
      PROVE  Stays(t)'
  <2>1. \/ call[t] = 1 /\ pc'[t] = "lookup" /\ call'[t] = 2
        \/ call[t] = 2 /\ pc'[t] = "using"
    BY <1>0, <1>7, ReturnSteps
  <2> QED BY <1>7, <2>1
<1>8. CASE Hit(t)
  <2>1. MyKey(t)' = MyKey(t) /\ MyKey(t) \in Cached' /\ UNCHANGED cache
    BY <1>8 DEF Hit, MyKey, Cached
  <2>2. Return(t) /\ context'[t] = cache[MyKey(t)]
    BY <1>0, <1>8 DEF Hit, TypeOK
  <2> QED BY <1>7, <2>1, <2>2
<1>9. CASE StoreTooLate(t)
  <2>1. MyKey(t)' = MyKey(t) /\ MyKey(t) \in Cached' /\ Return(t) /\ call[t] = 1
    BY <1>0, <1>9 DEF StoreTooLate, MyKey, Cached
  <2> QED BY <1>7, <2>1
<1>10. CASE Store(t)
  <2>1. pc[t] = "store" /\ MyKey(t)' = MyKey(t) /\ Return(t) /\ call[t] = 1
    BY <1>0, <1>10 DEF Store, MyKey
  <2>2. MyKey(t) \in Cached'
    BY <1>0, <1>10, <2>1, CacheAfterStore
  <2> QED BY <1>7, <2>1, <2>2
<1>11. ~Replace(t)
  <2>1. SUFFICES ASSUME Replace(t) PROVE FALSE
    OBVIOUS
  <2>2. MyKey(t) \in Keys /\ MyKey(t) \notin Cached /\ Full
    BY <1>0, <2>1, KeyType DEF Replace, HandlerInv, MyKey
  <2> QED BY <1>0, <2>2, RoomForAll
<1>12. CASE UNCHANGED vars
  BY <1>1, <1>12 DEF vars
<1> HIDE DEF Stays
<1> QED BY <1>2, <1>3, <1>4, <1>5, <1>6, <1>8, <1>9, <1>10, <1>11, <1>12 DEF Next

----------------------------------------------------------------------------
(* IInv is an inductive invariant.                                         *)
THEOREM Inductive == Spec => []IInv
<1>1. IInv /\ [Next]_vars => IInv'
  BY TypeStep, HandlerStep, EntryStep, SizeStep, StayStep DEF IInv
<1> QED BY <1>1, InitIInv, PTL DEF Spec

(* Every variable has its type.                                            *)
THEOREM TypeCorrect == Spec => []TypeOK
<1>1. IInv => TypeOK
  BY DEF IInv
<1> QED BY <1>1, Inductive, PTL

(* A ciphertext is evaluated under the parameters of its model, whatever   *)
(* other handlers build and evict.                                         *)
THEOREM ContextIsRight == Spec => []RightContext
<1>1. IInv => RightContext
  BY DEF IInv, HandlerInv, RightContext
<1> QED BY <1>1, Inductive, PTL

(* The cache keeps to its size, however many handlers miss at once.        *)
THEOREM CacheKeepsToItsSize == Spec => []CacheBounded
<1>1. IInv => CacheBounded
  BY DEF IInv, SizeInv
<1> QED BY <1>1, Inductive, PTL

(* When all parameter sets fit, handlers of one parameter set that run at  *)
(* one time share one context object.                                      *)
THEOREM ContextIsShared == Spec => []ContextShared
<1>1. IInv => ContextShared
  BY DEF IInv, StayInv, ContextShared, MyKey
<1> QED BY <1>1, Inductive, PTL

(* When all parameter sets fit, the second call of a handler never builds. *)
THEOREM SecondCallIsHit == Spec => []SecondCallHits
<1>1. IInv => SecondCallHits
  BY DEF IInv, StayInv, SecondCallHits
<1> QED BY <1>1, Inductive, PTL

----------------------------------------------------------------------------
(* How often a parameter set is built.  Until it is cached, every build of *)
(* it is in the hands of a handler; from then on, only handlers that had   *)
(* missed it before can still build it.                                    *)
At(label, p) == {th \in Threads : pc[th] = label /\ model[th] = p}

CountOf(p) ==
    /\ builds[p] + Cardinality(At("build", p)) <= Cardinality(Threads)
    /\ Key(p) \notin Cached => builds[p] = Cardinality(At("store", p))

CountInv == Fits => \A p \in Params : CountOf(p)

LEMMA AtFinite ==
  ASSUME NEW label, NEW p
  PROVE  /\ IsFiniteSet(At(label, p)) /\ IsFiniteSet(At(label, p)')
         /\ Cardinality(At(label, p)) \in Nat /\ Cardinality(At(label, p)') \in Nat
         /\ Cardinality(Threads) \in Nat
<1>1. At(label, p) \subseteq Threads /\ At(label, p)' \subseteq Threads
  BY DEF At
<1> QED BY <1>1, ThreadAssumption, FS_Subset, FS_CardinalityType

(* Handlers that build and handlers that store are not the same.           *)
LEMMA AtDisjoint ==
  ASSUME NEW p
  PROVE  Cardinality(At("build", p)') + Cardinality(At("store", p)')
             <= Cardinality(Threads)
<1> DEFINE B == At("build", p)'
           S == At("store", p)'
<1>1. B \cap S = {} /\ B \cup S \subseteq Threads
  BY DEF At
<1>2. /\ IsFiniteSet(B \cup S)
      /\ Cardinality(B \cup S) = Cardinality(B) + Cardinality(S) - Cardinality({})
  BY <1>1, AtFinite, FS_Union
<1>3. Cardinality(B \cup S) <= Cardinality(Threads)
  BY <1>1, ThreadAssumption, FS_Subset
<1> QED BY <1>2, <1>3, FS_EmptySet, AtFinite

(* A step moves its own handler into or out of a set, and no other.        *)
LEMMA AtStep ==
  ASSUME TypeOK, NEW th \in Threads,
         \/ \E q \in Params : Enter(th, q)
         \/ Hit(th) \/ Miss(th) \/ BuildFails(th) \/ Build(th)
         \/ StoreTooLate(th) \/ Store(th) \/ Replace(th) \/ Leave(th)
  PROVE  \A label, p : At(label, p)' = IF pc'[th] = label /\ model'[th] = p
                                       THEN At(label, p) \cup {th}
                                       ELSE At(label, p) \ {th}
<1>1. \A other \in Threads : other # th =>
          pc'[other] = pc[other] /\ model'[other] = model[other]
  BY OthersStay
<1> QED BY <1>1 DEF At

LEMMA CountStep == IInv /\ CountInv /\ [Next]_vars => CountInv'
<1> SUFFICES ASSUME IInv, CountInv, [Next]_vars, Fits, NEW p \in Params
             PROVE  CountOf(p)'
  BY DEF CountInv, Fits
<1>0. TypeOK /\ HandlerInv /\ EntryInv /\ SizeInv /\ CountOf(p)
  BY DEF IInv, CountInv
<1>1. builds[p] \in Nat
  BY <1>0 DEF TypeOK
<1>2. Key(p) \notin Cached' => Key(p) \notin Cached
  BY EntriesStay
<1>3. ASSUME At("build", p)' = At("build", p), builds'[p] = builds[p],
             Key(p) \notin Cached' => At("store", p)' = At("store", p)
      PROVE  CountOf(p)'
  BY <1>0, <1>2, <1>3 DEF CountOf
<1>4. ASSUME NEW th \in Threads,
             \/ \E q \in Params : Enter(th, q)
             \/ Hit(th) \/ Miss(th) \/ BuildFails(th) \/ Build(th)
             \/ StoreTooLate(th) \/ Store(th) \/ Leave(th)
      PROVE  \A label \in {"build", "store"} :
                At(label, p)' = IF pc'[th] = label /\ model'[th] = p
                                THEN At(label, p) \cup {th}
                                ELSE At(label, p) \ {th}
  BY <1>0, <1>4, AtStep
<1>5. ASSUME NEW th \in Threads,
             \/ \E q \in Params : Enter(th, q)
             \/ Hit(th) \/ Leave(th) \/ StoreTooLate(th) \/ Store(th)
      PROVE  CountOf(p)'
  <2>1. pc[th] # "build" /\ pc'[th] \notin {"build", "store"} /\ UNCHANGED builds
    BY <1>0, <1>5, ReturnSteps
       DEF Enter, Hit, Leave, StoreTooLate, Store, TypeOK
  <2>2. At("build", p)' = At("build", p) /\ At("store", p)' = At("store", p) \ {th}
    BY <1>4, <1>5, <2>1 DEF At
  <2>3. ASSUME th \in At("store", p) PROVE Key(p) \in Cached'
    <3>1. pc[th] = "store" /\ MyKey(th) = Key(p)
      BY <2>3 DEF At, MyKey
    <3>2. StoreTooLate(th) \/ Store(th)
      BY <1>5, <3>1 DEF Enter, Hit, Leave
    <3>3. CASE StoreTooLate(th)
      BY <3>1, <3>3, EntriesStay DEF StoreTooLate
    <3>4. CASE Store(th)
      BY <1>0, <3>1, <3>4, CacheAfterStore
    <3> QED BY <3>2, <3>3, <3>4
  <2> QED BY <1>3, <2>1, <2>2, <2>3
<1>6. ASSUME NEW th \in Threads, Miss(th) PROVE CountOf(p)'
  <2>1. /\ pc[th] = "lookup" /\ pc'[th] = "build" /\ model'[th] = model[th]
        /\ UNCHANGED <<builds, cache>> /\ MyKey(th) \notin Cached
    BY <1>0, <1>6 DEF Miss, TypeOK
  <2>2. At("store", p)' = At("store", p)
    BY <1>4, <1>6, <2>1 DEF At
  <2>3. CASE model[th] # p
    <3>1. At("build", p)' = At("build", p)
      BY <1>4, <1>6, <2>1, <2>3 DEF At
    <3> QED BY <1>3, <2>1, <2>2, <3>1
  <2>4. CASE model[th] = p
    <3>1. Key(p) \notin Cached
      BY <2>1, <2>4 DEF MyKey
    <3>2. builds'[p] = Cardinality(At("store", p)')
      BY <1>0, <2>1, <2>2, <3>1 DEF CountOf
    <3>3. Cardinality(At("build", p)') + builds'[p] <= Cardinality(Threads)
      BY <3>2, AtDisjoint
    <3>4. Cardinality(At("build", p)') \in Nat /\ builds'[p] \in Nat
      BY <3>2, AtFinite
    <3>5. builds'[p] + Cardinality(At("build", p)') <= Cardinality(Threads)
      BY <3>3, <3>4
    <3> QED BY <3>2, <3>5 DEF CountOf
  <2> QED BY <2>3, <2>4
<1>7. ASSUME NEW th \in Threads, BuildFails(th) PROVE CountOf(p)'
  <2>1. pc[th] = "build" /\ pc'[th] = "idle" /\ UNCHANGED <<builds, cache>>
    BY <1>0, <1>7 DEF BuildFails, TypeOK
  <2>2. /\ At("store", p)' = At("store", p)
        /\ At("build", p)' = At("build", p) \ {th}
    BY <1>4, <1>7, <2>1 DEF At
  <2>3. Cardinality(At("build", p)') <= Cardinality(At("build", p))
    BY <2>2, AtFinite, FS_Subset
  <2>4. builds'[p] + Cardinality(At("build", p)') <= Cardinality(Threads)
    BY <1>0, <1>1, <2>1, <2>3, AtFinite DEF CountOf
  <2> QED BY <1>0, <1>2, <2>1, <2>2, <2>4 DEF CountOf
<1>8. ASSUME NEW th \in Threads, Build(th) PROVE CountOf(p)'
  <2>1. /\ pc[th] = "build" /\ pc'[th] = "store" /\ UNCHANGED <<cache, model>>
        /\ builds' = [builds EXCEPT ![model[th]] = @ + 1]
    BY <1>0, <1>8 DEF Build, TypeOK
  <2>2. CASE model[th] # p
    <3>1. /\ At("build", p)' = At("build", p) /\ At("store", p)' = At("store", p)
          /\ builds'[p] = builds[p]
      BY <1>0, <1>4, <1>8, <2>1, <2>2 DEF At, TypeOK
    <3> QED BY <1>3, <3>1
  <2>3. CASE model[th] = p
    <3>1. /\ At("build", p)' = At("build", p) \ {th} /\ th \in At("build", p)
          /\ At("store", p)' = At("store", p) \cup {th} /\ th \notin At("store", p)
      BY <1>4, <1>8, <2>1, <2>3 DEF At
    <3>2. builds'[p] = builds[p] + 1
      BY <1>0, <2>1, <2>3 DEF TypeOK
    <3>3. Cardinality(At("build", p)') = Cardinality(At("build", p)) - 1
      BY <3>1, AtFinite, FS_RemoveElement
    <3>4. Cardinality(At("store", p)') = Cardinality(At("store", p)) + 1
      BY <3>1, AtFinite, FS_AddElement
    <3>5. builds'[p] + Cardinality(At("build", p)') <= Cardinality(Threads)
      BY <1>0, <1>1, <3>2, <3>3, AtFinite DEF CountOf
    <3> QED BY <1>0, <1>2, <3>2, <3>4, <3>5 DEF CountOf
  <2> QED BY <2>2, <2>3
<1>9. ASSUME NEW th \in Threads, Replace(th) PROVE FALSE
  <2>1. MyKey(th) \in Keys /\ MyKey(th) \notin Cached /\ Full
    BY <1>0, <1>9, KeyType DEF Replace, HandlerInv, MyKey
  <2> QED BY <1>0, <2>1, RoomForAll
<1>10. CASE UNCHANGED vars
  BY <1>3, <1>10 DEF vars, At
<1> QED BY <1>5, <1>6, <1>7, <1>8, <1>9, <1>10 DEF Next

(* The count holds at first and every step keeps it.                       *)
LEMMA Counted == Spec => []CountInv
<1>1. Init => CountInv
  <2> SUFFICES ASSUME Init, NEW p \in Params PROVE CountOf(p)
    BY DEF CountInv
  <2>1. At("build", p) = {} /\ At("store", p) = {} /\ builds[p] = 0
    BY DEF Init, At
  <2>2. Cardinality(Threads) \in Nat
    BY ThreadAssumption, FS_CardinalityType
  <2> QED BY <2>1, <2>2, FS_EmptySet DEF CountOf
<1> QED BY <1>1, CountStep, Inductive, PTL DEF Spec

(* When all parameter sets fit, each is built at most once by every thread.*)
THEOREM BuildsAreBounded == Spec => []BuildsBounded
<1>1. IInv /\ CountInv => BuildsBounded
  <2> SUFFICES ASSUME IInv, CountInv, Fits, NEW p \in Params
               PROVE  builds[p] <= Cardinality(Threads)
    BY DEF BuildsBounded
  <2>1. builds[p] + Cardinality(At("build", p)) <= Cardinality(Threads)
    BY DEF CountInv, CountOf
  <2>2. builds[p] \in Nat
    BY DEF IInv, TypeOK
  <2> QED BY <2>1, <2>2, AtFinite
<1> QED BY <1>1, Counted, Inductive, PTL
----------------------------------------------------------------------------
(* The order of use.  The lookup and the store of functools.lru_cache keep *)
(* the cached keys in one line, so there is always one that was used       *)
(* longest ago, and only one: Replace is never stuck and has no choice.    *)

(* R puts the members of S in one line, and nothing else.                  *)
Lines(R, S) ==
    /\ R \subseteq S \X S
    /\ \A i, j \in S : i # j => <<i, j>> \in R \/ <<j, i>> \in R
    /\ \A i, j \in S : <<i, j>> \in R => <<j, i>> \notin R
    /\ \A i, j, k \in S : <<i, j>> \in R /\ <<j, k>> \in R => <<i, k>> \in R

OrderInv == Lines(older, Cached)

(* The key that is used goes to the end of the line.                       *)
LEMMA TouchLines ==
  ASSUME OrderInv, NEW k \in Keys, NEW S \in SUBSET Cached
  PROVE  Lines(Touch(k, S), S \cup {k})
<1> DEFINE T == Touch(k, S)
           U == S \cup {k}
<1>1. \A i, j \in U : <<i, j>> \in T <=>
          i \in S \ {k} /\ (j = k \/ (j \in S \ {k} /\ <<i, j>> \in older))
  BY DEF Touch
<1>2. T \subseteq U \X U
  BY DEF Touch, OrderInv, Lines
<1>3. /\ \A i, j \in Cached : i # j => <<i, j>> \in older \/ <<j, i>> \in older
      /\ \A i, j \in Cached : <<i, j>> \in older => <<j, i>> \notin older
      /\ \A i, j, l \in Cached :
            <<i, j>> \in older /\ <<j, l>> \in older => <<i, l>> \in older
  BY DEF OrderInv, Lines
<1> HIDE DEF T
<1>4. \A i, j \in U : i # j => <<i, j>> \in T \/ <<j, i>> \in T
  BY <1>1, <1>3
<1>5. \A i, j \in U : <<i, j>> \in T => <<j, i>> \notin T
  BY <1>1, <1>3
<1>6. \A i, j, l \in U : <<i, j>> \in T /\ <<j, l>> \in T => <<i, l>> \in T
  BY <1>1, <1>3
<1> QED BY <1>2, <1>4, <1>5, <1>6 DEF Lines, T

LEMMA OrderStep == IInv /\ OrderInv /\ [Next]_vars => OrderInv'
<1> SUFFICES ASSUME IInv, OrderInv, [Next]_vars PROVE OrderInv'
  OBVIOUS
<1>0. TypeOK /\ HandlerInv /\ EntryInv
  BY DEF IInv
<1>1. CASE UNCHANGED <<cache, older>>
  BY <1>1 DEF OrderInv, Cached
<1>2. ASSUME NEW th \in Threads, Hit(th) PROVE OrderInv'
  <2>1. /\ MyKey(th) \in Cached /\ older' = Touch(MyKey(th), Cached)
        /\ Cached' = Cached
    BY <1>2 DEF Hit, Cached
  <2>2. MyKey(th) \in Keys /\ Cached \cup {MyKey(th)} = Cached
    BY <2>1 DEF Cached
  <2>3. Lines(Touch(MyKey(th), Cached), Cached \cup {MyKey(th)})
    BY <2>2, TouchLines
  <2> QED BY <2>1, <2>2, <2>3 DEF OrderInv
<1>3. ASSUME NEW th \in Threads, Store(th) PROVE OrderInv'
  <2>1. /\ MyKey(th) \in Keys /\ older' = Touch(MyKey(th), Cached)
        /\ Cached' = Cached \cup {MyKey(th)}
    BY <1>0, <1>3, CacheAfterStore DEF Store
  <2>2. Lines(Touch(MyKey(th), Cached), Cached \cup {MyKey(th)})
    BY <2>1, TouchLines
  <2> QED BY <2>1, <2>2 DEF OrderInv
<1>4. ASSUME NEW th \in Threads, Replace(th) PROVE OrderInv'
  <2>1. MyKey(th) \in Keys /\ pc[th] = "store"
    BY <1>0, <1>4, CacheAfterReplace DEF Replace
  <2>2. PICK victim \in Cached :
           /\ Cached' = (Cached \ {victim}) \cup {MyKey(th)}
           /\ older' = Touch(MyKey(th), Cached \ {victim})
    BY <1>0, <1>4, <2>1, CacheAfterReplace
  <2>3. Lines(Touch(MyKey(th), Cached \ {victim}), (Cached \ {victim}) \cup {MyKey(th)})
    BY <2>1, TouchLines
  <2> QED BY <2>2, <2>3 DEF OrderInv
<1>5. ASSUME NEW th \in Threads,
             (\E p \in Params : Enter(th, p)) \/ Miss(th) \/ BuildFails(th)
                \/ Build(th) \/ StoreTooLate(th) \/ Leave(th)
      PROVE  OrderInv'
  BY <1>1, <1>5 DEF Enter, Miss, BuildFails, Build, StoreTooLate, Leave
<1>6. CASE UNCHANGED vars
  BY <1>1, <1>6 DEF vars
<1> QED BY <1>2, <1>3, <1>4, <1>5, <1>6 DEF Next

(* A set of numbers has a least one.                                       *)
LEMMA Least ==
  ASSUME NEW T \in SUBSET Nat, T # {}
  PROVE  \E x \in T : \A y \in T : x <= y
<1> DEFINE R == OpToRel(<, Nat)
<1>1. IsWellFoundedOn(R, Nat)
  BY NatLessThanWellFounded
<1> HIDE DEF R
<1>2. PICK x \in T : \A y \in T : ~(<<y, x>> \in R)
  BY <1>1, WFMin
<1>3. \A m, n \in Nat : m < n => <<m, n>> \in R
  BY DEF R, OpToRel
<1>4. ASSUME NEW y \in T PROVE x <= y
  <2>1. x \in Nat /\ y \in Nat
    OBVIOUS
  <2>2. ~(y < x)
    BY <2>1, <1>2, <1>3
  <2> QED BY <2>1, <2>2
<1> QED BY <1>4

(* A finite line has a first.                                              *)
LEMMA LineHasFirst ==
  ASSUME NEW R, NEW S, IsFiniteSet(S), S # {}, Lines(R, S)
  PROVE  \E m \in S : \A k \in S \ {m} : <<m, k>> \in R
<1> DEFINE Before(m) == {j \in S : <<j, m>> \in R}
           counts == {Cardinality(Before(m)) : m \in S}
<1>1. \A m \in S : IsFiniteSet(Before(m)) /\ Cardinality(Before(m)) \in Nat
  BY FS_Subset, FS_CardinalityType
<1>2. counts \subseteq Nat /\ counts # {}
  BY <1>1
<1>3. PICK n \in counts : \A y \in counts : n <= y
  <2> HIDE DEF counts
  <2> QED BY <1>2, Least
<1>4. PICK m \in S : n = Cardinality(Before(m))
  OBVIOUS
<1>5. ASSUME NEW j \in Before(m) PROVE FALSE
  <2>1. j \in S /\ <<j, m>> \in R
    OBVIOUS
  <2>2. Before(j) \subseteq Before(m)
    BY <2>1 DEF Lines
  <2>3. j \notin Before(j)
    BY <2>1 DEF Lines
  <2>4. Cardinality(Before(j)) < Cardinality(Before(m))
    <3>1. Before(j) # Before(m)
      BY <2>3
    <3>2. IsFiniteSet(Before(m))
      BY <1>1
    <3>3. /\ Cardinality(Before(j)) <= Cardinality(Before(m))
          /\ Cardinality(Before(j)) = Cardinality(Before(m)) => Before(j) = Before(m)
      <4> HIDE DEF Before
      <4> QED BY <2>2, <3>2, FS_Subset
    <3>4. Cardinality(Before(j)) \in Nat /\ Cardinality(Before(m)) \in Nat
      BY <1>1, <2>1
    <3> QED BY <3>1, <3>3, <3>4
  <2>5. n <= Cardinality(Before(j))
    BY <1>3, <2>1
  <2>6. Cardinality(Before(j)) \in Nat /\ Cardinality(Before(m)) \in Nat
    BY <1>1, <2>1
  <2> QED BY <1>4, <2>4, <2>5, <2>6
<1>6. \A k \in S \ {m} : <<m, k>> \in R
  BY <1>5 DEF Lines
<1> QED BY <1>6

(* The keys that Replace may evict.                                        *)
Victims == {v \in Cached : \A k \in Cached \ {v} : <<v, k>> \in older}

(* At any time exactly one of the cached contexts was used longest ago, so *)
(* a full cache always has something to evict, and the order of use alone  *)
(* says what.                                                              *)
THEOREM OneVictim ==
  Spec => [](Cached # {} => \E v \in Cached : Victims = {v})
<1>1. Init => OrderInv
  BY DEF Init, OrderInv, Lines, Cached
<1>2. ASSUME IInv, OrderInv, Cached # {} PROVE \E v \in Cached : Victims = {v}
  <2>1. IsFiniteSet(Cached)
    BY <1>2 DEF IInv, SizeInv
  <2>2. PICK v \in Cached : \A k \in Cached \ {v} : <<v, k>> \in older
    BY <1>2, <2>1, LineHasFirst DEF OrderInv
  <2>3. ASSUME NEW w \in Victims PROVE w = v
    BY <1>2, <2>2, <2>3 DEF Victims, OrderInv, Lines
  <2> QED BY <2>2, <2>3 DEF Victims
<1> QED BY <1>1, <1>2, OrderStep, Inductive, PTL DEF Spec

----------------------------------------------------------------------------
(* Handlers do not hold each other up.                                     *)

(* What a handler that is in the cache goes on with: the conditions of     *)
(* Hit, Miss, BuildFails, Build, StoreTooLate, Store, Replace and Leave.   *)
HandlerReady(th) ==
    \/ pc[th] = "lookup"
    \/ pc[th] = "build" /\ (model[th] \in Unusable \/ builds[model[th]] < MaxBuilds)
    \/ pc[th] = "store" /\ MyKey(th) \in Cached
    \/ pc[th] = "store" /\ MyKey(th) \notin Cached /\ ~Full
    \/ pc[th] = "store" /\ MyKey(th) \notin Cached /\ Full /\ Victims # {}
    \/ pc[th] = "using"

(* The bound of the model, which has no counterpart in the code, holds     *)
(* this handler up.                                                        *)
AtBound(th) ==
    pc[th] = "build" /\ model[th] \notin Unusable /\ builds[model[th]] >= MaxBuilds

(* Steps to go: at most three in a call, two calls, and the use.           *)
HandlerRank(th) ==
    IF pc[th] = "idle" THEN 0
    ELSE IF pc[th] = "using" THEN 1
    ELSE (IF call[th] = 1 THEN 4 ELSE 1)
            + (IF pc[th] = "lookup" THEN 3 ELSE IF pc[th] = "build" THEN 2 ELSE 1)

(* The steps of a request that has entered.                                *)
Own(th) ==
    \/ Hit(th) \/ Miss(th) \/ BuildFails(th) \/ Build(th)
    \/ StoreTooLate(th) \/ Store(th) \/ Replace(th) \/ Leave(th)

(* A handler that has entered has a step to take, whatever the others      *)
(* build, cache and evict: nothing but the bound of the model ever holds   *)
(* it up.  When all parameter sets fit and the bound is not below the      *)
(* number of threads, that does not either, however many requests come:    *)
(* no handler gets as far as a build that the bound forbids.               *)
THEOREM HandlersNeverWait ==
  Spec => [](\A th \in Threads : pc[th] # "idle" =>
                /\ HandlerReady(th) \/ AtBound(th)
                /\ Fits /\ Cardinality(Threads) <= MaxBuilds => HandlerReady(th))
<1>1. ASSUME IInv, CountInv, Cached # {} => \E v \in Cached : Victims = {v},
             NEW th \in Threads, pc[th] # "idle"
      PROVE  /\ HandlerReady(th) \/ AtBound(th)
             /\ Fits /\ Cardinality(Threads) <= MaxBuilds => HandlerReady(th)
  <2>1. pc[th] \in {"lookup", "build", "store", "using"} /\ model[th] \in Params
    BY <1>1 DEF IInv, TypeOK, HandlerInv
  <2>2. CASE pc[th] = "build"
    <3>1. builds[model[th]] \in Nat /\ MaxBuilds \in Nat
      BY <1>1, <2>1, SizeAssumption DEF IInv, TypeOK
    <3>2. HandlerReady(th) \/ AtBound(th)
      BY <2>2, <3>1 DEF HandlerReady, AtBound
    <3>3. ASSUME Fits, Cardinality(Threads) <= MaxBuilds
          PROVE  builds[model[th]] < MaxBuilds
      <4> DEFINE B == At("build", model[th])
      <4>1. builds[model[th]] + Cardinality(B) <= Cardinality(Threads)
        BY <1>1, <2>1, <3>3 DEF CountInv, CountOf
      <4>2. IsFiniteSet(B) /\ Cardinality(B) \in Nat /\ Cardinality(Threads) \in Nat
        BY AtFinite
      <4>3. B # {}
        BY <2>2 DEF At
      <4>4. Cardinality(B) # 0
        BY <4>2, <4>3, FS_EmptySet
      <4> QED BY <3>1, <3>3, <4>1, <4>2, <4>4
    <3> QED BY <2>2, <3>2, <3>3 DEF HandlerReady
  <2>3. CASE pc[th] = "store"
    <3>1. ASSUME Full PROVE Victims # {}
      <4>1. Cached # {}
        BY <3>1, FS_EmptySet, SizeAssumption DEF Full
      <4> QED BY <1>1, <4>1
    <3> QED BY <2>3, <3>1 DEF HandlerReady
  <2> QED BY <2>1, <2>2, <2>3 DEF HandlerReady
<1>2. IInv /\ CountInv /\ (Cached # {} => \E v \in Cached : Victims = {v})
        => \A th \in Threads : pc[th] # "idle" =>
              /\ HandlerReady(th) \/ AtBound(th)
              /\ Fits /\ Cardinality(Threads) <= MaxBuilds => HandlerReady(th)
  BY <1>1
<1> QED BY <1>2, Inductive, Counted, OneVictim, PTL

(* A request is through the cache in at most seven steps of its own: each  *)
(* of them leaves fewer, and no step of another handler adds any.          *)
THEOREM RequestIsShort ==
  Spec => [][\A th \in Threads :
                /\ HandlerRank(th) \in 0 .. 7
                /\ HandlerRank(th)' # HandlerRank(th) =>
                      \/ HandlerRank(th)' < HandlerRank(th)
                      \/ \E p \in Params : Enter(th, p)
                /\ Own(th) => HandlerRank(th)' < HandlerRank(th)]_vars
<1>1. ASSUME IInv, NEW th \in Threads PROVE HandlerRank(th) \in 0 .. 7
  BY <1>1 DEF HandlerRank
<1>2. ASSUME IInv, NEW th \in Threads, Own(th)
      PROVE  HandlerRank(th)' < HandlerRank(th)
  <2>1. TypeOK
    BY <1>2 DEF IInv
  <2>2. CASE Miss(th) \/ BuildFails(th) \/ Build(th) \/ Leave(th)
    BY <2>1, <2>2 DEF Miss, BuildFails, Build, Leave, TypeOK, HandlerRank
  <2>3. CASE Hit(th) \/ StoreTooLate(th) \/ Store(th) \/ Replace(th)
    <3>1. pc[th] \in {"lookup", "store"} /\ Return(th)
      BY <2>3 DEF Hit, StoreTooLate, Store, Replace
    <3>2. \/ call[th] = 1 /\ pc'[th] = "lookup" /\ call'[th] = 2
          \/ call[th] = 2 /\ pc'[th] = "using"
      BY <2>1, <3>1, ReturnSteps
    <3> QED BY <3>1, <3>2 DEF HandlerRank
  <2> QED BY <1>2, <2>2, <2>3 DEF Own
<1>3. ASSUME IInv, Next, NEW th \in Threads, HandlerRank(th)' # HandlerRank(th)
      PROVE  HandlerRank(th)' < HandlerRank(th) \/ \E p \in Params : Enter(th, p)
  <2>1. PICK o \in Threads : Own(o) \/ \E p \in Params : Enter(o, p)
    BY <1>3 DEF Next, Own
  <2>2. CASE o = th
    BY <1>2, <1>3, <2>1, <2>2
  <2>3. CASE o # th
    <3>1. pc'[th] = pc[th] /\ call'[th] = call[th]
      BY <1>3, <2>1, <2>3, OthersStay DEF IInv, Own
    <3> QED BY <1>3, <3>1 DEF HandlerRank
  <2> QED BY <2>2, <2>3
<1>4. IInv /\ [Next]_vars =>
        [\A th \in Threads :
            /\ HandlerRank(th) \in 0 .. 7
            /\ HandlerRank(th)' # HandlerRank(th) =>
                  \/ HandlerRank(th)' < HandlerRank(th)
                  \/ \E p \in Params : Enter(th, p)
            /\ Own(th) => HandlerRank(th)' < HandlerRank(th)]_vars
  BY <1>1, <1>2, <1>3
<1> QED BY <1>4, Inductive, PTL DEF Spec
=============================================================================
