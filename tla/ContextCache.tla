---------------------------- MODULE ContextCache ----------------------------
(***************************************************************************)
(* The cache of CKKS contexts, server/core/crypto/context_cache.py, and    *)
(* the two calls POST /infer makes of it (server/app/routes/infer.py), the *)
(* second of them with the arguments of the first.                         *)
(*                                                                         *)
(* The cache is functools.lru_cache.  A lookup is atomic, and so is what   *)
(* it does after the wrapped function has returned, but the function runs  *)
(* in between with no lock held: handlers that miss one key at a time all  *)
(* build a context of their own.  The first to be done has its context     *)
(* cached, the others keep theirs to themselves.                           *)
(***************************************************************************)
EXTENDS Integers, FiniteSets

CONSTANTS
    Threads,        \* worker threads that run POST /infer
    Params,         \* parameter sets of the registered models, see below
    Unusable,       \* those contextGen refuses
    MaxSize,        \* maxsize of the lru_cache, 16 in the code
    MaxBuilds,      \* bound: contexts built with one parameter set
    None            \* no entry, no context

(* The framework's pool of worker threads is limited.                      *)
ASSUME ThreadAssumption == IsFiniteSet(Threads)

(* What the route passes on; he_scheme is "CKKS" in every registry entry.  *)
ASSUME ParamsAssumption ==
    \A p \in Params :
        p = [degree |-> p.degree, bits |-> p.bits, scale |-> p.scale]
ASSUME UnusableAssumption == Unusable \subseteq Params
ASSUME SizeAssumption == MaxSize \in Nat \ {0} /\ MaxBuilds \in Nat

(* Mutant: the scale is left out of the key.                               *)
KeyWithoutScale(p) == <<p.degree, p.bits>>

(* lru_cache compares the positional arguments of a call.                  *)
Key(p) == <<p.degree, p.bits, p.scale>>

Keys == {Key(p) : p \in Params}

(* A Pyfhel object; serial tells the objects of one parameter set apart.   *)
Context(p, n) == [params |-> p, serial |-> n]

Contexts == [params : Params, serial : Nat]

ASSUME NoneAssumption == None \notin Params /\ None \notin Contexts

VARIABLES
    cache,      \* key -> context, or None
    older,      \* <<j, k>>: both are cached, j was used longer ago than k
    builds,     \* how often contextGen has succeeded for a parameter set
    pc,         \* where each handler is
    model,      \* parameter set of the model the request names, or None
    call,       \* which of the two calls the handler is in
    context     \* the handler's local `context`, or what it has just built

vars == <<cache, older, builds, pc, model, call, context>>

Cached == {k \in Keys : cache[k] # None}

MyKey(th) == Key(model[th])

(* Mutant: lru_cache(maxsize=None).                                        *)
FullNever == FALSE

Full == Cardinality(Cached) >= MaxSize

(* Key k becomes the most recently used of the keys in S.                  *)
Touch(k, S) ==
    {pair \in older : pair[1] \in S \ {k} /\ pair[2] \in S \ {k}}
        \cup (S \ {k}) \X {k}

(* Mutant: without the second call.                                        *)
ReturnAtOnce(th) ==
    /\ pc' = [pc EXCEPT ![th] = "using"]
    /\ UNCHANGED call

(* The call returns: its caller makes the second one, or has its context.  *)
Return(th) ==
    IF call[th] = 1
    THEN /\ call' = [call EXCEPT ![th] = 2]
         /\ pc' = [pc EXCEPT ![th] = "lookup"]
    ELSE /\ pc' = [pc EXCEPT ![th] = "using"]
         /\ UNCHANGED call

----------------------------------------------------------------------------
(* Mutants of the actions below: the errors the properties are there for.  *)

(* A failed build leaves an entry, so that it is not tried again.          *)
BuildFailureStored(th) ==
    /\ pc[th] = "build"
    /\ model[th] \in Unusable
    /\ cache' = [cache EXCEPT ![MyKey(th)] = Context(model[th], -1)]
    /\ pc' = [pc EXCEPT ![th] = "idle"]
    /\ model' = [model EXCEPT ![th] = None]
    /\ context' = [context EXCEPT ![th] = None]
    /\ UNCHANGED <<older, builds, call>>

(* A request clears the cache when it is done.                             *)
LeaveCleared(th) ==
    /\ pc[th] = "using"
    /\ cache' = [k \in Keys |-> None]
    /\ older' = {}
    /\ pc' = [pc EXCEPT ![th] = "idle"]
    /\ model' = [model EXCEPT ![th] = None]
    /\ context' = [context EXCEPT ![th] = None]
    /\ UNCHANGED <<builds, call>>

----------------------------------------------------------------------------
Init ==
    /\ cache = [k \in Keys |-> None]
    /\ older = {}
    /\ builds = [p \in Params |-> 0]
    /\ pc = [th \in Threads |-> "idle"]
    /\ model = [th \in Threads |-> None]
    /\ call = [th \in Threads |-> 1]
    /\ context = [th \in Threads |-> None]

(* A request has passed its schema and named a registered model.           *)
Enter(th, p) ==
    /\ pc[th] = "idle"
    /\ pc' = [pc EXCEPT ![th] = "lookup"]
    /\ model' = [model EXCEPT ![th] = p]
    /\ call' = [call EXCEPT ![th] = 1]
    /\ UNCHANGED <<cache, older, builds, context>>

Hit(th) ==
    /\ pc[th] = "lookup"
    /\ MyKey(th) \in Cached
    /\ context' = [context EXCEPT ![th] = cache[MyKey(th)]]
    /\ older' = Touch(MyKey(th), Cached)
    /\ Return(th)
    /\ UNCHANGED <<cache, builds, model>>

Miss(th) ==
    /\ pc[th] = "lookup"
    /\ MyKey(th) \notin Cached
    /\ pc' = [pc EXCEPT ![th] = "build"]
    /\ UNCHANGED <<cache, older, builds, model, call, context>>

(* generate_ckks_context raises: the handler answers 500, nothing is       *)
(* cached, and the next request tries again.                               *)
BuildFails(th) ==
    /\ pc[th] = "build"
    /\ model[th] \in Unusable
    /\ pc' = [pc EXCEPT ![th] = "idle"]
    /\ model' = [model EXCEPT ![th] = None]
    /\ context' = [context EXCEPT ![th] = None]
    /\ UNCHANGED <<cache, older, builds, call>>

Build(th) ==
    /\ pc[th] = "build"
    /\ model[th] \notin Unusable
    /\ builds[model[th]] < MaxBuilds
    /\ builds' = [builds EXCEPT ![model[th]] = @ + 1]
    /\ context' = [context EXCEPT ![th] =
                      Context(model[th], builds[model[th]] + 1)]
    /\ pc' = [pc EXCEPT ![th] = "store"]
    /\ UNCHANGED <<cache, older, model, call>>

(* Another handler cached the key while this one built: its entry stays.   *)
StoreTooLate(th) ==
    /\ pc[th] = "store"
    /\ MyKey(th) \in Cached
    /\ Return(th)
    /\ UNCHANGED <<cache, older, builds, model, context>>

Store(th) ==
    /\ pc[th] = "store"
    /\ MyKey(th) \notin Cached
    /\ ~Full
    /\ cache' = [cache EXCEPT ![MyKey(th)] = context[th]]
    /\ older' = Touch(MyKey(th), Cached)
    /\ Return(th)
    /\ UNCHANGED <<builds, model, context>>

(* The least recently used key makes room.                                 *)
Replace(th) ==
    /\ pc[th] = "store"
    /\ MyKey(th) \notin Cached
    /\ Full
    /\ \E victim \in Cached :
          /\ \A k \in Cached \ {victim} : <<victim, k>> \in older
          /\ cache' = [cache EXCEPT ![victim] = None, ![MyKey(th)] = context[th]]
          /\ older' = Touch(MyKey(th), Cached \ {victim})
    /\ Return(th)
    /\ UNCHANGED <<builds, model, context>>

(* The handler has deserialised, evaluated and answered.                   *)
Leave(th) ==
    /\ pc[th] = "using"
    /\ pc' = [pc EXCEPT ![th] = "idle"]
    /\ model' = [model EXCEPT ![th] = None]
    /\ context' = [context EXCEPT ![th] = None]
    /\ UNCHANGED <<cache, older, builds, call>>

Next ==
    \E th \in Threads :
        \/ \E p \in Params : Enter(th, p)
        \/ Hit(th)
        \/ Miss(th)
        \/ BuildFails(th)
        \/ Build(th)
        \/ StoreTooLate(th)
        \/ Store(th)
        \/ Replace(th)
        \/ Leave(th)

Spec == Init /\ [][Next]_vars
----------------------------------------------------------------------------
(* Every variable has its type.                                            *)
TypeOK ==
    /\ cache \in [Keys -> Contexts \cup {None}]
    /\ older \subseteq Keys \X Keys
    /\ builds \in [Params -> Nat]
    /\ pc \in [Threads -> {"idle", "lookup", "build", "store", "using"}]
    /\ model \in [Threads -> Params \cup {None}]
    /\ call \in [Threads -> {1, 2}]
    /\ context \in [Threads -> Contexts \cup {None}]

(* A ciphertext is deserialised and evaluated under the parameters of the  *)
(* model its request names, whoever built the context and whatever has     *)
(* been evicted in between.                                                *)
RightContext ==
    \A th \in Threads :
        pc[th] = "using" => context[th].params = model[th]

(* However many handlers miss at once, the cache keeps to its size.        *)
CacheBounded == Cardinality(Cached) <= MaxSize

(* Every parameter set fits: the cache never has to evict.                 *)
Fits == IsFiniteSet(Keys) /\ Cardinality(Keys) <= MaxSize

(* tests/server/test_context_cache.py, with threads: requests that are     *)
(* served at one time for one parameter set use one and the same context   *)
(* object, although each of them may have built its own.  The second call  *)
(* of the route is what makes it so.                                       *)
ContextShared ==
    Fits => \A th, other \in Threads :
        pc[th] = "using" /\ pc[other] = "using" /\ model[th] = model[other]
            => context[th] = context[other]

(* The second call of a handler never builds: the first has left an entry, *)
(* its own or a faster handler's, and it is still there.                   *)
SecondCallHits ==
    Fits => \A th \in Threads : pc[th] \in {"build", "store"} => call[th] = 1

(* A parameter set is built at most once by every thread, all of them      *)
(* before the first is cached; requests alone never cause another build.   *)
BuildsBounded ==
    Fits => \A p \in Params : builds[p] <= Cardinality(Threads)
============================================================================
