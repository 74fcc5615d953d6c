---------------------------- MODULE RateLimiter ----------------------------
(***************************************************************************)
(* The per-tenant sliding-window limiter of the two inference routes:      *)
(* server/core/security/rate_limits.py, keyed by the tenant that           *)
(* server/core/security/tenanting.py reads from the X-Tenant-ID header.    *)
(*                                                                         *)
(* The routes are plain `def` handlers, so the web framework runs them on  *)
(* a pool of threads.  A handler reads the clock BEFORE it takes _lock, so *)
(* stamps can enter a bucket out of order.  Everything after that happens  *)
(* under _lock; the model keeps the steps inside the critical section      *)
(* apart, so that it is the lock that makes them safe and not the grain    *)
(* of the actions.                                                         *)
(***************************************************************************)
EXTENDS Integers, Sequences, FiniteSets

CONSTANTS
    Threads,        \* worker threads that run route handlers
    Names,          \* non-blank tenant names a header can carry
    DefaultTenant,  \* the literal "default"
    Nobody,         \* _lock is free
    Limit,          \* _LIMIT
    Window,         \* _WINDOW_SECONDS
    MaxTime,        \* bound: the clock stops here
    MaxHits         \* bound: no arrival once a tenant has this many admissions

ASSUME LimitAssumption  == Limit \in Nat \ {0}
ASSUME WindowAssumption == Window \in Nat \ {0}
ASSUME ThreadAssumption == Nobody \notin Threads

VARIABLES
    clock,      \* what time() returns
    lock,       \* holder of _lock, or Nobody
    hits,       \* _hits: tenant -> deque of stamps, oldest append first
    pc,         \* where each thread is in enforce_infer_rate_limit
    tenant,     \* the thread's tenant_id argument
    now,        \* the thread's local `now`
    admitted    \* history: every stamp ever appended for the tenant

vars == <<clock, lock, hits, pc, tenant, now, admitted>>

----------------------------------------------------------------------------
(* A header is absent, or a name with or without surrounding blanks, or    *)
(* nothing but blanks.                                                     *)
Absent  == [kind |-> "absent"]
Blank   == [kind |-> "blank"]
Headers == {Absent, Blank} \cup [kind : {"name", "padded"}, name : Names]

Tenants == Names \cup {DefaultTenant}

(* get_tenant_id: strip, and fall back to the shared default tenant.       *)
TenantId(h) == IF h \in {Absent, Blank} THEN DefaultTenant ELSE h.name

Cutoff(th) == now[th] - Window

(* Mutant: `<=` drops a hit that is exactly Window seconds old.            *)
HeadExpiredEarly(th) ==
    LET bucket == hits[tenant[th]] IN
    bucket # <<>> /\ Head(bucket) <= Cutoff(th)

(* The loop guard `bucket and bucket[0] < cutoff`.                         *)
HeadExpired(th) ==
    LET bucket == hits[tenant[th]] IN
    bucket # <<>> /\ Head(bucket) < Cutoff(th)

----------------------------------------------------------------------------
(* Mutants of the actions below: the errors the properties are there for.  *)

(* The stamp taken is the cutoff.                                          *)
ArriveWithCutoff(th, h) ==
    /\ pc[th] = "idle"
    /\ Len(admitted[TenantId(h)]) < MaxHits
    /\ tenant' = [tenant EXCEPT ![th] = TenantId(h)]
    /\ now' = [now EXCEPT ![th] = clock - Window]
    /\ pc' = [pc EXCEPT ![th] = "stamped"]
    /\ UNCHANGED <<clock, lock, hits, admitted>>

(* No lock around the test and the append.                                 *)
AcquireNothing(th) ==
    /\ pc[th] = "stamped"
    /\ lock' = th
    /\ pc' = [pc EXCEPT ![th] = "prune"]
    /\ UNCHANGED <<clock, hits, tenant, now, admitted>>

(* The length test comes before the pruning is done.                       *)
RejectUnpruned(th) ==
    /\ pc[th] = "prune"
    /\ Len(hits[tenant[th]]) >= Limit
    /\ lock' = Nobody
    /\ pc' = [pc EXCEPT ![th] = "idle"]
    /\ UNCHANGED <<clock, hits, tenant, now, admitted>>

(* acquire() and release() by hand, and no release on the 429 path.        *)
RejectLocked(th) ==
    /\ pc[th] = "prune"
    /\ ~HeadExpired(th)
    /\ Len(hits[tenant[th]]) >= Limit
    /\ pc' = [pc EXCEPT ![th] = "idle"]
    /\ UNCHANGED <<clock, lock, hits, tenant, now, admitted>>

----------------------------------------------------------------------------
Init ==
    /\ clock = 0
    /\ lock = Nobody
    /\ hits = [t \in Tenants |-> <<>>]
    /\ pc = [th \in Threads |-> "idle"]
    /\ tenant = [th \in Threads |-> DefaultTenant]
    /\ now = [th \in Threads |-> 0]
    /\ admitted = [t \in Tenants |-> <<>>]

Tick ==
    /\ clock < MaxTime
    /\ clock' = clock + 1
    /\ UNCHANGED <<lock, hits, pc, tenant, now, admitted>>

(* A request reaches the limiter: the clock is read outside the lock.      *)
Arrive(th, h) ==
    /\ pc[th] = "idle"
    /\ Len(admitted[TenantId(h)]) < MaxHits
    /\ tenant' = [tenant EXCEPT ![th] = TenantId(h)]
    /\ now' = [now EXCEPT ![th] = clock]
    /\ pc' = [pc EXCEPT ![th] = "stamped"]
    /\ UNCHANGED <<clock, lock, hits, admitted>>

(* `with _lock:`                                                           *)
Acquire(th) ==
    /\ pc[th] = "stamped"
    /\ lock = Nobody
    /\ lock' = th
    /\ pc' = [pc EXCEPT ![th] = "prune"]
    /\ UNCHANGED <<clock, hits, tenant, now, admitted>>

(* One turn of the pruning loop.                                           *)
PopExpired(th) ==
    /\ pc[th] = "prune"
    /\ HeadExpired(th)
    /\ hits' = [hits EXCEPT ![tenant[th]] = Tail(@)]
    /\ UNCHANGED <<clock, lock, pc, tenant, now, admitted>>

(* The bucket is full: HTTP 429, and leaving the `with` frees the lock.    *)
Reject(th) ==
    /\ pc[th] = "prune"
    /\ ~HeadExpired(th)
    /\ Len(hits[tenant[th]]) >= Limit
    /\ lock' = Nobody
    /\ pc' = [pc EXCEPT ![th] = "idle"]
    /\ UNCHANGED <<clock, hits, tenant, now, admitted>>

(* The bucket has room: the test passed, the append is still to come.      *)
HasRoom(th) ==
    /\ pc[th] = "prune"
    /\ ~HeadExpired(th)
    /\ Len(hits[tenant[th]]) < Limit
    /\ pc' = [pc EXCEPT ![th] = "append"]
    /\ UNCHANGED <<clock, lock, hits, tenant, now, admitted>>

(* bucket.append(now), and out of the `with`.                              *)
Admit(th) ==
    /\ pc[th] = "append"
    /\ hits' = [hits EXCEPT ![tenant[th]] = Append(@, now[th])]
    /\ admitted' = [admitted EXCEPT ![tenant[th]] = Append(@, now[th])]
    /\ lock' = Nobody
    /\ pc' = [pc EXCEPT ![th] = "idle"]
    /\ UNCHANGED <<clock, tenant, now>>

InCritical(th) == PopExpired(th) \/ Reject(th) \/ HasRoom(th) \/ Admit(th)

Next ==
    \/ Tick
    \/ \E th \in Threads :
          \/ \E h \in Headers : Arrive(th, h)
          \/ Acquire(th)
          \/ PopExpired(th)
          \/ Reject(th)
          \/ HasRoom(th)
          \/ Admit(th)

Spec == Init /\ [][Next]_vars

(* The interpreter switches threads, so a thread inside the critical       *)
(* section, where nothing blocks, is scheduled again.  Nothing is assumed  *)
(* of who gets a free lock: threading.Lock is not a fair lock.             *)
FairSpec == Spec /\ \A th \in Threads : WF_vars(InCritical(th))

----------------------------------------------------------------------------
(* Every variable has its type.                                            *)
TypeOK ==
    /\ clock \in Nat
    /\ lock \in Threads \cup {Nobody}
    /\ hits \in [Tenants -> Seq(Nat)]
    /\ pc \in [Threads -> {"idle", "stamped", "prune", "append"}]
    /\ tenant \in [Threads -> Tenants]
    /\ now \in [Threads -> Nat]
    /\ admitted \in [Tenants -> Seq(Nat)]

(* The admissions of a tenant that carry a stamp of the last Window        *)
(* seconds, by the clock as it stands.                                     *)
Live(t) == {i \in 1..Len(admitted[t]) : admitted[t][i] >= clock - Window}

(* At no instant have more than Limit admitted requests of a tenant a      *)
(* stamp of the last Window seconds, however the threads interleave and    *)
(* however old the stamp is that a thread brings into the lock.            *)
LiveWindowBound == \A t \in Tenants : Cardinality(Live(t)) <= Limit

(* The bucket never outgrows _LIMIT: the length test and the append are    *)
(* two steps, and no other thread's append comes between them.             *)
BucketBounded == \A t \in Tenants : Len(hits[t]) <= Limit

(* A tenant is turned away only when Limit of its admissions really are    *)
(* within Window of the request's own stamp: a full bucket never holds a   *)
(* hit that has expired.  This is for tenants whose stamps have entered    *)
(* the bucket in order, as they do unless a handler overtakes another      *)
(* between its clock and the lock; see README, "what the limiter does not  *)
(* promise".                                                               *)
InOrder(s) == \A i, j \in 1..Len(s) : i <= j => s[i] <= s[j]

RejectionJustified ==
    [][\A th \in Threads :
          Reject(th) /\ InOrder(admitted[tenant[th]]) =>
            Cardinality({i \in 1..Len(admitted[tenant[th]]) :
                admitted[tenant[th]][i] >= Cutoff(th)}) >= Limit]_vars

(* Whoever takes the lock gives it back, on the 429 path too, and however  *)
(* many expired hits it has to drop first.                                 *)
LockReleased == \A th \in Threads : lock = th ~> lock # th
============================================================================
