------------------------- MODULE RateLimiterProofs -------------------------
(***************************************************************************)
(* Proofs about RateLimiter, for any number of threads and tenants, any    *)
(* _LIMIT and any _WINDOW_SECONDS.                                         *)
(***************************************************************************)
EXTENDS RateLimiter, FiniteSetTheorems, TLAPS

(* How many of the tenant's admissions have been pruned from its bucket.   *)
Popped(t) == Len(admitted[t]) - Len(hits[t])

(* A thread is inside the `with` exactly while it holds the lock.          *)
LockInv ==
    \A th \in Threads : pc[th] \in {"prune", "append"} <=> lock = th

(* A stamp was read from the clock in the past.                            *)
StampInv == \A th \in Threads : pc[th] # "idle" => now[th] <= clock

(* The bucket is a suffix of the history: pruning only drops the head.     *)
SuffixInv ==
    \A t \in Tenants :
        /\ Len(hits[t]) <= Len(admitted[t])
        /\ \A i \in 1..Len(hits[t]) : hits[t][i] = admitted[t][i + Popped(t)]

(* What has been pruned had left the window, and stays outside it.         *)
PopInv ==
    \A t \in Tenants : \A i \in 1..Popped(t) : admitted[t][i] < clock - Window

(* The room a thread saw is still there when it appends.                   *)
RoomInv ==
    \A th \in Threads : pc[th] = "append" => Len(hits[tenant[th]]) < Limit

SuffixPopInv == SuffixInv /\ PopInv

IInv ==
    /\ TypeOK
    /\ LockInv
    /\ StampInv
    /\ SuffixPopInv
    /\ RoomInv
    /\ BucketBounded

----------------------------------------------------------------------------
(* A header always names a tenant.                                         *)
LEMMA TenantIdType == \A h \in Headers : TenantId(h) \in Tenants
  BY DEF Headers, TenantId, Tenants, Absent, Blank

(* Type correctness is inductive on its own.                               *)
LEMMA TypeStep == TypeOK /\ [Next]_vars => TypeOK'
<1> SUFFICES ASSUME TypeOK, [Next]_vars PROVE TypeOK'
  OBVIOUS
<1> USE DEF TypeOK
<1>1. CASE Tick
  BY <1>1 DEF Tick
<1>2. ASSUME NEW th \in Threads, NEW h \in Headers, Arrive(th, h)
      PROVE  TypeOK'
  BY <1>2, TenantIdType DEF Arrive
<1>3. ASSUME NEW th \in Threads, Acquire(th) PROVE TypeOK'
  BY <1>3 DEF Acquire
<1>4. ASSUME NEW th \in Threads, PopExpired(th) PROVE TypeOK'
  <2>1. Tail(hits[tenant[th]]) \in Seq(Nat)
    BY <1>4 DEF PopExpired, HeadExpired
  <2> QED BY <2>1, <1>4 DEF PopExpired
<1>5. ASSUME NEW th \in Threads, Reject(th) PROVE TypeOK'
  BY <1>5 DEF Reject
<1>6. ASSUME NEW th \in Threads, HasRoom(th) PROVE TypeOK'
  BY <1>6 DEF HasRoom
<1>7. ASSUME NEW th \in Threads, Admit(th) PROVE TypeOK'
  <2>1. /\ Append(hits[tenant[th]], now[th]) \in Seq(Nat)
        /\ Append(admitted[tenant[th]], now[th]) \in Seq(Nat)
    OBVIOUS
  <2> QED BY <2>1, <1>7 DEF Admit
<1>8. CASE UNCHANGED vars
  BY <1>8 DEF vars
<1> QED BY <1>1, <1>2, <1>3, <1>4, <1>5, <1>6, <1>7, <1>8 DEF Next

(* Every variable keeps its type in every behaviour of the limiter.        *)
THEOREM TypeCorrect == Spec => []TypeOK
<1>1. Init => TypeOK
  BY DEF Init, TypeOK, Tenants
<1> QED BY <1>1, TypeStep, PTL DEF Spec

----------------------------------------------------------------------------
(* The lock protects the critical section.                                 *)
LEMMA LockStep == TypeOK /\ LockInv /\ [Next]_vars => LockInv'
<1> SUFFICES ASSUME TypeOK, LockInv, [Next]_vars PROVE LockInv'
  OBVIOUS
<1> USE ThreadAssumption DEF TypeOK, LockInv
<1>1. CASE Tick
  BY <1>1 DEF Tick
<1>2. ASSUME NEW th \in Threads, NEW h \in Headers, Arrive(th, h)
      PROVE  LockInv'
  BY <1>2 DEF Arrive
<1>3. ASSUME NEW th \in Threads, Acquire(th) PROVE LockInv'
  BY <1>3 DEF Acquire
<1>4. ASSUME NEW th \in Threads, PopExpired(th) PROVE LockInv'
  BY <1>4 DEF PopExpired
<1>5. ASSUME NEW th \in Threads, Reject(th) PROVE LockInv'
  BY <1>5 DEF Reject
<1>6. ASSUME NEW th \in Threads, HasRoom(th) PROVE LockInv'
  BY <1>6 DEF HasRoom
<1>7. ASSUME NEW th \in Threads, Admit(th) PROVE LockInv'
  BY <1>7 DEF Admit
<1>8. CASE UNCHANGED vars
  BY <1>8 DEF vars
<1> QED BY <1>1, <1>2, <1>3, <1>4, <1>5, <1>6, <1>7, <1>8 DEF Next

(* Stamps are never in the future.                                         *)
LEMMA StampStep == TypeOK /\ StampInv /\ [Next]_vars => StampInv'
<1> SUFFICES ASSUME TypeOK, StampInv, [Next]_vars PROVE StampInv'
  OBVIOUS
<1> USE DEF TypeOK, StampInv
<1>1. CASE Tick
  BY <1>1 DEF Tick
<1>2. ASSUME NEW th \in Threads, NEW h \in Headers, Arrive(th, h)
      PROVE  StampInv'
  BY <1>2 DEF Arrive
<1>3. ASSUME NEW th \in Threads, Acquire(th) PROVE StampInv'
  BY <1>3 DEF Acquire
<1>4. ASSUME NEW th \in Threads, PopExpired(th) PROVE StampInv'
  BY <1>4 DEF PopExpired
<1>5. ASSUME NEW th \in Threads, Reject(th) PROVE StampInv'
  BY <1>5 DEF Reject
<1>6. ASSUME NEW th \in Threads, HasRoom(th) PROVE StampInv'
  BY <1>6 DEF HasRoom
<1>7. ASSUME NEW th \in Threads, Admit(th) PROVE StampInv'
  BY <1>7 DEF Admit
<1>8. CASE UNCHANGED vars
  BY <1>8 DEF vars
<1> QED BY <1>1, <1>2, <1>3, <1>4, <1>5, <1>6, <1>7, <1>8 DEF Next

(* Dropping an expired head keeps the bucket a suffix of the history, and  *)
(* what it drops is outside the window because the stamp is in the past.   *)
LEMMA PopKeepsSuffix ==
  ASSUME TypeOK, StampInv, SuffixPopInv, NEW th \in Threads, PopExpired(th)
  PROVE  SuffixPopInv'
<1> USE DEF TypeOK
<1> PICK q \in Tenants : q = tenant[th]
  OBVIOUS
<1>1. /\ hits[q] # <<>>
      /\ Head(hits[q]) < now[th] - Window
      /\ hits' = [hits EXCEPT ![q] = Tail(hits[q])]
      /\ UNCHANGED <<clock, admitted>>
  BY DEF PopExpired, HeadExpired, Cutoff
<1>2. now[th] <= clock
  BY DEF PopExpired, StampInv
<1>3. ASSUME NEW t \in Tenants, t # q
      PROVE  hits'[t] = hits[t]
  BY <1>1, <1>3
<1>4. /\ hits'[q] = Tail(hits[q])
      /\ Len(hits'[q]) = Len(hits[q]) - 1
      /\ \A i \in 1..Len(hits'[q]) : hits'[q][i] = hits[q][i + 1]
  BY <1>1
<1>5. /\ Len(hits[q]) <= Len(admitted[q])
      /\ \A i \in 1..Len(hits[q]) : hits[q][i] = admitted[q][i + Popped(q)]
      /\ \A i \in 1..Popped(q) : admitted[q][i] < clock - Window
  BY DEF SuffixPopInv, SuffixInv, PopInv
<1>6. Popped(q)' = Popped(q) + 1
  BY <1>1, <1>4 DEF Popped
<1>7. \A i \in 1..Len(hits'[q]) : hits'[q][i] = admitted'[q][i + Popped(q)']
  <2> SUFFICES ASSUME NEW i \in 1..Len(hits'[q])
               PROVE  hits'[q][i] = admitted'[q][i + Popped(q)']
    OBVIOUS
  <2>1. /\ i + 1 \in 1..Len(hits[q])
        /\ hits'[q][i] = hits[q][i + 1]
    BY <1>4
  <2>2. hits[q][i + 1] = admitted[q][(i + 1) + Popped(q)]
    BY <2>1, <1>5
  <2>3. (i + 1) + Popped(q) = i + Popped(q)'
    <3>1. Popped(q) \in Int
      BY DEF Popped
    <3> QED BY <3>1, <1>6
  <2> QED BY <2>1, <2>2, <2>3, <1>1
<1>8. \A i \in 1..Popped(q)' : admitted'[q][i] < clock' - Window
  <2> SUFFICES ASSUME NEW i \in 1..Popped(q)'
               PROVE  admitted[q][i] < clock - Window
    BY <1>1
  <2>1. CASE i \in 1..Popped(q)
    BY <2>1, <1>5
  <2>2. CASE i = Popped(q) + 1
    <3>1. Head(hits[q]) = hits[q][1] /\ 1 \in 1..Len(hits[q])
      BY <1>1
    <3>2. hits[q][1] = admitted[q][1 + Popped(q)]
      BY <3>1, <1>5
    <3>3. 1 + Popped(q) = i
      BY <2>2 DEF Popped
    <3>4. admitted[q][i] = Head(hits[q])
      BY <3>1, <3>2, <3>3
    <3>5. /\ Head(hits[q]) \in Nat /\ now[th] \in Nat
          /\ clock \in Nat /\ Window \in Nat
      BY <1>1, WindowAssumption
    <3> QED BY <3>4, <3>5, <1>1, <1>2
  <2>3. Popped(q) \in Int
    BY DEF Popped
  <2> QED BY <2>1, <2>2, <2>3, <1>6
<1>9. Len(hits'[q]) <= Len(admitted'[q])
  BY <1>1, <1>4, <1>5
<1>10. ASSUME NEW t \in Tenants, t # q
       PROVE  /\ Len(hits'[t]) <= Len(admitted'[t])
              /\ \A i \in 1..Len(hits'[t]) :
                    hits'[t][i] = admitted'[t][i + Popped(t)']
              /\ \A i \in 1..Popped(t)' : admitted'[t][i] < clock' - Window
  BY <1>1, <1>3, <1>10 DEF SuffixPopInv, SuffixInv, PopInv, Popped
<1> QED BY <1>7, <1>8, <1>9, <1>10 DEF SuffixPopInv, SuffixInv, PopInv, Popped

(* An append goes to the end of the bucket and of the history alike.       *)
LEMMA AdmitKeepsSuffix ==
  ASSUME TypeOK, SuffixPopInv, NEW th \in Threads, Admit(th)
  PROVE  SuffixPopInv'
<1> USE DEF TypeOK
<1> PICK q \in Tenants : q = tenant[th]
  OBVIOUS
<1>1. /\ hits' = [hits EXCEPT ![q] = Append(hits[q], now[th])]
      /\ admitted' = [admitted EXCEPT ![q] = Append(admitted[q], now[th])]
      /\ UNCHANGED clock
  BY DEF Admit
<1>2. /\ Len(hits'[q]) = Len(hits[q]) + 1
      /\ Len(admitted'[q]) = Len(admitted[q]) + 1
      /\ \A i \in 1..Len(hits[q]) : hits'[q][i] = hits[q][i]
      /\ hits'[q][Len(hits[q]) + 1] = now[th]
      /\ \A i \in 1..Len(admitted[q]) : admitted'[q][i] = admitted[q][i]
      /\ admitted'[q][Len(admitted[q]) + 1] = now[th]
  BY <1>1
<1>3. /\ Len(hits[q]) <= Len(admitted[q])
      /\ \A i \in 1..Len(hits[q]) : hits[q][i] = admitted[q][i + Popped(q)]
      /\ \A i \in 1..Popped(q) : admitted[q][i] < clock - Window
  BY DEF SuffixPopInv, SuffixInv, PopInv
<1>4. Popped(q)' = Popped(q)
  BY <1>2 DEF Popped
<1>5. \A i \in 1..Len(hits'[q]) : hits'[q][i] = admitted'[q][i + Popped(q)']
  <2> SUFFICES ASSUME NEW i \in 1..Len(hits'[q])
               PROVE  hits'[q][i] = admitted'[q][i + Popped(q)]
    BY <1>4
  <2>1. CASE i \in 1..Len(hits[q])
    <3>1. i + Popped(q) \in 1..Len(admitted[q])
      BY <2>1, <1>3 DEF Popped
    <3> QED BY <3>1, <2>1, <1>2, <1>3
  <2>2. CASE i = Len(hits[q]) + 1
    <3>1. i + Popped(q) = Len(admitted[q]) + 1
      BY <2>2 DEF Popped
    <3> QED BY <3>1, <2>2, <1>2
  <2> QED BY <2>1, <2>2, <1>2
<1>6. \A i \in 1..Popped(q)' : admitted'[q][i] < clock' - Window
  <2> SUFFICES ASSUME NEW i \in 1..Popped(q)
               PROVE  admitted'[q][i] < clock - Window
    BY <1>1, <1>4
  <2>1. i \in 1..Len(admitted[q])
    BY DEF Popped
  <2> QED BY <2>1, <1>2, <1>3
<1>7. Len(hits'[q]) <= Len(admitted'[q])
  BY <1>2, <1>3
<1>8. ASSUME NEW t \in Tenants, t # q
      PROVE  /\ Len(hits'[t]) <= Len(admitted'[t])
             /\ \A i \in 1..Len(hits'[t]) :
                   hits'[t][i] = admitted'[t][i + Popped(t)']
             /\ \A i \in 1..Popped(t)' : admitted'[t][i] < clock' - Window
  BY <1>1, <1>8 DEF SuffixPopInv, SuffixInv, PopInv, Popped
<1> QED BY <1>5, <1>6, <1>7, <1>8 DEF SuffixPopInv, SuffixInv, PopInv, Popped

(* No other action moves a bucket or a history; the clock only makes a     *)
(* pruned stamp older.                                                     *)
LEMMA SuffixPopStep ==
  TypeOK /\ StampInv /\ SuffixPopInv /\ [Next]_vars => SuffixPopInv'
<1> SUFFICES ASSUME TypeOK, StampInv, SuffixPopInv, [Next]_vars
             PROVE  SuffixPopInv'
  OBVIOUS
<1>1. CASE Tick
  <2>1. clock' = clock + 1 /\ UNCHANGED <<hits, admitted>>
    BY <1>1 DEF Tick
  <2>2. SuffixInv'
    BY <2>1 DEF SuffixPopInv, SuffixInv, Popped
  <2>3. PopInv'
    <3> SUFFICES ASSUME NEW t \in Tenants, NEW i \in 1..Popped(t)
                 PROVE  admitted[t][i] < clock' - Window
      BY <2>1 DEF PopInv, Popped
    <3>1. admitted[t][i] < clock - Window
      BY DEF SuffixPopInv, PopInv
    <3>2. i \in 1..Len(admitted[t])
      BY DEF Popped, TypeOK
    <3>3. admitted[t][i] \in Nat /\ clock \in Nat /\ Window \in Nat
      BY <3>2, WindowAssumption DEF TypeOK
    <3> QED BY <3>1, <3>3, <2>1
  <2> QED BY <2>2, <2>3 DEF SuffixPopInv
<1>2. ASSUME UNCHANGED <<clock, hits, admitted>> PROVE SuffixPopInv'
  BY <1>2 DEF SuffixPopInv, SuffixInv, PopInv, Popped
<1>3. ASSUME NEW th \in Threads, NEW h \in Headers, Arrive(th, h)
      PROVE  SuffixPopInv'
  BY <1>2, <1>3 DEF Arrive
<1>4. ASSUME NEW th \in Threads, Acquire(th) \/ Reject(th) \/ HasRoom(th)
      PROVE  SuffixPopInv'
  BY <1>2, <1>4 DEF Acquire, Reject, HasRoom
<1>5. ASSUME NEW th \in Threads, PopExpired(th) PROVE SuffixPopInv'
  BY <1>5, PopKeepsSuffix
<1>6. ASSUME NEW th \in Threads, Admit(th) PROVE SuffixPopInv'
  BY <1>6, AdmitKeepsSuffix
<1>7. CASE UNCHANGED vars
  BY <1>2, <1>7 DEF vars
<1> QED BY <1>1, <1>3, <1>4, <1>5, <1>6, <1>7 DEF Next

----------------------------------------------------------------------------
(* Only the holder of the lock changes a bucket, so the length another     *)
(* thread tested cannot move before it appends, and nothing outgrows the   *)
(* limit.                                                                  *)
LEMMA RoomStep ==
  TypeOK /\ LockInv /\ RoomInv /\ BucketBounded /\ [Next]_vars
    => RoomInv' /\ BucketBounded'
<1> SUFFICES ASSUME TypeOK, LockInv, RoomInv, BucketBounded, [Next]_vars
             PROVE  RoomInv' /\ BucketBounded'
  OBVIOUS
<1> USE LimitAssumption, ThreadAssumption DEF TypeOK, RoomInv, BucketBounded
<1>1. CASE Tick
  BY <1>1 DEF Tick
<1>2. ASSUME NEW th \in Threads, NEW h \in Headers, Arrive(th, h)
      PROVE  RoomInv' /\ BucketBounded'
  BY <1>2 DEF Arrive
<1>3. ASSUME NEW th \in Threads, Acquire(th)
      PROVE  RoomInv' /\ BucketBounded'
  BY <1>3 DEF Acquire
<1>4. ASSUME NEW th \in Threads, PopExpired(th)
      PROVE  RoomInv' /\ BucketBounded'
  <2>1. \A t \in Tenants : Len(hits'[t]) <= Len(hits[t])
    BY <1>4 DEF PopExpired, HeadExpired
  <2>2. \A t \in Tenants : Len(hits[t]) \in Nat /\ Len(hits'[t]) \in Nat
    BY <1>4 DEF PopExpired, HeadExpired
  <2>3. UNCHANGED <<pc, tenant>>
    BY <1>4 DEF PopExpired
  <2> QED BY <2>1, <2>2, <2>3
<1>5. ASSUME NEW th \in Threads, Reject(th)
      PROVE  RoomInv' /\ BucketBounded'
  BY <1>5 DEF Reject
<1>6. ASSUME NEW th \in Threads, HasRoom(th)
      PROVE  RoomInv' /\ BucketBounded'
  BY <1>6 DEF HasRoom
<1>7. ASSUME NEW th \in Threads, Admit(th)
      PROVE  RoomInv' /\ BucketBounded'
  <2>1. /\ pc[th] = "append"
        /\ Len(hits[tenant[th]]) < Limit
        /\ hits' = [hits EXCEPT ![tenant[th]] = Append(@, now[th])]
        /\ pc' = [pc EXCEPT ![th] = "idle"]
        /\ UNCHANGED tenant
    BY <1>7 DEF Admit
  <2>2. \A o \in Threads : pc'[o] # "append"
    BY <2>1 DEF LockInv
  <2>3. \A t \in Tenants : Len(hits'[t]) <= Limit
    BY <2>1
  <2> QED BY <2>2, <2>3
<1>8. CASE UNCHANGED vars
  BY <1>8 DEF vars
<1> QED BY <1>1, <1>2, <1>3, <1>4, <1>5, <1>6, <1>7, <1>8 DEF Next

(* The inductive invariant holds in every reachable state.                 *)
THEOREM Inductive == Spec => []IInv
<1>1. Init => IInv
  <2> SUFFICES ASSUME Init PROVE IInv
    OBVIOUS
  <2>1. TypeOK
    BY DEF Init, TypeOK, Tenants
  <2>2. LockInv /\ StampInv /\ RoomInv
    BY ThreadAssumption DEF Init, LockInv, StampInv, RoomInv
  <2>3. SuffixPopInv /\ BucketBounded
    BY LimitAssumption
       DEF Init, SuffixPopInv, SuffixInv, PopInv, Popped, BucketBounded
  <2> QED BY <2>1, <2>2, <2>3 DEF IInv
<1>2. IInv /\ [Next]_vars => IInv'
  BY TypeStep, LockStep, StampStep, SuffixPopStep, RoomStep DEF IInv
<1> QED BY <1>1, <1>2, PTL DEF Spec

(* However the threads interleave, a bucket never holds more than _LIMIT   *)
(* stamps.                                                                 *)
THEOREM BucketNeverOverfull == Spec => []BucketBounded
<1>1. IInv => BucketBounded
  BY DEF IInv
<1> QED BY <1>1, Inductive, PTL

(* The last m of n positions are m positions.                              *)
LEMMA LastOnes ==
  ASSUME NEW n \in Nat, NEW m \in Nat, m <= n
  PROVE  /\ IsFiniteSet((n - m + 1)..n)
         /\ Cardinality((n - m + 1)..n) = m
<1>1. n - m + 1 \in Int /\ n \in Int
  OBVIOUS
<1>2. CASE m = 0
  <2>1. n - m + 1 > n
    BY <1>2
  <2> QED BY <2>1, <1>1, <1>2, FS_Interval
<1>3. CASE m > 0
  <2>1. ~(n - m + 1 > n) /\ n - (n - m + 1) + 1 = m
    BY <1>3
  <2> QED BY <2>1, <1>1, FS_Interval
<1> QED BY <1>2, <1>3

(* An admission that is still in the window is still in the bucket, so the *)
(* bound of the bucket bounds the admissions of the last Window seconds.   *)
LEMMA LiveAreInBucket ==
  ASSUME TypeOK, SuffixPopInv, NEW t \in Tenants
  PROVE  /\ IsFiniteSet(Live(t))
         /\ Cardinality(Live(t)) <= Len(hits[t])
<1> DEFINE rest == (Popped(t) + 1)..Len(admitted[t])
<1>1. /\ Len(admitted[t]) \in Nat /\ Len(hits[t]) \in Nat
      /\ Len(hits[t]) <= Len(admitted[t])
  BY DEF TypeOK, SuffixPopInv, SuffixInv
<1>2. Popped(t) \in Nat
  BY <1>1 DEF Popped
<1>3. Live(t) \subseteq rest
  <2> SUFFICES ASSUME NEW i \in Live(t), i \notin rest PROVE FALSE
    OBVIOUS
  <2>1. /\ i \in 1..Len(admitted[t])
        /\ admitted[t][i] >= clock - Window
    BY DEF Live
  <2>2. i \in 1..Popped(t)
    BY <2>1, <1>1, <1>2
  <2>3. admitted[t][i] < clock - Window
    BY <2>2 DEF SuffixPopInv, PopInv
  <2>4. admitted[t][i] \in Nat /\ clock \in Nat /\ Window \in Nat
    BY <2>1, WindowAssumption DEF TypeOK
  <2> QED BY <2>1, <2>3, <2>4
<1>4. IsFiniteSet(rest) /\ Cardinality(rest) = Len(hits[t])
  BY <1>1, LastOnes DEF Popped
<1> QED BY <1>3, <1>4, FS_Subset

(* The promise of the limiter: at no instant do more than _LIMIT admitted  *)
(* requests of one tenant carry a stamp of the last _WINDOW_SECONDS.       *)
THEOREM NeverOverTheLimit == Spec => []LiveWindowBound
<1>1. IInv => LiveWindowBound
  <2> SUFFICES ASSUME IInv, NEW t \in Tenants
               PROVE  Cardinality(Live(t)) <= Limit
    BY DEF LiveWindowBound
  <2>1. IsFiniteSet(Live(t)) /\ Cardinality(Live(t)) <= Len(hits[t])
    BY LiveAreInBucket DEF IInv
  <2>2. Cardinality(Live(t)) \in Nat
    BY <2>1, FS_CardinalityType
  <2>3. Len(hits[t]) <= Limit /\ Len(hits[t]) \in Nat
    BY DEF IInv, BucketBounded, TypeOK
  <2> QED BY <2>1, <2>2, <2>3, LimitAssumption
<1> QED BY <1>1, Inductive, PTL

(* In a bucket whose stamps are in order the hits behind a head that has   *)
(* not expired have not expired either.                                    *)
LEMMA BucketInWindow ==
  ASSUME IInv, NEW th \in Threads, Reject(th), InOrder(admitted[tenant[th]])
  PROVE  Cardinality({i \in 1..Len(admitted[tenant[th]]) :
                         admitted[tenant[th]][i] >= Cutoff(th)}) >= Limit
<1> DEFINE t == tenant[th]
           past == admitted[t]
           rest == (Popped(t) + 1)..Len(past)
           inside == {i \in 1..Len(past) : past[i] >= Cutoff(th)}
<1>1. t \in Tenants /\ past \in Seq(Nat) /\ hits[t] \in Seq(Nat)
  BY DEF IInv, TypeOK
<1>2. Cutoff(th) \in Int
  BY WindowAssumption DEF IInv, TypeOK, Cutoff
<1>3. Len(past) \in Nat /\ Len(hits[t]) \in Nat /\ Len(hits[t]) <= Len(past)
  BY <1>1 DEF IInv, SuffixPopInv, SuffixInv
<1>4. Popped(t) \in Nat /\ Len(past) = Popped(t) + Len(hits[t])
  BY <1>3 DEF Popped
<1>5. Len(hits[t]) >= Limit
  BY DEF Reject
<1>6. past[Popped(t) + 1] >= Cutoff(th)
  <2>1. hits[t] # <<>> /\ 1 \in 1..Len(hits[t])
    BY <1>5, <1>3, <1>1, LimitAssumption
  <2>2. ~(Head(hits[t]) < Cutoff(th))
    BY <2>1 DEF Reject, HeadExpired
  <2>3. Head(hits[t]) = hits[t][1] /\ hits[t][1] \in Nat
    BY <1>1, <2>1
  <2>4. hits[t][1] = past[1 + Popped(t)]
    BY <1>1, <2>1 DEF IInv, SuffixPopInv, SuffixInv
  <2>5. 1 + Popped(t) = Popped(t) + 1
    BY <1>4
  <2> QED BY <2>2, <2>3, <2>4, <2>5, <1>2
<1>7. rest \subseteq inside
  <2> SUFFICES ASSUME NEW i \in rest PROVE i \in inside
    OBVIOUS
  <2>1. /\ i \in 1..Len(past) /\ Popped(t) + 1 \in 1..Len(past)
        /\ Popped(t) + 1 <= i
    BY <1>3, <1>4
  <2>2. past[Popped(t) + 1] <= past[i]
    BY <2>1 DEF InOrder
  <2>3. past[i] \in Nat /\ past[Popped(t) + 1] \in Nat
    BY <1>1, <2>1
  <2> QED BY <2>1, <2>2, <2>3, <1>6, <1>2
<1>8. IsFiniteSet(rest) /\ Cardinality(rest) = Len(hits[t])
  BY <1>3, <1>4, LastOnes DEF Popped
<1>9. IsFiniteSet(inside)
  <2>1. IsFiniteSet(1..Len(past))
    BY <1>3, FS_Interval
  <2> QED BY <2>1, FS_Subset
<1>10. Cardinality(rest) <= Cardinality(inside) /\ Cardinality(inside) \in Nat
  BY <1>7, <1>9, FS_Subset, FS_CardinalityType
<1> QED BY <1>5, <1>8, <1>10, <1>3, LimitAssumption

(* A tenant whose stamps came in order is turned away only when Limit of   *)
(* its admissions are within Window of the request's stamp.                *)
THEOREM RejectionsAreJustified == Spec => RejectionJustified
<1>1. IInv /\ [Next]_vars =>
        [\A th \in Threads :
            Reject(th) /\ InOrder(admitted[tenant[th]]) =>
              Cardinality({i \in 1..Len(admitted[tenant[th]]) :
                  admitted[tenant[th]][i] >= Cutoff(th)}) >= Limit]_vars
  BY BucketInWindow
<1> QED BY <1>1, Inductive, PTL DEF Spec, RejectionJustified
----------------------------------------------------------------------------
(* The safety half of LockReleased.  What is left to a fair scheduler is   *)
(* only to run the holder of the lock: it always has a step to take, every *)
(* step of its own spends some of a bounded budget or frees the lock, and  *)
(* nobody else can spend or refill that budget.                            *)

(* Inside the `with`: a hit to drop, the 429, the length test, the append. *)
HolderCanStep(th) ==
    \/ pc[th] = "prune" /\ HeadExpired(th)
    \/ pc[th] = "prune" /\ ~HeadExpired(th) /\ Len(hits[tenant[th]]) >= Limit
    \/ pc[th] = "prune" /\ ~HeadExpired(th) /\ Len(hits[tenant[th]]) < Limit
    \/ pc[th] = "append"

(* How many more steps the holder can take before it frees the lock.       *)
Budget(th) == IF pc[th] = "append" THEN 1 ELSE Len(hits[tenant[th]]) + 2

(* Two handlers are never inside the `with` together: what makes the       *)
(* length test and the append of enforce_infer_rate_limit one step.        *)
THEOREM MutualExclusion ==
  Spec => [](\A a, b \in Threads :
                pc[a] \in {"prune", "append"} /\ pc[b] \in {"prune", "append"}
                  => a = b)
<1>1. IInv => \A a, b \in Threads :
                pc[a] \in {"prune", "append"} /\ pc[b] \in {"prune", "append"}
                  => a = b
  BY DEF IInv, LockInv
<1> QED BY <1>1, Inductive, PTL

(* The holder of the lock is never stuck inside it, whatever the bucket    *)
(* holds, and has at most _LIMIT + 2 steps to go.                          *)
THEOREM HolderNeverWaits ==
  Spec => [](\A th \in Threads :
                lock = th => HolderCanStep(th) /\ Budget(th) \in 1..(Limit + 2))
<1>1. IInv => \A th \in Threads :
                lock = th => HolderCanStep(th) /\ Budget(th) \in 1..(Limit + 2)
  <2> SUFFICES ASSUME IInv, NEW th \in Threads, lock = th
               PROVE  HolderCanStep(th) /\ Budget(th) \in 1..(Limit + 2)
    OBVIOUS
  <2>1. pc[th] \in {"prune", "append"}
    BY DEF IInv, LockInv
  <2>2. tenant[th] \in Tenants
    BY DEF IInv, TypeOK
  <2>3. Len(hits[tenant[th]]) \in Nat /\ Len(hits[tenant[th]]) <= Limit
    BY <2>2 DEF IInv, TypeOK, BucketBounded
  <2>4. HolderCanStep(th)
    BY <2>1, <2>3, LimitAssumption DEF HolderCanStep
  <2>5. Budget(th) \in 1..(Limit + 2)
    BY <2>3, LimitAssumption DEF Budget
  <2> QED BY <2>4, <2>5
<1> QED BY <1>1, Inductive, PTL

(* A bucket is left alone by every step but those of the thread inside.    *)
LEMMA OnlyTheHolder ==
  ASSUME IInv, [Next]_vars, NEW th \in Threads, lock = th
  PROVE  \/ InCritical(th)
         \/ UNCHANGED <<hits, lock, pc[th], tenant[th]>>
<1> USE DEF IInv, TypeOK, LockInv
<1>1. pc[th] \in {"prune", "append"} /\ lock # Nobody
  BY ThreadAssumption
<1>2. CASE Tick
  BY <1>2 DEF Tick
<1>3. ASSUME NEW o \in Threads, NEW h \in Headers, Arrive(o, h)
      PROVE  UNCHANGED <<hits, lock, pc[th], tenant[th]>>
  BY <1>1, <1>3 DEF Arrive
<1>4. ASSUME NEW o \in Threads, Acquire(o) PROVE FALSE
  BY <1>1, <1>4 DEF Acquire
<1>5. ASSUME NEW o \in Threads, InCritical(o) PROVE InCritical(th)
  <2>1. pc[o] \in {"prune", "append"}
    BY <1>5 DEF InCritical, PopExpired, Reject, HasRoom, Admit
  <2>2. o = th
    BY <2>1
  <2> QED BY <1>5, <2>2
<1>6. CASE UNCHANGED vars
  BY <1>6 DEF vars
<1> QED BY <1>2, <1>3, <1>4, <1>5, <1>6 DEF Next, InCritical

(* Every step of the holder frees the lock or leaves it fewer steps, and a *)
(* step of anybody else leaves it as many as before: with HolderNeverWaits *)
(* the lock is given back within _LIMIT + 2 steps of its holder.           *)
THEOREM HoldIsShort ==
  Spec => [][\A th \in Threads : lock = th =>
                /\ InCritical(th) => lock' = Nobody \/ Budget(th)' < Budget(th)
                /\ ~InCritical(th) => lock' = th /\ Budget(th)' = Budget(th)]_vars
<1>1. ASSUME IInv, [Next]_vars, NEW th \in Threads, lock = th, InCritical(th)
      PROVE  lock' = Nobody \/ Budget(th)' < Budget(th)
  <2> PICK q \in Tenants : q = tenant[th]
    BY <1>1 DEF IInv, TypeOK
  <2>1. hits[q] \in Seq(Nat) /\ Len(hits[q]) \in Nat
    BY <1>1 DEF IInv, TypeOK
  <2>2. CASE PopExpired(th)
    <3>1. /\ hits[q] # <<>> /\ pc[th] = "prune"
          /\ hits' = [hits EXCEPT ![q] = Tail(hits[q])]
          /\ UNCHANGED <<pc, tenant>>
      BY <2>2 DEF PopExpired, HeadExpired
    <3>2. hits'[q] = Tail(hits[q])
      BY <3>1, <1>1 DEF IInv, TypeOK
    <3>3. Len(Tail(hits[q])) = Len(hits[q]) - 1
      BY <3>1, <2>1
    <3>4. Budget(th) = Len(hits[q]) + 2
      BY <3>1 DEF Budget
    <3>5. Budget(th)' = Len(hits'[q]) + 2
      BY <3>1 DEF Budget
    <3> QED BY <3>2, <3>3, <3>4, <3>5, <2>1
  <2>3. CASE Reject(th) \/ Admit(th)
    BY <2>3 DEF Reject, Admit
  <2>4. CASE HasRoom(th)
    <3>1. /\ pc[th] = "prune" /\ pc'[th] = "append"
      BY <2>4, <1>1 DEF HasRoom, IInv, TypeOK
    <3> QED BY <3>1, <2>1 DEF Budget
  <2> QED BY <1>1, <2>2, <2>3, <2>4 DEF InCritical
<1>2. ASSUME IInv, [Next]_vars, NEW th \in Threads, lock = th, ~InCritical(th)
      PROVE  lock' = th /\ Budget(th)' = Budget(th)
  BY <1>2, OnlyTheHolder DEF Budget
<1>3. IInv /\ [Next]_vars =>
        [\A th \in Threads : lock = th =>
            /\ InCritical(th) => lock' = Nobody \/ Budget(th)' < Budget(th)
            /\ ~InCritical(th) => lock' = th /\ Budget(th)' = Budget(th)]_vars
  BY <1>1, <1>2
<1> QED BY <1>3, Inductive, PTL DEF Spec
============================================================================
