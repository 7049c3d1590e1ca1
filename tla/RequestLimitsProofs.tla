-------------------------- MODULE RequestLimitsProofs --------------------------
(* Theorems about RequestLimits for any instances, calls, keys and limits.    *)
EXTENDS RequestLimits, FiniteSetTheorems, TLAPS

Stores == [state : {"up", "down"}, count : [Keys -> Nat],
           window : [Keys -> Windows]]

\* The types that the counting below needs; the local buckets have no part in it.
CountTypes ==
  /\ store \in Stores
  /\ store.count \in [Keys -> Nat] /\ store.window \in [Keys -> Windows]
  /\ admitted \in [Keys -> [Windows -> Nat]]
  /\ call \in [Calls -> {Idle} \union Waiting \union Answered]

\* Answers on their way that will admit a request of window w.
Pending(k, w) ==
  {c \in Calls : /\ call[c].pc = "answered"
                 /\ call[c].key = k /\ call[c].window = w
                 /\ call[c].count <= Limit}

\* What was admitted and what will be share the counter of their window, and
\* nothing was counted for a window that has not begun.
Shared(k, w) ==
  LET n == admitted[k][w] + Cardinality(Pending(k, w)) IN
  /\ n <= Limit
  /\ w = store.window[k] => n <= store.count[k]
  /\ w > store.window[k] => n = 0

CountInv == CountTypes /\ \A k \in Keys, w \in Windows : Shared(k, w)

LEMMA Kinds ==
  /\ Idle.pc = "idle"
  /\ \A a \in Waiting : a # Idle /\ a.pc = "sent" /\ a.key \in Keys
                        /\ a.instance \in Instances
  /\ \A a \in Answered : a # Idle /\ a.pc = "answered" /\ a.key \in Keys
                         /\ a.window \in Windows /\ a.count \in Nat
BY DEF Idle, Waiting, Answered

LEMMA PendingFinite ==
  ASSUME NEW k, NEW w
  PROVE  /\ IsFiniteSet(Pending(k, w)) /\ Cardinality(Pending(k, w)) \in Nat
         /\ \A S \in SUBSET Pending(k, w) :
              /\ IsFiniteSet(S) /\ Cardinality(S) \in Nat
              /\ Cardinality(S) <= Cardinality(Pending(k, w))
<1>1. Pending(k, w) \subseteq Calls
  BY DEF Pending
<1>2. IsFiniteSet(Pending(k, w))
  BY <1>1, FS_Subset, LimitsAssumption
<1> QED
  BY <1>2, FS_Subset, FS_CardinalityType

LEMMA CountInit == Init => CountInv
<1> SUFFICES ASSUME Init PROVE CountInv
  OBVIOUS
<1>1. \A k, w : Pending(k, w) = {}
  BY Kinds DEF Init, Pending
<1>2. 0 \in Windows
  BY LimitsAssumption DEF Windows
<1>3. CountTypes
  BY <1>2 DEF Init, CountTypes, Stores
<1>4. ASSUME NEW k \in Keys, NEW w \in Windows PROVE Shared(k, w)
  <2>1. admitted[k][w] = 0 /\ store.count[k] = 0 /\ store.window[k] = 0
    BY DEF Init
  <2>2. Cardinality(Pending(k, w)) = 0
    BY <1>1, FS_EmptySet
  <2>3. Limit \in Nat /\ w \in Nat
    BY LimitsAssumption DEF Windows
  <2> QED
    BY <2>1, <2>2, <2>3 DEF Shared
<1> QED
  BY <1>3, <1>4 DEF CountInv

\* Nothing new is pending and nothing is admitted.
LEMMA QuietStep ==
  ASSUME CountInv, CountTypes', UNCHANGED admitted,
         \A k \in Keys, w \in Windows : Pending(k, w)' \subseteq Pending(k, w),
         \A k \in Keys :
           \/ store'.window[k] = store.window[k] /\ store'.count[k] >= store.count[k]
           \/ store'.window[k] = store.window[k] + 1
  PROVE  CountInv'
<1> SUFFICES ASSUME NEW k \in Keys, NEW w \in Windows PROVE Shared(k, w)'
  BY DEF CountInv
<1>1. Shared(k, w) /\ CountTypes
  BY DEF CountInv
<1>2. /\ admitted[k][w] \in Nat /\ store.count[k] \in Nat /\ store.window[k] \in Nat
      /\ store'.count[k] \in Nat /\ w \in Nat /\ Limit \in Nat
  BY <1>1, LimitsAssumption DEF CountTypes, Windows
<1>3. /\ Cardinality(Pending(k, w)') \in Nat /\ Cardinality(Pending(k, w)) \in Nat
      /\ Cardinality(Pending(k, w)') <= Cardinality(Pending(k, w))
  BY PendingFinite
<1> DEFINE p == Cardinality(Pending(k, w))
           q == Cardinality(Pending(k, w)')
<1>4. /\ admitted[k][w] + p <= Limit
      /\ w = store.window[k] => admitted[k][w] + p <= store.count[k]
      /\ w > store.window[k] => admitted[k][w] + p = 0
  BY <1>1 DEF Shared
<1>5. p \in Nat /\ q \in Nat /\ q <= p
  BY <1>3
<1>6. SUFFICES /\ admitted[k][w] + q <= Limit
               /\ w = store'.window[k] => admitted[k][w] + q <= store'.count[k]
               /\ w > store'.window[k] => admitted[k][w] + q = 0
  BY DEF Shared
<1> HIDE DEF p, q
<1>7. CASE store'.window[k] = store.window[k] /\ store'.count[k] >= store.count[k]
  BY <1>2, <1>4, <1>5, <1>7
<1>8. CASE store'.window[k] = store.window[k] + 1
  <2>1. CASE w >= store'.window[k]
    <3>1. w > store.window[k] /\ admitted[k][w] + p = 0
      BY <1>2, <1>4, <1>8, <2>1
    <3>2. admitted[k][w] = 0 /\ q = 0
      BY <1>2, <1>5, <3>1
    <3> QED
      BY <1>2, <3>2
  <2>2. CASE ~(w >= store'.window[k])
    <3>1. w # store'.window[k] /\ ~(w > store'.window[k])
      BY <1>2, <1>8, <2>2
    <3> QED
      BY <1>2, <1>4, <1>5, <3>1
  <2> QED
    BY <2>1, <2>2
<1> QED
  BY <1>7, <1>8

\* A store with new counters and windows is a store.
LEMMA StoreUpdate ==
  ASSUME store \in Stores, NEW n \in [Keys -> Nat], NEW w \in [Keys -> Windows]
  PROVE  LET t == [store EXCEPT !.count = n, !.window = w]
             u == [store EXCEPT !.count = n]
         IN  /\ t \in Stores /\ t.count = n /\ t.window = w
             /\ u \in Stores /\ u.count = n /\ u.window = store.window
BY DEF Stores

LEMMA CallStep ==
  ASSUME CountTypes, NEW c \in Calls, NEW a \in {Idle} \union Waiting,
         call' = [call EXCEPT ![c] = a], UNCHANGED <<store, admitted>>
  PROVE  /\ CountTypes'
         /\ \A k, w : Pending(k, w)' \subseteq Pending(k, w)
BY Kinds DEF CountTypes, Pending

LEMMA CountStep ==
  ASSUME CountInv, [Next]_vars
  PROVE  CountInv'
<1> USE DEF CountInv
<1>0. /\ \A k \in Keys : /\ store.count[k] \in Nat /\ store.window[k] \in Windows
                         /\ store.window[k] \in Nat
      /\ \A k \in Keys, w \in Windows : admitted[k][w] \in Nat
      /\ Limit \in Nat
  BY LimitsAssumption DEF CountTypes, Windows
<1>1. ASSUME UNCHANGED <<store, call, admitted>> PROVE CountInv'
  BY <1>1 DEF CountTypes, Shared, Pending
<1>2. ASSUME NEW c \in Calls, NEW a \in {Idle} \union Waiting,
             call' = [call EXCEPT ![c] = a], UNCHANGED <<store, admitted>>
      PROVE  CountInv'
  <2>1. /\ CountTypes' /\ UNCHANGED <<store, admitted>>
        /\ \A k, w : Pending(k, w)' \subseteq Pending(k, w)
    BY <1>2, CallStep
  <2>2. \A k \in Keys :
          store'.window[k] = store.window[k] /\ store'.count[k] >= store.count[k]
    BY <1>0, <2>1
  <2> QED
    BY <2>1, <2>2, QuietStep
<1>3. ASSUME NEW c \in Calls, NEW i \in Instances, NEW k \in Keys, Send(c, i, k)
      PROVE  CountInv'
  BY <1>2, <1>3 DEF Send, Waiting
<1>4. ASSUME NEW c \in Calls, Fail(c) \/ TimeOut(c) PROVE CountInv'
  BY <1>2, <1>4 DEF Fail, TimeOut, GiveUp, Degrade
<1>5. ASSUME NEW c \in Calls, Execute(c) PROVE CountInv'
  <2> DEFINE k == call[c].key
             w == store.window[k]
             n == store.count[k] + 1
             a == [pc |-> "answered", instance |-> call[c].instance, key |-> k,
                   count |-> n, window |-> w]
  <2>1. call[c] \in Waiting /\ call[c].pc = "sent"
    BY <1>5, Kinds DEF Execute, CountTypes
  <2>2. k \in Keys /\ w \in Windows /\ n \in Nat /\ a \in Answered
    BY <1>0, <2>1, Kinds DEF Answered
  <2>3. /\ call' = [call EXCEPT ![c] = a] /\ UNCHANGED admitted
        /\ store' = [store EXCEPT !.count[k] = @ + 1]
    BY <1>5 DEF Execute, Counted
  <2>4. /\ store'.count = [store.count EXCEPT ![k] = n]
        /\ store'.window = store.window /\ store' \in Stores
    <3> DEFINE m == [store.count EXCEPT ![k] = n]
    <3>1. m \in [Keys -> Nat]
      BY <2>2 DEF CountTypes
    <3>2. store' = [store EXCEPT !.count = m]
      BY <2>3
    <3> HIDE DEF m
    <3>3. store'.count = m /\ store'.window = store.window /\ store' \in Stores
      BY <3>1, <3>2, StoreUpdate DEF CountTypes
    <3> QED
      BY <3>3 DEF m
  <2>5. CountTypes'
    BY <2>2, <2>3, <2>4 DEF CountTypes
  <2> HIDE DEF n, w, k
  <2>6. ASSUME NEW j \in Keys, NEW v \in Windows PROVE Shared(j, v)'
    <3>1. call'[c] = a /\ \A d \in Calls \ {c} : call'[d] = call[d]
      BY <2>3 DEF CountTypes
    <3>2. CASE j = k /\ v = w /\ n <= Limit
      <4>1. Pending(j, v)' = Pending(j, v) \union {c} /\ c \notin Pending(j, v)
        BY <2>1, <3>1, <3>2 DEF Pending
      <4>2. Cardinality(Pending(j, v)') = Cardinality(Pending(j, v)) + 1
        BY <4>1, PendingFinite, FS_AddElement
      <4>3. admitted[j][v] + Cardinality(Pending(j, v)) <= store.count[k]
        BY <3>2 DEF Shared, w
      <4> QED
        BY <1>0, <2>2, <2>3, <2>4, <3>2, <4>2, <4>3, PendingFinite
           DEF Shared, n, w, CountTypes
    <3>3. CASE ~(j = k /\ v = w /\ n <= Limit)
      <4>1. Pending(j, v)' = Pending(j, v)
        BY <2>1, <3>1, <3>3 DEF Pending
      <4>2. Shared(j, v) /\ store'.count[j] >= store.count[j]
        BY <1>0, <2>2, <2>4 DEF CountTypes, n
      <4>3. store'.count[j] \in Nat /\ store.count[j] \in Nat
        BY <1>0, <2>5 DEF CountTypes
      <4> QED
        BY <1>0, <2>3, <2>4, <4>1, <4>2, <4>3, PendingFinite DEF Shared
    <3> QED
      BY <3>2, <3>3
  <2> QED
    BY <2>5, <2>6
<1>6. ASSUME NEW c \in Calls, Answer(c) PROVE CountInv'
  <2> DEFINE k == call[c].key
             w == call[c].window
  <2>1. call[c] \in Answered
    BY <1>6, Kinds DEF Answer, CountTypes
  <2>2. k \in Keys /\ w \in Windows /\ call[c].pc = "answered"
    BY <2>1, Kinds
  <2>3. CASE ~Allowed(call[c].count)
    BY <1>2, <1>6, <2>3 DEF Answer
  <2>4. CASE Allowed(call[c].count)
    <3>1. /\ call' = [call EXCEPT ![c] = Idle] /\ UNCHANGED store
          /\ admitted' = [admitted EXCEPT ![k][w] = @ + 1]
      BY <1>6, <2>4 DEF Answer, Admit
    <3>2. CountTypes'
      BY <1>0, <2>2, <3>1 DEF CountTypes
    <3>3. ASSUME NEW j \in Keys, NEW v \in Windows PROVE Shared(j, v)'
      <4>1. call'[c] = Idle /\ \A d \in Calls \ {c} : call'[d] = call[d]
        BY <3>1 DEF CountTypes
      <4>2. CASE j = k /\ v = w
        <5>1. Pending(j, v)' = Pending(j, v) \ {c} /\ c \in Pending(j, v)
          BY <2>2, <2>4, <4>1, <4>2, Kinds DEF Pending, Allowed
        <5>2. Cardinality(Pending(j, v)') = Cardinality(Pending(j, v)) - 1
          BY <5>1, PendingFinite, FS_RemoveElement
        <5>3. admitted'[j][v] = admitted[j][v] + 1
          BY <2>2, <3>1, <4>2 DEF CountTypes
        <5> QED
          BY <1>0, <3>1, <5>2, <5>3, PendingFinite DEF Shared
      <4>3. CASE ~(j = k /\ v = w)
        <5>1. Pending(j, v)' = Pending(j, v)
          BY <4>1, <4>3, Kinds DEF Pending
        <5>2. admitted'[j][v] = admitted[j][v]
          BY <2>2, <3>1, <4>3 DEF CountTypes
        <5> QED
          BY <3>1, <5>1, <5>2 DEF Shared
      <4> QED
        BY <4>2, <4>3
    <3> QED
      BY <3>2, <3>3
  <2> QED
    BY <2>3, <2>4
<1>7. ASSUME NEW k \in Keys, ExecuteLate(k) \/ WindowEnds(k) PROVE CountInv'
  <2>1. UNCHANGED <<call, admitted>>
    BY <1>7 DEF ExecuteLate, WindowEnds
  <2>2. CASE ExecuteLate(k)
    <3>1. /\ store'.count = [store.count EXCEPT ![k] = @ + 1]
          /\ store'.window = store.window /\ store' \in Stores
      <4> DEFINE m == [store.count EXCEPT ![k] = @ + 1]
      <4>1. m \in [Keys -> Nat]
        BY <1>0 DEF CountTypes
      <4>2. store' = [store EXCEPT !.count = m]
        BY <2>2 DEF ExecuteLate, Counted
      <4> HIDE DEF m
      <4>3. store'.count = m /\ store'.window = store.window /\ store' \in Stores
        BY <4>1, <4>2, StoreUpdate DEF CountTypes
      <4> QED
        BY <4>3 DEF m
    <3>2. CountTypes'
      BY <1>0, <2>1, <3>1 DEF CountTypes
    <3> QED
      BY <1>0, <2>1, <3>1, <3>2, QuietStep DEF CountTypes, Pending
  <2>3. CASE WindowEnds(k)
    <3>1. store.window[k] < MaxWindow /\ store.window[k] + 1 \in Windows
      BY <1>0, <2>3, LimitsAssumption DEF Windows, WindowEnds
    <3>2. /\ store'.count = [store.count EXCEPT ![k] = 0]
          /\ store'.window = [store.window EXCEPT ![k] = @ + 1]
          /\ store' \in Stores
      <4> DEFINE m == [store.count EXCEPT ![k] = 0]
                 v == [store.window EXCEPT ![k] = @ + 1]
      <4>1. m \in [Keys -> Nat] /\ v \in [Keys -> Windows]
        BY <3>1 DEF CountTypes
      <4>2. store' = [store EXCEPT !.count = m, !.window = v]
        BY <2>3 DEF WindowEnds
      <4> HIDE DEF m, v
      <4>3. store'.count = m /\ store'.window = v /\ store' \in Stores
        BY <4>1, <4>2, StoreUpdate DEF CountTypes
      <4> QED
        BY <4>3 DEF m, v
    <3>3. CountTypes'
      BY <1>0, <2>1, <3>2, <3>1 DEF CountTypes
    <3> QED
      BY <1>0, <2>1, <3>2, <3>3, QuietStep DEF CountTypes, Pending
  <2> QED
    BY <1>7, <2>2, <2>3
<1>8. ASSUME StoreGoesDown \/ StoreComesUp PROVE CountInv'
  <2>1. /\ store'.count = store.count /\ store'.window = store.window
        /\ UNCHANGED <<call, admitted>>
    <3>1. CASE StoreGoesDown
      BY <3>1 DEF StoreGoesDown, CountTypes, Stores
    <3>2. CASE StoreComesUp
      BY <3>2 DEF StoreComesUp, CountTypes, Stores
    <3> QED
      BY <1>8, <3>1, <3>2
  <2>2. store' \in Stores
    BY <1>8 DEF StoreGoesDown, StoreComesUp, CountTypes, Stores
  <2> QED
    BY <2>1, <2>2 DEF CountTypes, Shared, Pending
<1>9. ASSUME NEW c \in Calls, NEW i \in Instances, NEW k \in Keys, RefuseOpen(c, i, k)
      PROVE  CountInv'
  BY <1>1, <1>9 DEF RefuseOpen, Degrade
<1>10. ASSUME NEW i \in Instances,
              \/ Verify(i) \/ VerifyTimesOut(i) \/ CircuitResets(i)
              \/ \E n \in 1..LocalBuckets : LocalWindowEnds(i, n)
       PROVE  CountInv'
  BY <1>1, <1>10 DEF Verify, VerifyTimesOut, CircuitResets, LocalWindowEnds
<1> QED
  BY <1>1, <1>3, <1>4, <1>5, <1>6, <1>7, <1>8, <1>9, <1>10 DEF Next, vars

\* All instances together respect the limit of a window, for any number of them,
\* of calls in progress, lost answers and late executions.
THEOREM LimitHolds == Spec => []WithinLimit
<1>1. CountInv => WithinLimit
  <2> SUFFICES ASSUME CountInv, NEW k \in Keys, NEW w \in Windows
               PROVE  admitted[k][w] <= Limit
    BY DEF WithinLimit
  <2>1. admitted[k][w] \in Nat /\ Limit \in Nat /\ Shared(k, w)
    BY LimitsAssumption DEF CountInv, CountTypes
  <2> QED
    BY <2>1, PendingFinite DEF Shared
<1>2. CountInv /\ [Next]_vars => CountInv'
  BY CountStep
<1> QED
  BY <1>1, <1>2, CountInit, PTL DEF Spec

================================================================================
