----------------------------- MODULE RequestLimits -----------------------------
(***************************************************************************)
(* The distributed request limiter (apps/server/src/rate-limit.ts) over    *)
(* the circuit breaker of ValkeyCoordination                               *)
(* (packages/coordination/src/index.ts).  Several server instances count   *)
(* requests in one shared store.  A call may time out and still be         *)
(* executed later; the store may go down; a client whose connection broke  *)
(* stays closed until a readiness probe calls verify().                    *)
(*                                                                         *)
(* All keys have one limit.  A window of the shared store is a number.     *)
(***************************************************************************)
EXTENDS Naturals, Sequences, FiniteSets

CONSTANTS
  Instances, Calls,   \* server processes; increments in progress
  Keys, Sensitive,    \* keys, and those of the endpoints that fail closed
  Limit,
  CircuitFailures,    \* consecutive failures that open the circuit
  LocalBuckets,       \* capacity of the local fallback
  MaxCalls, MaxWindow, MaxFaults   \* bounds

ASSUME LimitsAssumption ==
  /\ Sensitive \subseteq Keys /\ IsFiniteSet(Calls)
  /\ Limit \in Nat /\ CircuitFailures \in Nat \ {0}
  /\ LocalBuckets \in Nat \ {0}
  /\ MaxCalls \in Nat /\ MaxWindow \in Nat /\ MaxFaults \in Nat

VARIABLES
  store,     \* the shared counters, their windows, and whether it answers
  late,      \* increments whose callers stopped waiting
  circuit,   \* failures, openUntil and client of each instance
  local,     \* the local buckets of each instance, least recently used first
  call,      \* each increment in progress
  admitted,  \* requests admitted per key and shared window (no variable of the code)
  sent, faults   \* bounded

vars == <<store, late, circuit, local, call, admitted, sent, faults>>

Idle == [pc |-> "idle"]
Windows == 0..MaxWindow

Circuits == [failures : 0..CircuitFailures, state : {"closed", "open"}, client : {"open", "closed"}]
Waiting == [pc : {"sent"}, instance : Instances, key : Keys]
Answered == [pc : {"answered"}, instance : Instances, key : Keys,
             count : Nat, window : Windows]

Init ==
  /\ store = [state |-> "up", count |-> [k \in Keys |-> 0],
              window |-> [k \in Keys |-> 0]]
  /\ late = [k \in Keys |-> 0]
  /\ circuit = [i \in Instances |-> [failures |-> 0, state |-> "closed",
                                     client |-> "open"]]
  /\ local = [i \in Instances |-> <<>>]
  /\ call = [c \in Calls |-> Idle]
  /\ admitted = [k \in Keys |-> [w \in Windows |-> 0]]
  /\ sent = 0 /\ faults = 0

--------------------------------------------------------------------------------
(* The circuit *)

Succeeded(i) == [circuit EXCEPT ![i].failures = 0, ![i].state = "closed"]
\* Failures count up to the threshold that they are compared with.
Failed(i) ==
  LET n == circuit[i].failures
      m == IF n < CircuitFailures THEN n + 1 ELSE n
  IN  [circuit EXCEPT ![i].failures = m,
                      ![i].state = IF m = CircuitFailures THEN "open" ELSE @]

--------------------------------------------------------------------------------
(* Decisions *)

Allowed(count) == count <= Limit

Admit(k, w) == admitted' = [admitted EXCEPT ![k][w] = @ + 1]

\* consumeLocal(): the bucket moves to the end, the oldest make room.  An expired
\* bucket has count 0.
LocalCount(i, k) ==
  LET mine == SelectSeq(local[i], LAMBDA b : b.key = k) IN
  IF mine = <<>> THEN 1 ELSE mine[1].count + 1
\* (mutant) room is made before the bucket is added
TouchedFirst(i, k) ==
  LET others == SelectSeq(local[i], LAMBDA b : b.key # k)
      room == IF Len(others) > LocalBuckets THEN Tail(others) ELSE others
  IN  Append(room, [key |-> k, count |-> LocalCount(i, k)])
Touched(i, k) ==
  LET others == SelectSeq(local[i], LAMBDA b : b.key # k)
      all == Append(others, [key |-> k, count |-> LocalCount(i, k)])
  IN  IF Len(all) > LocalBuckets THEN Tail(all) ELSE all

\* (mutant) every endpoint falls back to the local buckets
DegradeAll(i, k) ==
  /\ local' = [local EXCEPT ![i] = Touched(i, k)]
  /\ IF k \in Sensitive /\ Allowed(LocalCount(i, k))
     THEN Admit(k, store.window[k]) ELSE UNCHANGED admitted
\* Without the shared counter a sensitive endpoint is refused, another one is
\* counted locally.
Degrade(i, k) ==
  IF k \in Sensitive THEN UNCHANGED <<local, admitted>>
  ELSE local' = [local EXCEPT ![i] = Touched(i, k)] /\ UNCHANGED admitted

--------------------------------------------------------------------------------
(* consume() *)

Start(c, k) ==
  /\ call[c] = Idle
  /\ sent < MaxCalls
  /\ sent' = sent + 1

\* The circuit is closed, or its interval is over: the increment is sent.
Send(c, i, k) ==
  /\ Start(c, k)
  /\ circuit[i].state = "closed"
  /\ call' = [call EXCEPT ![c] = [pc |-> "sent", instance |-> i, key |-> k]]
  /\ UNCHANGED <<store, late, circuit, local, admitted, faults>>

RefuseOpen(c, i, k) ==
  /\ Start(c, k)
  /\ circuit[i].state = "open"
  /\ Degrade(i, k)
  /\ UNCHANGED <<store, late, circuit, call, faults>>

\* The script of increment(): INCR and the expiry of a new key are one step.
Counted(k) == [store EXCEPT !.count[k] = @ + 1]
Execute(c) ==
  /\ call[c].pc = "sent"
  /\ store.state = "up" /\ circuit[call[c].instance].client = "open"
  /\ store' = Counted(call[c].key)
  /\ call' = [call EXCEPT ![c] =
       [pc |-> "answered", instance |-> call[c].instance, key |-> call[c].key,
        count |-> store.count[call[c].key] + 1,
        window |-> store.window[call[c].key]]]
  /\ UNCHANGED <<late, circuit, local, admitted, sent, faults>>

Answer(c) ==
  LET a == call[c] IN
  /\ a.pc = "answered"
  /\ circuit[a.instance].client = "open"
  /\ circuit' = Succeeded(a.instance)
  /\ IF Allowed(a.count) THEN Admit(a.key, a.window) ELSE UNCHANGED admitted
  /\ call' = [call EXCEPT ![c] = Idle]
  /\ UNCHANGED <<store, late, local, sent, faults>>

\* The call failed or timed out; an increment that was sent may still run.
GiveUp(c) ==
  /\ circuit' = Failed(call[c].instance)
  /\ Degrade(call[c].instance, call[c].key)
  /\ call' = [call EXCEPT ![c] = Idle]
  /\ late' = IF call[c].pc = "sent" /\ circuit[call[c].instance].client = "open"
             THEN [late EXCEPT ![call[c].key] = @ + 1] ELSE late
  /\ UNCHANGED <<store, sent>>

\* The connection broke or the store is down...
Fail(c) ==
  /\ call[c] # Idle
  /\ store.state = "down" \/ circuit[call[c].instance].client = "closed"
  /\ GiveUp(c)
  /\ UNCHANGED faults
\* ...or it is only slow.
TimeOut(c) ==
  /\ call[c] # Idle
  /\ faults < MaxFaults /\ faults' = faults + 1
  /\ GiveUp(c)

--------------------------------------------------------------------------------
(* verify(), called by the readiness probe *)

Verify(i) ==
  /\ circuit' = IF store.state = "up"
                THEN [Succeeded(i) EXCEPT ![i].client = "open"] ELSE Failed(i)
  /\ UNCHANGED <<store, late, local, call, admitted, sent, faults>>

\* The ping is only slow.
VerifyTimesOut(i) ==
  /\ faults < MaxFaults /\ faults' = faults + 1
  /\ circuit' = Failed(i)
  /\ UNCHANGED <<store, late, local, call, admitted, sent>>

--------------------------------------------------------------------------------
(* The store and time *)

ExecuteLate(k) ==
  /\ late[k] > 0 /\ store.state = "up"
  /\ late' = [late EXCEPT ![k] = @ - 1]
  /\ store' = Counted(k)
  /\ UNCHANGED <<circuit, local, call, admitted, sent, faults>>

WindowEnds(k) ==
  /\ store.count[k] > 0 /\ store.window[k] < MaxWindow
  /\ store' = [store EXCEPT !.count[k] = 0, !.window[k] = @ + 1]
  /\ UNCHANGED <<late, circuit, local, call, admitted, sent, faults>>

LocalWindowEnds(i, n) ==
  /\ n \in DOMAIN local[i] /\ local[i][n].count > 0
  /\ local' = [local EXCEPT ![i][n].count = 0]
  /\ UNCHANGED <<store, late, circuit, call, admitted, sent, faults>>

\* circuitResetMs after the last failure.
CircuitResets(i) ==
  /\ circuit[i].state = "open"
  /\ circuit' = [circuit EXCEPT ![i].state = "closed"]
  /\ UNCHANGED <<store, late, local, call, admitted, sent, faults>>

\* The clients notice; they were made with reconnectStrategy false.
StoreGoesDown ==
  /\ faults < MaxFaults /\ faults' = faults + 1
  /\ store.state = "up"
  /\ store' = [store EXCEPT !.state = "down"]
  /\ circuit' = [i \in Instances |-> [circuit[i] EXCEPT !.client = "closed"]]
  /\ late' = [k \in Keys |-> 0]
  /\ UNCHANGED <<local, call, admitted, sent>>
StoreComesUp ==
  /\ store.state = "down"
  /\ store' = [store EXCEPT !.state = "up"]
  /\ UNCHANGED <<late, circuit, local, call, admitted, sent, faults>>

--------------------------------------------------------------------------------
Next ==
  \/ \E c \in Calls :
       \/ \E i \in Instances, k \in Keys : Send(c, i, k) \/ RefuseOpen(c, i, k)
       \/ Execute(c) \/ Answer(c) \/ Fail(c) \/ TimeOut(c)
  \/ \E i \in Instances :
       \/ Verify(i) \/ VerifyTimesOut(i) \/ CircuitResets(i)
       \/ \E n \in 1..LocalBuckets : LocalWindowEnds(i, n)
  \/ \E k \in Keys : ExecuteLate(k) \/ WindowEnds(k)
  \/ StoreGoesDown \/ StoreComesUp

Spec == Init /\ [][Next]_vars

\* The orchestrator probes readiness and a call ends within its timeout.
FairSpec ==
  /\ Spec
  /\ \A i \in Instances : WF_vars(Verify(i))
  /\ \A c \in Calls : WF_vars(Execute(c) \/ Answer(c) \/ Fail(c))

--------------------------------------------------------------------------------
(* Properties *)

Healthy(i) == circuit[i].client = "open" /\ circuit[i].state = "closed"

TypeOK ==
  /\ store \in [state : {"up", "down"}, count : [Keys -> Nat],
                window : [Keys -> Windows]]
  /\ late \in [Keys -> Nat]
  /\ circuit \in [Instances -> Circuits]
  /\ call \in [Calls -> {Idle} \union Waiting \union Answered]
  /\ admitted \in [Keys -> [Windows -> Nat]]
  /\ sent \in 0..MaxCalls /\ faults \in 0..MaxFaults

\* All instances together admit no more requests of a window than the limit,
\* although answers are lost, arrive after the window and calls run late; a
\* sensitive endpoint is admitted by no other means.
WithinLimit ==
  \A k \in Keys, w \in Windows : admitted[k][w] <= Limit

\* The local fallback never outgrows its capacity and holds one bucket per key.
LocalBounded ==
  \A i \in Instances :
    /\ Len(local[i]) <= LocalBuckets
    /\ \A m, n \in DOMAIN local[i] : local[i][m].key = local[i][n].key => m = n

\* Once the store stays up, every instance returns to the shared counters.
Recovers == <>[](store.state = "up") => <>[](\A i \in Instances : Healthy(i))

\* No request waits forever for the limiter.
Decided == \A c \in Calls : call[c].pc = "sent" ~> call[c] = Idle

\* During and after an outage: the fallback is bounded, every call is decided, and
\* the instances return to the shared counters.
OutageSurvived == [](TypeOK /\ LocalBounded) /\ Recovers /\ Decided

================================================================================
