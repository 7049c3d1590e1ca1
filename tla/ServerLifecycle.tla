---------------------------- MODULE ServerLifecycle ----------------------------
(***************************************************************************)
(* One server process from its start to its end: apps/server/src/main.ts,  *)
(* health.ts and the admission of HTTP requests in app.ts.  Signals may    *)
(* arrive at any await.  What happens in a provider is only that it is     *)
(* opened, that its close() settles or fails, or that neither happens      *)
(* before the deadline of the shutdown.                                    *)
(***************************************************************************)
EXTENDS Naturals, Sequences, FiniteSets

CONSTANT Requests   \* HTTP requests of the application

VARIABLES
  start,      \* how far start() is
  resource,   \* what shutdownResources() would close
  signal,     \* shutdownSignal
  timer,      \* startupShutdownTimer
  readiness,  \* OperationalReadiness
  closing,    \* closeInOrder(): what is left, and whether a resource failed
  request,    \* requests in the onRequest hook and after it
  active,     \* activeApplicationRequests, which drainHttp() waits for
  exit        \* how the process ended

vars == <<start, resource, signal, timer, readiness, closing, request, active, exit>>
serving == <<request, active>>

\* shutdownResources(), in their order
ShutdownOrder == <<"websocket", "http", "postgres", "object_storage", "coordination">>
Resources == {ShutdownOrder[i] : i \in 1 .. 5}
Stores == {"postgres", "object_storage", "coordination"}

Init ==
  /\ start = "coordination"
  /\ resource = [r \in Resources |-> "absent"]
  /\ signal = FALSE
  /\ timer = "off"
  /\ readiness = "absent"
  /\ closing = [began |-> FALSE, left |-> <<>>, failed |-> FALSE]
  /\ request = [q \in Requests |-> "none"]
  /\ active = 0
  /\ exit = "none"

Alive == exit = "none"

--------------------------------------------------------------------------------
(* start() *)

\* What each await opens, and the await that follows it.
Opens == [coordination |-> "coordination", storage |-> "object_storage",
          database |-> "postgres", listen |-> "http"]
Following == [coordination |-> "storage", storage |-> "database",
              database |-> "listen", listen |-> "hub"]
Starting == DOMAIN Opens \union {"hub"}

\* An await of start() returns; interruptIfRequested() follows.  The readiness is
\* made for the database, the hub as soon as the server listens.
Opened ==
  /\ Alive /\ start \in DOMAIN Opens
  /\ start' = IF signal THEN "interrupted" ELSE Following[start]
  /\ resource' = [resource EXCEPT
       ![Opens[start]] = "open",
       !["websocket"] = IF start = "listen" /\ ~signal THEN "open" ELSE @]
  /\ readiness' = IF start = "database" /\ ~signal THEN "starting" ELSE readiness
  /\ UNCHANGED <<signal, timer, closing, serving, exit>>

OpenFails ==
  /\ Alive /\ start \in Starting
  /\ start' = IF signal THEN "interrupted" ELSE "failed"
  /\ UNCHANGED <<resource, signal, timer, readiness, closing, serving, exit>>

\* beginDrain() and closeWithinDeadline()
Draining == IF readiness = "absent" THEN "absent" ELSE "draining"
BeginClosing ==
  /\ readiness' = Draining
  /\ closing' = [began |-> TRUE, left |-> ShutdownOrder, failed |-> FALSE]

\* websocketHub.ready() returned: markStarted(), and the signal of meanwhile.
Started ==
  /\ Alive /\ start = "hub"
  /\ start' = "complete"
  /\ IF signal THEN BeginClosing ELSE readiness' = "ready" /\ UNCHANGED closing
  /\ UNCHANGED <<resource, signal, timer, serving, exit>>

\* The catch clause when a shutdown was requested.
Interrupt ==
  /\ Alive /\ start = "interrupted" /\ ~closing.began
  /\ BeginClosing
  /\ UNCHANGED <<start, resource, signal, timer, serving, exit>>

\* The catch clause otherwise: everything is closed at once, without a deadline.
StartFails ==
  /\ Alive /\ start = "failed" /\ ~closing.began
  /\ resource' = [r \in Resources |-> IF resource[r] = "open" THEN "closing" ELSE "closed"]
  /\ closing' = [closing EXCEPT !.began = TRUE]
  /\ UNCHANGED <<start, signal, timer, readiness, serving, exit>>

\* requestShutdown(): the first signal counts; the catch clause of a failed start
\* has removed the handlers.
Signal ==
  /\ Alive /\ ~signal /\ start # "failed"
  /\ signal' = TRUE
  /\ IF start = "complete" THEN BeginClosing /\ UNCHANGED timer
     ELSE timer' = "armed" /\ UNCHANGED <<readiness, closing>>
  /\ UNCHANGED <<start, resource, serving, exit>>

--------------------------------------------------------------------------------
(* closeInOrder() *)

\* Requests whose connection is open: the server's own close() waits for them.
Working == \E q \in Requests : request[q] \in {"limiting", "active"}

\* close() of the next resource; that of http waits in drainHttp() first, when there
\* are requests to wait for.
CallClose ==
  /\ Alive /\ closing.left # <<>>
  /\ LET r == Head(closing.left) IN
     /\ resource[r] \in {"absent", "open"}
     /\ resource' = [resource EXCEPT ![r] =
          IF @ = "absent" THEN "closed"
          ELSE IF r = "http" /\ active > 0 THEN "draining" ELSE "closing"]
  /\ UNCHANGED <<start, signal, timer, readiness, closing, serving, exit>>

\* A close() settles; that of the HTTP server waits for its requests.
Settle(r) ==
  /\ Alive /\ resource[r] = "closing"
  /\ r = "http" => ~Working
  /\ resource' = [resource EXCEPT ![r] = "closed"]
  /\ UNCHANGED <<start, signal, timer, readiness, closing, serving, exit>>

\* (mutant) the next resource is closed while this one still closes
NextCalled ==
  /\ Alive /\ closing.left # <<>>
  /\ resource[Head(closing.left)] \in {"draining", "closing", "closed"}
  /\ closing' = [closing EXCEPT !.left = Tail(@)]
  /\ UNCHANGED <<start, resource, signal, timer, readiness, serving, exit>>
NextResource ==
  /\ Alive /\ closing.left # <<>>
  /\ resource[Head(closing.left)] = "closed"
  /\ closing' = [closing EXCEPT !.left = Tail(@)]
  /\ UNCHANGED <<start, resource, signal, timer, readiness, serving, exit>>

\* A close() throws, or within() gives it up when the deadline passes.
ResourceFails ==
  /\ Alive /\ closing.left # <<>>
  /\ resource[Head(closing.left)] \in {"draining", "closing"}
  /\ closing' = [closing EXCEPT !.left = Tail(@), !.failed = TRUE]
  /\ UNCHANGED <<start, resource, signal, timer, readiness, serving, exit>>

AllCalled == closing.began /\ closing.left = <<>>

\* closeWithinDeadline() threw: forceShutdown().
ForceAfterFailure ==
  /\ Alive /\ AllCalled /\ closing.failed
  /\ exit' = "failure"
  /\ UNCHANGED <<start, resource, signal, timer, readiness, closing, serving>>

\* clearTimeout() at the end of an interrupted start
ClearTimer ==
  /\ Alive /\ start = "interrupted" /\ timer = "armed"
  /\ AllCalled /\ ~closing.failed
  /\ timer' = "off"
  /\ UNCHANGED <<start, resource, signal, readiness, closing, serving, exit>>

\* startupShutdownTimer fires: forceShutdown().
ForceByTimer ==
  /\ Alive /\ timer = "armed"
  /\ timer' = "fired"
  /\ exit' = "failure"
  /\ UNCHANGED <<start, resource, signal, readiness, closing, serving>>

\* Nothing is left in the event loop; the pending timer would be.
Ends ==
  /\ Alive /\ AllCalled /\ ~closing.failed
  /\ \A r \in Resources : resource[r] = "closed"
  /\ timer # "armed"
  /\ exit' = IF start = "failed" THEN "failure" ELSE "success"
  /\ UNCHANGED <<start, resource, signal, timer, readiness, closing, serving>>

--------------------------------------------------------------------------------
(* buildApp(): the onRequest hook, drainHttp() and finalizeRequest() *)

\* A draining process refuses; others are taken to the limiters, whose answers
\* are awaited before the request counts as active.
Arrive(q) ==
  /\ Alive /\ request[q] = "none"
  /\ resource["http"] \in {"open", "draining"}
  /\ readiness # "draining"
  /\ request' = [request EXCEPT ![q] = "limiting"]
  /\ UNCHANGED <<start, resource, signal, timer, readiness, closing, active, exit>>

\* The limiters answered; the hook counts the request, whatever became of it, and its
\* handler runs.
Admit(q) ==
  /\ Alive /\ request[q] \in {"limiting", "aborted"}
  /\ request' = [request EXCEPT ![q] = IF @ = "aborted" THEN "abandoned" ELSE "active"]
  /\ active' = active + 1
  /\ UNCHANGED <<start, resource, signal, timer, readiness, closing, exit>>

\* finalizeRequest() before the hook has counted: a limiter refused, or the client
\* closed the connection (onRequestAbort) while the hook waits.
FinalizeEarly(q) ==
  /\ Alive /\ request[q] = "limiting"
  /\ request' \in {[request EXCEPT ![q] = e] : e \in {"done", "aborted"}}
  /\ UNCHANGED <<start, resource, signal, timer, readiness, closing, active, exit>>
Refuse(q) ==
  /\ Alive /\ request[q] = "aborted"
  /\ request' = [request EXCEPT ![q] = "done"]
  /\ UNCHANGED <<start, resource, signal, timer, readiness, closing, active, exit>>

\* finalizeRequest() of a counted request, when it was answered or when its client closed
\* the connection; the handler of the latter goes on.  The last one resolves drainHttp().
Finalize(q) ==
  /\ Alive /\ request[q] = "active"
  /\ request' \in {[request EXCEPT ![q] = e] : e \in {"done", "abandoned"}}
  /\ active' = active - 1
  /\ resource' = [resource EXCEPT !["http"] =
       IF @ = "draining" /\ active = 1 THEN "closing" ELSE @]
  /\ UNCHANGED <<start, signal, timer, readiness, closing, exit>>

\* A handler nobody waits for comes to its end.
HandlerEnds(q) ==
  /\ Alive /\ request[q] = "abandoned"
  /\ request' = [request EXCEPT ![q] = "done"]
  /\ UNCHANGED <<start, resource, signal, timer, readiness, closing, active, exit>>

StartSteps == Opened \/ OpenFails \/ Started \/ Interrupt \/ StartFails
CloseSteps == CallClose \/ NextResource
Requesting ==
  \E q \in Requests :
    \/ Arrive(q) \/ Admit(q) \/ FinalizeEarly(q) \/ Refuse(q)
    \/ Finalize(q) \/ HandlerEnds(q)
Next ==
  \/ StartSteps \/ Signal \/ CloseSteps \/ ResourceFails \/ Ends
  \/ ForceAfterFailure \/ ClearTimer \/ ForceByTimer
  \/ \E r \in Resources : Settle(r)
  \/ Requesting

\* The event loop runs what is settled, and timers fire: the deadline of each
\* resource, that of an interrupted start.  Providers and requests owe nothing.
Goes ==
  \/ Started \/ Interrupt \/ CloseSteps \/ ResourceFails
  \/ ForceAfterFailure \/ ClearTimer \/ ForceByTimer \/ Ends
Fairness == WF_vars(Goes)
Spec == Init /\ [][Next]_vars /\ Fairness

--------------------------------------------------------------------------------
(* Properties *)

TypeOK ==
  /\ start \in Starting \union {"interrupted", "failed", "complete"}
  /\ resource \in [Resources -> {"absent", "open", "draining", "closing", "closed"}]
  /\ signal \in BOOLEAN
  /\ timer \in {"off", "armed", "fired"}
  /\ readiness \in {"absent", "starting", "ready", "draining"}
  /\ request \in [Requests -> {"none", "limiting", "active", "aborted", "abandoned", "done"}]
  /\ active \in Nat
  /\ exit \in {"none", "success", "failure"}

\* The stores are taken from a request whose client still waits only by a shutdown that
\* failed to close something in time, or by a start that failed.
StoresStay ==
  ~closing.failed /\ start # "failed" =>
    \A r \in Stores : resource[r] \notin {"closing", "closed"}
StoresOutliveRequests == Alive /\ Working => StoresStay

\* Violated.  The shutdown "waits for bounded HTTP work, and then closes PostgreSQL, object
\* storage, and coordination clients" (docs/operations/observability.md:181): an aborted
\* request is no longer waited for while its handler still uses them.
StoresOutliveHandlers ==
  Alive /\ (\E q \in Requests : request[q] \in {"active", "abandoned"}) => StoresStay

\* A process that was told to end does, whatever its providers and requests do, and
\* whenever in its start the signal came.
SignalledProcessEnds == signal ~> ~Alive

\* A shutdown that closed everything in time is a success
\* (docs/operations/observability.md:59 and 183).
CleanShutdownSucceeds ==
  exit = "failure" /\ AllCalled /\ ~closing.failed => start = "failed"

\* What the shutdown waits for are requests: none is counted that has ended
\* (docs/operations/observability.md:181).
DrainCountsRequests ==
  Alive => active = Cardinality({q \in Requests : request[q] = "active"})
================================================================================
