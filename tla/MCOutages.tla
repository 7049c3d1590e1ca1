------------------------------- MODULE MCOutages -------------------------------
(* Small instances for TLC of what goes on while something is down: the request  *)
(* limiter without its store, a server that starts and stops, a client that      *)
(* loses its socket.  The initial state chooses the part that acts; the others   *)
(* stay as they begin.                                                          *)
EXTENDS RequestLimits, TLC

CONSTANTS Requests, Messages

VARIABLES
  part,
  \* ServerLifecycle
  start, resource, signal, timer, readiness, closing, request, active, exit,
  \* WebClient
  stored, unsent, numbered, allowed, server, channel, socket, attempts, space, effects,
  flights, loading, window, older, mode, pending, cursor, clicks, clientFaults, base, missed

serverVars == <<start, resource, signal, timer, readiness, closing, request, active, exit>>
clientVars ==
  <<stored, unsent, numbered, allowed, server, channel, socket, attempts, space, effects,
    flights, loading, window, older, mode, pending, cursor, clicks, clientFaults, base, missed>>

Server == INSTANCE ServerLifecycle
Client == INSTANCE WebClient WITH
  PageSize <- 1, WindowSize <- 2, PendingSize <- 2, MaxAttempts <- 1, MaxFaults <- 1,
  MaxMutations <- 2, MaxClicks <- 1, faults <- clientFaults

MCInit ==
  /\ part \in {"limiter", "server", "client"}
  /\ Init /\ Server!Init /\ Client!Init
MCNext ==
  /\ UNCHANGED part
  /\ \/ part = "limiter" /\ Next /\ UNCHANGED <<serverVars, clientVars>>
     \/ part = "server" /\ Server!Next /\ UNCHANGED <<vars, clientVars>>
     \/ part = "client" /\ Client!Next /\ UNCHANGED <<vars, serverVars>>

\* The fairness of each module, in its part.
LimiterFairness ==
  /\ \A i \in Instances : WF_vars(part = "limiter" /\ Verify(i))
  /\ \A c \in Calls : WF_vars(part = "limiter" /\ (Execute(c) \/ Answer(c) \/ Fail(c)))
ServerFairness == WF_serverVars(part = "server" /\ Server!Goes)
ClientFairness == WF_clientVars(part = "client" /\ Client!Goes)

MCSpec ==
  /\ MCInit /\ [][MCNext]_<<vars, serverVars, clientVars, part>>
  /\ LimiterFairness /\ ServerFairness /\ ClientFairness

--------------------------------------------------------------------------------
\* The stores are closed after the requests whose clients still wait, and a process that
\* was signalled ends, whatever its start or its closing were at (main.ts).
ShutdownSound ==
  [](Server!TypeOK /\ Server!StoresOutliveRequests) /\ Server!SignalledProcessEnds

\* After a loss the client reconciles with the history; meanwhile no answer brings
\* back what was cleared, and older pages are asked for in order (main.tsx).
ClientSound ==
  /\ [](Client!TypeOK /\ Client!ClearedStaysCleared)
  /\ Client!PagesAdvance /\ Client!LossIsReconciled

================================================================================
