------------------------------- MODULE WebClient -------------------------------
(***************************************************************************)
(* The conversation of the web client (apps/web/src/main.tsx): the window  *)
(* of messages it shows, fed by pages of the history, by events of its     *)
(* socket and by the buttons of the reader, over one connection to a       *)
(* server process that may restart.  React runs the effects of a change of *)
(* the space after it, so that Setup and Cleanup are steps of their own.   *)
(* An aborted request may have been answered already: what keeps its answer*)
(* away is the number of the request, so that aborting is not modelled.    *)
(***************************************************************************)
EXTENDS Naturals, Sequences, FiniteSetsExt

CONSTANTS
  Messages,     \* 1 .. n, in the order of (created_at, id)
  PageSize,     \* messages of a page of history
  WindowSize,   \* messages the window holds (200)
  PendingSize,  \* events that wait for a frame (512)
  MaxAttempts,  \* connections tried in a row (8)
  MaxMutations, \* (bound) messages posted, edited or deleted
  MaxFaults,    \* (bound) connections that are lost
  MaxClicks     \* (bound) presses of a button

VARIABLES
  stored,    \* version of each message in the database: 0, 1, or 2 (edited or deleted)
  unsent,    \* events whose mutation is committed and that are not published yet
  numbered,  \* sequence of the server process
  allowed,   \* TRUE while the reader may see the space
  server,    \* the connection as the server has it
  channel,   \* frames on the way to the client
  socket,    \* the connection as the client has it
  attempts,  \* connections tried since one was open
  space,     \* TRUE while the space is chosen
  effects,   \* TRUE while the effects of the chosen space run
  flights,   \* requests of history in progress; "last" while historyRequest is its number
  loading,   \* loadingHistory
  window,    \* version shown of each message, 0 when it is not shown
  older,     \* olderCursor, 0 for none
  mode,      \* "latest" or "older"
  pending,   \* events that wait for the next frame of the browser
  cursor,    \* sequence and events of the deliveries that were accepted
  clicks, faults,
  base,      \* (history) age of the database when the last page applied was read
  missed     \* (history) "no", or the connection was lost and "not reopened" or "reopened"

netVars == <<stored, unsent, numbered, allowed, server, channel>>
viewVars == <<window, older, mode>>
vars == <<netVars, socket, attempts, space, effects, flights, loading, viewVars,
          pending, cursor, clicks, faults, base, missed>>

NoMessages == [m \in Messages |-> 0]
\* How many mutations are committed.
Age == MapThenSumSet(LAMBDA m : stored[m], Messages)

Init ==
  /\ stored = NoMessages /\ unsent = {} /\ numbered = 0 /\ allowed = TRUE
  /\ server = "none" /\ channel = <<>> /\ socket = "none" /\ attempts = 0
  /\ space = TRUE /\ effects = FALSE /\ flights = {} /\ loading = FALSE
  /\ window = NoMessages /\ older = 0 /\ mode = "latest" /\ pending = <<>>
  /\ cursor = [sequence |-> 0, seen |-> {}]
  /\ clicks = 0 /\ faults = 0 /\ base = 0 /\ missed = "no"

--------------------------------------------------------------------------------
(* mergeMessageWindow() *)

Present(w) == {m \in Messages : w[m] > 0}
Newest(S, n) == {m \in S : Cardinality({k \in S : k > m}) < n}
Oldest(S, n) == {m \in S : Cardinality({k \in S : k < m}) < n}
Keep(w, S) == [m \in Messages |-> IF m \in S THEN w[m] ELSE 0]
\* What comes in replaces what is shown of the same message.
Merge(w, incoming, retention) ==
  LET both == [m \in Messages |-> IF incoming[m] > 0 THEN incoming[m] ELSE w[m]]
  IN Keep(both, IF retention = "newest" THEN Newest(Present(both), WindowSize)
                ELSE Oldest(Present(both), WindowSize))

\* A page: the newest messages before the cursor, and where the next one begins.
Page(before) ==
  LET S == {m \in Present(stored) : before = 0 \/ m < before}  items == Newest(S, PageSize)
  IN [items |-> Keep(stored, items), next |-> IF items = S THEN 0 ELSE Min(items)]

\* The events of the queue, in their order.
Queued == [m \in Messages |->
  LET own == {k \in DOMAIN pending : pending[k][1] = m} IN IF own = {} THEN 0 ELSE pending[Max(own)][2]]
Flushed(queued) ==
  IF mode = "older" THEN Merge(window, Keep(queued, Present(window)), "oldest")
  ELSE Merge(window, queued, "newest")

--------------------------------------------------------------------------------
(* Requests of history *)

\* historyRequest += 1
Outdated == {[r EXCEPT !.last = FALSE] : r \in flights}
Ask(kind) ==
  /\ loading' = TRUE
  /\ flights' = Outdated \union {[last |-> TRUE, kind |-> kind, step |-> "asked", before |-> older]}

\* The server answers with what is stored now, or refuses.
Read(r) ==
  /\ r \in flights /\ r.step = "asked"
  /\ flights' = (flights \ {r}) \union
       {[last |-> r.last, kind |-> r.kind, step |-> IF allowed THEN "read" ELSE "refused",
         page |-> Page(IF r.kind = "older" THEN r.before ELSE 0), age |-> Age, reopened |-> missed = "reopened"]}
  /\ UNCHANGED <<netVars, socket, attempts, space, effects, loading, viewVars, pending,
                 cursor, clicks, faults, base, missed>>

LastRequest(r) == r.last

Answer(r) ==
  /\ r \in flights /\ r.step # "asked"
  /\ flights' = flights \ {r}
  /\ IF LastRequest(r)
     THEN /\ loading' = FALSE
          /\ IF r.step = "read"
             THEN /\ window' = IF r.kind = "older" THEN Merge(window, r.page.items, "oldest")
                               ELSE Merge(NoMessages, r.page.items, "newest")
                  /\ older' = r.page.next
                  /\ mode' = IF r.kind = "older" THEN "older" ELSE "latest"
                  /\ base' = r.age
                  /\ missed' = IF r.reopened THEN "no" ELSE missed
             ELSE missed' = "no" /\ UNCHANGED <<viewVars, base>>
     ELSE UNCHANGED <<loading, viewVars, base, missed>>
  /\ UNCHANGED <<netVars, socket, attempts, space, effects, pending, cursor, clicks, faults>>

LoadOlder ==
  /\ space /\ effects /\ older # 0 /\ ~loading /\ clicks < MaxClicks
  /\ Ask("older") /\ clicks' = clicks + 1
  /\ UNCHANGED <<netVars, socket, attempts, space, effects, viewVars, pending, cursor, faults, base, missed>>
ShowLatest ==
  /\ space /\ effects /\ ~loading /\ clicks < MaxClicks
  /\ Ask("latest") /\ clicks' = clicks + 1
  /\ UNCHANGED <<netVars, socket, attempts, space, effects, viewVars, pending, cursor, faults, base, missed>>

--------------------------------------------------------------------------------
(* The effects of the chosen space *)

Setup ==
  /\ space /\ ~effects /\ effects' = TRUE
  /\ Ask("initial")
  /\ cursor' = [sequence |-> 0, seen |-> {}]
  /\ socket' = "connecting" /\ attempts' = 0 /\ server' = "none" /\ channel' = <<>>
  /\ UNCHANGED <<stored, unsent, numbered, allowed, space, viewVars, pending, clicks, faults, base, missed>>

Cleanup ==
  /\ ~space /\ effects /\ effects' = FALSE
  /\ flights' = Outdated /\ pending' = <<>>
  /\ socket' = "none" /\ server' = "closed" /\ channel' = <<>> /\ missed' = "no"
  /\ UNCHANGED <<stored, unsent, numbered, allowed, attempts, space, loading, viewVars, cursor, clicks,
                 faults, base>>

Choose ==
  /\ ~space /\ ~effects /\ clicks < MaxClicks /\ clicks' = clicks + 1
  /\ space' = TRUE
  /\ UNCHANGED <<netVars, socket, attempts, effects, flights, loading, viewVars, pending,
                 cursor, faults, base, missed>>

--------------------------------------------------------------------------------
(* connect() *)

Reconnecting(n) == n > 0

Opened ==
  /\ effects /\ socket = "connecting"
  /\ socket' = "open" /\ attempts' = 0 /\ server' = "accepted" /\ channel' = <<>>
  /\ missed' = IF missed = "not reopened" THEN "reopened" ELSE missed
  /\ IF Reconnecting(attempts) THEN Ask("reconcile") ELSE UNCHANGED <<flights, loading>>
  /\ UNCHANGED <<stored, unsent, numbered, allowed, space, effects, viewVars, pending, cursor,
                 clicks, faults, base>>

\* onclose(): codes 1000 and 1001 are final.
CloseAs(code) ==
  /\ attempts' = IF code = 1001 THEN attempts ELSE attempts + 1
  /\ socket' = IF code = 1001 THEN "ended" ELSE IF attempts + 1 > MaxAttempts THEN "given up" ELSE "waiting"
  /\ missed' = "not reopened"
Refused ==
  /\ effects /\ socket = "connecting" /\ faults < MaxFaults /\ faults' = faults + 1
  /\ CloseAs(1006)
  /\ UNCHANGED <<netVars, space, effects, flights, loading, viewVars, pending, cursor, clicks, base>>
Retry ==
  /\ effects /\ socket = "waiting" /\ socket' = "connecting"
  /\ UNCHANGED <<netVars, attempts, space, effects, flights, loading, viewVars, pending,
                 cursor, clicks, faults, base, missed>>

--------------------------------------------------------------------------------
(* onmessage() *)

Next1 == effects /\ socket = "open" /\ channel # <<>>
Frame == Head(channel)
Took == channel' = Tail(channel) /\ UNCHANGED <<stored, unsent, numbered, allowed, server>>

\* acceptDelivery(), queueRealtimeMessage()
Accepted == [sequence |-> Max({cursor.sequence, Frame.number}), seen |-> cursor.seen \union {Frame.event}]
Event ==
  /\ Next1 /\ Frame.type = "event" /\ Took
  /\ IF Frame.event \in cursor.seen THEN UNCHANGED <<flights, loading, window, pending, cursor>>
     ELSE /\ cursor' = Accepted
          /\ IF cursor.sequence > 0 /\ Frame.number # cursor.sequence + 1
             THEN Ask("reconcile") ELSE UNCHANGED <<flights, loading>>
          /\ IF Len(pending) + 1 >= PendingSize
             THEN /\ window' = Flushed([Queued EXCEPT ![Frame.event[1]] = Frame.event[2]])
                  /\ pending' = <<>>
             ELSE pending' = Append(pending, Frame.event) /\ UNCHANGED window
  /\ UNCHANGED <<socket, attempts, space, effects, older, mode, clicks, faults, base, missed>>

Flush ==
  /\ effects /\ pending # <<>>
  /\ window' = Flushed(Queued) /\ pending' = <<>>
  /\ UNCHANGED <<netVars, socket, attempts, space, effects, flights, loading, older, mode,
                 cursor, clicks, faults, base, missed>>

\* (mutant) requests in progress stay valid
StillValid == flights
NoLonger == Outdated
\* "unavailable" and "unauthenticated": nothing of the space stays.
Unavailable ==
  /\ Next1 /\ Frame.type = "unavailable" /\ Took
  /\ flights' = NoLonger /\ pending' = <<>> /\ space' = FALSE
  /\ window' = NoMessages /\ older' = 0
  /\ UNCHANGED <<socket, attempts, effects, loading, mode, cursor, clicks, faults, base, missed>>

Close ==
  /\ Next1 /\ Frame.type = "close" /\ Took
  /\ CloseAs(Frame.code)
  /\ UNCHANGED <<space, effects, flights, loading, viewVars, pending, cursor, clicks, faults, base>>

--------------------------------------------------------------------------------
(* The server *)

clientVars == <<socket, attempts, space, effects, flights, loading, viewVars, pending,
                cursor, clicks, base, missed>>

Store(m) ==
  /\ Age < MaxMutations /\ stored[m] = 0 /\ \A k \in Messages : k < m => stored[k] > 0
  /\ stored' = [stored EXCEPT ![m] = 1] /\ unsent' = unsent \union {<<m, 1>>}
  /\ UNCHANGED <<numbered, allowed, server, channel, clientVars, faults>>
Change(m) ==
  /\ Age < MaxMutations /\ stored[m] = 1
  /\ stored' = [stored EXCEPT ![m] = 2] /\ unsent' = unsent \union {<<m, 2>>}
  /\ UNCHANGED <<numbered, allowed, server, channel, clientVars, faults>>
\* Each request publishes its event when it comes to it, a POST after its mentions.
Publish(e) ==
  /\ e \in unsent /\ unsent' = unsent \ {e} /\ numbered' = numbered + 1
  /\ channel' = IF server = "subscribed" THEN Append(channel, [type |-> "event", number |-> numbered', event |-> e])
                ELSE channel
  /\ UNCHANGED <<stored, allowed, server, clientVars, faults>>

Subscribe ==
  /\ server = "accepted"
  /\ IF allowed THEN server' = "subscribed" /\ UNCHANGED channel
     ELSE server' = "refused" /\ channel' = Append(channel, [type |-> "unavailable"])
  /\ UNCHANGED <<stored, unsent, numbered, allowed, clientVars, faults>>
Revoke ==
  /\ allowed /\ allowed' = FALSE
  /\ IF server = "subscribed" THEN server' = "refused" /\ channel' = Append(channel, [type |-> "unavailable"])
     ELSE UNCHANGED <<server, channel>>
  /\ UNCHANGED <<stored, unsent, numbered, clientVars, faults>>

\* A restart closes with 1001 after what it sent; a crash and a broken network lose it.
Lose(code, restart) ==
  /\ server \in {"accepted", "subscribed"} /\ faults < MaxFaults /\ faults' = faults + 1
  /\ server' = "closed"
  /\ channel' = (IF code = 1001 THEN channel ELSE <<>>) \o <<[type |-> "close", code |-> code]>>
  /\ IF restart THEN numbered' = 0 /\ unsent' = {} ELSE UNCHANGED <<numbered, unsent>>
  /\ UNCHANGED <<stored, allowed, clientVars>>

Next ==
  \/ Setup \/ Cleanup \/ Choose \/ LoadOlder \/ ShowLatest
  \/ Opened \/ Refused \/ Retry \/ Event \/ Flush \/ Unavailable \/ Close
  \/ \E r \in flights : Read(r) \/ Answer(r)
  \/ \E m \in Messages : Store(m) \/ Change(m)
  \/ \E e \in unsent : Publish(e)
  \/ Subscribe \/ Revoke \/ Lose(1001, TRUE) \/ Lose(1006, TRUE) \/ Lose(1006, FALSE)

\* The browser and the network go on; a request is answered.
Goes ==
  \/ Setup \/ Cleanup \/ Opened \/ Retry \/ Event \/ Unavailable \/ Close \/ Flush
  \/ \E r \in flights : Read(r) \/ Answer(r)
Fairness == WF_vars(Goes)
Spec == Init /\ [][Next]_vars /\ Fairness

--------------------------------------------------------------------------------
(* Properties *)

TypeOK ==
  /\ stored \in [Messages -> 0 .. 2] /\ window \in [Messages -> 0 .. 2]
  /\ Cardinality(Present(window)) <= WindowSize /\ Len(pending) < PendingSize
  /\ Cardinality({r \in flights : r.last}) <= 1

\* Pages are applied in the order they were read, whatever order their answers come in.
PagesAdvance == [][base' >= base]_vars

\* "A removed resource clears the pending data rather than retaining a stale private
\* page": without a space nothing is shown, also when an answer or a frame is late.
ClearedStaysCleared == ~space => window = NoMessages

\* "Clients fetch HTTP history after a reconnect": a connection that is lost leads to a
\* page read after it was open again, or to an error that is shown.
LossIsReconciled ==
  (socket = "waiting" /\ space) ~> (missed = "no" \/ ~space \/ socket \in {"given up", "ended"})

\* "Clients fetch HTTP history after a server restart."
RestartIsReconciled == (socket = "ended" /\ space) ~> (missed = "no" \/ ~space)

\* "Deletion is a tombstone: body content is removed": what was shown as deleted (or
\* edited) is not shown as it was before.
DeletedStaysDeleted == [][\A m \in Messages : window[m] = 2 => window'[m] # 1]_vars
================================================================================
