---------------------------- MODULE RealtimeDelivery ----------------------------
(***************************************************************************)
(* Delivery of events by the hub of one server process                     *)
(* (apps/server/src/websocket.ts): broadcast() of its own events, and      *)
(* receiveFanout() of what the other processes publish, which awaits an    *)
(* authorization of each subscriber before it delivers.  Any event may     *)
(* arrive at any time and again: a moderation that is repeated publishes   *)
(* its event under the same id, and from any process.                      *)
(***************************************************************************)
EXTENDS Naturals, SequencesExt

CONSTANTS
  Sockets,       \* open sockets
  AccountOf,     \* the account of each socket
  Spaces,        \* text spaces
  Events,        \* events of spaces
  SpaceOf,       \* the space of each event
  Notices,       \* messages to all devices of an account (notification_read)
  OwnerOf,       \* the account of each notice
  Fanouts,       \* runs of receiveFanout() in progress
  MaxSubscriptions, \* spaces a socket may follow
  MaxSequences,  \* spaces whose sequence is remembered: as many as sockets may follow
                 \* together, but not more than 100,000
  MaxRemembered, \* ids that are remembered (10,000)
  MaxBuffered,   \* messages a socket may have in its buffer
  MaxIds         \* (bound) ids taken for new

VARIABLES
  wire,       \* "open", "closing" or "closed"
  sessions,   \* accounts whose session is valid
  viewers,    \* <<account, space>>: who may see a space
  subs,       \* subscriptions of each socket
  joining,    \* <<socket, space>>: authorized subscriptions that are not added yet
  sequences,  \* the last number of each space, the least recently used first
  forgotten,  \* (history) spaces whose number was forgotten although they were followed
  seen,       \* ids in the order in which they were taken for new; the last are remembered
  fanout,     \* where each run of receiveFanout() stands
  buffered,   \* messages in the buffer of each socket
  got,        \* what each socket was sent of each space: numbers, and positions in seen
  told,       \* the notices each socket was sent: positions in seen
  informed    \* spaces each socket was sent "unavailable" for since it followed them

vars == <<wire, sessions, viewers, subs, joining, sequences, forgotten, seen, fanout, buffered, got, told, informed>>
hubVars == <<wire, sequences, forgotten, seen, buffered, got, told, informed>>

Idle == [step |-> "idle"]
Nothing == [last |-> 0, number |-> 0, events |-> <<>>]

Init ==
  /\ wire = [s \in Sockets |-> "open"]
  /\ sessions = {AccountOf[s] : s \in Sockets}
  /\ viewers = sessions \X Spaces
  /\ subs = [s \in Sockets |-> {}] /\ joining = {}
  /\ sequences = <<>> /\ forgotten = {} /\ seen = <<>>
  /\ fanout = [f \in Fanouts |-> Idle]
  /\ buffered = [s \in Sockets |-> 0]
  /\ got = [s \in Sockets |-> [p \in Spaces |-> Nothing]]
  /\ told = [s \in Sockets |-> <<>>] /\ informed = [s \in Sockets |-> {}]

Live == {s \in Sockets : wire[s] # "closed"}
Subscribers(p) == {s \in Live : p \in subs[s]}
Of(a) == {s \in Live : AccountOf[s] = a}
MayView(s, p) == <<AccountOf[s], p>> \in viewers

--------------------------------------------------------------------------------
(* sendSerialized() to each of a set of sockets *)

HasBuffer(s) == buffered[s] < MaxBuffered
Reached(S) == {s \in S : wire[s] = "open" /\ HasBuffer(s)}
\* A slow consumer is closed instead.
Send(S) ==
  /\ wire' = [s \in Sockets |-> IF s \in S /\ wire[s] = "open" /\ ~HasBuffer(s) THEN "closing" ELSE wire[s]]
  /\ buffered' = [s \in Sockets |-> IF s \in Reached(S) THEN buffered[s] + 1 ELSE buffered[s]]
Tell(S, at) ==
  /\ Send(S)
  /\ told' = [s \in Sockets |-> IF s \in Reached(S) THEN Append(told[s], at) ELSE told[s]]

--------------------------------------------------------------------------------
(* deliver() *)

Number(p) ==
  IF \E k \in DOMAIN sequences : sequences[k][1] = p
  THEN 1 + sequences[CHOOSE k \in DOMAIN sequences : sequences[k][1] = p][2] ELSE 1
Touched(p) == Append(SelectSeq(sequences, LAMBDA x : x[1] # p), <<p, Number(p)>>)
\* Beyond the limit, the oldest space without a subscriber is forgotten.
Evict(all) ==
  LET free == {k \in DOMAIN all : Subscribers(all[k][1]) = {}}
  IN IF free = {} THEN RemoveAt(all, 1) ELSE RemoveAt(all, CHOOSE k \in free : \A j \in free : k <= j)

AllFollowed(all) == \A k \in DOMAIN all : Subscribers(all[k][1]) # {}

\* remember(): the oldest ids are forgotten.
Remembered == ToSet(SubSeq(seen, Max({1, Len(seen) - MaxRemembered + 1}), Len(seen)))
IsNew(e) == e \notin Remembered
Remember(e) == Len(seen) < MaxIds /\ seen' = Append(seen, e)

Deliver(e) ==
  LET p == SpaceOf[e]  over == Len(Touched(p)) > MaxSequences IN
  IF IsNew(e)
  THEN /\ Remember(e)
       /\ sequences' = IF over THEN Evict(Touched(p)) ELSE Touched(p)
       /\ forgotten' = IF over /\ AllFollowed(Touched(p)) THEN forgotten \union {Head(Touched(p))[1]}
                       ELSE forgotten
       /\ Send(Subscribers(p))
       /\ got' = [s \in Sockets |->
            IF s \in Reached(Subscribers(p))
            THEN [got[s] EXCEPT ![p] = [last |-> @.number, number |-> Number(p),
                                           events |-> Append(@.events, Len(seen'))]]
            ELSE got[s]]
  ELSE UNCHANGED <<wire, sequences, forgotten, seen, buffered, got>>

\* broadcast(): events of this process.
Broadcast(e) == Deliver(e) /\ UNCHANGED <<sessions, viewers, subs, joining, fanout, told, informed>>

\* broadcastAccount()
BroadcastAccount(n) ==
  /\ IsNew(n) /\ Remember(n)
  /\ Tell(Of(OwnerOf[n]), Len(seen'))
  /\ UNCHANGED <<sessions, viewers, subs, joining, sequences, forgotten, fanout, got, informed>>

--------------------------------------------------------------------------------
(* receiveFanout() *)

\* The subscribers of the moment are gone through; what is known already is dropped.
Arrive(f, e) ==
  /\ fanout[f] = Idle /\ IsNew(e)
  /\ fanout' = [fanout EXCEPT ![f] =
       [step |-> "event", id |-> e, todo |-> Subscribers(SpaceOf[e]),
        refused |-> {s \in Subscribers(SpaceOf[e]) : ~MayView(s, SpaceOf[e]) /\ <<s, SpaceOf[e]>> \notin joining}]]
  /\ UNCHANGED <<hubVars, sessions, viewers, subs, joining>>

\* (mutant) a subscriber that is refused keeps its subscription
Keeps(s, p) == subs
Without(s, p) == [subs EXCEPT ![s] = @ \ {p}]

\* An authorization that is refused, or fails, ends the subscription.
Visit(f, s) ==
  LET p == SpaceOf[fanout[f].id] IN
  /\ fanout[f].step = "event" /\ s \in fanout[f].todo
  /\ fanout' = [fanout EXCEPT ![f].todo = @ \ {s}]
  /\ \/ MayView(s, p) /\ UNCHANGED subs
     \/ subs' = Without(s, p)
  /\ UNCHANGED <<hubVars, sessions, viewers, joining>>

DeliverRemote(f) ==
  /\ fanout[f].step = "event" /\ fanout[f].todo = {}
  /\ Deliver(fanout[f].id)
  /\ fanout' = [fanout EXCEPT ![f] = Idle]
  /\ UNCHANGED <<sessions, viewers, subs, joining, told, informed>>

\* A notice of another process is remembered first; each session is checked.
ArriveAccount(f, n) ==
  /\ fanout[f] = Idle /\ IsNew(n) /\ Remember(n)
  /\ fanout' = [fanout EXCEPT ![f] = [step |-> "notice", at |-> Len(seen'), todo |-> Of(OwnerOf[n])]]
  /\ UNCHANGED <<wire, sessions, viewers, subs, joining, sequences, forgotten, buffered, got, told, informed>>
VisitAccount(f, s) ==
  /\ fanout[f].step = "notice" /\ s \in fanout[f].todo
  /\ fanout' = [fanout EXCEPT ![f] = IF @.todo = {s} THEN Idle ELSE [@ EXCEPT !.todo = @ \ {s}]]
  /\ IF AccountOf[s] \in sessions THEN Tell({s}, fanout[f].at)
     ELSE /\ wire' = [wire EXCEPT ![s] = IF @ = "open" THEN "closing" ELSE @]
          /\ UNCHANGED <<buffered, told>>
  /\ UNCHANGED <<sessions, viewers, subs, joining, sequences, forgotten, seen, got, informed>>

\* The sessions of an account were ended by another process.
Invalidate(a) ==
  /\ a \notin sessions
  /\ wire' = [s \in Sockets |-> IF s \in Of(a) THEN "closing" ELSE wire[s]]
  /\ UNCHANGED <<sessions, viewers, subs, joining, sequences, forgotten, seen, fanout, buffered, got, told, informed>>

--------------------------------------------------------------------------------
(* Subscriptions, revalidation and the sockets (RealtimeHub has their detail) *)

\* One at a time for each socket: several that pass the limit together are in RealtimeHub.
Authorize(s, p) ==
  /\ wire[s] = "open" /\ AccountOf[s] \in sessions /\ MayView(s, p)
  /\ (\A q \in Spaces : <<s, q>> \notin joining) /\ (p \in subs[s] \/ Cardinality(subs[s]) < MaxSubscriptions)
  /\ joining' = joining \union {<<s, p>>}
  /\ UNCHANGED <<hubVars, sessions, viewers, subs, fanout>>
\* A new subscription starts a new count of what it is sent.
Join(s, p) ==
  /\ <<s, p>> \in joining /\ joining' = joining \ {<<s, p>>}
  /\ subs' = [subs EXCEPT ![s] = IF wire[s] = "closed" THEN @ ELSE @ \union {p}]
  /\ got' = [got EXCEPT ![s][p].number = IF p \in subs[s] THEN @ ELSE 0]
  /\ informed' = [informed EXCEPT ![s] = @ \ {p}]
  /\ UNCHANGED <<wire, sessions, viewers, sequences, forgotten, seen, fanout, buffered, told>>
Unsubscribe(s, p) ==
  /\ wire[s] = "open" /\ p \in subs[s]
  /\ subs' = Without(s, p)
  /\ UNCHANGED <<hubVars, sessions, viewers, joining, fanout>>
Revalidate(s, p) ==
  /\ wire[s] # "closed" /\ p \in subs[s] /\ ~MayView(s, p)
  /\ subs' = Without(s, p) /\ Send({s})
  /\ informed' = [informed EXCEPT ![s] = IF s \in Reached({s}) THEN @ \union {p} ELSE @]
  /\ UNCHANGED <<sessions, viewers, joining, sequences, forgotten, seen, fanout, got, told>>

\* A message has left the buffer.
Settle(s) ==
  /\ wire[s] # "closed" /\ buffered[s] > 0
  /\ buffered' = [buffered EXCEPT ![s] = @ - 1]
  /\ UNCHANGED <<wire, sessions, viewers, subs, joining, sequences, forgotten, seen, fanout, got, told, informed>>
Closed(s) ==
  /\ wire[s] # "closed"
  /\ wire' = [wire EXCEPT ![s] = "closed"]
  /\ subs' = [subs EXCEPT ![s] = {}] /\ buffered' = [buffered EXCEPT ![s] = 0]
  /\ UNCHANGED <<sessions, viewers, joining, sequences, forgotten, seen, fanout, got, told, informed>>

LoseAccess(a, p) ==
  /\ viewers' = viewers \ {<<a, p>>}
  /\ UNCHANGED <<hubVars, sessions, subs, joining, fanout>>
EndSession(a) ==
  /\ sessions' = sessions \ {a}
  /\ UNCHANGED <<hubVars, viewers, subs, joining, fanout>>

Next ==
  \/ \E e \in Events : Broadcast(e) \/ \E f \in Fanouts : Arrive(f, e)
  \/ \E n \in Notices : BroadcastAccount(n) \/ \E f \in Fanouts : ArriveAccount(f, n)
  \/ \E f \in Fanouts : DeliverRemote(f) \/ \E s \in Sockets : Visit(f, s) \/ VisitAccount(f, s)
  \/ \E s \in Sockets, p \in Spaces : Authorize(s, p) \/ Join(s, p) \/ Unsubscribe(s, p) \/ Revalidate(s, p)
  \/ \E s \in Sockets : Settle(s) \/ Closed(s)
  \/ \E a \in {AccountOf[s] : s \in Sockets} :
       Invalidate(a) \/ EndSession(a) \/ \E p \in Spaces : LoseAccess(a, p)

Spec == Init /\ [][Next]_vars

--------------------------------------------------------------------------------
(* Properties *)

TypeOK ==
  /\ \A s \in Sockets : wire[s] \in {"open", "closing", "closed"} /\ subs[s] \subseteq Spaces
  /\ \A s \in Sockets : buffered[s] \in 0 .. MaxBuffered
  /\ viewers \subseteq {AccountOf[s] : s \in Sockets} \X Spaces /\ Len(sequences) <= MaxSequences

\* "Duplicate deliveries are discarded at each instance": although runs of receiveFanout()
\* and broadcast() of one event overlap, no socket is sent an event twice, unless
\* MaxRemembered other ids came in between.
Apart(positions) ==
  /\ IsInjective(positions)
  /\ \A j, k \in ToSet(positions) : j < k /\ seen[j] = seen[k] => k - j > MaxRemembered
SentOnce == \A s \in Sockets : Apart(told[s]) /\ \A p \in Spaces : Apart(got[s][p].events)

\* While its subscription lasts, the numbers a socket is sent leave no gap: the client
\* fetches the history only when it missed something.  Only where more spaces are followed
\* than sequences are remembered, the number of one that is begins again.
NumbersGoOn ==
  \A s \in Sockets, p \in Spaces : got[s][p].last > 0 =>
    got[s][p].number \in {0, got[s][p].last + 1} \/ (got[s][p].number = 1 /\ p \in forgotten)

\* "Active subscriptions are rechecked on relevant events": who had lost the space by the
\* time an event of another process arrived is not sent it (unless a subscription that
\* was authorized before is still on its way).
RefusedGetNothing ==
  [][\A f \in Fanouts : fanout[f].step = "event" /\ fanout'[f] = Idle =>
       \A s \in fanout[f].refused : Len(got'[s][SpaceOf[fanout[f].id]].events)
                                      = Len(got[s][SpaceOf[fanout[f].id]].events)]_vars

\* "A removed resource clears the pending data rather than retaining a stale private
\* page": an open socket whose subscription the hub ends is told so.
RemovedIsTold ==
  [][\A f \in Fanouts, s \in Sockets : Visit(f, s) /\ wire[s] = "open" /\ HasBuffer(s) /\ subs'[s] # subs[s] =>
       SpaceOf[fanout[f].id] \in informed'[s]]_vars
================================================================================
