------------------------------ MODULE RealtimeHub ------------------------------
(***************************************************************************)
(* The WebSocket hub of the server (apps/server/src/websocket.ts): the     *)
(* admission of upgrade requests, the registry of live connections, the    *)
(* index of space subscriptions, the periodic revalidation of sessions and *)
(* permissions, the revocation of an account's sockets and the shutdown.   *)
(*                                                                         *)
(* JavaScript runs to completion between two awaits, so an action is the   *)
(* code from one await to the next.  Everything a handler learned before   *)
(* an await may be stale when it goes on: that is what the "pc" of the     *)
(* handshakes, message handlers and revalidation runs stands for.          *)
(*                                                                         *)
(* Time is abstracted: an interval or a timeout is an action that may      *)
(* happen whenever its timer may fire.  The send buffers of the sockets,   *)
(* presence and the fan-out between instances are not part of this module. *)
(***************************************************************************)
EXTENDS Naturals, FiniteSets

CONSTANTS
  Sockets,          \* upgrade requests, and the socket each one becomes
  Sessions,         \* authentication sessions (the cookie's token)
  Accounts,
  Addresses,        \* client addresses after proxy resolution
  Spaces,
  Handlers,         \* messages of all sockets that are in flight at once
  Revalidators,     \* overlapping runs of revalidate()
  SessionOf,        \* the session whose token a socket presents
  AccountOf,        \* the account a session belongs to
  AddressOf,        \* the address an upgrade request comes from
  MaxConnections, MaxConnectionsPerAddress, MaxConnectionsPerAccount,
  MaxSubscriptions

ASSUME HubAssumption ==
  /\ IsFiniteSet(Sockets) /\ IsFiniteSet(Spaces)
  /\ SessionOf \in [Sockets -> Sessions]
  /\ AccountOf \in [Sessions -> Accounts]
  /\ AddressOf \in [Sockets -> Addresses]
  /\ MaxConnections \in Nat
  /\ MaxConnectionsPerAddress \in Nat
  /\ MaxConnectionsPerAccount \in Nat
  /\ MaxSubscriptions \in Nat

VARIABLES
  phase,              \* "running"; then close(): "draining", "closing", "closed"
  upgrade,            \* where verify() of each upgrade request stands
  pending,            \* admitted by verify(), socket not opened yet
  connections,        \* the keys of the connections Map
  wire,               \* readyState of each socket, "none" before it exists
  subscriptions,      \* ConnectionState.subscriptions of each socket
  subscribersBySpace, \* the index used by deliver()
  subscriptionCount,
  handler,            \* handleMessage() calls in flight
  revalidation,       \* revalidate() calls in flight
  validSessions,      \* sessions authenticate() accepts
  viewers             \* <<account, space>> pairs the service authorizes

admissionVars == <<upgrade, pending>>
indexVars == <<subscriptions, subscribersBySpace, subscriptionCount>>
storeVars == <<validSessions, viewers>>
vars == <<phase, upgrade, pending, connections, wire, subscriptions,
          subscribersBySpace, subscriptionCount, handler, revalidation,
          validSessions, viewers>>

--------------------------------------------------------------------------------
(* Derived notions *)

ActorOf(c) == AccountOf[SessionOf[c]]
draining == phase # "running"

\* Sockets that count against a limit: connected ones and admitted ones.
Held == connections \union pending
HeldByAddress(a) == {c \in Held : AddressOf[c] = a}
HeldByAccount(a) == {c \in Held : ActorOf(c) = a}

\* The capacity test verify() makes before it reads the session...
HasRoom(c) ==
  /\ Cardinality(connections) + Cardinality(pending) < MaxConnections
  /\ Cardinality(HeldByAddress(AddressOf[c])) < MaxConnectionsPerAddress
\* ...and the one it makes after the last await.
HasAccountRoom(c) ==
  /\ HasRoom(c)
  /\ Cardinality(HeldByAccount(ActorOf(c))) < MaxConnectionsPerAccount

Idle == [pc |-> "idle"]
InFlight == [pc : {"limiter", "authenticate", "authorize", "granted"},
             socket : Sockets, type : {"subscribe", "unsubscribe", "other"},
             space : Spaces]
Resting == [pc |-> "resting"]
Scanning == [pc : {"scan"}, visited : SUBSET Sockets]
Visiting == [pc : {"authenticate", "authorize"}, visited : SUBSET Sockets,
             socket : Sockets, todo : SUBSET Spaces]
Denied == [pc : {"denied"}, visited : SUBSET Sockets,
           socket : Sockets, todo : SUBSET Spaces, space : Spaces]

\* socket.close() and socket.terminate(): the close event comes later.
Closing(cs) == [c \in Sockets |-> IF c \in cs /\ wire[c] = "OPEN"
                                  THEN "CLOSING" ELSE wire[c]]

\* (mutant) counts a space two messages subscribe at the same time twice
AddSubscriptionTwice(c, s) ==
  /\ subscriptions' = [subscriptions EXCEPT ![c] = @ \union {s}]
  /\ subscribersBySpace' = [subscribersBySpace EXCEPT ![s] = @ \union {c}]
  /\ subscriptionCount' = subscriptionCount + 1

\* addSubscription() of a space, removeSubscription() of a set of spaces.
AddSubscription(c, s) ==
  IF s \in subscriptions[c] THEN UNCHANGED indexVars ELSE
  /\ subscriptions' = [subscriptions EXCEPT ![c] = @ \union {s}]
  /\ subscribersBySpace' = [subscribersBySpace EXCEPT ![s] = @ \union {c}]
  /\ subscriptionCount' = subscriptionCount + 1

RemoveSubscriptions(c, ss) ==
  LET gone == ss \intersect subscriptions[c]
      n    == Cardinality(gone) IN
  /\ subscriptions' = [subscriptions EXCEPT ![c] = @ \ gone]
  /\ subscribersBySpace' = [s \in Spaces |-> IF s \in gone
                              THEN subscribersBySpace[s] \ {c}
                              ELSE subscribersBySpace[s]]
  /\ subscriptionCount' = IF n <= subscriptionCount
                          THEN subscriptionCount - n ELSE 0

\* cleanup(): only the first call for a socket finds it in the Map.
Cleanup(c) ==
  IF c \notin connections THEN UNCHANGED <<connections, indexVars>> ELSE
  /\ connections' = connections \ {c}
  /\ RemoveSubscriptions(c, subscriptions[c])

--------------------------------------------------------------------------------
Init ==
  /\ phase = "running"
  /\ upgrade = [c \in Sockets |-> "idle"]
  /\ pending = {}
  /\ connections = {}
  /\ wire = [c \in Sockets |-> "none"]
  /\ subscriptions = [c \in Sockets |-> {}]
  /\ subscribersBySpace = [s \in Spaces |-> {}]
  /\ subscriptionCount = 0
  /\ handler = [h \in Handlers |-> Idle]
  /\ revalidation = [r \in Revalidators |-> Resting]
  /\ validSessions = Sessions
  /\ viewers = Accounts \X Spaces

(* verify() of an upgrade request, and the "connection" event *)

\* The request arrives; verify() awaits the route and address limiters.
UpgradeRequest(c) ==
  /\ upgrade[c] = "idle"
  /\ phase = "running"
  /\ upgrade' = [upgrade EXCEPT ![c] = "limiter"]
  /\ UNCHANGED <<phase, pending, connections, wire, indexVars, handler,
                 revalidation, storeVars>>

\* A limiter refuses, here or after authentication; or there is no token.
RefuseUpgrade(c) ==
  /\ upgrade[c] \in {"limiter", "account"}
  /\ upgrade' = [upgrade EXCEPT ![c] = "done"]
  /\ UNCHANGED <<phase, pending, connections, wire, indexVars, handler,
                 revalidation, storeVars>>

\* The first capacity check, then the await of authenticate().
CheckCapacity(c) ==
  /\ upgrade[c] = "limiter"
  /\ upgrade' = [upgrade EXCEPT ![c] = IF HasRoom(c) THEN "authenticate"
                                       ELSE "done"]
  /\ UNCHANGED <<phase, pending, connections, wire, indexVars, handler,
                 revalidation, storeVars>>

\* authenticate() reads the session; its answer waits for the account limiter.
AuthenticateUpgrade(c) ==
  /\ upgrade[c] = "authenticate"
  /\ upgrade' = [upgrade EXCEPT ![c] = IF SessionOf[c] \in validSessions
                                       THEN "account" ELSE "done"]
  /\ UNCHANGED <<phase, pending, connections, wire, indexVars, handler,
                 revalidation, storeVars>>

\* (mutant) trusts the capacity check made before the awaits
AdmitUnchecked(c) ==
  /\ upgrade[c] = "account"
  /\ IF ~draining
     THEN /\ upgrade' = [upgrade EXCEPT ![c] = "upgraded"]
          /\ pending' = pending \union {c}
     ELSE /\ upgrade' = [upgrade EXCEPT ![c] = "done"]
          /\ UNCHANGED pending
  /\ UNCHANGED <<phase, connections, wire, indexVars, handler,
                 revalidation, storeVars>>

\* After the last await: draining and the three limits are checked again.
Admit(c) ==
  /\ upgrade[c] = "account"
  /\ IF ~draining /\ HasAccountRoom(c)
     THEN /\ upgrade' = [upgrade EXCEPT ![c] = "upgraded"]
          /\ pending' = pending \union {c}
     ELSE /\ upgrade' = [upgrade EXCEPT ![c] = "done"]
          /\ UNCHANGED pending
  /\ UNCHANGED <<phase, connections, wire, indexVars, handler,
                 revalidation, storeVars>>

\* ws completes the upgrade and emits "connection".  A request that close()
\* dropped from pending in between is told it is unauthenticated.
Connect(c) ==
  /\ upgrade[c] = "upgraded"
  /\ phase \in {"running", "draining"}
  /\ upgrade' = [upgrade EXCEPT ![c] = "done"]
  /\ IF c \in pending
     THEN /\ connections' = connections \union {c}
          /\ wire' = [wire EXCEPT ![c] = "OPEN"]
     ELSE /\ UNCHANGED connections
          /\ wire' = [wire EXCEPT ![c] = "CLOSING"]
  /\ pending' = pending \ {c}
  /\ UNCHANGED <<phase, indexVars, handler, revalidation, storeVars>>

\* The peer hung up during verify(), or the server no longer upgrades: ws
\* emits no "connection" and the pending entry stays.
AbandonUpgrade(c) ==
  /\ upgrade[c] = "upgraded"
  /\ upgrade' = [upgrade EXCEPT ![c] = "done"]
  /\ UNCHANGED <<phase, pending, connections, wire, indexVars, handler,
                 revalidation, storeVars>>

\* (mutant) only the shutdown clears abandoned entries
PendingForgotten(c) ==
  /\ c \in pending
  /\ draining
  /\ pending' = pending \ {c}
  /\ UNCHANGED <<phase, upgrade, connections, wire, indexVars, handler,
                 revalidation, storeVars>>

\* The 10 s timer of an entry whose connection never came.
PendingTimeout(c) ==
  /\ c \in pending
  /\ upgrade[c] = "done"
  /\ pending' = pending \ {c}
  /\ UNCHANGED <<phase, upgrade, connections, wire, indexVars, handler,
                 revalidation, storeVars>>

(* handleMessage() *)

\* A message arrives; the handler awaits the account limiter.  Messages still
\* arrive while the closing handshake runs.
Receive(h, c, type, s) ==
  /\ handler[h] = Idle
  /\ wire[c] \in {"OPEN", "CLOSING"}
  /\ c \in connections
  /\ handler' = [handler EXCEPT ![h] = [pc |-> "limiter", socket |-> c,
                                        type |-> type, space |-> s]]
  /\ UNCHANGED <<phase, admissionVars, connections, wire, indexVars,
                 revalidation, storeVars>>

\* Rate limited, malformed, or a presence request of a revoked session.
RejectMessage(h) ==
  /\ handler[h].pc = "limiter"
  /\ wire' = Closing({handler[h].socket})
  /\ handler' = [handler EXCEPT ![h] = Idle]
  /\ UNCHANGED <<phase, admissionVars, connections, indexVars,
                 revalidation, storeVars>>

\* A heartbeat, a presence request, or any request while draining: a reply.
AnswerMessage(h) ==
  /\ handler[h].pc = "limiter"
  /\ handler[h].type = "other" \/ draining
  /\ handler' = [handler EXCEPT ![h] = Idle]
  /\ UNCHANGED <<phase, admissionVars, connections, wire, indexVars,
                 revalidation, storeVars>>

Unsubscribe(h) ==
  /\ handler[h].pc = "limiter"
  /\ handler[h].type = "unsubscribe"
  /\ ~draining
  /\ RemoveSubscriptions(handler[h].socket, {handler[h].space})
  /\ handler' = [handler EXCEPT ![h] = Idle]
  /\ UNCHANGED <<phase, admissionVars, connections, wire,
                 revalidation, storeVars>>

\* The subscription limit is checked before the two awaits that follow.
StartSubscribe(h) ==
  LET m == handler[h] IN
  /\ m.pc = "limiter"
  /\ m.type = "subscribe"
  /\ ~draining
  /\ IF /\ m.space \notin subscriptions[m.socket]
        /\ Cardinality(subscriptions[m.socket]) >= MaxSubscriptions
     THEN handler' = [handler EXCEPT ![h] = Idle]
     ELSE handler' = [handler EXCEPT ![h].pc = "authenticate"]
  /\ UNCHANGED <<phase, admissionVars, connections, wire, indexVars,
                 revalidation, storeVars>>

AuthenticateSubscriber(h) ==
  LET c == handler[h].socket IN
  /\ handler[h].pc = "authenticate"
  /\ IF SessionOf[c] \in validSessions
     THEN /\ handler' = [handler EXCEPT ![h].pc = "authorize"]
          /\ UNCHANGED wire
     ELSE /\ handler' = [handler EXCEPT ![h] = Idle]
          /\ wire' = Closing({c})
  /\ UNCHANGED <<phase, admissionVars, connections, indexVars,
                 revalidation, storeVars>>

AuthorizeSubscriber(h) ==
  LET m == handler[h] IN
  /\ m.pc = "authorize"
  /\ IF <<ActorOf(m.socket), m.space>> \in viewers
     THEN handler' = [handler EXCEPT ![h].pc = "granted"]
     ELSE handler' = [handler EXCEPT ![h] = Idle]
  /\ UNCHANGED <<phase, admissionVars, connections, wire, indexVars,
                 revalidation, storeVars>>

\* The continuation adds the subscription without a further look at the
\* limit, at the Map of connections or at draining.
CompleteSubscribe(h) ==
  /\ handler[h].pc = "granted"
  /\ AddSubscription(handler[h].socket, handler[h].space)
  /\ handler' = [handler EXCEPT ![h] = Idle]
  /\ UNCHANGED <<phase, admissionVars, connections, wire,
                 revalidation, storeVars>>

(* revalidate() *)

RevalidateTick(r) ==
  /\ revalidation[r] = Resting
  /\ phase = "running"
  /\ revalidation' = [revalidation EXCEPT ![r] =
                        [pc |-> "scan", visited |-> {}]]
  /\ UNCHANGED <<phase, admissionVars, connections, wire, indexVars, handler,
                 storeVars>>

\* The iteration over the live Map reaches a connection that is not stale...
RevalidateVisit(r, c) ==
  /\ revalidation[r].pc = "scan"
  /\ c \in connections \ revalidation[r].visited
  /\ revalidation' = [revalidation EXCEPT ![r] =
       [pc |-> "authenticate", visited |-> @.visited \union {c},
        socket |-> c, todo |-> {}]]
  /\ UNCHANGED <<phase, admissionVars, connections, wire, indexVars, handler,
                 storeVars>>

\* ...or one nothing was heard from for staleMs: terminate().
RevalidateStale(r, c) ==
  /\ revalidation[r].pc = "scan"
  /\ c \in connections \ revalidation[r].visited
  /\ wire' = Closing({c})
  /\ revalidation' = [revalidation EXCEPT ![r].visited = @ \union {c}]
  /\ UNCHANGED <<phase, admissionVars, connections, indexVars, handler,
                 storeVars>>

RevalidateEnd(r) ==
  /\ revalidation[r].pc = "scan"
  /\ connections \subseteq revalidation[r].visited
  /\ revalidation' = [revalidation EXCEPT ![r] = Resting]
  /\ UNCHANGED <<phase, admissionVars, connections, wire, indexVars, handler,
                 storeVars>>

\* (mutant) a revoked session skips the socket instead of closing it
RevalidateSkip(r) ==
  LET v == revalidation[r] IN
  /\ v.pc = "authenticate"
  /\ revalidation' = [revalidation EXCEPT ![r] =
       IF SessionOf[v.socket] \in validSessions
       THEN [pc |-> "authorize", visited |-> v.visited, socket |-> v.socket,
             todo |-> subscriptions[v.socket]]
       ELSE [pc |-> "scan", visited |-> v.visited]]
  /\ UNCHANGED <<phase, admissionVars, connections, wire, indexVars, handler,
                 storeVars>>

\* A revoked session closes the socket; else its spaces are copied.
RevalidateSession(r) ==
  LET c == revalidation[r].socket
      v == revalidation[r].visited IN
  /\ revalidation[r].pc = "authenticate"
  /\ IF SessionOf[c] \in validSessions
     THEN /\ revalidation' = [revalidation EXCEPT ![r] =
               [pc |-> "authorize", visited |-> v, socket |-> c,
                todo |-> subscriptions[c]]]
          /\ UNCHANGED wire
     ELSE /\ revalidation' = [revalidation EXCEPT ![r] =
               [pc |-> "scan", visited |-> v]]
          /\ wire' = Closing({c})
  /\ UNCHANGED <<phase, admissionVars, connections, indexVars, handler,
                 storeVars>>

\* authorizeSpaceSubscription() of one copied space; on a denial the
\* subscription goes when the await returns.
RevalidateSpace(r, s) ==
  LET v == revalidation[r] IN
  /\ v.pc = "authorize"
  /\ s \in v.todo
  /\ revalidation' = [revalidation EXCEPT ![r] =
       IF <<ActorOf(v.socket), s>> \in viewers
       THEN [v EXCEPT !.todo = @ \ {s}]
       ELSE [pc |-> "denied", visited |-> v.visited, socket |-> v.socket,
             todo |-> v.todo \ {s}, space |-> s]]
  /\ UNCHANGED <<phase, admissionVars, connections, wire, indexVars, handler,
                 storeVars>>

RevalidateRemove(r) ==
  LET v == revalidation[r] IN
  /\ v.pc = "denied"
  /\ RemoveSubscriptions(v.socket, {v.space})
  /\ revalidation' = [revalidation EXCEPT ![r] =
       [pc |-> "authorize", visited |-> v.visited, socket |-> v.socket,
        todo |-> v.todo]]
  /\ UNCHANGED <<phase, admissionVars, connections, wire, handler, storeVars>>

\* All copied spaces are done: on with the iteration.
RevalidateNext(r) ==
  LET v == revalidation[r] IN
  /\ v.pc = "authorize"
  /\ v.todo = {}
  /\ revalidation' = [revalidation EXCEPT ![r] =
       [pc |-> "scan", visited |-> v.visited]]
  /\ UNCHANGED <<phase, admissionVars, connections, wire, indexVars, handler,
                 storeVars>>

(* Sockets *)

\* The peer starts the closing handshake, or a send finds the buffer full.
SocketClosing(c) ==
  /\ wire[c] = "OPEN"
  /\ wire' = Closing({c})
  /\ UNCHANGED <<phase, admissionVars, connections, indexVars, handler,
                 revalidation, storeVars>>

\* The "error" event: cleanup now, the close event follows.
SocketError(c) ==
  /\ wire[c] = "OPEN"
  /\ wire' = Closing({c})
  /\ Cleanup(c)
  /\ UNCHANGED <<phase, admissionVars, handler, revalidation, storeVars>>

\* (mutant) drops the subscriptions and keeps the connection
SocketClosedKept(c) ==
  /\ wire[c] = "CLOSING"
  /\ wire' = [wire EXCEPT ![c] = "CLOSED"]
  /\ RemoveSubscriptions(c, subscriptions[c])
  /\ UNCHANGED <<phase, admissionVars, connections, handler, revalidation,
                 storeVars>>

\* The "close" event.
SocketClosed(c) ==
  /\ wire[c] = "CLOSING"
  /\ wire' = [wire EXCEPT ![c] = "CLOSED"]
  /\ Cleanup(c)
  /\ UNCHANGED <<phase, admissionVars, handler, revalidation, storeVars>>

(* The stores behind the hub, and invalidateAccountSessions() *)

RevokeSession(e) ==
  /\ e \in validSessions
  /\ validSessions' = validSessions \ {e}
  /\ UNCHANGED <<phase, admissionVars, connections, wire, indexVars, handler,
                 revalidation, viewers>>

\* A recovery revoked every session of the account; the hub closes its
\* connections, not the upgrades still on their way.
InvalidateAccountSessions(a) ==
  /\ \A e \in Sessions : AccountOf[e] = a => e \notin validSessions
  /\ wire' = Closing({c \in connections : ActorOf(c) = a})
  /\ UNCHANGED <<phase, admissionVars, connections, indexVars, handler,
                 revalidation, storeVars>>

ChangeViewers(a, s) ==
  /\ viewers' = IF <<a, s>> \in viewers THEN viewers \ {<<a, s>>}
                ELSE viewers \union {<<a, s>>}
  /\ UNCHANGED <<phase, admissionVars, connections, wire, indexVars, handler,
                 revalidation, validSessions>>

(* close() *)

\* (mutant) leaves the admitted requests in pending
CloseStartKeepsPending ==
  /\ phase = "running"
  /\ phase' = "draining"
  /\ UNCHANGED <<upgrade, pending, connections, wire, indexVars, handler,
                 revalidation, storeVars>>

CloseStart ==
  /\ phase = "running"
  /\ phase' = "draining"
  /\ pending' = {}
  /\ UNCHANGED <<upgrade, connections, wire, indexVars, handler,
                 revalidation, storeVars>>

\* After the fan-out is unsubscribed: close every connection and the server.
CloseConnections ==
  /\ phase = "draining"
  /\ phase' = "closing"
  /\ wire' = Closing(connections)
  /\ UNCHANGED <<admissionVars, connections, indexVars, handler,
                 revalidation, storeVars>>

\* wss.close() calls back when no socket of the server is left.
CloseFinish ==
  /\ phase = "closing"
  /\ \A c \in Sockets : wire[c] \in {"none", "CLOSED"}
  /\ phase' = "closed"
  /\ connections' = {}
  /\ subscribersBySpace' = [s \in Spaces |-> {}]
  /\ subscriptionCount' = 0
  /\ UNCHANGED <<admissionVars, wire, subscriptions, handler,
                 revalidation, storeVars>>

--------------------------------------------------------------------------------
VerifyStep(c) ==
  \/ CheckCapacity(c) \/ AuthenticateUpgrade(c) \/ Admit(c) \/ Connect(c)

HandleMessage(h) ==
  \/ RejectMessage(h) \/ AnswerMessage(h) \/ Unsubscribe(h)
  \/ StartSubscribe(h) \/ AuthenticateSubscriber(h)
  \/ AuthorizeSubscriber(h) \/ CompleteSubscribe(h)

Revalidate(r) ==
  \/ RevalidateTick(r) \/ RevalidateEnd(r) \/ RevalidateSession(r)
  \/ RevalidateRemove(r) \/ RevalidateNext(r)
  \/ \E c \in Sockets : RevalidateVisit(r, c) \/ RevalidateStale(r, c)
  \/ \E s \in Spaces : RevalidateSpace(r, s)

Close == CloseStart \/ CloseConnections \/ CloseFinish

Next ==
  \/ \E c \in Sockets :
       \/ UpgradeRequest(c) \/ RefuseUpgrade(c) \/ VerifyStep(c)
       \/ AbandonUpgrade(c) \/ PendingTimeout(c)
       \/ SocketClosing(c) \/ SocketError(c) \/ SocketClosed(c)
  \/ \E h \in Handlers, c \in Sockets, s \in Spaces,
        type \in {"subscribe", "unsubscribe", "other"} : Receive(h, c, type, s)
  \/ \E h \in Handlers : HandleMessage(h)
  \/ \E r \in Revalidators : Revalidate(r)
  \/ \E e \in Sessions : RevokeSession(e)
  \/ \E a \in Accounts : InvalidateAccountSessions(a)
  \/ \E a \in Accounts, s \in Spaces : ChangeViewers(a, s)
  \/ Close

Spec == Init /\ [][Next]_vars

\* The event loop runs every continuation whose promise settled, the interval
\* keeps firing, ws destroys a socket whose closing handshake does not end, and
\* close() goes on once it was called.  Peers, moderators and the operator may
\* do nothing at all.
Fairness ==
  /\ \A c \in Sockets : /\ WF_vars(VerifyStep(c))
                        /\ WF_vars(PendingTimeout(c))
                        /\ WF_vars(SocketClosed(c))
  /\ \A h \in Handlers : WF_vars(HandleMessage(h))
  /\ \A r \in Revalidators : WF_vars(Revalidate(r))
  /\ WF_vars(CloseConnections) /\ WF_vars(CloseFinish)

FairSpec == Spec /\ Fairness

--------------------------------------------------------------------------------
(* Properties *)

\* Every variable holds what the code can store in it.
TypeOK ==
  /\ phase \in {"running", "draining", "closing", "closed"}
  /\ upgrade \in [Sockets -> {"idle", "limiter", "authenticate", "account",
                             "upgraded", "done"}]
  /\ pending \subseteq Sockets
  /\ connections \subseteq Sockets
  /\ wire \in [Sockets -> {"none", "OPEN", "CLOSING", "CLOSED"}]
  /\ subscriptions \in [Sockets -> SUBSET Spaces]
  /\ subscribersBySpace \in [Spaces -> SUBSET Sockets]
  /\ subscriptionCount \in Nat
  /\ handler \in [Handlers -> InFlight \union {Idle}]
  /\ revalidation \in [Revalidators ->
                       Scanning \union Visiting \union Denied \union {Resting}]
  /\ validSessions \subseteq Sessions
  /\ viewers \subseteq Accounts \X Spaces

\* However many upgrades wait for the limiter and the session store at the
\* same time, connected and admitted sockets stay within the three limits.
CapacityRespected ==
  /\ Cardinality(Held) <= MaxConnections
  /\ \A a \in Addresses :
       Cardinality(HeldByAddress(a)) <= MaxConnectionsPerAddress
  /\ \A a \in Accounts :
       Cardinality(HeldByAccount(a)) <= MaxConnectionsPerAccount

\* Until shutdown ends, the index deliver() reads and the sets the sockets
\* keep say the same, and the counter in the metrics is their size, whichever
\* of handlers, revalidation and cleanup changed them last.
Subscribed == {p \in Sockets \X Spaces : p[2] \in subscriptions[p[1]]}
IndexAgrees ==
  \A c \in Sockets, s \in Spaces :
    c \in subscribersBySpace[s] <=> s \in subscriptions[c]
IndexConsistent ==
  phase # "closed" =>
    IndexAgrees /\ subscriptionCount = Cardinality(Subscribed)

\* The connections Map never holds a socket whose close event has passed: no
\* event is sent to it and it takes no place from others.
NoDeadConnection ==
  \A c \in connections : wire[c] \in {"OPEN", "CLOSING"}

\* Once close() was called no socket joins the connections, also one whose
\* verify() passed the draining check before.
DrainingAdmitsNobody == [][draining => connections' \subseteq connections]_vars

\* A socket does not outlive its session: the revalidation interval, or the
\* shutdown, takes it out of the connections.
RevokedSessionLosesSocket ==
  \A c \in Sockets :
    (c \in connections /\ SessionOf[c] \notin validSessions)
      ~> c \notin connections

\* An account that lost a space for good stops receiving its events, also
\* when the loss raced with a subscribe that was already authorized.
LostViewEndsSubscription ==
  \A c \in Sockets, s \in Spaces :
    <>[](<<ActorOf(c), s>> \notin viewers)
      => <>[](c \notin connections \/ c \notin subscribersBySpace[s])

\* An admitted request that never becomes a connection gives its place back.
PendingIsTemporary ==
  \A c \in Sockets : c \in pending ~> c \notin pending

\* close() ends, whatever the peers, handlers and upgrades in flight do.
ShutdownCompletes == draining ~> phase = "closed"

\* With no connection left the snapshot reports no subscriptions.
NoGhostSubscriptions ==
  connections = {} => subscriptionCount = 0

\* The registry of sockets as a whole: its types, and no dead socket in it.
RegistrySound == TypeOK /\ NoDeadConnection

\* What verify() and close() begin ends: a place that was taken is given back or
\* becomes a connection, and the shutdown completes.
UpgradesEnd == PendingIsTemporary /\ ShutdownCompletes

\* Who loses its session loses its socket, who loses its view its subscription.
AccessEnds == RevokedSessionLosesSocket /\ LostViewEndsSubscription

================================================================================
