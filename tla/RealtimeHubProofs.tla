--------------------------- MODULE RealtimeHubProofs ---------------------------
(* Theorems about RealtimeHub for every number of sockets, spaces and messages *)
(* in flight and for all limits.                                               *)
EXTENDS RealtimeHub, FiniteSetTheorems, TLAPS

--------------------------------------------------------------------------------
(* Lemmas about the helpers *)

\* Closing changes no type: only OPEN becomes CLOSING.
LEMMA ClosingType ==
  ASSUME wire \in [Sockets -> {"none", "OPEN", "CLOSING", "CLOSED"}], NEW cs
  PROVE  Closing(cs) \in [Sockets -> {"none", "OPEN", "CLOSING", "CLOSED"}]
BY DEF Closing

\* addSubscription() keeps the types of the index.
LEMMA AddType ==
  ASSUME TypeOK, NEW c \in Sockets, NEW s \in Spaces, AddSubscription(c, s)
  PROVE  /\ subscriptions' \in [Sockets -> SUBSET Spaces]
         /\ subscribersBySpace' \in [Spaces -> SUBSET Sockets]
         /\ subscriptionCount' \in Nat
BY DEF TypeOK, AddSubscription, indexVars

\* removeSubscription() does too: Math.max keeps the counter natural.
LEMMA RemoveType ==
  ASSUME TypeOK, NEW c \in Sockets, NEW ss \in SUBSET Spaces,
         RemoveSubscriptions(c, ss)
  PROVE  /\ subscriptions' \in [Sockets -> SUBSET Spaces]
         /\ subscribersBySpace' \in [Spaces -> SUBSET Sockets]
         /\ subscriptionCount' \in Nat
<1> DEFINE gone == ss \intersect subscriptions[c]
<1>1. gone \subseteq Spaces /\ IsFiniteSet(gone)
  BY HubAssumption, FS_Subset DEF TypeOK
<1>2. Cardinality(gone) \in Nat
  BY <1>1, FS_CardinalityType
<1> QED
  BY <1>1, <1>2 DEF TypeOK, RemoveSubscriptions

\* cleanup() keeps the types of the registry and of the index.
LEMMA CleanupType ==
  ASSUME TypeOK, NEW c \in Sockets, Cleanup(c)
  PROVE  /\ connections' \subseteq Sockets
         /\ subscriptions' \in [Sockets -> SUBSET Spaces]
         /\ subscribersBySpace' \in [Spaces -> SUBSET Sockets]
         /\ subscriptionCount' \in Nat
<1>1. CASE c \notin connections
  BY <1>1 DEF TypeOK, Cleanup, indexVars
<1>2. CASE c \in connections
  <2>1. subscriptions[c] \in SUBSET Spaces
    BY DEF TypeOK
  <2>2. connections' \subseteq Sockets /\ RemoveSubscriptions(c, subscriptions[c])
    BY <1>2 DEF Cleanup, TypeOK
  <2> QED
    BY <2>1, <2>2, RemoveType
<1> QED
  BY <1>1, <1>2

--------------------------------------------------------------------------------
(* Type correctness *)

LEMMA TypeInit == Init => TypeOK
BY HubAssumption DEF Init, TypeOK, Idle, Resting

LEMMA TypeStep ==
  ASSUME TypeOK, [Next]_vars
  PROVE  TypeOK'
<1> USE DEF TypeOK, admissionVars, indexVars, storeVars
<1>1. CASE UNCHANGED vars
  BY <1>1 DEF vars
<1>2. ASSUME NEW c \in Sockets, UpgradeRequest(c) \/ RefuseUpgrade(c)
             \/ CheckCapacity(c) \/ AuthenticateUpgrade(c) \/ AbandonUpgrade(c)
      PROVE  TypeOK'
  BY <1>2 DEF UpgradeRequest, RefuseUpgrade, CheckCapacity,
              AuthenticateUpgrade, AbandonUpgrade
<1>3. ASSUME NEW c \in Sockets, Admit(c) \/ Connect(c) \/ PendingTimeout(c)
      PROVE  TypeOK'
  BY <1>3 DEF Admit, Connect, PendingTimeout
<1>4. ASSUME NEW c \in Sockets, SocketClosing(c) PROVE TypeOK'
  BY <1>4, ClosingType DEF SocketClosing
<1>5. ASSUME NEW c \in Sockets, SocketError(c) PROVE TypeOK'
  BY <1>5, ClosingType, CleanupType DEF SocketError
<1>6. ASSUME NEW c \in Sockets, SocketClosed(c) PROVE TypeOK'
  BY <1>6, CleanupType DEF SocketClosed
<1>7. ASSUME NEW h \in Handlers, NEW c \in Sockets, NEW s \in Spaces,
             NEW type \in {"subscribe", "unsubscribe", "other"},
             Receive(h, c, type, s)
      PROVE  TypeOK'
  BY <1>7 DEF Receive, InFlight
<1>8. ASSUME NEW h \in Handlers, HandleMessage(h) PROVE TypeOK'
  <2>1. CASE RejectMessage(h)
    BY <2>1, ClosingType DEF RejectMessage
  <2>2. CASE AnswerMessage(h)
    BY <2>2 DEF AnswerMessage
  <2>3. CASE Unsubscribe(h)
    <3>1. handler[h] \in InFlight
      BY <2>3 DEF Unsubscribe, Idle
    <3>2. handler[h].socket \in Sockets /\ {handler[h].space} \in SUBSET Spaces
      BY <3>1 DEF InFlight
    <3> QED
      BY <2>3, <3>2, RemoveType DEF Unsubscribe
  <2>4. CASE StartSubscribe(h)
    BY <2>4 DEF StartSubscribe, InFlight, Idle
  <2>5. CASE AuthenticateSubscriber(h)
    BY <2>5, ClosingType DEF AuthenticateSubscriber, InFlight, Idle
  <2>6. CASE AuthorizeSubscriber(h)
    BY <2>6 DEF AuthorizeSubscriber, InFlight, Idle
  <2>7. CASE CompleteSubscribe(h)
    <3>1. handler[h] \in InFlight
      BY <2>7 DEF CompleteSubscribe, Idle
    <3>2. handler[h].socket \in Sockets /\ handler[h].space \in Spaces
      BY <3>1 DEF InFlight
    <3> QED
      BY <2>7, <3>2, AddType DEF CompleteSubscribe
  <2> QED
    BY <1>8, <2>1, <2>2, <2>3, <2>4, <2>5, <2>6, <2>7 DEF HandleMessage
<1>9. ASSUME NEW r \in Revalidators, Revalidate(r) PROVE TypeOK'
  <2> USE DEF Scanning, Visiting, Denied, Resting
  <2>1. CASE RevalidateTick(r)
    BY <2>1 DEF RevalidateTick
  <2>2. CASE RevalidateEnd(r)
    BY <2>2 DEF RevalidateEnd
  <2>3. CASE RevalidateSession(r)
    BY <2>3, ClosingType DEF RevalidateSession
  <2>4. CASE RevalidateRemove(r)
    <3>1. revalidation[r] \in Denied
      BY <2>4 DEF RevalidateRemove
    <3>2. RemoveSubscriptions(revalidation[r].socket, {revalidation[r].space})
      BY <2>4 DEF RevalidateRemove
    <3>3. /\ subscriptions' \in [Sockets -> SUBSET Spaces]
          /\ subscribersBySpace' \in [Spaces -> SUBSET Sockets]
          /\ subscriptionCount' \in Nat
      BY <3>1, <3>2, RemoveType
    <3> QED
      BY <2>4, <3>1, <3>3 DEF RevalidateRemove
  <2>5. CASE RevalidateNext(r)
    BY <2>5 DEF RevalidateNext
  <2>6. ASSUME NEW c \in Sockets, RevalidateVisit(r, c) PROVE TypeOK'
    BY <2>6 DEF RevalidateVisit
  <2>7. ASSUME NEW c \in Sockets, RevalidateStale(r, c) PROVE TypeOK'
    BY <2>7, ClosingType DEF RevalidateStale
  <2>8. ASSUME NEW s \in Spaces, RevalidateSpace(r, s) PROVE TypeOK'
    BY <2>8 DEF RevalidateSpace
  <2> QED
    BY <1>9, <2>1, <2>2, <2>3, <2>4, <2>5, <2>6, <2>7, <2>8 DEF Revalidate
<1>10. ASSUME NEW e \in Sessions, RevokeSession(e) PROVE TypeOK'
  BY <1>10 DEF RevokeSession
<1>11. ASSUME NEW a \in Accounts, InvalidateAccountSessions(a) PROVE TypeOK'
  BY <1>11, ClosingType DEF InvalidateAccountSessions
<1>12. ASSUME NEW a \in Accounts, NEW s \in Spaces, ChangeViewers(a, s)
       PROVE  TypeOK'
  BY <1>12 DEF ChangeViewers
<1>13. CASE Close
  BY <1>13, ClosingType DEF Close, CloseStart, CloseConnections, CloseFinish
<1> QED
  BY <1>1, <1>2, <1>3, <1>4, <1>5, <1>6, <1>7, <1>8, <1>9, <1>10, <1>11,
     <1>12, <1>13 DEF Next, VerifyStep

\* Every variable keeps its type, whatever the interleaving.
THEOREM TypeCorrect == Spec => []TypeOK
BY TypeInit, TypeStep, PTL DEF Spec

--------------------------------------------------------------------------------
(* Capacity.  Only Admit lets Held grow, and it looks at the limits in the    *)
(* same step; what the earlier check of CheckCapacity found does not matter.  *)

\* One more element adds at most one to the cardinality.
LEMMA CardinalityAdd ==
  ASSUME NEW S, NEW x, IsFiniteSet(S)
  PROVE  /\ Cardinality(S \union {x}) <= Cardinality(S) + 1
         /\ Cardinality(S \union {x}) \in Nat
<1>1. IsFiniteSet(S \union {x}) /\ Cardinality(S \union {x}) =
        IF x \in S THEN Cardinality(S) ELSE Cardinality(S) + 1
  BY FS_AddElement
<1>2. Cardinality(S) \in Nat
  BY FS_CardinalityType
<1> QED
  BY <1>1, <1>2

CapacityInv == TypeOK /\ CapacityRespected

LEMMA HeldFinite ==
  ASSUME TypeOK
  PROVE  IsFiniteSet(connections) /\ IsFiniteSet(pending) /\ IsFiniteSet(Held)
BY HubAssumption, FS_Subset DEF TypeOK, Held

\* A step after which no further socket is held keeps the limits.
LEMMA CapacityShrink ==
  ASSUME CapacityInv, Held' \subseteq Held
  PROVE  CapacityRespected'
<1>1. IsFiniteSet(Held)
  BY HeldFinite DEF CapacityInv
<1>2. \A S : S \subseteq Held => /\ IsFiniteSet(S)
                               /\ Cardinality(S) \in Nat
                               /\ \A T \in SUBSET S :
                                    Cardinality(T) <= Cardinality(S)
  BY <1>1, FS_Subset, FS_CardinalityType
<1>3. Cardinality(Held') <= Cardinality(Held) /\ Cardinality(Held') \in Nat
  BY <1>2
<1>4. ASSUME NEW a \in Addresses
      PROVE  Cardinality(HeldByAddress(a)') <= MaxConnectionsPerAddress
  <2>1. HeldByAddress(a)' \subseteq HeldByAddress(a) /\ HeldByAddress(a) \subseteq Held
    BY DEF HeldByAddress
  <2>2. /\ Cardinality(HeldByAddress(a)') <= Cardinality(HeldByAddress(a))
        /\ Cardinality(HeldByAddress(a)') \in Nat
        /\ Cardinality(HeldByAddress(a)) \in Nat
    BY <1>2, <2>1
  <2>3. Cardinality(HeldByAddress(a)) <= MaxConnectionsPerAddress
    BY DEF CapacityInv, CapacityRespected
  <2> QED
    BY <2>2, <2>3, HubAssumption
<1>5. ASSUME NEW a \in Accounts
      PROVE  Cardinality(HeldByAccount(a)') <= MaxConnectionsPerAccount
  <2>1. HeldByAccount(a)' \subseteq HeldByAccount(a) /\ HeldByAccount(a) \subseteq Held
    BY DEF HeldByAccount
  <2>2. /\ Cardinality(HeldByAccount(a)') <= Cardinality(HeldByAccount(a))
        /\ Cardinality(HeldByAccount(a)') \in Nat
        /\ Cardinality(HeldByAccount(a)) \in Nat
    BY <1>2, <2>1
  <2>3. Cardinality(HeldByAccount(a)) <= MaxConnectionsPerAccount
    BY DEF CapacityInv, CapacityRespected
  <2> QED
    BY <2>2, <2>3, HubAssumption
<1>6. Cardinality(Held') <= MaxConnections
  BY <1>1, <1>2, <1>3, HubAssumption DEF CapacityInv, CapacityRespected
<1> QED
  BY <1>4, <1>5, <1>6 DEF CapacityRespected

\* Admission adds one socket where the second check found room.
LEMMA CapacityAdmit ==
  ASSUME CapacityInv, NEW c \in Sockets, HasAccountRoom(c),
         pending' = pending \union {c}, UNCHANGED connections
  PROVE  CapacityRespected'
<1>1. /\ IsFiniteSet(connections) /\ IsFiniteSet(pending) /\ IsFiniteSet(Held)
  BY HeldFinite DEF CapacityInv
<1>2. Held' = Held \union {c}
  BY DEF Held
<1>3. Cardinality(Held') <= MaxConnections
  <2>1. Cardinality(Held) <= Cardinality(connections) + Cardinality(pending)
    <3>1. /\ Cardinality(connections) \in Nat /\ Cardinality(pending) \in Nat
          /\ Cardinality(connections \cap pending) \in Nat
      BY <1>1, FS_CardinalityType, FS_Intersection
    <3>2. Cardinality(Held) = Cardinality(connections) + Cardinality(pending)
                                - Cardinality(connections \cap pending)
      BY <1>1, FS_Union DEF Held
    <3> QED
      BY <3>1, <3>2
  <2>2. Cardinality(Held) \in Nat /\ Cardinality(connections) \in Nat
          /\ Cardinality(pending) \in Nat
    BY <1>1, FS_CardinalityType
  <2>3. /\ Cardinality(Held \union {c}) <= Cardinality(Held) + 1
        /\ Cardinality(Held \union {c}) \in Nat
    BY <1>1, CardinalityAdd
  <2>5. Cardinality(connections) + Cardinality(pending) < MaxConnections
    BY DEF HasAccountRoom, HasRoom
  <2> QED
    BY <1>2, <2>1, <2>2, <2>3, <2>5, HubAssumption
<1>4. \A S : S \subseteq Held => IsFiniteSet(S) /\ Cardinality(S) \in Nat
  BY <1>1, FS_Subset, FS_CardinalityType
<1>5. ASSUME NEW a \in Addresses
      PROVE  Cardinality(HeldByAddress(a)') <= MaxConnectionsPerAddress
  <2>1. IsFiniteSet(HeldByAddress(a)) /\ Cardinality(HeldByAddress(a)) \in Nat
    BY <1>4 DEF HeldByAddress
  <2>2. CASE AddressOf[c] = a
    <3>1. HeldByAddress(a)' = HeldByAddress(a) \union {c}
      BY <1>2, <2>2 DEF HeldByAddress
    <3>2. /\ Cardinality(HeldByAddress(a) \union {c}) <= Cardinality(HeldByAddress(a)) + 1
          /\ Cardinality(HeldByAddress(a) \union {c}) \in Nat
      BY <2>1, CardinalityAdd
    <3>3. Cardinality(HeldByAddress(a)) < MaxConnectionsPerAddress
      BY <2>2 DEF HasAccountRoom, HasRoom
    <3> QED
      BY <2>1, <3>1, <3>2, <3>3, HubAssumption
  <2>3. CASE AddressOf[c] # a
    <3>1. HeldByAddress(a)' = HeldByAddress(a)
      BY <1>2, <2>3 DEF HeldByAddress
    <3> QED
      BY <3>1 DEF CapacityInv, CapacityRespected
  <2> QED
    BY <2>2, <2>3
<1>6. ASSUME NEW a \in Accounts
      PROVE  Cardinality(HeldByAccount(a)') <= MaxConnectionsPerAccount
  <2>1. IsFiniteSet(HeldByAccount(a)) /\ Cardinality(HeldByAccount(a)) \in Nat
    BY <1>4 DEF HeldByAccount
  <2>2. CASE ActorOf(c) = a
    <3>1. HeldByAccount(a)' = HeldByAccount(a) \union {c}
      BY <1>2, <2>2 DEF HeldByAccount, ActorOf
    <3>2. /\ Cardinality(HeldByAccount(a) \union {c}) <= Cardinality(HeldByAccount(a)) + 1
          /\ Cardinality(HeldByAccount(a) \union {c}) \in Nat
      BY <2>1, CardinalityAdd
    <3>3. Cardinality(HeldByAccount(a)) < MaxConnectionsPerAccount
      BY <2>2 DEF HasAccountRoom
    <3> QED
      BY <2>1, <3>1, <3>2, <3>3, HubAssumption
  <2>3. CASE ActorOf(c) # a
    <3>1. HeldByAccount(a)' = HeldByAccount(a)
      BY <1>2, <2>3 DEF HeldByAccount, ActorOf
    <3> QED
      BY <3>1 DEF CapacityInv, CapacityRespected
  <2> QED
    BY <2>2, <2>3
<1> QED
  BY <1>3, <1>5, <1>6 DEF CapacityRespected

LEMMA CapacityInit == Init => CapacityInv
<1> SUFFICES ASSUME Init PROVE CapacityRespected
  BY TypeInit DEF CapacityInv
<1>1. \A S : S \subseteq Held => Cardinality(S) = 0
  BY FS_EmptySet DEF Init, Held
<1> QED
  BY <1>1, HubAssumption DEF CapacityRespected, HeldByAddress, HeldByAccount

\* Which steps let connections and pending change, and how.
LEMMA HeldStep ==
  ASSUME [Next]_vars
  PROVE  \/ Held' \subseteq Held
         \/ \E c \in Sockets : /\ HasAccountRoom(c)
                              /\ pending' = pending \union {c}
                              /\ UNCHANGED connections
<1> USE DEF Held, admissionVars
<1>1. CASE UNCHANGED vars
  BY <1>1 DEF vars
<1>2. ASSUME NEW c \in Sockets, UpgradeRequest(c) \/ RefuseUpgrade(c)
             \/ CheckCapacity(c) \/ AuthenticateUpgrade(c) \/ AbandonUpgrade(c)
      PROVE  Held' \subseteq Held
  BY <1>2 DEF UpgradeRequest, RefuseUpgrade, CheckCapacity,
              AuthenticateUpgrade, AbandonUpgrade
<1>3. ASSUME NEW c \in Sockets, Admit(c)
      PROVE  \/ Held' \subseteq Held
             \/ /\ HasAccountRoom(c)
                /\ pending' = pending \union {c}
                /\ UNCHANGED connections
  BY <1>3 DEF Admit
<1>4. ASSUME NEW c \in Sockets,
             Connect(c) \/ PendingTimeout(c) \/ SocketClosing(c)
             \/ SocketError(c) \/ SocketClosed(c)
      PROVE  Held' \subseteq Held
  BY <1>4 DEF Connect, PendingTimeout, SocketClosing, SocketError,
              SocketClosed, Cleanup
<1>5. ASSUME NEW h \in Handlers, HandleMessage(h) PROVE Held' \subseteq Held
  BY <1>5 DEF HandleMessage, RejectMessage, AnswerMessage, Unsubscribe,
              StartSubscribe, AuthenticateSubscriber, AuthorizeSubscriber,
              CompleteSubscribe
<1>6. ASSUME NEW r \in Revalidators, Revalidate(r) PROVE Held' \subseteq Held
  BY <1>6 DEF Revalidate, RevalidateTick, RevalidateEnd, RevalidateSession,
              RevalidateRemove, RevalidateNext, RevalidateVisit,
              RevalidateStale, RevalidateSpace
<1>7. ASSUME NEW h \in Handlers, NEW c \in Sockets, NEW s \in Spaces,
             NEW type \in {"subscribe", "unsubscribe", "other"},
             Receive(h, c, type, s)
      PROVE  Held' \subseteq Held
  BY <1>7 DEF Receive
<1>8. ASSUME NEW e \in Sessions, RevokeSession(e) PROVE Held' \subseteq Held
  BY <1>8 DEF RevokeSession
<1>9. ASSUME NEW a \in Accounts, InvalidateAccountSessions(a)
      PROVE  Held' \subseteq Held
  BY <1>9 DEF InvalidateAccountSessions
<1>10. ASSUME NEW a \in Accounts, NEW s \in Spaces, ChangeViewers(a, s)
       PROVE  Held' \subseteq Held
  BY <1>10 DEF ChangeViewers
<1>11. CASE Close
  BY <1>11 DEF Close, CloseStart, CloseConnections, CloseFinish
<1> QED
  BY <1>1, <1>2, <1>3, <1>4, <1>5, <1>6, <1>7, <1>8, <1>9, <1>10, <1>11
     DEF Next, VerifyStep

\* The instance, address and account limits hold for connected and admitted
\* sockets together, however many verify() calls overlap.
THEOREM Capacity == Spec => []CapacityRespected
<1>1. CapacityInv /\ [Next]_vars => CapacityInv'
  BY TypeStep, HeldStep, CapacityShrink, CapacityAdmit DEF CapacityInv
<1>2. CapacityInv => CapacityRespected
  BY DEF CapacityInv
<1> QED
  BY CapacityInit, <1>1, <1>2, PTL DEF Spec

--------------------------------------------------------------------------------
(* The registry: shutdown empties pending for good, and a registered socket   *)
(* is never a closed one.                                                     *)

RegistryInv ==
  /\ TypeOK
  /\ draining => pending = {}
  /\ NoDeadConnection

LEMMA RegistryStep ==
  ASSUME RegistryInv, [Next]_vars
  PROVE  RegistryInv'
<1>1. TypeOK'
  BY TypeStep DEF RegistryInv
<1>2. (draining => pending = {})' /\ NoDeadConnection'
  <2> USE DEF RegistryInv, NoDeadConnection, draining, admissionVars, TypeOK
  <2>1. CASE UNCHANGED vars
    BY <2>1 DEF vars
  <2>2. ASSUME NEW c \in Sockets,
               UpgradeRequest(c) \/ RefuseUpgrade(c) \/ CheckCapacity(c)
               \/ AuthenticateUpgrade(c) \/ AbandonUpgrade(c) \/ Admit(c)
               \/ PendingTimeout(c)
        PROVE  (draining => pending = {})' /\ NoDeadConnection'
    BY <2>2 DEF UpgradeRequest, RefuseUpgrade, CheckCapacity,
                AuthenticateUpgrade, AbandonUpgrade, Admit, PendingTimeout
  <2>3. ASSUME NEW c \in Sockets, Connect(c)
        PROVE  (draining => pending = {})' /\ NoDeadConnection'
    BY <2>3 DEF Connect
  <2>4. ASSUME NEW c \in Sockets,
               SocketClosing(c) \/ SocketError(c) \/ SocketClosed(c)
        PROVE  (draining => pending = {})' /\ NoDeadConnection'
    BY <2>4 DEF SocketClosing, SocketError, SocketClosed, Cleanup, Closing
  <2>5. ASSUME NEW h \in Handlers, HandleMessage(h)
        PROVE  (draining => pending = {})' /\ NoDeadConnection'
    BY <2>5 DEF HandleMessage, RejectMessage, AnswerMessage, Unsubscribe,
                StartSubscribe, AuthenticateSubscriber, AuthorizeSubscriber,
                CompleteSubscribe, Closing
  <2>6. ASSUME NEW r \in Revalidators, Revalidate(r)
        PROVE  (draining => pending = {})' /\ NoDeadConnection'
    BY <2>6 DEF Revalidate, RevalidateTick, RevalidateEnd, RevalidateSession,
                RevalidateRemove, RevalidateNext, RevalidateVisit,
                RevalidateStale, RevalidateSpace, Closing
  <2>7. ASSUME NEW h \in Handlers, NEW c \in Sockets, NEW s \in Spaces,
               NEW type \in {"subscribe", "unsubscribe", "other"},
               Receive(h, c, type, s)
        PROVE  (draining => pending = {})' /\ NoDeadConnection'
    BY <2>7 DEF Receive
  <2>8. ASSUME NEW e \in Sessions, RevokeSession(e)
        PROVE  (draining => pending = {})' /\ NoDeadConnection'
    BY <2>8 DEF RevokeSession
  <2>9. ASSUME NEW a \in Accounts, InvalidateAccountSessions(a)
        PROVE  (draining => pending = {})' /\ NoDeadConnection'
    BY <2>9 DEF InvalidateAccountSessions, Closing
  <2>10. ASSUME NEW a \in Accounts, NEW s \in Spaces, ChangeViewers(a, s)
         PROVE  (draining => pending = {})' /\ NoDeadConnection'
    BY <2>10 DEF ChangeViewers
  <2>11. ASSUME Close
         PROVE  (draining => pending = {})' /\ NoDeadConnection'
    BY <2>11 DEF Close, CloseStart, CloseConnections, CloseFinish, Closing
  <2> QED
    BY <2>1, <2>2, <2>3, <2>4, <2>5, <2>6, <2>7, <2>8, <2>9, <2>10, <2>11
       DEF Next, VerifyStep
<1> QED
  BY <1>1, <1>2 DEF RegistryInv

LEMMA RegistryInit == Init => RegistryInv
BY TypeInit DEF Init, RegistryInv, NoDeadConnection, draining

\* No event is delivered to, and no place is held by, a closed socket.
THEOREM LiveRegistry == Spec => []NoDeadConnection
<1>1. RegistryInv /\ [Next]_vars => RegistryInv'
  BY RegistryStep
<1>2. RegistryInv => NoDeadConnection
  BY DEF RegistryInv
<1> QED
  BY RegistryInit, <1>1, <1>2, PTL DEF Spec

\* Steps of a draining hub add no connection.
LEMMA DrainStep ==
  ASSUME RegistryInv, [Next]_vars, draining
  PROVE  connections' \subseteq connections
<1>1. pending = {}
  BY DEF RegistryInv
<1>2. CASE Held' \subseteq Held
  BY <1>1, <1>2 DEF Held
<1>3. CASE \E c \in Sockets : /\ HasAccountRoom(c)
                            /\ pending' = pending \union {c}
                            /\ UNCHANGED connections
  BY <1>3
<1> QED
  BY <1>2, <1>3, HeldStep

\* Shutdown admits nobody, also no upgrade that passed the first draining check.
THEOREM ShutdownAdmitsNobody == Spec => DrainingAdmitsNobody
<1>1. RegistryInv /\ [Next]_vars => RegistryInv'
  BY RegistryStep
<1>2. RegistryInv /\ [Next]_vars => [draining => connections' \subseteq connections]_vars
  BY DrainStep
<1> QED
  BY RegistryInit, <1>1, <1>2, PTL DEF Spec, DrainingAdmitsNobody

--------------------------------------------------------------------------------
(* The subscription index *)

IndexInv == TypeOK /\ IndexConsistent

LEMMA SubscribedFinite ==
  ASSUME TypeOK
  PROVE  IsFiniteSet(Subscribed) /\ Cardinality(Subscribed) \in Nat
<1>1. IsFiniteSet(Sockets \X Spaces)
  BY HubAssumption, FS_Product
<1>2. Subscribed \in SUBSET (Sockets \X Spaces)
  BY DEF Subscribed
<1> QED
  BY <1>1, <1>2, FS_Subset, FS_CardinalityType

\* addSubscription() keeps index, sets and counter together.
LEMMA AddConsistent ==
  ASSUME TypeOK, IndexAgrees, subscriptionCount = Cardinality(Subscribed),
         NEW c \in Sockets, NEW s \in Spaces, AddSubscription(c, s)
  PROVE  IndexAgrees' /\ subscriptionCount' = Cardinality(Subscribed')
<1>1. CASE s \in subscriptions[c]
  BY <1>1 DEF AddSubscription, indexVars, IndexAgrees, Subscribed
<1>2. CASE s \notin subscriptions[c]
  <2>1. /\ subscriptions' = [subscriptions EXCEPT ![c] = @ \union {s}]
        /\ subscribersBySpace' = [subscribersBySpace EXCEPT ![s] = @ \union {c}]
        /\ subscriptionCount' = subscriptionCount + 1
    BY <1>2 DEF AddSubscription
  <2>2. IndexAgrees'
    BY <2>1 DEF IndexAgrees, TypeOK
  <2>3. Subscribed' = Subscribed \union {<<c, s>>}
    BY <2>1 DEF Subscribed, TypeOK
  <2>4. <<c, s>> \notin Subscribed
    BY <1>2 DEF Subscribed
  <2>5. Cardinality(Subscribed') = Cardinality(Subscribed) + 1
    BY <2>3, <2>4, SubscribedFinite, FS_AddElement
  <2> QED
    BY <2>1, <2>2, <2>5
<1> QED
  BY <1>1, <1>2

\* removeSubscription() too; Math.max(0, ...) never has to correct anything.
LEMMA RemoveConsistent ==
  ASSUME TypeOK, IndexAgrees, subscriptionCount = Cardinality(Subscribed),
         NEW c \in Sockets, NEW ss \in SUBSET Spaces,
         RemoveSubscriptions(c, ss)
  PROVE  IndexAgrees' /\ subscriptionCount' = Cardinality(Subscribed')
<1> DEFINE gone == ss \intersect subscriptions[c]
           pairs == {c} \X gone
<1>1. /\ subscriptions' = [subscriptions EXCEPT ![c] = @ \ gone]
      /\ subscribersBySpace' = [s \in Spaces |-> IF s \in gone
                                   THEN subscribersBySpace[s] \ {c}
                                   ELSE subscribersBySpace[s]]
      /\ subscriptionCount' = IF Cardinality(gone) <= subscriptionCount
                               THEN subscriptionCount - Cardinality(gone) ELSE 0
  BY DEF RemoveSubscriptions
<1>2. gone \subseteq Spaces /\ gone \subseteq subscriptions[c]
  BY DEF TypeOK
<1>3. IsFiniteSet(gone) /\ Cardinality(gone) \in Nat
  BY <1>2, HubAssumption, FS_Subset, FS_CardinalityType
<1>4. IndexAgrees'
  BY <1>1, <1>2 DEF IndexAgrees, TypeOK
<1>5. IsFiniteSet(pairs) /\ Cardinality(pairs) = Cardinality(gone)
  <2>1. IsFiniteSet({c}) /\ Cardinality({c}) = 1
    BY FS_Singleton
  <2>2. IsFiniteSet(pairs) /\ Cardinality(pairs) = 1 * Cardinality(gone)
    BY <2>1, <1>3, FS_Product
  <2> QED
    BY <2>2, <1>3
<1>6. pairs \subseteq Subscribed /\ Subscribed' = Subscribed \ pairs
  BY <1>1, <1>2 DEF Subscribed, TypeOK
<1>7. Subscribed \cap pairs = pairs
  BY <1>6
<1>8. Cardinality(Subscribed') = Cardinality(Subscribed) - Cardinality(gone)
  <2>1. Cardinality(Subscribed \ pairs)
          = Cardinality(Subscribed) - Cardinality(Subscribed \cap pairs)
    BY SubscribedFinite, FS_Difference
  <2> HIDE DEF pairs
  <2> QED
    BY <2>1, <1>5, <1>6, <1>7
<1>9. Cardinality(gone) <= Cardinality(Subscribed)
  BY <1>5, <1>6, SubscribedFinite, FS_Subset
<1> QED
  BY <1>1, <1>3, <1>4, <1>8, <1>9, SubscribedFinite

\* What a step does to the index: nothing, one addition or one removal, until
\* the hub is closed; a closed hub stays closed.
LEMMA IndexStep ==
  ASSUME TypeOK, [Next]_vars
  PROVE  /\ phase = "closed" => phase' = "closed"
         /\ \/ UNCHANGED indexVars
            \/ \E c \in Sockets, s \in Spaces : AddSubscription(c, s)
            \/ \E c \in Sockets, ss \in SUBSET Spaces : RemoveSubscriptions(c, ss)
            \/ phase' = "closed"
<1> DEFINE Effect ==
             /\ phase = "closed" => phase' = "closed"
             /\ \/ UNCHANGED indexVars
                \/ \E c \in Sockets, s \in Spaces : AddSubscription(c, s)
                \/ \E c \in Sockets, ss \in SUBSET Spaces :
                     RemoveSubscriptions(c, ss)
                \/ phase' = "closed"
<1> SUFFICES Effect
  OBVIOUS
<1>1. CASE UNCHANGED vars
  BY <1>1 DEF vars, indexVars
<1>2. ASSUME NEW c \in Sockets,
             UpgradeRequest(c) \/ RefuseUpgrade(c) \/ CheckCapacity(c)
             \/ AuthenticateUpgrade(c) \/ AbandonUpgrade(c) \/ Admit(c)
             \/ Connect(c) \/ PendingTimeout(c) \/ SocketClosing(c)
      PROVE  Effect
  BY <1>2 DEF UpgradeRequest, RefuseUpgrade, CheckCapacity, Connect,
              AuthenticateUpgrade, AbandonUpgrade, Admit, PendingTimeout,
              SocketClosing, indexVars
<1>3. ASSUME NEW c \in Sockets, SocketError(c) \/ SocketClosed(c)
      PROVE  Effect
  <2>1. UNCHANGED indexVars \/ RemoveSubscriptions(c, subscriptions[c])
    BY <1>3 DEF SocketError, SocketClosed, Cleanup
  <2>2. subscriptions[c] \in SUBSET Spaces
    BY DEF TypeOK
  <2>3. phase' = phase
    BY <1>3 DEF SocketError, SocketClosed
  <2> QED
    BY <2>1, <2>2, <2>3
<1>4. ASSUME NEW h \in Handlers, HandleMessage(h) PROVE Effect
  <2>1. CASE Unsubscribe(h) \/ CompleteSubscribe(h)
    <3>1. handler[h] \in InFlight
      BY <2>1 DEF Unsubscribe, CompleteSubscribe, Idle, TypeOK
    <3>2. /\ handler[h].socket \in Sockets /\ handler[h].space \in Spaces
          /\ {handler[h].space} \in SUBSET Spaces
      BY <3>1 DEF InFlight
    <3>3. /\ phase' = phase
          /\ \/ AddSubscription(handler[h].socket, handler[h].space)
             \/ RemoveSubscriptions(handler[h].socket, {handler[h].space})
      BY <2>1 DEF Unsubscribe, CompleteSubscribe
    <3> QED
      BY <3>2, <3>3
  <2>2. CASE ~(Unsubscribe(h) \/ CompleteSubscribe(h))
    BY <1>4, <2>2 DEF HandleMessage, RejectMessage, AnswerMessage,
       StartSubscribe, AuthenticateSubscriber, AuthorizeSubscriber, indexVars
  <2> QED
    BY <2>1, <2>2
<1>5. ASSUME NEW r \in Revalidators, Revalidate(r) PROVE Effect
  <2>1. CASE RevalidateRemove(r)
    <3>1. revalidation[r] \in Denied
      BY <2>1 DEF RevalidateRemove, TypeOK, Scanning, Visiting, Resting
    <3>2. /\ revalidation[r].socket \in Sockets
          /\ {revalidation[r].space} \in SUBSET Spaces
      BY <3>1 DEF Denied
    <3>3. /\ phase' = phase
          /\ RemoveSubscriptions(revalidation[r].socket, {revalidation[r].space})
      BY <2>1 DEF RevalidateRemove
    <3> QED
      BY <3>2, <3>3
  <2>2. CASE ~RevalidateRemove(r)
    BY <1>5, <2>2 DEF Revalidate, RevalidateTick, RevalidateEnd,
       RevalidateSession, RevalidateNext, RevalidateVisit, RevalidateStale,
       RevalidateSpace, indexVars
  <2> QED
    BY <2>1, <2>2
<1>6. ASSUME NEW h \in Handlers, NEW c \in Sockets, NEW s \in Spaces,
             NEW type \in {"subscribe", "unsubscribe", "other"},
             Receive(h, c, type, s)
      PROVE  Effect
  BY <1>6 DEF Receive, indexVars
<1>7. ASSUME NEW e \in Sessions, RevokeSession(e) PROVE Effect
  BY <1>7 DEF RevokeSession, indexVars
<1>8. ASSUME NEW a \in Accounts, InvalidateAccountSessions(a) PROVE Effect
  BY <1>8 DEF InvalidateAccountSessions, indexVars
<1>9. ASSUME NEW a \in Accounts, NEW s \in Spaces, ChangeViewers(a, s)
      PROVE  Effect
  BY <1>9 DEF ChangeViewers, indexVars
<1>10. CASE Close
  BY <1>10 DEF Close, CloseStart, CloseConnections, CloseFinish, indexVars
<1> QED
  BY <1>1, <1>2, <1>3, <1>4, <1>5, <1>6, <1>7, <1>8, <1>9, <1>10
     DEF Next, VerifyStep

LEMMA IndexInit == Init => IndexInv
<1> SUFFICES ASSUME Init PROVE IndexConsistent
  BY TypeInit DEF IndexInv
<1>1. Subscribed = {}
  BY DEF Init, Subscribed
<1> QED
  BY <1>1, FS_EmptySet DEF Init, IndexConsistent, IndexAgrees

\* The index, the sets of the sockets and the counter agree until the hub is
\* closed, whichever handlers, revalidations and close events interleave.
THEOREM IndexCorrect == Spec => []IndexConsistent
<1>1. ASSUME IndexInv, [Next]_vars PROVE IndexInv'
  <2> SUFFICES ASSUME phase' # "closed"
               PROVE  IndexAgrees' /\ subscriptionCount' = Cardinality(Subscribed')
    BY <1>1, TypeStep DEF IndexInv, IndexConsistent
  <2>1. TypeOK /\ IndexAgrees /\ subscriptionCount = Cardinality(Subscribed)
    BY <1>1, IndexStep DEF IndexInv, IndexConsistent
  <2>2. CASE UNCHANGED indexVars
    BY <2>1, <2>2 DEF indexVars, IndexAgrees, Subscribed
  <2>3. CASE \E c \in Sockets, s \in Spaces : AddSubscription(c, s)
    BY <2>1, <2>3, AddConsistent
  <2>4. CASE \E c \in Sockets, ss \in SUBSET Spaces : RemoveSubscriptions(c, ss)
    BY <2>1, <2>4, RemoveConsistent
  <2> QED
    BY <1>1, <2>1, <2>2, <2>3, <2>4, IndexStep
<1>2. IndexInv => IndexConsistent
  BY DEF IndexInv
<1> QED
  BY IndexInit, <1>1, <1>2, PTL DEF Spec

\* The registry keeps its types and never holds a closed socket.
THEOREM RegistryCorrect == Spec => []RegistrySound
BY TypeCorrect, LiveRegistry, PTL DEF RegistrySound

================================================================================
