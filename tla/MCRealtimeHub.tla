----------------------------- MODULE MCRealtimeHub -----------------------------
(* Small instances of RealtimeHub for TLC. *)
EXTENDS RealtimeHub, TLC

CONSTANTS c1, c2, c3, c4, e1, e2, a1, a2, a3, ip1, ip2, ip3

\* Admission: c1 and c2 share an account, c1 and c3 an address, and c2, c3 and
\* c4 together share nothing but the limit of the instance.
AdmissionSessionOf == (c1 :> a1) @@ (c2 :> a1) @@ (c3 :> a2) @@ (c4 :> a3)
AdmissionAddressOf == (c1 :> ip1) @@ (c2 :> ip2) @@ (c3 :> ip1) @@ (c4 :> ip3)
OneSessionEach == [a \in Sessions |-> a]

\* Subscriptions: two sockets of one session, or of two sessions.
SharedSessionOf == [c \in Sockets |-> e1]
OneAccountOf == [e \in Sessions |-> a1]
OneAddressOf == [c \in Sockets |-> ip1]

\* Sockets of one session, spaces and handlers are interchangeable.
Interchangeable ==
  Permutations(Sockets) \union Permutations(Spaces) \union Permutations(Handlers)

================================================================================
