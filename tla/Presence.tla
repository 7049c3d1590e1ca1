-------------------------------- MODULE Presence --------------------------------
(***************************************************************************)
(* Presence and member status (packages/domain/src/presence.ts,            *)
(* member-status.ts) over the coordination store and PostgreSQL, and the   *)
(* pushes of one hub to the sockets that follow an account.  A heartbeat   *)
(* and a view are awaits one after the other: time passes, blocks come and *)
(* go, and the coordination store fails in between.                        *)
(***************************************************************************)
EXTENDS Naturals, FiniteSets, TLC

CONSTANTS
  Owners,      \* accounts that report presence and set a status
  Viewers,     \* sockets that follow them
  Interval,    \* PRESENCE: seconds between two updates (15)
  Ttl,         \* seconds a presence lasts (90)
  MaxTime,     \* (bound) the clock
  MaxBeats,    \* (bound) heartbeats accepted
  MaxAsks,     \* (bound) views in progress
  MaxVersion   \* (bound) versions of a status

VARIABLES
  now,       \* the clock, the same for every server
  up,        \* does the coordination store answer?
  rate,      \* presence-rate:<account>: when the key is gone
  key,       \* presence:<account>: the value and when the key is gone
  beats,     \* heartbeats that passed the rate key (all of them: a history)
  status,    \* member_statuses
  hidden,    \* <<viewer, owner>> that PresenceVisibility refuses
  follows,   \* presenceSubscriptions of each socket
  asks       \* views in progress

vars == <<now, up, rate, key, beats, status, hidden, follows, asks>>

NoKey == [state |-> "offline", expires |-> 0, until |-> 0]
NoStatus == [version |-> 0, text |-> FALSE, expires |-> 0]
Kinds == {"presence", "status"}

Init ==
  /\ now = 1 /\ up = TRUE
  /\ rate = [a \in Owners |-> 0]
  /\ key = [a \in Owners |-> NoKey]
  /\ beats = {}
  /\ status = [a \in Owners |-> NoStatus]
  /\ hidden = {}
  /\ follows = [v \in Viewers |-> {}]
  /\ asks = {}

--------------------------------------------------------------------------------
(* PresenceService.heartbeat(): rate key, value, publication *)

\* setIfAbsent() of presence-rate, one for all replicas.
AllowNearly(a) == rate[a] <= now + 1
AllowUpdate(a) == rate[a] <= now

Heartbeat(a, s) ==
  /\ up /\ AllowUpdate(a) /\ Cardinality(beats) < MaxBeats
  /\ rate' = [rate EXCEPT ![a] = now + Interval]
  /\ beats' = beats \union {[owner |-> a, state |-> s, at |-> now, step |-> "set"]}
  /\ UNCHANGED <<now, up, key, status, hidden, follows, asks>>

At(b, step) == (beats \ {b}) \union {[b EXCEPT !.step = step]}

\* A heartbeat whose set() fails has used up its interval.
SetKey(b) ==
  /\ b \in beats /\ b.step = "set"
  /\ beats' = At(b, IF up THEN "publish" ELSE "done")
  /\ key' = IF up THEN [key EXCEPT ![b.owner] = [state |-> b.state, expires |-> b.at + Ttl, until |-> now + Ttl]]
                  ELSE key
  /\ UNCHANGED <<now, up, rate, status, hidden, follows, asks>>

Ask(v, a, kind, both) ==
  [viewer |-> v, owner |-> a, kind |-> kind, at |-> now, step |-> "mayView", answer |-> "offline", both |-> both]

\* One view for every socket that follows the account, as receivePresence()
\* and receiveMemberStatus() start them.
Views(a, kind) ==
  {Ask(v, a, kind, FALSE) : v \in {w \in Viewers : a \in follows[w]}}

Room(new) == Cardinality(asks \union new) <= MaxAsks

PublishBeat(b) ==
  /\ b \in beats /\ b.step = "publish"
  /\ LET new == IF up THEN Views(b.owner, "presence") ELSE {}
     IN Room(new) /\ asks' = asks \union new
  /\ beats' = At(b, "done")
  /\ UNCHANGED <<now, up, rate, key, status, hidden, follows>>

--------------------------------------------------------------------------------
(* MemberStatusService.update(): one statement decides *)

Written(text, expected, life) ==
  [version |-> expected + 1, text |-> text, expires |-> IF life = 0 THEN 0 ELSE now + life]
UpdateStatus(a, text, expected, life) ==
  /\ expected = status[a].version /\ expected < MaxVersion
  /\ LET new == IF up THEN Views(a, "status") ELSE {}
     IN Room(new) /\ asks' = asks \union new
  /\ status' = [status EXCEPT ![a] = Written(text, expected, life)]
  /\ UNCHANGED <<now, up, rate, key, beats, hidden, follows>>

--------------------------------------------------------------------------------
(* view() of the two services: mayView, then the value, then the push *)

\* A socket's list is replaced; for every account of it the presence is told,
\* then the status.
PresenceSubscribe(v, accounts) ==
  /\ follows' = [follows EXCEPT ![v] = accounts]
  /\ LET new == {Ask(v, a, "presence", TRUE) : a \in accounts}
     IN Room(new) /\ asks' = asks \union new
  /\ UNCHANGED <<now, up, rate, key, beats, status, hidden>>

Moves(t, step, answer) ==
  asks' = (asks \ {t}) \union {[t EXCEPT !.step = step, !.answer = answer]}

MayView(t) ==
  /\ t \in asks /\ t.step = "mayView"
  /\ IF <<t.viewer, t.owner>> \in hidden THEN Moves(t, "tell", "offline") ELSE Moves(t, "read", "offline")
  /\ UNCHANGED <<now, up, rate, key, beats, status, hidden, follows>>

Counts(a, at) == up /\ key[a].until > now /\ at < key[a].expires
StatusCounts(a, at) == status[a].text /\ (status[a].expires = 0 \/ at < status[a].expires)

ReadValue(t) ==
  /\ t \in asks /\ t.step = "read"
  /\ LET answer ==
           IF t.kind = "presence" THEN IF Counts(t.owner, t.at) THEN key[t.owner].state ELSE "offline"
           ELSE IF StatusCounts(t.owner, t.at) THEN "text" ELSE "offline"
     IN Moves(t, "tell", answer)
  /\ UNCHANGED <<now, up, rate, key, beats, status, hidden, follows>>

Tell(t) ==
  /\ t \in asks /\ t.step = "tell"
  /\ asks' = (asks \ {t}) \union (IF t.both THEN {Ask(t.viewer, t.owner, "status", FALSE)} ELSE {})
  /\ UNCHANGED <<now, up, rate, key, beats, status, hidden, follows>>

--------------------------------------------------------------------------------
(* The environment *)

\* Blocks, suspensions and memberships: PostgresPresenceVisibility.mayView().
SetVisibility(v, a) ==
  /\ hidden' = IF <<v, a>> \in hidden THEN hidden \ {<<v, a>>} ELSE hidden \union {<<v, a>>}
  /\ UNCHANGED <<now, up, rate, key, beats, status, follows, asks>>

Connection ==
  /\ up' = ~up
  /\ UNCHANGED <<now, rate, key, beats, status, hidden, follows, asks>>

Tick ==
  /\ now < MaxTime /\ now' = now + 1
  /\ UNCHANGED <<up, rate, key, beats, status, hidden, follows, asks>>

Next ==
  \/ \E a \in Owners, s \in {"online", "idle"} : Heartbeat(a, s)
  \/ \E b \in beats : SetKey(b) \/ PublishBeat(b)
  \/ \E a \in Owners, text \in BOOLEAN, expected \in 0 .. MaxVersion, life \in 0 .. 1 :
       UpdateStatus(a, text, expected, life)
  \/ \E v \in Viewers, accounts \in SUBSET Owners : PresenceSubscribe(v, accounts)
  \/ \E t \in asks : MayView(t) \/ ReadValue(t) \/ Tell(t)
  \/ \E v \in Viewers, a \in Owners : SetVisibility(v, a)
  \/ Connection
  \/ Tick

Spec == Init /\ [][Next]_vars

--------------------------------------------------------------------------------
TypeOK ==
  /\ now \in 1 .. MaxTime /\ up \in BOOLEAN
  /\ rate \in [Owners -> Nat]
  /\ key \in [Owners -> [state : {"online", "idle", "offline"}, expires : Nat, until : Nat]]
  /\ beats \subseteq [owner : Owners, state : {"online", "idle"}, at : Nat, step : {"set", "publish", "done"}]
  /\ status \in [Owners -> [version : 0 .. MaxVersion, text : BOOLEAN, expires : Nat]]
  /\ hidden \subseteq Viewers \X Owners
  /\ follows \in [Viewers -> SUBSET Owners]
  /\ asks \subseteq [viewer : Viewers, owner : Owners, kind : Kinds, at : Nat,
                     step : {"mayView", "read", "tell"}, answer : {"online", "idle", "offline", "text"}, both : BOOLEAN]

(* A socket is told "online" or "idle" only on the word of a heartbeat of that
   account, with that state, that had not expired when the view was asked for:
   no race of a slow heartbeat, an outage and the two ways a presence ends
   (the key's TTL, the date in the value) fabricates availability. *)
NeverFabricated ==
  \A t \in asks : t.kind = "presence" /\ t.answer # "offline" =>
    \E b \in beats : /\ b.owner = t.owner /\ b.state = t.answer
                     /\ b.step # "set" /\ t.at < b.at + Ttl

(* Two heartbeats of an account are never accepted within an interval, whichever
   replicas take them and however far apart their writes land. *)
BeatsAreSpaced ==
  \A b, c \in beats : b # c /\ b.owner = c.owner /\ b.at <= c.at => c.at - b.at >= Interval
================================================================================
