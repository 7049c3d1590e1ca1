------------------------------ MODULE Notifications ------------------------------
(***************************************************************************)
(* Durable notifications: NotificationService                              *)
(* (packages/domain/src/notifications.ts) over its PostgreSQL store, and   *)
(* the mentions of a message that has just been stored                     *)
(* (apps/server/src/mentions.ts).  A transaction is serializable: it       *)
(* commits only when nothing it read has changed.                          *)
(***************************************************************************)
EXTENDS Naturals, FiniteSets, TLC

CONSTANTS
  Accounts,  \* recipients
  Messages,  \* messages; the id of one is the source event of its mentions
  Retries,   \* (bound) times each message is posted again with its key
  Devices,   \* clients that mark notifications
  MaxVersion \* (bound) versions of a notification

VARIABLES
  visible,   \* accounts that may see the messages
  posts,     \* how far the command of each message has come
  replays,   \* answered repetitions of each message
  inbox,     \* the notification of each account and message, or None
  claimed,   \* source events an account has been notified of
  creating,  \* calls of create(), before and within their transaction
  marks      \* what each device knows of a notification it marks

vars == <<visible, posts, replays, inbox, claimed, creating, marks>>

None == [count |-> 0, read |-> FALSE, archived |-> FALSE, version |-> 0]
Idle == [step |-> "idle"]

Init ==
  /\ visible = Accounts
  /\ posts = [m \in Messages |-> "new"]
  /\ replays = [m \in Messages |-> 0]
  /\ inbox = [a \in Accounts |-> [m \in Messages |-> None]]
  /\ claimed = {} /\ creating = {}
  /\ marks = [d \in Devices |-> Idle]

--------------------------------------------------------------------------------
(* POST of a message, and MentionRuntime.process() *)

\* The message is stored; what follows is of this request alone.
Post(m) ==
  /\ posts[m] = "new"
  /\ posts' = [posts EXCEPT ![m] = "stored"]
  /\ UNCHANGED <<visible, replays, inbox, claimed, creating, marks>>

\* The recipients are resolved in a transaction of their own, which may fail: too many
\* recipients, or a conflict.  Then the request fails, and the event is not published.
Resolve(m) ==
  /\ posts[m] = "stored"
  /\ \/ /\ posts' = [posts EXCEPT ![m] = "resolved"]
        /\ creating' = creating \union
             {[account |-> a, message |-> m, by |-> 0, step |-> "check"] : a \in visible}
     \/ posts' = [posts EXCEPT ![m] = "failed"] /\ UNCHANGED creating
  /\ UNCHANGED <<visible, replays, inbox, claimed, marks>>

Publish(m) ==
  /\ posts[m] = "resolved" /\ \A c \in creating : c.message = m => c.by # 0
  /\ posts' = [posts EXCEPT ![m] = "published"]
  /\ UNCHANGED <<visible, replays, inbox, claimed, creating, marks>>

\* A repetition finds the message: neither mentions nor an event follow.
Replay(m) ==
  /\ posts[m] # "new" /\ replays[m] < Retries
  /\ replays' = [replays EXCEPT ![m] = @ + 1]
  /\ UNCHANGED <<visible, posts, inbox, claimed, creating, marks>>

--------------------------------------------------------------------------------
(* NotificationService.create() *)

\* Any component may report an event again.
CreateAgain(a, m) ==
  /\ posts[m] \in {"resolved", "published"} /\ replays[m] < Retries
  /\ replays' = [replays EXCEPT ![m] = @ + 1]
  /\ creating' = creating \union {[account |-> a, message |-> m, by |-> replays'[m], step |-> "check"]}
  /\ UNCHANGED <<visible, posts, inbox, claimed, marks>>

\* The recipients of a message take their turn.
Turn(c) == c.by = 0 => \A x \in creating : x.by = 0 /\ x.message = c.message => x.step = "check"

\* The transaction begins: the permission again, and findDeduplicated() under the lock.
BeginCreate(c) ==
  /\ c \in creating /\ c.step = "check" /\ Turn(c)
  /\ creating' = (creating \ {c}) \union
       (IF c.account \in visible
        THEN {[c EXCEPT !.step = "found"] @@ [seen |-> inbox[c.account][c.message]]} ELSE {})
  /\ UNCHANGED <<visible, posts, replays, inbox, claimed, marks>>

\* claimSourceEvent()
Fresh(c) == <<c.account, c.message>> \notin claimed

\* The transaction fails: on a conflict, or on a notification that is archived, which
\* still holds the unique key of the table, so that the insert of a new one is refused.
Refused(c) ==
  LET current == inbox[c.account][c.message] IN
  c.seen # current \/ (Fresh(c) /\ current.archived)

\* A notification that is open is counted up; without one, it is made.
Counted(n) == [n EXCEPT !.count = @ + 1, !.version = @ + 1]
CommitCreate(c) ==
  /\ c \in creating /\ c.step = "found" /\ ~Refused(c)
  /\ creating' = creating \ {c}
  /\ IF Fresh(c)
     THEN /\ inbox' = [inbox EXCEPT ![c.account][c.message] = Counted(@)]
          /\ claimed' = claimed \union {<<c.account, c.message>>}
     ELSE UNCHANGED <<inbox, claimed>>
  /\ UNCHANGED <<visible, posts, replays, marks>>

\* The failure ends the request that stored the message, and the recipients after.
AbortCreate(c) ==
  /\ c \in creating /\ c.step = "found" /\ Refused(c)
  /\ IF c.by = 0
     THEN /\ creating' = {x \in creating : x.by # 0 \/ x.message # c.message}
          /\ posts' = [posts EXCEPT ![c.message] = "failed"]
     ELSE creating' = creating \ {c} /\ UNCHANGED posts
  /\ UNCHANGED <<visible, replays, inbox, claimed, marks>>

--------------------------------------------------------------------------------
(* NotificationService.list() and mark() *)

Look(d, a, m) ==
  /\ marks[d] = Idle /\ a \in visible /\ inbox[a][m].version \in 1 .. MaxVersion - 1
  /\ marks' = [marks EXCEPT ![d] = [step |-> "known", account |-> a, message |-> m, version |-> inbox[a][m].version]]
  /\ UNCHANGED <<visible, posts, replays, inbox, claimed, creating>>

\* The version the device knows is compared by update(); a stale one is refused.
Updated(n, known, action) ==
  IF n.version # known THEN n
  ELSE [n EXCEPT !.read = TRUE, !.archived = @ \/ action = "archive", !.version = @ + 1]
Mark(d, action) ==
  LET k == marks[d] IN
  /\ k # Idle
  /\ inbox' = IF k.account \in visible
              THEN [inbox EXCEPT ![k.account][k.message] = Updated(@, k.version, action)]
              ELSE inbox
  /\ marks' = [marks EXCEPT ![d] = Idle]
  /\ UNCHANGED <<visible, posts, replays, claimed, creating>>

--------------------------------------------------------------------------------
\* A recipient loses the membership, or is blocked.
Leave(a) ==
  /\ visible' = visible \ {a}
  /\ UNCHANGED <<posts, replays, inbox, claimed, creating, marks>>

Next ==
  \/ \E m \in Messages : Post(m) \/ Resolve(m) \/ Publish(m) \/ Replay(m)
  \/ \E a \in Accounts, m \in Messages : CreateAgain(a, m)
  \/ \E c \in creating : BeginCreate(c) \/ CommitCreate(c) \/ AbortCreate(c)
  \/ \E d \in Devices, a \in Accounts, m \in Messages : Look(d, a, m)
  \/ \E d \in Devices, action \in {"read", "archive"} : Mark(d, action)
  \/ \E a \in Accounts : Leave(a)

\* The request that stored a message goes on, and so do its transactions.
Fairness ==
  /\ \A m \in Messages : WF_vars(Resolve(m)) /\ WF_vars(Publish(m))
  /\ WF_vars(\E c \in creating : BeginCreate(c) \/ CommitCreate(c) \/ AbortCreate(c))
Spec == Init /\ [][Next]_vars /\ Fairness

--------------------------------------------------------------------------------
(* Properties *)

TypeOK ==
  /\ visible \subseteq Accounts /\ claimed \subseteq Accounts \X Messages
  /\ posts \in [Messages -> {"new", "stored", "resolved", "failed", "published"}]
  /\ \A c \in creating : c.account \in Accounts /\ c.message \in Messages

\* A notification counts each event once, and counts every event that was claimed: a
\* claim is never kept without its notification, whatever calls repeat or conflict.
CountedOnce ==
  \A a \in Accounts, m \in Messages : inbox[a][m].count = IF <<a, m>> \in claimed THEN 1 ELSE 0

\* "Message mutations emit message.created after persistence succeeds."
EmittedAfterPersistence == \A m \in Messages : posts[m] = "stored" ~> posts[m] = "published"
================================================================================
