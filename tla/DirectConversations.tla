-------------------------- MODULE DirectConversations --------------------------
(***************************************************************************)
(* Direct conversations (packages/domain/src/direct.ts):                   *)
(* DirectConversationService over InMemoryDirectStore, whose transactions  *)
(* queue up one behind the other and keep what they wrote when they fail.  *)
(* Within a transaction every access is awaited: accounts and blocks, which*)
(* are not of this store, may change in between.                           *)
(***************************************************************************)
EXTENDS Naturals, FiniteSetsExt, TLC

CONSTANTS
  Accounts,     \* accounts
  Clients,      \* calls in progress
  Keys,         \* idempotency keys
  Bodies,       \* fingerprints of body, attachments and reply
  MaxMessages   \* (bound) messages of a conversation

VARIABLES
  refused,   \* pairs of accounts that may not talk: inactive, or blocked
  started,   \* pairs that have a conversation
  member,    \* the state of each participant of it
  messages,  \* the messages of each pair
  tx,        \* the transactions asked for, and how far each has come
  holder     \* the client whose transaction is at work, or "none"

vars == <<refused, started, member, messages, tx, holder>>

Pairs == {p \in SUBSET Accounts : Cardinality(p) = 2}
Idle == [op |-> "idle"]
Joined == [last |-> 0, removed |-> FALSE, version |-> 1]

Init ==
  /\ refused = {} /\ started = {}
  /\ member = [p \in Pairs |-> [a \in Accounts |-> Joined]]
  /\ messages = [p \in Pairs |-> {}]
  /\ tx = [c \in Clients |-> Idle]
  /\ holder = "none"

\* findMessageByIdempotencyKey(), nextSequence(), countUnread() of the store.
WithKey(p, a, k) == {m \in messages[p] : m.author = a /\ m.key = k}
NextSequence(p) == 1 + Max({0} \union {m.sequence : m \in messages[p]})
Unread(p, a) == Cardinality({m \in messages[p] : m.author # a /\ m.sequence > member[p][a].last})

\* The refusal of a pair is decided by assertAccountActive() and assertDirectAllowed().
MayEnter(p, a) == p \in started /\ a \in p /\ ~member[p][a].removed /\ p \notin refused

--------------------------------------------------------------------------------
(* transaction(): the queue of promises *)

Calls ==
  [op : {"start", "remove"}, pair : Pairs, actor : Accounts]
  \union [op : {"send"}, pair : Pairs, actor : Accounts, key : Keys, body : Bodies]
  \union [op : {"read", "delete"}, pair : Pairs, actor : Accounts, sequence : 1 .. MaxMessages]

\* start() asks for the permission of the pair once before its transaction.
Call(c, call) ==
  /\ tx[c] = Idle /\ call.actor \in call.pair
  /\ call.op = "start" => call.pair \notin refused
  /\ tx' = [tx EXCEPT ![c] = call @@ [step |-> "queued"]]
  /\ UNCHANGED <<refused, started, member, messages, holder>>

Turn(c) == holder = "none"

\* The authorization, and what the operation reads: delete finds the message of its
\* author, send a message of its key.
Permitted(t) ==
  CASE t.op = "start" -> t.pair \notin refused
    [] t.op = "delete" -> /\ MayEnter(t.pair, t.actor)
                          /\ \E m \in messages[t.pair] : m.sequence = t.sequence /\ m.author = t.actor
    [] t.op = "read" -> /\ MayEnter(t.pair, t.actor)
                        /\ \E m \in messages[t.pair] : m.sequence = t.sequence
    [] OTHER -> MayEnter(t.pair, t.actor)
Done(c) == tx' = [tx EXCEPT ![c] = Idle] /\ holder' = "none"

Enter(c) ==
  /\ tx[c] # Idle /\ tx[c].step = "queued" /\ Turn(c)
  /\ IF Permitted(tx[c])
     THEN /\ holder' = c
          /\ tx' = [tx EXCEPT ![c] = [@ EXCEPT !.step = "permitted"] @@
               [next |-> NextSequence(tx[c].pair), state |-> member[tx[c].pair][tx[c].actor]]]
     ELSE Done(c)
  /\ UNCHANGED <<refused, started, member, messages>>

\* What follows uses what was read on entering: the sequence and the version.
Working(c, op) == tx[c] # Idle /\ tx[c].step = "permitted" /\ tx[c].op = op

\* createConversation() answers with the conversation the pair already has, and leaves
\* its participants as they are.
Start(c) ==
  /\ Working(c, "start")
  /\ started' = started \union {tx[c].pair}
  /\ Done(c)
  /\ UNCHANGED <<refused, member, messages>>

Message(t) ==
  [author |-> t.actor, key |-> t.key, body |-> t.body, sequence |-> t.next, deleted |-> FALSE]

\* A known key with another fingerprint is a conflict; the same request is answered with
\* the message it made.
Send(c) ==
  LET t == tx[c] IN
  /\ Working(c, "send")
  /\ WithKey(t.pair, t.actor, t.key) = {} => t.next <= MaxMessages
  /\ messages' = IF WithKey(t.pair, t.actor, t.key) # {} THEN messages
       ELSE [messages EXCEPT ![t.pair] = @ \union {Message(t)}]
  /\ Done(c)
  /\ UNCHANGED <<refused, started, member>>

\* markRead(): an older message changes nothing.
Advances(t) == t.sequence > t.state.last

\* updateParticipant() compares the version it was given.
Patch(c, to) ==
  LET t == tx[c]  current == member[t.pair][t.actor] IN
  member' = IF current.version = t.state.version
            THEN [member EXCEPT ![t.pair][t.actor] = [to EXCEPT !.version = current.version + 1]]
            ELSE member

MarkRead(c) ==
  /\ Working(c, "read")
  /\ IF Advances(tx[c]) THEN Patch(c, [tx[c].state EXCEPT !.last = tx[c].sequence]) ELSE UNCHANGED member
  /\ Done(c)
  /\ UNCHANGED <<refused, started, messages>>

Remove(c) ==
  /\ Working(c, "remove")
  /\ Patch(c, [tx[c].state EXCEPT !.removed = TRUE])
  /\ Done(c)
  /\ UNCHANGED <<refused, started, messages>>

\* tombstoneMessage(): the body goes, the sequence stays.
DeleteMessage(c) ==
  /\ Working(c, "delete")
  /\ messages' = [messages EXCEPT ![tx[c].pair] =
       {IF m.sequence = tx[c].sequence THEN [m EXCEPT !.deleted = TRUE] ELSE m : m \in @}]
  /\ Done(c)
  /\ UNCHANGED <<refused, started, member>>

\* Accounts and blocks are kept elsewhere.
Refuse(p) ==
  /\ refused' \in {refused \union {p}, refused \ {p}}
  /\ UNCHANGED <<started, member, messages, tx, holder>>

Next ==
  \/ \E c \in Clients :
       \/ \E call \in Calls : Call(c, call)
       \/ Enter(c) \/ Start(c) \/ Send(c) \/ MarkRead(c) \/ Remove(c) \/ DeleteMessage(c)
  \/ \E p \in Pairs : Refuse(p)

Spec == Init /\ [][Next]_vars

--------------------------------------------------------------------------------
(* Properties *)

TypeOK ==
  /\ refused \subseteq Pairs /\ started \subseteq Pairs /\ holder \in Clients \union {"none"}
  /\ \A p \in Pairs : \A m \in messages[p] : m.sequence \in 1 .. MaxMessages

\* The messages of a conversation are numbered without a gap and without a double, also
\* when both participants send at once or a client repeats a request.
NumberedInOrder ==
  \A p \in Pairs :
    /\ {m.sequence : m \in messages[p]} = 1 .. Cardinality(messages[p])
    /\ \A m, n \in messages[p] : m.author = n.author /\ m.key = n.key => m = n

\* A message that was read never becomes unread, whatever devices of the reader mark in
\* whichever order: the unread messages only grow by new messages of the other.
StaysRead ==
  [][\A p \in Pairs, a \in Accounts :
       Unread(p, a)' > Unread(p, a) => Cardinality(messages'[p]) > Cardinality(messages[p])]_vars
================================================================================
