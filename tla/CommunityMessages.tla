--------------------------- MODULE CommunityMessages ---------------------------
(***************************************************************************)
(* Messages of one text space of a community, under the authority that     *)
(* changes while they are written: posting, editing and deleting in        *)
(* CommunityService (packages/domain/src/index.ts) over the message        *)
(* repositories of packages/postgres/src/index.ts.                         *)
(*                                                                         *)
(* postMessageCommand() checks the author, looks for an earlier message    *)
(* under the same idempotency key, and does both again in a SERIALIZABLE   *)
(* transaction; in between anything may commit.  The other commands are    *)
(* one transaction each.  The category of the space, replies, content      *)
(* limits, reactions and the fan-out of events are left out.               *)
(***************************************************************************)
EXTENDS CommunityAuthority

CONSTANTS
  Requests,     \* POST requests in progress at a time
  Keys,         \* idempotency keys that clients draw
  Bodies,
  SlowModes,    \* settings of slow_mode_seconds, 0 is off
  MaxMessages,  \* bound: messages of the space
  MaxEdits      \* bound: bodies a message has had

ASSUME MessagesAssumption ==
  /\ SlowModes \subseteq Nat
  /\ MaxMessages \in Nat
  /\ MaxEdits \in Nat \ {0}

VARIABLES
  space,      \* archived and slow_mode_seconds of the space
  messages,   \* in the order of creation
  pacing,     \* message_pacing.next_allowed_at of each author
  posts,      \* what each request carries into its transaction
  answers,    \* messages returned to posts (no variable of the code)
  deletions   \* moderation_message_deletions with their evidence

content == <<space, messages, pacing, posts, answers, deletions>>
vars == <<authority, content>>

Idle == [pc |-> "idle"]
Post == [pc : {"commit"}, author : Accounts, key : Keys, body : Bodies]
\* bodies are all the bodies so far: their number is the version, the last one
\* is the column body.  pace is the interval that the message consumed.
Message == [author : Accounts, key : Keys, bodies : Seq(Bodies), deleted : BOOLEAN,
            at : Nat, pace : Nat]
Answer == [author : Accounts, key : Keys, body : Bodies, message : Nat]
Deletion == [message : Nat, actor : Accounts, version : Nat, evidence : Bodies]

MessagesInit ==
  /\ Init
  /\ space = [archived |-> FALSE, slow |-> 0]
  /\ messages = <<>>
  /\ pacing = [a \in Accounts |-> 0]
  /\ posts = [r \in Requests |-> Idle]
  /\ answers = {}
  /\ deletions = {}

--------------------------------------------------------------------------------
(* postMessageCommand() *)

MayPost(a) ==
  /\ ~archived
  /\ ~space.archived
  /\ Enforced(a, "message.create")

\* findByIdempotencyKey()
Earlier(author, key) ==
  {m \in DOMAIN messages : messages[m].author = author /\ messages[m].key = key}
\* (mutant) the key alone identifies a request
SameKey(m, body) == TRUE
\* The fingerprint of a message is that of the body it was posted with.
SameRequest(m, body) == messages[m].bodies[1] = body
Answered(author, key, body, m) ==
  answers' = answers \union
    {[author |-> author, key |-> key, body |-> body, message |-> m]}

\* The checks before the transaction; a message that exists is the answer.
StartPost(r, author, key, body) ==
  /\ posts[r] = Idle
  /\ MayPost(author)
  /\ IF Earlier(author, key) = {}
     THEN /\ posts' = [posts EXCEPT ![r] = [pc |-> "commit", author |-> author,
                                            key |-> key, body |-> body]]
          /\ UNCHANGED answers
     ELSE \E m \in Earlier(author, key) :
            /\ SameRequest(m, body)
            /\ Answered(author, key, body, m)
            /\ UNCHANGED posts
  /\ UNCHANGED <<authority, space, messages, pacing, deletions>>

EndPost(r) == posts' = [posts EXCEPT ![r] = Idle]

\* Paced authors wait for next_allowed_at; the owner does not.
Paced(author) == owner # author /\ space.slow > 0

\* messagePacing.consume()
Consume(author) ==
  IF Paced(author)
  THEN /\ pacing[author] <= now
       /\ pacing' = [pacing EXCEPT ![author] = now + space.slow]
  ELSE UNCHANGED pacing

\* (mutant) the author was authorized before the transaction
CommitUnchecked(r) ==
  LET p == posts[r] IN
  /\ p.pc = "commit"
  /\ Len(messages) < MaxMessages
  /\ ~archived /\ ~space.archived
  /\ Earlier(p.author, p.key) = {}
  /\ Consume(p.author)
  /\ messages' = Append(messages,
       [author |-> p.author, key |-> p.key, bodies |-> <<p.body>>, deleted |-> FALSE,
        at |-> now, pace |-> IF Paced(p.author) THEN space.slow ELSE 0])
  /\ Answered(p.author, p.key, p.body, Len(messages) + 1)
  /\ EndPost(r)
  /\ UNCHANGED <<authority, space, deletions>>
\* Nothing found within the transaction either: consume() and create().
CommitPost(r) ==
  LET p == posts[r] IN
  /\ p.pc = "commit"
  /\ Len(messages) < MaxMessages
  /\ MayPost(p.author)
  /\ Earlier(p.author, p.key) = {}
  /\ Consume(p.author)
  /\ messages' = Append(messages,
       [author |-> p.author, key |-> p.key, bodies |-> <<p.body>>, deleted |-> FALSE,
        at |-> now, pace |-> IF Paced(p.author) THEN space.slow ELSE 0])
  /\ Answered(p.author, p.key, p.body, Len(messages) + 1)
  /\ EndPost(r)
  /\ UNCHANGED <<authority, space, deletions>>

\* The message of a concurrent request under the same key.
ReplayPost(r) ==
  LET p == posts[r] IN
  /\ p.pc = "commit"
  /\ MayPost(p.author)
  /\ \E m \in Earlier(p.author, p.key) :
       /\ SameRequest(m, p.body)
       /\ Answered(p.author, p.key, p.body, m)
  /\ EndPost(r)
  /\ UNCHANGED <<authority, space, messages, pacing, deletions>>

\* not_found, forbidden, conflict or rate_limited, or the retries are used up.
RefusePost(r) ==
  /\ posts[r].pc = "commit"
  /\ EndPost(r)
  /\ UNCHANGED <<authority, space, messages, pacing, answers, deletions>>

--------------------------------------------------------------------------------
(* Changes of a message *)

Version(m) == Len(messages[m].bodies)

\* mutateMessage(): the community's archive is not looked at.
MayChange(a, m) ==
  /\ ~space.archived
  /\ Enforced(a, IF messages[m].author = a THEN "message.create" ELSE "message.manage")

\* editMessage() with the version the client has seen
Edit(a, m, version, body) ==
  /\ MayChange(a, m)
  /\ ~messages[m].deleted
  /\ version = Version(m)
  /\ version < MaxEdits
  /\ messages' = [messages EXCEPT ![m].bodies = Append(@, body)]
  /\ UNCHANGED <<authority, space, pacing, posts, answers, deletions>>

Tombstone(m) == [messages EXCEPT ![m].deleted = TRUE]

\* deleteMessage()
Delete(a, m, version) ==
  /\ MayChange(a, m)
  /\ ~messages[m].deleted
  /\ version = Version(m)
  /\ messages' = Tombstone(m)
  /\ UNCHANGED <<authority, space, pacing, posts, answers, deletions>>

\* (mutant) the moderator's version is not compared
ModeratorDeleteAnyVersion(a, m, version) ==
  /\ ~space.archived
  /\ CanModerate(a, messages[m].author, "moderation.message.delete")
  /\ ~messages[m].deleted
  /\ messages' = Tombstone(m)
  /\ deletions' = deletions \union
       {[message |-> m, actor |-> a, version |-> version,
         evidence |-> messages[m].bodies[Version(m)]]}
  /\ Audited
  /\ UNCHANGED <<now, owner, archived, member, restrictions, appeals, invitations,
                 joins, space, pacing, posts, answers>>
\* moderatorDeleteMessage(): evidence, tombstone, deletion and audit row at once.
ModeratorDelete(a, m, version) ==
  /\ ~space.archived
  /\ CanModerate(a, messages[m].author, "moderation.message.delete")
  /\ ~messages[m].deleted
  /\ version = Version(m)
  /\ messages' = Tombstone(m)
  /\ deletions' = deletions \union
       {[message |-> m, actor |-> a, version |-> version,
         evidence |-> messages[m].bodies[Version(m)]]}
  /\ Audited
  /\ UNCHANGED <<now, owner, archived, member, restrictions, appeals, invitations,
                 joins, space, pacing, posts, answers>>

\* updateSpace(): a space is archived for good, and slow mode set at any time.
UpdateSpace(a, slow, archive) ==
  /\ Enforced(a, "space.manage")
  /\ space' = [archived |-> space.archived \/ archive, slow |-> slow]
  /\ UNCHANGED <<authority, messages, pacing, posts, answers, deletions>>

--------------------------------------------------------------------------------
MessagesNext ==
  \/ \E r \in Requests :
       \/ \E author \in Accounts, key \in Keys, body \in Bodies :
            StartPost(r, author, key, body)
       \/ CommitPost(r)
       \/ ReplayPost(r)
       \/ RefusePost(r)
  \/ \E a \in Accounts, m \in DOMAIN messages, version \in 1 .. MaxEdits :
       \/ \E body \in Bodies : Edit(a, m, version, body)
       \/ Delete(a, m, version)
       \/ ModeratorDelete(a, m, version)
  \/ \E a \in Accounts, slow \in SlowModes, archive \in BOOLEAN :
       UpdateSpace(a, slow, archive)

Next == MessagesNext \/ (AuthorityNext /\ UNCHANGED content)

Spec == MessagesInit /\ [][Next]_vars

--------------------------------------------------------------------------------
(* Properties *)

TypeOK ==
  /\ AuthorityTypeOK
  /\ space \in [archived : BOOLEAN, slow : SlowModes \union {0}]
  /\ messages \in Seq(Message)
  /\ pacing \in [Accounts -> Nat]
  /\ posts \in [Requests -> Post \union {Idle}]
  /\ answers \in SUBSET Answer
  /\ deletions \in SUBSET Deletion

\* A message appears only while its author is an active, unrestricted member of
\* an open community and space, whatever the author was when the post began.
PostedWithAuthority ==
  [][\A m \in DOMAIN messages' \ DOMAIN messages :
       LET author == messages'[m].author IN
       /\ member[author] = "active"
       /\ ~Restricted(author)
       /\ ~archived
       /\ ~space.archived]_vars

\* All answers to posts of an author under one key name the same message, which
\* the author posted with that body: repeats and racing repeats never post
\* twice, and another body under the key is refused.
RetryAnswersSame ==
  \A x \in answers :
    /\ x.message \in DOMAIN messages
    /\ messages[x.message].author = x.author
    /\ messages[x.message].bodies[1] = x.body
    /\ \A y \in answers : x.author = y.author /\ x.key = y.key => x = y

\* Two messages of an author that slow mode applied to are as far apart as the
\* interval in force at the first, however the setting and the owner changed
\* in between and whichever requests were under way.
PacedApart ==
  \A m, n \in DOMAIN messages :
    /\ m < n
    /\ messages[m].author = messages[n].author
    /\ messages[m].pace > 0 /\ messages[n].pace > 0
    => messages[n].at >= messages[m].at + messages[m].pace

\* What a moderator deleted is what the evidence shows: the version that the
\* moderator named, the last one, kept once and unchanged by edits and
\* deletions of the author.
EvidenceKept ==
  \A d \in deletions :
    /\ messages[d.message].deleted
    /\ d.version = Version(d.message)
    /\ d.evidence = messages[d.message].bodies[d.version]
    /\ \A e \in deletions : e.message = d.message => e = d

\* The rows of the community as a whole: their types, and an owner who is a member.
OwnersSound == TypeOK /\ OwnerActive

\* A post that is retried, and posts under slow mode.
PostsSound == RetryAnswersSame /\ PacedApart

================================================================================
