-------------------------- MODULE MCCommunityMessages --------------------------
(* A small instance of CommunityMessages for TLC: an owner, a moderator and a   *)
(* member.  Each behaviour draws a plan, which bounds what it goes through: the *)
(* parts of the module meet in pairs and not all at once.                       *)
EXTENDS CommunityMessages, TLC

CONSTANTS founder, moderator, visitor, Plans

MCPosition == [a \in {founder, moderator, visitor} |-> IF a = moderator THEN 1 ELSE 0]
MCGranted ==
  {moderator} \X {"membership.view", "membership.manage", "message.create",
                  "message.manage", "space.manage", "invitation.create",
                  "invitation.manage", "moderation.timeout", "moderation.ban",
                  "moderation.appeal", "moderation.message.delete"}
    \union {visitor} \X {"membership.view", "message.create"}

VARIABLE plan

Untouched == messages = <<>> /\ \A r \in Requests : posts[r] = Idle
SpaceAsCreated == ~space.archived /\ space.slow = 0
Unarchived == ~archived /\ ~space.archived
Unappealed == \A r \in DOMAIN appeals : appeals[r] = "none"
Unchanged == \A m \in DOMAIN messages : Version(m) = 1 /\ ~messages[m].deleted
Kinds(kinds) ==
  \A r \in DOMAIN restrictions :
    restrictions[r].target = visitor /\ restrictions[r].kind \in kinds
Members(ofModerator, ofVisitor) ==
  member[moderator] \in ofModerator /\ member[visitor] \in ofVisitor

Within ==
  \/ /\ plan = "moderation"
     /\ Untouched /\ SpaceAsCreated /\ invitations = <<>> /\ refusals = {} /\ ~archived
     /\ Kinds({"timeout", "ban"}) /\ now <= 1
     /\ Members({"none", "active"}, {"none", "active"})
  \/ /\ plan = "refusals"
     /\ Untouched /\ SpaceAsCreated /\ invitations = <<>> /\ Unappealed
     /\ Len(restrictions) <= 1
     /\ Members({"none", "active"}, {"none", "active", "suspended"})
  \/ /\ plan = "invitations"
     /\ Untouched /\ SpaceAsCreated /\ Unappealed /\ refusals = {} /\ owner = founder
     /\ Len(restrictions) <= 1 /\ Kinds({"ban"})
     /\ Members({"none", "active"}, Statuses)
  \/ /\ plan = "pacing"
     /\ Unarchived /\ Unchanged /\ invitations = <<>> /\ refusals = {}
     /\ Len(restrictions) <= 1 /\ Kinds({"timeout"}) /\ Unappealed
     /\ Members({"none"}, {"none", "active"})
     /\ \E body \in Bodies :
          /\ \A m \in DOMAIN messages : messages[m].bodies[1] = body
          /\ \A r \in Requests : posts[r] = Idle \/ posts[r].body = body
  \/ /\ plan = "retries"
     /\ Unarchived /\ Unchanged /\ invitations = <<>> /\ refusals = {}
     /\ restrictions = <<>>
     /\ owner = founder /\ space.slow = 0 /\ now = 0
     /\ Members({"none"}, {"none", "active", "left"})
  \/ /\ plan = "changes"
     /\ invitations = <<>> /\ Unappealed /\ refusals = {} /\ owner = founder
     /\ Len(restrictions) <= 1 /\ Kinds({"ban"}) /\ space.slow = 0 /\ now <= 1
     /\ Len(messages) <= 1 /\ Cardinality({r \in Requests : posts[r] # Idle}) <= 1
     /\ Members({"none", "active"}, {"none", "active", "removed"})

MCInit == MessagesInit /\ plan \in Plans
MCNext == Next /\ plan' = plan /\ Within'
MCSpec == MCInit /\ [][MCNext]_<<vars, plan>>

Interchangeable ==
  Permutations(Requests) \union Permutations(Keys) \union Permutations(Bodies)

================================================================================
