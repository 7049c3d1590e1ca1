-------------------------- MODULE CommunityAuthority --------------------------
(***************************************************************************)
(* Who may do what in one community: its owner, memberships, restrictions  *)
(* (timeouts and bans) with their appeals, and invitations.                *)
(* CommunityService (packages/domain/src/index.ts) over PostgresPersistence *)
(* with the AuthorizationService bound to the transaction.                 *)
(*                                                                         *)
(* Every command ends in one SERIALIZABLE transaction that repeats the     *)
(* checks made before it, so a command is one action, guarded by what its  *)
(* transaction reads.  The rows of refused restrictions are the exception: *)
(* they are written outside, in two statements.  Roles and their decisions *)
(* are constants: no command of the server changes them.  Repeating a      *)
(* command under its idempotency key changes nothing and is a stutter.     *)
(* The rows of audit_events (chained by a trigger, never read here) are    *)
(* left out; the rows of moderation_audit_events are in audit.             *)
(***************************************************************************)
EXTENDS Naturals, Sequences, FiniteSets

CONSTANTS
  Accounts,
  FirstOwner,       \* the account that creates the community
  Position,         \* highest role position of an account; 0 is no role
  Granted,          \* <<account, permission>> granted by roles of the community
  Durations,        \* of timeouts, temporary bans and invitations
  AppealWindow,     \* 30 days
  MaxTime,          \* bound: clock
  MaxRestrictions,  \* bound: restrictions ever created
  MaxInvitations,   \* bound: invitations ever created
  MaxUses,          \* maxUses of an invitation (at most 100)
  MaxStamps         \* bound: audit rows after which no refused command is taken up

Never == MaxTime + 1
Anyone == "anyone"
Statuses == {"none", "active", "invited", "left", "removed", "suspended"}
ModerationPermissions ==
  {"moderation.timeout", "moderation.ban", "moderation.appeal",
   "moderation.message.delete"}

ASSUME AuthorityAssumption ==
  /\ FirstOwner \in Accounts
  /\ Position \in [Accounts -> Nat]
  /\ Durations \subseteq Nat \ {0}
  /\ MaxTime \in Nat
  /\ MaxUses \in Nat \ {0}
  /\ Anyone \notin Accounts

VARIABLES
  now,
  owner,         \* communities.owner_id
  archived,      \* communities.archived_at is set
  member,        \* status of each account's membership, "none" without a row
  restrictions,  \* moderation_restrictions in the order of creation
  appeals,       \* status of the appeal of each restriction
  invitations,   \* in the order of creation
  joins,         \* memberships that invitations activated (no variable of the code)
  stamps,        \* occurredAt values handed out so far
  audit,         \* moderation_audit_events: occurredAt and the one of the row whose hash is copied
  refusals       \* rows of refused commands between their two statements

authority == <<now, owner, archived, member, restrictions, appeals, invitations,
               joins, stamps, audit, refusals>>

Restriction == [actor : Accounts, target : Accounts, kind : {"timeout", "ban"},
                from : Nat, expires : Nat, revoked : BOOLEAN]
Invitation == [target : Accounts \union {Anyone}, expires : Nat, max : Nat,
               used : Nat, revoked : Nat]
Join == [invitation : Nat, account : Accounts, at : Nat,
         before : Statuses \union {"restricted"}]
AuditRow == [at : Nat, previous : Nat]

\* createCommunity()
Init ==
  /\ now = 0
  /\ owner = FirstOwner
  /\ archived = FALSE
  /\ member = [a \in Accounts |-> IF a = FirstOwner THEN "active" ELSE "none"]
  /\ restrictions = <<>>
  /\ appeals = <<>>
  /\ invitations = <<>>
  /\ joins = <<>>
  /\ stamps = 0
  /\ audit = {}
  /\ refusals = {}

--------------------------------------------------------------------------------
(* Decisions *)

\* evaluatePermission() over the snapshot of one account: without an active
\* membership nobody decides anything, the owner included.
Authorized(a, permission) ==
  /\ member[a] = "active"
  /\ owner = a \/ <<a, permission>> \in Granted

Effective(r) ==
  ~restrictions[r].revoked /\ now < restrictions[r].expires
Restricted(a) ==
  \E r \in DOMAIN restrictions : restrictions[r].target = a /\ Effective(r)

\* enforce(): moderation permissions are not subject to restrictions.
Enforced(a, permission) ==
  /\ Authorized(a, permission)
  /\ permission \in ModerationPermissions \/ ~Restricted(a)

\* assertCanModerate()
CanModerate(a, target, permission) ==
  /\ Authorized(a, permission)
  /\ a # target
  /\ target # owner
  /\ owner = a \/ Position[a] > Position[target]

--------------------------------------------------------------------------------
(* The audit chain of moderation *)

\* latestHash(): the row with the latest occurredAt, 0 when there is none.
Latest ==
  IF audit = {} THEN 0
  ELSE CHOOSE at \in {row.at : row \in audit} : \A row \in audit : row.at <= at

\* writeModerationAudit() inside the transaction of the command.
Audited ==
  /\ stamps' = stamps + 1
  /\ audit' = audit \union {[at |-> stamps + 1, previous |-> Latest]}
  /\ UNCHANGED refusals

\* writeRejectedModerationAudit(): the row is prepared from what latestHash()
\* returns and inserted by a later statement; it may also be lost.
Refuse ==
  /\ stamps < MaxStamps
  /\ stamps' = stamps + 1
  /\ refusals' = refusals \union {[at |-> stamps + 1, previous |-> Latest]}
  /\ UNCHANGED <<now, owner, archived, member, restrictions, appeals, invitations,
                 joins, audit>>
RecordRefusal(row) ==
  /\ refusals' = refusals \ {row}
  /\ audit' \in {audit, audit \union {row}}
  /\ UNCHANGED <<now, owner, archived, member, restrictions, appeals, invitations,
                 joins, stamps>>

Unaudited == UNCHANGED <<stamps, audit, refusals>>

--------------------------------------------------------------------------------
(* Restrictions *)

Eligible(target, kind) ==
  /\ ~archived
  /\ target # owner
  /\ IF kind = "timeout" THEN member[target] = "active" ELSE member[target] # "none"
PermissionOf(kind) == IF kind = "ban" THEN "moderation.ban" ELSE "moderation.timeout"
\* A ban without a duration never expires.
Expiries(kind) ==
  {now + d : d \in Durations} \union (IF kind = "ban" THEN {Never} ELSE {})

\* timeoutMember(), banMember()
RestrictMember(a, target, kind, expires) ==
  /\ Len(restrictions) < MaxRestrictions
  /\ Eligible(target, kind)
  /\ CanModerate(a, target, PermissionOf(kind))
  /\ restrictions' = Append(restrictions,
       [actor |-> a, target |-> target, kind |-> kind, from |-> now,
        expires |-> expires, revoked |-> FALSE])
  /\ appeals' = Append(appeals, "none")
  /\ Audited
  /\ UNCHANGED <<now, owner, archived, member, invitations, joins>>

\* ... and their catch clauses: whatever was thrown, a key reused for another
\* command included, leaves a row.
RefuseRestriction(a, target, kind) ==
  /\ \/ ~Eligible(target, kind)
     \/ ~CanModerate(a, target, PermissionOf(kind))
     \/ \E r \in DOMAIN restrictions : restrictions[r].actor = a
  /\ Refuse

Revoked(r) == [restrictions EXCEPT ![r].revoked = TRUE]

\* reverseRestriction()
Reverse(a, r) ==
  /\ CanModerate(a, restrictions[r].target, PermissionOf(restrictions[r].kind))
  /\ ~restrictions[r].revoked
  /\ restrictions' = Revoked(r)
  /\ Audited
  /\ UNCHANGED <<now, owner, archived, member, appeals, invitations, joins>>

\* submitModerationAppeal() by the restricted account, member or not.
Appeal(r) ==
  /\ now - restrictions[r].from <= AppealWindow
  /\ appeals[r] = "none"
  /\ appeals' = [appeals EXCEPT ![r] = "submitted"]
  /\ Unaudited
  /\ UNCHANGED <<now, owner, archived, member, restrictions, invitations, joins>>

\* decideModerationAppeal()
Decide(a, r, decision) ==
  /\ Enforced(a, "moderation.appeal")
  /\ appeals[r] = "submitted"
  /\ restrictions[r].actor # a
  /\ restrictions' = IF decision = "overturned" THEN Revoked(r) ELSE restrictions
  /\ appeals' = [appeals EXCEPT ![r] = decision]
  /\ Audited
  /\ UNCHANGED <<now, owner, archived, member, invitations, joins>>

--------------------------------------------------------------------------------
(* Memberships and ownership *)

\* (mutant) the owner is a member like the others
ChangeAnyMembership(a, target, status) ==
  /\ ~archived
  /\ Enforced(a, IF a = target /\ status = "left" THEN "membership.view"
                 ELSE "membership.manage")
  /\ member' = [member EXCEPT ![target] = status]
  /\ Unaudited
  /\ UNCHANGED <<now, owner, archived, restrictions, appeals, invitations, joins>>
\* changeMembership(); members leave with membership.view.
ChangeMembership(a, target, status) ==
  /\ ~archived
  /\ Enforced(a, IF a = target /\ status = "left" THEN "membership.view"
                 ELSE "membership.manage")
  /\ target # owner \/ status = "active"
  /\ member' = [member EXCEPT ![target] = status]
  /\ Unaudited
  /\ UNCHANGED <<now, owner, archived, restrictions, appeals, invitations, joins>>

\* AuthorizationService.transferOwnership(): only the owner, and only to an
\* active member.
TransferOwnership(next) ==
  /\ Authorized(owner, "community.transfer")
  /\ member[next] = "active"
  /\ owner' = next
  /\ Unaudited
  /\ UNCHANGED <<now, archived, member, restrictions, appeals, invitations, joins>>

\* archiveCommunity()
Archive(a) ==
  /\ ~archived
  /\ Enforced(a, "community.manage")
  /\ archived' = TRUE
  /\ Unaudited
  /\ UNCHANGED <<now, owner, member, restrictions, appeals, invitations, joins>>

--------------------------------------------------------------------------------
(* Invitations *)

\* createInvitation().  The archive of the community is looked at before the
\* transaction only: a command under way may still write its row after it.
Invite(a, target, duration, max) ==
  /\ Len(invitations) < MaxInvitations
  /\ Enforced(a, "invitation.create")
  /\ invitations' = Append(invitations,
       [target |-> target, expires |-> now + duration, max |-> max, used |-> 0,
        revoked |-> Never])
  /\ Unaudited
  /\ UNCHANGED <<now, owner, archived, member, restrictions, appeals, joins>>

\* revokeInvitation(), also in an archived community
RevokeInvitation(a, i) ==
  /\ Enforced(a, "invitation.manage")
  /\ invitations[i].revoked = Never
  /\ invitations' = [invitations EXCEPT ![i].revoked = now]
  /\ Unaudited
  /\ UNCHANGED <<now, owner, archived, member, restrictions, appeals, joins>>

\* (mutant) uses are compared when the invitation is previewed only
InvitationOpen(i) ==
  /\ invitations[i].revoked = Never
  /\ now < invitations[i].expires
\* ensureInvitationUsable() and the conditions of claim()
InvitationUsable(i) ==
  /\ invitations[i].revoked = Never
  /\ now < invitations[i].expires
  /\ invitations[i].used < invitations[i].max

\* acceptInvitation(); an active member gets its membership back unchanged.
Accept(a, i) ==
  /\ invitations[i].target \in {Anyone, a}
  /\ member[a] \notin {"active", "removed", "suspended"}
  /\ InvitationUsable(i)
  /\ ~archived
  /\ ~Restricted(a)
  /\ invitations' = [invitations EXCEPT ![i].used = @ + 1]
  /\ member' = [member EXCEPT ![a] = "active"]
  /\ joins' = Append(joins,
       [invitation |-> i, account |-> a, at |-> now,
        before |-> IF Restricted(a) THEN "restricted" ELSE member[a]])
  /\ Unaudited
  /\ UNCHANGED <<now, owner, archived, restrictions, appeals>>

Tick ==
  /\ now < MaxTime
  /\ now' = now + 1
  /\ Unaudited
  /\ UNCHANGED <<owner, archived, member, restrictions, appeals, invitations, joins>>

--------------------------------------------------------------------------------
AuthorityNext ==
  \/ \E a, target \in Accounts, kind \in {"timeout", "ban"} :
       \/ \E expires \in Expiries(kind) : RestrictMember(a, target, kind, expires)
       \/ RefuseRestriction(a, target, kind)
  \/ \E row \in refusals : RecordRefusal(row)
  \/ \E a \in Accounts, r \in DOMAIN restrictions :
       \/ Reverse(a, r)
       \/ \E decision \in {"upheld", "overturned"} : Decide(a, r, decision)
  \/ \E r \in DOMAIN restrictions : Appeal(r)
  \/ \E a, target \in Accounts, status \in Statuses \ {"none"} :
       ChangeMembership(a, target, status)
  \/ \E next \in Accounts : TransferOwnership(next)
  \/ \E a \in Accounts : Archive(a)
  \/ \E a \in Accounts, target \in Accounts \union {Anyone}, duration \in Durations,
        max \in 1 .. MaxUses : Invite(a, target, duration, max)
  \/ \E a \in Accounts, i \in DOMAIN invitations :
       RevokeInvitation(a, i) \/ Accept(a, i)
  \/ Tick

AuthoritySpec == Init /\ [][AuthorityNext]_authority

--------------------------------------------------------------------------------
(* Properties *)

AuthorityTypeOK ==
  /\ now \in Nat
  /\ owner \in Accounts
  /\ archived \in BOOLEAN
  /\ member \in [Accounts -> Statuses]
  /\ restrictions \in Seq(Restriction)
  /\ appeals \in Seq({"none", "submitted", "upheld", "overturned"})
  /\ Len(appeals) = Len(restrictions)
  /\ invitations \in Seq(Invitation)
  /\ joins \in Seq(Join)
  /\ stamps \in Nat
  /\ audit \in SUBSET AuditRow
  /\ refusals \in SUBSET AuditRow

\* The owner always has an active membership: without one evaluatePermission()
\* would deny the owner everything, and nobody could hand the community on.
\* Departures, removals and transfers of ownership may meet in any order.
OwnerActive == member[owner] = "active"

\* The uses of an invitation are the memberships it activated, no more than it
\* allows, each before it expired or was revoked, and of nobody who was
\* restricted, removed, suspended or already active.
InvitationAccounted ==
  \A i \in DOMAIN invitations :
    LET invitation == invitations[i]
        through == {j \in DOMAIN joins : joins[j].invitation = i}
    IN /\ invitation.used = Cardinality(through)
       /\ invitation.used <= invitation.max
       /\ \A j \in through :
            /\ invitation.target \in {Anyone, joins[j].account}
            /\ joins[j].at < invitation.expires
            /\ joins[j].at <= invitation.revoked
            /\ joins[j].before \in {"none", "invited", "left"}

\* docs/architecture/moderation.md:10, "They form a per-community SHA-256
\* chain": no two rows continue the same row.
AuditIsChain ==
  \A x, y \in audit : x.previous = y.previous => x = y

================================================================================
