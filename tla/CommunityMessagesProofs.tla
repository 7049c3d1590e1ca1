------------------------ MODULE CommunityMessagesProofs ------------------------
(* Theorems about CommunityMessages, and lemmas about the CommunityAuthority   *)
(* under it, for any accounts, roles and bounds.                               *)
EXTENDS CommunityMessages, SequenceTheorems, FiniteSetTheorems, TLAPS

--------------------------------------------------------------------------------
(* Which actions change what                                                  *)

AuditKinds ==
  Audited \/ Unaudited \/ Refuse \/ \E row \in refusals : RecordRefusal(row)
MemberKinds ==
  \/ UNCHANGED <<owner, member>>
  \/ \E a, target \in Accounts, status \in Statuses \ {"none"} :
       ChangeMembership(a, target, status)
  \/ \E next \in Accounts : TransferOwnership(next)
  \/ \E a \in Accounts, i \in DOMAIN invitations : Accept(a, i)
RestrictionKinds ==
  \/ UNCHANGED <<restrictions, appeals>>
  \/ \E a, target \in Accounts, kind \in {"timeout", "ban"}, expires \in Nat :
       RestrictMember(a, target, kind, expires)
  \/ \E r \in DOMAIN restrictions :
       \/ Appeal(r)
       \/ \E a \in Accounts :
            Reverse(a, r) \/ \E decision \in {"upheld", "overturned"} : Decide(a, r, decision)
InvitationKinds ==
  \/ UNCHANGED <<now, invitations, joins>>
  \/ Tick
  \/ \E a \in Accounts, target \in Accounts \union {Anyone}, duration \in Durations,
        max \in 1 .. MaxUses : Invite(a, target, duration, max)
  \/ \E a \in Accounts, i \in DOMAIN invitations :
       RevokeInvitation(a, i) \/ Accept(a, i)
ArchiveKinds == archived' \in {archived, TRUE}

Kinds == AuditKinds /\ MemberKinds /\ RestrictionKinds /\ InvitationKinds /\ ArchiveKinds

LEMMA ExpiresLater ==
  ASSUME now \in Nat, NEW kind, NEW expires \in Expiries(kind)
  PROVE  expires \in Nat
BY AuthorityAssumption DEF Expiries, Never

LEMMA AuthorityKinds == ASSUME now \in Nat, AuthorityNext PROVE Kinds
<1> USE DEF Kinds, AuditKinds, MemberKinds, RestrictionKinds, InvitationKinds, ArchiveKinds
<1>1. ASSUME NEW a \in Accounts, NEW target \in Accounts,
             NEW kind \in {"timeout", "ban"}, NEW expires \in Expiries(kind),
             RestrictMember(a, target, kind, expires)
      PROVE Kinds
  <2>1. expires \in Nat
    BY ExpiresLater
  <2>2. Audited /\ UNCHANGED <<now, owner, archived, member, invitations, joins>>
    BY <1>1 DEF RestrictMember
  <2> QED
    BY <1>1, <2>1, <2>2
<1>2. ASSUME NEW a \in Accounts, NEW target \in Accounts, NEW kind \in {"timeout", "ban"},
             RefuseRestriction(a, target, kind)
      PROVE Kinds
  BY <1>2 DEF RefuseRestriction, Refuse
<1>3. ASSUME NEW row \in refusals, RecordRefusal(row) PROVE Kinds
  BY <1>3 DEF RecordRefusal
<1>4. ASSUME NEW a \in Accounts, NEW r \in DOMAIN restrictions,
             Reverse(a, r) \/ \E decision \in {"upheld", "overturned"} : Decide(a, r, decision)
      PROVE Kinds
  <2>1. Audited /\ UNCHANGED <<now, owner, archived, member, invitations, joins>>
    BY <1>4 DEF Reverse, Decide
  <2> QED
    BY <1>4, <2>1
<1>5. ASSUME NEW r \in DOMAIN restrictions, Appeal(r) PROVE Kinds
  <2>1. Unaudited /\ UNCHANGED <<now, owner, archived, member, invitations, joins>>
    BY <1>5 DEF Appeal
  <2> QED
    BY <1>5, <2>1
<1>6. ASSUME NEW a \in Accounts, NEW target \in Accounts,
             NEW status \in Statuses \ {"none"}, ChangeMembership(a, target, status)
      PROVE Kinds
  <2>1. Unaudited /\ UNCHANGED <<now, archived, restrictions, appeals, invitations, joins>>
    BY <1>6 DEF ChangeMembership
  <2> QED
    BY <1>6, <2>1
<1>7. ASSUME NEW next \in Accounts, TransferOwnership(next) PROVE Kinds
  <2>1. Unaudited /\ UNCHANGED <<now, archived, restrictions, appeals, invitations, joins>>
    BY <1>7 DEF TransferOwnership
  <2> QED
    BY <1>7, <2>1
<1>8. ASSUME NEW a \in Accounts, Archive(a) PROVE Kinds
  BY <1>8 DEF Archive
<1>9. ASSUME NEW a \in Accounts, NEW target \in Accounts \union {Anyone},
             NEW duration \in Durations, NEW max \in 1 .. MaxUses,
             Invite(a, target, duration, max)
      PROVE Kinds
  <2>1. Unaudited /\ UNCHANGED <<owner, archived, member, restrictions, appeals>>
    BY <1>9 DEF Invite
  <2> QED
    BY <1>9, <2>1
<1>10. ASSUME NEW a \in Accounts, NEW i \in DOMAIN invitations, RevokeInvitation(a, i)
       PROVE Kinds
  <2>1. Unaudited /\ UNCHANGED <<owner, archived, member, restrictions, appeals>>
    BY <1>10 DEF RevokeInvitation
  <2> QED
    BY <1>10, <2>1
<1>11. ASSUME NEW a \in Accounts, NEW i \in DOMAIN invitations, Accept(a, i)
       PROVE Kinds
  <2>1. Unaudited /\ UNCHANGED <<archived, restrictions, appeals>>
    BY <1>11 DEF Accept
  <2> QED
    BY <1>11, <2>1
<1>12. CASE Tick
  <2>1. Unaudited /\ UNCHANGED <<owner, archived, member, restrictions, appeals>>
    BY <1>12 DEF Tick
  <2> QED
    BY <1>12, <2>1
<1> QED
  BY <1>1, <1>2, <1>3, <1>4, <1>5, <1>6, <1>7, <1>8, <1>9, <1>10, <1>11, <1>12
     DEF AuthorityNext

--------------------------------------------------------------------------------
(* The audit chain: there is a latest row unless there is none.               *)

HasLatest ==
  audit # {} => \E last \in audit : \A row \in audit : row.at <= last.at

AuditInv ==
  /\ stamps \in Nat
  /\ audit \in SUBSET AuditRow
  /\ refusals \in SUBSET AuditRow
  /\ HasLatest

LEMMA LatestType == AuditInv => Latest \in Nat
<1> SUFFICES ASSUME AuditInv PROVE Latest \in Nat
  OBVIOUS
<1>1. CASE audit = {}
  BY <1>1 DEF Latest
<1>2. CASE audit # {}
  <2> DEFINE ats == {row.at : row \in audit}
  <2>1. ats \subseteq Nat
    BY DEF AuditInv, AuditRow
  <2>2. \E at \in ats : \A row \in audit : row.at <= at
    BY <1>2 DEF AuditInv, HasLatest
  <2>3. Latest \in ats
    BY <1>2, <2>2 DEF Latest
  <2> QED
    BY <2>1, <2>3
<1> QED
  BY <1>1, <1>2

LEMMA NewRow ==
  ASSUME AuditInv, NEW row \in AuditRow, audit' \in {audit, audit \union {row}}
  PROVE  audit' \in SUBSET AuditRow /\ HasLatest'
<1>0. audit' \in SUBSET AuditRow
  BY DEF AuditInv
<1> SUFFICES HasLatest'
  BY <1>0
<1>1. CASE audit' = audit
  BY <1>1 DEF AuditInv, HasLatest
<1>2. CASE audit' = audit \union {row}
  <2>1. /\ row.at \in Nat /\ \A x \in audit : x \in AuditRow /\ x.at \in Nat
        /\ \A m, n \in Nat : m <= n \/ n <= m
        /\ \A k, m, n \in Nat : k <= m /\ m <= n => k <= n
        /\ \A m \in Nat : m <= m
    BY DEF AuditInv, AuditRow
  <2>2. CASE audit = {}
    BY <1>2, <2>1, <2>2 DEF HasLatest
  <2>3. CASE audit # {}
    <3>1. PICK last \in audit : \A x \in audit : x.at <= last.at
      BY <2>3 DEF AuditInv, HasLatest
    <3>2. CASE row.at <= last.at
      BY <1>2, <3>1, <3>2 DEF HasLatest
    <3>3. CASE last.at <= row.at
      <4>1. \A x \in audit' : x.at <= row.at
        BY <1>2, <2>1, <3>1, <3>3
      <4> QED
        BY <1>2, <4>1 DEF HasLatest
    <3> QED
      BY <1>2, <2>1, <3>2, <3>3
  <2> QED
    BY <2>1, <2>2, <2>3
<1> QED
  BY <1>1, <1>2

LEMMA Stamped ==
  ASSUME AuditInv
  PROVE  /\ stamps + 1 \in Nat
         /\ [at |-> stamps + 1, previous |-> Latest] \in AuditRow
<1>1. stamps + 1 \in Nat
  BY DEF AuditInv
<1> QED
  BY <1>1, LatestType DEF AuditRow

LEMMA AuditedStep == AuditInv /\ Audited => AuditInv'
<1> SUFFICES ASSUME AuditInv, Audited PROVE AuditInv'
  OBVIOUS
<1> DEFINE row == [at |-> stamps + 1, previous |-> Latest]
<1>1. row \in AuditRow /\ stamps' \in Nat
  BY Stamped DEF Audited
<1>2. audit' = audit \union {row} /\ refusals' = refusals
  BY DEF Audited
<1> HIDE DEF row
<1> QED
  BY <1>1, <1>2, NewRow DEF AuditInv

LEMMA AuditStep == AuditInv /\ AuditKinds => AuditInv'
<1> SUFFICES ASSUME AuditInv, AuditKinds PROVE AuditInv'
  OBVIOUS
<1>1. CASE Unaudited
  BY <1>1 DEF Unaudited, AuditInv, HasLatest
<1>2. CASE Refuse
  <2> DEFINE row == [at |-> stamps + 1, previous |-> Latest]
  <2>1. row \in AuditRow /\ stamps' \in Nat
    BY <1>2, Stamped DEF Refuse
  <2>2. audit' = audit /\ refusals' = refusals \union {row}
    BY <1>2 DEF Refuse
  <2> HIDE DEF row
  <2> QED
    BY <2>1, <2>2 DEF AuditInv, HasLatest
<1>3. ASSUME NEW row \in refusals, RecordRefusal(row) PROVE AuditInv'
  <2>1. row \in AuditRow
    BY DEF AuditInv
  <2>2. /\ stamps' = stamps /\ refusals' \subseteq refusals
        /\ audit' \in {audit, audit \union {row}}
    BY <1>3 DEF RecordRefusal
  <2> QED
    BY <2>1, <2>2, NewRow DEF AuditInv
<1> QED
  BY <1>1, <1>2, <1>3, AuditedStep DEF AuditKinds

--------------------------------------------------------------------------------
(* Restrictions and appeals                                                   *)

AppealStatuses == {"none", "submitted", "upheld", "overturned"}
RestrictionInv ==
  /\ restrictions \in Seq(Restriction)
  /\ appeals \in Seq(AppealStatuses)
  /\ Len(appeals) = Len(restrictions)

LEMMA RevokedType ==
  ASSUME RestrictionInv, NEW r \in DOMAIN restrictions
  PROVE  Revoked(r) \in Seq(Restriction) /\ Len(Revoked(r)) = Len(restrictions)
<1> DEFINE x == [restrictions[r] EXCEPT !.revoked = TRUE]
<1>1. r \in 1 .. Len(restrictions)
  BY LenProperties DEF RestrictionInv
<1>2. restrictions[r] \in Restriction
  BY <1>1, ElementOfSeq DEF RestrictionInv
<1>3. x \in Restriction
  BY <1>2 DEF Restriction
<1>4. Revoked(r) = [restrictions EXCEPT ![r] = x]
  BY DEF Revoked
<1> HIDE DEF x
<1> QED
  BY <1>1, <1>3, <1>4, ExceptSeq DEF RestrictionInv

LEMMA AppealType ==
  ASSUME RestrictionInv, NEW r \in DOMAIN restrictions, NEW status \in AppealStatuses
  PROVE  /\ [appeals EXCEPT ![r] = status] \in Seq(AppealStatuses)
         /\ Len([appeals EXCEPT ![r] = status]) = Len(restrictions)
<1>1. r \in 1 .. Len(appeals)
  BY LenProperties DEF RestrictionInv
<1> QED
  BY <1>1, ExceptSeq DEF RestrictionInv

LEMMA RestrictionStep ==
  ASSUME RestrictionInv, now \in Nat, RestrictionKinds
  PROVE  RestrictionInv'
<1>1. CASE UNCHANGED <<restrictions, appeals>>
  BY <1>1 DEF RestrictionInv
<1>2. ASSUME NEW a \in Accounts, NEW target \in Accounts,
             NEW kind \in {"timeout", "ban"}, NEW expires \in Nat,
             RestrictMember(a, target, kind, expires)
      PROVE RestrictionInv'
  <2> DEFINE x == [actor |-> a, target |-> target, kind |-> kind, from |-> now,
                   expires |-> expires, revoked |-> FALSE]
  <2>1. x \in Restriction /\ "none" \in AppealStatuses
    BY DEF Restriction, AppealStatuses
  <2>2. restrictions' = Append(restrictions, x) /\ appeals' = Append(appeals, "none")
    BY <1>2 DEF RestrictMember
  <2> HIDE DEF x
  <2>3. restrictions' \in Seq(Restriction) /\ Len(restrictions') = Len(restrictions) + 1
    BY <2>1, <2>2, AppendProperties DEF RestrictionInv
  <2>4. appeals' \in Seq(AppealStatuses) /\ Len(appeals') = Len(appeals) + 1
    BY <2>1, <2>2, AppendProperties DEF RestrictionInv
  <2> QED
    BY <2>3, <2>4 DEF RestrictionInv
<1>3. ASSUME NEW r \in DOMAIN restrictions, Appeal(r) PROVE RestrictionInv'
  <2>1. "submitted" \in AppealStatuses
    BY DEF AppealStatuses
  <2>2. appeals' = [appeals EXCEPT ![r] = "submitted"] /\ restrictions' = restrictions
    BY <1>3 DEF Appeal
  <2> QED
    BY <2>1, <2>2, AppealType DEF RestrictionInv
<1>4. ASSUME NEW a \in Accounts, NEW r \in DOMAIN restrictions, Reverse(a, r)
      PROVE RestrictionInv'
  <2>1. restrictions' = Revoked(r) /\ appeals' = appeals
    BY <1>4 DEF Reverse
  <2> QED
    BY <2>1, RevokedType DEF RestrictionInv
<1>5. ASSUME NEW a \in Accounts, NEW r \in DOMAIN restrictions,
             NEW decision \in {"upheld", "overturned"}, Decide(a, r, decision)
      PROVE RestrictionInv'
  <2>1. decision \in AppealStatuses
    BY DEF AppealStatuses
  <2>2. /\ restrictions' \in {restrictions, Revoked(r)}
        /\ appeals' = [appeals EXCEPT ![r] = decision]
    BY <1>5 DEF Decide
  <2> QED
    BY <2>1, <2>2, AppealType, RevokedType DEF RestrictionInv
<1> QED
  BY <1>1, <1>2, <1>3, <1>4, <1>5 DEF RestrictionKinds

--------------------------------------------------------------------------------
(* Ownership                                                                  *)

OwnerInv ==
  /\ owner \in Accounts
  /\ member \in [Accounts -> Statuses]
  /\ OwnerActive

LEMMA OwnerStep == OwnerInv /\ MemberKinds => OwnerInv'
<1> SUFFICES ASSUME OwnerInv, MemberKinds PROVE OwnerInv'
  OBVIOUS
<1> USE DEF OwnerInv, OwnerActive
<1>1. CASE UNCHANGED <<owner, member>>
  BY <1>1
<1>2. ASSUME NEW a \in Accounts, NEW target \in Accounts,
             NEW status \in Statuses \ {"none"}, ChangeMembership(a, target, status)
      PROVE OwnerInv'
  <2>1. target # owner \/ status = "active"
    BY <1>2 DEF ChangeMembership
  <2>2. owner' = owner /\ member' = [member EXCEPT ![target] = status]
    BY <1>2 DEF ChangeMembership
  <2> QED
    BY <2>1, <2>2
<1>3. ASSUME NEW next \in Accounts, TransferOwnership(next) PROVE OwnerInv'
  BY <1>3 DEF TransferOwnership
<1>4. ASSUME NEW a \in Accounts, NEW i \in DOMAIN invitations, Accept(a, i)
      PROVE OwnerInv'
  <2>1. owner' = owner /\ member' = [member EXCEPT ![a] = "active"]
    BY <1>4 DEF Accept
  <2> QED
    BY <2>1 DEF Statuses
<1> QED
  BY <1>1, <1>2, <1>3, <1>4 DEF MemberKinds

--------------------------------------------------------------------------------
(* Invitations                                                                *)

Through(i) == {j \in DOMAIN joins : joins[j].invitation = i}
Accounted(i) ==
  /\ invitations[i].used = Cardinality(Through(i))
  /\ invitations[i].used <= invitations[i].max
  /\ \A j \in Through(i) :
       /\ invitations[i].target \in {Anyone, joins[j].account}
       /\ joins[j].at < invitations[i].expires
       /\ joins[j].at <= invitations[i].revoked
       /\ joins[j].before \in {"none", "invited", "left"}

\* Joins are of invitations that exist, and not in the future.
InvitationInv ==
  /\ now \in Nat /\ now <= MaxTime
  /\ invitations \in Seq(Invitation)
  /\ joins \in Seq(Join)
  /\ \A j \in DOMAIN joins :
       joins[j].at <= now /\ joins[j].invitation \in DOMAIN invitations
  /\ \A i \in DOMAIN invitations : Accounted(i)

LEMMA InvitationImplied == InvitationInv => InvitationAccounted
BY DEF InvitationInv, InvitationAccounted, Accounted, Through

LEMMA InvitationFacts ==
  ASSUME InvitationInv, NEW i \in DOMAIN invitations
  PROVE  /\ i \in 1 .. Len(invitations)
         /\ invitations[i] \in Invitation
         /\ invitations[i].used \in Nat /\ invitations[i].max \in Nat
         /\ IsFiniteSet(Through(i))
<1>1. i \in 1 .. Len(invitations)
  BY LenProperties DEF InvitationInv
<1>2. invitations[i] \in Invitation
  BY <1>1, ElementOfSeq DEF InvitationInv
<1>3. Len(joins) \in Nat /\ Through(i) \subseteq 1 .. Len(joins)
  BY LenProperties DEF InvitationInv, Through
<1>4. 1 \in Int /\ Len(joins) \in Int
  BY <1>3
<1>5. IsFiniteSet(1 .. Len(joins))
  BY <1>4, FS_Interval
<1>6. IsFiniteSet(Through(i))
  BY <1>3, <1>5, FS_Subset
<1> QED
  BY <1>1, <1>2, <1>6 DEF Invitation

LEMMA InviteStep ==
  ASSUME InvitationInv, NEW a, NEW target \in Accounts \union {Anyone},
         NEW duration \in Durations, NEW max \in 1 .. MaxUses,
         Invite(a, target, duration, max)
  PROVE  InvitationInv'
<1> DEFINE x == [target |-> target, expires |-> now + duration, max |-> max, used |-> 0,
                 revoked |-> Never]
           n == Len(invitations) + 1
<1>1. now + duration \in Nat /\ max \in Nat /\ Never \in Nat
  BY AuthorityAssumption DEF InvitationInv, Never
<1>2. x \in Invitation /\ x.used = 0 /\ x.max = max
  BY <1>1 DEF Invitation
<1>3. invitations' = Append(invitations, x) /\ UNCHANGED <<now, joins>>
  BY DEF Invite
<1> HIDE DEF x
<1>4. /\ invitations' \in Seq(Invitation) /\ Len(invitations') = n
      /\ \A i \in 1 .. Len(invitations) : invitations'[i] = invitations[i]
      /\ invitations'[n] = x
  BY <1>2, <1>3, AppendProperties DEF InvitationInv
<1>5. DOMAIN invitations = 1 .. Len(invitations) /\ Len(invitations) \in Nat
  BY LenProperties DEF InvitationInv
<1>6. DOMAIN invitations' = DOMAIN invitations \union {n} /\ n \notin DOMAIN invitations
  BY <1>4, <1>5, LenProperties
<1> HIDE DEF n
<1>7. \A i : Through(i)' = Through(i)
  BY <1>3 DEF Through
<1>8. ASSUME NEW i \in DOMAIN invitations PROVE Accounted(i)'
  <2>1. invitations'[i] = invitations[i]
    BY <1>4, <1>5
  <2>2. Accounted(i)
    BY DEF InvitationInv
  <2> QED
    BY <1>3, <1>7, <2>1, <2>2 DEF Accounted
<1>9. ASSUME NEW i, i = n PROVE Accounted(i)'
  <2>1. Through(i)' = {}
    BY <1>6, <1>7, <1>9 DEF InvitationInv, Through
  <2>2. Cardinality({}) = 0 /\ 0 <= max
    BY <1>1, FS_EmptySet
  <2> QED
    BY <1>2, <1>4, <1>9, <2>1, <2>2 DEF Accounted
<1> QED
  BY <1>3, <1>4, <1>6, <1>8, <1>9 DEF InvitationInv

LEMMA RevokeInvitationStep ==
  ASSUME InvitationInv, NEW a, NEW i \in DOMAIN invitations, RevokeInvitation(a, i)
  PROVE  InvitationInv'
<1> DEFINE x == [invitations[i] EXCEPT !.revoked = now]
<1>1. i \in 1 .. Len(invitations) /\ invitations[i] \in Invitation /\ now \in Nat
  BY InvitationFacts DEF InvitationInv
<1>2. /\ x \in Invitation /\ x.revoked = now /\ x.used = invitations[i].used
      /\ x.max = invitations[i].max /\ x.target = invitations[i].target
      /\ x.expires = invitations[i].expires
  BY <1>1 DEF Invitation
<1>3. invitations' = [invitations EXCEPT ![i] = x] /\ UNCHANGED <<now, joins>>
  BY DEF RevokeInvitation
<1> HIDE DEF x
<1>4. /\ invitations' \in Seq(Invitation)
      /\ DOMAIN invitations' = DOMAIN invitations
      /\ \A k \in DOMAIN invitations : invitations'[k] = IF k = i THEN x ELSE invitations[k]
  BY <1>1, <1>2, <1>3, ExceptSeq, LenProperties DEF InvitationInv
<1>5. \A k : Through(k)' = Through(k) /\ Through(k) \subseteq DOMAIN joins
  BY <1>3 DEF Through
<1>6. ASSUME NEW k \in DOMAIN invitations PROVE Accounted(k)'
  <2>1. Accounted(k) /\ \A j \in Through(k) : joins[j].at <= now
    BY <1>5 DEF InvitationInv
  <2>2. CASE k = i
    BY <1>2, <1>3, <1>4, <1>5, <2>1, <2>2 DEF Accounted
  <2>3. CASE k # i
    BY <1>3, <1>4, <1>5, <2>1, <2>3 DEF Accounted
  <2> QED
    BY <2>2, <2>3
<1> QED
  BY <1>3, <1>4, <1>6 DEF InvitationInv

LEMMA AcceptStep ==
  ASSUME InvitationInv, member \in [Accounts -> Statuses],
         NEW a \in Accounts, NEW i \in DOMAIN invitations, Accept(a, i)
  PROVE  InvitationInv'
<1> DEFINE x == [invitations[i] EXCEPT !.used = @ + 1]
           join == [invitation |-> i, account |-> a, at |-> now,
                    before |-> IF Restricted(a) THEN "restricted" ELSE member[a]]
           n == Len(joins) + 1
<1>1. /\ i \in 1 .. Len(invitations) /\ invitations[i] \in Invitation /\ now \in Nat
      /\ invitations[i].used \in Nat /\ invitations[i].max \in Nat
      /\ IsFiniteSet(Through(i)) /\ i \in Nat
  BY InvitationFacts DEF InvitationInv
<1>2. /\ invitations[i].target \in {Anyone, a}
      /\ member[a] \notin {"active", "removed", "suspended"}
      /\ invitations[i].revoked = Never /\ now < invitations[i].expires
      /\ invitations[i].used < invitations[i].max
      /\ ~Restricted(a)
  BY DEF Accept, InvitationUsable
<1>3. /\ x \in Invitation /\ x.used = invitations[i].used + 1
      /\ x.max = invitations[i].max /\ x.target = invitations[i].target
      /\ x.expires = invitations[i].expires /\ x.revoked = invitations[i].revoked
  BY <1>1 DEF Invitation
<1>4. member[a] \in {"none", "invited", "left"}
  BY <1>2 DEF Statuses
<1>5. /\ join \in Join /\ join.invitation = i /\ join.account = a /\ join.at = now
      /\ join.before \in {"none", "invited", "left"}
  BY <1>1, <1>2, <1>4 DEF Join, Statuses
<1>6. /\ invitations' = [invitations EXCEPT ![i] = x]
      /\ joins' = Append(joins, join) /\ now' = now
  BY DEF Accept
<1> HIDE DEF x, join
<1>7. /\ invitations' \in Seq(Invitation)
      /\ DOMAIN invitations' = DOMAIN invitations
      /\ \A k \in DOMAIN invitations : invitations'[k] = IF k = i THEN x ELSE invitations[k]
  BY <1>1, <1>3, <1>6, ExceptSeq, LenProperties DEF InvitationInv
<1>8. /\ joins' \in Seq(Join) /\ Len(joins') = n
      /\ \A j \in 1 .. Len(joins) : joins'[j] = joins[j]
      /\ joins'[n] = join
  BY <1>5, <1>6, AppendProperties DEF InvitationInv
<1>9. DOMAIN joins = 1 .. Len(joins) /\ Len(joins) \in Nat
  BY LenProperties DEF InvitationInv
<1>10. DOMAIN joins' = DOMAIN joins \union {n} /\ n \notin DOMAIN joins
  BY <1>8, <1>9, LenProperties
<1> HIDE DEF n
<1>11. \A j \in DOMAIN joins : joins'[j] = joins[j]
  BY <1>8, <1>9
<1>12. /\ Through(i)' = Through(i) \union {n} /\ n \notin Through(i)
       /\ \A k : k # i => Through(k)' = Through(k)
  BY <1>5, <1>8, <1>10, <1>11 DEF Through
<1>13. Cardinality(Through(i)') = Cardinality(Through(i)) + 1
  BY <1>1, <1>12, FS_AddElement
<1>14. Accounted(i)'
  <2>1. Accounted(i) /\ Through(i) \subseteq DOMAIN joins
    BY DEF InvitationInv, Through
  <2>2. invitations'[i] = x
    BY <1>7
  <2>3. invitations'[i].used = Cardinality(Through(i)')
    BY <1>3, <1>13, <2>1, <2>2 DEF Accounted
  <2>4. invitations'[i].used <= invitations'[i].max
    BY <1>1, <1>2, <1>3, <2>2
  <2>5. now < x.expires /\ now <= x.revoked
    BY <1>2, <1>3, AuthorityAssumption DEF InvitationInv, Never
  <2>6. ASSUME NEW j \in Through(i)'
        PROVE  /\ x.target \in {Anyone, joins'[j].account}
               /\ joins'[j].at < x.expires /\ joins'[j].at <= x.revoked
               /\ joins'[j].before \in {"none", "invited", "left"}
    <3>1. CASE j = n
      BY <1>2, <1>3, <1>5, <1>8, <2>5, <3>1
    <3>2. CASE j \in Through(i)
      BY <1>3, <1>11, <2>1, <3>2 DEF Accounted
    <3> QED
      BY <1>12, <3>1, <3>2
  <2> QED
    BY <2>2, <2>3, <2>4, <2>6 DEF Accounted
<1>15. ASSUME NEW k \in DOMAIN invitations, k # i PROVE Accounted(k)'
  <2>1. Accounted(k) /\ Through(k) \subseteq DOMAIN joins
    BY DEF InvitationInv, Through
  <2> QED
    BY <1>7, <1>11, <1>12, <1>15, <2>1 DEF Accounted
<1>16. \A j \in DOMAIN joins' :
         joins'[j].at <= now' /\ joins'[j].invitation \in DOMAIN invitations'
  BY <1>1, <1>5, <1>6, <1>7, <1>8, <1>10, <1>11 DEF InvitationInv
<1> QED
  BY <1>6, <1>7, <1>8, <1>14, <1>15, <1>16 DEF InvitationInv

LEMMA InvitationStep ==
  ASSUME InvitationInv, member \in [Accounts -> Statuses], InvitationKinds
  PROVE  InvitationInv'
<1>1. CASE UNCHANGED <<now, invitations, joins>>
  BY <1>1 DEF InvitationInv, Accounted, Through
<1>2. CASE Tick
  <2>1. UNCHANGED <<invitations, joins>> /\ now' = now + 1 /\ now < MaxTime
    BY <1>2 DEF Tick
  <2>2. now' \in Nat /\ now' <= MaxTime /\ \A n \in Nat : n <= now => n <= now'
    BY <2>1, AuthorityAssumption DEF InvitationInv
  <2>3. ASSUME NEW j \in DOMAIN joins PROVE joins[j].at \in Nat
    <3>1. joins[j] \in Join
      BY ElementOfSeq, LenProperties DEF InvitationInv
    <3> QED
      BY <3>1 DEF Join
  <2>4. \A i \in DOMAIN invitations : Accounted(i)'
    BY <2>1 DEF InvitationInv, Accounted, Through
  <2> QED
    BY <2>1, <2>2, <2>3, <2>4 DEF InvitationInv
<1> QED
  BY <1>1, <1>2, InviteStep, RevokeInvitationStep, AcceptStep DEF InvitationKinds

--------------------------------------------------------------------------------
(* The whole authority                                                        *)

AuthorityInv ==
  /\ AuditInv
  /\ OwnerInv
  /\ archived \in BOOLEAN
  /\ RestrictionInv
  /\ InvitationInv

LEMMA AuthorityImplied ==
  AuthorityInv => AuthorityTypeOK /\ OwnerActive /\ InvitationAccounted
BY InvitationImplied
   DEF AuthorityInv, AuthorityTypeOK, AuditInv, OwnerInv, RestrictionInv, InvitationInv,
       AppealStatuses

LEMMA AuthorityInit == Init => AuthorityInv
<1> SUFFICES ASSUME Init PROVE AuthorityInv
  OBVIOUS
<1>1. AuditInv
  BY DEF Init, AuditInv, HasLatest
<1>2. OwnerInv
  BY AuthorityAssumption DEF Init, OwnerInv, OwnerActive, Statuses
<1>3. RestrictionInv
  BY EmptySeq DEF Init, RestrictionInv
<1>4. InvitationInv
  <2>1. /\ invitations \in Seq(Invitation) /\ DOMAIN invitations = {}
        /\ joins \in Seq(Join) /\ DOMAIN joins = {}
    BY EmptySeq, LenProperties DEF Init
  <2> QED
    BY <2>1, AuthorityAssumption DEF Init, InvitationInv
<1> QED
  BY <1>1, <1>2, <1>3, <1>4 DEF AuthorityInv, Init

LEMMA AuthorityStep == AuthorityInv /\ [AuthorityNext]_authority => AuthorityInv'
<1> SUFFICES ASSUME AuthorityInv, [AuthorityNext]_authority PROVE AuthorityInv'
  OBVIOUS
<1>1. CASE AuthorityNext
  <2>1. now \in Nat /\ member \in [Accounts -> Statuses]
    BY DEF AuthorityInv, InvitationInv, OwnerInv
  <2>2. AuditKinds /\ MemberKinds /\ RestrictionKinds /\ InvitationKinds /\ ArchiveKinds
    BY <1>1, <2>1, AuthorityKinds DEF Kinds
  <2>3. archived' \in BOOLEAN
    BY <2>2 DEF ArchiveKinds, AuthorityInv
  <2> QED
    BY <2>1, <2>2, <2>3, AuditStep, OwnerStep, RestrictionStep, InvitationStep
       DEF AuthorityInv
<1>2. CASE UNCHANGED authority
  BY <1>2 DEF authority, AuthorityInv, AuditInv, HasLatest, OwnerInv, OwnerActive,
     RestrictionInv, InvitationInv, Accounted, Through
<1> QED
  BY <1>1, <1>2

--------------------------------------------------------------------------------
(* The authority under messages: only ModeratorDelete touches it, by a row of *)
(* the audit chain.                                                           *)

LEMMA MessagesAuthority ==
  MessagesNext =>
    \/ UNCHANGED authority
    \/ /\ Audited
       /\ UNCHANGED <<now, owner, archived, member, restrictions, appeals, invitations,
                      joins>>
<1>1. ASSUME NEW r \in Requests, NEW author \in Accounts, NEW key \in Keys,
             NEW body \in Bodies, StartPost(r, author, key, body)
      PROVE UNCHANGED authority
  BY <1>1 DEF StartPost
<1>2. ASSUME NEW r \in Requests, CommitPost(r) \/ ReplayPost(r) \/ RefusePost(r)
      PROVE UNCHANGED authority
  BY <1>2 DEF CommitPost, ReplayPost, RefusePost
<1>3. ASSUME NEW a \in Accounts, NEW m \in DOMAIN messages, NEW version,
             Delete(a, m, version) \/ \E body \in Bodies : Edit(a, m, version, body)
      PROVE UNCHANGED authority
  BY <1>3 DEF Delete, Edit
<1>4. ASSUME NEW a \in Accounts, NEW slow \in SlowModes, NEW archive \in BOOLEAN,
             UpdateSpace(a, slow, archive)
      PROVE UNCHANGED authority
  BY <1>4 DEF UpdateSpace
<1>5. ASSUME NEW a \in Accounts, NEW m \in DOMAIN messages, NEW version,
             ModeratorDelete(a, m, version)
      PROVE /\ Audited
            /\ UNCHANGED <<now, owner, archived, member, restrictions, appeals,
                           invitations, joins>>
  BY <1>5 DEF ModeratorDelete
<1> QED
  BY <1>1, <1>2, <1>3, <1>4, <1>5 DEF MessagesNext

LEMMA AuthorityUnderMessages == AuthorityInv /\ [Next]_vars => AuthorityInv'
<1> SUFFICES ASSUME AuthorityInv, [Next]_vars PROVE AuthorityInv'
  OBVIOUS
<1>1. CASE [AuthorityNext]_authority
  BY <1>1, AuthorityStep
<1>2. ASSUME Audited,
             UNCHANGED <<now, owner, archived, member, restrictions, appeals, invitations,
                         joins>>
      PROVE AuthorityInv'
  BY <1>2, AuditedStep
     DEF AuthorityInv, OwnerInv, OwnerActive, RestrictionInv, InvitationInv, Accounted,
         Through
<1>3. [AuthorityNext]_authority \/ MessagesNext
  BY DEF Next, vars
<1> QED
  BY <1>1, <1>2, <1>3, MessagesAuthority

\* However members leave, are removed or restricted, and ownership moves, the
\* owner keeps an active membership, which evaluatePermission() asks for first.
THEOREM OwnersStayActive == Spec => []OwnerActive
<1>1. MessagesInit => AuthorityInv
  BY AuthorityInit DEF MessagesInit
<1> QED
  BY <1>1, AuthorityUnderMessages, AuthorityImplied, PTL DEF Spec

\* Invitations activate no more memberships than they allow, and only while they
\* are open and for accounts that may join, however many acceptances race.
THEOREM InvitationsAccounted == Spec => []InvitationAccounted
<1>1. MessagesInit => AuthorityInv
  BY AuthorityInit DEF MessagesInit
<1> QED
  BY <1>1, AuthorityUnderMessages, AuthorityImplied, PTL DEF Spec

--------------------------------------------------------------------------------
(* What steps do to messages                                                  *)

MessagesTypes ==
  /\ now \in Nat
  /\ space.slow \in Nat
  /\ messages \in Seq(Message)
  /\ \A m \in DOMAIN messages : messages[m].bodies # <<>>
  /\ pacing \in [Accounts -> Nat]
  /\ posts \in [Requests -> Post \union {Idle}]

\* What no step changes in a message x that becomes y.
Kept(x, y) ==
  /\ y.author = x.author
  /\ y.key = x.key
  /\ y.at = x.at
  /\ y.pace = x.pace
  /\ y.bodies[1] = x.bodies[1]
  /\ x.deleted => y.deleted /\ y.bodies = x.bodies

HistoryKept ==
  \A m \in DOMAIN messages :
    m \in DOMAIN messages' /\ Kept(messages[m], messages'[m])

LEMMA EditedMessage ==
  ASSUME NEW x \in Message, x.bodies # <<>>, ~x.deleted, NEW body \in Bodies,
         NEW y, y = [x EXCEPT !.bodies = Append(@, body)]
  PROVE  /\ y \in Message
         /\ y.bodies # <<>>
         /\ Kept(x, y)
<1>1. x.bodies \in Seq(Bodies)
  BY DEF Message
<1>2. /\ Append(x.bodies, body) \in Seq(Bodies)
      /\ Append(x.bodies, body) # <<>>
      /\ Append(x.bodies, body)[1] = x.bodies[1]
  BY <1>1, AppendProperties, EmptySeq
<1>3. y.bodies = Append(x.bodies, body)
  BY DEF Message
<1> QED
  BY <1>2, <1>3 DEF Message, Kept

LEMMA DeletedMessage ==
  ASSUME NEW x \in Message, x.bodies # <<>>,
         NEW y, y = [x EXCEPT !.deleted = TRUE]
  PROVE  /\ y \in Message
         /\ y.bodies = x.bodies
         /\ y.deleted
         /\ Kept(x, y)
BY DEF Message, Kept

\* A change of one message
LEMMA Changed ==
  ASSUME MessagesTypes, NEW m \in DOMAIN messages, NEW x \in Message,
         x.bodies # <<>>, Kept(messages[m], x),
         messages' = [messages EXCEPT ![m] = x]
  PROVE  /\ messages' \in Seq(Message)
         /\ DOMAIN messages' = DOMAIN messages
         /\ messages'[m] = x
         /\ \A n \in DOMAIN messages : n # m => messages'[n] = messages[n]
         /\ \A n \in DOMAIN messages' : messages'[n].bodies # <<>>
         /\ HistoryKept
<1>1. DOMAIN messages = 1 .. Len(messages)
  BY LenProperties DEF MessagesTypes
<1>2. messages' \in Seq(Message) /\ DOMAIN messages' = DOMAIN messages
  BY <1>1, ExceptSeq, LenProperties DEF MessagesTypes
<1>3. messages'[m] = x /\ \A n \in DOMAIN messages : n # m => messages'[n] = messages[n]
  BY <1>1, ExceptSeq DEF MessagesTypes
<1>4. \A n \in DOMAIN messages : Kept(messages[n], messages[n])
  BY DEF Kept
<1> QED
  BY <1>2, <1>3, <1>4 DEF MessagesTypes, HistoryKept

LEMMA EditStep ==
  ASSUME MessagesTypes, NEW a \in Accounts, NEW m \in DOMAIN messages,
         NEW version, NEW body \in Bodies, Edit(a, m, version, body)
  PROVE  /\ messages' \in Seq(Message)
         /\ DOMAIN messages' = DOMAIN messages
         /\ \A n \in DOMAIN messages' : messages'[n].bodies # <<>>
         /\ HistoryKept
<1> DEFINE x == messages[m]
           y == [x EXCEPT !.bodies = Append(@, body)]
<1>1. x \in Message /\ x.bodies # <<>> /\ ~x.deleted
  BY ElementOfSeq, LenProperties DEF MessagesTypes, Edit
<1>2. y \in Message /\ y.bodies # <<>> /\ Kept(x, y)
  BY <1>1, EditedMessage
<1>3. messages' = [messages EXCEPT ![m] = y]
  BY DEF Edit
<1> HIDE DEF x, y
<1>4. Kept(messages[m], y)
  BY <1>2 DEF x
<1> QED
  BY <1>2, <1>3, <1>4, Changed

LEMMA TombstoneStep ==
  ASSUME MessagesTypes, NEW m \in DOMAIN messages, messages' = Tombstone(m)
  PROVE  /\ messages' \in Seq(Message)
         /\ DOMAIN messages' = DOMAIN messages
         /\ \A n \in DOMAIN messages' : messages'[n].bodies # <<>>
         /\ HistoryKept
         /\ messages'[m].deleted /\ messages'[m].bodies = messages[m].bodies
         /\ \A n \in DOMAIN messages : n # m => messages'[n] = messages[n]
<1> DEFINE x == messages[m]
           y == [x EXCEPT !.deleted = TRUE]
<1>1. x \in Message /\ x.bodies # <<>>
  BY ElementOfSeq, LenProperties DEF MessagesTypes
<1>2. y \in Message /\ y.bodies = x.bodies /\ y.deleted /\ Kept(x, y)
  BY <1>1, DeletedMessage
<1>3. messages' = [messages EXCEPT ![m] = y]
  BY DEF Tombstone
<1> HIDE DEF x, y
<1>4. Kept(messages[m], y) /\ y.bodies = messages[m].bodies /\ y.bodies # <<>>
  BY <1>1, <1>2 DEF x
<1> QED
  BY <1>2, <1>3, <1>4, Changed

\* The message that CommitPost(r) appends
Posted(r) ==
  [author |-> posts[r].author, key |-> posts[r].key, bodies |-> <<posts[r].body>>,
   deleted |-> FALSE, at |-> now,
   pace |-> IF Paced(posts[r].author) THEN space.slow ELSE 0]

LEMMA PostType ==
  ASSUME MessagesTypes, NEW r \in Requests, posts[r].pc = "commit"
  PROVE  /\ posts[r].author \in Accounts /\ posts[r].key \in Keys
         /\ posts[r].body \in Bodies
         /\ Posted(r) \in Message /\ Posted(r).bodies # <<>>
         /\ Posted(r).bodies[1] = posts[r].body
<1>1. posts[r] \in Post
  BY DEF MessagesTypes, Idle
<1>2. posts[r].author \in Accounts /\ posts[r].key \in Keys /\ posts[r].body \in Bodies
  BY <1>1 DEF Post
<1>3. (IF Paced(posts[r].author) THEN space.slow ELSE 0) \in Nat
  BY DEF MessagesTypes
<1>4. <<posts[r].body>> \in Seq(Bodies)
  BY <1>2
<1> QED
  BY <1>2, <1>3, <1>4 DEF Posted, Message, MessagesTypes

LEMMA CommitStep ==
  ASSUME MessagesTypes, NEW r \in Requests, CommitPost(r)
  PROVE  /\ messages' \in Seq(Message)
         /\ Len(messages) + 1 \notin DOMAIN messages
         /\ DOMAIN messages' = DOMAIN messages \union {Len(messages) + 1}
         /\ messages'[Len(messages) + 1] = Posted(r)
         /\ \A n \in DOMAIN messages : messages'[n] = messages[n] /\ n < Len(messages) + 1
         /\ \A n \in DOMAIN messages' : messages'[n].bodies # <<>>
         /\ HistoryKept
<1>1. messages' = Append(messages, Posted(r)) /\ posts[r].pc = "commit"
  BY DEF CommitPost, Posted
<1>2. Posted(r) \in Message /\ Posted(r).bodies # <<>>
  BY <1>1, PostType
<1>3. Len(messages) \in Nat /\ DOMAIN messages = 1 .. Len(messages)
  BY LenProperties DEF MessagesTypes
<1>4. /\ messages' \in Seq(Message)
      /\ Len(messages') = Len(messages) + 1
      /\ \A n \in 1 .. Len(messages) : messages'[n] = messages[n]
      /\ messages'[Len(messages) + 1] = Posted(r)
  BY <1>1, <1>2, AppendProperties DEF MessagesTypes
<1>5. DOMAIN messages' = 1 .. Len(messages')
  BY <1>4, LenProperties
<1>6. /\ Len(messages) + 1 \notin DOMAIN messages
      /\ DOMAIN messages' = DOMAIN messages \union {Len(messages) + 1}
      /\ \A n \in DOMAIN messages : n < Len(messages) + 1
  BY <1>3, <1>4, <1>5
<1>7. \A n \in DOMAIN messages : messages'[n] = messages[n]
  BY <1>3, <1>4
<1>8. \A n \in DOMAIN messages : Kept(messages[n], messages[n])
  BY DEF Kept
<1>9. HistoryKept
  BY <1>6, <1>7, <1>8 DEF HistoryKept
<1>10. \A n \in DOMAIN messages' : messages'[n].bodies # <<>>
  BY <1>2, <1>4, <1>6, <1>7 DEF MessagesTypes
<1> QED
  BY <1>4, <1>6, <1>7, <1>9, <1>10

LEMMA StutterKept == MessagesTypes /\ UNCHANGED messages => HistoryKept
<1> SUFFICES ASSUME MessagesTypes, UNCHANGED messages PROVE HistoryKept
  OBVIOUS
<1>1. \A n \in DOMAIN messages : Kept(messages[n], messages[n])
  BY DEF Kept
<1> QED
  BY <1>1 DEF HistoryKept

LEMMA AuthorityClock == MessagesTypes /\ AuthorityNext => now' \in Nat
<1> SUFFICES ASSUME MessagesTypes, AuthorityNext PROVE now' \in Nat
  OBVIOUS
<1>1. InvitationKinds /\ now \in Nat
  BY AuthorityKinds DEF MessagesTypes, Kinds
<1>2. Tick => now' \in Nat
  BY <1>1 DEF Tick
<1>3. \A a, target, duration, max : Invite(a, target, duration, max) => now' = now
  BY DEF Invite
<1>4. \A a, i : RevokeInvitation(a, i) \/ Accept(a, i) => now' = now
  BY DEF RevokeInvitation, Accept
<1> QED
  BY <1>1, <1>2, <1>3, <1>4 DEF InvitationKinds

\* Steps other than CommitPost neither add messages nor consume intervals.
Settled ==
  /\ DOMAIN messages' = DOMAIN messages
  /\ pacing' = pacing
  /\ HistoryKept

LEMMA StepKinds ==
  ASSUME MessagesTypes, [Next]_vars
  PROVE  Settled \/ \E r \in Requests : CommitPost(r)
<1>1. ASSUME UNCHANGED <<messages, pacing>> PROVE Settled
  BY <1>1, StutterKept DEF Settled
<1>2. ASSUME NEW r \in Requests,
             \/ \E author \in Accounts, key \in Keys, body \in Bodies :
                  StartPost(r, author, key, body)
             \/ ReplayPost(r) \/ RefusePost(r)
      PROVE  UNCHANGED <<messages, pacing>>
  BY <1>2 DEF StartPost, ReplayPost, RefusePost
<1>3. ASSUME NEW a \in Accounts, NEW m \in DOMAIN messages, NEW version,
             NEW body \in Bodies, Edit(a, m, version, body)
      PROVE  Settled
  <2>1. UNCHANGED pacing
    BY <1>3 DEF Edit
  <2> QED
    BY <1>3, <2>1, EditStep DEF Settled
<1>4. ASSUME NEW a \in Accounts, NEW m \in DOMAIN messages, NEW version,
             Delete(a, m, version) \/ ModeratorDelete(a, m, version)
      PROVE  Settled
  <2>1. UNCHANGED pacing /\ messages' = Tombstone(m)
    BY <1>4 DEF Delete, ModeratorDelete
  <2> QED
    BY <2>1, TombstoneStep DEF Settled
<1>5. ASSUME NEW a \in Accounts, NEW slow \in SlowModes, NEW archive \in BOOLEAN,
             UpdateSpace(a, slow, archive)
      PROVE  UNCHANGED <<messages, pacing>>
  BY <1>5 DEF UpdateSpace
<1>6. CASE MessagesNext
  BY <1>1, <1>2, <1>3, <1>4, <1>5, <1>6 DEF MessagesNext
<1>7. CASE AuthorityNext /\ UNCHANGED content
  BY <1>1, <1>7 DEF content
<1>8. CASE UNCHANGED vars
  BY <1>1, <1>8 DEF vars, content
<1> QED
  BY <1>6, <1>7, <1>8 DEF Next

LEMMA HistoryStep == ASSUME MessagesTypes, [Next]_vars PROVE HistoryKept
BY StepKinds, CommitStep DEF Settled

LEMMA MessagesTypesInit == MessagesInit => MessagesTypes
<1> SUFFICES ASSUME MessagesInit PROVE MessagesTypes
  OBVIOUS
<1>1. messages \in Seq(Message) /\ DOMAIN messages = {}
  BY EmptySeq, LenProperties DEF MessagesInit
<1> QED
  BY <1>1 DEF MessagesTypes, MessagesInit, Init

LEMMA MessagesTypesStep == MessagesTypes /\ [Next]_vars => MessagesTypes'
<1> SUFFICES ASSUME MessagesTypes, [Next]_vars PROVE MessagesTypes'
  OBVIOUS
<1>1. ASSUME UNCHANGED <<space, messages, pacing, posts>>, now' \in Nat
      PROVE MessagesTypes'
  BY <1>1 DEF MessagesTypes
<1>2. ASSUME UNCHANGED <<space, pacing, posts, now>>, messages' \in Seq(Message),
             \A n \in DOMAIN messages' : messages'[n].bodies # <<>>
      PROVE MessagesTypes'
  BY <1>2 DEF MessagesTypes
<1>3. ASSUME NEW r \in Requests, EndPost(r)
      PROVE posts' \in [Requests -> Post \union {Idle}]
  BY <1>3 DEF EndPost, MessagesTypes
<1>4. ASSUME NEW r \in Requests, NEW author \in Accounts, NEW key \in Keys,
             NEW body \in Bodies, StartPost(r, author, key, body)
      PROVE MessagesTypes'
  <2>1. [pc |-> "commit", author |-> author, key |-> key, body |-> body] \in Post
    BY DEF Post
  <2>2. posts' \in [Requests -> Post \union {Idle}]
    BY <1>4, <2>1 DEF StartPost, MessagesTypes
  <2>3. UNCHANGED <<space, messages, pacing, now>>
    BY <1>4 DEF StartPost, authority
  <2> QED
    BY <2>2, <2>3 DEF MessagesTypes
<1>5. ASSUME NEW r \in Requests, CommitPost(r) PROVE MessagesTypes'
  <2>1. posts' \in [Requests -> Post \union {Idle}]
    BY <1>3, <1>5 DEF CommitPost
  <2>2. pacing' \in [Accounts -> Nat]
    BY <1>5 DEF CommitPost, Consume, MessagesTypes
  <2>3. UNCHANGED <<space, now>>
    BY <1>5 DEF CommitPost, authority
  <2> QED
    BY <1>5, <2>1, <2>2, <2>3, CommitStep DEF MessagesTypes
<1>6. ASSUME NEW r \in Requests, ReplayPost(r) \/ RefusePost(r) PROVE MessagesTypes'
  <2>1. EndPost(r) /\ UNCHANGED <<space, messages, pacing, now>>
    BY <1>6 DEF ReplayPost, RefusePost, authority
  <2> QED
    BY <1>3, <2>1 DEF MessagesTypes
<1>7. ASSUME NEW a \in Accounts, NEW m \in DOMAIN messages, NEW version,
             NEW body \in Bodies, Edit(a, m, version, body)
      PROVE MessagesTypes'
  <2>1. UNCHANGED <<space, pacing, posts, now>>
    BY <1>7 DEF Edit, authority
  <2> QED
    BY <1>2, <1>7, <2>1, EditStep
<1>8. ASSUME NEW a \in Accounts, NEW m \in DOMAIN messages, NEW version,
             Delete(a, m, version) \/ ModeratorDelete(a, m, version)
      PROVE MessagesTypes'
  <2>1. messages' = Tombstone(m) /\ UNCHANGED <<space, pacing, posts, now>>
    BY <1>8 DEF Delete, ModeratorDelete, authority
  <2> QED
    BY <1>2, <2>1, TombstoneStep
<1>9. ASSUME NEW a \in Accounts, NEW slow \in SlowModes, NEW archive \in BOOLEAN,
             UpdateSpace(a, slow, archive)
      PROVE MessagesTypes'
  <2>1. space'.slow \in Nat /\ UNCHANGED <<messages, pacing, posts, now>>
    BY <1>9, MessagesAssumption DEF UpdateSpace, authority
  <2> QED
    BY <2>1 DEF MessagesTypes
<1>10. CASE MessagesNext
  BY <1>4, <1>5, <1>6, <1>7, <1>8, <1>9, <1>10 DEF MessagesNext
<1>11. CASE AuthorityNext /\ UNCHANGED content
  BY <1>1, <1>11, AuthorityClock DEF content
<1>12. CASE UNCHANGED vars
  BY <1>1, <1>12 DEF vars, content, authority, MessagesTypes
<1> QED
  BY <1>10, <1>11, <1>12 DEF Next

--------------------------------------------------------------------------------
(* Slow mode                                                                  *)

\* next_allowed_at of an author is past the interval of every paced message.
NextAllowed ==
  \A m \in DOMAIN messages :
    messages[m].pace > 0 =>
      messages[m].at + messages[m].pace <= pacing[messages[m].author]

LEMMA MessageNumbers ==
  ASSUME MessagesTypes, NEW m \in DOMAIN messages
  PROVE  /\ messages[m].author \in Accounts
         /\ messages[m].at \in Nat /\ messages[m].pace \in Nat
         /\ pacing[messages[m].author] \in Nat
<1>1. messages[m] \in Message
  BY ElementOfSeq, LenProperties DEF MessagesTypes
<1> QED
  BY <1>1 DEF Message, MessagesTypes

PacedInv == MessagesTypes /\ NextAllowed /\ PacedApart

LEMMA PacedStep == PacedInv /\ [Next]_vars => PacedInv'
<1> SUFFICES ASSUME PacedInv, [Next]_vars PROVE PacedInv'
  OBVIOUS
<1>1. MessagesTypes /\ MessagesTypes'
  BY MessagesTypesStep DEF PacedInv
<1>2. CASE Settled
  BY <1>1, <1>2 DEF PacedInv, Settled, HistoryKept, Kept, NextAllowed, PacedApart
<1>3. ASSUME NEW r \in Requests, CommitPost(r) PROVE (NextAllowed /\ PacedApart)'
  <2> DEFINE n == Len(messages) + 1
             author == posts[r].author
  <2>1. /\ DOMAIN messages' = DOMAIN messages \union {n}
        /\ messages'[n] = Posted(r)
        /\ \A m \in DOMAIN messages : messages'[m] = messages[m] /\ m < n
        /\ n \notin DOMAIN messages
    BY <1>1, <1>3, CommitStep
  <2>2. Consume(author) /\ author \in Accounts
    BY <1>1, <1>3, PostType DEF CommitPost
  <2>3. /\ messages'[n].author = author /\ messages'[n].at = now
        /\ messages'[n].pace = IF Paced(author) THEN space.slow ELSE 0
    BY <2>1 DEF Posted
  <2>4. pacing[author] \in Nat /\ now \in Nat /\ space.slow \in Nat
    BY <1>1, <2>2 DEF MessagesTypes
  <2>5. \A a \in Accounts : a # author => pacing'[a] = pacing[a]
    BY <1>1, <2>2 DEF Consume, MessagesTypes
  <2>6. CASE Paced(author)
    <3>1. pacing[author] <= now /\ pacing'[author] = now + space.slow
      BY <1>1, <2>2, <2>6 DEF Consume, MessagesTypes
    <3>2. messages'[n].pace = space.slow
      BY <2>3, <2>6
    <3> HIDE DEF n, author
    <3>3. ASSUME NEW m \in DOMAIN messages, messages[m].pace > 0,
                 messages[m].author = author
          PROVE  /\ messages[m].at + messages[m].pace <= now
                 /\ messages[m].at + messages[m].pace <= pacing'[author]
      <4>1. messages[m].at + messages[m].pace <= pacing[author]
        BY <3>3 DEF PacedInv, NextAllowed
      <4> QED
        BY <1>1, <2>4, <3>1, <3>3, <4>1, MessageNumbers
    <3>4. NextAllowed'
      <4> SUFFICES ASSUME NEW m \in DOMAIN messages', messages'[m].pace > 0
                   PROVE  messages'[m].at + messages'[m].pace
                            <= pacing'[messages'[m].author]
        BY DEF NextAllowed
      <4>1. CASE m = n
        BY <2>3, <2>4, <3>1, <3>2, <4>1
      <4>2. CASE m \in DOMAIN messages /\ messages[m].author = author
        BY <2>1, <3>3, <4>2
      <4>3. CASE m \in DOMAIN messages /\ messages[m].author # author
        BY <1>1, <2>1, <2>5, <4>3, MessageNumbers DEF PacedInv, NextAllowed
      <4> QED
        BY <2>1, <4>1, <4>2, <4>3
    <3>5. PacedApart'
      <4> SUFFICES ASSUME NEW k \in DOMAIN messages', NEW m \in DOMAIN messages',
                          k < m, messages'[k].author = messages'[m].author,
                          messages'[k].pace > 0, messages'[m].pace > 0
                   PROVE  messages'[m].at >= messages'[k].at + messages'[k].pace
        BY DEF PacedApart
      <4>1. DOMAIN messages \subseteq Nat /\ n \in Nat
        BY <1>1, LenProperties DEF MessagesTypes, n
      <4>2. k \in DOMAIN messages
        BY <2>1, <4>1
      <4>3. CASE m = n
        BY <1>1, <2>1, <2>3, <2>4, <3>3, <4>2, <4>3, MessageNumbers
      <4>4. CASE m \in DOMAIN messages
        BY <2>1, <4>2, <4>4 DEF PacedInv, PacedApart
      <4> QED
        BY <2>1, <4>3, <4>4
    <3> QED
      BY <3>4, <3>5
  <2>7. CASE ~Paced(author)
    <3>1. pacing' = pacing /\ messages'[n].pace = 0
      BY <2>2, <2>3, <2>7 DEF Consume
    <3> HIDE DEF n, author
    <3>2. \A m \in DOMAIN messages' : messages'[m].pace > 0 =>
            m \in DOMAIN messages /\ messages'[m] = messages[m]
      BY <2>1, <3>1
    <3> QED
      BY <3>1, <3>2 DEF PacedInv, NextAllowed, PacedApart
  <2> QED
    BY <2>6, <2>7
<1> QED
  BY <1>1, <1>2, <1>3, StepKinds DEF PacedInv

\* For any interval, and however slow mode and the owner change while requests
\* are under way, paced messages of an author keep their distance.
THEOREM SlowModeKept == Spec => []PacedApart
<1>1. MessagesInit => PacedInv
  <2> SUFFICES ASSUME MessagesInit PROVE PacedInv
    OBVIOUS
  <2>1. MessagesTypes /\ DOMAIN messages = {}
    BY MessagesTypesInit, LenProperties, EmptySeq DEF MessagesInit, MessagesTypes
  <2> QED
    BY <2>1 DEF PacedInv, NextAllowed, PacedApart
<1>2. PacedInv => PacedApart
  BY DEF PacedInv
<1> QED
  BY <1>1, <1>2, PacedStep, PTL DEF Spec

--------------------------------------------------------------------------------
(* Idempotency                                                                *)

OneMessagePerKey ==
  \A m, n \in DOMAIN messages :
    messages[m].author = messages[n].author /\ messages[m].key = messages[n].key
      => m = n

Names(x) ==
  /\ x.message \in DOMAIN messages
  /\ messages[x.message].author = x.author
  /\ messages[x.message].key = x.key
  /\ messages[x.message].bodies[1] = x.body

RetryInv ==
  /\ MessagesTypes
  /\ OneMessagePerKey
  /\ answers \subseteq Answer
  /\ \A x \in answers : Names(x)

LEMMA SameAnswer ==
  ASSUME NEW x \in Answer, NEW y \in Answer, x.author = y.author, x.key = y.key,
         x.body = y.body, x.message = y.message
  PROVE  x = y
BY DEF Answer

LEMMA RetryImplied == RetryInv => RetryAnswersSame
<1> SUFFICES ASSUME RetryInv, NEW x \in answers
             PROVE  /\ x.message \in DOMAIN messages
                    /\ messages[x.message].author = x.author
                    /\ messages[x.message].bodies[1] = x.body
                    /\ \A y \in answers : x.author = y.author /\ x.key = y.key => x = y
  BY DEF RetryAnswersSame
<1>1. Names(x)
  BY DEF RetryInv
<1>2. ASSUME NEW y \in answers, x.author = y.author, x.key = y.key PROVE x = y
  <2>1. Names(y)
    BY DEF RetryInv
  <2>2. x.message = y.message /\ x.body = y.body
    BY <1>1, <1>2, <2>1 DEF Names, RetryInv, OneMessagePerKey
  <2> QED
    BY <1>2, <2>2, SameAnswer DEF RetryInv
<1> QED
  BY <1>1, <1>2 DEF Names

\* The answer to a post names a message of the next state.
LEMMA NewAnswer ==
  ASSUME RetryInv, \A x \in answers : Names(x)',
         NEW author \in Accounts, NEW key \in Keys, NEW body \in Bodies, NEW m \in Nat,
         Answered(author, key, body, m),
         m \in DOMAIN messages', messages'[m].author = author, messages'[m].key = key,
         messages'[m].bodies[1] = body
  PROVE  answers' \subseteq Answer /\ \A x \in answers' : Names(x)'
<1> DEFINE a == [author |-> author, key |-> key, body |-> body, message |-> m]
<1>1. a \in Answer
  BY DEF Answer
<1>2. answers' = answers \union {a}
  BY DEF Answered
<1>3. Names(a)'
  BY DEF Names
<1> HIDE DEF a
<1> QED
  BY <1>1, <1>2, <1>3 DEF RetryInv

\* ... which is found under the key and compared with the request, or appended.
LEMMA FoundAnswer ==
  ASSUME RetryInv, NEW author \in Accounts, NEW key \in Keys, NEW body \in Bodies,
         NEW m \in Earlier(author, key), SameRequest(m, body),
         Answered(author, key, body, m), UNCHANGED messages
  PROVE  answers' \subseteq Answer /\ \A x \in answers' : Names(x)'
<1>1. m \in DOMAIN messages /\ messages[m].author = author /\ messages[m].key = key
  BY DEF Earlier
<1>2. m \in Nat
  BY <1>1, LenProperties DEF RetryInv, MessagesTypes
<1>3. \A x \in answers : Names(x)'
  BY DEF Names, RetryInv
<1> QED
  BY <1>1, <1>2, <1>3, NewAnswer DEF SameRequest

LEMMA RetryStep == RetryInv /\ [Next]_vars => RetryInv'
<1> SUFFICES ASSUME RetryInv, [Next]_vars PROVE RetryInv'
  OBVIOUS
<1>1. MessagesTypes /\ MessagesTypes' /\ HistoryKept
  BY MessagesTypesStep, HistoryStep DEF RetryInv
<1>2. \A x \in answers : Names(x)'
  BY <1>1 DEF RetryInv, Names, HistoryKept, Kept
<1>3. Settled => OneMessagePerKey'
  BY DEF Settled, RetryInv, OneMessagePerKey, HistoryKept, Kept
<1>4. ASSUME UNCHANGED answers, Settled PROVE RetryInv'
  BY <1>1, <1>2, <1>3, <1>4 DEF RetryInv
<1>5. UNCHANGED <<messages, pacing>> => Settled
  BY <1>1, StutterKept DEF Settled
<1>6. ASSUME NEW r \in Requests, NEW author \in Accounts, NEW key \in Keys,
             NEW body \in Bodies, StartPost(r, author, key, body)
      PROVE RetryInv'
  <2>1. UNCHANGED <<messages, pacing>>
    BY <1>6 DEF StartPost
  <2>2. CASE UNCHANGED answers
    BY <1>4, <1>5, <2>1, <2>2
  <2>3. ASSUME NEW m \in Earlier(author, key), SameRequest(m, body),
               Answered(author, key, body, m)
        PROVE RetryInv'
    <3>1. answers' \subseteq Answer /\ \A x \in answers' : Names(x)'
      BY <2>1, <2>3, FoundAnswer
    <3> QED
      BY <1>1, <1>3, <1>5, <2>1, <3>1 DEF RetryInv
  <2> QED
    BY <1>6, <2>2, <2>3 DEF StartPost
<1>7. ASSUME NEW r \in Requests, ReplayPost(r) PROVE RetryInv'
  <2>1. UNCHANGED <<messages, pacing>> /\ posts[r].pc = "commit"
    BY <1>7 DEF ReplayPost
  <2>2. PICK author \in Accounts, key \in Keys, body \in Bodies :
          author = posts[r].author /\ key = posts[r].key /\ body = posts[r].body
    BY <1>1, <2>1, PostType
  <2>3. PICK m \in Earlier(author, key) :
          SameRequest(m, body) /\ Answered(author, key, body, m)
    BY <1>7, <2>2 DEF ReplayPost
  <2>4. answers' \subseteq Answer /\ \A x \in answers' : Names(x)'
    BY <2>1, <2>3, FoundAnswer
  <2> QED
    BY <1>1, <1>3, <1>5, <2>1, <2>4 DEF RetryInv
<1>8. ASSUME NEW r \in Requests, CommitPost(r) PROVE RetryInv'
  <2>1. posts[r].pc = "commit" /\ Earlier(posts[r].author, posts[r].key) = {}
    BY <1>8 DEF CommitPost
  <2>2. PICK author \in Accounts, key \in Keys, body \in Bodies :
          author = posts[r].author /\ key = posts[r].key /\ body = posts[r].body
    BY <1>1, <2>1, PostType
  <2>3. Len(messages) + 1 \in Nat
    BY <1>1, LenProperties DEF MessagesTypes
  <2>4. PICK n \in Nat : n = Len(messages) + 1
    BY <2>3
  <2>5. /\ DOMAIN messages' = DOMAIN messages \union {n}
        /\ messages'[n] = Posted(r)
        /\ \A m \in DOMAIN messages : messages'[m] = messages[m]
    BY <1>1, <1>8, <2>4, CommitStep
  <2>6. messages'[n].author = author /\ messages'[n].key = key
    BY <2>2, <2>5 DEF Posted
  <2>7. messages'[n].bodies[1] = body
    BY <1>1, <2>1, <2>2, <2>5, PostType
  <2>8. Answered(author, key, body, n)
    BY <1>8, <2>2, <2>4 DEF CommitPost
  <2>9. answers' \subseteq Answer /\ \A x \in answers' : Names(x)'
    BY <1>2, <2>5, <2>6, <2>7, <2>8, NewAnswer
  <2>10. OneMessagePerKey'
    BY <2>1, <2>2, <2>5, <2>6 DEF RetryInv, OneMessagePerKey, Earlier
  <2> QED
    BY <1>1, <2>9, <2>10 DEF RetryInv
<1>9. ASSUME NEW r \in Requests, RefusePost(r) PROVE UNCHANGED answers
  BY <1>9 DEF RefusePost
<1>10. ASSUME NEW a \in Accounts, NEW m \in DOMAIN messages, NEW version,
              \/ \E body \in Bodies : Edit(a, m, version, body)
              \/ Delete(a, m, version) \/ ModeratorDelete(a, m, version)
       PROVE UNCHANGED answers
  BY <1>10 DEF Edit, Delete, ModeratorDelete
<1>11. ASSUME NEW a \in Accounts, NEW slow \in SlowModes, NEW archive \in BOOLEAN,
              UpdateSpace(a, slow, archive)
       PROVE UNCHANGED answers
  BY <1>11 DEF UpdateSpace
<1>12. UNCHANGED answers => Settled \/ \E r \in Requests : CommitPost(r)
  BY <1>1, StepKinds
<1>13. CASE UNCHANGED answers
  BY <1>4, <1>8, <1>12, <1>13
<1>14. CASE MessagesNext
  BY <1>6, <1>7, <1>8, <1>9, <1>10, <1>11, <1>13, <1>14 DEF MessagesNext
<1>15. CASE (AuthorityNext /\ UNCHANGED content) \/ UNCHANGED vars
  BY <1>13, <1>15 DEF content, vars
<1> QED
  BY <1>14, <1>15 DEF Next

\* Any number of racing repeats of a post get one message, and another body
\* under the same key gets none.
THEOREM RetriesAnswerSame == Spec => []RetryAnswersSame
<1>1. MessagesInit => RetryInv
  <2> SUFFICES ASSUME MessagesInit PROVE RetryInv
    OBVIOUS
  <2>1. MessagesTypes /\ DOMAIN messages = {} /\ answers = {}
    BY MessagesTypesInit, LenProperties, EmptySeq DEF MessagesInit, MessagesTypes
  <2> QED
    BY <2>1 DEF RetryInv, OneMessagePerKey
<1> QED
  BY <1>1, RetryImplied, RetryStep, PTL DEF Spec

--------------------------------------------------------------------------------
(* Evidence                                                                   *)

EvidenceInv ==
  /\ MessagesTypes
  /\ \A d \in deletions : d.message \in DOMAIN messages
  /\ EvidenceKept

LEMMA EvidenceStep == EvidenceInv /\ [Next]_vars => EvidenceInv'
<1> SUFFICES ASSUME EvidenceInv, [Next]_vars PROVE EvidenceInv'
  OBVIOUS
<1>1. MessagesTypes /\ MessagesTypes' /\ HistoryKept
  BY MessagesTypesStep, HistoryStep DEF EvidenceInv
<1>2. ASSUME NEW d \in deletions
      PROVE  /\ d.message \in DOMAIN messages'
             /\ messages'[d.message].deleted
             /\ d.version = Version(d.message)'
             /\ d.evidence = messages'[d.message].bodies[d.version]
  <2>1. /\ d.message \in DOMAIN messages /\ messages[d.message].deleted
        /\ d.version = Len(messages[d.message].bodies)
        /\ d.evidence = messages[d.message].bodies[d.version]
    BY DEF EvidenceInv, EvidenceKept, Version
  <2>2. /\ d.message \in DOMAIN messages' /\ messages'[d.message].deleted
        /\ messages'[d.message].bodies = messages[d.message].bodies
    BY <1>1, <2>1 DEF HistoryKept, Kept
  <2> QED
    BY <2>1, <2>2 DEF Version
<1>3. CASE UNCHANGED deletions
  BY <1>1, <1>2, <1>3 DEF EvidenceInv, EvidenceKept
<1>4. ASSUME NEW a \in Accounts, NEW m \in DOMAIN messages, NEW version,
             ModeratorDelete(a, m, version)
      PROVE EvidenceInv'
  <2> DEFINE d == [message |-> m, actor |-> a, version |-> version,
                   evidence |-> messages[m].bodies[Version(m)]]
  <2>1. /\ ~messages[m].deleted /\ version = Version(m)
        /\ messages' = Tombstone(m) /\ deletions' = deletions \union {d}
    BY <1>4 DEF ModeratorDelete
  <2>2. /\ messages'[m].deleted /\ messages'[m].bodies = messages[m].bodies
        /\ DOMAIN messages' = DOMAIN messages
    BY <1>1, <2>1, TombstoneStep
  <2>3. \A e \in deletions : e.message # m
    BY <2>1 DEF EvidenceInv, EvidenceKept
  <2>4. /\ d.message = m /\ d.version = Version(m)'
        /\ d.evidence = messages'[m].bodies[d.version]
    BY <2>1, <2>2 DEF Version
  <2> HIDE DEF d
  <2> QED
    BY <1>1, <1>2, <2>1, <2>2, <2>3, <2>4 DEF EvidenceInv, EvidenceKept
<1>5. ASSUME NEW r \in Requests,
             \/ \E author \in Accounts, key \in Keys, body \in Bodies :
                  StartPost(r, author, key, body)
             \/ CommitPost(r) \/ ReplayPost(r) \/ RefusePost(r)
      PROVE UNCHANGED deletions
  BY <1>5 DEF StartPost, CommitPost, ReplayPost, RefusePost
<1>6. ASSUME NEW a \in Accounts, NEW m \in DOMAIN messages, NEW version,
             Delete(a, m, version) \/ \E body \in Bodies : Edit(a, m, version, body)
      PROVE UNCHANGED deletions
  BY <1>6 DEF Delete, Edit
<1>7. ASSUME NEW a \in Accounts, NEW slow \in SlowModes, NEW archive \in BOOLEAN,
             UpdateSpace(a, slow, archive)
      PROVE UNCHANGED deletions
  BY <1>7 DEF UpdateSpace
<1>8. CASE MessagesNext
  BY <1>3, <1>4, <1>5, <1>6, <1>7, <1>8 DEF MessagesNext
<1>9. CASE (AuthorityNext /\ UNCHANGED content) \/ UNCHANGED vars
  BY <1>3, <1>9 DEF content, vars
<1> QED
  BY <1>8, <1>9 DEF Next

\* What moderators deleted stays as they saw it, whoever edits and deletes.
THEOREM EvidenceStays == Spec => []EvidenceKept
<1>1. MessagesInit => EvidenceInv
  BY MessagesTypesInit DEF MessagesInit, EvidenceInv, EvidenceKept
<1>2. EvidenceInv => EvidenceKept
  BY DEF EvidenceInv
<1> QED
  BY <1>1, <1>2, EvidenceStep, PTL DEF Spec

--------------------------------------------------------------------------------
(* Types                                                                      *)

ContentTypes ==
  /\ MessagesTypes
  /\ space \in [archived : BOOLEAN, slow : SlowModes \union {0}]
  /\ deletions \in SUBSET Deletion

LEMMA DeletionType ==
  ASSUME MessagesTypes, NEW a \in Accounts, NEW m \in DOMAIN messages, NEW version \in Nat
  PROVE  [message |-> m, actor |-> a, version |-> version,
          evidence |-> messages[m].bodies[Version(m)]] \in Deletion
<1>1. messages[m] \in Message /\ messages[m].bodies # <<>> /\ m \in Nat
  BY ElementOfSeq, LenProperties DEF MessagesTypes
<1>2. messages[m].bodies \in Seq(Bodies)
  BY <1>1 DEF Message
<1>3. Len(messages[m].bodies) \in 1 .. Len(messages[m].bodies)
  BY <1>1, <1>2, EmptySeq
<1>4. messages[m].bodies[Version(m)] \in Bodies
  BY <1>2, <1>3, ElementOfSeq DEF Version
<1> QED
  BY <1>1, <1>4 DEF Deletion

LEMMA ContentTypesStep == ContentTypes /\ [Next]_vars => ContentTypes'
<1> SUFFICES ASSUME ContentTypes, [Next]_vars PROVE ContentTypes'
  OBVIOUS
<1>1. MessagesTypes /\ MessagesTypes'
  BY MessagesTypesStep DEF ContentTypes
<1>2. CASE UNCHANGED <<space, deletions>>
  BY <1>1, <1>2 DEF ContentTypes
<1>3. ASSUME NEW a \in Accounts, NEW m \in DOMAIN messages,
             NEW version \in 1 .. MaxEdits, ModeratorDelete(a, m, version)
      PROVE ContentTypes'
  <2> DEFINE d == [message |-> m, actor |-> a, version |-> version,
                   evidence |-> messages[m].bodies[Version(m)]]
  <2>1. version \in Nat
    BY MessagesAssumption
  <2>2. d \in Deletion
    BY <1>1, <2>1, DeletionType
  <2>3. deletions' = deletions \union {d} /\ space' = space
    BY <1>3 DEF ModeratorDelete
  <2> HIDE DEF d
  <2> QED
    BY <1>1, <2>2, <2>3 DEF ContentTypes
<1>4. ASSUME NEW a \in Accounts, NEW slow \in SlowModes, NEW archive \in BOOLEAN,
             UpdateSpace(a, slow, archive)
      PROVE ContentTypes'
  <2>1. (space.archived \/ archive) \in BOOLEAN
    OBVIOUS
  <2>2. space' \in [archived : BOOLEAN, slow : SlowModes \union {0}]
    BY <1>4, <2>1 DEF UpdateSpace
  <2>3. deletions' = deletions
    BY <1>4 DEF UpdateSpace
  <2> QED
    BY <1>1, <2>2, <2>3 DEF ContentTypes
<1>5. ASSUME NEW r \in Requests,
             \/ \E author \in Accounts, key \in Keys, body \in Bodies :
                  StartPost(r, author, key, body)
             \/ CommitPost(r) \/ ReplayPost(r) \/ RefusePost(r)
      PROVE UNCHANGED <<space, deletions>>
  BY <1>5 DEF StartPost, CommitPost, ReplayPost, RefusePost
<1>6. ASSUME NEW a \in Accounts, NEW m \in DOMAIN messages, NEW version,
             Delete(a, m, version) \/ \E body \in Bodies : Edit(a, m, version, body)
      PROVE UNCHANGED <<space, deletions>>
  BY <1>6 DEF Delete, Edit
<1>7. CASE MessagesNext
  BY <1>2, <1>3, <1>4, <1>5, <1>6, <1>7 DEF MessagesNext
<1>8. CASE (AuthorityNext /\ UNCHANGED content) \/ UNCHANGED vars
  BY <1>2, <1>8 DEF content, vars
<1> QED
  BY <1>7, <1>8 DEF Next

\* Rows, requests and answers keep their types, whatever the roles and bounds.
THEOREM TypeCorrect == Spec => []TypeOK
<1>1. MessagesInit => AuthorityInv /\ RetryInv /\ ContentTypes
  <2> SUFFICES ASSUME MessagesInit PROVE AuthorityInv /\ RetryInv /\ ContentTypes
    OBVIOUS
  <2>1. AuthorityInv /\ MessagesTypes
    BY AuthorityInit, MessagesTypesInit DEF MessagesInit
  <2>2. DOMAIN messages = {} /\ answers = {}
    BY LenProperties, EmptySeq DEF MessagesInit
  <2>3. RetryInv
    BY <2>1, <2>2 DEF RetryInv, OneMessagePerKey
  <2>4. ContentTypes
    BY <2>1 DEF ContentTypes, MessagesInit
  <2> QED
    BY <2>1, <2>3, <2>4
<1>2. AuthorityInv /\ RetryInv /\ ContentTypes => TypeOK
  BY AuthorityImplied DEF TypeOK, RetryInv, ContentTypes, MessagesTypes
<1> QED
  BY <1>1, <1>2, AuthorityUnderMessages, RetryStep, ContentTypesStep, PTL DEF Spec

--------------------------------------------------------------------------------
(* Authority to post                                                          *)

\* No message appears without the authority of its author at that moment.
THEOREM PostsAreAuthorized == Spec => PostedWithAuthority
<1>1. ASSUME MessagesTypes, [Next]_vars, NEW m \in DOMAIN messages' \ DOMAIN messages
      PROVE  LET author == messages'[m].author
             IN  /\ member[author] = "active"
                 /\ ~Restricted(author)
                 /\ ~archived
                 /\ ~space.archived
  <2>1. PICK r \in Requests : CommitPost(r)
    BY <1>1, StepKinds DEF Settled
  <2>2. messages'[m].author = posts[r].author
    <3>1. /\ DOMAIN messages' = DOMAIN messages \union {Len(messages) + 1}
          /\ messages'[Len(messages) + 1] = Posted(r)
      BY <1>1, <2>1, CommitStep
    <3>2. messages'[m] = Posted(r)
      BY <1>1, <3>1
    <3> QED
      BY <3>2 DEF Posted
  <2>3. MayPost(posts[r].author)
    BY <2>1 DEF CommitPost
  <2>4. "message.create" \notin ModerationPermissions
    BY DEF ModerationPermissions
  <2> QED
    BY <2>2, <2>3, <2>4 DEF MayPost, Enforced, Authorized
<1>2. MessagesTypes /\ [Next]_vars =>
        [\A m \in DOMAIN messages' \ DOMAIN messages :
           LET author == messages'[m].author
           IN  /\ member[author] = "active"
               /\ ~Restricted(author)
               /\ ~archived
               /\ ~space.archived]_vars
  BY <1>1
<1> QED
  BY <1>2, MessagesTypesInit, MessagesTypesStep, PTL DEF Spec, PostedWithAuthority

\* The rows keep their types, and the owner stays an active member.
THEOREM OwnersCorrect == Spec => []OwnersSound
BY TypeCorrect, OwnersStayActive, PTL DEF OwnersSound

\* Retries answer the same message, and posts keep the interval of slow mode.
THEOREM PostsCorrect == Spec => []PostsSound
BY RetriesAnswerSame, SlowModeKept, PTL DEF PostsSound

================================================================================
