------------------------------ MODULE Authorization ------------------------------
(***************************************************************************)
(* Roles, their assignments and the decisions on them in one community:    *)
(* packages/authorization/src/index.ts over its PostgreSQL store           *)
(* (packages/postgres/src/index.ts).  A command reads a snapshot and       *)
(* writes in one serializable transaction, which commits only when nothing *)
(* it read has changed and is not retried.  Departures and assignments     *)
(* come from elsewhere; accounts stay active.  A scope is known by how     *)
(* specific it is: community, category, space.                             *)
(***************************************************************************)
EXTENDS Integers, FiniteSets, FiniteSetsExt, TLAPS

CONSTANTS
  Actors,
  Roles,
  Permissions,  \* membership.manage and others
  Calls,        \* commands under way
  MaxPosition, MaxVersion, MaxDecisions \* bounds of the model

Scopes == {"community", "category", "space"}
specificity == [community |-> 1, category |-> 2, space |-> 3]
Ancestries == {{"community"}, {"community", "category"}, Scopes}
NoRole == [version |-> 0]

VARIABLES
  valid,     \* active accounts that are active members
  owner,
  role,      \* the row of each role, or NoRole
  assigned,  \* pairs of a role and an actor
  decisions, \* rows: role, permission, scope, effect
  call       \* the command of each call
vars == <<valid, owner, role, assigned, decisions, call>>

Idle == [op |-> "idle"]

\* Rows that were put into the store directly, as a deployment and the tests do: one
\* decision for a role, permission and scope.
Decisions == [role : Roles, permission : Permissions, scope : Scopes, effect : {"grant", "deny"}]
SameKey(d, e) == [d EXCEPT !.effect = e.effect] = e
FirstRole == [position |-> 0, protected |-> FALSE, version |-> 1]

Init ==
  /\ valid = Actors /\ owner \in Actors
  /\ role \in [Roles -> {NoRole, FirstRole}]
  /\ assigned = {}
  /\ decisions \in UNION {kSubset(n, Decisions) : n \in 0 .. MaxDecisions}
  /\ \A d \in decisions : role[d.role] # NoRole /\ \A e \in decisions \ {d} : ~SameKey(d, e)
  /\ call = [c \in Calls |-> Idle]

--------------------------------------------------------------------------------
(* Evaluation *)

RolesOf(actor) == {r \in Roles : role[r] # NoRole /\ <<r, actor>> \in assigned}

\* The decisions that can contribute, and those at the most specific scope of them.
Applicable(actor, permission, scopes) ==
  {d \in decisions : d.role \in RolesOf(actor) /\ d.permission = permission /\ d.scope \in scopes}
Selected(applicable) ==
  {d \in applicable : \A other \in applicable : specificity[other.scope] <= specificity[d.scope]}

\* Without a community among the scopes nobody is its owner and no role applies.
Evaluate(actor, permission, scopes) ==
  /\ actor \in valid /\ "community" \in scopes
  /\ \/ actor = owner
     \/ LET selected == Selected(Applicable(actor, permission, scopes))
        IN selected # {} /\ \A d \in selected : d.effect = "grant"

\* What a transaction reads of an actor, and locks.
Snapshot(actor, scopes) ==
  [valid |-> actor \in valid, owns |-> owner = actor, roles |-> role,
   assigned |-> {r \in Roles : <<r, actor>> \in assigned},
   decisions |-> {d \in decisions : d.scope \in scopes}]

Highest(actor) == Max({role[r].position : r \in RolesOf(actor)} \union {-1})

--------------------------------------------------------------------------------
(* Commands: the snapshot and what it allows, then the write *)

Begin(c, op, asked, actor, permission, scopes) ==
  /\ call[c] = Idle
  /\ call' = [call EXCEPT ![c] =
       [op |-> op, asked |-> asked, actor |-> actor, scopes |-> scopes, fresh |-> TRUE,
        allowed |-> Evaluate(actor, permission, scopes)]]
  /\ UNCHANGED <<valid, owner, role, assigned, decisions>>

\* The authority is asked for in the scope of the decision alone.
SetDecision(c, actor) ==
  \E d \in Decisions :
    role[d.role] # NoRole /\ Begin(c, "decide", d, actor, d.permission, {d.scope})

\* An update names a version its caller once saw, or none (0).  What is compared with the
\* roles of the actor is the role as it shall become.
UpdateRole(c, actor) ==
  \E r \in Roles, position \in 0 .. MaxPosition, protected \in BOOLEAN :
    \E known \in 0 .. role[r].version :
      LET asked == [id |-> r, position |-> position, protected |-> protected, known |-> known]
      IN /\ ~(protected /\ position >= Highest(actor))
         /\ Begin(c, "role", asked, actor, "membership.manage", {"community"})

TransferOwnership(c, actor) ==
  \E next \in Actors :
    owner = actor /\ Begin(c, "transfer", next, actor, "community.transfer", {"community"})

\* A transaction whose snapshot is no longer what there is cannot commit any more.
\* (mutant) READ COMMITTED
AnySnapshot(c) == c \in Calls
Fresh(c) == call[c].fresh
Undisturbed ==
  {read \in Actors \X {{s} : s \in Scopes} :
     Snapshot(read[1], read[2])' = Snapshot(read[1], read[2])}
Goes(done) ==
  call' = [o \in Calls |->
    IF o \in done \/ call[o] = Idle THEN Idle
    ELSE [call[o] EXCEPT !.fresh = @ /\ <<call[o].actor, call[o].scopes>> \in Undisturbed]]
Commits(c, op) == call[c] # Idle /\ call[c].op = op /\ call[c].allowed /\ Fresh(c)

\* ON CONFLICT DO UPDATE of the effect.
PutDecision(c) ==
  /\ Commits(c, "decide")
  /\ LET d == call[c].asked
     IN decisions' = {o \in decisions : ~SameKey(o, d)} \union {d}
  /\ UNCHANGED <<valid, owner, role, assigned>> /\ Goes({c})

\* With a version the row has to have it; without, a row that exists is overwritten and
\* keeps its version.
PutRole(c) ==
  /\ Commits(c, "role")
  /\ LET asked == call[c].asked
         r == asked.id
         at(version) == [position |-> asked.position, protected |-> asked.protected,
                         version |-> version]
     IN \/ /\ asked.known = 0
           /\ role' = [role EXCEPT ![r] = at(IF @ = NoRole THEN 1 ELSE @.version)]
        \/ /\ asked.known > 0 /\ asked.known = role[r].version
           /\ role' = [role EXCEPT ![r] = at(@.version + 1)]
  /\ UNCHANGED <<valid, owner, assigned, decisions>> /\ Goes({c})

ChangeOwner(c) ==
  /\ Commits(c, "transfer") /\ call[c].asked \in valid
  /\ owner' = call[c].asked
  /\ UNCHANGED <<valid, role, assigned, decisions>> /\ Goes({c})

\* Denied, stale, or a transaction that could not be serialized.
Fails(c) ==
  /\ call[c] # Idle /\ call' = [call EXCEPT ![c] = Idle]
  /\ UNCHANGED <<valid, owner, role, assigned, decisions>>

--------------------------------------------------------------------------------
(* What others change *)

\* assignRole() of the store, which no service calls yet.
AssignRole(r, actor) ==
  /\ role[r] # NoRole /\ assigned' = assigned \union {<<r, actor>>}
  /\ UNCHANGED <<valid, owner, role, decisions>> /\ Goes({})

\* A departure or a removal, and its end.
ValidityChanges(actor) ==
  /\ valid' = IF actor \in valid THEN valid \ {actor} ELSE valid \union {actor}
  /\ UNCHANGED <<owner, role, assigned, decisions>> /\ Goes({})

Bounded ==
  /\ Cardinality(decisions) <= MaxDecisions
  /\ \A r \in Roles : role[r].version <= MaxVersion
Next ==
  /\ \/ \E c \in Calls :
          \/ \E actor \in Actors :
               SetDecision(c, actor) \/ UpdateRole(c, actor) \/ TransferOwnership(c, actor)
          \/ PutDecision(c) \/ PutRole(c) \/ ChangeOwner(c) \/ Fails(c)
     \/ \E r \in Roles, actor \in Actors : AssignRole(r, actor)
     \/ \E actor \in Actors : ValidityChanges(actor)
  /\ Bounded'
Spec == Init /\ [][Next]_vars

--------------------------------------------------------------------------------
(* Properties *)

TypeOK ==
  /\ valid \subseteq Actors /\ owner \in Actors
  /\ \A r \in Roles : role[r].version \in 0 .. MaxVersion
  /\ assigned \subseteq Roles \X Actors /\ decisions \subseteq Decisions
  /\ \A d, e \in decisions : d # e => ~SameKey(d, e)
  /\ \A c \in Calls : call[c].op \in {"idle", "decide", "role", "transfer"}

\* docs/architecture/permissions.md: from the broadest scope to the narrowest, a
\* decision overrides what is inherited, and a deny wins ties; no grant is denial.
Documented(actor, permission, scopes) ==
  LET said(n, effect) ==
        \E d \in decisions :
          /\ d.role \in RolesOf(actor) /\ d.permission = permission /\ d.effect = effect
          /\ d.scope \in scopes /\ specificity[d.scope] = n
      inherited[n \in 0 .. 3] ==
        IF n = 0 THEN FALSE
        ELSE IF said(n, "deny") THEN FALSE
        ELSE said(n, "grant") \/ inherited[n - 1]
  IN actor \in valid /\ (actor = owner \/ inherited[3])
EvaluatesAsDocumented ==
  \A actor \in Actors, permission \in Permissions, scopes \in Ancestries :
    Evaluate(actor, permission, scopes) = Documented(actor, permission, scopes)

\* Nobody grants or denies what is not allowed to them when it takes effect, although
\* it was decided on a snapshot (permissions.md: a member cannot grant a permission
\* they do not possess at the target scope).
WithinAuthority ==
  \A d \in decisions' \ decisions :
    \E c \in Calls :
      /\ call[c] # Idle /\ call[c].op = "decide"
      /\ Evaluate(call[c].actor, d.permission, {d.scope})
GrantsWithinAuthority == [][WithinAuthority]_vars

\* permissions.md: role management cannot modify an equal or higher protected role.  It
\* can: updateRole() compares the role it shall become (authorization/index.ts:298).
ProtectedRolesAreKept ==
  [][\A r \in Roles :
       role[r] # NoRole /\ role'[r] # role[r] /\ role[r].protected
         => \E c \in Calls :
              /\ call[c] # Idle /\ call[c].op = "role"
              /\ role[r].position < Highest(call[c].actor)]_vars

\* A role that changes has another version, as in the store the tests use
\* (authorization/index.ts:376).  It has not: what is put without a version keeps the
\* version of the row (postgres/index.ts:1852).
ChangesMoveTheVersion ==
  [][\A r \in Roles :
       role[r] # NoRole /\ role'[r] # role[r] => role'[r].version > role[r].version]_vars

\* What an owner decides about a scope of the community can be stored.  It cannot for a
\* category or a space: setDecision() asks in that scope alone, where no owner is known.
OwnerMayDecide ==
  \A c \in Calls :
    call[c] # Idle /\ call[c].op = "decide" /\ call[c].fresh
      /\ call[c].actor = owner /\ call[c].actor \in valid => call[c].allowed

--------------------------------------------------------------------------------
(* What is proved, for any actors, roles, permissions and number of commands *)

Changes == [id : Roles, position : Int, protected : BOOLEAN, known : Int]
Decides ==
  [op : {"decide"}, asked : Decisions, actor : Actors, scopes : {{s} : s \in Scopes},
   fresh : BOOLEAN, allowed : BOOLEAN]
Others ==
  [op : {"role", "transfer"}, asked : Changes \union Actors, actor : Actors,
   scopes : {{"community"}}, fresh : BOOLEAN, allowed : BOOLEAN]

\* A decision that may still commit is one that its actor may make now.
Allowed(asked) ==
  /\ asked.scopes = {asked.asked.scope}
  /\ asked.fresh /\ asked.allowed => Evaluate(asked.actor, asked.asked.permission, asked.scopes)

AuthorityInv ==
  /\ call \in [Calls -> {Idle} \union Decides \union Others]
  /\ decisions \subseteq Decisions
  /\ \A c \in Calls : call[c] \in Decides => Allowed(call[c])

\* What a snapshot says is all that an evaluation asks.
LEMMA SnapshotDecides ==
  ASSUME NEW actor, NEW permission, NEW scopes, <<actor, scopes>> \in Undisturbed
  PROVE  Evaluate(actor, permission, scopes)' = Evaluate(actor, permission, scopes)
<1> DEFINE rows == {d \in decisions : d.scope \in scopes}
           own == {r \in Roles : <<r, actor>> \in assigned}
<1>1. /\ (actor \in valid)' = (actor \in valid) /\ (owner = actor)' = (owner = actor)
      /\ role' = role /\ own' = own /\ rows' = rows
  <2>1. Snapshot(actor, scopes)' = Snapshot(actor, scopes)
    BY DEF Undisturbed
  <2> QED
    BY <2>1 DEF Snapshot
<1>2. RolesOf(actor)' = RolesOf(actor)
  <2>1. RolesOf(actor) = {r \in own : role[r] # NoRole}
    BY DEF RolesOf
  <2>2. RolesOf(actor)' = {r \in own' : role'[r] # NoRole}
    BY DEF RolesOf
  <2> HIDE DEF own
  <2> QED
    BY <1>1, <2>1, <2>2
<1>3. Applicable(actor, permission, scopes)' = Applicable(actor, permission, scopes)
  <2>1. Applicable(actor, permission, scopes) =
          {d \in rows : d.role \in RolesOf(actor) /\ d.permission = permission}
    BY DEF Applicable
  <2>2. Applicable(actor, permission, scopes)' =
          {d \in rows' : d.role \in RolesOf(actor)' /\ d.permission = permission}
    BY DEF Applicable
  <2> HIDE DEF rows
  <2> QED
    BY <1>1, <1>2, <2>1, <2>2
<1> QED
  BY <1>1, <1>3 DEF Evaluate

LEMMA CallKinds ==
  /\ Idle \notin Decides \union Others /\ Idle.op = "idle"
  /\ \A c \in Decides : c.op = "decide"
  /\ \A c \in Others : c.op # "decide"
BY DEF Idle, Decides, Others

LEMMA Ages ==
  ASSUME NEW asked \in Decides \union Others, NEW fresh \in BOOLEAN,
         NEW now, now = [asked EXCEPT !.fresh = fresh]
  PROVE  /\ asked \in Decides => now \in Decides
         /\ asked \in Others => now \in Others
         /\ now.asked = asked.asked /\ now.actor = asked.actor
         /\ now.scopes = asked.scopes /\ now.allowed = asked.allowed /\ now.fresh = fresh
<1>1. CASE asked \in Decides
  BY <1>1, CallKinds DEF Decides
<1>2. CASE asked \in Others
  BY <1>2, CallKinds DEF Others
<1> QED
  BY <1>1, <1>2

\* The other calls when the state changes: those whose snapshot is gone cannot commit.
LEMMA OthersGo ==
  ASSUME AuthorityInv, NEW done, Goes(done), decisions' \subseteq Decisions
  PROVE  AuthorityInv'
<1> DEFINE still(o) == <<call[o].actor, call[o].scopes>> \in Undisturbed
<1>1. call' = [o \in Calls |-> IF o \in done \/ call[o] = Idle THEN Idle
                              ELSE [call[o] EXCEPT !.fresh = call[o].fresh /\ still(o)]]
  BY DEF Goes
<1>2. ASSUME NEW c \in Calls, call'[c] # Idle
      PROVE  /\ call'[c] \in Decides \union Others
             /\ call'[c] \in Decides => Allowed(call[c])'
  <2> DEFINE fresh == call[c].fresh /\ still(c)
  <2>1. call[c] # Idle /\ call'[c] = [call[c] EXCEPT !.fresh = fresh]
    BY <1>1, <1>2
  <2>2. call[c] \in Decides \union Others
    BY <2>1 DEF AuthorityInv
  <2>3. fresh \in BOOLEAN /\ (fresh => call[c].fresh /\ still(c))
    OBVIOUS
  <2> HIDE DEF fresh
  <2>4. /\ call[c] \in Decides => call'[c] \in Decides
        /\ call[c] \in Others => call'[c] \in Others
        /\ call'[c].asked = call[c].asked
        /\ call'[c].actor = call[c].actor /\ call'[c].scopes = call[c].scopes
        /\ call'[c].allowed = call[c].allowed /\ call'[c].fresh = fresh
    BY <2>1, <2>2, <2>3, Ages
  <2>5. ASSUME call'[c] \in Decides PROVE Allowed(call[c])'
    <3>1. call[c] \in Decides
      BY <2>2, <2>4, <2>5, CallKinds
    <3>2. Allowed(call[c])
      BY <3>1 DEF AuthorityInv
    <3>3. PICK actor, permission, scopes :
                 /\ actor = call[c].actor /\ permission = call[c].asked.permission
                 /\ scopes = call[c].scopes
      OBVIOUS
    <3>4. call'[c].fresh =>
            Evaluate(actor, permission, scopes)' = Evaluate(actor, permission, scopes)
      BY <2>3, <2>4, <3>3, SnapshotDecides
    <3> QED
      BY <2>4, <2>3, <3>2, <3>3, <3>4 DEF Allowed
  <2> QED
    BY <2>2, <2>4, <2>5
<1>3. call' \in [Calls -> {Idle} \union Decides \union Others]
  BY <1>1, <1>2
<1> QED
  BY <1>2, <1>3, CallKinds DEF AuthorityInv

LEMMA AuthorityStarts == Init => AuthorityInv
<1> SUFFICES ASSUME Init PROVE AuthorityInv
  OBVIOUS
<1>1. decisions \subseteq Decisions
  BY DEF Init, kSubset
<1>2. call = [c \in Calls |-> Idle]
  BY DEF Init
<1> QED
  BY <1>1, <1>2, CallKinds DEF AuthorityInv

\* Alone, a call that begins, or fails, changes its own row only.
LEMMA OneCall ==
  ASSUME AuthorityInv, UNCHANGED <<valid, owner, role, assigned, decisions>>,
         NEW c \in Calls, NEW now \in {Idle} \union Decides \union Others,
         call' = [call EXCEPT ![c] = now], now \in Decides => Allowed(now)
  PROVE  AuthorityInv'
<1>1. ASSUME NEW a, NEW p, NEW s PROVE Evaluate(a, p, s)' = Evaluate(a, p, s)
  BY DEF Evaluate, Selected, Applicable, RolesOf
<1>2. /\ call' \in [Calls -> {Idle} \union Decides \union Others]
      /\ \A o \in Calls : call'[o] = IF o = c THEN now ELSE call[o]
  BY DEF AuthorityInv
<1>3. ASSUME NEW o \in Calls, call'[o] \in Decides PROVE Allowed(call[o])'
  <2>1. PICK row : row = call'[o]
    OBVIOUS
  <2>2. Allowed(row)
    BY <1>2, <1>3, <2>1 DEF AuthorityInv
  <2> QED
    BY <1>1, <2>1, <2>2 DEF Allowed
<1> QED
  BY <1>2, <1>3 DEF AuthorityInv

LEMMA SetsDecision ==
  ASSUME AuthorityInv, NEW c \in Calls, NEW actor \in Actors, SetDecision(c, actor)
  PROVE  AuthorityInv' /\ UNCHANGED decisions
<1>1. PICK d \in Decisions : Begin(c, "decide", d, actor, d.permission, {d.scope})
  BY DEF SetDecision
<1> DEFINE allowed == Evaluate(actor, d.permission, {d.scope})
           now == [op |-> "decide", asked |-> d, actor |-> actor, scopes |-> {d.scope},
                   fresh |-> TRUE, allowed |-> allowed]
<1>2. /\ UNCHANGED <<valid, owner, role, assigned, decisions>>
      /\ call' = [call EXCEPT ![c] = now]
  BY <1>1 DEF Begin
<1>3. allowed \in BOOLEAN /\ (allowed => Evaluate(actor, d.permission, {d.scope}))
  BY DEF Evaluate
<1>4. {d.scope} \in {{s} : s \in Scopes}
  BY DEF Decisions
<1> HIDE DEF allowed
<1>5. now \in Decides /\ Allowed(now)
  BY <1>3, <1>4 DEF Decides, Allowed
<1> HIDE DEF now
<1> QED
  BY <1>2, <1>5, OneCall

LEMMA OthersBegin ==
  ASSUME AuthorityInv, NEW c \in Calls, NEW actor \in Actors,
         UpdateRole(c, actor) \/ TransferOwnership(c, actor)
  PROVE  AuthorityInv' /\ UNCHANGED decisions
<1>1. PICK op \in {"role", "transfer"}, asked \in Changes \union Actors,
           permission \in {"membership.manage", "community.transfer"} :
         Begin(c, op, asked, actor, permission, {"community"})
  <2>1. CASE TransferOwnership(c, actor)
    BY <2>1 DEF TransferOwnership
  <2>2. CASE UpdateRole(c, actor)
    BY <2>2 DEF UpdateRole, Changes
  <2> QED
    BY <2>1, <2>2
<1> DEFINE allowed == Evaluate(actor, permission, {"community"})
           now == [op |-> op, asked |-> asked, actor |-> actor, scopes |-> {"community"},
                   fresh |-> TRUE, allowed |-> allowed]
<1>2. /\ UNCHANGED <<valid, owner, role, assigned, decisions>>
      /\ call' = [call EXCEPT ![c] = now]
  BY <1>1 DEF Begin
<1>3. allowed \in BOOLEAN
  BY DEF Evaluate
<1> HIDE DEF allowed
<1>4. now \in Others
  BY <1>3 DEF Others
<1> HIDE DEF now
<1> QED
  BY <1>2, <1>4, CallKinds, OneCall

\* What is put has been asked for, and is still allowed.
LEMMA PutsDecision ==
  ASSUME AuthorityInv, NEW c \in Calls, PutDecision(c)
  PROVE  AuthorityInv' /\ WithinAuthority
<1> DEFINE d == call[c].asked
<1>1. /\ call[c] \in Decides /\ call[c] # Idle /\ call[c].op = "decide"
      /\ call[c].allowed /\ call[c].fresh
  BY CallKinds DEF AuthorityInv, PutDecision, Commits, Fresh
<1>2. decisions' = {o \in decisions : ~SameKey(o, d)} \union {d} /\ Goes({c})
  BY DEF PutDecision
<1>3. d \in Decisions
  BY <1>1 DEF Decides
<1>4. Evaluate(call[c].actor, d.permission, {d.scope})
  BY <1>1 DEF AuthorityInv, Allowed
<1> HIDE DEF d
<1>5. decisions' \subseteq Decisions /\ \A e \in decisions' \ decisions : e = d
  BY <1>2, <1>3 DEF AuthorityInv
<1>6. AuthorityInv'
  BY <1>2, <1>5, OthersGo
<1>7. WithinAuthority
  BY <1>1, <1>4, <1>5 DEF WithinAuthority
<1> QED
  BY <1>6, <1>7

LEMMA AuthorityStep ==
  ASSUME AuthorityInv, [Next]_vars
  PROVE  AuthorityInv' /\ WithinAuthority
<1>1. ASSUME NEW c \in Calls, Fails(c) PROVE AuthorityInv' /\ UNCHANGED decisions
  BY <1>1, CallKinds, OneCall DEF Fails
<1>2. ASSUME NEW c \in Calls, PutRole(c) \/ ChangeOwner(c)
      PROVE  AuthorityInv' /\ UNCHANGED decisions
  <2>1. decisions' = decisions /\ Goes({c})
    BY <1>2 DEF PutRole, ChangeOwner
  <2>2. decisions' \subseteq Decisions
    BY <2>1 DEF AuthorityInv
  <2> QED
    BY <2>1, <2>2, OthersGo
<1>3. ASSUME NEW actor \in Actors,
             (\E r \in Roles : AssignRole(r, actor)) \/ ValidityChanges(actor)
      PROVE  AuthorityInv' /\ UNCHANGED decisions
  <2>1. decisions' = decisions /\ Goes({})
    BY <1>3 DEF AssignRole, ValidityChanges
  <2>2. decisions' \subseteq Decisions
    BY <2>1 DEF AuthorityInv
  <2> QED
    BY <2>1, <2>2, OthersGo
<1>4. CASE UNCHANGED vars
  <2>1. ASSUME NEW a, NEW p, NEW s PROVE Evaluate(a, p, s)' = Evaluate(a, p, s)
    BY <1>4 DEF vars, Evaluate, Selected, Applicable, RolesOf
  <2> QED
    BY <1>4, <2>1 DEF vars, AuthorityInv, Allowed, WithinAuthority
<1>5. UNCHANGED decisions => WithinAuthority
  BY DEF WithinAuthority
<1>6. CASE Next
  <2>1. ASSUME NEW c \in Calls, NEW actor \in Actors,
               SetDecision(c, actor) \/ UpdateRole(c, actor) \/ TransferOwnership(c, actor)
        PROVE  AuthorityInv' /\ UNCHANGED decisions
    BY <2>1, SetsDecision, OthersBegin
  <2>2. ASSUME NEW c \in Calls, PutDecision(c) PROVE AuthorityInv' /\ WithinAuthority
    BY <2>2, PutsDecision
  <2>3. \/ \E c \in Calls, actor \in Actors :
             SetDecision(c, actor) \/ UpdateRole(c, actor) \/ TransferOwnership(c, actor)
        \/ \E c \in Calls : PutDecision(c)
        \/ \E c \in Calls : PutRole(c) \/ ChangeOwner(c)
        \/ \E c \in Calls : Fails(c)
        \/ \E r \in Roles, actor \in Actors : AssignRole(r, actor)
        \/ \E actor \in Actors : ValidityChanges(actor)
    BY <1>6, Zenon DEF Next
  <2> QED
    BY <1>1, <1>2, <1>3, <1>5, <2>1, <2>2, <2>3
<1> QED
  BY <1>4, <1>6

LEMMA AuthorityInvariant == Spec => []AuthorityInv
BY AuthorityStarts, AuthorityStep, PTL DEF Spec

\* For any actors, roles and number of commands: nobody grants or denies what is not
\* allowed to them when it takes effect, although it was decided on a snapshot
\* (packages/authorization/src/index.ts, in serializable transactions).
THEOREM GrantsAreAllowed == Spec => GrantsWithinAuthority
<1>1. AuthorityInv /\ [Next]_vars => [WithinAuthority]_vars
  BY AuthorityStep
<1> QED
  BY <1>1, AuthorityInvariant, PTL DEF Spec, GrantsWithinAuthority

--------------------------------------------------------------------------------
\* For any roles, permissions and decisions: what evaluatePermission() finds among the
\* decisions at the most specific scope that has any is what permissions.md describes,
\* from the broadest scope to the narrowest, each overriding what it inherits.
THEOREM EvaluationIsDocumented == Spec => []EvaluatesAsDocumented
<1>1. ASSUME decisions \subseteq Decisions, NEW actor \in Actors,
             NEW permission \in Permissions, NEW scopes \in Ancestries
      PROVE  Evaluate(actor, permission, scopes) = Documented(actor, permission, scopes)
  <2> DEFINE said(n, effect) ==
               \E d \in decisions :
                 /\ d.role \in RolesOf(actor) /\ d.permission = permission /\ d.effect = effect
                 /\ d.scope \in scopes /\ specificity[d.scope] = n
             body(f, n) == IF n = 0 THEN FALSE
                           ELSE IF said(n, "deny") THEN FALSE
                           ELSE said(n, "grant") \/ f[n - 1]
             inherited == CHOOSE f : f = [n \in 0 .. 3 |-> body(f, n)]
             applicable == Applicable(actor, permission, scopes)
             level(d) == specificity[d.scope]
             chosen == Selected(applicable)
             right == chosen # {} /\ \A d \in chosen : d.effect = "grant"
  <2>1. Documented(actor, permission, scopes) = (actor \in valid /\ (actor = owner \/ inherited[3]))
    BY DEF Documented
  <2>2. Evaluate(actor, permission, scopes) = (actor \in valid /\ (actor = owner \/ right))
    BY DEF Evaluate, Ancestries, Scopes
  <2>3. \A d \in applicable : d.effect \in {"grant", "deny"} /\ level(d) \in 1 .. 3
    BY <1>1 DEF Applicable, Decisions, Scopes, specificity
  <2>4. \A n, e : said(n, e) <=> \E d \in applicable : d.effect = e /\ level(d) = n
    BY DEF Applicable
  <2>5. \A d : d \in Selected(applicable) <=>
               d \in applicable /\ \A o \in applicable : level(o) <= level(d)
    BY DEF Selected
  <2> HIDE DEF applicable
  <2>6. inherited = [n \in 0 .. 3 |-> body(inherited, n)]
    <3> DEFINE one == ~said(1, "deny") /\ said(1, "grant")
               two == ~said(2, "deny") /\ (said(2, "grant") \/ one)
               three == ~said(3, "deny") /\ (said(3, "grant") \/ two)
               f == [n \in 0 .. 3 |-> IF n = 0 THEN FALSE ELSE IF n = 1 THEN one
                                      ELSE IF n = 2 THEN two ELSE three]
    <3> HIDE DEF said
    <3>1. f[0] = FALSE /\ f[1] = one /\ f[2] = two /\ f[3] = three
      BY DEF f
    <3>2. ASSUME NEW n \in 0 .. 3 PROVE f[n] = body(f, n)
      <4>1. CASE n = 0
        BY <3>1, <4>1, Zenon DEF body
      <4>2. CASE n = 1
        <5>1. n - 1 = 0 /\ n # 0
          BY <4>2
        <5> QED
          BY <3>1, <4>2, <5>1, Zenon DEF body, one
      <4>3. CASE n = 2
        <5>1. n - 1 = 1 /\ n # 0
          BY <4>3
        <5> QED
          BY <3>1, <4>3, <5>1, Zenon DEF body, two
      <4>4. CASE n = 3
        <5>1. n - 1 = 2 /\ n # 0
          BY <4>4
        <5> QED
          BY <3>1, <4>4, <5>1, Zenon DEF body, three
      <4>5. n = 0 \/ n = 1 \/ n = 2 \/ n = 3
        OBVIOUS
      <4> QED
        BY <4>1, <4>2, <4>3, <4>4, <4>5, Zenon
    <3>3. f = [n \in 0 .. 3 |-> body(f, n)]
      BY <3>2 DEF f
    <3> QED
      BY <3>3, Zenon DEF inherited
  <2> HIDE DEF inherited
  <2>7. inherited[3] <=>
          /\ ~said(3, "deny")
          /\ \/ said(3, "grant")
             \/ ~said(2, "deny") /\ (said(2, "grant") \/ (~said(1, "deny") /\ said(1, "grant")))
    <3> HIDE DEF said
    <3>1. \A n \in 0 .. 3 : inherited[n] = body(inherited, n)
      BY <2>6, Zenon
    <3>2. /\ 0 \in 0 .. 3 /\ 1 \in 0 .. 3 /\ 2 \in 0 .. 3 /\ 3 \in 0 .. 3
          /\ 1 - 1 = 0 /\ 2 - 1 = 1 /\ 3 - 1 = 2 /\ 1 # 0 /\ 2 # 0 /\ 3 # 0
      OBVIOUS
    <3>3. inherited[0] = FALSE
      BY <3>1, <3>2, Zenon DEF body
    <3>4. inherited[1] <=> ~said(1, "deny") /\ (said(1, "grant") \/ inherited[0])
      BY <3>1, <3>2, Zenon DEF body
    <3>5. inherited[2] <=> ~said(2, "deny") /\ (said(2, "grant") \/ inherited[1])
      BY <3>1, <3>2, Zenon DEF body
    <3>6. inherited[3] <=> ~said(3, "deny") /\ (said(3, "grant") \/ inherited[2])
      BY <3>1, <3>2, Zenon DEF body
    <3> QED
      BY <3>3, <3>4, <3>5, <3>6, Zenon
  <2> HIDE DEF said
  <2>8. ASSUME NEW n \in 1 .. 3, said(n, "deny") \/ said(n, "grant"),
               \A m \in 1 .. 3 : m > n => ~said(m, "deny") /\ ~said(m, "grant")
        PROVE  right <=> ~said(n, "deny")
    <3>1. \A d \in applicable : level(d) <= n
      BY <2>3, <2>4, <2>8
    <3>2. \A d : d \in Selected(applicable) <=> d \in applicable /\ level(d) = n
      BY <2>3, <2>4, <2>5, <2>8, <3>1
    <3> QED
      BY <2>3, <2>4, <2>8, <3>2
  <2>9. (\A n \in 1 .. 3 : ~said(n, "deny") /\ ~said(n, "grant")) => ~right
    BY <2>3, <2>4, <2>5
  <2>10. right <=> inherited[3]
    BY <2>7, <2>8, <2>9
  <2> QED
    BY <2>1, <2>2, <2>10
<1>2. AuthorityInv => EvaluatesAsDocumented
  BY <1>1 DEF AuthorityInv, EvaluatesAsDocumented
<1> QED
  BY <1>2, AuthorityInvariant, PTL

================================================================================
