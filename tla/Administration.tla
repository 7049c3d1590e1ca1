----------------------------- MODULE Administration -----------------------------
(***************************************************************************)
(* The services of the instance's administrators                           *)
(* (packages/domain/src/administration.ts): suspensions, the registration  *)
(* policy, maintenance and the control of jobs.  Each call of a store is   *)
(* awaited on its own and may fail; calls of several administrators        *)
(* interleave between any two of them.                                     *)
(***************************************************************************)
EXTENDS Naturals, Sequences, TLC

CONSTANTS
  Accounts,    \* administrators, who may suspend one another
  Entrants,    \* those of them that log in and connect meanwhile
  Calls,       \* calls in progress
  Keys,        \* idempotency keys
  Settings,    \* rows with a version: policy, maintenance, a job
  MaxVersion,  \* (bound) versions of a row
  MaxCalls     \* (bound) calls started

VARIABLES
  suspensions, \* account_suspensions, by actor and key
  logins,      \* accounts with a login that has read an active account
  sessions,    \* accounts with a session that is not revoked
  upgrades,    \* how far a WebSocket upgrade of the account is
  sockets,     \* the sockets of the account: of a session that is "live", or "revoked"
  rows,        \* version of each setting, 0 before it is first saved
  told,        \* version of the maintenance state published last
  audit,       \* for each event, the number of the one it hashed
  calls,
  started      \* calls started

entrance == <<logins, upgrades>>
vars == <<suspensions, sessions, sockets, entrance, rows, told, audit, calls, started>>
stored == <<suspensions, sessions, sockets, entrance, rows, told, audit>>

Idle == [step |-> "idle"]
Ids == Accounts \X Keys
NoSuspension == [target |-> "none", version |-> 0, restored |-> FALSE]

Active(id) == suspensions[id].version > 0 /\ ~suspensions[id].restored
Suspended(a) == \E id \in Ids : Active(id) /\ suspensions[id].target = a

Init ==
  /\ suspensions = [id \in Ids |-> NoSuspension]
  /\ logins = {} /\ sessions = Accounts
  /\ upgrades = [a \in Accounts |-> "none"]
  /\ sockets = [a \in Accounts |-> {"live"}]
  /\ rows = [s \in Settings |-> 0]
  /\ told = 0 /\ audit = <<>>
  /\ calls = [c \in Calls |-> Idle]
  /\ started = 0

Goto(c, step) == calls' = [calls EXCEPT ![c].step = step]
Return(c) == calls' = [calls EXCEPT ![c] = Idle]
Start(c, call) ==
  /\ calls[c] = Idle /\ started < MaxCalls
  /\ calls' = [calls EXCEPT ![c] = call] /\ started' = started + 1

\* sensitive(): the permission, which a suspended account lacks, and recent
\* authentication.
Sensitive(actor) == ~Suspended(actor) /\ actor \in sessions

\* The sockets whose session still authenticates: of an active account, not revoked.
Authentic(a) == IF Suspended(a) THEN {} ELSE sockets[a] \ {"revoked"}

--------------------------------------------------------------------------------
(* AccountSuspensionService.suspend() *)

\* protected_account; a key that is known answers with what was stored.
Suspend(c, actor, target, key) ==
  /\ Sensitive(actor) /\ actor # target
  /\ suspensions[<<actor, key>>] = NoSuspension
  /\ Start(c, [step |-> "administrators", id |-> <<actor, key>>, target |-> target,
               late |-> FALSE, upgrading |-> FALSE])
  /\ UNCHANGED stored

AssertNotLastAdministrator(c) ==
  /\ calls[c].step = "administrators"
  /\ IF \E a \in Accounts \ {calls[c].target} : ~Suspended(a)
     THEN Goto(c, "create") ELSE Return(c)
  /\ UNCHANGED <<stored, started>>

\* The store keeps one row for an actor and a key.
CreateSuspension(c) ==
  /\ calls[c].step = "create"
  /\ suspensions' = IF suspensions[calls[c].id] = NoSuspension
                    THEN [suspensions EXCEPT ![calls[c].id] =
                            [target |-> calls[c].target, version |-> 1, restored |-> FALSE]]
                    ELSE suspensions
  /\ Goto(c, "revoke")
  /\ UNCHANGED <<sessions, sockets, entrance, rows, told, audit, started>>

\* What a revocation does to a socket, and to an upgrade: one that has only read the
\* session will not be able to touch it.
Revoked(kind) == IF kind = "live" THEN "revoked" ELSE IF kind = "read" THEN "refused" ELSE kind

\* It sees the sessions that are stored.  (history) "late" keeps whether a login was
\* between its check of the account and its session; "upgrading" below whether an upgrade
\* was between the check of its session and its connection.
RevokeSessions(c) ==
  /\ calls[c].step = "revoke"
  /\ LET a == calls[c].target IN
       /\ sessions' = sessions \ {a}
       /\ upgrades' = [upgrades EXCEPT ![a] = Revoked(@)]
       /\ sockets' = [sockets EXCEPT ![a] = {Revoked(kind) : kind \in @}]
       /\ calls' = [calls EXCEPT ![c].step = "publish", ![c].late = a \in logins]
  /\ UNCHANGED <<suspensions, logins, rows, told, audit, started>>

Upgrading(a) == upgrades[a] \in {"read", "live", "revoked"}
Published(c) ==
  calls' = [calls EXCEPT ![c].step = "audit", ![c].upgrading = Upgrading(calls[c].target)]

\* (mutant) sockets that are connected stay so
PublishLater(c) ==
  /\ calls[c].step = "publish" /\ Published(c)
  /\ UNCHANGED <<suspensions, sessions, sockets, entrance, rows, told, audit, started>>
\* The sockets that are connected authenticate again.
PublishAuthorizationInvalidation(c) ==
  /\ calls[c].step = "publish" /\ Published(c)
  /\ sockets' = [sockets EXCEPT ![calls[c].target] = Authentic(calls[c].target)]
  /\ UNCHANGED <<suspensions, sessions, entrance, rows, told, audit, started>>

--------------------------------------------------------------------------------
(* AccountSuspensionService.restore() *)

Restore(c, actor, id, expected) ==
  /\ Sensitive(actor) /\ Active(id)
  /\ Start(c, [step |-> "restore", id |-> id, target |-> suspensions[id].target,
               expected |-> expected, late |-> FALSE, upgrading |-> FALSE])
  /\ UNCHANGED stored

RestoreSuspension(c) ==
  /\ calls[c].step = "restore"
  /\ IF suspensions[calls[c].id].version = calls[c].expected
     THEN /\ suspensions' = [suspensions EXCEPT ![calls[c].id].restored = TRUE,
                                               ![calls[c].id].version = @ + 1]
          /\ Goto(c, "publish")
     ELSE Return(c) /\ UNCHANGED suspensions
  /\ UNCHANGED <<sessions, sockets, entrance, rows, told, audit, started>>

--------------------------------------------------------------------------------
(* RegistrationPolicyService.update(), MaintenanceService.update(),              *)
(* JobControlService.retry() and cancel(): what there is is read, then saved     *)
(* against the version the administrator names.                                  *)

\* An administrator names the version of an earlier answer, or 0: none.
Update(c, actor, s, expected) ==
  /\ Sensitive(actor) /\ expected \in 0 .. rows[s] /\ rows[s] < MaxVersion
  /\ rows[s] > 0 => expected > 0
  /\ Start(c, [step |-> "save", setting |-> s, current |-> rows[s], expected |-> expected])
  /\ UNCHANGED stored

Expected(c) == calls[c].expected
Save(c) ==
  /\ calls[c].step = "save"
  /\ LET s == calls[c].setting
     IN IF rows[s] = Expected(c)
        THEN /\ rows' = [rows EXCEPT ![s] = calls[c].current + 1]
             /\ Goto(c, IF s = "maintenance" THEN "tell" ELSE "audit")
        ELSE Return(c) /\ UNCHANGED rows
  /\ UNCHANGED <<suspensions, sessions, sockets, entrance, told, audit, started>>

PublishMaintenance(c) ==
  /\ calls[c].step = "tell"
  /\ told' = calls[c].current + 1
  /\ Goto(c, "audit")
  /\ UNCHANGED <<suspensions, sessions, sockets, entrance, rows, audit, started>>

--------------------------------------------------------------------------------
(* AdministrationService.audit(): the latest hash, then the event. *)

LatestAuditHash(c) ==
  /\ calls[c].step = "audit"
  /\ calls' = [calls EXCEPT ![c] = [@ EXCEPT !.step = "append"] @@ [previous |-> Len(audit)]]
  /\ UNCHANGED <<stored, started>>

AppendAudit(c) ==
  /\ calls[c].step = "append"
  /\ audit' = Append(audit, calls[c].previous)
  /\ Return(c)
  /\ UNCHANGED <<suspensions, sessions, sockets, entrance, rows, told, started>>

\* A call of a store or of the publisher fails: the service gives up.
Fail(c) ==
  /\ calls[c] # Idle
  /\ Return(c)
  /\ UNCHANGED <<stored, started>>

--------------------------------------------------------------------------------
(* The account itself: login(), and the upgrade of a WebSocket.  Every statement  *)
(* is a step; the sessions of an account are taken together, and its sockets.     *)

\* login() reads the account, and verifies and hashes for long.
Login(a) ==
  /\ ~Suspended(a) /\ a \notin logins
  /\ logins' = logins \union {a}
  /\ UNCHANGED <<suspensions, sessions, sockets, upgrades, rows, told, audit, calls, started>>

\* issueSession(): the account is not read again.
CreateSession(a) ==
  /\ a \in logins
  /\ logins' = logins \ {a} /\ sessions' = sessions \union {a}
  /\ UNCHANGED <<suspensions, sockets, upgrades, rows, told, audit, calls, started>>

Enters(a, from, to) ==
  /\ upgrades[a] = from /\ upgrades' = [upgrades EXCEPT ![a] = to]
  /\ UNCHANGED <<suspensions, sessions, logins, rows, told, audit, calls, started>>

\* verify() of an upgrade: authenticate() reads the session and the account, then touches
\* a session that is not revoked.
ReadSession(a) ==
  /\ a \in sessions /\ ~Suspended(a)
  /\ Enters(a, "none", "read") /\ UNCHANGED sockets
TouchSession(a) ==
  /\ Enters(a, "read", "live") \/ Enters(a, "refused", "none")
  /\ UNCHANGED sockets

\* The limiter was awaited meanwhile, and ws has completed the handshake.
Connect(a) ==
  /\ upgrades[a] \in {"live", "revoked"}
  /\ Enters(a, upgrades[a], "none")
  /\ sockets' = [sockets EXCEPT ![a] = @ \union {upgrades[a]}]

\* Every few seconds a connected socket authenticates again.
Revalidate(a) ==
  /\ sockets[a] # Authentic(a)
  /\ sockets' = [sockets EXCEPT ![a] = Authentic(a)]
  /\ UNCHANGED <<suspensions, sessions, entrance, rows, told, audit, calls, started>>

Next ==
  \/ \E c \in Calls, actor \in Accounts :
       \/ \E target \in Accounts, key \in Keys : Suspend(c, actor, target, key)
       \/ \E id \in Ids, expected \in 1 .. 2 : Restore(c, actor, id, expected)
       \/ \E s \in Settings, expected \in 0 .. MaxVersion : Update(c, actor, s, expected)
  \/ \E c \in Calls :
       \/ AssertNotLastAdministrator(c) \/ CreateSuspension(c) \/ RevokeSessions(c)
       \/ PublishAuthorizationInvalidation(c) \/ RestoreSuspension(c) \/ Save(c)
       \/ PublishMaintenance(c) \/ LatestAuditHash(c) \/ AppendAudit(c) \/ Fail(c)
  \/ \E a \in Entrants :
       \/ Login(a) \/ CreateSession(a) \/ ReadSession(a) \/ TouchSession(a)
       \/ Connect(a) \/ Revalidate(a)

Spec == Init /\ [][Next]_vars

--------------------------------------------------------------------------------
(* Properties *)

\* A setting is only changed from the version the administrator decided upon, and moves
\* one version on: no call overwrites what another has saved since.
ChangesWhatWasSeen ==
  [][\A s \in Settings : rows'[s] # rows[s] =>
       /\ rows'[s] = rows[s] + 1
       /\ \E c \in Calls : /\ calls[c].step = "save" /\ calls[c].setting = s
                           /\ calls[c].expected = rows[s] /\ calls'[c] # calls[c]]_vars

\* When the call that stored a suspension reaches its audit event, and nobody has lifted
\* the suspension since, the account has a session only from a login that had read the
\* account before the suspension and was not done when the sessions were revoked, and a
\* connected socket only from an upgrade that had authenticated before and was not
\* connected when the invalidation was published.
SuspendedIsOut ==
  \A c \in Calls : calls[c].step \in {"audit", "append"} /\ "id" \in DOMAIN calls[c] =>
    LET a == calls[c].target IN
    Active(calls[c].id) /\ suspensions[calls[c].id].target = a
      => /\ a \in sessions => calls[c].late
         /\ sockets[a] # {} => calls[c].upgrading

\* Violated.  "revokes sessions" (packages/domain/test/account-suspension.test.ts:8), with
\* nobody left inside.  The session of a late login does not authenticate while the account
\* is suspended, and is good again when that is lifted; the socket of a late upgrade lasts
\* until it authenticates again.
NobodyEntersLate ==
  \A c \in Calls : calls[c].step \in {"audit", "append"} /\ "id" \in DOMAIN calls[c] =>
    LET a == calls[c].target IN
    Active(calls[c].id) /\ suspensions[calls[c].id].target = a
      => a \notin sessions /\ sockets[a] = {}

\* "preserves last admin" (packages/domain/test/account-suspension.test.ts:8): two
\* administrators who suspend each other both pass the check before either row is stored.
AnAdministratorRemains == \E a \in Accounts : ~Suspended(a)

\* "suspend revokes sessions" (same test): after a failure the retry with the same key
\* answers with the stored suspension, and the sessions stay.
RepeatedIsOut ==
  (\A c \in Calls : calls[c] = Idle) => \A a \in Accounts : Suspended(a) => a \notin sessions

\* "publishes changes" (packages/domain/test/maintenance.test.ts:8): two updates may be
\* published in the other order, or a failure leaves the second one untold.
ToldTheLatest ==
  (\A c \in Calls : calls[c] = Idle) => told = rows["maintenance"]

\* Every event hashes the one before it: two calls may have read the same latest hash.
AuditIsOneChain == \A i \in DOMAIN audit : audit[i] = i - 1

================================================================================
