----------------------------- MODULE AuthSessions -----------------------------
(***************************************************************************)
(* The password and the sessions of one account: AuthenticationService     *)
(* (packages/auth/src/index.ts) over PostgresAuthStore                     *)
(* (packages/postgres/src/index.ts).                                       *)
(*                                                                         *)
(* Requests run side by side and read the account and the session in       *)
(* separate statements.  A transaction is two steps, its statements and    *)
(* its COMMIT: between them it holds the locks of the rows it wrote, and   *)
(* others still read the old rows (READ COMMITTED).  A hash is its         *)
(* password and whether its parameters are the configured ones.            *)
(***************************************************************************)
EXTENDS Naturals, FiniteSets

CONSTANTS
  Requests,       \* handlers in progress at a time
  SessionIds,     \* bound: sessions ever issued
  Passwords,
  InitialFormat,  \* "outdated" when the hash parameters were raised since
  MaxVersion      \* bound: credential_version

ASSUME AuthAssumption ==
  /\ InitialFormat \in {"current", "outdated"}
  /\ MaxVersion \in Nat

VARIABLES
  account,   \* the row of accounts
  sessions,  \* the rows of sessions
  op         \* each request's progress and what it remembers

vars == <<account, sessions, op>>

Idle == [pc |-> "idle"]
Versions == Nat

Accounts == [password : Passwords, format : {"current", "outdated"},
             version : Versions]
\* proof is the password that the session was issued for (no column).
SessionRows == [state : {"live", "revoked"}, age : {"fresh", "idle", "expired"},
                version : Versions, proof : Passwords]
Unused == [state |-> "unused"]

\* What a request carries from one statement to the next.  began tells whether
\* the session was usable when authenticate() started (no variable of the code).
Logins == [pc : {"rehash", "issue"}, password : Passwords, version : Versions]
Checks == [pc : {"account", "touch"}, session : SessionIds,
           seen : SessionRows, began : {"usable", "dead"}]
Changes == [pc : {"change", "reset"}, current : Passwords, password : Passwords,
            version : Versions]
Commits == [pc : {"commitChange", "commitReset"}, revoking : SUBSET SessionIds,
            current : Passwords, password : Passwords, version : Versions]
Revocations == [pc : {"commitRevoke"}, revoking : SUBSET SessionIds]

Init ==
  /\ account \in [password : Passwords, format : {InitialFormat}, version : {1}]
  /\ sessions = [s \in SessionIds |-> Unused]
  /\ op = [r \in Requests |-> Idle]

--------------------------------------------------------------------------------
(* Row locks *)

\* "commitRecovery" is a step of AccountRecovery.
Committing(r) ==
  op[r].pc \in {"commitChange", "commitReset", "commitRecovery", "commitRevoke"}
AccountLocked ==
  \E r \in Requests : op[r].pc \in {"commitChange", "commitReset", "commitRecovery"}
SessionLocked(s) == \E r \in Requests : Committing(r) /\ s \in op[r].revoking

Live == {s \in SessionIds : sessions[s] # Unused /\ sessions[s].state = "live"}
Revoked(set) ==
  [s \in SessionIds |-> IF s \in set THEN [sessions[s] EXCEPT !.state = "revoked"]
                        ELSE sessions[s]]
Usable(s) ==
  /\ s \in Live
  /\ sessions[s].age = "fresh"
  /\ sessions[s].version = account.version

Enter(r, state) == op' = [op EXCEPT ![r] = state]
Leave(r) == Enter(r, Idle)

--------------------------------------------------------------------------------
(* login() *)

\* The account is read and the password verified; a wrong one ends the request.
Login(r, password) ==
  /\ op[r] = Idle
  /\ account.password = password
  /\ Enter(r, [pc |-> IF account.format = "outdated" THEN "rehash" ELSE "issue",
               password |-> password, version |-> account.version])
  /\ UNCHANGED <<account, sessions>>

\* updatePasswordHash(): an UPDATE by id alone.
Rehash(r) ==
  /\ op[r].pc = "rehash"
  /\ ~AccountLocked
  /\ account' = [account EXCEPT !.password = op[r].password, !.format = "current"]
  /\ Enter(r, [op[r] EXCEPT !.pc = "issue"])
  /\ UNCHANGED sessions

Issued(version, password) ==
  [state |-> "live", age |-> "fresh", version |-> version, proof |-> password]
\* (mutant) the version is read when the session is written
IssueAtCurrentVersion(r, s) ==
  /\ op[r].pc = "issue"
  /\ sessions[s] = Unused
  /\ sessions' = [sessions EXCEPT ![s] = Issued(account.version, op[r].password)]
  /\ Leave(r)
  /\ UNCHANGED account
\* issueSession(), with the credential version the login had read.
IssueSession(r, s) ==
  /\ op[r].pc = "issue"
  /\ sessions[s] = Unused
  /\ sessions' = [sessions EXCEPT ![s] = Issued(op[r].version, op[r].password)]
  /\ Leave(r)
  /\ UNCHANGED account

--------------------------------------------------------------------------------
(* authenticate() *)

FindSession(r, s) ==
  /\ op[r] = Idle
  /\ sessions[s] # Unused
  /\ Enter(r, [pc |-> "account", session |-> s, seen |-> sessions[s],
               began |-> IF Usable(s) THEN "usable" ELSE "dead"])
  /\ UNCHANGED <<account, sessions>>

\* (mutant) the credential version is not compared
CheckSessionOnly(r) ==
  /\ op[r].pc = "account"
  /\ op[r].seen.state = "live" /\ op[r].seen.age = "fresh"
  /\ sessions[op[r].session].age = "fresh"
  /\ Enter(r, [op[r] EXCEPT !.pc = "touch"])
  /\ UNCHANGED <<account, sessions>>
\* The account is read and the session that was read before is judged.
CheckAccount(r) ==
  /\ op[r].pc = "account"
  /\ op[r].seen.state = "live" /\ op[r].seen.age = "fresh"
  /\ op[r].seen.version = account.version
  /\ sessions[op[r].session].age = "fresh"
  /\ Enter(r, [op[r] EXCEPT !.pc = "touch"])
  /\ UNCHANGED <<account, sessions>>

\* touchSession() extends the idle deadline of an unrevoked session and accepts
\* the request.  It waits for a transaction that is revoking the row.
Accepts(r) ==
  op[r].pc = "touch" /\ ~SessionLocked(op[r].session) /\ op[r].session \in Live
TouchSession(r) ==
  /\ Accepts(r)
  /\ sessions' = [sessions EXCEPT ![op[r].session].age =
                    IF @ = "idle" THEN "fresh" ELSE @]
  /\ Leave(r)
  /\ UNCHANGED account

--------------------------------------------------------------------------------
(* changePassword() and resetCredentials() *)

\* The account is read, the current password verified, a reuse refused.
ChangePassword(r, current, new) ==
  /\ op[r] = Idle
  /\ current = account.password /\ new # current
  /\ Enter(r, [pc |-> "change", current |-> current, password |-> new,
               version |-> account.version])
  /\ UNCHANGED <<account, sessions>>

\* (mutant) the version read before the hashing is not compared
ChangeCredentialsUnchecked(r) ==
  /\ op[r].pc = "change"
  /\ account.version < MaxVersion
  /\ ~AccountLocked
  /\ \A s \in Live : ~SessionLocked(s)
  /\ Enter(r, [pc |-> "commitChange", revoking |-> Live, current |-> op[r].current,
               password |-> op[r].password, version |-> account.version + 1])
  /\ UNCHANGED <<account, sessions>>
\* changeCredentials() compares the version, then revokeAllSessions().
ChangeCredentials(r) ==
  /\ op[r].pc = "change"
  /\ op[r].version = account.version /\ account.version < MaxVersion
  /\ ~AccountLocked
  /\ \A s \in Live : ~SessionLocked(s)
  /\ Enter(r, [pc |-> "commitChange", revoking |-> Live, current |-> op[r].current,
               password |-> op[r].password, version |-> account.version + 1])
  /\ UNCHANGED <<account, sessions>>

ResetCredentials(r, new) ==
  /\ op[r] = Idle
  /\ account.version < MaxVersion
  /\ ~AccountLocked
  /\ \A s \in Live : ~SessionLocked(s)
  /\ Enter(r, [pc |-> "commitReset", revoking |-> Live,
               current |-> account.password, password |-> new,
               version |-> account.version + 1])
  /\ UNCHANGED <<account, sessions>>

\* (mutant) the credential version stays
CommitWithoutVersion(r) ==
  account' = [password |-> op[r].password, format |-> "current",
              version |-> account.version]
CommitAccount(r) ==
  account' = [password |-> op[r].password, format |-> "current",
              version |-> op[r].version]

\* changePassword() issues a session in its transaction.
CommitChange(r, s) ==
  /\ op[r].pc = "commitChange"
  /\ sessions[s] = Unused
  /\ CommitAccount(r)
  /\ sessions' = [Revoked(op[r].revoking) EXCEPT
                    ![s] = Issued(op[r].version, op[r].password)]
  /\ Leave(r)

CommitReset(r) ==
  /\ op[r].pc = "commitReset"
  /\ CommitAccount(r)
  /\ sessions' = Revoked(op[r].revoking)
  /\ Leave(r)

--------------------------------------------------------------------------------
(* logout() is revokeSession(), logoutAll(), logoutOthers() and               *)
(* revokeOwnedSession() update the sessions and write a security event.       *)

Revoke(r, set) ==
  /\ op[r] = Idle
  /\ \A s \in set : ~SessionLocked(s)
  /\ Enter(r, [pc |-> "commitRevoke", revoking |-> set])
  /\ UNCHANGED <<account, sessions>>
Logout(r, s) == s \in Live /\ Revoke(r, {s})
LogoutAll(r) == Live # {} /\ Revoke(r, Live)
LogoutOthers(r, s) == Live \ {s} # {} /\ Revoke(r, Live \ {s})

CommitRevoke(r) ==
  /\ op[r].pc = "commitRevoke"
  /\ sessions' = Revoked(op[r].revoking)
  /\ Leave(r)
  /\ UNCHANGED account

--------------------------------------------------------------------------------
\* The request is refused, or fails; its transaction rolls back.
Abandon(r) ==
  /\ op[r] # Idle
  /\ Leave(r)
  /\ UNCHANGED <<account, sessions>>

Expire(s, age) ==
  /\ sessions[s] # Unused
  /\ sessions[s].age = "fresh" \/ (sessions[s].age = "idle" /\ age = "expired")
  /\ sessions' = [sessions EXCEPT ![s].age = age]
  /\ UNCHANGED <<account, op>>

Next ==
  \/ \E r \in Requests :
       \/ \E p \in Passwords : Login(r, p) \/ ResetCredentials(r, p)
       \/ \E p, q \in Passwords : ChangePassword(r, p, q)
       \/ \E s \in SessionIds : \/ IssueSession(r, s) \/ FindSession(r, s)
                                \/ CommitChange(r, s)
                                \/ Logout(r, s) \/ LogoutOthers(r, s)
       \/ Rehash(r) \/ CheckAccount(r) \/ TouchSession(r)
       \/ ChangeCredentials(r) \/ CommitReset(r)
       \/ LogoutAll(r) \/ CommitRevoke(r) \/ Abandon(r)
  \/ \E s \in SessionIds, age \in {"idle", "expired"} : Expire(s, age)

Spec == Init /\ [][Next]_vars

--------------------------------------------------------------------------------
(* Properties *)

TypeOK ==
  /\ account \in Accounts
  /\ sessions \in [SessionIds -> SessionRows \union {Unused}]
  /\ op \in [Requests -> {Idle} \union Logins \union Checks \union Changes
                           \union Commits \union Revocations]

\* A session that authenticates was usable when its request began, although
\* session, account and deadline are read and written one after the other while
\* the password changes and sessions are revoked.
AcceptedWasUsable ==
  [][\A r \in Requests : TouchSession(r) => op[r].began = "usable"]_vars

\* Whoever holds a usable session proved the password that is in force: a login
\* that lost the race against a change gets a session of the old version.
UsableKnowsPassword ==
  \A s \in SessionIds : Usable(s) => sessions[s].proof = account.password

\* Of concurrent changes only one commits: the one that takes effect verified
\* the password that it replaces.
ChangeProvesCurrent ==
  [][\A r \in Requests :
       (\E s \in SessionIds : CommitChange(r, s))
         => op[r].current = account.password]_vars

\* A password is replaced only together with the credential version, so that
\* every session issued for it ends and no committed change is undone.
PasswordMovesWithVersion ==
  [][account'.password # account.password
       => account'.version # account.version]_vars
================================================================================
