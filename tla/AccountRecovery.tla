---------------------------- MODULE AccountRecovery ----------------------------
(***************************************************************************)
(* Recovery of the account of AuthSessions: RecoveryService                *)
(* (packages/auth/src/recovery.ts) over PostgresRecoveryStore              *)
(* (packages/postgres/src/index.ts).                                       *)
(*                                                                         *)
(* Its transactions are SERIALIZABLE and lock the account row, so that     *)
(* each is one step among them; completeRecovery() is two, its statements  *)
(* and its COMMIT, because the transactions of AuthSessions are not.       *)
(* recovery_epoch is incremented with credential_version and by nothing    *)
(* else: account.version stands for both.                                  *)
(***************************************************************************)
EXTENDS AuthSessions

CONSTANTS
  Tokens,    \* bound: challenges ever issued, each with its token
  Methods,   \* bound: recovery methods ever added
  Keys,      \* idempotency keys of completions
  ColumnMax, \* the largest value of a column of type integer: 2^31 - 1
  EveryEpoch \* Number.MAX_SAFE_INTEGER, 2^53 - 1, an operator's bound

ASSUME RecoveryAssumption ==
  ColumnMax \in Nat /\ EveryEpoch \in Nat /\ MaxVersion <= ColumnMax

VARIABLES
  lock,         \* accounts.recovery_locked
  challenge,    \* the rows of account_recovery_challenges
  method,       \* the rows of account_recovery_methods
  idempotency   \* the succeeded completion of each key

recoveryVars == <<lock, challenge, method, idempotency>>
allVars == <<vars, recoveryVars>>

None == [pc |-> "none"]
NoMethod == [method |-> "none"]
Purposes == {"account_recovery", "method_enrollment", "method_replacement"}
Challenges == [state : {"pending", "used", "expired", "invalidated"},
               purpose : Purposes, method : Methods \union {NoMethod},
               epoch : Versions, age : {"fresh", "expired"}]
MethodStates == {"unused", "pending", "verified", "revoked"}
Completions == [token : Tokens, password : Passwords]

\* What a recovery request carries from one step to the next.
Issues == [pc : {"issueToken"}, version : Versions]
Recoveries == [pc : {"recover"}, key : Keys, token : Tokens, password : Passwords]
RecoveryCommits ==
  [pc : {"commitRecovery"}, revoking : SUBSET SessionIds, key : Keys,
   token : Tokens, password : Passwords, version : Versions]
Answers ==
  [pc : {"publish", "answer"}, key : Keys, token : Tokens, password : Passwords]
Failed == [pc |-> "failed"]
Verifications == [pc : {"verifyMethod"}, token : Tokens, seen : Challenges]

RecoveryInit ==
  /\ Init
  /\ lock = "unlocked"
  /\ challenge = [t \in Tokens |-> None]
  /\ method = [m \in Methods |-> "unused"]
  /\ idempotency = [k \in Keys |-> None]

--------------------------------------------------------------------------------
(* Challenges *)

Pending(t) == challenge[t] # None /\ challenge[t].state = "pending"

\* A challenge that may be redeemed now.
Current(t) ==
  /\ Pending(t)
  /\ challenge[t].age = "fresh"
  /\ challenge[t].epoch = account.version
  /\ lock = "unlocked"

Challenge(t, purpose, m) ==
  challenge' = [challenge EXCEPT ![t] =
    [state |-> "pending", purpose |-> purpose, method |-> m,
     epoch |-> account.version, age |-> "fresh"]]

\* (mutant) a challenge that was used is invalidated, too
InvalidatedAll(epoch) ==
  [t \in Tokens |-> IF challenge[t] # None /\ challenge[t].epoch < epoch
                    THEN [challenge[t] EXCEPT !.state = "invalidated"] ELSE challenge[t]]
\* invalidateChallenges()
Invalidated(epoch) ==
  [t \in Tokens |-> IF Pending(t) /\ challenge[t].epoch < epoch
                    THEN [challenge[t] EXCEPT !.state = "invalidated"] ELSE challenge[t]]

--------------------------------------------------------------------------------
(* requestRecovery(); one whose key was used before issues nothing.            *)

RequestRecovery(r) ==
  /\ op[r] = Idle /\ lock = "unlocked"
  /\ Enter(r, [pc |-> "issueToken", version |-> account.version])
  /\ UNCHANGED <<account, sessions, recoveryVars>>

\* In the transaction the account is read again.
IssueToken(r, t) ==
  /\ op[r].pc = "issueToken" /\ ~AccountLocked
  /\ challenge[t] = None
  /\ lock = "unlocked" /\ op[r].version = account.version
  /\ Challenge(t, "account_recovery", NoMethod)
  /\ Leave(r)
  /\ UNCHANGED <<account, sessions, lock, method, idempotency>>

--------------------------------------------------------------------------------
(* completeRecovery() *)

\* The key was not used, and the new password is being hashed.
CompleteRecovery(r, k, t, new) ==
  /\ op[r] = Idle
  /\ idempotency[k] = None /\ challenge[t] # None
  /\ Enter(r, [pc |-> "recover", key |-> k, token |-> t, password |-> new])
  /\ UNCHANGED <<account, sessions, recoveryVars>>

AnswerOf(step, k, t, password) ==
  [pc |-> step, key |-> k, token |-> t, password |-> password]

\* The same completion had succeeded before: the same answer again.
Repeated(r, k, t, new) ==
  /\ idempotency[k] = [token |-> t, password |-> new]
  /\ Enter(r, AnswerOf("answer", k, t, new))
  /\ UNCHANGED <<account, sessions, recoveryVars>>
RepeatCompletion(r, k, t, new) == op[r] = Idle /\ Repeated(r, k, t, new)
RepeatInTransaction(r) ==
  /\ op[r].pc = "recover" /\ ~AccountLocked
  /\ Repeated(r, op[r].key, op[r].token, op[r].password)

\* (mutant) the sessions stay
RevokingNone == {}
\* revokeAllSessions() in the transaction of the recovery.
Revoking == Live

\* In the transaction everything is asked again.
Redeem(r) ==
  LET h == op[r] IN
  /\ h.pc = "recover" /\ ~AccountLocked
  /\ idempotency[h.key] = None
  /\ Current(h.token) /\ challenge[h.token].purpose = "account_recovery"
  /\ account.version < MaxVersion
  /\ \A s \in Live : ~SessionLocked(s)
  /\ Enter(r, [pc |-> "commitRecovery", revoking |-> Revoking, key |-> h.key,
               token |-> h.token, password |-> h.password,
               version |-> account.version + 1])
  /\ UNCHANGED <<account, sessions, recoveryVars>>

CommitRecovery(r) ==
  LET h == op[r] IN
  /\ h.pc = "commitRecovery"
  /\ CommitAccount(r)
  /\ sessions' = Revoked(h.revoking)
  /\ challenge' = [Invalidated(h.version) EXCEPT ![h.token] =
                     [challenge[h.token] EXCEPT !.state = "used"]]
  /\ idempotency' = [idempotency EXCEPT ![h.key] =
                       [token |-> h.token, password |-> h.password]]
  /\ Enter(r, AnswerOf("publish", h.key, h.token, h.password))
  /\ UNCHANGED <<lock, method>>

\* The hub is told after the commit; when it fails, the completion answers
\* recovery_failed (Abandon).
Publish(r) ==
  /\ op[r].pc = "publish"
  /\ Enter(r, [op[r] EXCEPT !.pc = "answer"])
  /\ UNCHANGED <<account, sessions, recoveryVars>>
Answer(r) ==
  /\ op[r].pc = "answer"
  /\ Leave(r)
  /\ UNCHANGED <<account, sessions, recoveryVars>>

--------------------------------------------------------------------------------
(* Recovery methods *)

\* startMethod() and replaceMethod()
AddMethod(m, t, purpose) ==
  /\ ~AccountLocked /\ lock = "unlocked"
  /\ method[m] = "unused" /\ challenge[t] = None
  /\ method' = [method EXCEPT ![m] = "pending"]
  /\ Challenge(t, purpose, m)
  /\ UNCHANGED <<vars, lock, idempotency>>
StartMethod(m, t) == AddMethod(m, t, "method_enrollment")
ReplaceMethod(old, m, t) ==
  method[old] = "verified" /\ AddMethod(m, t, "method_replacement")

\* verifyMethod() reads the challenge before its transaction...
FindChallenge(r, t) ==
  /\ op[r] = Idle
  /\ Pending(t) /\ challenge[t].purpose # "account_recovery"
  /\ Enter(r, [pc |-> "verifyMethod", token |-> t, seen |-> challenge[t]])
  /\ UNCHANGED <<account, sessions, recoveryVars>>

\* ...which consumes it by the version read, and needs the method pending.
VerifyMethod(r) ==
  LET h == op[r]
      m == h.seen.method IN
  /\ h.pc = "verifyMethod" /\ ~AccountLocked
  /\ h.seen.epoch = account.version /\ lock = "unlocked"
  /\ Pending(h.token) /\ challenge[h.token].age = "fresh"
  /\ method[m] = "pending"
  /\ challenge' = [challenge EXCEPT ![h.token].state = "used"]
  /\ method' = [method EXCEPT ![m] = "verified"]
  /\ Leave(r)
  /\ UNCHANGED <<account, sessions, lock, idempotency>>

RevokeMethod(m) ==
  /\ method[m] \in {"pending", "verified"}
  /\ method' = [method EXCEPT ![m] = "revoked"]
  /\ UNCHANGED <<vars, lock, challenge, idempotency>>

--------------------------------------------------------------------------------
(* The operator, and time *)

\* PostgreSQL takes the bound of invalidateChallenges() for an integer, as the
\* column is; a bound beyond it is an error, and the transaction rolls back.
Command(r, epoch, state) ==
  /\ op[r] = Idle /\ ~AccountLocked
  /\ IF epoch <= ColumnMax
     THEN lock' = state /\ challenge' = Invalidated(epoch) /\ UNCHANGED op
     ELSE Enter(r, Failed) /\ UNCHANGED <<lock, challenge>>
  /\ UNCHANGED <<account, sessions, method, idempotency>>
OperatorLock(r) == Command(r, EveryEpoch, "locked")
OperatorUnlock(r) == Command(r, 0, "unlocked")
OperatorInvalidate(r) == Command(r, EveryEpoch, lock)

\* setOperatorLock(), which no route calls, invalidates nothing.
SetOperatorLock(state) ==
  /\ ~AccountLocked
  /\ lock' = state
  /\ UNCHANGED <<vars, challenge, method, idempotency>>

OperatorRevoke ==
  /\ ~AccountLocked
  /\ method' = [m \in Methods |-> IF method[m] = "unused" THEN "unused" ELSE "revoked"]
  /\ UNCHANGED <<vars, lock, challenge, idempotency>>

ExpiryPasses(t) ==
  /\ challenge[t] # None /\ challenge[t].age = "fresh"
  /\ challenge' = [challenge EXCEPT ![t].age = "expired"]
  /\ UNCHANGED <<vars, lock, method, idempotency>>
\* FOR UPDATE SKIP LOCKED: not the rows that a redemption has updated.
ExpireChallenges(t) ==
  /\ Pending(t) /\ challenge[t].age = "expired"
  /\ \A r \in Requests : op[r].pc # "commitRecovery"
  /\ challenge' = [challenge EXCEPT ![t].state = "expired"]
  /\ UNCHANGED <<vars, lock, method, idempotency>>

--------------------------------------------------------------------------------
RecoverySteps(r) ==
  \/ RequestRecovery(r) \/ RepeatInTransaction(r) \/ Redeem(r) \/ CommitRecovery(r)
  \/ Publish(r) \/ Answer(r) \/ VerifyMethod(r)
  \/ OperatorLock(r) \/ OperatorUnlock(r) \/ OperatorInvalidate(r)
  \/ \E t \in Tokens : IssueToken(r, t) \/ FindChallenge(r, t)
  \/ \E k \in Keys, t \in Tokens, p \in Passwords :
       CompleteRecovery(r, k, t, p) \/ RepeatCompletion(r, k, t, p)

MethodSteps ==
  \E m \in Methods :
    \/ RevokeMethod(m)
    \/ \E t \in Tokens : \/ StartMethod(m, t)
                         \/ \E old \in Methods : ReplaceMethod(old, m, t)

RecoveryNext ==
  \/ Next /\ UNCHANGED recoveryVars
  \/ \E r \in Requests : RecoverySteps(r)
  \/ MethodSteps
  \/ \E state \in {"locked", "unlocked"} : SetOperatorLock(state)
  \/ OperatorRevoke
  \/ \E t \in Tokens : ExpiryPasses(t) \/ ExpireChallenges(t)

RecoverySpec == RecoveryInit /\ [][RecoveryNext]_allVars

--------------------------------------------------------------------------------
(* Properties *)

RecoveryTypeOK ==
  /\ account \in Accounts
  /\ sessions \in [SessionIds -> SessionRows \union {Unused}]
  /\ op \in [Requests -> {Idle} \union Logins \union Checks \union Changes
               \union Commits \union Revocations \union Issues \union Recoveries
               \union {Failed} \union RecoveryCommits \union Answers \union Verifications]
  /\ lock \in {"locked", "unlocked"}
  /\ challenge \in [Tokens -> Challenges \union {None}]
  /\ method \in [Methods -> MethodStates]
  /\ idempotency \in [Keys -> Completions \union {None}]

\* A token that was used, expired or invalidated stays so: it is used at most
\* once, by whichever of concurrent completions, verifications and operators
\* came first.
TokenFinal ==
  [][\A t \in Tokens :
       challenge[t] # None /\ challenge[t].state # "pending"
         => challenge'[t].state = challenge[t].state]_allVars

\* The token of a recovery is valid when the recovery commits: no operator and
\* no change of credentials came between its check and its COMMIT.
RedeemedWhileCurrent ==
  [][\A r \in Requests :
       CommitRecovery(r) => Pending(op[r].token) /\ lock = "unlocked"
                            /\ challenge[op[r].token].epoch = account.version]_allVars

\* While the operator's lock is on, no token is issued or used, not even by
\* requests that began before it.
LockHolds ==
  [][lock = "locked" => \A t \in Tokens :
       \/ challenge[t] = None /\ challenge'[t] = None
       \/ /\ challenge[t] # None
          /\ challenge'[t].state = "used" => challenge[t].state = "used"]_allVars

\* A method is verified by its own pending challenge, although that was read
\* before the transaction; a revoked method never returns.
VerifiedByOwnChallenge ==
  [][\A m \in Methods :
       /\ method[m] = "revoked" => method'[m] = "revoked"
       /\ method[m] # "verified" /\ method'[m] = "verified" =>
            \E t \in Tokens : /\ Pending(t) /\ challenge[t].method = m
                              /\ challenge[t].epoch = account.version
                              /\ challenge'[t].state = "used"]_allVars

\* Whoever is told that its completion succeeded is told so of its own token and
\* password: a key reused with others, at once or later, gets neither a second
\* change of the credentials nor the answer to the first.
SuccessIsOwn ==
  \A r \in Requests : op[r].pc \in {"publish", "answer"} =>
    idempotency[op[r].key] = [token |-> op[r].token, password |-> op[r].password]

\* An operator may lock and invalidate the recovery state of an account
\* (docs/architecture/account-recovery-and-verification.md:166): the commands of
\* operatorLock() and operatorInvalidate() do not fail.
OperatorsObeyed == \A r \in Requests : op[r] # Failed

\* Tokens, completions and methods under concurrent recoveries, operators and
\* changes of the password.
TokensSound ==
  /\ [](RecoveryTypeOK /\ SuccessIsOwn)
  /\ LockHolds /\ TokenFinal /\ RedeemedWhileCurrent /\ VerifiedByOwnChallenge

\* To the password and the sessions a recovery is a reset of the credentials, and
\* everything else about recovery is nothing: whatever logins, changes, operators
\* and expiries come between its steps, AuthSessions could have done the same.
RecoveryPcs ==
  {"issueToken", "recover", "publish", "answer", "failed", "verifyMethod"}
AsReset(o) ==
  CASE o.pc = "commitRecovery" ->
         [pc |-> "commitReset", revoking |-> o.revoking, current |-> account.password,
          password |-> o.password, version |-> o.version]
    [] o.pc \in RecoveryPcs -> Idle
    [] OTHER -> o
Credentials == INSTANCE AuthSessions WITH op <- [r \in Requests |-> AsReset(op[r])]
ImplementsSessions ==
  Credentials!Init /\ [][UNCHANGED Credentials!vars \/ Credentials!Next]_allVars

================================================================================
