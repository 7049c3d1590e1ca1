----------------------------- MODULE RecoveryProofs -----------------------------
(* Theorems about AuthSessions, and about AccountRecovery, which adds requests *)
(* of its own to the same account, for any requests, sessions, passwords,      *)
(* tokens, methods and keys; about SchemaUpgrade and about BackupRestore.       *)
EXTENDS MCRecovery, SequenceTheorems, FiniteSetTheorems, TLAPS

Ops == {Idle} \union Logins \union Checks \union Changes \union Commits
         \union Revocations

LEMMA VersionFacts ==
  /\ 1 \in Versions
  /\ \A v \in Versions : v + 1 \in Versions /\ v + 1 # v /\ v <= v /\ v <= v + 1
  /\ \A v, w \in Versions : v <= w => v # w + 1
  /\ \A v, w \in Versions : v <= w => v <= w + 1
BY DEF Versions

\* The kinds of records are told apart by pc, or by the lack of one.
LEMMA Kinds ==
  /\ \A o \in Logins : o # Idle /\ o.pc \in {"rehash", "issue"}
  /\ \A o \in Checks : o # Idle /\ o.pc \in {"account", "touch"}
  /\ \A o \in Changes : o # Idle /\ o.pc \in {"change", "reset"}
  /\ \A o \in Commits : o # Idle /\ o.pc \in {"commitChange", "commitReset"}
  /\ \A o \in Revocations : o # Idle /\ o.pc = "commitRevoke"
  /\ Idle.pc = "idle"
BY DEF Logins, Checks, Changes, Commits, Revocations, Idle

\* What requests of another module may remember, when they share the account.
SessionPcs ==
  {"idle", "rehash", "issue", "account", "touch", "change", "reset", "commitChange",
   "commitReset", "commitRevoke"}
Foreign(kinds) ==
  \A o \in kinds : /\ o # Idle /\ o.pc \notin SessionPcs
                   /\ o.pc = "commitRecovery" => o.revoking \in SUBSET SessionIds

LEMMA RowKinds == \A row \in SessionRows : row # Unused
<1>1. \A row \in SessionRows : row.state # "unused"
  BY DEF SessionRows
<1> QED
  BY <1>1 DEF Unused

LEMMA IssuedType ==
  ASSUME NEW v \in Versions, NEW p \in Passwords
  PROVE  /\ Issued(v, p) \in SessionRows
         /\ Issued(v, p).version = v /\ Issued(v, p).proof = p
BY DEF Issued, SessionRows

--------------------------------------------------------------------------------
(* Types, where some requests may be of other kinds.  A transaction revokes   *)
(* sessions that were issued, and one at a time writes the account.           *)

RevokesIssued ==
  \A r \in Requests : Committing(r) =>
    \A s \in op[r].revoking : sessions[s] # Unused

Writers == {"commitChange", "commitReset", "commitRecovery"}
OneWriter ==
  \A r, q \in Requests : op[r].pc \in Writers /\ op[q].pc \in Writers => r = q

LEMMA RevokedType ==
  ASSUME sessions \in [SessionIds -> SessionRows \union {Unused}],
         NEW set \in SUBSET SessionIds, \A s \in set : sessions[s] # Unused
  PROVE  /\ Revoked(set) \in [SessionIds -> SessionRows \union {Unused}]
         /\ \A s \in SessionIds :
              /\ Revoked(set)[s] = Unused <=> sessions[s] = Unused
              /\ sessions[s] # Unused =>
                   /\ Revoked(set)[s].version = sessions[s].version
                   /\ Revoked(set)[s].proof = sessions[s].proof
<1>1. ASSUME NEW s \in SessionIds, sessions[s] # Unused
      PROVE  /\ [sessions[s] EXCEPT !.state = "revoked"] \in SessionRows
             /\ [sessions[s] EXCEPT !.state = "revoked"].version = sessions[s].version
             /\ [sessions[s] EXCEPT !.state = "revoked"].proof = sessions[s].proof
  <2>1. sessions[s] \in SessionRows
    BY <1>1
  <2> QED
    BY <2>1 DEF SessionRows
<1> QED
  BY <1>1, RowKinds DEF Revoked

\* What any step does to the rows of sessions: none is forgotten, and only
\* their state and age change once they are issued.
SessionChange ==
  \A s \in SessionIds : sessions[s] # Unused =>
    /\ sessions'[s] # Unused
    /\ sessions'[s].version = sessions[s].version
    /\ sessions'[s].proof = sessions[s].proof

\* What any step does to the account and to requests: one of them goes on, it takes
\* the lock only when that is free, and writes the account only with the lock.
Proceeds ==
  \/ UNCHANGED <<account, op>>
  \/ \E r \in Requests, o \in Ops :
       /\ op[r].pc \in SessionPcs \/ o = Idle
       /\ Enter(r, o)
       /\ o.pc \in Writers => ~AccountLocked
       /\ account' # account => ~AccountLocked \/ op[r].pc \in Writers

RowsTyped(kinds) ==
  /\ account \in Accounts
  /\ sessions \in [SessionIds -> SessionRows \union {Unused}]
  /\ op \in [Requests -> Ops \union kinds]
  /\ RevokesIssued
TypeInv(kinds) == RowsTyped(kinds) /\ OneWriter

LEMMA TypeInit == ASSUME NEW kinds PROVE Init => TypeInv(kinds)
<1> SUFFICES ASSUME Init PROVE TypeInv(kinds)
  OBVIOUS
<1>1. account \in Accounts
  BY AuthAssumption, VersionFacts DEF Init, Accounts
<1>2. \A r \in Requests : ~Committing(r) /\ op[r].pc \notin Writers
  BY Kinds DEF Init, Committing, Writers
<1> QED
  BY <1>1, <1>2 DEF Init, TypeInv, RowsTyped, RevokesIssued, OneWriter, Ops

LEMMA AgeType ==
  ASSUME NEW row \in SessionRows, NEW age \in {"fresh", "idle", "expired"}
  PROVE  /\ [row EXCEPT !.age = age] \in SessionRows
         /\ [row EXCEPT !.age = age].version = row.version
         /\ [row EXCEPT !.age = age].proof = row.proof
BY DEF SessionRows

LEMMA TypeStep ==
  ASSUME NEW kinds, Foreign(kinds), TypeInv(kinds), [Next]_vars
  PROVE  TypeInv(kinds)' /\ SessionChange /\ Proceeds
<1> USE DEF TypeInv, RowsTyped
<1> DEFINE Good == RowsTyped(kinds)' /\ SessionChange /\ Proceeds
<1>0. /\ account.password \in Passwords /\ account.version \in Versions
      /\ \A r \in Requests : op[r] \in Ops \union kinds
      /\ \A r \in Requests : op[r] \in kinds => op[r] # Idle /\ op[r].pc \notin SessionPcs
      /\ \A s \in SessionIds : sessions[s] # Unused => sessions[s] \in SessionRows
  BY DEF Accounts, Foreign
\* Steps that only move a request on.
<1>1. ASSUME NEW r \in Requests, NEW o \in Ops,
             o.pc \in {"commitChange", "commitReset", "commitRecovery", "commitRevoke"} =>
               o.revoking \subseteq Live,
             op[r].pc \in SessionPcs \/ o = Idle, o.pc \in Writers => ~AccountLocked,
             Enter(r, o), UNCHANGED <<account, sessions>>
      PROVE  Good
  <2>1. Proceeds
    BY <1>1 DEF Proceeds
  <2> QED
    BY <1>0, <1>1, <2>1 DEF Enter, RevokesIssued, Committing, Live, SessionChange
<1>2. Live \subseteq SessionIds /\ \A s \in Live : sessions[s] # Unused
  BY DEF Live
<1>3. ASSUME UNCHANGED vars PROVE Good
  BY <1>3 DEF vars, RevokesIssued, Committing, SessionChange, Proceeds
<1>4. ASSUME NEW r \in Requests, NEW p \in Passwords, Login(r, p)
      PROVE  Good
  <2> DEFINE o == [pc |-> IF account.format = "outdated" THEN "rehash" ELSE "issue",
                   password |-> p, version |-> account.version]
  <2>1. o \in Logins
    BY <1>0 DEF Logins
  <2> QED
    BY <1>1, <1>4, <2>1, Kinds DEF Login, Ops, SessionPcs, Writers
<1>5. ASSUME NEW r \in Requests, NEW p \in Passwords, ResetCredentials(r, p)
      PROVE  Good
  <2> DEFINE o == [pc |-> "commitReset", revoking |-> Live,
                   current |-> account.password, password |-> p,
                   version |-> account.version + 1]
  <2>1. o \in Commits
    BY <1>0, <1>2, VersionFacts DEF Commits
  <2> QED
    BY <1>1, <1>5, <2>1, Kinds DEF ResetCredentials, Ops, SessionPcs
<1>6. ASSUME NEW r \in Requests, NEW p \in Passwords, NEW q \in Passwords,
             ChangePassword(r, p, q)
      PROVE  Good
  <2> DEFINE o == [pc |-> "change", current |-> p, password |-> q,
                   version |-> account.version]
  <2>1. o \in Changes
    BY <1>0 DEF Changes
  <2> QED
    BY <1>1, <1>6, <2>1, Kinds DEF ChangePassword, Ops, SessionPcs, Writers
<1>7. ASSUME NEW r \in Requests, ChangeCredentials(r)
      PROVE  Good
  <2> DEFINE o == [pc |-> "commitChange", revoking |-> Live,
                   current |-> op[r].current, password |-> op[r].password,
                   version |-> account.version + 1]
  <2>1. op[r] \in Changes
    BY <1>0, <1>7, Kinds DEF ChangeCredentials, Ops, SessionPcs
  <2>2. o \in Commits
    BY <1>0, <1>2, <2>1, VersionFacts DEF Commits, Changes
  <2> QED
    BY <1>1, <1>7, <2>2 DEF ChangeCredentials, Ops, SessionPcs
<1>8. ASSUME NEW r \in Requests, NEW s \in SessionIds, FindSession(r, s)
      PROVE  Good
  <2> DEFINE o == [pc |-> "account", session |-> s, seen |-> sessions[s],
                   began |-> IF Usable(s) THEN "usable" ELSE "dead"]
  <2>1. o \in Checks
    BY <1>0, <1>8 DEF FindSession, Checks
  <2> QED
    BY <1>1, <1>8, <2>1, Kinds DEF FindSession, Ops, SessionPcs, Writers
<1>9. ASSUME NEW r \in Requests, CheckAccount(r)
      PROVE  Good
  <2>1. op[r] \in Checks
    BY <1>0, <1>9, Kinds DEF CheckAccount, Ops, SessionPcs
  <2>2. [op[r] EXCEPT !.pc = "touch"] \in Checks
    BY <2>1 DEF Checks
  <2> QED
    BY <1>1, <1>9, <2>2, Kinds DEF CheckAccount, Ops, SessionPcs, Writers
<1>10. ASSUME NEW r \in Requests, NEW set \in SUBSET Live, Revoke(r, set)
       PROVE  Good
  <2> DEFINE o == [pc |-> "commitRevoke", revoking |-> set]
  <2>1. o \in Revocations
    BY <1>2 DEF Revocations
  <2> QED
    BY <1>1, <1>10, <2>1, Kinds DEF Revoke, Ops, SessionPcs, Writers
<1>11. ASSUME NEW r \in Requests, Abandon(r) PROVE Good
  BY <1>1, <1>11, Kinds DEF Abandon, Leave, Ops, SessionPcs, Writers
\* Steps that write rows.
<1>22. ASSUME NEW r \in Requests, op[r].pc \in SessionPcs, Leave(r),
              account' # account => op[r].pc \in Writers
       PROVE  Proceeds /\ op' \in [Requests -> Ops \union kinds] /\ ~Committing(r)'
  BY <1>22, Kinds DEF Proceeds, Leave, Enter, Ops, Writers, Committing
<1>12. ASSUME NEW r \in Requests, Rehash(r) PROVE Good
  <2>1. op[r] \in Logins
    BY <1>0, <1>12, Kinds DEF Rehash, Ops, SessionPcs
  <2>2. [op[r] EXCEPT !.pc = "issue"] \in Logins
    BY <2>1 DEF Logins
  <2>3. account' \in Accounts
    BY <1>12, <2>1 DEF Rehash, Logins, Accounts
  <2>4. ~Committing(r)'
    BY <1>12, <2>2, Kinds DEF Rehash, Enter, Committing
  <2>5. Proceeds
    BY <1>12, <2>2, Kinds DEF Rehash, Proceeds, Ops, SessionPcs, Writers
  <2> QED
    BY <1>12, <2>2, <2>3, <2>4, <2>5, Kinds
       DEF Rehash, Enter, RevokesIssued, Committing, SessionChange, Ops
<1>13. ASSUME NEW r \in Requests, NEW s \in SessionIds, IssueSession(r, s)
       PROVE  Good
  <2>1. op[r] \in Logins
    BY <1>0, <1>13, Kinds DEF IssueSession, Ops, SessionPcs
  <2>2. Issued(op[r].version, op[r].password) \in SessionRows
    BY <2>1, IssuedType DEF Logins
  <2>3. Proceeds /\ op' \in [Requests -> Ops \union kinds] /\ ~Committing(r)'
    BY <1>13, <1>22 DEF IssueSession, SessionPcs
  <2> QED
    BY <1>0, <1>13, <2>2, <2>3, Kinds, RowKinds
       DEF IssueSession, Leave, Enter, RevokesIssued, Committing, SessionChange
<1>14. ASSUME NEW r \in Requests, TouchSession(r) PROVE Good
  <2> DEFINE s == op[r].session
             age == IF sessions[s].age = "idle" THEN "fresh" ELSE sessions[s].age
  <2>1. s \in SessionIds /\ sessions[s] \in SessionRows
    BY <1>0, <1>14 DEF TouchSession, Accepts, Live
  <2>2. age \in {"fresh", "idle", "expired"}
    BY <2>1 DEF SessionRows
  <2>3. sessions' = [sessions EXCEPT ![s] = [sessions[s] EXCEPT !.age = age]]
    BY <1>14 DEF TouchSession
  <2> HIDE DEF s, age
  <2>4. op' = [op EXCEPT ![r] = Idle] /\ UNCHANGED account
    BY <1>14 DEF TouchSession, Leave, Enter
  <2>6. Proceeds /\ op' \in [Requests -> Ops \union kinds] /\ ~Committing(r)'
    BY <1>14, <1>22 DEF TouchSession, Accepts, SessionPcs
  <2>5. [sessions[s] EXCEPT !.age = age] \in SessionRows
        /\ [sessions[s] EXCEPT !.age = age].version = sessions[s].version
        /\ [sessions[s] EXCEPT !.age = age].proof = sessions[s].proof
    BY <2>1, <2>2, AgeType
  <2> QED
    BY <2>1, <2>3, <2>4, <2>5, <2>6, Kinds, RowKinds
       DEF RevokesIssued, Committing, SessionChange
<1>15. ASSUME NEW s \in SessionIds, NEW age \in {"idle", "expired"}, Expire(s, age)
       PROVE  Good
  <2>1. sessions[s] \in SessionRows
    BY <1>0, <1>15 DEF Expire
  <2>2. /\ sessions' = [sessions EXCEPT ![s] = [sessions[s] EXCEPT !.age = age]]
        /\ UNCHANGED <<account, op>>
    BY <1>15 DEF Expire
  <2>3. [sessions[s] EXCEPT !.age = age] \in SessionRows
        /\ [sessions[s] EXCEPT !.age = age].version = sessions[s].version
        /\ [sessions[s] EXCEPT !.age = age].proof = sessions[s].proof
    BY <2>1, AgeType
  <2> QED
    BY <2>2, <2>3, RowKinds DEF RevokesIssued, Committing, SessionChange, Proceeds
<1>16. ASSUME NEW r \in Requests, Committing(r), op[r].pc \in SessionPcs
       PROVE  /\ op[r].revoking \in SUBSET SessionIds
              /\ Revoked(op[r].revoking) \in [SessionIds -> SessionRows \union {Unused}]
              /\ \A s \in SessionIds :
                   /\ Revoked(op[r].revoking)[s] = Unused <=> sessions[s] = Unused
                   /\ sessions[s] # Unused =>
                        /\ Revoked(op[r].revoking)[s].version = sessions[s].version
                        /\ Revoked(op[r].revoking)[s].proof = sessions[s].proof
  <2>1. op[r] \in Commits \union Revocations
    BY <1>0, <1>16, Kinds DEF Committing, Ops
  <2>2. op[r].revoking \in SUBSET SessionIds
    BY <2>1 DEF Commits, Revocations
  <2> QED
    BY <1>16, <2>2, RevokedType DEF RevokesIssued
<1>25. ASSUME NEW r \in Requests, Leave(r), ~Committing(r)', SessionChange
       PROVE  RevokesIssued'
  <2>1. \A q \in Requests : q # r => op'[q] = op[q]
    BY <1>25 DEF Leave, Enter
  <2>2. \A q \in Requests : Committing(q) => op[q].revoking \subseteq SessionIds
    <3> SUFFICES ASSUME NEW q \in Requests, Committing(q)
                 PROVE  op[q].revoking \subseteq SessionIds
      OBVIOUS
    <3>1. CASE op[q].pc \in SessionPcs
      BY <1>16, <3>1
    <3>2. CASE op[q].pc \notin SessionPcs
      <4>1. op[q] \notin Ops
        BY <3>2, Kinds DEF Ops, SessionPcs
      <4>2. op[q] \in kinds /\ op[q].pc = "commitRecovery"
        BY <1>0, <3>2, <4>1 DEF Committing, SessionPcs
      <4> QED
        BY <4>2 DEF Foreign
    <3> QED
      BY <3>1, <3>2
  <2> QED
    BY <1>25, <2>1, <2>2 DEF RevokesIssued, Committing, SessionChange
<1>17. ASSUME NEW r \in Requests, CommitRevoke(r) PROVE Good
  <2>1. Proceeds /\ op' \in [Requests -> Ops \union kinds] /\ ~Committing(r)'
    BY <1>17, <1>22 DEF CommitRevoke, SessionPcs
  <2>2. SessionChange /\ sessions' \in [SessionIds -> SessionRows \union {Unused}]
    BY <1>16, <1>17 DEF CommitRevoke, SessionPcs, Committing, SessionChange
  <2> QED
    BY <1>17, <1>25, <2>1, <2>2 DEF CommitRevoke
<1>18. ASSUME NEW r \in Requests, op[r].pc \in {"commitChange", "commitReset"},
              CommitAccount(r)
       PROVE  account' \in Accounts /\ op[r] \in Commits
  <2>1. op[r] \in Commits
    BY <1>0, <1>18, Kinds DEF Ops, SessionPcs
  <2> QED
    BY <1>18, <2>1 DEF CommitAccount, Commits, Accounts
<1>19. ASSUME NEW r \in Requests, CommitReset(r) PROVE Good
  <2>1. Proceeds /\ op' \in [Requests -> Ops \union kinds] /\ ~Committing(r)'
    BY <1>19, <1>22 DEF CommitReset, SessionPcs, Writers
  <2>2. SessionChange /\ sessions' \in [SessionIds -> SessionRows \union {Unused}]
    BY <1>16, <1>19 DEF CommitReset, SessionPcs, Committing, SessionChange
  <2> QED
    BY <1>18, <1>19, <1>25, <2>1, <2>2 DEF CommitReset
<1>20. ASSUME NEW r \in Requests, NEW s \in SessionIds, CommitChange(r, s)
       PROVE  Good
  <2>1. account' \in Accounts /\ op[r] \in Commits
    BY <1>18, <1>20 DEF CommitChange
  <2>2. Issued(op[r].version, op[r].password) \in SessionRows
    BY <2>1, IssuedType DEF Commits
  <2>3. Proceeds /\ op' \in [Requests -> Ops \union kinds] /\ ~Committing(r)'
    BY <1>20, <1>22 DEF CommitChange, SessionPcs, Writers
  <2>4. SessionChange /\ sessions' \in [SessionIds -> SessionRows \union {Unused}]
    BY <1>16, <1>20, <2>2, RowKinds DEF CommitChange, SessionPcs, Committing, SessionChange
  <2> QED
    BY <1>20, <1>25, <2>1, <2>3, <2>4 DEF CommitChange
<1>21. ASSUME NEW r \in Requests,
              LogoutAll(r) \/ \E s \in SessionIds : Logout(r, s) \/ LogoutOthers(r, s)
       PROVE  \E set \in SUBSET Live : Revoke(r, set)
  BY <1>21 DEF LogoutAll, Logout, LogoutOthers
<1>23. Good
  BY <1>3, <1>4, <1>5, <1>6, <1>7, <1>8, <1>9, <1>10, <1>11, <1>12, <1>13, <1>14,
     <1>15, <1>17, <1>19, <1>20, <1>21 DEF Next
<1>24. OneWriter'
  BY <1>23 DEF Proceeds, OneWriter, AccountLocked, Enter, Writers
<1> QED
  BY <1>23, <1>24

\* Rows and what requests remember keep their types.
THEOREM TypeCorrect == Spec => []TypeOK
<1>1. TypeInv({}) /\ [Next]_vars => TypeInv({})'
  BY TypeStep DEF Foreign
<1>2. TypeInv({}) => TypeOK
  BY DEF TypeInv, RowsTyped, TypeOK, Ops
<1>3. Init => TypeInv({})
  BY TypeInit
<1> QED
  BY <1>1, <1>2, <1>3, PTL DEF Spec

--------------------------------------------------------------------------------
(* Acceptance.  authenticate() reads the session, then the account, and writes *)
(* the deadline last; what it accepts was usable when it began, because the   *)
(* credential version only grows: a session that was of an older one cannot   *)
(* become one of the account's.                                               *)

VersionOp(o) ==
  /\ o.pc \in {"rehash", "issue"} => o.version <= account.version
  /\ o.pc \in {"commitChange", "commitReset"} => o.version = account.version + 1
  /\ o.pc = "account" =>
       /\ o.seen.version <= account.version
       /\ o.began = "dead" => \/ o.seen.state # "live" \/ o.seen.age # "fresh"
                              \/ o.seen.version # account.version
  /\ o.pc = "touch" => o.began = "usable"

VersionInv ==
  /\ \A r \in Requests : VersionOp(op[r])
  /\ \A s \in SessionIds : sessions[s] # Unused => sessions[s].version <= account.version

LEMMA GrowingVersion ==
  ASSUME NEW v \in Versions, NEW w \in Versions, v <= w
  PROVE  /\ \A u \in Versions : u <= v => u <= w
         /\ \A u \in Versions : u <= v /\ u # v => u # w
BY DEF Versions

LEMMA VersionStep ==
  ASSUME TypeInv({}), VersionInv, [Next]_vars
  PROVE  VersionInv'
<1>a. TypeInv({})' /\ SessionChange
  BY TypeStep DEF Foreign
<1> USE DEF TypeInv, RowsTyped, VersionInv
<1>0. /\ SessionChange
      /\ account.version \in Versions /\ account'.version \in Versions
      /\ op \in [Requests -> Ops] /\ \A r \in Requests : op[r] \in Ops
      /\ \A s \in SessionIds : sessions[s] # Unused => sessions[s] \in SessionRows
      /\ \A s \in SessionIds : sessions'[s] # Unused => sessions'[s] \in SessionRows
  BY <1>a DEF Accounts
\* What any step keeps, when the version does not shrink.
<1>1. ASSUME account.version <= account'.version, NEW o \in Ops, VersionOp(o),
             account' = account \/ o.pc \notin {"commitChange", "commitReset"},
             NEW q \in Requests, op'[q] = o
      PROVE  VersionOp(op[q])'
  <2>1. o.pc \in {"rehash", "issue"} => o.version \in Versions
    BY Kinds DEF Ops, Logins
  <2>2. o.pc = "account" => o.seen.version \in Versions
    BY Kinds DEF Ops, Checks, SessionRows
  <2> QED
    BY <1>0, <1>1, <2>1, <2>2, GrowingVersion DEF VersionOp
<1>2. ASSUME account.version <= account'.version,
             \A s \in SessionIds : sessions[s] = Unused /\ sessions'[s] # Unused =>
               sessions'[s].version <= account'.version
      PROVE  \A s \in SessionIds :
               sessions'[s] # Unused => sessions'[s].version <= account'.version
  <2> SUFFICES ASSUME NEW s \in SessionIds, sessions[s] # Unused
               PROVE  sessions'[s].version <= account'.version
    BY <1>2
  <2>1. sessions[s].version \in Versions /\ sessions'[s].version = sessions[s].version
    BY <1>0 DEF SessionRows, SessionChange
  <2> QED
    BY <1>0, <1>2, <2>1, GrowingVersion
\* A step that moves one request on, to o, with the account as it is.
<1>3. ASSUME NEW r \in Requests, NEW o \in Ops, Enter(r, o), VersionOp(o),
             UNCHANGED account,
             \A s \in SessionIds : sessions[s] = Unused /\ sessions'[s] # Unused =>
               sessions'[s].version <= account'.version
      PROVE  VersionInv'
  <2>1. account.version <= account'.version
    BY <1>0, <1>3, VersionFacts
  <2>2. \A q \in Requests : op'[q] = o \/ op'[q] = op[q]
    BY <1>0, <1>3 DEF Enter
  <2>3. (\A q \in Requests : VersionOp(op[q]))'
    BY <1>0, <1>1, <1>3, <2>1, <2>2
  <2> QED
    BY <1>2, <1>3, <2>1, <2>3
<1>4. ASSUME NEW r \in Requests, op[r].pc \in {"commitChange", "commitReset"},
             CommitAccount(r), Leave(r),
             \A s \in SessionIds : sessions[s] = Unused /\ sessions'[s] # Unused =>
               sessions'[s].version = op[r].version
      PROVE  VersionInv'
  <2>1. account'.version = account.version + 1 /\ account'.version = op[r].version
    BY <1>4 DEF CommitAccount, VersionOp
  <2>2. account.version <= account'.version
    BY <1>0, <2>1, VersionFacts
  <2>3. \A q \in Requests :
          q # r => op'[q] = op[q] /\ op[q].pc \notin {"commitChange", "commitReset"}
    BY <1>0, <1>4 DEF OneWriter, Leave, Enter, Writers
  <2>4. VersionOp(Idle) /\ Idle \in Ops /\ op'[r] = Idle
        /\ Idle.pc \notin {"commitChange", "commitReset"}
    BY <1>0, <1>4, Kinds DEF VersionOp, Ops, Leave, Enter
  <2>5. (\A q \in Requests : VersionOp(op[q]))'
    BY <1>0, <1>1, <2>2, <2>3, <2>4
  <2> QED
    BY <1>0, <1>2, <1>4, <2>1, <2>2, <2>5, VersionFacts
\* The actions.
<1>5. VersionOp(Idle) /\ Idle \in Ops
  BY Kinds DEF VersionOp, Ops
<1>6. CASE UNCHANGED vars
  BY <1>6 DEF vars, VersionOp
<1>7. ASSUME NEW r \in Requests, NEW p \in Passwords, Login(r, p) PROVE VersionInv'
  <2> DEFINE o == [pc |-> IF account.format = "outdated" THEN "rehash" ELSE "issue",
                   password |-> p, version |-> account.version]
  <2>1. o \in Logins
    BY <1>0 DEF Logins
  <2>2. o \in Ops /\ VersionOp(o)
    BY <1>0, <2>1, VersionFacts, Kinds DEF VersionOp, Ops
  <2> QED
    BY <1>3, <1>7, <2>2 DEF Login
<1>8. ASSUME NEW r \in Requests, NEW p \in Passwords, ResetCredentials(r, p)
      PROVE  VersionInv'
  <2> DEFINE o == [pc |-> "commitReset", revoking |-> Live,
                   current |-> account.password, password |-> p,
                   version |-> account.version + 1]
  <2>1. o \in Ops /\ VersionOp(o)
    BY <1>0, VersionFacts DEF Commits, Ops, VersionOp, Live, Accounts
  <2> QED
    BY <1>3, <1>8, <2>1 DEF ResetCredentials
<1>9. ASSUME NEW r \in Requests, NEW p \in Passwords, NEW q \in Passwords,
             ChangePassword(r, p, q)
      PROVE  VersionInv'
  <2> DEFINE o == [pc |-> "change", current |-> p, password |-> q,
                   version |-> account.version]
  <2>1. o \in Ops /\ VersionOp(o)
    BY <1>0 DEF Changes, Ops, VersionOp
  <2> QED
    BY <1>3, <1>9, <2>1 DEF ChangePassword
<1>10. ASSUME NEW r \in Requests, ChangeCredentials(r) PROVE VersionInv'
  <2>1. op[r] \in Changes
    BY <1>0, <1>10, Kinds DEF ChangeCredentials, Ops
  <2> DEFINE o == [pc |-> "commitChange", revoking |-> Live,
                   current |-> op[r].current, password |-> op[r].password,
                   version |-> account.version + 1]
  <2>2. o \in Ops /\ VersionOp(o)
    BY <1>0, <2>1, VersionFacts DEF Commits, Changes, Ops, VersionOp, Live
  <2> QED
    BY <1>3, <1>10, <2>2 DEF ChangeCredentials
<1>11. ASSUME NEW r \in Requests, NEW s \in SessionIds, FindSession(r, s)
       PROVE  VersionInv'
  <2> DEFINE o == [pc |-> "account", session |-> s, seen |-> sessions[s],
                   began |-> IF Usable(s) THEN "usable" ELSE "dead"]
  <2>1. o \in Ops
    BY <1>0, <1>11 DEF FindSession, Checks, Ops
  <2>2. VersionOp(o)
    BY <1>11 DEF FindSession, VersionOp, Usable, Live
  <2> QED
    BY <1>3, <1>11, <2>1, <2>2 DEF FindSession
<1>12. ASSUME NEW r \in Requests, CheckAccount(r) PROVE VersionInv'
  <2>1. op[r] \in Checks
    BY <1>0, <1>12, Kinds DEF CheckAccount, Ops
  <2>2. /\ [op[r] EXCEPT !.pc = "touch"] \in Checks
        /\ [op[r] EXCEPT !.pc = "touch"].pc = "touch"
        /\ [op[r] EXCEPT !.pc = "touch"].began = op[r].began
    BY <2>1 DEF Checks
  <2>3. op[r].began = "usable"
    BY <1>12, <2>1 DEF CheckAccount, VersionOp, Checks
  <2> QED
    BY <1>3, <1>12, <2>2, <2>3 DEF CheckAccount, VersionOp, Ops
<1>13. ASSUME NEW r \in Requests, NEW set \in SUBSET Live, Revoke(r, set)
       PROVE  VersionInv'
  <2> DEFINE o == [pc |-> "commitRevoke", revoking |-> set]
  <2>1. o \in Ops /\ VersionOp(o)
    BY DEF Revocations, Ops, VersionOp, Live
  <2> QED
    BY <1>3, <1>13, <2>1 DEF Revoke
<1>14. ASSUME NEW r \in Requests, Abandon(r) PROVE VersionInv'
  BY <1>3, <1>5, <1>14 DEF Abandon, Leave
<1>15. ASSUME NEW r \in Requests, Rehash(r) PROVE VersionInv'
  <2>1. op[r] \in Logins
    BY <1>0, <1>15, Kinds DEF Rehash, Ops
  <2>2. /\ [op[r] EXCEPT !.pc = "issue"] \in Logins
        /\ [op[r] EXCEPT !.pc = "issue"].pc = "issue"
        /\ [op[r] EXCEPT !.pc = "issue"].version = op[r].version
    BY <2>1 DEF Logins
  <2>3. [op[r] EXCEPT !.pc = "issue"] \in Ops /\ VersionOp([op[r] EXCEPT !.pc = "issue"])
    BY <1>15, <2>2 DEF Rehash, VersionOp, Ops
  <2>4. account'.version = account.version /\ account.version <= account'.version
    BY <1>0, <1>15, VersionFacts DEF Rehash, Accounts
  <2>5. \A q \in Requests :
          \/ op'[q] = [op[r] EXCEPT !.pc = "issue"]
          \/ op'[q] = op[q] /\ op[q].pc \notin {"commitChange", "commitReset"}
    BY <1>0, <1>15 DEF Rehash, Enter, AccountLocked
  <2>6. (\A q \in Requests : VersionOp(op[q]))'
    BY <1>0, <1>1, <2>2, <2>3, <2>4, <2>5
  <2> QED
    BY <1>2, <1>15, <2>4, <2>6 DEF Rehash
<1>16. ASSUME NEW r \in Requests, NEW s \in SessionIds, IssueSession(r, s)
       PROVE  VersionInv'
  <2>1. \A t \in SessionIds : sessions[t] = Unused /\ sessions'[t] # Unused =>
          sessions'[t] = Issued(op[r].version, op[r].password)
    BY <1>16 DEF IssueSession
  <2> QED
    BY <1>3, <1>5, <1>16, <2>1 DEF IssueSession, Leave, Issued, VersionOp
<1>17. ASSUME NEW r \in Requests, TouchSession(r) \/ CommitRevoke(r)
       PROVE  VersionInv'
  <2>1. UNCHANGED account /\ Enter(r, Idle)
    BY <1>17 DEF TouchSession, CommitRevoke, Leave
  <2>2. \A t \in SessionIds : sessions[t] = Unused => sessions'[t] = Unused
    <3>1. CASE TouchSession(r)
      BY <3>1 DEF TouchSession, Accepts, Live
    <3>2. CASE CommitRevoke(r)
      BY <3>2 DEF CommitRevoke, Revoked, RevokesIssued, Committing
    <3> QED
      BY <1>17, <3>1, <3>2
  <2> QED
    BY <1>3, <1>5, <2>1, <2>2
<1>18. ASSUME NEW s \in SessionIds, NEW age \in {"idle", "expired"}, Expire(s, age)
       PROVE  VersionInv'
  <2>1. \A t \in SessionIds : sessions[t] = Unused => sessions'[t] = Unused
    BY <1>18 DEF Expire
  <2>2. account.version <= account'.version /\ UNCHANGED <<account, op>>
    BY <1>0, <1>18, VersionFacts DEF Expire
  <2>3. (\A q \in Requests : VersionOp(op[q]))'
    BY <2>2 DEF VersionOp
  <2> QED
    BY <1>2, <2>1, <2>2, <2>3
<1>19. ASSUME NEW r \in Requests, CommitReset(r) PROVE VersionInv'
  <2>1. \A t \in SessionIds : sessions[t] = Unused => sessions'[t] = Unused
    BY <1>19 DEF CommitReset, Revoked, RevokesIssued, Committing
  <2> QED
    BY <1>4, <1>19, <2>1 DEF CommitReset
<1>20. ASSUME NEW r \in Requests, NEW s \in SessionIds, CommitChange(r, s)
       PROVE  VersionInv'
  <2>1. \A t \in SessionIds : sessions[t] = Unused /\ sessions'[t] # Unused =>
          sessions'[t] = Issued(op[r].version, op[r].password)
    BY <1>20 DEF CommitChange, Revoked, RevokesIssued, Committing
  <2> QED
    BY <1>4, <1>20, <2>1 DEF CommitChange, Issued
<1>21. ASSUME NEW r \in Requests,
              LogoutAll(r) \/ \E s \in SessionIds : Logout(r, s) \/ LogoutOthers(r, s)
       PROVE  \E set \in SUBSET Live : Revoke(r, set)
  BY <1>21 DEF LogoutAll, Logout, LogoutOthers
<1> QED
  BY <1>6, <1>7, <1>8, <1>9, <1>10, <1>11, <1>12, <1>13, <1>14, <1>15, <1>16, <1>17,
     <1>18, <1>19, <1>20, <1>21 DEF Next

\* A session that authenticates was usable when its request began, whatever was
\* changed, revoked or expired between the statements.
THEOREM AcceptedSessions == Spec => AcceptedWasUsable
<1> DEFINE A == \A r \in Requests : TouchSession(r) => op[r].began = "usable"
<1>1. Init => TypeInv({}) /\ VersionInv
  <2> SUFFICES ASSUME Init PROVE TypeInv({}) /\ VersionInv
    OBVIOUS
  <2>1. \A r \in Requests : op[r].pc = "idle"
    BY Kinds DEF Init
  <2> QED
    BY <2>1, TypeInit DEF Init, VersionInv, VersionOp
<1>2. TypeInv({}) /\ VersionInv /\ [Next]_vars => TypeInv({})' /\ VersionInv'
  BY TypeStep, VersionStep DEF Foreign
<1>3. TypeInv({}) /\ VersionInv => A
  BY DEF VersionInv, VersionOp, TouchSession, Accepts
<1> QED
  BY <1>1, <1>2, <1>3, PTL DEF Spec, AcceptedWasUsable

--------------------------------------------------------------------------------
(* The inductive invariant behind the password properties.  It needs hashes   *)
(* with the configured parameters: a rehash writes a password back without    *)
(* asking whether it is still the one in force.                               *)

\* A version that is remembered is not newer than the account, and if it is the
\* account's, so is the password that was verified with it.
Knows(version, password) ==
  /\ version \in Versions /\ version <= account.version
  /\ version = account.version => password = account.password

OpInv(o) ==
  /\ o.pc # "rehash"
  /\ o.pc = "issue" => Knows(o.version, o.password)
  /\ o.pc = "change" => Knows(o.version, o.current)
  /\ o.pc \in Writers => o.version = account.version + 1
  /\ o.pc \in {"commitChange", "commitReset"} => o.current = account.password
\* What neither knows a password nor is about to write one.
Harmless(o) == o.pc \notin {"rehash", "issue", "change"} \union Writers

PasswordInv ==
  /\ account.format = "current"
  /\ \A r \in Requests : OpInv(op[r])
  /\ \A s \in SessionIds :
       sessions[s] # Unused => Knows(sessions[s].version, sessions[s].proof)

AuthInv(kinds) == TypeInv(kinds) /\ PasswordInv

LEMMA PasswordInit == Init /\ InitialFormat = "current" => PasswordInv
<1> SUFFICES ASSUME Init, InitialFormat = "current" PROVE PasswordInv
  OBVIOUS
<1>1. \A r \in Requests : op[r].pc = "idle"
  BY Kinds DEF Init
<1> QED
  BY <1>1 DEF Init, PasswordInv, OpInv, Writers

LEMMA HarmlessOp ==
  /\ \A o : Harmless(o) => OpInv(o)
  /\ Harmless(Idle)
BY Kinds DEF Harmless, OpInv, Writers

\* The transaction that commits raises the version past all that is remembered.
LEMMA CommitStep ==
  ASSUME NEW kinds, AuthInv(kinds), NEW r \in Requests, op[r].pc \in Writers,
         CommitAccount(r), NEW o, Enter(r, o), Harmless(o), SessionChange,
         \A s \in SessionIds : sessions[s] = Unused /\ sessions'[s] # Unused =>
           sessions'[s].version = op[r].version /\ sessions'[s].proof = op[r].password
  PROVE  PasswordInv' /\ account'.version # account.version
<1> USE DEF AuthInv, PasswordInv, TypeInv
<1>1. /\ account'.version = account.version + 1 /\ account'.password = op[r].password
      /\ account'.format = "current" /\ op[r].version = account.version + 1
  BY DEF CommitAccount, OpInv
<1>2. account.version \in Versions
  BY DEF RowsTyped, Accounts
<1>3. \A v, p : Knows(v, p) => Knows(v, p)'
  BY <1>1, <1>2, VersionFacts DEF Knows
<1>4. \A v, p : v = account.version + 1 /\ p = op[r].password => Knows(v, p)'
  BY <1>1, <1>2, VersionFacts DEF Knows
<1>5. \A q \in Requests : q # r => op'[q] = op[q] /\ op[q].pc \notin Writers
  BY DEF OneWriter, Enter, RowsTyped
<1>6. op'[r] = o
  BY DEF Enter, RowsTyped
<1>7. \A q \in Requests : OpInv(op[q])'
  <2> SUFFICES ASSUME NEW q \in Requests PROVE OpInv(op[q])'
    OBVIOUS
  <2>1. CASE q = r
    BY <1>6, <2>1 DEF OpInv, Harmless, Writers
  <2>2. CASE q # r
    BY <1>3, <1>5, <2>2 DEF OpInv, Writers
  <2> QED
    BY <2>1, <2>2
<1>8. \A s \in SessionIds :
        sessions'[s] # Unused => Knows(sessions[s].version, sessions[s].proof)'
  <2> SUFFICES ASSUME NEW s \in SessionIds, sessions'[s] # Unused
               PROVE  Knows(sessions[s].version, sessions[s].proof)'
    OBVIOUS
  <2>1. CASE sessions[s] = Unused
    BY <1>1, <1>4, <2>1 DEF Knows
  <2>2. CASE sessions[s] # Unused
    BY <1>3, <2>2 DEF SessionChange, Knows
  <2> QED
    BY <2>1, <2>2
<1> QED
  BY <1>1, <1>2, <1>7, <1>8, VersionFacts

\* A step that leaves the account alone.
LEMMA QuietStep ==
  ASSUME NEW kinds, AuthInv(kinds), UNCHANGED account, NEW r \in Requests, NEW o,
         Enter(r, o), OpInv(o), SessionChange,
         \A s \in SessionIds : sessions[s] = Unused /\ sessions'[s] # Unused =>
           Knows(sessions'[s].version, sessions'[s].proof)
  PROVE  PasswordInv'
<1> USE DEF AuthInv, PasswordInv, TypeInv
<1>1. \A v, p : Knows(v, p) <=> Knows(v, p)'
  BY DEF Knows
<1>2. \A q \in Requests : op'[q] = IF q = r THEN o ELSE op[q]
  BY DEF Enter, RowsTyped
<1>3. \A q \in Requests : OpInv(op[q])'
  BY <1>1, <1>2 DEF OpInv, Knows
<1>5. \A s \in SessionIds :
        sessions'[s] # Unused => Knows(sessions[s].version, sessions[s].proof)'
  <2> SUFFICES ASSUME NEW s \in SessionIds, sessions'[s] # Unused
               PROVE  Knows(sessions[s].version, sessions[s].proof)'
    OBVIOUS
  <2>1. CASE sessions[s] = Unused
    BY <2>1 DEF Knows
  <2>2. CASE sessions[s] # Unused
    BY <2>2 DEF SessionChange, Knows
  <2> QED
    BY <2>1, <2>2
<1> QED
  BY <1>3, <1>5

LEMMA PasswordStep ==
  ASSUME NEW kinds, Foreign(kinds), AuthInv(kinds), [Next]_vars
  PROVE  /\ PasswordInv'
         /\ account'.password # account.password => account'.version # account.version
<1> DEFINE Good == /\ PasswordInv'
                   /\ account'.password # account.password
                        => account'.version # account.version
<1> USE DEF AuthInv
<1>0. /\ SessionChange
      /\ account.version \in Versions /\ account.password \in Passwords
      /\ account.format = "current"
      /\ \A r \in Requests : OpInv(op[r])
  BY TypeStep DEF TypeInv, RowsTyped, Accounts, PasswordInv
<1>1. CASE UNCHANGED vars
  BY <1>1 DEF vars, PasswordInv, OpInv, Knows
<1>2. ASSUME NEW r \in Requests, NEW o, Enter(r, o), OpInv(o),
             UNCHANGED <<account, sessions>>
      PROVE  Good
  BY <1>0, <1>2, QuietStep
<1>3. ASSUME NEW r \in Requests, NEW p \in Passwords,
             Login(r, p) \/ ResetCredentials(r, p)
             \/ \E q \in Passwords : ChangePassword(r, p, q)
      PROVE  Good
  <2>1. CASE Login(r, p)
    BY <1>0, <1>2, <2>1, VersionFacts DEF Login, OpInv, Knows, Writers
  <2>2. CASE ResetCredentials(r, p)
    BY <1>2, <2>2 DEF ResetCredentials, OpInv
  <2>3. ASSUME NEW q \in Passwords, ChangePassword(r, p, q) PROVE Good
    BY <1>0, <1>2, <2>3, VersionFacts DEF ChangePassword, OpInv, Knows, Writers
  <2> QED
    BY <1>3, <2>1, <2>2, <2>3
<1>4. ASSUME NEW r \in Requests, ChangeCredentials(r) PROVE Good
  <2>1. op[r].current = account.password
    BY <1>0, <1>4 DEF ChangeCredentials, OpInv, Knows
  <2> QED
    BY <1>2, <1>4, <2>1 DEF ChangeCredentials, OpInv
<1>5. ASSUME NEW r \in Requests, NEW s \in SessionIds, FindSession(r, s)
      PROVE  Good
  BY <1>2, <1>5 DEF FindSession, OpInv, Writers
<1>6. ASSUME NEW r \in Requests, CheckAccount(r) PROVE Good
  <2>1. [op[r] EXCEPT !.pc = "touch"].pc = "touch"
    <3>1. op[r] \in Checks
      BY <1>6, Kinds DEF CheckAccount, TypeInv, RowsTyped, Foreign, Ops, SessionPcs
    <3> QED
      BY <3>1 DEF Checks
  <2> QED
    BY <1>2, <1>6, <2>1 DEF CheckAccount, OpInv, Writers
<1>7. ASSUME NEW r \in Requests, NEW set, Revoke(r, set) PROVE Good
  BY <1>2, <1>7 DEF Revoke, OpInv, Writers
<1>8. ASSUME NEW r \in Requests, Abandon(r) PROVE Good
  BY <1>2, <1>8, HarmlessOp DEF Abandon, Leave
<1>9. ASSUME NEW r \in Requests, Rehash(r) PROVE FALSE
  BY <1>0, <1>9 DEF Rehash, OpInv
<1>10. ASSUME NEW r \in Requests, NEW s \in SessionIds, IssueSession(r, s)
       PROVE  Good
  <2>1. Knows(op[r].version, op[r].password)
    BY <1>0, <1>10 DEF IssueSession, OpInv
  <2>2. \A t \in SessionIds : sessions[t] = Unused /\ sessions'[t] # Unused =>
          sessions'[t] = Issued(op[r].version, op[r].password)
    BY <1>10 DEF IssueSession, TypeInv, RowsTyped
  <2> QED
    BY <1>0, <1>10, <2>1, <2>2, HarmlessOp, QuietStep
       DEF IssueSession, Leave, Issued
<1>11. ASSUME NEW r \in Requests, TouchSession(r) \/ CommitRevoke(r)
       PROVE  Good
  <2>1. UNCHANGED account /\ Enter(r, Idle)
    BY <1>11 DEF TouchSession, CommitRevoke, Leave
  <2>2. \A t \in SessionIds : sessions[t] = Unused => sessions'[t] = Unused
    <3>1. CASE TouchSession(r)
      BY <3>1 DEF TouchSession, Accepts, Live, TypeInv, RowsTyped
    <3>2. CASE CommitRevoke(r)
      BY <3>2 DEF CommitRevoke, Revoked, TypeInv, RowsTyped, RevokesIssued, Committing
    <3> QED
      BY <1>11, <3>1, <3>2
  <2> QED
    BY <1>0, <2>1, <2>2, HarmlessOp, QuietStep
<1>12. ASSUME NEW s \in SessionIds, NEW age \in {"idle", "expired"}, Expire(s, age)
       PROVE  Good
  <2>1. \A t \in SessionIds : sessions[t] = Unused => sessions'[t] = Unused
    BY <1>12 DEF Expire, TypeInv, RowsTyped
  <2> QED
    BY <1>0, <1>12, <2>1 DEF Expire, PasswordInv, OpInv, SessionChange, Knows
<1>13. ASSUME NEW r \in Requests, CommitReset(r) PROVE Good
  <2>1. \A t \in SessionIds : sessions[t] = Unused => sessions'[t] = Unused
    BY <1>13 DEF CommitReset, Revoked, TypeInv, RowsTyped, RevokesIssued, Committing
  <2>2. Enter(r, Idle) /\ op[r].pc \in Writers /\ CommitAccount(r)
    BY <1>13 DEF CommitReset, Leave, Writers
  <2> QED
    BY <1>0, <2>1, <2>2, HarmlessOp, CommitStep
<1>14. ASSUME NEW r \in Requests, NEW s \in SessionIds, CommitChange(r, s)
       PROVE  Good
  <2>1. \A t \in SessionIds : sessions[t] = Unused /\ sessions'[t] # Unused =>
          sessions'[t] = Issued(op[r].version, op[r].password)
    BY <1>14 DEF CommitChange, Revoked, TypeInv, RowsTyped, RevokesIssued, Committing
  <2>2. Enter(r, Idle) /\ op[r].pc \in Writers /\ CommitAccount(r)
    BY <1>14 DEF CommitChange, Leave, Writers
  <2> QED
    BY <1>0, <2>1, <2>2, HarmlessOp, CommitStep DEF Issued
<1> QED
  BY <1>1, <1>3, <1>4, <1>5, <1>6, <1>7, <1>8, <1>9, <1>10, <1>11, <1>12, <1>13, <1>14
     DEF Next, Logout, LogoutAll, LogoutOthers

\* Whatever is remembered of a version is of the account's past, or of its present with
\* the password in force (login() and changePassword() between their statements).
THEOREM PasswordInvariant ==
  ASSUME InitialFormat = "current"
  PROVE  Spec => []AuthInv({})
<1>1. Init => AuthInv({})
  BY TypeInit, PasswordInit DEF AuthInv
<1>2. AuthInv({}) /\ [Next]_vars => AuthInv({})'
  BY TypeStep, PasswordStep DEF AuthInv, Foreign
<1> QED
  BY <1>1, <1>2, PTL DEF Spec

\* What the invariant says of a state, and of the commit of a change.
LEMMA PasswordFacts ==
  ASSUME NEW kinds, AuthInv(kinds)
  PROVE  /\ UsableKnowsPassword
         /\ \A r \in Requests : (\E s \in SessionIds : CommitChange(r, s))
                                  => op[r].current = account.password
BY DEF AuthInv, PasswordInv, OpInv, CommitChange, UsableKnowsPassword, Usable, Live, Knows

\* While no hash is outdated, a usable session means the password in force was
\* proved, for any number of overlapping logins, changes and resets.
THEOREM SessionsFollowPassword ==
  ASSUME InitialFormat = "current"
  PROVE  Spec => []UsableKnowsPassword
<1>1. AuthInv({}) => UsableKnowsPassword
  BY PasswordFacts
<1> QED
  BY <1>1, PasswordInvariant, PTL

\* ...a change that commits had verified the password it replaces...
THEOREM ChangesAreSerial ==
  ASSUME InitialFormat = "current"
  PROVE  Spec => ChangeProvesCurrent
<1> DEFINE A == \A r \in Requests :
       (\E s \in SessionIds : CommitChange(r, s))
         => op[r].current = account.password
<1>1. AuthInv({}) => A
  BY PasswordFacts
<1> QED
  BY <1>1, PasswordInvariant, PTL DEF ChangeProvesCurrent

\* ...and a password is replaced only together with the credential version.
THEOREM PasswordVersioned ==
  ASSUME InitialFormat = "current"
  PROVE  Spec => PasswordMovesWithVersion
<1> DEFINE A == account'.password # account.password
                  => account'.version # account.version
<1>1. AuthInv({}) /\ [Next]_vars => A
  BY PasswordStep DEF Foreign
<1> QED
  BY <1>1, PasswordInvariant, PTL DEF Spec, PasswordMovesWithVersion

--------------------------------------------------------------------------------
(* Recovery shares the account.  Its inductive invariant adds what a recovery *)
(* relies on between its statements and its COMMIT: while it holds the row of *)
(* the account, nobody else writes the account, the lock or its challenge.    *)

RecoveryOps ==
  Issues \union Recoveries \union {Failed} \union RecoveryCommits \union Answers
    \union Verifications

LEMMA RecoveryKinds ==
  /\ \A o \in Issues : o.pc = "issueToken"
  /\ \A o \in Recoveries : o.pc = "recover"
  /\ \A o \in RecoveryCommits : o.pc = "commitRecovery" /\ o.revoking \in SUBSET SessionIds
  /\ \A o \in Answers : o.pc \in {"publish", "answer"}
  /\ \A o \in Verifications : o.pc = "verifyMethod"
  /\ Failed.pc = "failed"
BY DEF Issues, Recoveries, RecoveryCommits, Answers, Verifications, Failed

LEMMA RecoveryForeign == Foreign(RecoveryOps)
BY RecoveryKinds, Kinds DEF Foreign, RecoveryOps, SessionPcs

\* Which record a request holds, by its pc.
LEMMA RecoveryByPc ==
  ASSUME NEW o \in Ops \union RecoveryOps
  PROVE  /\ o.pc = "issueToken" => o \in Issues
         /\ o.pc = "recover" => o \in Recoveries
         /\ o.pc = "commitRecovery" => o \in RecoveryCommits
         /\ o.pc \in {"publish", "answer"} => o \in Answers
         /\ o.pc = "verifyMethod" => o \in Verifications
BY RecoveryKinds, Kinds DEF RecoveryOps, Ops

LEMMA NoneIsNoRow ==
  /\ \A c \in Challenges : c # None
  /\ \A c \in Completions : c # None
<1>1. /\ \A c \in Challenges : "pc" \notin DOMAIN c
      /\ \A c \in Completions : "pc" \notin DOMAIN c
  BY DEF Challenges, Completions
<1>2. "pc" \in DOMAIN None
  BY DEF None
<1> QED
  BY <1>1, <1>2

TokenRows ==
  /\ lock \in {"locked", "unlocked"}
  /\ challenge \in [Tokens -> Challenges \union {None}]
  /\ method \in [Methods -> MethodStates]
  /\ idempotency \in [Keys -> Completions \union {None}]

\* What a request relies on.
TokenOp(o) ==
  /\ o.pc = "commitRecovery" =>
       /\ Pending(o.token) /\ challenge[o.token].epoch = account.version
       /\ lock = "unlocked" /\ idempotency[o.key] = None
  /\ o.pc \in {"publish", "answer"} =>
       idempotency[o.key] = [token |-> o.token, password |-> o.password]
  /\ o.pc = "verifyMethod" =>
       /\ challenge[o.token] # None
       /\ challenge[o.token].method = o.seen.method
       /\ challenge[o.token].epoch = o.seen.epoch

RecoveryInv ==
  /\ TypeInv(RecoveryOps)
  /\ TokenRows
  /\ \A r \in Requests : TokenOp(op[r])

\* What any step does to a challenge that was issued: only its age and its state
\* change, the state only while it is pending.
ChallengeChange ==
  \A t \in Tokens : challenge[t] # None =>
    /\ challenge'[t] # None
    /\ challenge'[t].method = challenge[t].method
    /\ challenge'[t].epoch = challenge[t].epoch
    /\ challenge[t].state # "pending" => challenge'[t].state = challenge[t].state
CompletionsKept ==
  \A k \in Keys : idempotency[k] # None => idempotency'[k] = idempotency[k]
\* What a step does while somebody else's recovery is about to commit.
Frozen ==
  /\ UNCHANGED <<account, lock, idempotency>>
  /\ \A t \in Tokens : Pending(t) => Pending(t)'

LockStep ==
  lock = "locked" => \A t \in Tokens :
    \/ challenge[t] = None /\ challenge'[t] = None
    \/ /\ challenge[t] # None
       /\ challenge'[t].state = "used" => challenge[t].state = "used"
MethodStep ==
  \A m \in Methods :
    /\ method[m] = "revoked" => method'[m] = "revoked"
    /\ method[m] # "verified" /\ method'[m] = "verified" =>
         \E t \in Tokens : /\ Pending(t) /\ challenge[t].method = m
                           /\ challenge[t].epoch = account.version
                           /\ challenge'[t].state = "used"

LEMMA RecoveryInitial == RecoveryInit => RecoveryInv
<1> SUFFICES ASSUME RecoveryInit PROVE RecoveryInv
  OBVIOUS
<1>1. TypeInv(RecoveryOps)
  BY TypeInit DEF RecoveryInit
<1>2. \A r \in Requests : TokenOp(op[r])
  BY Kinds DEF RecoveryInit, Init, TokenOp
<1> QED
  BY <1>1, <1>2 DEF RecoveryInv, RecoveryInit, TokenRows, MethodStates

LEMMA OpsKept ==
  ASSUME RecoveryInv, ChallengeChange, CompletionsKept,
         \A q \in Requests :
           \/ TokenOp(op[q])'
           \/ op'[q] = op[q] /\ (op[q].pc = "commitRecovery" => Frozen)
  PROVE  (\A q \in Requests : TokenOp(op[q]))'
<1> SUFFICES ASSUME NEW q \in Requests, op'[q] = op[q],
                    op[q].pc = "commitRecovery" => Frozen
             PROVE  TokenOp(op[q])'
  OBVIOUS
<1>1. op[q] \in Ops \union RecoveryOps /\ TokenOp(op[q])
  BY DEF RecoveryInv, TypeInv, RowsTyped
<1>2. CASE op[q].pc = "commitRecovery"
  <2>1. op[q].token \in Tokens
    BY <1>1, <1>2, RecoveryByPc DEF RecoveryCommits
  <2>2. challenge'[op[q].token].epoch = challenge[op[q].token].epoch
    BY <1>1, <1>2, <2>1 DEF TokenOp, Pending, ChallengeChange
  <2> QED
    BY <1>1, <1>2, <2>1, <2>2 DEF TokenOp, Frozen
<1>3. CASE op[q].pc \in {"publish", "answer"}
  <2>1. op[q].key \in Keys /\ op[q].token \in Tokens /\ op[q].password \in Passwords
    BY <1>1, <1>3, RecoveryByPc DEF Answers
  <2>2. idempotency[op[q].key] # None
    BY <1>1, <1>3, <2>1, NoneIsNoRow DEF TokenOp, Completions
  <2> QED
    BY <1>1, <1>3, <2>1, <2>2 DEF TokenOp, CompletionsKept
<1>4. CASE op[q].pc = "verifyMethod"
  <2>1. op[q].token \in Tokens
    BY <1>1, <1>4, RecoveryByPc DEF Verifications
  <2> QED
    BY <1>1, <1>4, <2>1 DEF TokenOp, ChallengeChange
<1>5. CASE op[q].pc \notin {"commitRecovery", "publish", "answer", "verifyMethod"}
  BY <1>5 DEF TokenOp
<1> QED
  BY <1>2, <1>3, <1>4, <1>5

\* A step of AuthSessions.
LEMMA SessionsStep ==
  ASSUME RecoveryInv, [Next]_vars, UNCHANGED recoveryVars
  PROVE  RecoveryInv' /\ ChallengeChange /\ LockStep /\ MethodStep
<1>1. TypeInv(RecoveryOps)' /\ Proceeds
  BY TypeStep, RecoveryForeign DEF RecoveryInv
<1>2. UNCHANGED <<lock, challenge, method, idempotency>>
  BY DEF recoveryVars
<1>3. ChallengeChange /\ LockStep /\ MethodStep /\ CompletionsKept /\ TokenRows'
  BY <1>2 DEF ChallengeChange, LockStep, MethodStep, CompletionsKept, TokenRows, RecoveryInv
<1>4. \A q \in Requests :
        \/ TokenOp(op[q])'
        \/ op'[q] = op[q] /\ (op[q].pc = "commitRecovery" => Frozen)
  <2>1. CASE UNCHANGED <<account, op>>
    BY <1>2, <2>1 DEF Frozen, Pending
  <2>2. ASSUME NEW r \in Requests, NEW o \in Ops, Enter(r, o),
               account' # account => ~AccountLocked \/ op[r].pc \in Writers
        PROVE  \A q \in Requests :
                 \/ TokenOp(op[q])'
                 \/ op'[q] = op[q] /\ (op[q].pc = "commitRecovery" => Frozen)
    <3>1. op'[r] = o
      BY <2>2 DEF Enter, RecoveryInv, TypeInv, RowsTyped
    <3>2. TokenOp(op[r])'
      BY <3>1, Kinds DEF TokenOp, Ops
    <3>3. ASSUME NEW q \in Requests, q # r, op[q].pc = "commitRecovery" PROVE Frozen
      <4>1. UNCHANGED account
        BY <2>2, <3>3 DEF RecoveryInv, TypeInv, OneWriter, AccountLocked, Writers
      <4> QED
        BY <1>2, <4>1 DEF Frozen, Pending
    <3> QED
      BY <2>2, <3>2, <3>3 DEF Enter, RecoveryInv, TypeInv, RowsTyped
  <2> QED
    BY <1>1, <2>1, <2>2 DEF Proceeds
<1> QED
  BY <1>1, <1>3, <1>4, OpsKept DEF RecoveryInv

\* A request goes on; the rows stay, or those of recovery change with the account
\* row locked by nobody else.
LEMMA EnterStep ==
  ASSUME RecoveryInv, NEW r \in Requests, NEW o \in RecoveryOps \union {Idle},
         Enter(r, o), UNCHANGED <<account, sessions>>,
         o.pc = "commitRecovery" => ~AccountLocked /\ o.revoking \subseteq Live,
         TokenRows', TokenOp(op[r])', ChallengeChange, CompletionsKept,
         UNCHANGED recoveryVars \/ ~AccountLocked
  PROVE  RecoveryInv'
<1> USE DEF RecoveryInv, TypeInv, RowsTyped
<1>1. \A q \in Requests : op'[q] = IF q = r THEN o ELSE op[q]
  BY DEF Enter
<1>2. op' \in [Requests -> Ops \union RecoveryOps]
  BY DEF Enter, Ops
<1>3. RevokesIssued'
  BY <1>1, RecoveryKinds, Kinds DEF RevokesIssued, Committing, Live, RecoveryOps
<1>4. OneWriter'
  BY <1>1, RecoveryKinds, Kinds DEF OneWriter, AccountLocked, Writers, RecoveryOps
<1>5. \A q \in Requests :
        q # r /\ op[q].pc = "commitRecovery" => Frozen
  BY DEF AccountLocked, Frozen, Pending, recoveryVars
<1>6. (\A q \in Requests : TokenOp(op[q]))'
  BY <1>1, <1>5, OpsKept
<1> QED
  BY <1>2, <1>3, <1>4, <1>6

LEMMA QuietRows ==
  ASSUME UNCHANGED recoveryVars, RecoveryInv
  PROVE  ChallengeChange /\ LockStep /\ MethodStep /\ CompletionsKept /\ TokenRows'
BY DEF recoveryVars, ChallengeChange, LockStep, MethodStep, CompletionsKept, TokenRows,
       RecoveryInv

StepGood == RecoveryInv' /\ ChallengeChange /\ LockStep /\ MethodStep

LEMMA TypedOps ==
  ASSUME RecoveryInv, NEW r \in Requests
  PROVE  op[r] \in Ops \union RecoveryOps /\ TokenOp(op[r])
BY DEF RecoveryInv, TypeInv, RowsTyped

\* Steps that only move a request on.
LEMMA MovesOn ==
  ASSUME RecoveryInv, NEW r \in Requests,
         \/ RequestRecovery(r) \/ RepeatInTransaction(r) \/ Redeem(r)
         \/ Publish(r) \/ Answer(r)
         \/ \E t \in Tokens : FindChallenge(r, t)
         \/ \E k \in Keys, t \in Tokens, p \in Passwords :
              CompleteRecovery(r, k, t, p) \/ RepeatCompletion(r, k, t, p)
  PROVE  StepGood
<1>0. /\ op[r] \in Ops \union RecoveryOps /\ TokenOp(op[r])
      /\ op \in [Requests -> Ops \union RecoveryOps]
      /\ account.version \in Versions
      /\ challenge \in [Tokens -> Challenges \union {None}]
  BY TypedOps DEF RecoveryInv, TypeInv, RowsTyped, Accounts, TokenRows
<1>1. ASSUME NEW o \in RecoveryOps \union {Idle}, Enter(r, o),
             UNCHANGED <<account, sessions, recoveryVars>>,
             o.pc = "commitRecovery" => ~AccountLocked /\ o.revoking \subseteq Live,
             TokenOp(o)
      PROVE  StepGood
  <2>1. ChallengeChange /\ LockStep /\ MethodStep /\ CompletionsKept /\ TokenRows'
    BY <1>1, QuietRows
  <2>2. op'[r] = o
    BY <1>0, <1>1 DEF Enter
  <2>3. TokenOp(op[r])'
    BY <1>1, <2>2 DEF TokenOp, Pending, recoveryVars
  <2> QED
    BY <1>1, <2>1, <2>3, EnterStep DEF StepGood
<1>2. CASE RequestRecovery(r)
  <2> DEFINE o == [pc |-> "issueToken", version |-> account.version]
  <2>1. o \in Issues
    BY <1>0 DEF Issues
  <2> QED
    BY <1>1, <1>2, <2>1 DEF RequestRecovery, RecoveryOps, TokenOp
<1>3. ASSUME NEW k \in Keys, NEW t \in Tokens, NEW p \in Passwords, Repeated(r, k, t, p)
      PROVE  StepGood
  <2> DEFINE o == AnswerOf("answer", k, t, p)
  <2>1. o \in Answers /\ TokenOp(o)
    BY <1>3 DEF Repeated, AnswerOf, Answers, TokenOp
  <2> QED
    BY <1>1, <1>3, <2>1, RecoveryKinds DEF Repeated, RecoveryOps
<1>4. CASE RepeatInTransaction(r)
  <2>1. op[r] \in Recoveries
    BY <1>0, <1>4, RecoveryByPc DEF RepeatInTransaction
  <2>2. op[r].key \in Keys /\ op[r].token \in Tokens /\ op[r].password \in Passwords
    BY <2>1 DEF Recoveries
  <2> QED
    BY <1>3, <1>4, <2>2 DEF RepeatInTransaction
<1>5. CASE Redeem(r)
  <2>1. op[r] \in Recoveries
    BY <1>0, <1>5, RecoveryByPc DEF Redeem
  <2> DEFINE o == [pc |-> "commitRecovery", revoking |-> Live, key |-> op[r].key,
                   token |-> op[r].token, password |-> op[r].password,
                   version |-> account.version + 1]
  <2>2. o \in RecoveryCommits
    BY <1>0, <2>1, VersionFacts DEF RecoveryCommits, Recoveries, Live
  <2>3. TokenOp(o)
    BY <1>5 DEF TokenOp, Redeem, Current
  <2> QED
    BY <1>1, <1>5, <2>2, <2>3 DEF Redeem, Revoking, RecoveryOps
<1>6. CASE Publish(r)
  <2>1. op[r] \in Answers
    BY <1>0, <1>6, RecoveryByPc DEF Publish
  <2> DEFINE o == [op[r] EXCEPT !.pc = "answer"]
  <2>2. /\ o \in Answers /\ o.pc = "answer" /\ o.key = op[r].key
        /\ o.token = op[r].token /\ o.password = op[r].password
    BY <2>1 DEF Answers
  <2>3. TokenOp(o)
    BY <1>0, <1>6, <2>2 DEF TokenOp, Publish
  <2> QED
    BY <1>1, <1>6, <2>2, <2>3 DEF Publish, RecoveryOps
<1>7. CASE Answer(r)
  BY <1>1, <1>7, Kinds DEF Answer, Leave, TokenOp
<1>8. ASSUME NEW t \in Tokens, FindChallenge(r, t) PROVE StepGood
  <2> DEFINE o == [pc |-> "verifyMethod", token |-> t, seen |-> challenge[t]]
  <2>1. challenge[t] \in Challenges
    BY <1>0, <1>8 DEF FindChallenge, Pending
  <2>2. o \in Verifications /\ TokenOp(o)
    BY <2>1, NoneIsNoRow DEF Verifications, TokenOp
  <2> QED
    BY <1>1, <1>8, <2>2, RecoveryKinds DEF FindChallenge, RecoveryOps
<1>9. ASSUME NEW k \in Keys, NEW t \in Tokens, NEW p \in Passwords,
             CompleteRecovery(r, k, t, p)
      PROVE  StepGood
  <2> DEFINE o == [pc |-> "recover", key |-> k, token |-> t, password |-> p]
  <2>1. o \in Recoveries /\ TokenOp(o)
    BY DEF Recoveries, TokenOp
  <2> QED
    BY <1>1, <1>9, <2>1 DEF CompleteRecovery, RecoveryOps
<1> QED
  BY <1>2, <1>3, <1>4, <1>5, <1>6, <1>7, <1>8, <1>9 DEF RepeatCompletion

LEMMA StateType ==
  ASSUME NEW c \in Challenges,
         NEW state \in {"pending", "used", "expired", "invalidated"},
         NEW age \in {"fresh", "expired"}
  PROVE  /\ [c EXCEPT !.state = state] \in Challenges
         /\ [c EXCEPT !.state = state].state = state
         /\ [c EXCEPT !.state = state].method = c.method
         /\ [c EXCEPT !.state = state].epoch = c.epoch
         /\ [c EXCEPT !.age = age] \in Challenges
         /\ [c EXCEPT !.age = age].state = c.state
         /\ [c EXCEPT !.age = age].method = c.method
         /\ [c EXCEPT !.age = age].epoch = c.epoch
BY DEF Challenges

LEMMA InvalidatedFacts ==
  ASSUME NEW epoch, challenge \in [Tokens -> Challenges \union {None}]
  PROVE  /\ Invalidated(epoch) \in [Tokens -> Challenges \union {None}]
         /\ \A t \in Tokens :
              \/ Invalidated(epoch)[t] = challenge[t]
              \/ /\ Pending(t) /\ Invalidated(epoch)[t] # None
                 /\ Invalidated(epoch)[t].state = "invalidated"
                 /\ Invalidated(epoch)[t].method = challenge[t].method
                 /\ Invalidated(epoch)[t].epoch = challenge[t].epoch
<1>1. \A t \in Tokens : Pending(t) =>
        /\ [challenge[t] EXCEPT !.state = "invalidated"] \in Challenges
        /\ [challenge[t] EXCEPT !.state = "invalidated"].state = "invalidated"
        /\ [challenge[t] EXCEPT !.state = "invalidated"].method = challenge[t].method
        /\ [challenge[t] EXCEPT !.state = "invalidated"].epoch = challenge[t].epoch
  <2> SUFFICES ASSUME NEW c \in Challenges
               PROVE  /\ [c EXCEPT !.state = "invalidated"] \in Challenges
                      /\ [c EXCEPT !.state = "invalidated"].state = "invalidated"
                      /\ [c EXCEPT !.state = "invalidated"].method = c.method
                      /\ [c EXCEPT !.state = "invalidated"].epoch = c.epoch
    BY DEF Pending
  <2> QED
    BY DEF Challenges
<1> QED
  BY <1>1, NoneIsNoRow DEF Invalidated

\* The rows that a step writes, one by one.
LEMMA IssueRows ==
  ASSUME RecoveryInv, NEW t \in Tokens, challenge[t] = None, lock = "unlocked",
         NEW purpose \in Purposes, NEW m \in Methods \union {NoMethod},
         Challenge(t, purpose, m)
  PROVE  /\ challenge' \in [Tokens -> Challenges \union {None}]
         /\ ChallengeChange /\ LockStep
         /\ \A u \in Tokens : Pending(u) => Pending(u)'
<1>1. /\ challenge \in [Tokens -> Challenges \union {None}]
      /\ account.version \in Versions
  BY DEF RecoveryInv, TokenRows, TypeInv, RowsTyped, Accounts
<1>2. [state |-> "pending", purpose |-> purpose, method |-> m,
       epoch |-> account.version, age |-> "fresh"] \in Challenges
  BY <1>1 DEF Challenges
<1>3. /\ challenge' \in [Tokens -> Challenges \union {None}]
      /\ \A u \in Tokens : u # t => challenge'[u] = challenge[u]
  BY <1>1, <1>2 DEF Challenge
<1>4. LockStep
  BY DEF LockStep
<1> QED
  BY <1>3, <1>4 DEF ChallengeChange, Pending

\* Steps that write rows and leave every request where it is.
LEMMA StaysPut ==
  ASSUME RecoveryInv, UNCHANGED vars, TokenRows', ChallengeChange, LockStep, MethodStep,
         UNCHANGED idempotency,
         \/ ~AccountLocked
         \/ lock' = lock /\ \A t \in Tokens : Pending(t) => Pending(t)'
         \/ \A q \in Requests : op[q].pc # "commitRecovery"
  PROVE  StepGood
<1> USE DEF RecoveryInv
<1>1. UNCHANGED <<account, sessions, op>>
  BY DEF vars
<1>2. TypeInv(RecoveryOps)'
  BY <1>1 DEF TypeInv, RowsTyped, RevokesIssued, Committing, OneWriter
<1>3. \A q \in Requests : op[q].pc = "commitRecovery" => Frozen
  BY <1>1 DEF AccountLocked, Frozen
<1>4. (\A q \in Requests : TokenOp(op[q]))'
  BY <1>1, <1>3, OpsKept DEF CompletionsKept
<1> QED
  BY <1>2, <1>4 DEF StepGood

LEMMA MethodSetStep ==
  ASSUME NEW m, NEW state \in MethodStates, method \in [Methods -> MethodStates],
         method' = [method EXCEPT ![m] = state]
  PROVE  /\ method' \in [Methods -> MethodStates]
         /\ \A n \in Methods : method'[n] = method[n] \/ (n = m /\ method'[n] = state)
OBVIOUS

LEMMA RowsStep ==
  ASSUME RecoveryInv,
         \/ MethodSteps
         \/ \E state \in {"locked", "unlocked"} : SetOperatorLock(state)
         \/ OperatorRevoke
         \/ \E t \in Tokens : ExpiryPasses(t) \/ ExpireChallenges(t)
  PROVE  StepGood
<1>0. /\ TokenRows
      /\ method \in [Methods -> MethodStates]
      /\ challenge \in [Tokens -> Challenges \union {None}]
  BY DEF RecoveryInv, TokenRows
<1>1. ASSUME NEW m \in Methods, NEW t \in Tokens, NEW purpose \in Purposes,
             AddMethod(m, t, purpose)
      PROVE  StepGood
  <2>1. /\ challenge' \in [Tokens -> Challenges \union {None}]
        /\ ChallengeChange /\ LockStep
    BY <1>1, IssueRows DEF AddMethod
  <2>2. /\ method' \in [Methods -> MethodStates]
        /\ \A n \in Methods : method'[n] = method[n]
                              \/ (method[n] = "unused" /\ method'[n] = "pending")
    BY <1>0, <1>1, MethodSetStep DEF AddMethod, MethodStates
  <2>3. MethodStep
    BY <2>2 DEF MethodStep
  <2> QED
    BY <1>0, <1>1, <2>1, <2>2, <2>3, StaysPut DEF AddMethod, TokenRows
<1>2. ASSUME NEW m \in Methods, RevokeMethod(m) PROVE StepGood
  <2>1. /\ method' \in [Methods -> MethodStates]
        /\ \A n \in Methods : method'[n] = method[n] \/ method'[n] = "revoked"
    BY <1>0, <1>2, MethodSetStep DEF RevokeMethod, MethodStates
  <2>2. UNCHANGED challenge /\ lock' = lock
    BY <1>2 DEF RevokeMethod
  <2>3. MethodStep /\ ChallengeChange /\ LockStep /\ TokenRows'
    BY <1>0, <1>2, <2>1, <2>2
       DEF RevokeMethod, MethodStep, ChallengeChange, LockStep, TokenRows
  <2> QED
    BY <1>2, <2>2, <2>3, StaysPut DEF RevokeMethod, Pending
<1>3. ASSUME NEW state \in {"locked", "unlocked"}, SetOperatorLock(state) PROVE StepGood
  <2>1. MethodStep /\ ChallengeChange /\ LockStep /\ TokenRows'
    BY <1>0, <1>3 DEF SetOperatorLock, MethodStep, ChallengeChange, LockStep, TokenRows
  <2> QED
    BY <1>3, <2>1, StaysPut DEF SetOperatorLock
<1>4. ASSUME OperatorRevoke PROVE StepGood
  <2>1. /\ method' \in [Methods -> MethodStates]
        /\ \A n \in Methods : method'[n] = method[n] \/ method'[n] = "revoked"
    BY <1>0, <1>4 DEF OperatorRevoke, MethodStates
  <2>2. MethodStep /\ ChallengeChange /\ LockStep /\ TokenRows'
    BY <1>0, <1>4, <2>1
       DEF OperatorRevoke, MethodStep, ChallengeChange, LockStep, TokenRows
  <2> QED
    BY <1>4, <2>2, StaysPut DEF OperatorRevoke
<1>5. ASSUME NEW t \in Tokens, ExpiryPasses(t) \/ ExpireChallenges(t)
      PROVE  StepGood
  <2>1. challenge[t] # None /\ challenge[t] \in Challenges
    BY <1>0, <1>5 DEF ExpiryPasses, ExpireChallenges, Pending
  <2>2. PICK c \in Challenges :
          /\ challenge' = [challenge EXCEPT ![t] = c]
          /\ c.method = challenge[t].method /\ c.epoch = challenge[t].epoch
          /\ \/ ExpiryPasses(t) /\ c.state = challenge[t].state
             \/ ExpireChallenges(t) /\ c.state = "expired"
    BY <1>5, <2>1, StateType DEF ExpiryPasses, ExpireChallenges
  <2>3. /\ challenge' \in [Tokens -> Challenges \union {None}]
        /\ \A u \in Tokens : challenge'[u] = IF u = t THEN c ELSE challenge[u]
    BY <1>0, <2>2
  <2>4. UNCHANGED <<vars, lock, method, idempotency>>
    BY <1>5 DEF ExpiryPasses, ExpireChallenges
  <2>5. ChallengeChange
    BY <2>1, <2>2, <2>3, NoneIsNoRow DEF ChallengeChange, ExpireChallenges, Pending
  <2>6. LockStep
    BY <2>1, <2>2, <2>3, NoneIsNoRow DEF LockStep
  <2>7. MethodStep /\ TokenRows'
    BY <1>0, <2>3, <2>4 DEF MethodStep, TokenRows
  <2>8. \/ \A u \in Tokens : Pending(u) => Pending(u)'
        \/ \A q \in Requests : op[q].pc # "commitRecovery"
    BY <2>2, <2>3, NoneIsNoRow DEF ExpireChallenges, Pending
  <2> QED
    BY <2>4, <2>5, <2>6, <2>7, <2>8, StaysPut
<1> QED
  BY <1>1, <1>2, <1>3, <1>4, <1>5
     DEF MethodSteps, StartMethod, ReplaceMethod, Purposes

\* A request consumes or issues a challenge, or gives the operator's command.
LEMMA RequestRows ==
  ASSUME RecoveryInv, NEW r \in Requests,
         \/ VerifyMethod(r)
         \/ OperatorLock(r) \/ OperatorUnlock(r) \/ OperatorInvalidate(r)
         \/ \E t \in Tokens : IssueToken(r, t)
  PROVE  StepGood
<1>0. /\ TokenRows
      /\ method \in [Methods -> MethodStates]
      /\ challenge \in [Tokens -> Challenges \union {None}]
      /\ op[r] \in Ops \union RecoveryOps /\ TokenOp(op[r])
      /\ op \in [Requests -> Ops \union RecoveryOps]
  BY TypedOps DEF RecoveryInv, TokenRows, TypeInv, RowsTyped
<1>1. ASSUME NEW o \in RecoveryOps \union {Idle}, Enter(r, o), o \in {Idle, Failed}
      PROVE  TokenOp(op[r])' /\ o.pc # "commitRecovery"
  <2>1. op'[r] = o
    BY <1>0, <1>1 DEF Enter
  <2> QED
    BY <1>1, <2>1, Kinds, RecoveryKinds DEF TokenOp
<1>2. ASSUME NEW t \in Tokens, IssueToken(r, t) PROVE StepGood
  <2>1. /\ challenge' \in [Tokens -> Challenges \union {None}]
        /\ ChallengeChange /\ LockStep
    BY <1>2, IssueRows DEF IssueToken, Purposes
  <2>2. TokenRows' /\ CompletionsKept /\ MethodStep
    BY <1>0, <1>2, <2>1 DEF IssueToken, TokenRows, CompletionsKept, MethodStep
  <2> QED
    BY <1>1, <1>2, <2>1, <2>2, EnterStep DEF IssueToken, Leave, StepGood
<1>3. CASE VerifyMethod(r)
  <2> DEFINE t == op[r].token
             m == op[r].seen.method
  <2>1. t \in Tokens /\ challenge[t] \in Challenges
    BY <1>0, <1>3, RecoveryByPc DEF VerifyMethod, Verifications, Pending
  <2>2. PICK c \in Challenges :
          /\ challenge' = [challenge EXCEPT ![t] = c] /\ c.state = "used"
          /\ c.method = challenge[t].method /\ c.epoch = challenge[t].epoch
    BY <1>3, <2>1, StateType DEF VerifyMethod
  <2>3. /\ challenge' \in [Tokens -> Challenges \union {None}]
        /\ \A u \in Tokens : challenge'[u] = IF u = t THEN c ELSE challenge[u]
    BY <1>0, <2>2
  <2>4. Pending(t) /\ lock = "unlocked" /\ UNCHANGED <<lock, idempotency>>
    BY <1>3 DEF VerifyMethod
  <2>5. ChallengeChange /\ LockStep
    BY <2>1, <2>2, <2>3, <2>4, NoneIsNoRow DEF ChallengeChange, LockStep, Pending
  <2>6. challenge[t].method = m /\ challenge[t].epoch = account.version
    BY <1>0, <1>3 DEF TokenOp, VerifyMethod
  <2>7. /\ method' \in [Methods -> MethodStates] /\ method[m] = "pending"
        /\ \A n \in Methods : method'[n] = method[n] \/ n = m
    BY <1>0, <1>3, MethodSetStep DEF VerifyMethod, MethodStates
  <2>8. MethodStep
    BY <2>1, <2>2, <2>3, <2>4, <2>6, <2>7 DEF MethodStep
  <2>9. TokenRows' /\ CompletionsKept
    BY <1>0, <2>3, <2>4, <2>7 DEF TokenRows, CompletionsKept
  <2> QED
    BY <1>1, <1>3, <2>5, <2>8, <2>9, EnterStep DEF VerifyMethod, Leave, StepGood
<1>4. ASSUME NEW epoch, NEW state \in {"locked", "unlocked"}, Command(r, epoch, state)
      PROVE  StepGood
  <2>1. UNCHANGED <<account, sessions, method, idempotency>> /\ ~AccountLocked
    BY <1>4 DEF Command
  <2>2. CASE epoch <= ColumnMax
    <3>1. lock' = state /\ challenge' = Invalidated(epoch) /\ UNCHANGED op
      BY <1>4, <2>2 DEF Command
    <3>2. /\ challenge' \in [Tokens -> Challenges \union {None}]
          /\ ChallengeChange /\ LockStep
      BY <1>0, <3>1, InvalidatedFacts DEF ChallengeChange, LockStep, Pending
    <3>3. TokenRows' /\ MethodStep
      BY <1>0, <2>1, <3>1, <3>2 DEF TokenRows, MethodStep
    <3> QED
      BY <2>1, <3>1, <3>2, <3>3, StaysPut DEF vars
  <2>3. CASE ~(epoch <= ColumnMax)
    <3>1. Enter(r, Failed) /\ UNCHANGED <<lock, challenge>>
      BY <1>4, <2>3 DEF Command
    <3>2. ChallengeChange /\ LockStep /\ MethodStep /\ CompletionsKept /\ TokenRows'
      BY <2>1, <3>1, QuietRows DEF recoveryVars
    <3> QED
      BY <1>1, <2>1, <3>1, <3>2, EnterStep DEF RecoveryOps, StepGood
  <2> QED
    BY <2>2, <2>3
<1>5. OperatorLock(r) \/ OperatorUnlock(r) \/ OperatorInvalidate(r) => StepGood
  BY <1>0, <1>4 DEF OperatorLock, OperatorUnlock, OperatorInvalidate, TokenRows
<1> QED
  BY <1>2, <1>3, <1>5

\* The COMMIT of a recovery.
LEMMA CommitRecoveryFacts ==
  ASSUME RecoveryInv, NEW r \in Requests, CommitRecovery(r)
  PROVE  /\ op[r] \in RecoveryCommits
         /\ Pending(op[r].token) /\ lock = "unlocked" /\ idempotency[op[r].key] = None
         /\ challenge[op[r].token].epoch = account.version
         /\ sessions' \in [SessionIds -> SessionRows \union {Unused}]
         /\ SessionChange
         /\ \A s \in SessionIds : sessions[s] = Unused => sessions'[s] = Unused
<1>1. op[r] \in RecoveryCommits /\ TokenOp(op[r]) /\ op[r].pc = "commitRecovery"
  BY TypedOps, RecoveryByPc DEF CommitRecovery
<1>2. /\ op[r].revoking \in SUBSET SessionIds
      /\ \A s \in op[r].revoking : sessions[s] # Unused
  BY <1>1 DEF RecoveryCommits, RecoveryInv, TypeInv, RowsTyped, RevokesIssued, Committing
<1>3. sessions \in [SessionIds -> SessionRows \union {Unused}]
      /\ sessions' = Revoked(op[r].revoking)
  BY DEF RecoveryInv, TypeInv, RowsTyped, CommitRecovery
<1>4. /\ Revoked(op[r].revoking) \in [SessionIds -> SessionRows \union {Unused}]
      /\ \A s \in SessionIds :
           /\ Revoked(op[r].revoking)[s] = Unused <=> sessions[s] = Unused
           /\ sessions[s] # Unused =>
                /\ Revoked(op[r].revoking)[s].version = sessions[s].version
                /\ Revoked(op[r].revoking)[s].proof = sessions[s].proof
  BY <1>2, <1>3, RevokedType
<1> QED
  BY <1>1, <1>3, <1>4 DEF TokenOp, SessionChange

LEMMA CommitRecoveryStep ==
  ASSUME RecoveryInv, NEW r \in Requests, CommitRecovery(r)
  PROVE  StepGood
<1> USE DEF RecoveryInv
<1>0. /\ op[r] \in RecoveryCommits /\ op[r].pc = "commitRecovery"
      /\ Pending(op[r].token) /\ lock = "unlocked" /\ idempotency[op[r].key] = None
      /\ sessions' \in [SessionIds -> SessionRows \union {Unused}]
      /\ SessionChange
      /\ op \in [Requests -> Ops \union RecoveryOps]
      /\ challenge \in [Tokens -> Challenges \union {None}]
      /\ idempotency \in [Keys -> Completions \union {None}]
  BY CommitRecoveryFacts DEF CommitRecovery, TypeInv, RowsTyped, TokenRows
<1>1. PICK o : o = AnswerOf("publish", op[r].key, op[r].token, op[r].password)
  OBVIOUS
<1>2. o \in Answers /\ o.pc = "publish" /\ o.key = op[r].key /\ o.key \in Keys
      /\ o.token = op[r].token /\ o.password = op[r].password
      /\ o.token \in Tokens /\ o.password \in Passwords
  BY <1>0, <1>1 DEF AnswerOf, Answers, RecoveryCommits
<1>3. \A q \in Requests : op'[q] = IF q = r THEN o ELSE op[q]
  BY <1>0, <1>1 DEF CommitRecovery, Enter
<1>4. account' \in Accounts
  BY <1>0 DEF CommitRecovery, CommitAccount, RecoveryCommits, Accounts
<1>5. op' \in [Requests -> Ops \union RecoveryOps]
  BY <1>0, <1>1, <1>2 DEF CommitRecovery, Enter, RecoveryOps
<1>6. \A q \in Requests : Committing(q) => op[q].revoking \subseteq SessionIds
  <2>1. \A x \in Ops \union RecoveryOps :
          x.pc \in {"commitChange", "commitReset", "commitRecovery", "commitRevoke"} =>
            x \in Commits \union Revocations \union RecoveryCommits
    BY Kinds, RecoveryKinds DEF Ops, RecoveryOps
  <2>2. \A x \in Commits \union Revocations \union RecoveryCommits :
          x.revoking \subseteq SessionIds
    BY DEF Commits, Revocations, RecoveryCommits
  <2> QED
    BY <1>0, <2>1, <2>2 DEF Committing
<1>7. RevokesIssued'
  BY <1>0, <1>2, <1>3, <1>6
     DEF RevokesIssued, Committing, SessionChange, TypeInv, RowsTyped
<1>8. OneWriter'
  BY <1>2, <1>3 DEF OneWriter, Writers, TypeInv
\* The rows of recovery.
<1>9. PICK c \in Challenges :
        /\ challenge' = [Invalidated(op[r].version) EXCEPT ![o.token] = c]
        /\ c.state = "used" /\ c.method = challenge[o.token].method
        /\ c.epoch = challenge[o.token].epoch
  <2>1. challenge[o.token] \in Challenges
    BY <1>0, <1>2 DEF Pending
  <2> QED
    BY <1>2, <2>1, StateType DEF CommitRecovery
<1>10. /\ challenge' \in [Tokens -> Challenges \union {None}]
       /\ ChallengeChange
  <2>1. /\ Invalidated(op[r].version) \in [Tokens -> Challenges \union {None}]
        /\ \A t \in Tokens :
             \/ Invalidated(op[r].version)[t] = challenge[t]
             \/ /\ Pending(t) /\ Invalidated(op[r].version)[t] # None
                /\ Invalidated(op[r].version)[t].state = "invalidated"
                /\ Invalidated(op[r].version)[t].method = challenge[t].method
                /\ Invalidated(op[r].version)[t].epoch = challenge[t].epoch
    BY <1>0, InvalidatedFacts
  <2>2. /\ challenge' \in [Tokens -> Challenges \union {None}]
        /\ \A t \in Tokens :
             challenge'[t] = IF t = o.token THEN c ELSE Invalidated(op[r].version)[t]
    BY <1>9, <2>1
  <2> QED
    BY <1>0, <1>2, <1>9, <2>1, <2>2, NoneIsNoRow DEF ChallengeChange, Pending
<1>11. /\ idempotency' \in [Keys -> Completions \union {None}]
       /\ idempotency'[o.key] = [token |-> o.token, password |-> o.password]
       /\ CompletionsKept
  <2>1. idempotency' = [idempotency EXCEPT ![o.key] =
                          [token |-> o.token, password |-> o.password]]
    BY <1>2 DEF CommitRecovery
  <2>2. [token |-> o.token, password |-> o.password] \in Completions
    BY <1>2 DEF Completions
  <2> QED
    BY <1>0, <1>2, <2>1, <2>2 DEF CompletionsKept
<1>12. TokenRows' /\ LockStep /\ MethodStep
  BY <1>0, <1>10, <1>11 DEF TokenRows, CommitRecovery, LockStep, MethodStep
<1>13. TokenOp(op[r])'
  BY <1>2, <1>3, <1>11 DEF TokenOp
<1>14. \A q \in Requests : q # r => op'[q] = op[q] /\ op[q].pc # "commitRecovery"
  BY <1>0, <1>3 DEF TypeInv, OneWriter, Writers
<1>15. (\A q \in Requests : TokenOp(op[q]))'
  BY <1>10, <1>11, <1>13, <1>14, OpsKept
<1> QED
  BY <1>0, <1>4, <1>5, <1>7, <1>8, <1>10, <1>12, <1>15
     DEF StepGood, TypeInv, RowsTyped

LEMMA RecoveryStep ==
  ASSUME RecoveryInv, [RecoveryNext]_allVars
  PROVE  StepGood
<1>1. CASE Next /\ UNCHANGED recoveryVars
  BY <1>1, SessionsStep DEF StepGood
<1>2. CASE UNCHANGED allVars
  BY <1>2, SessionsStep DEF StepGood, allVars
<1>3. ASSUME NEW r \in Requests, RecoverySteps(r) PROVE StepGood
  BY <1>3, MovesOn, RequestRows, CommitRecoveryStep DEF RecoverySteps
<1> QED
  BY <1>1, <1>2, <1>3, RowsStep DEF RecoveryNext

\* What a recovery checked stays true until its COMMIT (completeRecovery()).
THEOREM RecoveryInvariant == RecoverySpec => []RecoveryInv
<1>1. RecoveryInv /\ [RecoveryNext]_allVars => RecoveryInv'
  BY RecoveryStep DEF StepGood
<1> QED
  BY <1>1, RecoveryInitial, PTL DEF RecoverySpec

\* The rows and what the requests of both modules remember keep their types.
THEOREM RecoveryTypeCorrect == RecoverySpec => []RecoveryTypeOK
<1>1. RecoveryInv => RecoveryTypeOK
  <2>1. Ops \union RecoveryOps =
          {Idle} \union Logins \union Checks \union Changes
               \union Commits \union Revocations \union Issues \union Recoveries
               \union {Failed} \union RecoveryCommits \union Answers \union Verifications
    BY DEF Ops, RecoveryOps
  <2> QED
    BY <2>1 DEF RecoveryInv, TypeInv, RowsTyped, TokenRows, RecoveryTypeOK
<1> QED
  BY <1>1, RecoveryInvariant, PTL

\* However recoveries, verifications, operators and changes of the password
\* overlap: a token is used at most once, never under the operator's lock and never
\* after the credentials it was issued for; a method is verified only by its own
\* challenge; and a completion is confirmed only to the request it was made by.
THEOREM TokensAreSound == RecoverySpec => TokensSound
<1> DEFINE Final == \A t \in Tokens :
             challenge[t] # None /\ challenge[t].state # "pending"
               => challenge'[t].state = challenge[t].state
           Redeemed == \A r \in Requests :
             CommitRecovery(r) => Pending(op[r].token) /\ lock = "unlocked"
                                  /\ challenge[op[r].token].epoch = account.version
<1>1. RecoveryInv => SuccessIsOwn /\ Redeemed
  BY CommitRecoveryFacts DEF RecoveryInv, SuccessIsOwn, TokenOp
<1>2. RecoveryInv /\ [RecoveryNext]_allVars => LockStep /\ Final /\ MethodStep
  BY RecoveryStep DEF StepGood, ChallengeChange
<1> HIDE DEF Final, Redeemed
<1>3. RecoverySpec => []SuccessIsOwn /\ [][Redeemed]_allVars
  BY <1>1, RecoveryInvariant, PTL
<1>4. RecoverySpec => [][LockStep]_allVars /\ [][Final]_allVars /\ [][MethodStep]_allVars
  BY <1>2, RecoveryInvariant, PTL DEF RecoverySpec
<1>5. RecoverySpec => [](RecoveryTypeOK /\ SuccessIsOwn)
  BY <1>3, RecoveryTypeCorrect, PTL
<1> QED
  BY <1>3, <1>4, <1>5
     DEF TokensSound, LockHolds, TokenFinal, RedeemedWhileCurrent,
         VerifiedByOwnChallenge, LockStep, MethodStep, Final, Redeemed

--------------------------------------------------------------------------------
(* The password properties hold with recovery, too.                           *)

LEMMA RecoveryPasswordStep ==
  ASSUME RecoveryInv, PasswordInv, [RecoveryNext]_allVars
  PROVE  /\ PasswordInv'
         /\ account'.password # account.password => account'.version # account.version
<1> DEFINE Good == /\ PasswordInv'
                   /\ account'.password # account.password
                        => account'.version # account.version
<1>0. AuthInv(RecoveryOps)
  BY DEF RecoveryInv, AuthInv
<1>1. CASE Next \/ UNCHANGED allVars
  <2>1. [Next]_vars
    BY <1>1 DEF allVars
  <2> QED
    BY <1>0, <2>1, PasswordStep, RecoveryForeign
<1>2. ASSUME UNCHANGED <<account, sessions>>, NEW r \in Requests, NEW o, Enter(r, o),
             OpInv(o)
      PROVE  Good
  <2>1. SessionChange
    BY <1>2 DEF SessionChange
  <2> QED
    BY <1>0, <1>2, <2>1, QuietStep
<1>3. ASSUME UNCHANGED vars PROVE Good
  BY <1>3 DEF vars, PasswordInv, OpInv, Knows
<1>4. ASSUME NEW r \in Requests, CommitRecovery(r) PROVE Good
  <2>1. /\ SessionChange
        /\ \A s \in SessionIds : sessions[s] = Unused => sessions'[s] = Unused
    BY <1>4, CommitRecoveryFacts
  <2>2. PICK o : o = AnswerOf("publish", op[r].key, op[r].token, op[r].password)
    OBVIOUS
  <2>3. Enter(r, o) /\ Harmless(o) /\ CommitAccount(r) /\ op[r].pc \in Writers
    BY <1>4, <2>2 DEF CommitRecovery, AnswerOf, Harmless, Writers
  <2> QED
    BY <1>0, <2>1, <2>3, CommitStep
<1>5. ASSUME NEW r \in Requests, Redeem(r) PROVE Good
  BY <1>2, <1>5 DEF Redeem, OpInv
<1>6. ASSUME NEW r \in Requests, Publish(r) PROVE Good
  <2>1. op[r] \in Answers
    BY <1>6, TypedOps, RecoveryByPc DEF Publish
  <2>2. Harmless([op[r] EXCEPT !.pc = "answer"])
    BY <2>1 DEF Answers, Harmless, Writers
  <2> QED
    BY <1>2, <1>6, <2>2, HarmlessOp DEF Publish
<1>7. ASSUME NEW r \in Requests, NEW k, NEW t, NEW p,
             Repeated(r, k, t, p) \/ CompleteRecovery(r, k, t, p)
      PROVE  Good
  BY <1>2, <1>7 DEF Repeated, CompleteRecovery, AnswerOf, OpInv, Writers
<1>8. ASSUME NEW r \in Requests, NEW t, FindChallenge(r, t) \/ IssueToken(r, t)
      PROVE  Good
  BY <1>2, <1>8, HarmlessOp DEF FindChallenge, IssueToken, Leave, OpInv, Writers
<1>9. ASSUME NEW r \in Requests, RequestRecovery(r) \/ Answer(r) \/ VerifyMethod(r)
      PROVE  Good
  BY <1>2, <1>9, HarmlessOp DEF RequestRecovery, Answer, VerifyMethod, Leave, OpInv, Writers
<1>10. ASSUME NEW r \in Requests, NEW epoch, NEW state, Command(r, epoch, state)
       PROVE  Good
  <2>1. OpInv(Failed)
    BY RecoveryKinds DEF OpInv, Writers
  <2> QED
    BY <1>2, <1>3, <1>10, <2>1 DEF Command, vars
<1>11. ASSUME NEW r \in Requests, RecoverySteps(r) PROVE Good
  <2>1. RepeatInTransaction(r) => Good
    BY <1>7 DEF RepeatInTransaction
  <2>2. \A k, t, p : RepeatCompletion(r, k, t, p) => Good
    BY <1>7 DEF RepeatCompletion
  <2>3. OperatorLock(r) \/ OperatorUnlock(r) \/ OperatorInvalidate(r) => Good
    BY <1>10 DEF OperatorLock, OperatorUnlock, OperatorInvalidate
  <2> QED
    BY <1>4, <1>5, <1>6, <1>7, <1>8, <1>9, <1>11, <2>1, <2>2, <2>3 DEF RecoverySteps
<1>12. CASE \/ MethodSteps \/ OperatorRevoke
            \/ \E state \in {"locked", "unlocked"} : SetOperatorLock(state)
            \/ \E t \in Tokens : ExpiryPasses(t) \/ ExpireChallenges(t)
  BY <1>3, <1>12 DEF MethodSteps, RevokeMethod, StartMethod, ReplaceMethod, AddMethod,
     OperatorRevoke, SetOperatorLock, ExpiryPasses, ExpireChallenges
<1> QED
  BY <1>1, <1>11, <1>12 DEF RecoveryNext

\* With recoveries, too, and while no hash is outdated: a usable session means the
\* password in force was proved...
THEOREM RecoveredPasswords ==
  ASSUME InitialFormat = "current"
  PROVE  RecoverySpec =>
           /\ []UsableKnowsPassword
           /\ ChangeProvesCurrent
           /\ PasswordMovesWithVersion
<1> DEFINE A == \A r \in Requests :
             (\E s \in SessionIds : CommitChange(r, s))
               => op[r].current = account.password
           B == account'.password # account.password
                  => account'.version # account.version
<1>1. RecoverySpec => []PasswordInv
  <2>1. RecoveryInit => PasswordInv
    BY PasswordInit DEF RecoveryInit
  <2>2. RecoveryInv /\ PasswordInv /\ [RecoveryNext]_allVars => PasswordInv'
    BY RecoveryPasswordStep
  <2> QED
    BY <2>1, <2>2, RecoveryInvariant, PTL DEF RecoverySpec
<1>2. RecoveryInv /\ PasswordInv => UsableKnowsPassword /\ A
  BY PasswordFacts DEF RecoveryInv, AuthInv
<1>3. RecoveryInv /\ PasswordInv /\ [RecoveryNext]_allVars => B
  BY RecoveryPasswordStep
<1>4. UNCHANGED allVars => UNCHANGED vars
  BY DEF allVars
<1> QED
  BY <1>1, <1>2, <1>3, <1>4, RecoveryInvariant, PTL
     DEF RecoverySpec, ChangeProvesCurrent, PasswordMovesWithVersion

--------------------------------------------------------------------------------
(* Refinement: a recovery is a reset of the credentials.                      *)

Resets == [r \in Requests |-> AsReset(op[r])]

LEMMA AsResetFacts ==
  /\ \A o \in Ops : AsReset(o) = o
  /\ \A o \in RecoveryOps : o.pc # "commitRecovery" => AsReset(o) = Idle
  /\ \A o \in RecoveryCommits :
       AsReset(o) = [pc |-> "commitReset", revoking |-> o.revoking,
                     current |-> account.password, password |-> o.password,
                     version |-> o.version]
<1>1. \A o \in Ops : AsReset(o) = o
  BY Kinds DEF AsReset, Ops, RecoveryPcs
<1>2. \A o \in RecoveryOps : o.pc # "commitRecovery" => AsReset(o) = Idle
  BY RecoveryKinds DEF AsReset, RecoveryOps, RecoveryPcs
<1>3. \A o \in RecoveryCommits : o.pc = "commitRecovery"
  BY RecoveryKinds
<1>4. \A o : o.pc = "commitRecovery" =>
        AsReset(o) = [pc |-> "commitReset", revoking |-> o.revoking,
                      current |-> account.password, password |-> o.password,
                      version |-> o.version]
  BY DEF AsReset, RecoveryPcs
<1> QED
  BY <1>1, <1>2, <1>3, <1>4

\* The locks, and what is live, are those of the abstract requests.
LEMMA SameLocks ==
  ASSUME RecoveryInv
  PROVE  /\ Credentials!AccountLocked <=> AccountLocked
         /\ \A s : Credentials!SessionLocked(s) <=> SessionLocked(s)
         /\ Credentials!Live = Live
         /\ \A s : Credentials!Usable(s) <=> Usable(s)
         /\ \A set : Credentials!Revoked(set) = Revoked(set)
         /\ Credentials!Idle = Idle /\ Credentials!Unused = Unused
         /\ \A r \in Requests : op[r] \in Ops => Resets[r] = op[r]
<1>1. \A r \in Requests : op[r] \in Ops \union RecoveryOps
  BY TypedOps
<1>2. \A r \in Requests : op[r] \in Ops => Resets[r] = op[r]
  BY AsResetFacts DEF Resets
<1>3. ASSUME NEW r \in Requests
      PROVE  /\ AsReset(op[r]).pc \in Writers <=> op[r].pc \in Writers
             /\ AsReset(op[r]).pc = "commitRevoke" <=> op[r].pc = "commitRevoke"
             /\ op[r].pc \in Writers \union {"commitRevoke"} =>
                  AsReset(op[r]).revoking = op[r].revoking
  <2>1. CASE op[r] \in Ops
    BY <2>1, AsResetFacts
  <2>2. CASE op[r] \in RecoveryCommits
    BY <2>2, AsResetFacts, RecoveryKinds DEF Writers
  <2>3. CASE op[r] \in RecoveryOps /\ op[r].pc # "commitRecovery"
    BY <2>3, AsResetFacts, RecoveryKinds, Kinds DEF Writers, RecoveryOps
  <2> QED
    BY <1>1, <2>1, <2>2, <2>3, RecoveryByPc
<1>4. Credentials!AccountLocked <=> AccountLocked
  BY <1>3 DEF Credentials!AccountLocked, AccountLocked, Writers
<1>5. \A s : Credentials!SessionLocked(s) <=> SessionLocked(s)
  BY <1>3 DEF Credentials!SessionLocked, SessionLocked, Credentials!Committing,
     Committing, Writers
<1>6. Credentials!Live = Live /\ Credentials!Unused = Unused
  BY DEF Credentials!Live, Live, Credentials!Unused, Unused
<1>7. /\ \A s : Credentials!Usable(s) <=> Usable(s)
      /\ \A set : Credentials!Revoked(set) = Revoked(set)
      /\ Credentials!Idle = Idle
  BY <1>6 DEF Credentials!Usable, Usable, Credentials!Revoked, Revoked,
     Credentials!Idle, Idle
<1> QED
  BY <1>2, <1>4, <1>5, <1>6, <1>7

\* A request goes on, and no recovery that is about to commit sees the password change.
LEMMA AbstractEnter ==
  ASSUME RecoveryInv, NEW r \in Requests, NEW o, Enter(r, o),
         \A q \in Requests :
           q # r /\ op[q].pc = "commitRecovery" => account'.password = account.password
  PROVE  /\ o \in Ops => Credentials!Enter(r, o)
         /\ o \in RecoveryOps /\ o.pc # "commitRecovery" => Credentials!Enter(r, Idle)
         /\ o \in RecoveryCommits =>
              Credentials!Enter(r, [pc |-> "commitReset", revoking |-> o.revoking,
                                    current |-> account'.password,
                                    password |-> o.password, version |-> o.version])
<1>1. /\ op \in [Requests -> Ops \union RecoveryOps]
      /\ \A q \in Requests : op'[q] = IF q = r THEN o ELSE op[q]
  BY DEF Enter, RecoveryInv, TypeInv, RowsTyped
<1>2. ASSUME NEW q \in Requests, q # r PROVE AsReset(op[q])' = AsReset(op[q])
  <2>1. op'[q] = op[q]
    BY <1>1, <1>2
  <2>2. op[q].pc = "commitRecovery" => account'.password = account.password
    BY <1>2
  <2> QED
    BY <2>1, <2>2 DEF AsReset
<1>3. ASSUME NEW x, AsReset(op[r])' = x PROVE Credentials!Enter(r, x)
  BY <1>2, <1>3 DEF Credentials!Enter
<1>4. o \in Ops => AsReset(op[r])' = o
  BY <1>1, Kinds DEF AsReset, Ops, RecoveryPcs
<1>5. o \in RecoveryOps /\ o.pc # "commitRecovery" => AsReset(op[r])' = Idle
  BY <1>1, RecoveryKinds DEF AsReset, RecoveryOps, RecoveryPcs
<1>6. o \in RecoveryCommits =>
        AsReset(op[r])' = [pc |-> "commitReset", revoking |-> o.revoking,
                           current |-> account'.password, password |-> o.password,
                           version |-> o.version]
  BY <1>1, RecoveryKinds DEF AsReset, RecoveryPcs
<1> QED
  BY <1>3, <1>4, <1>5, <1>6

\* Each step of AuthSessions is that step again.
LEMMA AbstractSession ==
  ASSUME RecoveryInv, Next, UNCHANGED recoveryVars
  PROVE  UNCHANGED Credentials!vars \/ Credentials!Next
<1> DEFINE Good == UNCHANGED Credentials!vars \/ Credentials!Next
<1>0. /\ \A r \in Requests : op[r] \in Ops \union RecoveryOps
      /\ \A r \in Requests : op[r].pc \in SessionPcs => op[r] \in Ops
      /\ Idle \in Ops /\ Idle.pc = "idle"
      /\ TypeInv(RecoveryOps)' /\ Proceeds
      /\ op \in [Requests -> Ops \union RecoveryOps]
      /\ op' \in [Requests -> Ops \union RecoveryOps]
  BY TypedOps, TypeStep, RecoveryForeign, Kinds
     DEF Foreign, Ops, RecoveryInv, TypeInv, RowsTyped
<1>1. \A r, q \in Requests :
        q # r /\ op[q].pc = "commitRecovery" /\ op'[q] = op[q] /\ op'[r] # op[r]
          => account' = account
  BY <1>0 DEF Proceeds, Enter, AccountLocked, RecoveryInv, TypeInv, OneWriter, Writers
\* What the abstract request does, when the concrete one is of AuthSessions.
<1>2. ASSUME NEW r \in Requests, NEW o \in Ops, op[r].pc \in SessionPcs, Enter(r, o),
             account'.password = account.password \/ op[r] # o
      PROVE  /\ Credentials!Enter(r, o)
             /\ Resets[r] = op[r]
  <2>1. \A q \in Requests :
          q # r /\ op[q].pc = "commitRecovery" => account'.password = account.password
    BY <1>0, <1>1, <1>2 DEF Enter
  <2> QED
    BY <1>0, <1>2, <2>1, AbstractEnter, SameLocks
<1>3. ASSUME NEW r \in Requests, NEW o, op[r].pc \in SessionPcs, Enter(r, o)
      PROVE  o \in Ops
  <2>1. op'[r] = o
    BY <1>0, <1>3 DEF Enter
  <2>2. o \in Ops \/ op[r] = o
    BY <1>0, <1>3, <2>1 DEF Proceeds, Enter
  <2> QED
    BY <1>0, <1>3, <2>2
<1>4. ASSUME NEW r \in Requests, NEW o, op[r].pc \in SessionPcs, Enter(r, o),
             UNCHANGED account
      PROVE  Credentials!Enter(r, o) /\ Resets[r] = op[r]
  BY <1>2, <1>3, <1>4
<1>5. /\ Credentials!Idle = Idle
      /\ Credentials!Unused = Unused
      /\ Credentials!Live = Live
      /\ (Credentials!AccountLocked <=> AccountLocked)
      /\ \A s : Credentials!SessionLocked(s) <=> SessionLocked(s)
      /\ \A s : Credentials!Usable(s) <=> Usable(s)
      /\ \A set : Credentials!Revoked(set) = Revoked(set)
  BY SameLocks
<1>6. ASSUME NEW r \in Requests, NEW p \in Passwords, Login(r, p)
      PROVE  Credentials!Login(r, p)
  BY <1>0, <1>4, <1>5, <1>6 DEF Login, Credentials!Login, SessionPcs, Resets
<1>7. ASSUME NEW r \in Requests, NEW p \in Passwords, ResetCredentials(r, p)
      PROVE  Credentials!ResetCredentials(r, p)
  BY <1>0, <1>4, <1>5, <1>7
     DEF ResetCredentials, Credentials!ResetCredentials, SessionPcs, Resets
<1>8. ASSUME NEW r \in Requests, NEW p \in Passwords, NEW q \in Passwords,
             ChangePassword(r, p, q)
      PROVE  Credentials!ChangePassword(r, p, q)
  BY <1>0, <1>4, <1>5, <1>8
     DEF ChangePassword, Credentials!ChangePassword, SessionPcs, Resets
<1>9. ASSUME NEW r \in Requests, NEW s \in SessionIds, FindSession(r, s)
      PROVE  Credentials!FindSession(r, s)
  <2> DEFINE o == [pc |-> "account", session |-> s, seen |-> sessions[s],
                   began |-> IF Usable(s) THEN "usable" ELSE "dead"]
  <2>1. Credentials!Enter(r, o) /\ Resets[r] = op[r]
    BY <1>0, <1>4, <1>9 DEF FindSession, SessionPcs
  <2> QED
    BY <1>5, <1>9, <2>1 DEF FindSession, Credentials!FindSession, Usable, Credentials!Usable,
       Resets
<1>10. ASSUME NEW r \in Requests, NEW set, Revoke(r, set)
       PROVE  Credentials!Revoke(r, set)
  BY <1>0, <1>4, <1>5, <1>10 DEF Revoke, Credentials!Revoke, SessionPcs, Resets
<1>11. ASSUME NEW r \in Requests, NEW s \in SessionIds,
              Logout(r, s) \/ LogoutOthers(r, s) \/ LogoutAll(r)
       PROVE  \/ Credentials!Logout(r, s) \/ Credentials!LogoutOthers(r, s)
              \/ Credentials!LogoutAll(r)
  BY <1>5, <1>10, <1>11 DEF Logout, LogoutOthers, LogoutAll, Credentials!Logout,
     Credentials!LogoutOthers, Credentials!LogoutAll
<1>12. ASSUME NEW r \in Requests, LogoutAll(r) PROVE Credentials!LogoutAll(r)
  BY <1>5, <1>10, <1>12 DEF LogoutAll, Credentials!LogoutAll
<1>13. ASSUME NEW r \in Requests, NEW s \in SessionIds, IssueSession(r, s)
       PROVE  Credentials!IssueSession(r, s)
  <2>1. Credentials!Enter(r, Idle) /\ Resets[r] = op[r]
    BY <1>0, <1>4, <1>13 DEF IssueSession, Leave, SessionPcs
  <2>2. Credentials!Leave(r)
    BY <1>5, <2>1 DEF Credentials!Leave
  <2> QED
    BY <1>5, <1>13, <2>1, <2>2
       DEF IssueSession, Credentials!IssueSession, Issued, Credentials!Issued, Resets
<1>14. ASSUME NEW r \in Requests, CheckAccount(r) PROVE Credentials!CheckAccount(r)
  BY <1>0, <1>4, <1>5, <1>14
     DEF CheckAccount, Credentials!CheckAccount, SessionPcs, Resets
<1>15. ASSUME NEW r \in Requests, ChangeCredentials(r)
       PROVE  Credentials!ChangeCredentials(r)
  BY <1>0, <1>4, <1>5, <1>15
     DEF ChangeCredentials, Credentials!ChangeCredentials, SessionPcs, Resets
<1>16. ASSUME NEW r \in Requests, TouchSession(r) PROVE Credentials!TouchSession(r)
  <2>1. Credentials!Enter(r, Idle) /\ Resets[r] = op[r]
    BY <1>0, <1>4, <1>16 DEF TouchSession, Accepts, Leave, SessionPcs
  <2>2. Credentials!Leave(r)
    BY <1>5, <2>1 DEF Credentials!Leave
  <2> QED
    BY <1>5, <1>16, <2>1, <2>2
       DEF TouchSession, Credentials!TouchSession, Accepts, Credentials!Accepts, Resets
<1>17. ASSUME NEW r \in Requests, CommitRevoke(r) PROVE Credentials!CommitRevoke(r)
  <2>1. Credentials!Enter(r, Idle) /\ Resets[r] = op[r]
    BY <1>0, <1>4, <1>17 DEF CommitRevoke, Leave, SessionPcs
  <2>2. Credentials!Leave(r)
    BY <1>5, <2>1 DEF Credentials!Leave
  <2> QED
    BY <1>5, <1>17, <2>1, <2>2
       DEF CommitRevoke, Credentials!CommitRevoke, Revoked, Credentials!Revoked, Resets
<1>18. ASSUME NEW r \in Requests, Rehash(r) PROVE Credentials!Rehash(r)
  <2>1. op[r] \in Logins
    BY <1>0, <1>18, Kinds DEF Rehash, SessionPcs, Ops
  <2>2. op[r] # [op[r] EXCEPT !.pc = "issue"] /\ [op[r] EXCEPT !.pc = "issue"] \in Ops
    BY <1>18, <2>1 DEF Logins, Rehash, Ops
  <2>3. Credentials!Enter(r, [op[r] EXCEPT !.pc = "issue"]) /\ Resets[r] = op[r]
    BY <1>2, <1>18, <2>2 DEF Rehash, SessionPcs
  <2> QED
    BY <1>5, <1>18, <2>3 DEF Rehash, Credentials!Rehash, Resets
<1>19. ASSUME NEW r \in Requests, CommitReset(r) PROVE Credentials!CommitReset(r)
  <2>1. Credentials!Enter(r, Idle) /\ Resets[r] = op[r]
    BY <1>0, <1>2, <1>19 DEF CommitReset, Leave, SessionPcs
  <2>2. Credentials!Leave(r)
    BY <1>5, <2>1 DEF Credentials!Leave
  <2>3. Credentials!CommitAccount(r)
    BY <1>19, <2>1 DEF CommitReset, CommitAccount, Credentials!CommitAccount, Resets
  <2> QED
    BY <1>5, <1>19, <2>1, <2>2, <2>3
       DEF CommitReset, Credentials!CommitReset, Revoked, Credentials!Revoked, Resets
<1>20. ASSUME NEW r \in Requests, NEW s \in SessionIds, CommitChange(r, s)
       PROVE  Credentials!CommitChange(r, s)
  <2>1. Credentials!Enter(r, Idle) /\ Resets[r] = op[r]
    BY <1>0, <1>2, <1>20 DEF CommitChange, Leave, SessionPcs
  <2>2. Credentials!Leave(r)
    BY <1>5, <2>1 DEF Credentials!Leave
  <2>3. Credentials!CommitAccount(r)
    BY <1>20, <2>1 DEF CommitChange, CommitAccount, Credentials!CommitAccount, Resets
  <2> QED
    BY <1>5, <1>20, <2>1, <2>2, <2>3
       DEF CommitChange, Credentials!CommitChange, Revoked, Credentials!Revoked,
           Issued, Credentials!Issued, Resets
<1>21. ASSUME NEW r \in Requests, Abandon(r) PROVE Good
  <2>1. Credentials!Enter(r, Idle)
    BY <1>0, <1>21, AbstractEnter DEF Abandon, Leave
  <2>2. CASE Resets[r] = Idle
    <3>1. Resets' = Resets
      BY <2>1, <2>2 DEF Credentials!Enter, Resets
    <3> QED
      BY <1>21, <3>1 DEF Abandon, Credentials!vars, Resets
  <2>3. CASE Resets[r] # Idle
    <3>1. Credentials!Abandon(r)
      BY <1>5, <1>21, <2>1, <2>3 DEF Abandon, Credentials!Abandon, Credentials!Leave, Resets
    <3> QED
      BY <3>1 DEF Credentials!Next
  <2> QED
    BY <2>2, <2>3
<1>22. ASSUME NEW s \in SessionIds, NEW age \in {"idle", "expired"}, Expire(s, age)
       PROVE  Credentials!Expire(s, age)
  <2>1. Resets' = Resets
    BY <1>22 DEF Expire, Resets, AsReset
  <2> QED
    BY <1>5, <1>22, <2>1 DEF Expire, Credentials!Expire, Resets
<1> QED
  BY <1>6, <1>7, <1>8, <1>9, <1>11, <1>12, <1>13, <1>14, <1>15, <1>16, <1>17, <1>18,
     <1>19, <1>20, <1>21, <1>22 DEF Next, Credentials!Next

\* A step of recovery is nothing, a reset's statements or its COMMIT.
LEMMA AbstractRecovery ==
  ASSUME RecoveryInv, NEW r \in Requests, RecoverySteps(r)
  PROVE  UNCHANGED Credentials!vars \/ Credentials!Next
<1> DEFINE Good == UNCHANGED Credentials!vars \/ Credentials!Next
<1>0. /\ op[r] \in Ops \union RecoveryOps
      /\ op[r] = Idle => Resets[r] = Idle
      /\ op[r].pc \in RecoveryPcs => Resets[r] = Idle
  BY TypedOps, AsResetFacts, Kinds DEF Resets, AsReset, RecoveryPcs
<1>1. ASSUME NEW o, o = Idle \/ (o \in RecoveryOps /\ o.pc # "commitRecovery"),
             Enter(r, o), UNCHANGED <<account, sessions>>, Resets[r] = Idle
      PROVE  Good
  <2>1. Credentials!Enter(r, Idle)
    BY <1>1, AbstractEnter, Kinds DEF Ops
  <2>2. Resets' = Resets
    BY <1>1, <2>1 DEF Credentials!Enter, Resets
  <2> QED
    BY <1>1, <2>2 DEF Credentials!vars, Resets
<1>2. ASSUME UNCHANGED vars PROVE Good
  BY <1>2 DEF vars, Credentials!vars, AsReset
<1>3. CASE Redeem(r)
  <2>1. op[r] \in Recoveries /\ account.version \in Versions
    BY <1>0, <1>3, RecoveryByPc
       DEF Redeem, RecoveryInv, TypeInv, RowsTyped, Accounts
  <2>2. PICK o : o = [pc |-> "commitRecovery", revoking |-> Live, key |-> op[r].key,
                      token |-> op[r].token, password |-> op[r].password,
                      version |-> account.version + 1]
    OBVIOUS
  <2>3. /\ o \in RecoveryCommits /\ o.revoking = Live
        /\ o.password = op[r].password /\ o.version = account.version + 1
    BY <2>1, <2>2, VersionFacts DEF RecoveryCommits, Recoveries, Live
  <2>4. Enter(r, o) /\ UNCHANGED <<account, sessions>>
    BY <1>3, <2>2 DEF Redeem, Revoking
  <2>5. Credentials!Enter(r, [pc |-> "commitReset", revoking |-> Live,
                              current |-> account.password, password |-> op[r].password,
                              version |-> account.version + 1])
    BY <2>3, <2>4, AbstractEnter
  <2>6. Resets[r] = Idle /\ op[r].password \in Passwords
    BY <1>0, <1>3, <2>1 DEF Redeem, RecoveryPcs, Recoveries
  <2>7. Credentials!ResetCredentials(r, op[r].password)
    BY <1>3, <2>4, <2>5, <2>6, SameLocks
       DEF Redeem, Credentials!ResetCredentials, Resets
  <2> QED
    BY <2>6, <2>7 DEF Credentials!Next
<1>4. CASE CommitRecovery(r)
  <2>1. op[r] \in RecoveryCommits
    BY <1>4, CommitRecoveryFacts
  <2>2. /\ Resets[r].pc = "commitReset" /\ Resets[r].revoking = op[r].revoking
        /\ Resets[r].password = op[r].password /\ Resets[r].version = op[r].version
    BY <2>1, AsResetFacts DEF Resets
  <2>3. PICK o : o = AnswerOf("publish", op[r].key, op[r].token, op[r].password)
    OBVIOUS
  <2>4. o \in Answers
    BY <2>1, <2>3 DEF AnswerOf, Answers, RecoveryCommits
  <2>5. o \in RecoveryOps /\ o.pc # "commitRecovery" /\ Enter(r, o)
    BY <1>4, <2>3, <2>4, RecoveryKinds DEF CommitRecovery, RecoveryOps
  <2>6. \A q \in Requests : q # r => op[q].pc # "commitRecovery"
    BY <1>4 DEF CommitRecovery, RecoveryInv, TypeInv, OneWriter, Writers
  <2>7. Credentials!Enter(r, Idle)
    BY <2>5, <2>6, AbstractEnter
  <2>8. Credentials!Leave(r)
    BY <2>7, SameLocks DEF Credentials!Leave
  <2>9. Credentials!CommitAccount(r)
    BY <1>4, <2>2 DEF CommitRecovery, CommitAccount, Credentials!CommitAccount, Resets
  <2>10. Credentials!CommitReset(r)
    BY <1>4, <2>2, <2>8, <2>9, SameLocks
       DEF CommitRecovery, Credentials!CommitReset, Revoked, Credentials!Revoked, Resets
  <2> QED
    BY <2>10 DEF Credentials!Next
<1>5. CASE Publish(r)
  <2>1. op[r] \in Answers
    BY <1>0, <1>5, RecoveryByPc DEF Publish
  <2>2. /\ [op[r] EXCEPT !.pc = "answer"] \in Answers
        /\ [op[r] EXCEPT !.pc = "answer"].pc = "answer"
    BY <2>1 DEF Answers
  <2> QED
    BY <1>0, <1>1, <1>5, <2>2 DEF Publish, RecoveryPcs, RecoveryOps
<1>6. ASSUME NEW k \in Keys, NEW t \in Tokens, NEW p \in Passwords, Repeated(r, k, t, p),
             Resets[r] = Idle
      PROVE  Good
  <2>1. AnswerOf("answer", k, t, p) \in Answers
    BY DEF AnswerOf, Answers
  <2> QED
    BY <1>1, <1>6, <2>1, RecoveryKinds DEF Repeated, RecoveryOps
<1>7. CASE RepeatInTransaction(r)
  <2>1. op[r] \in Recoveries
    BY <1>0, <1>7, RecoveryByPc DEF RepeatInTransaction
  <2> QED
    BY <1>0, <1>6, <1>7, <2>1 DEF RepeatInTransaction, Recoveries, RecoveryPcs
<1>8. ASSUME NEW k \in Keys, NEW t \in Tokens, NEW p \in Passwords,
             CompleteRecovery(r, k, t, p) \/ RepeatCompletion(r, k, t, p)
      PROVE  Good
  <2>1. [pc |-> "recover", key |-> k, token |-> t, password |-> p] \in Recoveries
    BY DEF Recoveries
  <2> QED
    BY <1>0, <1>1, <1>6, <1>8, <2>1, RecoveryKinds
       DEF CompleteRecovery, RepeatCompletion, RecoveryOps
<1>9. ASSUME NEW t \in Tokens, FindChallenge(r, t) \/ IssueToken(r, t) PROVE Good
  <2>1. CASE IssueToken(r, t)
    BY <1>0, <1>1, <2>1 DEF IssueToken, Leave, RecoveryPcs
  <2>2. CASE FindChallenge(r, t)
    <3>1. [pc |-> "verifyMethod", token |-> t, seen |-> challenge[t]] \in Verifications
      BY <2>2 DEF FindChallenge, Pending, Verifications, RecoveryInv, TokenRows
    <3> QED
      BY <1>0, <1>1, <2>2, <3>1, RecoveryKinds DEF FindChallenge, RecoveryOps
  <2> QED
    BY <1>9, <2>1, <2>2
<1>10. CASE RequestRecovery(r)
  <2>1. [pc |-> "issueToken", version |-> account.version] \in Issues
    BY DEF Issues, RecoveryInv, TypeInv, RowsTyped, Accounts
  <2> QED
    BY <1>0, <1>1, <1>10, <2>1, RecoveryKinds DEF RequestRecovery, RecoveryOps
<1>11. CASE Answer(r) \/ VerifyMethod(r)
  BY <1>0, <1>1, <1>11 DEF Answer, VerifyMethod, Leave, RecoveryPcs
<1>12. ASSUME NEW epoch, NEW state, Command(r, epoch, state) PROVE Good
  BY <1>0, <1>1, <1>2, <1>12, RecoveryKinds DEF Command, vars, RecoveryOps
<1> QED
  BY <1>3, <1>4, <1>5, <1>7, <1>8, <1>9, <1>10, <1>11, <1>12
     DEF RecoverySteps, OperatorLock, OperatorUnlock, OperatorInvalidate

\* To the password and the sessions of an account, recovery is a reset of the
\* credentials: what its requests, its operators and its clock do in between shows
\* nowhere else (completeRecovery() in packages/auth/src/recovery.ts).
THEOREM RecoveryIsReset == RecoverySpec => ImplementsSessions
<1> DEFINE A == UNCHANGED Credentials!vars \/ Credentials!Next
<1>1. RecoveryInit => Credentials!Init
  <2> SUFFICES ASSUME RecoveryInit PROVE Credentials!Init
    OBVIOUS
  <2>1. \A r \in Requests : op[r] = Idle
    BY DEF RecoveryInit, Init
  <2>2. Resets = [r \in Requests |-> Idle]
    BY <2>1, AsResetFacts DEF Resets, Ops
  <2> QED
    BY <2>2 DEF RecoveryInit, Init, Credentials!Init, Credentials!Idle, Idle,
       Credentials!Unused, Unused, Resets
<1>2. UNCHANGED vars => UNCHANGED Credentials!vars
  BY DEF vars, Credentials!vars, AsReset
<1>3. RecoveryInv /\ [RecoveryNext]_allVars => A
  <2> SUFFICES ASSUME RecoveryInv, [RecoveryNext]_allVars PROVE A
    OBVIOUS
  <2>1. CASE UNCHANGED allVars
    BY <1>2, <2>1 DEF allVars
  <2>2. CASE MethodSteps \/ OperatorRevoke
             \/ (\E state \in {"locked", "unlocked"} : SetOperatorLock(state))
             \/ \E t \in Tokens : ExpiryPasses(t) \/ ExpireChallenges(t)
    BY <1>2, <2>2 DEF MethodSteps, RevokeMethod, StartMethod, ReplaceMethod, AddMethod,
       OperatorRevoke, SetOperatorLock, ExpiryPasses, ExpireChallenges
  <2> QED
    BY <2>1, <2>2, AbstractSession, AbstractRecovery DEF RecoveryNext
<1> HIDE DEF A
<1>4. RecoverySpec => [][A]_allVars
  BY <1>3, RecoveryInvariant, PTL DEF RecoverySpec
<1> QED
  BY <1>1, <1>4 DEF ImplementsSessions, RecoverySpec, A

--------------------------------------------------------------------------------
(* The schema: whoever holds the lock of the migrations only carries on the      *)
(* history that it has read                                                      *)

Begins(s, t) == Len(s) <= Len(t) /\ \A i \in 1 .. Len(s) : s[i] = t[i]

GateTyped ==
  /\ gate = [policy |-> gate.policy, before |-> gate.before, preflight |-> gate.preflight,
             after |-> gate.after, postflight |-> gate.postflight]
  /\ {gate.preflight, gate.postflight} \subseteq {"none", "accepted", "rejected"}

SchemaTyped ==
  /\ history \in Seq(Checksums)
  /\ migrationLock \in {"free", "plan"} \union DOMAIN Migrators
  /\ migrator \in [DOMAIN Migrators ->
                    [pc : {"idle", "waiting", "locked", "applying", "ended"},
                     rows : Seq(Checksums)]]
  /\ plan \in [pc : {"idle", "waiting", "locked", "ended"}, snapshot : Seq(Checksums),
               from : Nat]
  /\ server \in [DOMAIN Servers -> [up : BOOLEAN, pc : {"idle", "counted"}, ready : BOOLEAN]]
  /\ GateTyped

Migrated == \E b \in DOMAIN Migrations : Begins(history, Migrations[b])

\* A migrator that reads, applies or commits has the lock, and so has the planner.
Holding ==
  /\ \A m \in DOMAIN Migrators :
       migrator[m].pc \in {"locked", "applying"} => migrationLock = m
  /\ plan.pc = "locked" => migrationLock = "plan"

\* What is applied but not committed carries on the history, along the migrations of the
\* build of the migrator.
Applying ==
  \A m \in DOMAIN Migrators : migrator[m].pc = "applying" =>
    /\ Begins(history, migrator[m].rows)
    /\ Begins(migrator[m].rows, Migrations[Migrators[m]])

\* Evidence of the target's migrations stays true, and no gate accepts another.
Evident ==
  /\ \A e \in gate.after : e.verified => Begins(Migrations[Target], history)
  /\ gate.postflight = "accepted" => \E e \in gate.after : e.verified

SchemaInv == SchemaTyped /\ Migrated /\ Holding /\ Applying /\ Evident

--------------------------------------------------------------------------------
LEMMA PrefixBegins ==
  ASSUME NEW s \in Seq(Checksums), NEW t \in Seq(Checksums)
  PROVE  Schema!IsPrefix(s, t) <=> Begins(s, t)
<1>1. Len(s) \in Nat /\ Len(t) \in Nat
  BY LenProperties
<1>2. ASSUME Len(s) <= Len(t)
      PROVE  SubSeq(s, 1, Len(s)) = SubSeq(t, 1, Len(s)) <=> \A i \in 1 .. Len(s) : s[i] = t[i]
  BY <1>1, <1>2
<1> QED
  BY <1>1, <1>2 DEF Schema!IsPrefix, Begins

LEMMA BeginsOn ==
  ASSUME NEW s \in Seq(Checksums), NEW t \in Seq(Checksums), NEW u \in Seq(Checksums),
         Begins(s, t), Begins(t, u)
  PROVE  Begins(s, u)
<1>1. Len(s) \in Nat /\ Len(t) \in Nat /\ Len(u) \in Nat
  BY LenProperties
<1> QED
  BY <1>1 DEF Begins

LEMMA BeginsSelf ==
  ASSUME NEW s \in Seq(Checksums)
  PROVE  Begins(s, s)
  BY LenProperties DEF Begins

\* What is appended is the next of the migrations.
LEMMA NextMigration ==
  ASSUME NEW s \in Seq(Checksums), NEW t \in Seq(Checksums), Begins(s, t), Len(s) < Len(t),
         NEW new, new = Append(s, t[Len(s) + 1])
  PROVE  new \in Seq(Checksums) /\ Begins(s, new) /\ Begins(new, t)
<1>1. Len(s) \in Nat /\ Len(t) \in Nat /\ Len(s) + 1 \in 1 .. Len(t)
  BY LenProperties
<1>2. t[Len(s) + 1] \in Checksums
  BY <1>1, ElementOfSeq
<1>3. /\ new \in Seq(Checksums) /\ Len(new) = Len(s) + 1
      /\ \A i \in 1 .. Len(s) : new[i] = s[i]
      /\ new[Len(s) + 1] = t[Len(s) + 1]
  BY <1>2, AppendProperties
<1> QED
  BY <1>1, <1>3 DEF Begins

LEMMA SchemaStarts == ASSUME Schema!Init PROVE SchemaInv
<1>0. PICK b \in DOMAIN Migrations :
        \E n \in 0 .. Len(Migrations[b]) : history = SubSeq(Migrations[b], 1, n)
  BY DEF Schema!Init, Schema!Builds
<1>1. PICK n \in 0 .. Len(Migrations[b]) : history = SubSeq(Migrations[b], 1, n)
  BY <1>0
<1>2. Migrations[b] \in Seq(Checksums) /\ Len(Migrations[b]) \in Nat
  BY SchemaAssumption, LenProperties
<1>3. history \in Seq(Checksums) /\ Begins(history, Migrations[b])
  BY <1>1, <1>2 DEF Begins
<1>4. /\ migrator = [m \in DOMAIN Migrators |-> [pc |-> "idle", rows |-> <<>>]]
      /\ plan = [pc |-> "idle", snapshot |-> <<>>, from |-> 0]
      /\ server = [s \in DOMAIN Servers |-> [up |-> FALSE, pc |-> "idle", ready |-> FALSE]]
      /\ gate = [policy |-> {}, before |-> {}, preflight |-> "none",
                 after |-> {}, postflight |-> "none"]
      /\ migrationLock = "free"
  BY DEF Schema!Init, Schema!NoPlan
<1>5. GateTyped /\ Evident
  BY <1>4 DEF GateTyped, Evident
<1>6. SchemaTyped
  BY <1>3, <1>4, <1>5 DEF SchemaTyped
<1> QED
  BY <1>3, <1>4, <1>5, <1>6 DEF SchemaInv, Migrated, Holding, Applying

--------------------------------------------------------------------------------
(* Steps of migrators *)

\* Where a migrator goes; the rest but the lock and the history stays.
Turns(m, new) ==
  /\ migrator' = [migrator EXCEPT ![m] = new]
  /\ UNCHANGED <<plan, server, gate>>

LEMMA MigratorMoves ==
  ASSUME SchemaInv, NEW m \in DOMAIN Migrators,
         NEW new \in [pc : {"idle", "waiting", "locked", "applying", "ended"},
                      rows : Seq(Checksums)],
         Turns(m, new), history' \in Seq(Checksums), Migrated',
         Begins(history, history'),
         migrationLock' \in {"free", "plan"} \union DOMAIN Migrators,
         migrationLock' # migrationLock => migrationLock \in {"free", m},
         new.pc \in {"locked", "applying"} => migrationLock' = m,
         new.pc = "applying" =>
           Begins(history', new.rows) /\ Begins(new.rows, Migrations[Migrators[m]]),
         history' # history => migrationLock = m
  PROVE  SchemaInv'
<1>1. /\ migrator' \in [DOMAIN Migrators ->
                         [pc : {"idle", "waiting", "locked", "applying", "ended"},
                          rows : Seq(Checksums)]]
      /\ migrator'[m] = new
      /\ \A k \in DOMAIN Migrators : k # m => migrator'[k] = migrator[k]
  BY DEF SchemaInv, SchemaTyped, Turns
<1>2. SchemaTyped'
  BY <1>1 DEF SchemaInv, SchemaTyped, GateTyped, Turns
<1>3. Holding'
  BY <1>1, SchemaAssumption DEF SchemaInv, Holding, Turns
<1>4. Applying'
  <2> SUFFICES ASSUME NEW k \in DOMAIN Migrators, migrator'[k].pc = "applying"
               PROVE  /\ Begins(history', migrator'[k].rows)
                      /\ Begins(migrator'[k].rows, Migrations[Migrators[k]])
    BY DEF Applying, Begins
  <2>1. CASE k = m
    BY <1>1, <2>1
  <2>2. CASE k # m
    <3>1. migrator'[k] = migrator[k] /\ migrationLock = k
      BY <1>1, <2>2 DEF SchemaInv, Holding
    <3>2. history' = history
      BY <2>2, <3>1
    <3> QED
      BY <3>1, <3>2 DEF SchemaInv, Applying
  <2> QED
    BY <2>1, <2>2
<1>5. Evident'
  <2>1. /\ history \in Seq(Checksums) /\ Migrations[Target] \in Seq(Checksums)
        /\ gate' = gate
    BY SchemaAssumption DEF SchemaInv, SchemaTyped, Turns
  <2>2. ASSUME Begins(Migrations[Target], history) PROVE Begins(Migrations[Target], history')
    BY <2>1, <2>2, BeginsOn
  <2> QED
    BY <2>1, <2>2 DEF SchemaInv, Evident, Begins
<1> QED
  BY <1>2, <1>3, <1>4, <1>5 DEF SchemaInv

LEMMA MigratingKeeps ==
  ASSUME SchemaInv, NEW m \in DOMAIN Migrators,
         Schema!BeginMigration(m) \/ Schema!Migrating(m) \/ Schema!AbortMigration(m)
  PROVE  SchemaInv'
<1> DEFINE Turn == [pc : {"idle", "waiting", "locked", "applying", "ended"},
                    rows : Seq(Checksums)]
<1>1. /\ migrator[m] \in Turn /\ migrator[m].rows \in Seq(Checksums)
      /\ history \in Seq(Checksums) /\ Migrations[Migrators[m]] \in Seq(Checksums)
      /\ migrationLock \in {"free", "plan"} \union DOMAIN Migrators
      /\ Migrators[m] \in DOMAIN Migrations
      /\ Migrated
  BY SchemaAssumption DEF SchemaInv, SchemaTyped
<1>2. Begins(history, history)
  BY <1>1, BeginsSelf
<1>3. UNCHANGED history => Migrated'
  BY <1>1 DEF Migrated, Begins
<1>4. ASSUME NEW pc \in {"waiting", "locked", "ended"}
      PROVE  /\ [pc |-> pc, rows |-> migrator[m].rows] \in Turn
             /\ [migrator EXCEPT ![m].pc = pc]
                  = [migrator EXCEPT ![m] = [pc |-> pc, rows |-> migrator[m].rows]]
  <2>1. [migrator[m] EXCEPT !.pc = pc] = [pc |-> pc, rows |-> migrator[m].rows]
    <3>1. PICK r \in Turn : r = migrator[m]
      BY <1>1
    <3>2. [r EXCEPT !.pc = pc] = [pc |-> pc, rows |-> r.rows]
      OBVIOUS
    <3> QED
      BY <3>1, <3>2, Zenon
  <2>2. [migrator EXCEPT ![m].pc = pc] = [migrator EXCEPT ![m] = [migrator[m] EXCEPT !.pc = pc]]
    BY Zenon
  <2> QED
    BY <1>1, <2>1, <2>2
<1>5. CASE Schema!BeginMigration(m)
  <2>1. PICK new \in Turn : new = [pc |-> "waiting", rows |-> migrator[m].rows]
    BY <1>4
  <2>2. Turns(m, new) /\ UNCHANGED <<history, migrationLock>>
    BY <1>4, <1>5, <2>1 DEF Schema!BeginMigration, Turns
  <2>3. new.pc = "waiting"
    BY <2>1
  <2> QED
    BY <1>1, <1>2, <1>3, <2>2, <2>3, MigratorMoves
<1>6. CASE Schema!LockMigration(m)
  <2>1. PICK new \in Turn : new = [pc |-> "locked", rows |-> migrator[m].rows]
    BY <1>4
  <2>2. /\ Turns(m, new) /\ UNCHANGED history /\ migrationLock = "free"
        /\ migrationLock' = m
    BY <1>4, <1>6, <2>1 DEF Schema!LockMigration, Turns
  <2>3. new.pc = "locked"
    BY <2>1
  <2> QED
    BY <1>1, <1>2, <1>3, <2>2, <2>3, MigratorMoves
<1>7. CASE Schema!ReadApplied(m)
  <2>1. migrationLock = m /\ UNCHANGED history
    BY <1>7 DEF SchemaInv, Holding, Schema!ReadApplied
  <2>2. CASE Schema!Compatible(history, Migrators[m])
    <3>1. PICK new \in Turn : new = [pc |-> "applying", rows |-> history]
      BY <1>1
    <3>2. Turns(m, new) /\ UNCHANGED migrationLock
      BY <1>7, <2>2, <3>1 DEF Schema!ReadApplied, Turns
    <3>3. new.pc = "applying" /\ new.rows = history
      BY <3>1
    <3>4. Begins(history, Migrations[Migrators[m]])
      BY <1>1, <2>2, PrefixBegins DEF Schema!Compatible
    <3> QED
      BY <1>1, <1>2, <1>3, <2>1, <3>2, <3>3, <3>4, MigratorMoves
  <2>3. CASE ~Schema!Compatible(history, Migrators[m])
    <3>1. PICK new \in Turn : new = [pc |-> "ended", rows |-> migrator[m].rows]
      BY <1>4
    <3>2. Turns(m, new) /\ migrationLock' = "free"
      BY <1>4, <1>7, <2>3, <3>1 DEF Schema!ReadApplied, Turns
    <3>3. new.pc = "ended"
      BY <3>1
    <3> QED
      BY <1>1, <1>2, <1>3, <2>1, <3>2, <3>3, MigratorMoves
  <2> QED
    BY <2>2, <2>3
<1>8. CASE Schema!ApplyMigration(m)
  <2>1. /\ migrator[m].pc = "applying"
        /\ Len(migrator[m].rows) < Len(Migrations[Migrators[m]])
        /\ UNCHANGED <<history, migrationLock, plan, server, gate>>
    BY <1>8 DEF Schema!ApplyMigration
  <2>2. /\ migrationLock = m /\ Begins(history, migrator[m].rows)
        /\ Begins(migrator[m].rows, Migrations[Migrators[m]])
    BY <2>1 DEF SchemaInv, Holding, Applying
  <2>3. PICK rows : rows = Append(migrator[m].rows,
                       Migrations[Migrators[m]][Len(migrator[m].rows) + 1])
    OBVIOUS
  <2>4. /\ rows \in Seq(Checksums) /\ Begins(migrator[m].rows, rows)
        /\ Begins(rows, Migrations[Migrators[m]])
    BY <1>1, <2>1, <2>2, <2>3, NextMigration
  <2>5. Begins(history, rows)
    BY <1>1, <2>2, <2>4, BeginsOn
  <2>6. PICK new \in Turn : new = [pc |-> "applying", rows |-> rows]
    BY <2>4
  <2>7. Turns(m, new)
    <3>1. migrator' = [migrator EXCEPT ![m].rows = rows]
      BY <1>8, <2>3, Zenon DEF Schema!ApplyMigration
    <3>2. [migrator[m] EXCEPT !.rows = rows] = new
      <4>1. PICK r \in Turn : r = migrator[m]
        BY <1>1
      <4>2. [r EXCEPT !.rows = rows] = [pc |-> r.pc, rows |-> rows]
        OBVIOUS
      <4> QED
        BY <2>1, <2>6, <4>1, <4>2, Zenon
    <3> QED
      BY <2>1, <3>1, <3>2, Zenon DEF Turns
  <2>8. new.pc = "applying" /\ new.rows = rows
    BY <2>6
  <2> QED
    BY <1>1, <1>2, <1>3, <2>1, <2>2, <2>4, <2>5, <2>7, <2>8, MigratorMoves
<1>9. CASE Schema!CommitMigration(m)
  <2>1. /\ migrator[m].pc = "applying" /\ history' = migrator[m].rows
        /\ migrationLock' = "free"
    BY <1>9 DEF Schema!CommitMigration
  <2>2. /\ migrationLock = m /\ Begins(history, migrator[m].rows)
        /\ Begins(migrator[m].rows, Migrations[Migrators[m]])
    BY <2>1 DEF SchemaInv, Holding, Applying
  <2>3. PICK new \in Turn : new = [pc |-> "ended", rows |-> migrator[m].rows]
    BY <1>4
  <2>4. Turns(m, new)
    BY <1>4, <1>9, <2>3 DEF Schema!CommitMigration, Turns
  <2>5. new.pc = "ended"
    BY <2>3
  <2>6. Migrated'
    BY <1>1, <2>1, <2>2 DEF Migrated, Begins
  <2> QED
    BY <1>1, <2>1, <2>2, <2>4, <2>5, <2>6, MigratorMoves
<1>10. CASE Schema!AbortMigration(m)
  <2>1. PICK new \in Turn : new = [pc |-> "ended", rows |-> migrator[m].rows]
    BY <1>4
  <2>2. /\ Turns(m, new) /\ UNCHANGED history
        /\ migrationLock' = IF migrationLock = m THEN "free" ELSE migrationLock
    BY <1>4, <1>10, <2>1 DEF Schema!AbortMigration, Turns
  <2>3. new.pc = "ended"
    BY <2>1
  <2> QED
    BY <1>1, <1>2, <1>3, <2>2, <2>3, MigratorMoves
<1> QED
  BY <1>5, <1>6, <1>7, <1>8, <1>9, <1>10 DEF Schema!Migrating

--------------------------------------------------------------------------------
(* Steps of the planner, the servers and the gate *)

LEMMA PlanKeeps ==
  ASSUME SchemaInv, Schema!BeginPlan \/ Schema!LockPlan \/ Schema!EndPlan
  PROVE  SchemaInv'
<1>1. /\ UNCHANGED <<history, migrator, server, gate>>
      /\ history \in Seq(Checksums) /\ Len(history) \in Nat
      /\ plan.snapshot \in Seq(Checksums) /\ Len(plan.snapshot) \in Nat
  BY LenProperties DEF Schema!BeginPlan, Schema!LockPlan, Schema!EndPlan, SchemaInv, SchemaTyped
<1>2. /\ plan' \in [pc : {"idle", "waiting", "locked", "ended"}, snapshot : Seq(Checksums),
                    from : Nat]
      /\ migrationLock' \in {"free", "plan"} \union DOMAIN Migrators
  <2>1. CASE Schema!BeginPlan
    BY <1>1, <2>1 DEF Schema!BeginPlan, SchemaInv, SchemaTyped
  <2>2. CASE Schema!LockPlan
    BY <2>2 DEF Schema!LockPlan, SchemaInv, SchemaTyped
  <2>3. CASE Schema!EndPlan
    BY <1>1, <2>3 DEF Schema!EndPlan, Schema!NoPlan
  <2> QED
    BY <2>1, <2>2, <2>3
<1>3. Holding'
  <2>1. CASE Schema!BeginPlan
    BY <2>1 DEF Schema!BeginPlan, SchemaInv, Holding
  <2>2. CASE Schema!LockPlan
    BY <2>2, SchemaAssumption DEF Schema!LockPlan, SchemaInv, SchemaTyped, Holding
  <2>3. CASE Schema!EndPlan
    <3>1. plan'.pc # "locked"
      BY <2>3 DEF Schema!EndPlan, Schema!NoPlan
    <3> QED
      BY <2>3, <3>1, SchemaAssumption DEF Schema!EndPlan, SchemaInv, Holding
  <2> QED
    BY <2>1, <2>2, <2>3
<1>4. SchemaTyped'
  BY <1>1, <1>2 DEF SchemaInv, SchemaTyped, GateTyped
<1>5. Migrated' /\ Applying' /\ Evident'
  BY <1>1 DEF SchemaInv, Migrated, Applying, Evident, Begins
<1> QED
  BY <1>3, <1>4, <1>5 DEF SchemaInv

LEMMA ServerKeeps ==
  ASSUME SchemaInv, NEW s \in DOMAIN Servers,
         Schema!Verifying(s) \/ Schema!StopServer(s)
  PROVE  SchemaInv'
<1> DEFINE State == [up : BOOLEAN, pc : {"idle", "counted"}, ready : BOOLEAN]
<1>1. UNCHANGED <<history, migrationLock, migrator, plan, gate>>
  BY DEF Schema!Verifying, Schema!CountVersion, Schema!CompareHistory, Schema!StopServer
<1>2. /\ server \in [DOMAIN Servers -> State] /\ server[s].up \in BOOLEAN
      /\ server[s].ready \in BOOLEAN /\ server[s].pc \in {"idle", "counted"}
  BY DEF SchemaInv, SchemaTyped
<1>3. server' \in [DOMAIN Servers -> State]
  <2>1. CASE Schema!CountVersion(s)
    <3>1. PICK same \in BOOLEAN : same = (Len(history) = Len(Migrations[Servers[s]]))
      OBVIOUS
    <3>2. PICK ready \in BOOLEAN : ready = (server[s].ready /\ same)
      BY <1>2
    <3>3. PICK pc \in {"idle", "counted"} : pc = IF same THEN "counted" ELSE server[s].pc
      BY <1>2
    <3>4. server' = [server EXCEPT ![s].pc = pc, ![s].ready = ready]
      BY <2>1, <3>1, <3>2, <3>3, Zenon DEF Schema!CountVersion
    <3> QED
      BY <1>2, <3>4
  <2>2. CASE Schema!CompareHistory(s)
    <3>1. PICK same \in BOOLEAN : same = (history = Migrations[Servers[s]])
      OBVIOUS
    <3>2. PICK up \in BOOLEAN : up = (server[s].up \/ same)
      BY <1>2
    <3>3. server' = [server EXCEPT ![s] = [up |-> up, pc |-> "idle", ready |-> same]]
      BY <2>2, <3>1, <3>2, Zenon DEF Schema!CompareHistory
    <3> QED
      BY <1>2, <3>3
  <2>3. CASE Schema!StopServer(s)
    BY <1>2, <2>3 DEF Schema!StopServer
  <2> QED
    BY <2>1, <2>2, <2>3 DEF Schema!Verifying
<1>4. SchemaTyped'
  BY <1>1, <1>3 DEF SchemaInv, SchemaTyped, GateTyped
<1>5. Migrated' /\ Holding' /\ Applying' /\ Evident'
  BY <1>1 DEF SchemaInv, Migrated, Holding, Applying, Evident, Begins
<1> QED
  BY <1>4, <1>5 DEF SchemaInv

LEMMA GateKeeps ==
  ASSUME SchemaInv, Schema!Gating
  PROVE  SchemaInv'
<1>1. UNCHANGED <<history, migrationLock, migrator, plan, server>>
  BY DEF Schema!Gating, Schema!LoadPolicy, Schema!RecordPreflight, Schema!RecordPostflight,
         Schema!EvaluatePreflight, Schema!EvaluatePostflight
<1>2. PICK before, after, policy, preflight, postflight :
        gate = [policy |-> policy, before |-> before, preflight |-> preflight,
                after |-> after, postflight |-> postflight]
  BY DEF SchemaInv, SchemaTyped, GateTyped
<1>3. GateTyped /\ Evident
  BY DEF SchemaInv, SchemaTyped
<1>4. \A failures : Schema!Verdict(failures) \in {"accepted", "rejected"}
                    /\ (Schema!Verdict(failures) = "accepted" => failures = {})
  BY DEF Schema!Verdict
<1>5. GateTyped' /\ Evident'
  <2>1. CASE \E p \in Policies : Schema!LoadPolicy(p)
    <3>1. PICK p : gate' = [gate EXCEPT !.policy = {p}]
      BY <2>1 DEF Schema!LoadPolicy
    <3> QED
      BY <1>1, <1>2, <1>3, <3>1 DEF GateTyped, Evident, Begins
  <2>2. CASE \E c \in Conditions : Schema!RecordPreflight(c)
    <3>1. PICK found : gate' = [gate EXCEPT !.before = found]
      BY <2>2 DEF Schema!RecordPreflight
    <3> QED
      BY <1>1, <1>2, <1>3, <3>1 DEF GateTyped, Evident, Begins
  <2>3. CASE \E probes, names \in BOOLEAN : Schema!RecordPostflight(probes, names)
    <3>1. PICK probes \in BOOLEAN, names \in BOOLEAN : Schema!RecordPostflight(probes, names)
      BY <2>3
    <3>2. PICK e : e = [schema |-> Len(history), verified |-> history = Migrations[Target],
             ready |-> \E s \in DOMAIN Servers : Servers[s] = Target /\ server[s].ready,
             probes |-> probes, names |-> names]
      OBVIOUS
    <3>3. gate' = [gate EXCEPT !.after = {e}] /\ gate.after = {}
      BY <3>1, <3>2, Zenon DEF Schema!RecordPostflight
    <3>4. e.verified => Begins(Migrations[Target], history)
      <4>1. e.verified = (history = Migrations[Target])
        BY <3>2, Zenon
      <4>2. history \in Seq(Checksums)
        BY DEF SchemaInv, SchemaTyped
      <4> QED
        BY <4>1, <4>2, BeginsSelf
    <3> QED
      BY <1>1, <1>2, <1>3, <3>3, <3>4 DEF GateTyped, Evident, Begins
  <2>4. CASE Schema!EvaluatePreflight
    <3>1. PICK p, e : gate' = [gate EXCEPT !.preflight = Schema!Verdict(Schema!PreflightFailures(p, e))]
      BY <2>4 DEF Schema!EvaluatePreflight
    <3>2. PICK verdict \in {"accepted", "rejected"} :
            verdict = Schema!Verdict(Schema!PreflightFailures(p, e))
      BY <1>4
    <3>3. gate' = [gate EXCEPT !.preflight = verdict]
      BY <3>1, <3>2, Zenon
    <3> QED
      BY <1>1, <1>2, <1>3, <3>3 DEF GateTyped, Evident, Begins
  <2>5. CASE Schema!EvaluatePostflight
    <3>1. PICK p, e : /\ e \in gate.after
                      /\ gate' = [gate EXCEPT !.postflight = Schema!Verdict(Schema!PostflightFailures(p, e))]
      BY <2>5 DEF Schema!EvaluatePostflight
    <3>2. PICK verdict \in {"accepted", "rejected"} :
            verdict = Schema!Verdict(Schema!PostflightFailures(p, e))
      BY <1>4
    <3>3. gate' = [gate EXCEPT !.postflight = verdict]
      BY <3>1, <3>2, Zenon
    <3>4. verdict = "accepted" => e.verified
      <4>1. verdict = "accepted" => Schema!PostflightFailures(p, e) = {}
        BY <1>4, <3>2
      <4>2. ~e.verified => "migration_history_unverified" \in Schema!PostflightFailures(p, e)
        BY DEF Schema!PostflightFailures
      <4> QED
        BY <4>1, <4>2
    <3> QED
      BY <1>1, <1>2, <1>3, <3>1, <3>3, <3>4 DEF GateTyped, Evident, Begins
  <2> QED
    BY <2>1, <2>2, <2>3, <2>4, <2>5 DEF Schema!Gating
<1>6. SchemaTyped'
  BY <1>1, <1>5 DEF SchemaInv, SchemaTyped
<1>7. Migrated' /\ Holding' /\ Applying'
  BY <1>1 DEF SchemaInv, Migrated, Holding, Applying, Begins
<1> QED
  BY <1>5, <1>6, <1>7 DEF SchemaInv

LEMMA SchemaStep == ASSUME SchemaInv, Schema!Next PROVE SchemaInv'
  BY MigratingKeeps, PlanKeeps, ServerKeeps, GateKeeps DEF Schema!Next

LEMMA SchemaStutters == ASSUME SchemaInv, UNCHANGED schemaVars PROVE SchemaInv'
<1>1. SchemaTyped'
  BY DEF schemaVars, SchemaInv, SchemaTyped, GateTyped
<1> QED
  BY <1>1 DEF schemaVars, SchemaInv, Migrated, Holding, Applying, Evident, Begins

--------------------------------------------------------------------------------
(* What follows *)

LEMMA SchemaTypeOK == ASSUME SchemaInv PROVE Schema!TypeOK
<1>1. UNION {Schema!Range(Migrations[b]) : b \in Schema!Builds} = Checksums
  BY DEF Schema!Range, Schema!Builds, Checksums
<1> QED
  BY <1>1 DEF SchemaInv, SchemaTyped, GateTyped, Schema!TypeOK

LEMMA SchemaFollows == ASSUME SchemaInv PROVE Schema!OneHistory /\ Schema!AcceptedIsInstalled
<1>1. /\ history \in Seq(Checksums) /\ \A b \in DOMAIN Migrations : Migrations[b] \in Seq(Checksums)
      /\ Target \in DOMAIN Migrations
  BY SchemaAssumption DEF SchemaInv, SchemaTyped
<1>2. Schema!OneHistory
  BY <1>1, PrefixBegins DEF SchemaInv, Migrated, Schema!OneHistory, Schema!Builds
<1>3. Schema!AcceptedIsInstalled
  BY <1>1, PrefixBegins DEF SchemaInv, Evident, Schema!AcceptedIsInstalled
<1> QED
  BY <1>2, <1>3

--------------------------------------------------------------------------------
(* The part as MCRecovery composes it                                            *)

LEMMA SchemaInvariant == MCSpec => []SchemaInv
<1>1. MCInit => SchemaInv
  BY SchemaStarts DEF MCInit
<1>2. SchemaInv /\ [MCNext]_<<part, allVars, backupVars, schemaVars>> => SchemaInv'
  <2>1. MCNext => Schema!Next \/ UNCHANGED schemaVars
    BY DEF MCNext
  <2>2. UNCHANGED <<part, allVars, backupVars, schemaVars>> => UNCHANGED schemaVars
    OBVIOUS
  <2> QED
    BY <2>1, <2>2, SchemaStep, SchemaStutters
<1> QED
  BY <1>1, <1>2, PTL DEF MCSpec

\* For any builds, migrators, servers and policies: whichever migrators run at the same time,
\* fail or lose their connection, the schema is a beginning of the migrations of one build,
\* and what a gate accepted stays installed.
THEOREM SchemaAlwaysKept == MCSpec => []SchemaKept
<1>1. SchemaInv => SchemaKept
  BY SchemaTypeOK, SchemaFollows DEF SchemaKept
<1> QED
  BY <1>1, SchemaInvariant, PTL

--------------------------------------------------------------------------------
(* Backups: what is complete is whole, and what was verified stays while a prune *)
(* removes                                                                       *)

ArchiveIdle == [step |-> "idle"]
Manifests == {"manifest"}
AllFiles == {"INCOMPLETE", "postgres.dump.enc", "objects.archive.enc", "manifest"}
Rows ==
  [state : {"none", "partial", "complete"}, files : SUBSET AllFiles,
   database : Nat, bucket : Nat, at : Nat, sound : BOOLEAN, begun : BOOLEAN]
Captures ==
  [step : {"before", "dump", "export", "after", "manifest", "rename"}, backup : Backups,
   rows : Nat]
Removals ==
  [step : {"rm"}, backup : Backups, state : {"none", "partial", "complete"},
   left : SUBSET AllFiles, at : Nat]
Prunes ==
  [step : {"list", "remove"}, at : Nat, partials : SUBSET Backups, listed : SUBSET Backups,
   verified : SUBSET Backups, removal : {ArchiveIdle} \union Removals]
RestoreCalls == [step : {"objects", "database"}, backup : Backups]
Targets == [database : Nat, bucket : Nat, restored : BOOLEAN]

ArchiveTyped ==
  /\ hour \in 0 .. MaxHour /\ connected \in BOOLEAN
  /\ stores \in [database : Nat, rows : Nat, bucket : Nat]
  /\ dirs \in [Backups -> Rows]
  /\ capture \in {ArchiveIdle} \union Captures
  /\ prune \in {ArchiveIdle} \union Prunes
  /\ recovery \in {ArchiveIdle} \union RestoreCalls
  /\ restored \in Targets

\* What a directory holds when its capture has come so far, unless a prune empties it.
Gathered(step, files) ==
  /\ step \in {"export", "after", "manifest", "rename"} => "postgres.dump.enc" \in files
  /\ step \in {"after", "manifest", "rename"} => "objects.archive.enc" \in files
  /\ step = "rename" => Manifests \subseteq files
Capturing ==
  capture \in Captures /\ dirs[capture.backup].state = "partial"
    /\ dirs[capture.backup].begun # TRUE =>
      Gathered(capture.step, dirs[capture.backup].files)

\* While a prune runs nobody else removes what it has listed, and what it verified of that
\* is there in full.
Listed ==
  prune \in Prunes =>
    /\ \A b \in prune.listed : dirs[b].state = "complete"
    /\ \A b \in prune.listed \intersect prune.verified : Archive!Whole \subseteq dirs[b].files
    /\ prune.step = "remove" => prune.listed \subseteq prune.verified

\* A complete backup is being removed only for so many listed ones that are not older.
NotOlder == {k \in prune.listed : dirs[k].at >= prune.removal.at}
Removing ==
  prune \in Prunes /\ prune.removal \in Removals =>
    /\ dirs[prune.removal.backup].begun = TRUE
    /\ prune.removal.backup \notin prune.listed
    /\ prune.removal.state = "complete" => prune.step = "remove" /\ Cardinality(NotOlder) >= Count

Wholes ==
  \A b \in Backups :
    dirs[b].state = "complete" /\ dirs[b].begun # TRUE => dirs[b].files = Archive!Whole

ArchiveInv == ArchiveTyped /\ Wholes /\ Capturing /\ Listed /\ Removing

\* Nothing is taken from a backup that is complete.
Preserved ==
  \A k \in Backups : dirs[k].state = "complete" =>
    dirs'[k].state = "complete" /\ dirs'[k].at = dirs[k].at /\ dirs[k].files \subseteq dirs'[k].files

LEMMA ArchiveKinds ==
  /\ \A r \in Captures \union Prunes \union RestoreCalls \union Removals :
       r # ArchiveIdle /\ r.step # "idle"
  /\ ArchiveIdle.step = "idle" /\ Archive!Idle = ArchiveIdle
  /\ ArchiveIdle \notin Captures /\ ArchiveIdle \notin Prunes /\ ArchiveIdle \notin RestoreCalls
  /\ ArchiveIdle \notin Removals
BY DEF Captures, Prunes, RestoreCalls, Removals, ArchiveIdle, Archive!Idle

LEMMA NothingIsRow == Archive!Nothing \in Rows /\ Archive!Nothing.state = "none"
                        /\ Archive!Nothing.begun = FALSE
BY DEF Archive!Nothing, Rows

LEMMA ArchiveStarts == Archive!Init => ArchiveInv
<1> SUFFICES ASSUME Archive!Init PROVE ArchiveInv
  OBVIOUS
<1>1. dirs = [b \in Backups |-> Archive!Nothing] /\ dirs \in [Backups -> Rows]
  BY NothingIsRow DEF Archive!Init
<1>2. ArchiveTyped
  BY <1>1, BackupAssumption DEF Archive!Init, ArchiveTyped, Archive!Idle, ArchiveIdle, Targets,
     Archive!Empty
<1>3. Wholes
  BY <1>1, NothingIsRow, Zenon DEF Wholes
<1>4. capture = ArchiveIdle /\ prune = ArchiveIdle
  BY DEF Archive!Init, Archive!Idle, ArchiveIdle
<1> QED
  BY <1>2, <1>3, <1>4, ArchiveKinds DEF ArchiveInv, Capturing, Listed, Removing

LEMMA ArchiveStutters ==
  ASSUME ArchiveInv, UNCHANGED <<hour, connected, stores, dirs, capture, prune, recovery, restored>>
  PROVE  ArchiveInv'
BY DEF ArchiveInv, ArchiveTyped, Wholes, Capturing, Listed, Removing, NotOlder

--------------------------------------------------------------------------------
\* The directory of b, and no other, becomes new.
Becomes(b, new) == dirs' = [dirs EXCEPT ![b] = new]

LEMMA OneDirectory ==
  ASSUME dirs \in [Backups -> Rows], NEW b \in Backups, NEW new \in Rows, Becomes(b, new)
  PROVE  /\ dirs' \in [Backups -> Rows] /\ dirs'[b] = new
         /\ \A k \in Backups : k # b => dirs'[k] = dirs[k]
BY DEF Becomes

LEMMA CreatedRow ==
  ASSUME ArchiveTyped, NEW b \in Backups, NEW f \in SUBSET AllFiles
  PROVE  /\ Archive!Created(b, f) \in Rows
         /\ Archive!Created(b, f).state = dirs[b].state
         /\ Archive!Created(b, f).begun = dirs[b].begun
         /\ Archive!Created(b, f).files = dirs[b].files \union f
<1>1. dirs[b] \in Rows /\ hour \in Nat
  BY BackupAssumption DEF ArchiveTyped
<1> DEFINE r == [dirs[b] EXCEPT !.files = @ \union f, !.at = hour]
<1>2. r \in Rows /\ r.state = dirs[b].state /\ r.begun = dirs[b].begun
        /\ r.files = dirs[b].files \union f
  BY <1>1 DEF Rows
<1> QED
  BY <1>2, Zenon DEF Archive!Created

\* What a prune has listed and begun stays while others act.
LEMMA ListingStays ==
  ASSUME ArchiveInv, prune' = prune, Preserved,
         \A k \in Backups : dirs[k].begun = TRUE => dirs'[k].begun = TRUE
  PROVE  Listed' /\ Removing'
<1> SUFFICES ASSUME prune \in Prunes PROVE Listed' /\ Removing'
  BY DEF Listed, Removing
<1>1. prune.listed \subseteq Backups /\ \A k \in prune.listed : dirs[k].state = "complete"
  BY DEF ArchiveInv, Listed, Prunes
<1>2. \A k \in prune.listed : /\ dirs'[k].state = "complete" /\ dirs'[k].at = dirs[k].at
                              /\ dirs[k].files \subseteq dirs'[k].files
  BY <1>1 DEF Preserved
<1>3. Listed'
  BY <1>2 DEF ArchiveInv, Listed
<1>4. NotOlder' = NotOlder
  BY <1>2 DEF NotOlder
<1>5. Removing'
  BY <1>4 DEF ArchiveInv, Removing, Removals
<1> QED
  BY <1>3, <1>5

LEMMA StartsBackup ==
  ASSUME ArchiveInv, NEW b \in Backups, Archive!StartBackup(b)
  PROVE  ArchiveInv' /\ Preserved
<1> DEFINE new == [Archive!Nothing EXCEPT !.state = "partial", !.files = {"INCOMPLETE"}, !.at = hour]
<1>1. Becomes(b, new) /\ UNCHANGED <<hour, connected, stores, prune, recovery, restored>>
  BY DEF Archive!StartBackup, Becomes
<1>2. new \in Rows /\ new.state = "partial"
  <2>1. hour \in Nat
    BY BackupAssumption DEF ArchiveInv, ArchiveTyped
  <2> QED
    BY NothingIsRow, <2>1 DEF Rows, AllFiles
<1> HIDE DEF new
<1>3. /\ dirs' \in [Backups -> Rows] /\ dirs'[b] = new
      /\ \A k \in Backups : k # b => dirs'[k] = dirs[k]
  BY <1>1, <1>2, OneDirectory DEF ArchiveInv, ArchiveTyped
<1>4. dirs[b].state = "none" /\ dirs[b].begun = FALSE
  <2>1. dirs[b] = Archive!Nothing
    BY Zenon DEF Archive!StartBackup
  <2> QED
    BY <2>1, NothingIsRow
<1>5. capture' = [step |-> "before", backup |-> b, rows |-> 0]
  BY DEF Archive!StartBackup
<1>6. ArchiveTyped'
  BY <1>1, <1>3, <1>5 DEF ArchiveInv, ArchiveTyped, Captures
<1>7. Wholes'
  BY <1>2, <1>3 DEF ArchiveInv, Wholes
<1>8. Capturing'
  BY <1>5 DEF Capturing, Gathered
<1>9. Preserved
  BY <1>3, <1>4 DEF Preserved
<1>10. Listed' /\ Removing'
  BY <1>1, <1>3, <1>4, <1>9, ListingStays
<1> QED
  BY <1>6, <1>7, <1>8, <1>9, <1>10 DEF ArchiveInv

\* What the capture adds to its directory.
LEMMA Adds ==
  ASSUME ArchiveInv, capture \in Captures, Archive!Present,
         NEW new \in Rows, Becomes(capture.backup, new), new.state = "partial",
         new.begun = dirs[capture.backup].begun,
         NEW step \in {"before", "dump", "export", "after", "manifest", "rename"},
         capture' = [step |-> step, backup |-> capture.backup, rows |-> capture.rows],
         new.begun # TRUE => Gathered(step, new.files),
         UNCHANGED <<hour, connected, stores, prune, recovery, restored>>
  PROVE  ArchiveInv' /\ Preserved
<1>1. capture.backup \in Backups /\ capture' \in Captures
  BY DEF Captures
<1>2. /\ dirs' \in [Backups -> Rows] /\ dirs'[capture.backup] = new
      /\ \A k \in Backups : k # capture.backup => dirs'[k] = dirs[k]
  BY <1>1, OneDirectory DEF ArchiveInv, ArchiveTyped
<1>3. dirs[capture.backup].state = "partial"
  BY DEF Archive!Present
<1>4. ArchiveTyped'
  BY <1>1, <1>2 DEF ArchiveInv, ArchiveTyped
<1>5. Wholes'
  BY <1>2 DEF ArchiveInv, Wholes
<1>6. Capturing'
  BY <1>2 DEF Capturing
<1>7. Preserved
  BY <1>2, <1>3 DEF Preserved
<1>8. Listed' /\ Removing'
  BY <1>2, <1>7, ListingStays
<1> QED
  BY <1>4, <1>5, <1>6, <1>7, <1>8 DEF ArchiveInv

\* A capture that goes on or gives up without touching a directory.
LEMMA OnlyCapture ==
  ASSUME ArchiveInv, UNCHANGED <<hour, connected, stores, dirs, prune, recovery, restored>>,
         capture' \in {ArchiveIdle} \union Captures, Capturing'
  PROVE  ArchiveInv' /\ Preserved
BY DEF ArchiveInv, ArchiveTyped, Wholes, Listed, Removing, NotOlder, Preserved

LEMMA GivesUp ==
  ASSUME ArchiveInv, Archive!Fails,
         UNCHANGED <<hour, connected, stores, dirs, prune, recovery, restored>>
  PROVE  ArchiveInv' /\ Preserved
<1>1. capture' = ArchiveIdle
  BY ArchiveKinds DEF Archive!Fails
<1>2. Capturing'
  BY <1>1, ArchiveKinds DEF Capturing
<1> QED
  BY <1>1, <1>2, OnlyCapture

LEMMA CaptureSteps ==
  ASSUME ArchiveInv,
         Archive!Before \/ Archive!Dump \/ Archive!Export \/ Archive!After \/ Archive!Manifest
  PROVE  ArchiveInv' /\ Preserved
<1>1. capture \in Captures /\ capture.backup \in Backups /\ dirs[capture.backup] \in Rows
  BY ArchiveKinds DEF ArchiveInv, ArchiveTyped, Captures, ArchiveIdle, Archive!Before,
     Archive!Dump, Archive!Export, Archive!After, Archive!Manifest
<1>2. Archive!Present => dirs[capture.backup].state = "partial"
  BY DEF Archive!Present
<1>3. UNCHANGED <<hour, connected, stores, prune, recovery, restored>>
  BY DEF Archive!Before, Archive!Dump, Archive!Export, Archive!After, Archive!Manifest
<1>4. CASE Archive!Before
  <2>1. UNCHANGED dirs
    BY <1>4 DEF Archive!Before
  <2>2. CASE Archive!Fails
    BY <1>3, <2>1, <2>2, GivesUp
  <2>3. CASE capture' = [capture EXCEPT !.step = "dump", !.rows = stores.rows]
    <3>1. capture' \in Captures /\ capture'.step = "dump"
      BY <1>1, <2>3 DEF Captures, ArchiveInv, ArchiveTyped
    <3>2. Capturing'
      BY <3>1 DEF Capturing, Gathered
    <3> QED
      BY <1>3, <2>1, <3>1, <3>2, OnlyCapture
  <2> QED
    BY <1>4, <2>2, <2>3 DEF Archive!Before
<1>5. CASE Archive!Dump
  <2>1. CASE Archive!Fails /\ UNCHANGED dirs
    BY <1>3, <2>1, GivesUp
  <2>2. CASE Archive!Present /\ capture' = [capture EXCEPT !.step = "export"]
               /\ Becomes(capture.backup,
                    [Archive!Created(capture.backup, {"postgres.dump.enc"})
                       EXCEPT !.database = stores.database])
    <3> DEFINE made == Archive!Created(capture.backup, {"postgres.dump.enc"})
               new == [made EXCEPT !.database = stores.database]
    <3>1. made \in Rows /\ made.state = dirs[capture.backup].state
            /\ made.begun = dirs[capture.backup].begun
            /\ made.files = dirs[capture.backup].files \union {"postgres.dump.enc"}
      BY <1>1, CreatedRow DEF ArchiveInv, AllFiles
    <3> HIDE DEF made
    <3>2. new \in Rows /\ new.state = made.state /\ new.files = made.files
            /\ new.begun = made.begun
      BY <3>1 DEF Rows, ArchiveInv, ArchiveTyped
    <3>3. Becomes(capture.backup, new)
      BY <2>2 DEF made
    <3> HIDE DEF new
    <3>4. capture' = [step |-> "export", backup |-> capture.backup, rows |-> capture.rows]
      BY <1>1, <2>2 DEF Captures
    <3>5. Gathered("export", new.files)
      BY <3>1, <3>2 DEF Gathered
    <3>6. new.state = "partial" /\ new.begun = dirs[capture.backup].begun
      BY <1>2, <2>2, <3>1, <3>2
    <3> QED
      BY <1>1, <1>3, <2>2, <3>2, <3>3, <3>4, <3>5, <3>6, Adds
  <2> QED
    BY <1>5, <2>1, <2>2 DEF Archive!Dump, Becomes
<1>6. CASE Archive!Export
  <2>1. CASE Archive!Fails /\ UNCHANGED dirs
    BY <1>3, <2>1, GivesUp
  <2>2. CASE Archive!Present /\ capture' = [capture EXCEPT !.step = "after"]
               /\ capture.step = "export"
               /\ Becomes(capture.backup,
                    [Archive!Created(capture.backup, {"objects.archive.enc"})
                       EXCEPT !.bucket = stores.bucket])
    <3> DEFINE made == Archive!Created(capture.backup, {"objects.archive.enc"})
               new == [made EXCEPT !.bucket = stores.bucket]
    <3>1. made \in Rows /\ made.state = dirs[capture.backup].state
            /\ made.begun = dirs[capture.backup].begun
            /\ made.files = dirs[capture.backup].files \union {"objects.archive.enc"}
      BY <1>1, CreatedRow DEF ArchiveInv, AllFiles
    <3> HIDE DEF made
    <3>2. new \in Rows /\ new.state = made.state /\ new.files = made.files
            /\ new.begun = made.begun
      BY <3>1 DEF Rows, ArchiveInv, ArchiveTyped
    <3>3. Becomes(capture.backup, new)
      BY <2>2 DEF made
    <3> HIDE DEF new
    <3>4. capture' = [step |-> "after", backup |-> capture.backup, rows |-> capture.rows]
      BY <1>1, <2>2 DEF Captures
    <3>5. new.state = "partial" /\ new.begun = dirs[capture.backup].begun
      BY <1>2, <2>2, <3>1, <3>2
    <3>6. new.begun # TRUE => Gathered("after", new.files)
      BY <1>1, <1>2, <2>2, <3>1, <3>2, <3>5 DEF ArchiveInv, Capturing, Gathered
    <3> QED
      BY <1>1, <1>3, <2>2, <3>2, <3>3, <3>4, <3>5, <3>6, Adds
  <2> QED
    BY <1>6, <2>1, <2>2 DEF Archive!Export, Becomes
<1>7. CASE Archive!After
  <2>1. UNCHANGED dirs /\ capture.step = "after"
    BY <1>7 DEF Archive!After
  <2>2. CASE Archive!Fails
    BY <1>3, <2>1, <2>2, GivesUp
  <2>3. CASE capture' = [capture EXCEPT !.step = "manifest"]
    <3>1. capture' \in Captures /\ capture'.step = "manifest" /\ capture'.backup = capture.backup
      BY <1>1, <2>3 DEF Captures
    <3>2. Capturing'
      BY <1>1, <2>1, <3>1 DEF ArchiveInv, Capturing, Gathered
    <3> QED
      BY <1>3, <2>1, <3>1, <3>2, OnlyCapture
  <2> QED
    BY <1>7, <2>2, <2>3 DEF Archive!After
<1>8. CASE Archive!Manifest
  <2>1. CASE Archive!Fails /\ UNCHANGED dirs
    BY <1>3, <2>1, GivesUp
  <2>2. CASE Archive!Present /\ capture' = [capture EXCEPT !.step = "rename"]
               /\ Archive!Components \subseteq dirs[capture.backup].files
               /\ Becomes(capture.backup, Archive!Created(capture.backup, Manifests))
    <3> DEFINE new == Archive!Created(capture.backup, Manifests)
    <3>1. new \in Rows /\ new.state = dirs[capture.backup].state
            /\ new.begun = dirs[capture.backup].begun
            /\ new.files = dirs[capture.backup].files \union Manifests
      BY <1>1, CreatedRow DEF ArchiveInv, Manifests, AllFiles
    <3>2. Becomes(capture.backup, new)
      BY <2>2
    <3> HIDE DEF new
    <3>3. capture' = [step |-> "rename", backup |-> capture.backup, rows |-> capture.rows]
      BY <1>1, <2>2 DEF Captures
    <3>4. Gathered("rename", new.files)
      BY <2>2, <3>1 DEF Gathered, Archive!Components
    <3> QED
      BY <1>1, <1>2, <1>3, <2>2, <3>1, <3>2, <3>3, <3>4, Adds
  <2> QED
    BY <1>8, <2>1, <2>2 DEF Archive!Manifest, Becomes, Manifests
<1> QED
  BY <1>4, <1>5, <1>6, <1>7, <1>8

LEMMA Completes ==
  ASSUME ArchiveInv, Archive!Complete
  PROVE  ArchiveInv' /\ Preserved
<1>1. capture \in Captures /\ capture.step = "rename" /\ capture.backup \in Backups
  BY ArchiveKinds DEF ArchiveInv, ArchiveTyped, Archive!Complete, Archive!Ready, Captures
<1>2. Archive!Fails /\ UNCHANGED <<hour, connected, stores, prune, recovery, restored>>
  BY DEF Archive!Complete
<1> DEFINE there == Archive!Present /\ "INCOMPLETE" \in dirs[capture.backup].files
<1>3. CASE ~there
  <2>1. UNCHANGED dirs
    BY <1>3 DEF Archive!Complete
  <2> QED
    BY <1>2, <2>1, GivesUp
<1>4. CASE there
  <2> DEFINE old == dirs[capture.backup]
             new == [old EXCEPT !.state = "complete", !.at = hour, !.files = @ \ {"INCOMPLETE"}]
  <2>1. old \in Rows /\ old.state = "partial"
    BY <1>1, <1>4 DEF ArchiveInv, ArchiveTyped, Archive!Present
  <2>2. old.begun # TRUE =>
          Manifests \subseteq old.files /\ {"postgres.dump.enc", "objects.archive.enc"} \subseteq old.files
    BY <1>1, <1>4 DEF ArchiveInv, Capturing, Gathered, Archive!Present
  <2>3. new \in Rows /\ new.state = "complete" /\ new.files = old.files \ {"INCOMPLETE"}
          /\ new.begun = old.begun
    <3> HIDE DEF old
    <3>1. hour \in Nat
      BY BackupAssumption DEF ArchiveInv, ArchiveTyped
    <3> QED
      BY <2>1, <3>1 DEF Rows
  <2>4. Becomes(capture.backup, new)
    <3> DEFINE c == capture.backup
               put == [dirs EXCEPT ![c].state = "complete", ![c].at = hour,
                                   ![c].files = @ \ {"INCOMPLETE"}]
    <3>1. dirs' = put
      BY <1>4 DEF Archive!Complete
    <3>2. dirs \in [Backups -> Rows] /\ c \in Backups
      BY <1>1 DEF ArchiveInv, ArchiveTyped
    <3>3. put = [dirs EXCEPT ![c] = new]
      BY <3>2 DEF Rows
    <3> QED
      BY <3>1, <3>3, Zenon DEF Becomes
  <2>5. old = dirs[capture.backup]
    OBVIOUS
  <2> HIDE DEF old, new
  <2>6. new.begun # TRUE => new.files = Archive!Whole
    BY <2>1, <2>2, <2>3 DEF Rows, AllFiles, Manifests, Archive!Whole, Archive!Components
  <2>7. /\ dirs' \in [Backups -> Rows] /\ dirs'[capture.backup] = new
        /\ \A k \in Backups : k # capture.backup => dirs'[k] = dirs[k]
    BY <1>1, <2>3, <2>4, OneDirectory DEF ArchiveInv, ArchiveTyped
  <2>8. capture' = ArchiveIdle
    BY <1>2, ArchiveKinds DEF Archive!Fails
  <2>9. ArchiveTyped'
    BY <1>2, <2>7, <2>8 DEF ArchiveInv, ArchiveTyped
  <2>10. Wholes'
    BY <2>6, <2>7 DEF ArchiveInv, Wholes
  <2>11. Capturing'
    BY <2>8, ArchiveKinds DEF Capturing
  <2>12. Preserved
    BY <2>1, <2>5, <2>7 DEF Preserved
  <2>13. Listed' /\ Removing'
    BY <1>2, <2>3, <2>5, <2>7, <2>12, ListingStays
  <2> QED
    BY <2>9, <2>10, <2>11, <2>12, <2>13 DEF ArchiveInv
<1> QED
  BY <1>3, <1>4

LEMMA Crashes ==
  ASSUME ArchiveInv, Archive!Crash
  PROVE  ArchiveInv' /\ UNCHANGED dirs
<1>1. UNCHANGED <<hour, connected, stores, dirs>>
  BY DEF Archive!Crash
<1>2. CASE capture' = ArchiveIdle /\ UNCHANGED <<prune, recovery, restored>>
  BY <1>1, <1>2, ArchiveKinds, GivesUp DEF Archive!Fails
<1>3. CASE prune' = ArchiveIdle /\ UNCHANGED <<capture, recovery, restored>>
  BY <1>1, <1>3, ArchiveKinds DEF ArchiveInv, ArchiveTyped, Wholes, Capturing, Listed, Removing
<1>4. CASE recovery' = ArchiveIdle /\ UNCHANGED <<capture, prune>> /\ restored' \in Targets
  BY <1>1, <1>4 DEF ArchiveInv, ArchiveTyped, Wholes, Capturing, Listed, Removing, NotOlder
<1>5. restored \in Targets
  BY DEF ArchiveInv, ArchiveTyped
<1>6. [restored EXCEPT !.bucket = IF recovery.step = "objects" THEN Archive!Partial ELSE @,
                       !.database = IF recovery.step = "database" THEN Archive!Partial ELSE @]
        \in Targets
  <2> DEFINE bucket == IF recovery.step = "objects" THEN Archive!Partial ELSE restored.bucket
             database == IF recovery.step = "database" THEN Archive!Partial ELSE restored.database
  <2>1. bucket \in Nat /\ database \in Nat
    BY <1>5 DEF Targets, Archive!Partial
  <2> HIDE DEF bucket, database
  <2>2. [restored EXCEPT !.bucket = bucket, !.database = database] \in Targets
    BY <1>5, <2>1 DEF Targets
  <2> QED
    BY <2>2 DEF bucket, database
<1> QED
  BY <1>1, <1>2, <1>3, <1>4, <1>6, ArchiveKinds, Zenon DEF Archive!Crash

--------------------------------------------------------------------------------
\* A prune that goes on or ends without touching a directory.
LEMMA OnlyPrune ==
  ASSUME ArchiveInv, UNCHANGED <<hour, connected, stores, dirs, capture, recovery, restored>>,
         prune' \in {ArchiveIdle} \union Prunes, Listed', Removing'
  PROVE  ArchiveInv'
BY DEF ArchiveInv, ArchiveTyped, Wholes, Capturing

\* A prune that begins, continues or ends the removal of a directory.
LEMMA PruneAndDirectory ==
  ASSUME ArchiveInv, UNCHANGED <<hour, connected, stores, capture, recovery, restored>>,
         NEW b \in Backups, NEW new \in Rows, Becomes(b, new),
         new.state # "none" => new.begun = TRUE,
         prune' \in {ArchiveIdle} \union Prunes, Listed', Removing'
  PROVE  ArchiveInv'
<1>1. /\ dirs' \in [Backups -> Rows] /\ dirs'[b] = new
      /\ \A k \in Backups : k # b => dirs'[k] = dirs[k]
  BY OneDirectory DEF ArchiveInv, ArchiveTyped
<1>2. ArchiveTyped'
  BY <1>1 DEF ArchiveInv, ArchiveTyped
<1>3. Wholes'
  BY <1>1 DEF ArchiveInv, Wholes
<1>4. Capturing'
  BY <1>1 DEF ArchiveInv, Capturing, Captures
<1> QED
  BY <1>2, <1>3, <1>4 DEF ArchiveInv

LEMMA PruneEnds ==
  ASSUME ArchiveInv, UNCHANGED <<hour, connected, stores, dirs, capture, recovery, restored>>,
         prune' = ArchiveIdle
  PROVE  ArchiveInv'
BY ArchiveKinds, OnlyPrune DEF Listed, Removing

LEMMA PruneStarts ==
  ASSUME ArchiveInv, Archive!StartPrune
  PROVE  ArchiveInv'
<1>1. /\ prune' = [step |-> "list", at |-> hour,
                   partials |-> {b \in Backups : dirs[b].state = "partial"},
                   listed |-> Archive!Completed, verified |-> {}, removal |-> ArchiveIdle]
      /\ UNCHANGED <<hour, connected, stores, dirs, capture, recovery, restored>>
  BY ArchiveKinds DEF Archive!StartPrune
<1>2. hour \in Nat
  BY BackupAssumption DEF ArchiveInv, ArchiveTyped
<1>3. /\ prune' \in Prunes /\ prune'.step = "list" /\ prune'.listed = Archive!Completed
      /\ prune'.verified = {} /\ prune'.removal = ArchiveIdle
  BY <1>1, <1>2 DEF Prunes, Archive!Completed
<1>4. Listed' /\ Removing'
  BY <1>1, <1>3, ArchiveKinds DEF Listed, Removing, Archive!Completed
<1> QED
  BY <1>1, <1>3, <1>4, OnlyPrune

LEMMA PruneGoesOn ==
  ASSUME ArchiveInv, Archive!VerifyNext \/ Archive!StartRemoving \/ Archive!EndPrune
  PROVE  ArchiveInv' /\ UNCHANGED dirs
<1>1. prune \in Prunes /\ UNCHANGED <<hour, connected, stores, dirs, capture, recovery, restored>>
  BY ArchiveKinds DEF ArchiveInv, ArchiveTyped, Archive!VerifyNext, Archive!StartRemoving,
     Archive!EndPrune
<1>2. CASE prune' = ArchiveIdle
  BY <1>1, <1>2, PruneEnds
<1>3. CASE prune.step = "list" /\ prune.removal = ArchiveIdle
             /\ \E b \in prune.listed : Archive!Verified(b) /\ prune' = [prune EXCEPT !.verified = @ \union {b}]
  <2>1. PICK b \in prune.listed : Archive!Verified(b) /\ prune' = [prune EXCEPT !.verified = @ \union {b}]
    BY <1>3
  <2>2. /\ prune' \in Prunes /\ prune'.listed = prune.listed /\ prune'.step = "list"
        /\ prune'.verified = prune.verified \union {b} /\ prune'.removal = ArchiveIdle
    BY <1>1, <1>3, <2>1 DEF Prunes
  <2>3. Archive!Whole \subseteq dirs[b].files
    BY <2>1 DEF Archive!Verified
  <2>4. Listed' /\ Removing'
    BY <1>1, <2>2, <2>3, ArchiveKinds DEF ArchiveInv, Listed, Removing
  <2> QED
    BY <1>1, <2>2, <2>4, OnlyPrune
<1>4. CASE prune' = [prune EXCEPT !.step = "remove"] /\ Archive!VerifiesAll
             /\ prune.removal = ArchiveIdle
  <2>1. /\ prune' \in Prunes /\ prune'.listed = prune.listed /\ prune'.verified = prune.listed
        /\ prune.verified = prune.listed /\ prune'.removal = ArchiveIdle
    BY <1>1, <1>4 DEF Prunes, Archive!VerifiesAll
  <2>2. Listed' /\ Removing'
    BY <1>1, <2>1, ArchiveKinds DEF ArchiveInv, Listed, Removing
  <2> QED
    BY <1>1, <2>1, <2>2, OnlyPrune
<1> QED
  BY <1>1, <1>2, <1>3, <1>4, ArchiveKinds DEF Archive!VerifyNext, Archive!StartRemoving, Archive!EndPrune

\* The directory that is to go is marked as begun; nothing of it is gone.
LEMMA IsMarked ==
  ASSUME ArchiveInv, NEW b \in Backups, dirs' = [dirs EXCEPT ![b].begun = TRUE]
  PROVE  \E new \in Rows : /\ Becomes(b, new) /\ new.begun = TRUE
                           /\ dirs'[b] = new /\ new.state = dirs[b].state
                           /\ new.at = dirs[b].at /\ new.files = dirs[b].files
                           /\ \A k \in Backups : k # b => dirs'[k] = dirs[k]
<1> DEFINE new == [dirs[b] EXCEPT !.begun = TRUE]
<1>1. dirs \in [Backups -> Rows]
  BY DEF ArchiveInv, ArchiveTyped
<1>2. /\ new \in Rows /\ new.begun = TRUE /\ new.state = dirs[b].state /\ new.at = dirs[b].at
      /\ new.files = dirs[b].files
  BY <1>1 DEF Rows
<1>3. Becomes(b, new)
  BY DEF Becomes
<1> HIDE DEF new
<1> QED
  BY <1>1, <1>2, <1>3, OneDirectory

LEMMA RmIsRemoval ==
  ASSUME ArchiveTyped, NEW b \in Backups
  PROVE  /\ Archive!Rm(b) \in Removals /\ Archive!Rm(b).backup = b
         /\ Archive!Rm(b).state = dirs[b].state /\ Archive!Rm(b).at = dirs[b].at
BY DEF ArchiveTyped, Rows, Removals, Archive!Rm

LEMMA LooksAt ==
  ASSUME ArchiveInv, NEW b \in Backups, Archive!LookAt(b)
  PROVE  ArchiveInv' /\ Preserved
<1>1. /\ prune \in Prunes /\ prune.step = "list" /\ prune.removal = ArchiveIdle
      /\ UNCHANGED <<hour, connected, stores, capture, recovery, restored>>
  BY ArchiveKinds DEF ArchiveInv, ArchiveTyped, Archive!LookAt
<1>2. CASE prune' = ArchiveIdle /\ UNCHANGED dirs
  BY <1>1, <1>2, PruneEnds DEF Preserved
<1>3. CASE prune' = [prune EXCEPT !.partials = @ \ {b}] /\ UNCHANGED dirs
  <2>1. /\ prune' \in Prunes /\ prune'.listed = prune.listed /\ prune'.step = "list"
        /\ prune'.verified = prune.verified /\ prune'.removal = ArchiveIdle
    BY <1>1, <1>3 DEF Prunes
  <2>2. Listed' /\ Removing'
    BY <1>1, <1>3, <2>1, ArchiveKinds DEF ArchiveInv, Listed, Removing
  <2> QED
    BY <1>1, <1>3, <2>1, <2>2, OnlyPrune DEF Preserved
<1>4. CASE /\ dirs[b].state = "partial"
           /\ prune' = [prune EXCEPT !.partials = @ \ {b}, !.removal = Archive!Rm(b)]
           /\ dirs' = [dirs EXCEPT ![b].begun = TRUE]
  <2>1. PICK new \in Rows : /\ Becomes(b, new) /\ new.begun = TRUE
                            /\ dirs'[b] = new /\ new.state = dirs[b].state
                            /\ new.at = dirs[b].at /\ new.files = dirs[b].files
                            /\ \A k \in Backups : k # b => dirs'[k] = dirs[k]
    BY <1>4, IsMarked
  <2>2. /\ Archive!Rm(b) \in Removals /\ Archive!Rm(b).backup = b
        /\ Archive!Rm(b).state = "partial"
    BY <1>4, RmIsRemoval DEF ArchiveInv
  <2>3. /\ prune' \in Prunes /\ prune'.listed = prune.listed /\ prune'.step = "list"
        /\ prune'.verified = prune.verified /\ prune'.removal = Archive!Rm(b)
    BY <1>1, <1>4, <2>2 DEF Prunes
  <2>4. b \notin prune.listed /\ prune.listed \subseteq Backups
    BY <1>1, <1>4 DEF ArchiveInv, Listed, Prunes
  <2>5. \A k \in prune.listed : dirs'[k] = dirs[k]
    BY <2>1, <2>4
  <2>6. Listed'
    BY <1>1, <2>3, <2>5 DEF ArchiveInv, Listed
  <2>7. Removing'
    BY <2>1, <2>2, <2>3, <2>4 DEF Removing
  <2>8. Preserved
    BY <2>1 DEF Preserved
  <2> QED
    BY <1>1, <2>1, <2>3, <2>6, <2>7, <2>8, PruneAndDirectory
<1> QED
  BY <1>2, <1>3, <1>4, ArchiveKinds DEF Archive!LookAt

\* The instance has a name of its own for the same number.
LEMMA SameCardinality == \A S : Archive!Cardinality(S) = Cardinality(S)
  BY DEF Archive!Cardinality, Cardinality

LEMMA Removes ==
  ASSUME ArchiveInv, NEW b \in Backups, Archive!Remove(b)
  PROVE  ArchiveInv' /\ Preserved
<1>1. /\ prune \in Prunes /\ prune.step = "remove" /\ b \in prune.listed
      /\ UNCHANGED <<hour, connected, stores, capture, recovery, restored>>
      /\ prune' = [prune EXCEPT !.listed = @ \ {b}, !.removal = Archive!Rm(b)]
      /\ dirs' = [dirs EXCEPT ![b].begun = TRUE]
  BY ArchiveKinds DEF ArchiveInv, ArchiveTyped, Archive!Remove
<1>2. PICK new \in Rows : /\ Becomes(b, new) /\ new.begun = TRUE
                          /\ dirs'[b] = new /\ new.state = dirs[b].state
                          /\ new.at = dirs[b].at /\ new.files = dirs[b].files
                          /\ \A k \in Backups : k # b => dirs'[k] = dirs[k]
  BY <1>1, IsMarked
<1>3. /\ Archive!Rm(b) \in Removals /\ Archive!Rm(b).backup = b
      /\ Archive!Rm(b).at = dirs[b].at
  BY RmIsRemoval DEF ArchiveInv
<1>4. /\ prune' \in Prunes /\ prune'.listed = prune.listed \ {b} /\ prune'.step = "remove"
      /\ prune'.verified = prune.verified /\ prune'.removal = Archive!Rm(b)
  BY <1>1, <1>3 DEF Prunes
<1>5. prune.listed \subseteq Backups
  BY <1>1 DEF Prunes
<1>6. \A k \in prune'.listed : dirs'[k] = dirs[k]
  BY <1>2, <1>4, <1>5
<1>7. Listed'
  BY <1>1, <1>4, <1>6 DEF ArchiveInv, Listed
<1>8. NotOlder' = Archive!Newer(b)
  BY <1>3, <1>4, <1>6 DEF NotOlder, Archive!Newer
<1>9. Cardinality(Archive!Newer(b)) >= Count
  <2>1. Archive!Surplus(b)
    BY Zenon DEF Archive!Remove, Archive!Removable
  <2> QED
    BY <2>1, SameCardinality, Zenon DEF Archive!Surplus
<1>10. Cardinality(NotOlder') >= Count
  BY <1>8, <1>9, Zenon
<1>11. Removing'
  <2>1. dirs'[b].begun = TRUE /\ prune'.removal.backup = b /\ b \notin prune'.listed
    BY <1>2, <1>3, <1>4
  <2> QED
    BY <1>4, <1>10, <2>1, Zenon DEF Removing
<1>12. Preserved
  BY <1>2 DEF Preserved
<1> QED
  BY <1>1, <1>2, <1>4, <1>7, <1>11, <1>12, PruneAndDirectory

\* What a removal changes is the directory it has begun with, which is not listed.
LEMMA Unlinks ==
  ASSUME ArchiveInv, NEW f \in Archive!Files, Archive!Unlink(f)
  PROVE  /\ ArchiveInv' /\ prune \in Prunes /\ prune.removal \in Removals
         /\ \A k \in Backups : k # prune.removal.backup => dirs'[k] = dirs[k]
         /\ dirs' # dirs => dirs[prune.removal.backup].state = prune.removal.state
<1> DEFINE r == prune.removal.backup
           left == [prune.removal EXCEPT !.left = @ \ {f}]
<1>1. /\ prune \in Prunes /\ prune.removal \in Removals
      /\ UNCHANGED <<hour, connected, stores, capture, recovery, restored>>
      /\ prune' = [prune EXCEPT !.removal.left = @ \ {f}]
  BY ArchiveKinds DEF ArchiveInv, ArchiveTyped, Prunes, Archive!Unlink
<1>2. r \in Backups /\ dirs \in [Backups -> Rows] /\ dirs[r].begun = TRUE
        /\ r \notin prune.listed /\ prune.listed \subseteq Backups
  BY <1>1 DEF ArchiveInv, ArchiveTyped, Removing, Removals, Prunes
<1>3. left \in Removals /\ left.backup = r /\ left.at = prune.removal.at
        /\ left.state = prune.removal.state
  BY <1>1 DEF Removals
<1>4. prune' = [prune EXCEPT !.removal = left]
  BY <1>1 DEF Prunes
<1> HIDE DEF left
<1>5. /\ prune' \in Prunes /\ prune'.listed = prune.listed /\ prune'.step = prune.step
      /\ prune'.verified = prune.verified /\ prune'.removal = left
  BY <1>1, <1>3, <1>4 DEF Prunes
<1>6. ASSUME \A k \in Backups : k # r => dirs'[k] = dirs[k], dirs'[r].begun = TRUE
      PROVE  Listed' /\ Removing'
  <2>1. \A k \in prune.listed : dirs'[k] = dirs[k]
    BY <1>2, <1>6
  <2>2. Listed'
    BY <1>1, <1>5, <2>1 DEF ArchiveInv, Listed
  <2>3. NotOlder' = NotOlder
    BY <1>3, <1>5, <2>1 DEF NotOlder
  <2>4. prune.removal.state = "complete" => prune.step = "remove" /\ Cardinality(NotOlder) >= Count
    BY <1>1 DEF ArchiveInv, Removing
  <2>5. prune'.removal.backup = r /\ prune'.removal.state = prune.removal.state
    BY <1>3, <1>5
  <2>6. prune'.removal.state = "complete" => prune'.step = "remove" /\ Cardinality(NotOlder') >= Count
    BY <1>5, <2>3, <2>4, <2>5, Zenon
  <2>7. dirs'[prune'.removal.backup].begun = TRUE /\ prune'.removal.backup \notin prune'.listed
    BY <1>2, <1>5, <1>6, <2>5, Zenon
  <2>8. Removing'
    BY <2>6, <2>7, Zenon DEF Removing
  <2> QED
    BY <2>2, <2>8
<1>7. CASE ~Archive!StillThere
  <2>1. UNCHANGED dirs
    BY <1>7 DEF Archive!Unlink
  <2>2. Listed' /\ Removing'
    BY <1>2, <1>6, <2>1
  <2>3. ArchiveInv'
    BY <1>1, <1>5, <2>1, <2>2, OnlyPrune
  <2> QED
    BY <1>1, <2>1, <2>3
<1>8. CASE Archive!StillThere
  <2> DEFINE old == dirs[r]
             new == [old EXCEPT !.files = @ \ {f}, !.at = hour]
  <2>1. dirs' = [dirs EXCEPT ![r].files = @ \ {f}, ![r].at = hour]
    BY <1>8 DEF Archive!Unlink, Archive!Removed
  <2>2. [dirs EXCEPT ![r].files = @ \ {f}, ![r].at = hour] = [dirs EXCEPT ![r] = new]
    BY <1>2 DEF Rows
  <2>3. Becomes(r, new)
    BY <2>1, <2>2, Zenon DEF Becomes
  <2>4. old \in Rows /\ old.begun = TRUE /\ hour \in Nat
    BY <1>2, BackupAssumption DEF ArchiveInv, ArchiveTyped
  <2> HIDE DEF old
  <2>5. new \in Rows /\ new.begun = TRUE
    BY <2>4 DEF Rows
  <2> HIDE DEF new
  <2>6. dirs'[r] = new /\ \A k \in Backups : k # r => dirs'[k] = dirs[k]
    BY <1>2, <2>3, <2>5, OneDirectory
  <2>7. Listed' /\ Removing'
    BY <1>6, <2>5, <2>6
  <2>8. ArchiveInv'
    BY <1>1, <1>2, <1>5, <2>3, <2>5, <2>7, PruneAndDirectory
  <2> QED
    BY <1>1, <1>8, <2>6, <2>8 DEF Archive!StillThere, Archive!Removed
<1> QED
  BY <1>7, <1>8

LEMMA RemovesDirectory ==
  ASSUME ArchiveInv, Archive!RemoveDirectory
  PROVE  /\ ArchiveInv' /\ prune \in Prunes /\ prune.removal \in Removals
         /\ \A k \in Backups : k # prune.removal.backup => dirs'[k] = dirs[k]
         /\ dirs' # dirs => dirs[prune.removal.backup].state = prune.removal.state
<1> DEFINE r == prune.removal.backup
<1>1. /\ prune \in Prunes /\ prune.removal \in Removals
      /\ UNCHANGED <<hour, connected, stores, capture, recovery, restored>>
  BY ArchiveKinds DEF ArchiveInv, ArchiveTyped, Prunes, Archive!RemoveDirectory
<1>2. r \in Backups /\ dirs \in [Backups -> Rows]
        /\ r \notin prune.listed /\ prune.listed \subseteq Backups
  BY <1>1 DEF ArchiveInv, ArchiveTyped, Removing, Removals, Prunes
<1>3. CASE prune' = ArchiveIdle /\ UNCHANGED dirs
  BY <1>1, <1>3, PruneEnds
<1>4. CASE /\ prune' = [prune EXCEPT !.removal = ArchiveIdle]
           /\ dirs' = IF Archive!StillThere THEN [dirs EXCEPT ![r] = Archive!Nothing] ELSE dirs
  <2>1. /\ prune' \in Prunes /\ prune'.listed = prune.listed /\ prune'.step = prune.step
        /\ prune'.verified = prune.verified /\ prune'.removal = ArchiveIdle
    BY <1>1, <1>4 DEF Prunes
  <2>2. Removing'
    BY <2>1, ArchiveKinds DEF Removing
  <2>3. ASSUME \A k \in Backups : k # r => dirs'[k] = dirs[k]
        PROVE  Listed'
    <3>1. \A k \in prune.listed : dirs'[k] = dirs[k]
      BY <1>2, <2>3
    <3> QED
      BY <1>1, <2>1, <3>1 DEF ArchiveInv, Listed
  <2>4. CASE ~Archive!StillThere
    <3>1. UNCHANGED dirs
      BY <1>4, <2>4
    <3> QED
      BY <1>1, <2>1, <2>2, <2>3, <3>1, OnlyPrune
  <2>5. CASE Archive!StillThere
    <3>1. Becomes(r, Archive!Nothing)
      BY <1>4, <2>5 DEF Becomes
    <3>2. \A k \in Backups : k # r => dirs'[k] = dirs[k]
      BY <1>2, <3>1, NothingIsRow, OneDirectory
    <3>3. ArchiveInv'
      BY <1>1, <1>2, <2>1, <2>2, <2>3, <3>1, <3>2, NothingIsRow, PruneAndDirectory
    <3> QED
      BY <1>1, <2>5, <3>2, <3>3 DEF Archive!StillThere, Archive!Removed
  <2> QED
    BY <2>4, <2>5
<1> QED
  BY <1>3, <1>4, ArchiveKinds DEF Archive!RemoveDirectory, Archive!Removed

--------------------------------------------------------------------------------
\* Steps that change neither directories nor those who write or remove them.
LEMMA Elsewhere ==
  ASSUME ArchiveInv, UNCHANGED <<dirs, capture, prune>>, ArchiveTyped'
  PROVE  ArchiveInv'
BY DEF ArchiveInv, Wholes, Capturing, Listed, Removing, NotOlder

LEMMA Restores ==
  ASSUME ArchiveInv,
         \/ \E b \in Backups : Archive!StartRestore(b)
         \/ Archive!RestoreObjects \/ Archive!RestoreDatabase \/ Archive!Recreate
  PROVE  ArchiveInv'
<1>1. UNCHANGED <<hour, connected, stores, dirs, capture, prune>>
  BY DEF Archive!StartRestore, Archive!RestoreObjects, Archive!RestoreDatabase, Archive!Recreate
<1>2. /\ restored \in Targets /\ recovery \in {ArchiveIdle} \union RestoreCalls
      /\ \A b \in Backups : dirs[b] \in Rows
  BY DEF ArchiveInv, ArchiveTyped
<1>3. \A b \in Backups : /\ Archive!Restored(b, dirs[b].bucket) \in Nat
                         /\ Archive!Restored(b, dirs[b].database) \in Nat
                         /\ Archive!Verified(b) \in BOOLEAN
  BY <1>2 DEF Rows, Archive!Restored, Archive!Partial, Archive!Verified
<1>4. ASSUME NEW b \in Backups, Archive!StartRestore(b)
      PROVE  restored' \in Targets /\ recovery' \in {ArchiveIdle} \union RestoreCalls
  BY <1>2, <1>4 DEF Archive!StartRestore, RestoreCalls
<1>5. ASSUME Archive!RestoreObjects
      PROVE  restored' \in Targets /\ recovery' \in {ArchiveIdle} \union RestoreCalls
  <2>1. recovery \in RestoreCalls /\ recovery.backup \in Backups
    BY <1>2, <1>5, ArchiveKinds DEF Archive!RestoreObjects, RestoreCalls
  <2> DEFINE bucket == Archive!Restored(recovery.backup, dirs[recovery.backup].bucket)
  <2>2. bucket \in Nat
    BY <1>3, <2>1
  <2>3. restored' = [restored EXCEPT !.bucket = bucket]
    BY <1>5 DEF Archive!RestoreObjects
  <2> HIDE DEF bucket
  <2>4. restored' \in Targets
    BY <1>2, <2>2, <2>3 DEF Targets
  <2>5. recovery' \in {ArchiveIdle} \union RestoreCalls
    <3>1. [recovery EXCEPT !.step = "database"] \in RestoreCalls
      BY <2>1 DEF RestoreCalls
    <3> QED
      BY <1>5, <3>1, ArchiveKinds, Zenon DEF Archive!RestoreObjects
  <2> QED
    BY <2>4, <2>5
<1>6. ASSUME Archive!RestoreDatabase
      PROVE  restored' \in Targets /\ recovery' \in {ArchiveIdle} \union RestoreCalls
  <2>1. recovery.backup \in Backups
    BY <1>2, <1>6, ArchiveKinds DEF Archive!RestoreDatabase, RestoreCalls
  <2> DEFINE database == Archive!Restored(recovery.backup, dirs[recovery.backup].database)
             whole == Archive!Verified(recovery.backup)
  <2>2. database \in Nat /\ whole \in BOOLEAN
    BY <1>3, <2>1
  <2>3. /\ restored' = [restored EXCEPT !.database = database, !.restored = whole]
        /\ recovery' = ArchiveIdle
    BY <1>6, ArchiveKinds DEF Archive!RestoreDatabase
  <2> HIDE DEF database, whole
  <2> QED
    BY <1>2, <2>2, <2>3 DEF Targets
<1>7. ASSUME Archive!Recreate
      PROVE  restored' \in Targets /\ recovery' \in {ArchiveIdle} \union RestoreCalls
  BY <1>2, <1>7 DEF Archive!Recreate, Targets, Archive!Empty
<1>8. restored' \in Targets /\ recovery' \in {ArchiveIdle} \union RestoreCalls
  BY <1>4, <1>5, <1>6, <1>7
<1> QED
  BY <1>1, <1>8, Elsewhere DEF ArchiveInv, ArchiveTyped

LEMMA Decays ==
  ASSUME ArchiveInv, NEW b \in Backups, Archive!Decay(b)
  PROVE  ArchiveInv' /\ Preserved
<1>1. UNCHANGED <<hour, connected, stores, capture, prune, recovery, restored>>
  BY DEF Archive!Decay
<1> DEFINE new == [dirs[b] EXCEPT !.sound = FALSE]
<1>2. new \in Rows /\ new.state = dirs[b].state /\ new.files = dirs[b].files
        /\ new.begun = dirs[b].begun /\ new.at = dirs[b].at
  BY DEF ArchiveInv, ArchiveTyped, Rows
<1>3. Becomes(b, new)
  BY DEF Archive!Decay, Becomes
<1> HIDE DEF new
<1>4. /\ dirs' \in [Backups -> Rows] /\ dirs'[b] = new
      /\ \A k \in Backups : k # b => dirs'[k] = dirs[k]
  BY <1>2, <1>3, OneDirectory DEF ArchiveInv, ArchiveTyped
<1>5. \A k \in Backups : /\ dirs'[k].state = dirs[k].state /\ dirs'[k].files = dirs[k].files
                         /\ dirs'[k].begun = dirs[k].begun /\ dirs'[k].at = dirs[k].at
  BY <1>2, <1>4
<1>6. ArchiveTyped'
  BY <1>1, <1>4 DEF ArchiveInv, ArchiveTyped
<1>7. Wholes'
  BY <1>5 DEF ArchiveInv, Wholes
<1>8. Capturing'
  BY <1>1, <1>5 DEF ArchiveInv, Capturing, Captures
<1>9. Preserved
  BY <1>5 DEF Preserved
<1>10. Listed' /\ Removing'
  BY <1>1, <1>5, <1>9, ListingStays
<1> QED
  BY <1>6, <1>7, <1>8, <1>9, <1>10 DEF ArchiveInv

LEMMA ApplicationSteps ==
  ASSUME ArchiveInv,
         \/ Archive!Connect \/ Archive!Tick
         \/ \E insert, object \in BOOLEAN : Archive!Write(insert, object)
  PROVE  ArchiveInv'
<1>1. UNCHANGED <<dirs, capture, prune, recovery, restored>>
  BY DEF Archive!Connect, Archive!Tick, Archive!Write
<1>2. CASE Archive!Connect
  BY <1>1, <1>2, Elsewhere DEF ArchiveInv, ArchiveTyped, Archive!Connect
<1>3. CASE Archive!Tick
  BY <1>1, <1>3, Elsewhere, BackupAssumption DEF ArchiveInv, ArchiveTyped, Archive!Tick
<1>4. ASSUME NEW insert \in BOOLEAN, NEW object \in BOOLEAN, Archive!Write(insert, object)
      PROVE  ArchiveInv'
  <2>1. stores \in [database : Nat, rows : Nat, bucket : Nat] /\ UNCHANGED <<hour, connected>>
    BY <1>4 DEF ArchiveInv, ArchiveTyped, Archive!Write
  <2>2. stores' \in [database : Nat, rows : Nat, bucket : Nat]
    <3>1. CASE object
      <4>1. stores' = [stores EXCEPT !.bucket = @ + 1]
        BY <1>4, <3>1 DEF Archive!Write
      <4> QED
        BY <2>1, <4>1
    <3>2. CASE ~object
      <4> DEFINE added == IF insert THEN 1 ELSE 0
      <4>1. added \in Nat
        OBVIOUS
      <4>2. stores' = [stores EXCEPT !.database = @ + 1, !.rows = @ + added]
        BY <1>4, <3>2 DEF Archive!Write
      <4> HIDE DEF added
      <4>3. stores.database + 1 \in Nat /\ stores.rows + added \in Nat
        BY <2>1, <4>1
      <4> QED
        BY <2>1, <4>2, <4>3
    <3> QED
      BY <3>1, <3>2
  <2> QED
    BY <1>1, <2>1, <2>2, Elsewhere DEF ArchiveInv, ArchiveTyped
<1> QED
  BY <1>2, <1>3, <1>4

LEMMA ArchiveStep ==
  ASSUME ArchiveInv, Archive!Next
  PROVE  ArchiveInv'
BY StartsBackup, Restores, LooksAt, Removes, Unlinks, RemovesDirectory, Decays, CaptureSteps,
   Completes, Crashes, PruneStarts, PruneGoesOn, ApplicationSteps DEF Archive!Next

--------------------------------------------------------------------------------
\* Only the removal that a prune has begun takes anything from a complete backup.
LEMMA OnlyRemovalsTake ==
  ASSUME ArchiveInv, Archive!Next, ~Preserved
  PROVE  (\E f \in Archive!Files : Archive!Unlink(f)) \/ Archive!RemoveDirectory
<1>1. dirs' # dirs
  BY DEF Preserved
<1>2. /\ ~\E k \in Backups : Archive!StartRestore(k)
      /\ ~(Archive!Crash \/ Archive!StartPrune)
      /\ ~(Archive!VerifyNext \/ Archive!StartRemoving \/ Archive!EndPrune)
      /\ ~(Archive!RestoreObjects \/ Archive!RestoreDatabase \/ Archive!Recreate)
      /\ ~(Archive!Connect \/ Archive!Tick)
      /\ ~\E insert, object \in BOOLEAN : Archive!Write(insert, object)
  BY <1>1 DEF Archive!StartRestore, Archive!Crash, Archive!StartPrune,
     Archive!VerifyNext, Archive!StartRemoving, Archive!EndPrune, Archive!RestoreObjects,
     Archive!RestoreDatabase, Archive!Recreate, Archive!Connect, Archive!Tick, Archive!Write
<1>3. ~\E k \in Backups :
        Archive!StartBackup(k) \/ Archive!Decay(k) \/ Archive!LookAt(k) \/ Archive!Remove(k)
  BY StartsBackup, Decays, LooksAt, Removes
<1>4. ~(Archive!Before \/ Archive!Dump \/ Archive!Export \/ Archive!After \/ Archive!Manifest)
  BY CaptureSteps
<1>5. ~Archive!Complete
  BY Completes
<1> QED
  BY <1>2, <1>3, <1>4, <1>5 DEF Archive!Next

\* And then enough of what was verified is left as it is.
LEMMA KeepsEnough ==
  ASSUME ArchiveInv, Archive!Next, NEW b \in Backups, Archive!Loses(b)
  PROVE  Cardinality({k \in prune.verified :
           Archive!Kept(k)' /\ dirs[k].at >= prune.removal.at}) >= Count
<1> DEFINE kept == {k \in prune.verified : Archive!Kept(k)' /\ dirs[k].at >= prune.removal.at}
<1>1. ~Preserved /\ dirs' # dirs /\ dirs[b].state = "complete" /\ dirs'[b] # dirs[b]
  BY DEF Archive!Loses, Preserved
<1>2. /\ prune \in Prunes /\ prune.removal \in Removals
      /\ \A k \in Backups : k # prune.removal.backup => dirs'[k] = dirs[k]
      /\ dirs[prune.removal.backup].state = prune.removal.state
  BY <1>1, OnlyRemovalsTake, Unlinks, RemovesDirectory
<1>3. prune.removal.backup = b /\ prune.removal.state = "complete"
  BY <1>1, <1>2
<1>4. /\ prune.step = "remove" /\ Cardinality(NotOlder) >= Count
      /\ b \notin prune.listed
  BY <1>2, <1>3 DEF ArchiveInv, Removing
<1>5. /\ prune.listed \subseteq prune.verified /\ prune.verified \subseteq Backups
      /\ \A k \in prune.listed :
           dirs[k].state = "complete" /\ Archive!Whole \subseteq dirs[k].files
  BY <1>2, <1>4 DEF ArchiveInv, Listed, Prunes
<1>6. \A k \in prune.listed : dirs'[k] = dirs[k]
  BY <1>2, <1>3, <1>4, <1>5
<1>7. \A k \in prune.listed : Archive!Kept(k)'
  BY <1>5, <1>6 DEF Archive!Kept
<1>8. NotOlder \subseteq kept
  BY <1>5, <1>7 DEF NotOlder
<1>9. IsFiniteSet(kept)
  BY <1>5, FS_Subset, BackupAssumption
<1> HIDE DEF kept
<1>10. /\ Cardinality(NotOlder) <= Cardinality(kept)
       /\ Cardinality(NotOlder) \in Nat /\ Cardinality(kept) \in Nat
  BY <1>8, <1>9, FS_Subset, FS_CardinalityType
<1>11. Cardinality(kept) >= Count
  BY <1>4, <1>10, BackupAssumption
<1> QED
  BY <1>11 DEF kept

--------------------------------------------------------------------------------
LEMMA ArchiveInvariant == MCSpec => []ArchiveInv
<1>1. MCInit => ArchiveInv
  BY ArchiveStarts DEF MCInit
<1>2. ArchiveInv /\ [MCNext]_<<part, allVars, backupVars, schemaVars>> => ArchiveInv'
  <2>1. MCNext => Archive!Next \/ UNCHANGED backupVars
    BY DEF MCNext
  <2>2. UNCHANGED <<part, allVars, backupVars, schemaVars>> => UNCHANGED backupVars
    OBVIOUS
  <2> QED
    BY <2>1, <2>2, ArchiveStep, ArchiveStutters DEF backupVars
<1> QED
  BY <1>1, <1>2, PTL DEF MCSpec

LEMMA ArchiveTypeOK == ASSUME ArchiveInv PROVE Archive!TypeOK
<1>1. ArchiveTyped
  BY DEF ArchiveInv
<1>2. \A b \in Backups : /\ dirs[b].state \in {"none", "partial", "complete"}
                         /\ dirs[b].files \subseteq Archive!Files
  BY <1>1 DEF ArchiveTyped, Rows, AllFiles, Archive!Files, Archive!Whole, Archive!Components
<1>3. /\ capture # ArchiveIdle => capture.backup \in Backups
      /\ prune # ArchiveIdle => prune.listed \subseteq Backups
      /\ recovery # ArchiveIdle => recovery.backup \in Backups
  BY <1>1 DEF ArchiveTyped, Captures, Prunes, RestoreCalls
<1>4. restored.restored \in BOOLEAN
  BY <1>1 DEF ArchiveTyped, Targets
<1> QED
  BY <1>1, <1>2, <1>3, <1>4, ArchiveKinds DEF ArchiveTyped, Archive!TypeOK

\* For any backups, counts, ages and crashes, also within the removal of a directory file by
\* file: a directory with the name of a backup is a whole one until a prune begins to remove
\* it, and a backup loses a file only to a prune that has verified at least Count others that
\* are not older, and these still have all their files.
THEOREM BackupsAlwaysKept == MCSpec => BackupsKept
<1> DEFINE A == \A b \in Backups : Archive!Loses(b) =>
        Archive!Cardinality({k \in prune.verified :
          Archive!Kept(k)' /\ dirs[k].at >= prune.removal.at}) >= Count
<1>1. ArchiveInv => Archive!TypeOK /\ Archive!CompleteIsWhole
  <2>1. ArchiveInv => Archive!CompleteIsWhole
    BY DEF ArchiveInv, Wholes, Archive!CompleteIsWhole
  <2> QED
    BY <2>1, ArchiveTypeOK
<1>2. MCSpec => [](Archive!TypeOK /\ Archive!CompleteIsWhole)
  BY <1>1, ArchiveInvariant, PTL
<1>3. ArchiveInv /\ [MCNext]_<<part, allVars, backupVars, schemaVars>> => [A]_(Archive!vars)
  <2> SUFFICES ASSUME ArchiveInv, [MCNext]_<<part, allVars, backupVars, schemaVars>>
               PROVE  [A]_(Archive!vars)
    OBVIOUS
  <2>1. Archive!Next \/ UNCHANGED backupVars
    BY DEF MCNext
  <2>2. CASE UNCHANGED backupVars
    BY <2>2 DEF backupVars, Archive!vars
  <2>3. CASE Archive!Next
    BY <2>3, KeepsEnough, SameCardinality
  <2> QED
    BY <2>1, <2>2, <2>3
<1>4. MCSpec => [][A]_(Archive!vars)
  <2> HIDE DEF A
  <2> QED
    BY <1>3, ArchiveInvariant, PTL DEF MCSpec
<1>5. MCSpec => Archive!VerifiedAreKept
  BY <1>4, PTL DEF Archive!VerifiedAreKept
<1> QED
  BY <1>2, <1>5 DEF BackupsKept

=================================================================================
