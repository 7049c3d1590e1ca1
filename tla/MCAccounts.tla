------------------------------ MODULE MCAccounts ------------------------------
(* Small instances for TLC of what accounts do: sessions, exports, deletions,  *)
(* message requests, direct conversations; and of those who govern them: the   *)
(* roles of a community, administration.                                       *)
(* The initial state chooses the part that acts; the others stay as they are.  *)
(* Sets whose members are interchangeable serve several parts.                 *)
EXTENDS AuthSessions, TLC

CONSTANTS
  job,       \* the job of the export and of the deletion
  moderator

VARIABLES
  part,
  \* PrivacyExports
  exportTime, exports, objects, permitted, exportCalls, exportFaults,
  \* AccountDeletion
  deletionTime, deletions, held, sole, owner, deletionCalls, done, deletionFaults,
  \* DirectRequests
  suspended, strangers, settings, blocks, requests, requestCalls, day,
  \* DirectConversations
  refused, started, member, messages, tx, holder,
  \* Administration
  suspensions, logins, signedIn, upgrades, sockets, rows, told, audit, adminCalls, begun,
  \* Authorization
  valid, holderOf, role, assigned, decisions, command

Exports == INSTANCE PrivacyExports WITH
  Jobs <- {job}, Calls <- Requests,
  Life <- 1, MaxTime <- 1, MaxTries <- 2, MaxFaults <- 1,
  now <- exportTime, jobs <- exports, calls <- exportCalls, faults <- exportFaults
Deletions == INSTANCE AccountDeletion WITH
  Jobs <- {job}, Workers <- SessionIds, Keys <- {job},
  CoolingOff <- 1, MaxTime <- 2, MaxFaults <- 1, MaxVersion <- 4,
  now <- deletionTime, jobs <- deletions, calls <- deletionCalls,
  faults <- deletionFaults
Directs == INSTANCE DirectRequests WITH
  Accounts <- Passwords, Clients <- SessionIds, Keys <- {job}, DailyLimit <- 2,
  Validity <- 1, MaxRequests <- 2, MaxTime <- 1, MaxSettings <- 1,
  calls <- requestCalls, now <- day
Conversations == INSTANCE DirectConversations WITH
  Accounts <- Passwords, Clients <- SessionIds, Keys <- {job}, Bodies <- {job},
  MaxMessages <- 2
\* Suspensions while accounts log in and connect; and more calls, on settings too, without.
Suspensions == INSTANCE Administration WITH
  Accounts <- Passwords, Entrants <- Passwords, Calls <- SessionIds, Keys <- {job},
  Settings <- {"registration", "maintenance"}, MaxVersion <- 2, MaxCalls <- 2,
  sessions <- signedIn, calls <- adminCalls, started <- begun
Policies == INSTANCE Administration WITH
  Accounts <- Passwords, Entrants <- {}, Calls <- SessionIds, Keys <- {job},
  Settings <- {"registration", "maintenance"}, MaxVersion <- 2, MaxCalls <- 3,
  sessions <- signedIn, calls <- adminCalls, started <- begun

\* Commands on one role; and two roles whose rows and assignments vary, without commands.
Authority == INSTANCE Authorization WITH
  Actors <- {job, moderator}, Roles <- {1}, Permissions <- {"membership.manage"},
  Calls <- SessionIds, MaxPosition <- 0, MaxVersion <- 1, MaxDecisions <- 1,
  owner <- holderOf, call <- command
Evaluation == INSTANCE Authorization WITH
  Actors <- {job, moderator}, Roles <- {1, 2}, Permissions <- {"membership.manage"},
  Calls <- {}, MaxPosition <- 0, MaxVersion <- 1, MaxDecisions <- 3,
  owner <- holderOf, call <- command

exportVars == <<exportTime, exports, objects, permitted, exportCalls, exportFaults>>
deletionVars ==
  <<deletionTime, deletions, held, sole, owner, deletionCalls, done, deletionFaults>>
requestVars == <<suspended, strangers, settings, blocks, requests, requestCalls, day>>
conversationVars == <<refused, started, member, messages, tx, holder>>
adminVars ==
  <<suspensions, logins, signedIn, upgrades, sockets, rows, told, audit, adminCalls, begun>>
roleVars == <<valid, holderOf, role, assigned, decisions, command>>

\* Alone, the scope of a space is like that of a category.
WithoutSpaces ==
  /\ \A d \in decisions : d.scope # "space"
  /\ \A c \in SessionIds : command[c].op = "decide" => command[c].asked.scope # "space"

MCInit ==
  /\ part \in {"sessions", "exports", "deletions", "requests", "conversations",
               "suspensions", "administration", "roles", "evaluation"}
  /\ Init /\ Exports!Init /\ Deletions!Init /\ Directs!Init /\ Conversations!Init
  /\ Suspensions!Init
  /\ (part = "requests" \/ ~strangers)
  /\ IF part = "evaluation" THEN Evaluation!Init ELSE Authority!Init
  /\ holderOf = moderator
  /\ part \in {"roles", "evaluation"} \/ (decisions = {} /\ role[1].version = 0)
  /\ part = "roles" => WithoutSpaces

\* The step of a part leaves the variables of the others alone.
Only(name) ==
  /\ part = name /\ UNCHANGED part
  /\ IF name = "sessions" THEN TRUE ELSE UNCHANGED vars
  /\ IF name = "exports" THEN TRUE ELSE UNCHANGED exportVars
  /\ IF name = "deletions" THEN TRUE ELSE UNCHANGED deletionVars
  /\ IF name = "requests" THEN TRUE ELSE UNCHANGED requestVars
  /\ IF name = "conversations" THEN TRUE ELSE UNCHANGED conversationVars
  /\ IF name \in {"suspensions", "administration"} THEN TRUE ELSE UNCHANGED adminVars
  /\ IF name \in {"roles", "evaluation"} THEN TRUE ELSE UNCHANGED roleVars
MCNext ==
  \/ Only("sessions") /\ Next
  \/ Only("exports") /\ Exports!Next
  \/ Only("deletions") /\ Deletions!Next
  \/ Only("requests") /\ Directs!Next
  \/ Only("conversations") /\ Conversations!Next
  \/ Only("suspensions") /\ Suspensions!Next
  \/ Only("administration") /\ Policies!Next
  \/ Only("roles") /\ Authority!Next /\ WithoutSpaces'
  \/ Only("evaluation") /\ Evaluation!Next
MCSpec ==
  MCInit /\ [][MCNext]_<<part, vars, exportVars, deletionVars, requestVars,
                         conversationVars, adminVars, roleVars>>

Interchangeable ==
  Permutations(Requests) \union Permutations(SessionIds) \union Permutations(Passwords)

--------------------------------------------------------------------------------
\* A session that was accepted was usable when it was accepted, however requests
\* interleave (packages/auth/src/index.ts).
SessionsKept == []TypeOK /\ AcceptedWasUsable

\* No revocation, failure or lost race leaves an archive, and a job that was settled
\* stays so, whichever of the workers and the revocations came first; expiry, which
\* removes nothing, is no part of it (privacy-export.ts).  A deletion that was cancelled
\* did nothing to the account, and one that is complete did everything (account-deletion.ts).
PrivacyKept ==
  /\ [](Exports!TypeOK /\ Exports!NoArchiveIsLeft) /\ Exports!SettledStaysSettled
  /\ [](Deletions!TypeOK /\ Deletions!CancelledIsUntouched /\ Deletions!CompletedIsComplete)

\* An account has at most one open request to another, whatever calls race for it; each of
\* the two may have one (direct-requests.ts); the messages of their conversation are
\* numbered as they were stored, and what was read stays read (direct.ts).
DirectKept ==
  /\ [](Directs!TypeOK /\ Directs!OneOpenRequest)
  /\ [](Conversations!TypeOK /\ Conversations!NumberedInOrder) /\ Conversations!StaysRead

\* What is allowed is what the roles and decisions say, and nobody grants more than they
\* are allowed when it takes effect (packages/authorization/src/index.ts); administrators
\* overwrite nothing they have not seen, and whom a call suspended is out when it is done,
\* but for what had been let in before and arrived later (administration.ts, the login of
\* packages/auth/src/index.ts, the upgrade of websocket.ts).
AuthorityKept ==
  /\ [](part = "roles" => Authority!TypeOK)
  /\ [](part = "evaluation" => Evaluation!TypeOK /\ Evaluation!EvaluatesAsDocumented)
  /\ [][part = "roles" => Authority!WithinAuthority]_roleVars
  /\ []Suspensions!SuspendedIsOut /\ Suspensions!ChangesWhatWasSeen

================================================================================
