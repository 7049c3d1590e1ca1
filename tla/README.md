# NexaChat in TLA+

Specifications of NexaChat's server, clients and tools, checked with TLC and proved
with TLAPS. Every definition stands for code of this repository; `PROJECT.json`
names the lines (`map`), the runs, the mutants each property is tested with, the
hazards of the code, the disagreements found and the theorems.

## The system

NexaChat is a Node.js server (one or more instances) over PostgreSQL and an
optional Valkey, a web client, a Tauri shell around it, and tools that release, back
up and update it.

| Component | State | Operations | What is hard | What must hold |
| --- | --- | --- | --- | --- |
| Real-time hub (`websocket.ts`) | connections, pending upgrades, subscriptions and their index | upgrade, subscribe, unsubscribe, revalidate, close | state read before an `await` and used after it; close events in between | limits, agreement of the index, no socket without a session, an end of the shutdown |
| Delivery and fan-out (`websocket.ts`) | sequence per space, seen events, send buffers | broadcast, receiveFanout, sendSerialized | order across awaits, eviction of sequences, slow sockets | an event once, numbers that go on, nothing for who was refused |
| Web client (`apps/web/src/main.tsx`) | window of messages, pending events, cursor | initial, older, latest, events, reconnect, clear | answers that come late or after a loss | a loss ends in a reconciliation; what was cleared stays cleared |
| Background jobs (`job-recovery.ts`) | row with status, attempts, lease, checkpoint, version | claim, checkpoint, complete, fail, cancel | crashed and slow workers, handlers that outlive their timeout | one holder, monotone checkpoints, every job settled |
| Authentication (`packages/auth`) | password hash, credential version, sessions | login, authenticate, change, reset, revoke | separate statements at READ COMMITTED, slow hashing | sessions end with the password they were issued for |
| Recovery (`recovery.ts`) | challenges, methods, lock, idempotency records | request, complete, verify, lock, invalidate | concurrent redemptions, retries, operators | a token works once and only while current |
| Coordination and limits | Valkey counters, circuit, local buckets | increment, verify, fallback | lost answers, outages, several instances | the limit of a window, recovery from an outage |
| Communities, invitations (`domain/src/index.ts`) | communities, members, invitations | create, archive, join, leave, accept, revoke, transfer | SERIALIZABLE retries, claims near `maxUses` | at most `maxUses`, an active owner |
| Categories, spaces, content limits | versioned rows with positions | create, update, reorder, archive, list | stale versions, pages of a list that moves | an editor replaces what it saw, a walk misses nothing |
| Roles and decisions (`packages/authorization`) | roles, assignments, allow and deny decisions | evaluate, create, update, assign, setDecision | precedence; a snapshot used after others wrote | the documented order; nobody grants more than they hold |
| Messages | messages, slow mode | post, edit, delete | idempotent retries, versions, bans in between | one message per key, tombstones stay |
| Moderation | restrictions, appeals, reports, cases, chain of audit rows | restrict, reverse, decide, report, note, assign | rows written outside transactions, clocks of several servers | one chain, activity in order, a report once |
| Administration (`administration.ts`) | suspensions, policy, maintenance, jobs | suspend, lift, set, cancel | five calls, each may fail | a suspended account is out, but for late arrivals; no write over what was not seen |
| Audit events (`postgres/src/index.ts`) | chain, checkpoints | append, export, verify | a trigger that reads an old snapshot | one chain, an event per change, a sound verdict |
| Direct messages and their requests | settings, blocks, requests, conversations, read positions | request, respond, send, read, block | blocks and settings that change meanwhile | one open request each way, numbers in order |
| Notifications, preferences, push, desktop | inbox, unread count, registrations, checkpoint of a poll | create, mark, advance, register, deliver, poll, show | retries, several devices, restarts | counted once, read stays read, shown once, bounded |
| Presence and status | short-lived keys, subscriptions | heartbeat, set, view | three calls that fail apart | no status nobody announced |
| Privacy export, account deletion, retention | rows, objects, checkpoints | request, process, cancel, revoke, purge | a second worker, a failing step, holds | no archive left over, cancelled is untouched, due is purged |
| Start, health and shutdown (`main.ts`) | resources, timers, requests | start, signal, readiness, close | a signal during the start; one deadline for all | stores outlive requests that are waited for, a signalled process ends |
| Schema (`postgres/src/index.ts`) | migrations, installed schema | migrate, plan, verify, gate | builds of several versions at once | one history; a server starts on its schema |
| Backup (`scripts/backup`) | directory of backups | backup, prune, restore | crashes, also within a removal, a live application | complete is whole until it is removed, verified is kept |
| Desktop updates, credentials (`tools/release`, `src-tauri`) | slots, pointers, keychain entries | apply, recover, rollback; store, select, remove | a crash between any two writes | always launchable; readable; the selection was asked for |
| Release tools | version files, fragments, bundle | check, prepare, apply; assemble, sign, verify | a stop between two files, packagers beside | no note is lost; a bundle is of one assembly |
| HTTP layer, contracts, configuration, telemetry, object storage adapter, other tools | little or none | - | - | - |

Requests reach the services through `app.ts` and `auth-routes.ts`, the sockets
through the hub. The hub asks the authentication service for sessions and the
community service for permissions; recovery tells the hub to close sockets; the
broadcast of a message follows the commit of its transaction, and what the client
shows meets in one list with what the history answers. Instances share PostgreSQL,
and Valkey for limits, presence and the fan-out of events. The job worker and the
services of administration, deletion, export, retention and direct messages are
libraries that no entry point of the server creates yet: they are modelled by what
they do with the stores they are given.

`PROJECT.json` lists every component with its status and the reason for what is
left out.

## The modules

| Module | Models | Checked on | In run (part) |
| --- | --- | --- | --- |
| `RealtimeHub` | `apps/server/src/websocket.ts`: admission, subscriptions, revalidation, shutdown | `MCRealtimeHub` | `hub_admission`, `hub_subscriptions`, `hub_ghost` |
| `CommunityAuthority` | `packages/domain/src/index.ts`: owner, memberships, restrictions, appeals, invitations, audit rows | through `CommunityMessages` | |
| `CommunityMessages` | messages of a space, over `CommunityAuthority` | `MCCommunityMessages` | `community`, `community_audit` |
| `JobLifecycle` | what the job queue promises (abstract) | through `JobRecovery` | |
| `JobRecovery` | `packages/domain/src/job-recovery.ts` over its PostgreSQL store | `MCJobRecovery` | `jobs` (queue) |
| `Retention` | `packages/domain/src/retention.ts` | `MCJobRecovery` | `jobs` (retention) |
| `AuthSessions` | `packages/auth/src/index.ts`: one account, its password and sessions | `MCAccounts` | `accounts` (sessions), `auth_rehash` |
| `PrivacyExports` | `privacy-export.ts` | `MCAccounts` | `accounts` (exports) |
| `AccountDeletion` | `account-deletion.ts` | `MCAccounts` | `accounts` (deletions) |
| `DirectRequests` | `direct-requests.ts` | `MCAccounts` | `accounts` (requests) |
| `DirectConversations` | `direct.ts` | `MCAccounts` | `accounts` (conversations) |
| `Administration` | `administration.ts` | `MCAccounts` | `accounts` (administration) |
| `Authorization` | `packages/authorization/src/index.ts` | `MCAccounts` | `accounts` (roles, evaluation) |
| `AccountRecovery` | `packages/auth/src/recovery.ts`, over `AuthSessions` | `MCRecovery` | `recovery` (sessions, methods), `recovery_operator` |
| `BackupRestore` | `src/scripts/backup/command.mjs` | `MCRecovery` | `recovery` (backups) |
| `SchemaUpgrade` | migrations of `packages/postgres/src/index.ts`, the upgrade gate | `MCRecovery` | `recovery` (schema) |
| `RequestLimits` | `apps/server/src/rate-limit.ts` over `packages/coordination` | `MCOutages` | `outages` (limiter) |
| `ServerLifecycle` | `main.ts`, `health.ts`, the drain of `app.ts` | `MCOutages` | `outages` (server) |
| `WebClient` | `apps/web/src/main.tsx`: one space's window | `MCOutages` | `outages` (client) |
| `UpdateRecovery` | `tools/release/update-recovery.ts` | `MCServices` | `services` (updates) |
| `Notifications` | inbox of `notifications.ts` and its store | `MCServices` | `services` (inbox) |
| `DesktopNotifications` | `desktop-notifications.ts`, the gate of the shell | `MCServices` | `services` (desktop) |
| `RealtimeDelivery` | delivery and fan-out of `websocket.ts` | `MCServices` | `services` (delivery, numbers, notices) |
| `Presence` | `presence.ts`, its store and events | `MCServices` | `services` (presence) |
| `SafetyReports` | safety reports of `domain/src/index.ts` | `MCServices` | `services` (reports) |
| `DesktopCredentials` | `src-tauri/src/credentials.rs` | `MCServices` | `services` (credentials) |
| `WebPush` | `web-push.ts` and its control | `MCServices` | `services` (push) |
| `ReleaseVersion` | `tools/release/versioning.ts` | `MCServices` | `services` (version) |
| `ArtifactBundle` | `tools/release/artifact-bundle.ts` | `MCServices` | `services` (bundle) |
| `NotificationReads` | read positions and preferences of `notifications.ts` | `MCServices` | `services` (reads) |
| `AuditTrail` | administrative audit events of `packages/postgres/src/index.ts` | `MCServices` | `services` (audit) |
| `ModerationCases` | cases of `domain/src/index.ts` | `MCServices` | `services` (cases, queue) |
| `CommunityStructure` | categories, spaces, content limits of `domain/src/index.ts` | `MCServices` | `services` (structure) |

Proofs are in modules of their own: `RealtimeHubProofs`, `JobRecoveryProofs`,
`RequestLimitsProofs`, `CommunityMessagesProofs` (also about `CommunityAuthority`),
`RecoveryProofs` (`AuthSessions`, `AccountRecovery`, `SchemaUpgrade`,
`BackupRestore`) and `ServicesProofs` (`UpdateRecovery`, `Presence`, `AuditTrail`,
`DesktopCredentials`); the two theorems of `Authorization` are in that module itself.

**Parts.** Components that share no state are checked by one run. The initial state
of such an MC module chooses the `part` of a behaviour; in a step, `Only(part)`
leaves the variables of all other parts as they are, so each part is explored
alone, exactly as it would be in a run of its own. The properties of these runs are
conjunctions with one conjunct for each part; where a part's invariant is false of
the initial state of a behaviour that plays another part, or costly to evaluate, it
is stated under `part = "..."`. The mutants show for the conjuncts that matter that
they can be broken: `GovernanceKept`, `AuthorityKept`, `AuditKept` and
`NotificationsKept` have several.

## Reading the modules

*JavaScript.* Code runs to completion between two awaits, so an action is the code
from one await to the next, and what a handler learned before an await is kept in
its own record (`pc`, `step` and fields), where it may be stale. *Rust and files.*
Each write of a file or of a keychain entry is a step, and the process may end
between any two. *SQL.* An autocommitted statement is one action. A transaction
whose intermediate state matters is two: its statements take the row locks, its
COMMIT publishes what it wrote; others read the old rows meanwhile. Serializable
transactions that lock the row everybody locks first are one action; where a
snapshot is taken before the lock (`AuditTrail`, `SchemaUpgrade`), it is a variable.
*Stores behind interfaces.* Each call is a step, and may fail. *Failure.* `Abandon`,
`Abort`, `Crash`, `Fail`, `Stop` are a refused request, a dead process, a lost
connection. *Time* is an action that may happen whenever a timer may fire.
Definitions marked `(mutant)` are plausible bugs: the definition after each is
replaced by it to see the property fail.

Some definitions state what a document, comment or test says and the code does not
do. They stand at the end of their modules, are named by a finding in
`PROJECT.json`, and four of them have a run that shows the violation.

### RealtimeHub

`phase`, `pending`, `connections`, `wire`, `subscriptions`,
`subscribersBySpace` and `subscriptionCount` are the variables of
`attachWebsocketHub`. `upgrade` is how far `verify()` is for a request,
`handler` a running `handleMessage()`, `revalidation` a running `revalidate()`.
`validSessions` and `viewers` stand for the stores. `verify()` is
`UpgradeRequest`, `CheckCapacity`, `AuthenticateUpgrade`, `Admit`, `Connect`, with
`PendingTimeout` for the timer that gives a place back; `handleMessage()` is
`Receive` to `CompleteSubscribe`; `close()` is `CloseStart`,
`CloseConnections`, `CloseFinish`.

- `hub_admission`: four upgrades of which two share an account and two an
  address, for two places. `CapacityRespected`, `DrainingAdmitsNobody`,
  `UpgradesEnd` (liveness). Two requests race for each of the three limits, which is
  the smallest instance where each limit alone refuses.
- `hub_subscriptions`: one socket, two messages at a time, two spaces, one
  revalidation, limit 1. `RegistrySound`, `IndexConsistent`, `AccessEnds` (liveness).
  Sockets do not interact in the index except through the counter; two handlers
  and a revalidation already interleave every pair of the code's awaits.
- `hub_ghost` is violated: a subscribe that returns from its awaits after its
  socket was cleaned up leaves a subscription that nothing removes until the
  process ends (`websocket.ts:576`).

The model also shows that two messages in flight exceed `maxSubscriptions`
together, since the limit is read before the awaits. No property depends on the
exact limit, so none is stated.

### CommunityAuthority and CommunityMessages

One community and one of its text spaces. Every command of `CommunityService`
repeats its checks in a SERIALIZABLE transaction and is one action: `owner`,
`archived`, `member`, `restrictions`, `appeals`, `invitations` are rows, `Authorized`,
`Enforced` and `CanModerate` the decisions of `evaluatePermission()`, `enforce()` and
`assertCanModerate()` on them. Two commands are more than one step. `postMessageCommand()`
looks at everything before its transaction (`StartPost`) and again in it
(`CommitPost`, `ReplayPost`, `RefusePost`); `posts` is what it carries. The rows of
refused timeouts and bans are written by two statements outside any transaction
(`Refuse`, `RecordRefusal`); `refusals` are the rows in between. `joins` and
`answers` are history. A message keeps all its bodies: their number is the
version, the last is the column. A repeated command under its idempotency key
changes nothing and is a stutter. Roles are constants here (`Granted`, `Position`):
no route of the server changes them, and what changes them is `Authorization`.
No route calls `transferOwnership()` either, but the service exports it, and it is an
action.

- `community`: an owner, a moderator and a member who begin as strangers. All
  parts at once are out of TLC's reach, so each behaviour draws a plan, and a
  state outside its plan is not entered: *moderation* (two restrictions, their
  appeals and reversals, ownership), *refusals* (the audit rows beside one
  restriction), *invitations* (one of at most two uses beside departures,
  removals and a ban), *pacing* (two requests and two messages under slow mode,
  a timeout, transfers), *retries* (two requests, two keys, two bodies),
  *changes* (one message, two versions, a moderator, the author, a ban,
  archives). Each pair of parts that share a variable a property reads meets in
  a plan. Two uses have a last one that two accounts want; two messages and two
  requests are what a race for a key or an interval needs; two ticks pass the end
  of a duration. `OwnersSound`, `InvitationAccounted`, `PostsSound`, `EvidenceKept`,
  `PostedWithAuthority`.
- `community_audit` is violated: two refused commands read the same latest hash
  and both insert (`index.ts:2768`). The rows then fork, where
  `docs/architecture/moderation.md:10` speaks of a chain. No lock, unique index or
  trigger of the table prevents it.

The bounds are `MaxTime`, `MaxRestrictions`, `MaxInvitations`, `MaxMessages`,
`MaxEdits`, `MaxStamps`. Also seen: `mutateMessage()` does not look at the
archive of the community, only of the space; permissions named `moderation.*` are
exempt from restrictions, so a moderator who is banned goes on moderating.

### JobLifecycle, JobRecovery, Retention

`JobLifecycle` is the promise: attempts, statuses, what a cancellation ends in.
`JobRecovery` has the rows of `background_jobs` (`job`), `runOnce()` of each
worker (`worker`) and the handlers that timed out but cannot be stopped
(`zombies`). `Claim` is the transaction of `claim()`, with its first UPDATE
(`FailExhausted`); `Transition` the versioned UPDATE behind `Complete`, `Cancel`
and `FinishFailure`. A random lease token is the row's version at the claim.
`JobControlService.retry` is not an action: it needs a failed job with attempts
left, and `Implements` shows there is none (only the last attempt fails a job).
`Retention` is the batches of one worker: `Start`, `Check` (the holds), `Purge` or
`PurgeFails`, `SaveCheckpoint`, over messages that are deleted, held and released.

- `jobs`, part *queue*: one job, two workers, three attempts, two checkpoints, two
  faults (crashes, or leases lost by a live worker). `Implements` is the refinement
  `JobLifecycle!Spec`; `RowsSound`, `CheckpointsSound`, `QueueSettles` (liveness).
  Jobs meet only in the choice of `claim()`; three attempts have a first, a middle and
  a last, and two faults can hit two attempts in a row.
- Part *retention*: two messages, batches of one, three days, one failure, one other
  policy. `RetentionKept`: a tombstone is kept as long as it has to be, and what is
  due is purged (liveness). Two messages are what the cursor passes and comes back
  to. Violated: `HeldIsKept`.

### AuthSessions and AccountRecovery

One account. `account` is its row, `sessions` the rows of its sessions, `op` what
each request remembers. `proof` is the password a session was issued for and
`began` whether the session was usable when its request began: history, read by
properties only. A hash is its password and whether its parameters are the
configured ones. `AccountRecovery` extends this by `lock`, `challenge`, `method` and
`idempotency`. `recovery_epoch` is incremented with `credential_version` and by
nothing else, so `account.version` is both. `completeRecovery()` is
`CompleteRecovery` (checks before the hashing), `Redeem` and `CommitRecovery` (the
transaction), `Publish`, `Answer`; `RepeatCompletion` and `RepeatInTransaction` are
the two lookups of the key.

- `accounts`, part *sessions*: three requests, two sessions, outdated hash
  parameters. `SessionsKept`. Three requests are a revocation that holds its
  locks, a login that slips in, and an authentication that meets both.
- `auth_rehash` is violated: `login()` hashes for a while and then writes the
  new hash by id alone (`index.ts:422`), over a password change that committed
  meanwhile. The old password is back under the new credential version. All
  theorems and runs about passwords therefore assume
  `InitialFormat = "current"`.
- `recovery`, part *sessions*: two requests, two tokens of which one is pending at a
  time, three credential versions and one session; part *methods*: two tokens, two
  methods (a replacement needs two), no sessions. `UsableKnowsPassword`,
  `ChangeProvesCurrent`, `PasswordMovesWithVersion` hold although recoveries join
  logins, changes and resets, because to the account a recovery is a reset:
  `ImplementsSessions` is the refinement of `AuthSessions`, with `AsReset` for what a
  request remembers; `TokensSound` joins what a token, a lock and a verification
  promise. A second session only repeats the first: sessions meet in the account alone,
  and the theorems about `AuthSessions` have no bound.
- `recovery_operator` is violated: `operatorLock()` and `operatorInvalidate()`
  pass `Number.MAX_SAFE_INTEGER` to a comparison with a 32-bit column.
  PostgreSQL refuses the parameter and the command fails, always. `ColumnMax`
  and `EveryEpoch` stand for 2^31 - 1 and 2^53 - 1, beyond TLC's integers; only
  their order matters. In the other runs a lock comes from `setOperatorLock()`,
  a method of the service that no route calls.

Also seen: a repeated completion may answer success before, or without, the
publication of the first (`recovery.ts:484`, against
`docs/architecture/account-recovery-and-verification.md:142`); `replaceMethod()`
leaves the old method verified for good; `attempts` grow only with the one
successful use, so `max_attempts` never refuses anything.

### RequestLimits, ServerLifecycle, WebClient

In `RequestLimits`, `store` is the shared counters and whether Valkey answers, `late`
the increments whose callers stopped waiting, `circuit` the breaker of each instance,
`local` its fallback buckets, `call` the increments in progress. `admitted` counts
what was admitted through the shared store (history). `Send`/`RefuseOpen` begin
`consume()`, `Execute` is the script in the store, `Answer` its decision, `Fail` and
`TimeOut` the ways it ends without one, `Verify` the readiness probe.
`ServerLifecycle` is `start()` with its resources in order, signals at any await,
`startupShutdownTimer` and the deadline of `closeInOrder()`, readiness, and the
requests that the drain counts. `WebClient` is the effects of one space (`Setup`,
`Cleanup`), its requests for history in flight (`flights`: read by the server at one
step, answered at another), the socket, and the window with its pending events.

- `outages`, part *limiter*: two increments in progress, three keys (one
  fail-closed), limit 1, one bucket, two windows, two faults, two failures to open
  the circuit. `WithinLimit`, `OutageSurvived` (the fallback bounded, a return to the
  shared counters). The instances share nothing but the store, where their
  calls meet: two calls of one instance interleave there as those of two do, and
  `LimitHolds` proves the limit for any number. Two keys beside the sensitive
  one make the single bucket evict.
- Part *server*: two requests. `ShutdownSound`: stores are closed after the requests
  whose clients still wait, and a process that was signalled ends (liveness). The
  handler of a request whose client closed the connection goes on (`abandoned`) and is
  not waited for: `StoresOutliveHandlers` is violated.
- Part *client*: two messages, pages of 1, a window of 2, two pending events, one
  attempt to reconnect, one lost event, two changes, one click. `ClientSound`: an
  older page is asked for before what is shown, a cleared window stays cleared,
  and a loss ends in a reconciliation with the history (liveness). Two messages on
  pages of one are the smallest history that has an older page.

Without probes the return to the shared counters is false: the clients are made with
`reconnectStrategy: false` and only `verify()` reconnects, where
`docs/operations/rate-limiting.md:51` says that each process probes on subsequent
operations. Violated: `CleanShutdownSucceeds`, `StoresOutliveHandlers`,
`DrainCountsRequests` (an abort before the count is counted for ever) of the server,
`RestartIsReconciled`, `DeletedStaysDeleted` of the client.

### What accounts do (other parts of `accounts`)

- `PrivacyExports` (*exports*): `request`, `process`, `revoke`, `retrieve` of both
  services, call by call of the store and the object storage. `NoArchiveIsLeft` and `SettledStaysSettled`. One job of either kind, three calls, life 1, time 1, two
  tries, one fault: a second worker, a revocation and a failing upload. Violated:
  `ReadyHasObject`, and `ExpiredIsRemoved`: the code never removes an archive whose
  time is over, it only refuses to hand it out.
- `AccountDeletion` (*deletions*): two workers, cooling off 1, time 2, one failing
  step. `CancelledIsUntouched`, `CompletedIsComplete`. Violated: `HoldSupersedes`,
  `InterruptedResumes`.
- `DirectRequests` (*requests*): two accounts that ask each other through two calls,
  daily limit 2, validity 1, one change of a setting. `OneOpenRequest`: one in each
  direction, for the service looks for open requests in its own direction only. The setting and
  the limit are not asked for again in the transaction; the index of migration 0024
  does not know expiry. Violated: `IgnoredLooksPending`, `AcceptedOpens`.
- `DirectConversations` (*conversations*): two messages, two calls. Transactions queue
  and keep what they wrote when they fail. `NumberedInOrder`, `StaysRead`. A removed
  conversation can never be opened again.
- `Administration` (*suspensions*, *administration*): two administrators. *suspensions*:
  two calls, while both accounts log in (`Login`, `CreateSession`), upgrade a WebSocket
  (`ReadSession`, `TouchSession`, `Connect`) and are revalidated, each statement a step;
  *administration*: three calls, two at once, without them. `SuspendedIsOut`: sessions
  and sockets of the account are only those a login or an upgrade had under way when the
  suspension revoked and published; two history fields of the call remember which.
  `ChangesWhatWasSeen`. That a stored suspension makes the account inactive is assumed:
  its store is an interface. Violated: `AnAdministratorRemains`, `RepeatedIsOut`,
  `NobodyEntersLate`, `ToldTheLatest`, `AuditIsOneChain`.
- `Authorization` (*roles*, *evaluation*): a command is its snapshot and its write,
  which commits only if what it read is unchanged (`Fresh`). *roles*: two actors, one
  role, two commands, no decision on a space (alone it is like a category).
  `WithinAuthority`. *evaluation*: two roles, at most three decisions over the three
  scopes, no commands: `EvaluatesAsDocumented` compares the evaluator with the order
  of `docs/architecture/permissions.md` in every such state. Three decisions
  are what it takes for a deny, an allow and one of a more specific scope to meet.
  Violated: `ProtectedRolesAreKept`, `ChangesMoveTheVersion`, `OwnerMayDecide`.

### Storage and schema (other parts of `recovery`)

- `BackupRestore` (*backups*): backup, prune and restore as processes over two
  directories, one to be kept, one write of the application, crashes and decay. A removal
  is `rm` of a directory: `Rm`, then `Unlink` of each file in any order, then
  `RemoveDirectory`, with a crash between any two (the manifest and its HMAC count as one
  file). `BackupsKept`: a directory with the name of a backup is whole until a prune
  begins to remove it (the history field `begun`), and files of a backup go only while
  enough verified ones that are not older still have all theirs (`BackupsAlwaysKept`: of
  any number). Violated: `NamedIsWhole`, what a removal cut off leaves under the name of
  a backup, and `RestoredOnceExisted`.
- `SchemaUpgrade` (*schema*): an old, a new and a forked build; migrators of the latter
  two, a planner, a server of the new one and the gate over one advisory lock.
  `SchemaKept`: one history, and what the gate accepted is installed
  (`SchemaAlwaysKept`: of any builds). Violated: `PlanIsCurrent`.

### Services, desktop and release tools (`services`)

- `UpdateRecovery` (*updates*): seven packages (upgrades, other builds of a version,
  other channels, a downgrade; some on no supported path), three slot ids, four
  generations; `Abort` after any write. `AlwaysLaunchable`, `MovesAreSupported`. After a
  rollback the same update cannot be applied again, and `recover()` refuses a sandbox of
  more than 16 entries.
- `Notifications` (*inbox*): two messages, one retry each, one device. `CountedOnce`.
  Violated: `EmittedAfterPersistence`.
- `DesktopNotifications` (*desktop*): two ids, batches of 2, one attempt in a window of
  one tick, one seen id kept, a device whose clock is set back by a tick and put right at
  any time. `ShownOnce`: a version is not shown again until `SeenLimit` others were.
  `ShowsAreBounded`: no window has more than `RateLimit`, unless the clock was set in it
  or the gate began anew (`Cleared`), which it does when the clock is before its first
  attempt. Violated: `AttemptsPerWindow`, the limit without that exception, and
  `OffStaysOff`. A notification that commits late falls behind the checkpoint.
- `NotificationReads` (*reads*): two devices. `NeverReadBack`, `AnsweredIsRead`,
  `ReplacesWhatWasSeen`. Violated: `BroadcastIsLatest`.
- `WebPush` (*push*): two browsers, three endpoints, limit 1. `AtMostLimit`. Violated:
  `EnabledIsActive`, `OffIsOff`.
- `RealtimeDelivery`: one socket, two spaces, one fan-out at a time, one remembered id,
  one remembered sequence, three ids taken for new; any event or notice may come again.
  *delivery*: an event of each space, beside fan-outs and revocations, one subscription;
  *numbers*: three events, two subscriptions, so that a sequence is evicted although both
  spaces are followed (`AllFollowed`); *notices*: an event and a notice. `SentOnce`: an
  event is not sent again until `MaxRemembered` other ids came (10,000: then it is, for
  `remember()` has forgotten it). `NumbersGoOn`: without a gap, except that the number of
  a space evicted while followed begins again, which takes more followed spaces than
  `maxSequenceStates`. `RefusedGetNothing`. Violated: `RemovedIsTold`. A fan-out that is
  lost leaves no gap, and two may be delivered in the other order.
- `Presence` (*presence*): one owner, one viewer, two beats, an outage.
  `NeverFabricated`, `BeatsAreSpaced`; proved for any number of owners, viewers and
  beats (`PresenceAlwaysKept`). A failed `set` silences the interval; an expiry
  and a block are never pushed.
- `SafetyReports` (*reports*): two keys, two fingerprints, three calls. `ReportedOnce`.
- `AuditTrail` (*audit*): two calls at once, three in all, two attempts, pages of two,
  one lost answer or damaged row. `OneChain`, `RecordedOnce`, `WalkIsComplete`,
  `VerdictIsSound`; proved of any number of each (`AuditAlwaysKept`). Violated:
  `RejectedDidNothing`.
- `ModerationCases`: two servers whose clocks differ by up to two ticks, three versions
  of a case, two keys. *cases*: all that is done to one case: opened and opened again,
  two updates of up to four activities each, of which the second may be made by the server
  that is behind. *queue*: two reports and pages of one, with clocks one tick apart and
  updates that note nothing (a page shows no activity). `ActivityInOrder`,
  `WalkIsComplete`. The in-memory store of the tests orders the pages otherwise than
  PostgreSQL.
- `CommunityStructure` (*structure*): two editors, one category, two spaces, pages of
  one, two positions, four writes. `RowsAreSeen` (an editor replaces the row it saw)
  and `WalkIsComplete`. Positions are counted, so archives make spaces share one; a
  space of an archived category cannot be updated without moving it; categories,
  spaces and limits do not look at the archive of the community. Violated:
  `ArchiveEndsAccess`, `ToldVersionIsAccepted`.
- `DesktopCredentials` (*credentials*): two slots and accounts, two operations, `Abort`
  after any write. `NeverCorruptsItself`, `SelectionIsAsked`; proved for any number of
  each (`CredentialsAlwaysKept`).
- `ReleaseVersion` (*version*): two fragments, four releases of which two are
  candidates, one stop. `NoteIsKept`, `MovesOn`. Violated: `DriftIsDetected`.
- `ArtifactBundle` (*bundle*): two files, two runs of the tool, two builds, one stop.
  `OneAssembly`, `SignedIsASnapshot`. Violated: `RetriesGoOn`.

*Bounds.* Every bound is a constant of its module (`Max...`, marked *(bound)*) or a
conjunct of its MC module (`Within`, `WithoutSpaces`, `DirectiveFirst`, `Sent`, `OneCase`, `TwoCases`, the plans). In
each part there are two of what races: two calls, workers, devices, migrators or
packagers, because the hazards of this code are between one actor's read and its
write, where one other actor acts. A third is there where it takes one to see the
case (the session's lock holder; the calls of a report; the third event that evicts
a sequence). Clocks reach one tick past the longest life, those of moderating servers
three values, so that one is behind what the other has written. Where a part's bounds leave
a case out, the sections above say so.

*Deadlock* is not checked: bounds on clocks, versions and numbers of rows stop every
behaviour in the end, and a closed hub, an ended process or an archived community
stops by design.

## Fairness

Liveness is claimed where the code's own scheduling leads to it, and fairness is
stated for exactly that.

- *Hub.* The event loop runs every settled continuation (`VerifyStep`,
  `HandleMessage`, `Revalidate`), the pending timer and `ws`'s own destruction of a
  socket that does not finish its closing handshake fire (`PendingTimeout`,
  `SocketClosed`), and `close()` goes on. Peers, moderators and operators owe nothing.
- *Jobs.* Workers poll and their runs end (the execution timeout does that); the lease
  of a worker that is gone runs out. Late handlers, operators and faults owe nothing.
- *Retention.* The clock goes on, the batch that was begun goes on (`Check`, `Purge`,
  `SaveCheckpoint`), and a real run, not a dry one, is started again and again
  (strong fairness: it is not enabled while a batch is under way).
- *Limiter.* The readiness probe is repeated by the orchestrator (`Verify`), and a call
  ends by its timeout. The store owes nothing.
- *Server.* Its own steps and the timers of its deadlines (`Goes`): neither a provider
  that is closed nor a peer owes an answer.
- *Client.* Effects of React, timers, animation frames, what the socket has to say, and
  the end of every request, answered or failed (`Goes`). Writers and the reader owe
  nothing.

## What is proved

All theorems are for every value of the constants that satisfies the named assumptions
(`HubAssumption`, `JobAssumption`, `AuthAssumption`, `RecoveryAssumption`,
`LimitsAssumption`, `AuthorityAssumption`, `MessagesAssumption`, `UpdateAssumption`,
`PresenceAssumption`, `TrailAssumption`, `SchemaAssumption`, `BackupAssumption`,
`VaultAssumption`). These
give constants their types (and `Sockets`, `Spaces`, `Calls`, `Backups` finite). Beyond that, `UpdateAssumption` says
that packages and policy have passed the validation that the code applies to them,
`RecoveryAssumption` that versions fit their column, and `SchemaAssumption` and
`TrailAssumption` that nobody is called like a state of the lock. `SchemaUpgrade`, `BackupRestore`,
`Presence`, `AuditTrail` and `DesktopCredentials` are parts of a run: their constants are given values in its
`.cfg` only, and their theorems are about its `MCSpec` with those constants left open.

- *Hub.* `TypeCorrect`. `Capacity` from `TypeOK /\ CapacityRespected`, which is
  inductive: every step but `Admit` shrinks what is held, and `Admit` counts
  after its last await. `RegistryCorrect` (with `LiveRegistry`) and
  `ShutdownAdmitsNobody` from `RegistryInv`, which adds that `pending` is empty once
  draining: without that a socket could still connect. `IndexCorrect` from the pair
  of `TypeOK` and `IndexConsistent`; its lemmas count pairs of sockets and spaces.
- *Jobs.* `InvCorrect` is the inductive `JobInv`: nobody remembers a version
  newer than the row's, and who remembers the current one saw its last
  checkpoint and has the current token. From it `Monotone`, `ByHolder` and with them
  `CheckpointsCorrect`; `Shaped` is inductive with types and gives `RowsCorrect`.
  `ImplementsLifecycle` maps each step to a step of `JobLifecycle` or a stutter.
- *Authentication.* The lemmas are about a step of `AuthSessions` beside requests
  whose `pc` is in `kinds`, of which only `Foreign(kinds)` is known, so that they hold
  for `AccountRecovery`, too. `TypeInv` (types, one transaction at a time writes the
  account) gives `TypeCorrect`; `VersionInv`, that nothing remembered is newer than the
  account, gives `AcceptedSessions`: what authenticates was usable when its request
  began, also with outdated hashes. With `InitialFormat = "current"`,
  `SessionsFollowPassword`, `ChangesAreSerial` and `PasswordVersioned` follow from
  `PasswordInv`: who remembers the account's version knows its password (`Knows`),
  and a transaction on the way to its COMMIT is one version ahead.
- *Recovery.* `RecoveryInv` adds types of the rows (`TokenRows`) and what a request
  relies on (`TokenOp`): between the checks of a redemption and its COMMIT its
  challenge stays pending and current, the lock open and the key unused, since the
  row of the account is locked (`Frozen`); who publishes or answers finds its own
  row under the key. With it `TokensAreSound`. `RecoveryIsReset` maps every step
  to a step of `AuthSessions` or a stutter: `CommitRecovery` is a commit of a reset.
  `RecoveredPasswords` is the three theorems about passwords again, with recoveries.
- *Schema.* `SchemaAlwaysKept` from `SchemaInv`: only the lock's holder reads or
  applies (`Holding`), so what is applied but not committed carries on the
  history along the migrations of one build (`Applying`), and the evidence that a
  gate accepted stays true (`Evident`) since a history only grows.
- *Backups.* `BackupsAlwaysKept` from `ArchiveInv`: a directory under capture holds what
  its steps so far have written (`Capturing`), unless a prune has begun to remove it, and
  what a prune has listed stays complete while it runs, with every file once verified
  (`Listed`). A complete backup whose removal goes on was marked as begun, is no longer
  listed, and leaves `Count` listed ones that are not older (`Removing`); every other step
  takes nothing from a complete one (`Preserved`).
- *Updates.* `LaunchableAlways` and `MovesFollowPolicy` from `UpdateInv`. That a
  pointer leads to a healthy slot is not inductive: it takes that two pointers differ
  in generation and slot (`Distinct`), that from either installation one may go to
  the other (`PairRelated`), that a command writes beside the active installation
  (`Beside`, `BeforeLink`, `Unlinked`), that its slot holds what the policy allows,
  unmarked until the end (`Fits`, `Returns`), and that the sweep spares what is
  referenced (`Spared`). The crash is `Abort`, after any write.
- *Presence.* `PresenceAlwaysKept` from `PresenceInv`: the key of the rate outlives the
  interval of every accepted beat (`RateCovers`), and every presence key is
  backed by a beat, of that state, from whose time it expires (`KeysBacked`).
- *Audit events.* `AuditAlwaysKept` from `TrailInv`. Sequences grow (`Ordered`); a
  snapshot is a beginning of the chain and knows the sequence that follows it
  (`Stale`), so an insert on a stale snapshot collides; what waits for its COMMIT
  carries on the chain as it is (`Prepared`), since it holds the lock; calls have
  identities of their own and leave nothing until they are decided (`Identified`,
  `Undecided`). `Whole`, `Once` and `Pinned` are the chain, the one event of a change
  and the checkpoints. A walk and a verification between two pages have
  accounted for each row so far (`WalkSound`, `ChecksSound`), and a verification
  claims nothing of a chain damaged between its pages that it did not begin
  with (`Claims`). A position of a list is found as the least of a set of numbers.
- *Credentials.* `CredentialsAlwaysKept` from `VaultInv`. That an account is selected only
  when asked for is not inductive: the selection is an entry of its own, which an
  interrupted command leaves behind, and a slot it names may be filled later for another
  account. It takes that a command which is ready has repaired the selection, and that
  one which is about to write it was asked to, for the account that the slot then holds
  (`Selecting`). `Apart` keeps accounts and operations of two slots different: a store
  takes the slot of its account, or there is none (`Foreigner`).
- *Limits.* `LimitHolds` from `CountInv`: what was admitted in a window and the
  answers on their way that will admit are together within the limit, and within
  the count of the window that is open; a window not yet begun has none.
- *Authorization.* `GrantsAreAllowed` from `AuthorityInv`: as long as a snapshot is what
  there is (`Fresh`), what it allowed is allowed (`SnapshotDecides`: an evaluation asks
  nothing that `Snapshot` does not read); whatever changes what a command has read ends
  its chance to commit (`OthersGo`). Serializability as PostgreSQL gives it is part of
  the model, in `Goes`. `EvaluationIsDocumented`: the code's choice of the most specific
  scope is the documented inheritance from scope to scope, for any decisions; the
  recursion of `Documented` has four values, which the proof writes out.
- *Communities.* `CommunityMessagesProofs` sorts the actions on the authority by what
  they change (`AuthorityKinds`) and keeps one invariant for each group: `AuditInv`
  (there is a latest row, or none), `OwnerInv`, `RestrictionInv`, and `InvitationInv`,
  which adds that no join lies in the future or names an invitation not yet there.
  Messages disturb the authority by an audit row only; so follow `OwnersCorrect`,
  `InvitationsAccounted`; `SlowModeKept` from `NextAllowed` (the row of an author is
  past the interval of each paced message) and `RetriesAnswerSame` from
  `OneMessagePerKey`, together `PostsCorrect`; `EvidenceStays` from `HistoryKept` (a
  deleted message never changes); `PostsAreAuthorized`; `TypeCorrect`.

Every invariant of a passing run is a theorem now, and so are the action properties of the
hub, the jobs, the messages, the accounts with their recoveries, the backups, the updates
and the credentials.

Only model-checked: every liveness property (the prover has no rule for fairness),
with the action properties that a run states in one formula with liveness or with
other parts, and the parts of `accounts`, `recovery`, `outages`, `services` and `jobs`
not named above. `SessionsKept` of the run `accounts` is stated over `MCSpec`; its two
halves are `TypeCorrect` and `AcceptedSessions` of `AuthSessions` itself. What
these modules share is few actors and one or two steps between a read and a
write; the proofs went first to what grows with actors, rows or time.

Induction over data is used in one form only: a set of numbers has a least member
(`LeastNumber`, from the library's `WFMin`), which takes no operator as a parameter.
It serves `After` of `AuditTrail`; the one recursive definition reasoned about is over
`0 .. 3` (`Documented`).

## Where the code differs from what is said of it

`PROJECT.json` quotes each line under `findings`. Four have runs that must fail
(`hub_ghost`, `auth_rehash`, `recovery_operator`, `community_audit`). The others are
stated as definitions in their modules, named *Violated* above: the sections' runs
explore the states that violate them, and adding one to a cfg shows a trace.
The repetition of an older operation of the vault (`credentials.rs:324`) is a finding
without a definition.

## Not modelled

- *Candidates and support policy* of a release, *spam heuristics*, *API contracts*,
  *configuration, secrets and client addresses*: functions of one input without state.
- *HTTP application and routes*: validation and mapping of errors around the handlers
  that are modelled; of its own state, the drain is in `ServerLifecycle`.
- *Threads, saved messages, search, discovery*: reads and single statements behind
  permissions.
- *Object storage adapter*: signed requests; its state is the service's. Exports and
  backups model the objects.
- *Telemetry*: counters and spans; no behaviour depends on them.
- *Web client*: rendering, caches of queries, the message between tabs, and the bridge
  to the vault, whose commands are modelled.
- *Performance, wiki and architecture tools*: measurements and documents.
- *Left out of modelled components*: registration, profiles and security events of
  `AuthSessions`; delivery of tokens in `AccountRecovery`; keys and different limits per
  endpoint, and the limiter without a store, in `RequestLimits`; replies, reactions and
  history in `CommunityMessages` (history is read by `WebClient`); lists of members;
  parsing of mentions; the retention view of `AuditTrail`; names and values of rows of
  `CommunityStructure`, which only their version tells apart; a snapshot of
  `Authorization` outside a transaction, six statements on a pool, taken as one.

What would be worth doing next: theorems for `Notifications` and `RealtimeDelivery`
(counted once, sent once), for `DirectConversations` and `Administration`; and `WebClient` composed with `RealtimeDelivery`, so that
several sockets and events of other instances meet its window.
