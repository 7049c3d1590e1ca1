------------------------------ MODULE MCServices ------------------------------
(* Small instances for TLC of what the server does besides communities and       *)
(* accounts, and of how it is deployed.  The initial state chooses the part that *)
(* acts; the others stay as they begin.  Parts that could begin in several ways   *)
(* do so only when they act.                                                     *)
EXTENDS UpdateRecovery, Sequences, TLC

CONSTANTS
  s1, p1, p2, e1, e2, e3, n1, f1, m1, m2, d1, q1, q2, q3,
  \* of Presence, AuditTrail and DesktopCredentials, about which there are theorems
  Owners, Viewers, Interval, Ttl, MaxSecond, MaxBeats, MaxAsks, MaxStatus,
  Transactions, Attempts, TrailPage, MaxTransactions, MaxLosses,
  MaxAccounts, Accounts, Operations, Payloads

ASSUME PresenceAssumption ==
  Interval \in Nat /\ Ttl \in Nat /\ MaxSecond \in Nat \ {0} /\ MaxStatus \in Nat
ASSUME TrailAssumption ==
  TrailPage \in Nat \ {0} /\ MaxLosses \in Nat /\ "nobody" \notin Transactions
ASSUME VaultAssumption == MaxAccounts \in Nat

VARIABLES
  part,
  \* Notifications
  visible, posts, replays, inbox, claimed, creating, marks,
  \* DesktopNotifications
  notes, preference, saved, poll, shown, permitted, shows, minute, behind,
  \* RealtimeDelivery
  wire, sessions, viewers, subs, joining, sequences, forgotten, seen, fanout, buffered, got, told,
  informed,
  \* Presence
  second, up, rate, key, beats, status, hidden, follows, asks,
  \* SafetyReports
  reporting, reportCalls, used, reports, answers,
  \* DesktopCredentials
  vault, selection, expired, command,
  \* WebPush
  endpoint, page, created, pushed, delivery,
  \* ReleaseVersion
  tree, committed, release, interruptions,
  \* ArtifactBundle
  payload, control, runs, stops, contents,
  \* NotificationReads
  reading, position, muting, readCalls, answered, mutingShown, broadcast,
  \* AuditTrail
  chain, checkpoints, mutated, auditCalls, begun, trailLock, check, walk, losses, damaged,
  \* ModerationCases
  clock, active, cases, activity, queue,
  \* CommunityStructure
  community, limits, category, space, edited, pages

\* Packages that reach the installer: upgrades, other builds of a version, other
\* channels, and a downgrade, of which some paths are supported.
Install(version, channel, schema, artifact) ==
  [version |-> version, channel |-> channel, schema |-> schema, artifact |-> artifact]
From(version, channel, schema) == [version |-> version, channel |-> channel, schema |-> schema]
Package(id, source, target) ==
  [id |-> id, source |-> source, target |-> target, signed |-> TRUE, intact |-> TRUE]
MCBaseline == Install(1, "stable", 1, "a0")
MCOffers ==
  {Package("u1", From(1, "stable", 1), Install(2, "stable", 2, "a1")),
   Package("u1", From(1, "stable", 1), Install(1, "stable", 1, "a2")),
   Package("u2", From(2, "stable", 2), Install(3, "beta", 2, "a3")),
   Package("u2", From(1, "stable", 1), Install(1, "beta", 1, "a4")),
   Package("u3", From(2, "stable", 2), Install(1, "stable", 1, "a5")),
   Package("u3", From(1, "stable", 1), Install(3, "stable", 1, "a6")),
   Package("u3", From(3, "beta", 2), Install(3, "nightly", 1, "a6"))}
MCPaths == {<<1, 1>>, <<1, 2>>, <<2, 3>>, <<3, 3>>}
MCSources == [stable |-> {"stable"}, beta |-> {"stable", "beta"}, nightly |-> {"nightly"}]

Inbox == INSTANCE Notifications WITH
  Accounts <- {q1}, Messages <- {m1, m2}, Retries <- 1, Devices <- {d1}, MaxVersion <- 3
Desktop == INSTANCE DesktopNotifications WITH
  Ids <- {1, 2}, Batch <- 2, RateLimit <- 1, Window <- 1, SeenLimit <- 1, MaxTime <- 2,
  MaxBehind <- 1, MaxVersion <- 1, gate <- shown, now <- minute
Delivery == INSTANCE RealtimeDelivery WITH
  Sockets <- {s1}, AccountOf <- [s \in {s1} |-> q1], Spaces <- {p1, p2},
  Events <- {e1, e2, e3}, SpaceOf <- [e \in {e1, e2, e3} |-> IF e = e3 THEN p2 ELSE p1],
  Notices <- {n1}, OwnerOf <- [n \in {n1} |-> q1], Fanouts <- {f1},
  MaxSubscriptions <- 2, MaxSequences <- 1, MaxRemembered <- 1, MaxBuffered <- 1, MaxIds <- 3
Presence == INSTANCE Presence WITH
  MaxTime <- MaxSecond, MaxVersion <- MaxStatus, now <- second
Safety == INSTANCE SafetyReports WITH
  Reporters <- {q1}, Keys <- {e1, e2}, Prints <- {m1, m2}, Calls <- {q1, q2, q3}, Reports <- {1, 2, 3},
  PerHour <- 3, active <- reporting, calls <- reportCalls
Vault == INSTANCE DesktopCredentials WITH
  slots <- vault, active <- selection
Push == INSTANCE WebPush WITH
  Browsers <- {q1, q2}, Limit <- 1, MaxEndpoints <- 3, control <- page, active <- pushed
Word(rank) == [number |-> FALSE, rank |-> rank]
Number(rank) == [number |-> TRUE, rank |-> rank]
Semantic(patch, prerelease) == [numbers |-> <<0, 2, patch>>, prerelease |-> prerelease]
\* 0.2.0-rc.2, 0.2.0-rc.10, 0.2.0, 0.2.1-rc
Version == INSTANCE ReleaseVersion WITH
  Fragments <- {m1, m2}, Versioned <- <<"manifest", "lock", "policy">>,
  Releases <- <<Semantic(0, <<Word(1), Number(2)>>), Semantic(0, <<Word(1), Number(10)>>),
                Semantic(0, <<>>), Semantic(1, <<Word(1)>>)>>,
  MaxStops <- 1, stops <- interruptions, plan <- release
Bundle == INSTANCE ArtifactBundle WITH
  Payload <- {e1, e2}, Runs <- {q1, q2}, Commits <- {"commit"}, KeyIds <- {"key"},
  MaxBuilds <- 2, MaxStops <- 1, seen <- contents
Reads == INSTANCE NotificationReads WITH
  Devices <- {q1, q2}, Modes <- {"all"}, MaxSequence <- 2, MaxVersion <- 3,
  member <- reading, preference <- muting, calls <- readCalls, shown <- mutingShown
Trail == INSTANCE AuditTrail WITH
  Calls <- Transactions, PageSize <- TrailPage, MaxCalls <- MaxTransactions,
  MaxFaults <- MaxLosses,
  calls <- auditCalls, lock <- trailLock, faults <- losses
Cases == INSTANCE ModerationCases WITH
  Servers <- {s1, d1}, Moderators <- {q1}, Keys <- {e1, e2},
  Reports <- {1, 2}, PageSize <- 1, MaxTime <- 3, MaxVersion <- 3, walk <- queue
Structure == INSTANCE CommunityStructure WITH
  Editors <- {q1, q2}, Categories <- {1}, Spaces <- {1, 2}, CountLimit <- 1, PageSize <- 1,
  MaxPosition <- 1, MaxWrites <- 4, seen <- edited, walk <- pages

inboxVars == <<visible, posts, replays, inbox, claimed, creating, marks>>
desktopVars == <<notes, preference, saved, poll, shown, permitted, shows, minute, behind>>
deliveryVars ==
  <<wire, sessions, viewers, subs, joining, sequences, forgotten, seen, fanout, buffered, got,
    told, informed>>
presenceVars == <<second, up, rate, key, beats, status, hidden, follows, asks>>
reportVars == <<reporting, reportCalls, used, reports, answers>>
credentialVars == <<vault, selection, expired, command>>
pushVars == <<endpoint, page, created, pushed, delivery>>
releaseVars == <<tree, committed, release, interruptions>>
bundleVars == <<payload, control, runs, stops, contents>>
readVars == <<reading, position, muting, readCalls, answered, mutingShown, broadcast>>
trailVars ==
  <<chain, checkpoints, mutated, auditCalls, begun, trailLock, check, walk, losses, damaged>>
caseVars == <<clock, active, cases, activity, queue>>
structureVars == <<community, limits, category, space, edited, pages>>

Parts ==
  {"updates", "inbox", "desktop", "delivery", "numbers", "notices", "presence", "reports",
   "credentials", "push", "version", "bundle", "reads", "audit", "cases", "queue", "structure"}

MCInit ==
  /\ part \in Parts
  /\ UpdateInit /\ Inbox!Init /\ Desktop!Init /\ Delivery!Init /\ Presence!Init
  /\ Safety!Init /\ Vault!Init /\ Push!Init
  /\ Version!Init /\ Bundle!Init /\ Reads!Init /\ Trail!Init
  /\ Cases!Init /\ Structure!Init
  /\ part = "bundle" \/ \A f \in DOMAIN payload : payload[f] = 1
  /\ part = "desktop" \/ (permitted /\ \A s \in DOMAIN preference : preference[s] = "unset")

\* A part's step; the rest is unchanged.
Only(name) ==
  /\ part = name /\ UNCHANGED part
  /\ IF name = "updates" THEN TRUE ELSE UNCHANGED updateVars
  /\ IF name = "inbox" THEN TRUE ELSE UNCHANGED inboxVars
  /\ IF name = "desktop" THEN TRUE ELSE UNCHANGED desktopVars
  /\ IF name \in {"delivery", "numbers", "notices"} THEN TRUE ELSE UNCHANGED deliveryVars
  /\ IF name = "presence" THEN TRUE ELSE UNCHANGED presenceVars
  /\ IF name = "reports" THEN TRUE ELSE UNCHANGED reportVars
  /\ IF name = "credentials" THEN TRUE ELSE UNCHANGED credentialVars
  /\ IF name = "push" THEN TRUE ELSE UNCHANGED pushVars
  /\ IF name = "version" THEN TRUE ELSE UNCHANGED releaseVars
  /\ IF name = "bundle" THEN TRUE ELSE UNCHANGED bundleVars
  /\ IF name = "reads" THEN TRUE ELSE UNCHANGED readVars
  /\ IF name = "audit" THEN TRUE ELSE UNCHANGED trailVars
  /\ IF name \in {"cases", "queue"} THEN TRUE ELSE UNCHANGED caseVars
  /\ IF name = "structure" THEN TRUE ELSE UNCHANGED structureVars

\* A directive is an event like the others: that the first call is one is enough.
DirectiveFirst ==
  \A c \in Transactions :
    auditCalls'[c].step = "append" /\ auditCalls'[c].kind = "directive" => auditCalls'[c].id = 1
\* Events and notices beside fan-outs and revocations; numbers of two spaces without them.
Sent(ids) == \A k \in DOMAIN seen' : seen'[k] \in ids
\* All that is done to one case; and pages of two cases, with updates that note nothing.
OneCase == cases'[2] = Cases!NoCase /\ UNCHANGED queue
TwoCases ==
  (\A i \in DOMAIN cases : Len(activity'[i]) <= 1) /\ (\A s \in DOMAIN clock : clock'[s] <= 2)
MCNext ==
  \/ Only("updates") /\ UpdateNext
  \/ Only("inbox") /\ Inbox!Next
  \/ Only("desktop") /\ Desktop!Next
  \/ Only("delivery") /\ Delivery!Next /\ Sent({e1, e3}) /\ Cardinality(subs'[s1]) <= 1
  \/ Only("numbers") /\ Delivery!Next /\ Sent({e1, e2, e3}) /\ UNCHANGED <<fanout, sessions, viewers>>
  \/ Only("notices") /\ Delivery!Next /\ Sent({e1, n1})
  \/ Only("presence") /\ Presence!Next
  \/ Only("reports") /\ Safety!Next
  \/ Only("credentials") /\ Vault!Next
  \/ Only("push") /\ Push!Next
  \/ Only("version") /\ Version!Next
  \/ Only("bundle") /\ Bundle!Next
  \/ Only("reads") /\ Reads!Next
  \/ Only("audit") /\ Trail!Next /\ DirectiveFirst
  \/ Only("cases") /\ Cases!Next /\ OneCase
  \/ Only("queue") /\ Cases!Next /\ TwoCases
  \/ Only("structure") /\ Structure!Next

MCVars ==
  <<part, updateVars, inboxVars, desktopVars, deliveryVars, presenceVars, reportVars,
    credentialVars, pushVars, releaseVars, bundleVars, readVars, trailVars, caseVars, structureVars>>
MCSpec == MCInit /\ [][MCNext]_MCVars

--------------------------------------------------------------------------------
(* Properties, one for each module *)

\* An account counts every notification once, whatever retries, archives and devices
\* do (notifications.ts); the client shows it once, and not more often than its rate
\* allows (desktop-notifications.ts); no more registrations are active than a delivery
\* reaches (web-push.ts); what a device was told is read stays so, and a
\* preference is only replaced by a device that was told of it (notifications.ts).
NotificationsKept ==
  /\ [](part = "inbox" => Inbox!TypeOK /\ Inbox!CountedOnce)
  /\ [](part = "desktop" => Desktop!TypeOK /\ Desktop!ShownOnce /\ Desktop!ShowsAreBounded)
  /\ [](part = "push" => Push!AtMostLimit)
  /\ [](part = "reads" => Reads!AnsweredIsRead)
  /\ [][part = "reads" => Reads!NeverReadBack /\ Reads!ReplacesWhatWasSeen]_readVars

\* A socket gets an event once while its id is remembered, under numbers that go on, and
\* nothing that it was refused since it subscribed (websocket.ts).
DeliveryKept ==
  /\ [](part \in {"delivery", "numbers", "notices"} =>
          Delivery!TypeOK /\ Delivery!SentOnce /\ Delivery!NumbersGoOn)
  /\ Delivery!RefusedGetNothing

\* A status is one the owner announced in time, and announcements keep their distance
\* (presence.ts).
PresenceKept ==
  part = "presence" => Presence!TypeOK /\ Presence!NeverFabricated /\ Presence!BeatsAreSpaced

\* A report that is retried is stored once, and calls of the hour are counted; the
\* activity of a case is in the order of its commits, and a walk through the pages of the
\* queue misses no case that was there before it; the same holds for the pages of the
\* spaces, and an editor replaces the row it saw (packages/domain/src/index.ts).
GovernanceKept ==
  /\ [](part = "reports" => Safety!TypeOK /\ Safety!ReportedOnce)
  /\ [](part \in {"cases", "queue"} =>
          Cases!TypeOK /\ Cases!ActivityInOrder /\ Cases!WalkIsComplete)
  /\ [](part = "structure" => Structure!TypeOK /\ Structure!WalkIsComplete)
  /\ [][part = "structure" => Structure!RowsAreSeen]_structureVars

\* The audit events of a community are one chain with an event for every change, however
\* transactions overlap; its export misses nothing, and its verification neither cries
\* wolf nor passes a chain that is not the one of the checkpoint (auditEventRepository()).
AuditKept ==
  part = "audit" =>
    /\ Trail!TypeOK /\ Trail!OneChain /\ Trail!RecordedOnce
    /\ Trail!WalkIsComplete /\ Trail!VerdictIsSound

\* The vault never makes itself unreadable, and the account selected is one that was
\* asked for (credentials.rs).
CredentialsKept ==
  /\ [](part = "credentials" => Vault!TypeOK /\ Vault!NeverCorruptsItself)
  /\ Vault!SelectionIsAsked

\* A bundle is of one assembly and its signature of contents the payload once had
\* (artifact-bundle.ts); no note of a change is lost and the version only moves on
\* (versioning.ts).
ReleasesKept ==
  /\ [](part = "bundle" => Bundle!OneAssembly /\ Bundle!SignedIsASnapshot)
  /\ [][part = "version" => Version!NoteIsKept /\ Version!MovesOn]_releaseVars

================================================================================
