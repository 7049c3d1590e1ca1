---------------------------- MODULE SchemaUpgrade ----------------------------
(***************************************************************************)
(* The upgrade of a deployment: the migrator and the read-only plan of     *)
(* packages/postgres/src/index.ts, which share an advisory lock of         *)
(* PostgreSQL, the servers, which only compare the schema they find with   *)
(* their own, and the preflight and postflight decisions of                *)
(* tools/release/upgrade.ts over evidence that was recorded earlier.       *)
(* A migration is known by its checksum and its version by its place.      *)
(***************************************************************************)
EXTENDS Naturals, Sequences, SequencesExt

CONSTANTS
  Migrations,   \* of each build, the checksums of its migrations in order
  Target,       \* the build that is deployed
  Migrators,    \* processes that run migrate, with their builds
  Servers,      \* server processes, with their builds
  Policies,     \* upgrade policies that may be found in the repository
  Conditions    \* what the operator records besides the state of the deployment

Builds == DOMAIN Migrations

VARIABLES
  history,   \* committed rows of nexa_schema_migrations
  lock,      \* who holds MIGRATION_LOCK_ID
  migrator,  \* transactions of migratePostgres()
  plan,      \* transaction of planPostgresUpgrade()
  server,    \* verifyPostgresSchema() of each server and its last answer
  gate       \* the policy, the evidence and the decisions

vars == <<history, lock, migrator, plan, server, gate>>

NoPlan == [pc |-> "idle", snapshot |-> <<>>, from |-> 0]
Init ==
  /\ \E b \in Builds : \E n \in 0 .. Len(Migrations[b]) :
       history = SubSeq(Migrations[b], 1, n)
  /\ lock = "free"
  /\ migrator = [m \in DOMAIN Migrators |-> [pc |-> "idle", rows |-> <<>>]]
  /\ plan = NoPlan
  /\ server = [s \in DOMAIN Servers |-> [up |-> FALSE, pc |-> "idle", ready |-> FALSE]]
  /\ gate = [policy |-> {}, before |-> {}, preflight |-> "none",
             after |-> {}, postflight |-> "none"]

--------------------------------------------------------------------------------
(* buildPostgresUpgradePlan() and migratePostgres() *)

\* (mutant) only the number of the applied migrations is compared
FewerThan(rows, b) == Len(rows) <= Len(Migrations[b])
\* The applied history is what this build would have applied, in its order.
Compatible(rows, b) == IsPrefix(rows, Migrations[b])

BeginMigration(m) ==
  /\ migrator[m].pc \in {"idle", "ended"}
  /\ migrator' = [migrator EXCEPT ![m].pc = "waiting"]
  /\ UNCHANGED <<history, lock, plan, server, gate>>

LockMigration(m) ==
  /\ migrator[m].pc = "waiting" /\ lock = "free"
  /\ lock' = m
  /\ migrator' = [migrator EXCEPT ![m].pc = "locked"]
  /\ UNCHANGED <<history, plan, server, gate>>

\* The applied rows are read after the lock is held; an incompatible history ends it.
ReadApplied(m) ==
  /\ migrator[m].pc = "locked"
  /\ IF Compatible(history, Migrators[m])
     THEN /\ migrator' = [migrator EXCEPT ![m] = [pc |-> "applying", rows |-> history]]
          /\ UNCHANGED lock
     ELSE /\ migrator' = [migrator EXCEPT ![m].pc = "ended"]
          /\ lock' = "free"
  /\ UNCHANGED <<history, plan, server, gate>>

\* The next migration and its row; nothing of it is visible to others.
ApplyMigration(m) ==
  LET rows == migrator[m].rows
      all == Migrations[Migrators[m]]
  IN /\ migrator[m].pc = "applying" /\ Len(rows) < Len(all)
     /\ migrator' = [migrator EXCEPT ![m].rows = Append(rows, all[Len(rows) + 1])]
     /\ UNCHANGED <<history, lock, plan, server, gate>>

CommitMigration(m) ==
  /\ migrator[m].pc = "applying"
  /\ Len(migrator[m].rows) = Len(Migrations[Migrators[m]])
  /\ history' = migrator[m].rows
  /\ lock' = "free"
  /\ migrator' = [migrator EXCEPT ![m].pc = "ended"]
  /\ UNCHANGED <<plan, server, gate>>

\* A statement fails, or the migrator's host stops: PostgreSQL rolls back, at the
\* latest when it notices that the connection is gone.
AbortMigration(m) ==
  /\ migrator[m].pc \in {"waiting", "locked", "applying"}
  /\ migrator' = [migrator EXCEPT ![m].pc = "ended"]
  /\ lock' = IF lock = m THEN "free" ELSE lock
  /\ UNCHANGED <<history, plan, server, gate>>

--------------------------------------------------------------------------------
(* planPostgresUpgrade() *)

\* Under REPEATABLE READ the statement that waits for the lock has already taken
\* the snapshot that the rows are read from.
BeginPlan ==
  /\ plan.pc \in {"idle", "ended"}
  /\ plan' = [pc |-> "waiting", snapshot |-> history, from |-> 0]
  /\ UNCHANGED <<history, lock, migrator, server, gate>>
LockPlan ==
  /\ plan.pc = "waiting" /\ lock = "free"
  /\ lock' = "plan"
  /\ plan' = [plan EXCEPT !.pc = "locked"]
  /\ UNCHANGED <<history, migrator, server, gate>>
EndPlan ==
  /\ plan.pc = "locked"
  /\ plan' = IF Compatible(plan.snapshot, Target)
             THEN [pc |-> "ended", snapshot |-> <<>>, from |-> Len(plan.snapshot)]
             ELSE NoPlan
  /\ lock' = "free"
  /\ UNCHANGED <<history, migrator, server, gate>>

--------------------------------------------------------------------------------
(* verifyPostgresSchema() at the start of a server and for /health/ready *)

CountVersion(s) ==
  LET same == Len(history) = Len(Migrations[Servers[s]]) IN
  /\ server[s].pc = "idle"
  /\ server' = [server EXCEPT ![s].pc = IF same THEN "counted" ELSE @,
                              ![s].ready = @ /\ same]
  /\ UNCHANGED <<history, lock, migrator, plan, gate>>
CompareHistory(s) ==
  LET same == history = Migrations[Servers[s]] IN
  /\ server[s].pc = "counted"
  /\ server' = [server EXCEPT ![s] = [up |-> @.up \/ same, pc |-> "idle", ready |-> same]]
  /\ UNCHANGED <<history, lock, migrator, plan, gate>>
StopServer(s) ==
  /\ server[s].up
  /\ server' = [server EXCEPT ![s] = [up |-> FALSE, pc |-> "idle", ready |-> FALSE]]
  /\ UNCHANGED <<history, lock, migrator, plan, gate>>

--------------------------------------------------------------------------------
(* tools/release/upgrade.ts *)

TargetSchema == Len(Migrations[Target])

\* parsePolicy() refuses a policy that leaves out a control.
Controlled(p) == p.drained /\ p.quiescent /\ p.maintenance /\ p.artifact
ValidPolicy(p) ==
  p.minimumSource \in 0 .. p.targetSchema /\ p.sources # {} /\ Controlled(p)

\* loadUpgradePolicy(): the policy is that of this build.
LoadPolicy(p) ==
  /\ gate.policy = {}
  /\ ValidPolicy(p)
  /\ p.targetSchema = TargetSchema
  /\ gate' = [gate EXCEPT !.policy = {p}]
  /\ UNCHANGED <<history, lock, migrator, plan, server>>

OldServers == {s \in DOMAIN Servers : server[s].up /\ Servers[s] # Target}

\* What the operator finds: the schema of the plan, the servers that are up, and the
\* backup, space, dependencies and identities of the candidate.
RecordPreflight(c) ==
  /\ plan.pc = "ended"
  /\ gate.policy # {} /\ gate.before = {}
  /\ gate' = [gate EXCEPT !.before =
       {[schema |-> plan.from, drained |-> OldServers = {}, condition |-> c]}]
  /\ UNCHANGED <<history, lock, migrator, plan, server>>

\* A clean install starts from nothing, an upgrade from a supported version with a
\* verified backup that is fresh.
SourceFailures(p, e) ==
  IF e.condition.source = "none"
  THEN {f \in {"database_not_empty"} : e.schema # 0}
  ELSE {f \in {"source_version_unsupported"} : e.condition.source \notin p.sources}
       \union {f \in {"backup_stale"} : ~e.condition.backup}
PreflightFailures(p, e) ==
  {f \in {"database_schema_ahead"} : e.schema > p.targetSchema}
  \union {f \in {"database_schema_too_old"} : e.schema < p.minimumSource}
  \union {f \in {"candidate_unfit"} : ~e.condition.sound}
  \union {f \in {"old_instances_not_drained"} : p.drained /\ ~e.drained}
  \union {f \in {"maintenance_required"} :
            e.schema # p.targetSchema /\ p.maintenance /\ ~e.condition.maintenance}
  \union SourceFailures(p, e)

Verdict(failures) == IF failures = {} THEN "accepted" ELSE "rejected"
EvaluatePreflight ==
  /\ gate.preflight = "none"
  /\ \E p \in gate.policy, e \in gate.before :
       gate' = [gate EXCEPT !.preflight = Verdict(PreflightFailures(p, e))]
  /\ UNCHANGED <<history, lock, migrator, plan, server>>

\* The deployment is looked at again; probes stands for those that passed, names for
\* the record of the preflight plan.
RecordPostflight(probes, names) ==
  /\ gate.preflight # "none" /\ gate.after = {}
  /\ gate' = [gate EXCEPT !.after =
       {[schema |-> Len(history), verified |-> history = Migrations[Target],
         ready |-> \E s \in DOMAIN Servers : Servers[s] = Target /\ server[s].ready,
         probes |-> probes, names |-> names]}]
  /\ UNCHANGED <<history, lock, migrator, plan, server>>

PostflightFailures(p, e) ==
  {f \in {"preflight_plan_mismatch"} : ~e.names}
  \union {f \in {"database_schema_mismatch"} : e.schema # p.targetSchema}
  \union {f \in {"migration_history_unverified"} : ~e.verified}
  \union {f \in {"readiness_failed"} : ~e.ready}
  \union {f \in {"probe_failed"} : ~e.probes}

\* The accepted preflight is computed again from its evidence first.
EvaluatePostflight ==
  /\ gate.postflight = "none"
  /\ \E p \in gate.policy, b \in gate.before, e \in gate.after :
       /\ PreflightFailures(p, b) = {}
       /\ gate' = [gate EXCEPT !.postflight = Verdict(PostflightFailures(p, e))]
  /\ UNCHANGED <<history, lock, migrator, plan, server>>

Migrating(m) ==
  \/ LockMigration(m) \/ ReadApplied(m) \/ ApplyMigration(m) \/ CommitMigration(m)
Verifying(s) == CountVersion(s) \/ CompareHistory(s)
Gating ==
  \/ \E p \in Policies : LoadPolicy(p)
  \/ \E c \in Conditions : RecordPreflight(c)
  \/ \E probes, names \in BOOLEAN : RecordPostflight(probes, names)
  \/ EvaluatePreflight \/ EvaluatePostflight
Next ==
  \/ \E m \in DOMAIN Migrators : BeginMigration(m) \/ Migrating(m) \/ AbortMigration(m)
  \/ BeginPlan \/ LockPlan \/ EndPlan
  \/ \E s \in DOMAIN Servers : Verifying(s) \/ StopServer(s)
  \/ Gating

Spec == Init /\ [][Next]_vars

--------------------------------------------------------------------------------
(* Properties *)

TypeOK ==
  /\ history \in Seq(UNION {Range(Migrations[b]) : b \in Builds})
  /\ lock \in {"free", "plan"} \union DOMAIN Migrators
  /\ \A m \in DOMAIN Migrators :
       migrator[m].pc \in {"idle", "waiting", "locked", "applying", "ended"}
  /\ plan.pc \in {"idle", "waiting", "locked", "ended"}
  /\ server \in [DOMAIN Servers ->
                  [up : BOOLEAN, pc : {"idle", "counted"}, ready : BOOLEAN]]
  /\ {gate.preflight, gate.postflight} \subseteq {"none", "accepted", "rejected"}

\* Whatever migrators of which builds run at the same time, fail or lose their
\* connection, the database holds the history of one build, without a gap, and a
\* postflight that was accepted holds from then on: nothing moves the schema away.
OneHistory == \E b \in Builds : IsPrefix(history, Migrations[b])
AcceptedIsInstalled == gate.postflight = "accepted" => IsPrefix(Migrations[Target], history)

\* The plan is of the schema at its time: the lock it holds keeps migrators out
\* (docs/releases/upgrades.md:29 and 126).
PlanIsCurrent == plan.pc = "locked" => plan.snapshot = history
================================================================================
