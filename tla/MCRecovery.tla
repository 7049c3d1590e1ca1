------------------------------ MODULE MCRecovery ------------------------------
(* Small instances for TLC of how accounts and installations are recovered.   *)
(* The initial state chooses the part that acts: recoveries of accounts that     *)
(* meet sessions, or recovery methods and the operator's lock; backup and restore; *)
(* the schema that migrators and servers of several versions find.               *)
EXTENDS AccountRecovery, Sequences, TLC

CONSTANTS
  \* of BackupRestore and SchemaUpgrade, about which there are theorems
  Backups, Count, Days, Incomplete, MaxHour, MaxWrites,
  Migrations, Target, Migrators, Servers, Policies, Conditions

ASSUME BackupAssumption ==
  IsFiniteSet(Backups) /\ Count \in Nat /\ MaxHour \in Nat

Checksums == UNION {{Migrations[b][i] : i \in DOMAIN Migrations[b]} : b \in DOMAIN Migrations}
ASSUME SchemaAssumption ==
  /\ \A b \in DOMAIN Migrations : Migrations[b] \in Seq(Checksums)
  /\ Target \in DOMAIN Migrations
  /\ Migrators \in [DOMAIN Migrators -> DOMAIN Migrations]
  /\ {"free", "plan"} \intersect DOMAIN Migrators = {}

MCMigrations ==
  [old |-> <<"s1">>, new |-> <<"s1", "s2", "s3">>, fork |-> <<"s1", "f2">>]
MCMigrators == [ma |-> "new", mb |-> "fork"]
MCServers == [sa |-> "new"]
MCPolicies ==
  {[minimumSource |-> 0, targetSchema |-> 3, sources |-> {"v1"}, drained |-> TRUE,
    quiescent |-> TRUE, maintenance |-> TRUE, artifact |-> TRUE]}
MCConditions ==
  {[source |-> "v1", backup |-> b, sound |-> b, maintenance |-> b] : b \in BOOLEAN}

VARIABLES
  part,
  \* BackupRestore
  hour, connected, stores, existed, dirs, capture, prune, recovery, restored,
  \* SchemaUpgrade
  history, migrationLock, migrator, plan, server, gate

Archive == INSTANCE BackupRestore WITH
  MaxTime <- MaxHour, now <- hour, source <- stores, target <- restored
Schema == INSTANCE SchemaUpgrade WITH lock <- migrationLock

backupVars == <<hour, connected, stores, existed, dirs, capture, prune, recovery, restored>>
schemaVars == <<history, migrationLock, migrator, plan, server, gate>>

\* Sessions beside recoveries, one token pending at a time; or two tokens and methods.
Within ==
  \/ /\ part = "sessions"
     /\ lock = "unlocked" /\ \A m \in Methods : method[m] = "unused"
     /\ \E t \in Tokens : ~Pending(t)
  \/ /\ part = "methods" /\ account.version < MaxVersion
     /\ \A s \in SessionIds : sessions[s] = Unused
  \/ part \in {"backups", "schema"}

MCInit ==
  /\ part \in {"sessions", "methods", "backups", "schema"}
  /\ RecoveryInit /\ Archive!Init /\ Schema!Init
  /\ part = "schema" \/ history = <<>>

MCNext ==
  /\ UNCHANGED part
  /\ \/ part \in {"sessions", "methods"} /\ RecoveryNext /\ Within'
        /\ UNCHANGED <<backupVars, schemaVars>>
     \/ part = "backups" /\ Archive!Next /\ UNCHANGED <<allVars, schemaVars>>
     \/ part = "schema" /\ Schema!Next /\ UNCHANGED <<allVars, backupVars>>
MCSpec == MCInit /\ [][MCNext]_<<part, allVars, backupVars, schemaVars>>

Interchangeable ==
  Permutations(Requests) \union Permutations(Passwords)
    \union Permutations(Tokens) \union Permutations(Methods) \union Permutations(Backups)

--------------------------------------------------------------------------------
\* A directory with the name of a backup is whole until a prune begins to remove it, file
\* by file, and pruning keeps those that verify (scripts/backup/command.mjs).
BackupsKept == [](Archive!TypeOK /\ Archive!CompleteIsWhole) /\ Archive!VerifiedAreKept

\* Migrators and servers of several versions agree on one history of the schema, and
\* what a gate accepted is what was installed (migrations and upgrade gate of
\* postgres/index.ts).
SchemaKept ==
  part = "schema" => Schema!TypeOK /\ Schema!OneHistory /\ Schema!AcceptedIsInstalled

================================================================================
