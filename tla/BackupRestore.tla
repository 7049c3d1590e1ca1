------------------------------ MODULE BackupRestore -----------------------------
(***************************************************************************)
(* Backup, prune and restore (scripts/backup/command.mjs with its archive  *)
(* of objects and its encryption).  The three commands are processes of    *)
(* their own over one directory of backups: they crash, the application    *)
(* may run where it should be stopped, media decay, and time passes.       *)
(* Content is a number: what a write changes.                              *)
(***************************************************************************)
EXTENDS Naturals, FiniteSets

CONSTANTS
  Backups,    \* identifiers of directories
  Count,      \* NEXA_BACKUP_RETENTION_COUNT
  Days,       \* NEXA_BACKUP_RETENTION_DAYS
  Incomplete, \* NEXA_BACKUP_INCOMPLETE_HOURS
  MaxTime,    \* (bound) the clock
  MaxWrites   \* (bound) writes of the application

VARIABLES
  now,
  connected,  \* is a client of the application connected to the database?
  source,     \* the database, the number of its rows, the bucket
  existed,    \* pairs of database and bucket that existed together (a history)
  dirs,       \* the directory of each backup
  capture,    \* the backup command
  prune,      \* the prune command
  recovery,   \* the restore command
  target      \* the stores it restores into

vars == <<now, connected, source, existed, dirs, capture, prune, recovery, target>>

Idle == [step |-> "idle"]
\* The name of a directory is that of a "partial" or of a "complete" one; (history) begun
\* says that a prune has begun to remove it.
Nothing == [state |-> "none", files |-> {}, database |-> 0, bucket |-> 0, at |-> 0, sound |-> TRUE,
            begun |-> FALSE]
Components == {"postgres.dump.enc", "objects.archive.enc"}
Whole == Components \union {"manifest"}     \* manifest.json and its manifest.hmac
Files == Whole \union {"INCOMPLETE"}
Empty == 1000     \* a store without content
Partial == 1001   \* a store that was written in part

Init ==
  /\ now = 0 /\ connected = TRUE
  /\ source = [database |-> 0, rows |-> 0, bucket |-> 0]
  /\ existed = {<<0, 0>>}
  /\ dirs = [b \in Backups |-> Nothing]
  /\ capture = Idle /\ prune = Idle /\ recovery = Idle
  /\ target = [database |-> Empty, bucket |-> Empty, restored |-> FALSE]

--------------------------------------------------------------------------------
(* backup() *)

\* A file is created in the directory: its modification time with it.
Created(b, files) == [dirs[b] EXCEPT !.files = @ \union files, !.at = now]
Fails == capture' = Idle

StartBackup(b) ==
  /\ capture = Idle /\ dirs[b] = Nothing
  /\ dirs' = [dirs EXCEPT ![b] = [Nothing EXCEPT !.state = "partial", !.files = {"INCOMPLETE"}, !.at = now]]
  /\ capture' = [step |-> "before", backup |-> b, rows |-> 0]
  /\ UNCHANGED <<now, connected, source, existed, prune, recovery, target>>

\* databaseState(): migrations, rows per table, clients connected now.
Before ==
  /\ capture.step = "before"
  /\ IF connected THEN Fails ELSE capture' = [capture EXCEPT !.step = "dump", !.rows = source.rows]
  /\ UNCHANGED <<now, connected, source, existed, dirs, prune, recovery, target>>

\* Nothing can be created in a directory that a prune has removed.
Present == dirs[capture.backup].state = "partial"

Dump ==
  /\ capture.step = "dump"
  /\ \/ /\ Present
        /\ dirs' = [dirs EXCEPT ![capture.backup] =
                      [Created(capture.backup, {"postgres.dump.enc"}) EXCEPT !.database = source.database]]
        /\ capture' = [capture EXCEPT !.step = "export"]
     \/ Fails /\ UNCHANGED dirs
  /\ UNCHANGED <<now, connected, source, existed, prune, recovery, target>>

Export ==
  /\ capture.step = "export"
  /\ \/ /\ Present
        /\ dirs' = [dirs EXCEPT ![capture.backup] =
                      [Created(capture.backup, {"objects.archive.enc"}) EXCEPT !.bucket = source.bucket]]
        /\ capture' = [capture EXCEPT !.step = "after"]
     \/ Fails /\ UNCHANGED dirs
  /\ UNCHANGED <<now, connected, source, existed, prune, recovery, target>>

\* The second look at the database compares rows per table, not their content.
After ==
  /\ capture.step = "after"
  /\ IF connected \/ source.rows # capture.rows
     THEN Fails ELSE capture' = [capture EXCEPT !.step = "manifest"]
  /\ UNCHANGED <<now, connected, source, existed, dirs, prune, recovery, target>>

\* Both components are hashed, and what a prune has removed of them is missed; later nobody
\* looks at them again.
Manifest ==
  /\ capture.step = "manifest"
  /\ IF Present /\ Components \subseteq dirs[capture.backup].files
     THEN /\ dirs' = [dirs EXCEPT ![capture.backup] = Created(capture.backup, {"manifest"})]
          /\ capture' = [capture EXCEPT !.step = "rename"]
     ELSE Fails /\ UNCHANGED dirs
  /\ UNCHANGED <<now, connected, source, existed, prune, recovery, target>>

ReadyToo == capture # Idle /\ capture.step \in {"manifest", "rename"}
Ready == capture # Idle /\ capture.step = "rename"

\* The mark is removed, then the directory is renamed.
Complete ==
  /\ Ready
  /\ Fails
  /\ dirs' = IF Present /\ "INCOMPLETE" \in dirs[capture.backup].files
             THEN [dirs EXCEPT ![capture.backup].state = "complete", ![capture.backup].at = now,
                               ![capture.backup].files = @ \ {"INCOMPLETE"}]
             ELSE dirs
  /\ UNCHANGED <<now, connected, source, existed, prune, recovery, target>>

Crash ==
  /\ \/ capture # Idle /\ capture' = Idle /\ UNCHANGED <<prune, recovery, target>>
     \/ prune # Idle /\ prune' = Idle /\ UNCHANGED <<capture, recovery, target>>
     \/ recovery # Idle /\ recovery' = Idle /\ UNCHANGED <<capture, prune>>
        /\ target' = [target EXCEPT !.bucket = IF recovery.step = "objects" THEN Partial ELSE @,
                                    !.database = IF recovery.step = "database" THEN Partial ELSE @]
  /\ UNCHANGED <<now, connected, source, existed, dirs>>

--------------------------------------------------------------------------------
(* loadAndVerify(): name, manifest and its MAC, components, both archives *)

Verified(b) == dirs[b].state = "complete" /\ Whole \subseteq dirs[b].files /\ dirs[b].sound

--------------------------------------------------------------------------------
(* prune() *)

Completed == {b \in Backups : dirs[b].state = "complete"}
Stale(b) == prune.at - dirs[b].at > Incomplete

\* rm() of a directory: it has a name, and the files that are found in it are to go.
Rm(b) ==
  [step |-> "rm", backup |-> b, state |-> dirs[b].state, left |-> dirs[b].files, at |-> dirs[b].at]

StartPrune ==
  /\ prune = Idle
  /\ prune' = [step |-> "list", at |-> now, partials |-> {b \in Backups : dirs[b].state = "partial"},
               listed |-> Completed, verified |-> {}, removal |-> Idle]
  /\ UNCHANGED <<now, connected, source, existed, dirs, capture, recovery, target>>

\* stat() of a partial directory fails when it has been renamed meanwhile.
LookAt(b) ==
  /\ prune.step = "list" /\ prune.removal = Idle /\ b \in prune.partials
  /\ IF dirs[b].state # "partial" THEN prune' = Idle /\ UNCHANGED dirs
     ELSE IF Stale(b)
     THEN /\ prune' = [prune EXCEPT !.partials = @ \ {b}, !.removal = Rm(b)]
          /\ dirs' = [dirs EXCEPT ![b].begun = TRUE]
     ELSE prune' = [prune EXCEPT !.partials = @ \ {b}] /\ UNCHANGED dirs
  /\ UNCHANGED <<now, connected, source, existed, capture, recovery, target>>

\* Every backup of the list is verified before one is removed; the first that
\* fails ends the command.
VerifyNext ==
  /\ prune.step = "list" /\ prune.partials = {} /\ prune.removal = Idle
  /\ \E b \in prune.listed \ prune.verified :
       prune' = IF Verified(b) THEN [prune EXCEPT !.verified = @ \union {b}] ELSE Idle
  /\ UNCHANGED <<now, connected, source, existed, dirs, capture, recovery, target>>

VerifiesAll == prune.verified = prune.listed

StartRemoving ==
  /\ prune.step = "list" /\ prune.partials = {} /\ prune.removal = Idle /\ VerifiesAll
  /\ prune' = [prune EXCEPT !.step = "remove"]
  /\ UNCHANGED <<now, connected, source, existed, dirs, capture, recovery, target>>

Newer(b) == {k \in prune.listed \ {b} : dirs[k].at >= dirs[b].at}
Surplus(b) == Cardinality(Newer(b)) >= Count
Expired(b) == prune.at - dirs[b].at > Days
Removable(b) == Surplus(b) /\ Expired(b)

\* The newest first.
Remove(b) ==
  /\ prune.step = "remove" /\ prune.removal = Idle
  /\ b \in prune.listed /\ Removable(b)
  /\ \A k \in prune.listed : Removable(k) => dirs[k].at <= dirs[b].at
  /\ prune' = [prune EXCEPT !.listed = @ \ {b}, !.removal = Rm(b)]
  /\ dirs' = [dirs EXCEPT ![b].begun = TRUE]
  /\ UNCHANGED <<now, connected, source, existed, capture, recovery, target>>

\* rm() goes file by file, and what is gone already, or has another name, is no error.
Removed == prune.removal.backup
StillThere == dirs[Removed].state = prune.removal.state
Unlink(f) ==
  /\ prune # Idle /\ prune.removal # Idle /\ f \in prune.removal.left
  /\ prune' = [prune EXCEPT !.removal.left = @ \ {f}]
  /\ dirs' = IF StillThere THEN [dirs EXCEPT ![Removed].files = @ \ {f}, ![Removed].at = now]
             ELSE dirs
  /\ UNCHANGED <<now, connected, source, existed, capture, recovery, target>>

\* A directory in which a file has been created meanwhile cannot be removed: prune ends.
RemoveDirectory ==
  /\ prune # Idle /\ prune.removal # Idle /\ prune.removal.left = {}
  /\ IF StillThere /\ dirs[Removed].files # {} THEN prune' = Idle /\ UNCHANGED dirs
     ELSE /\ prune' = [prune EXCEPT !.removal = Idle]
          /\ dirs' = IF StillThere THEN [dirs EXCEPT ![Removed] = Nothing] ELSE dirs
  /\ UNCHANGED <<now, connected, source, existed, capture, recovery, target>>

EndPrune ==
  /\ prune.step = "remove" /\ prune.removal = Idle
  /\ \A b \in prune.listed : ~Removable(b)
  /\ prune' = Idle
  /\ UNCHANGED <<now, connected, source, existed, dirs, capture, recovery, target>>

--------------------------------------------------------------------------------
(* restore(): verify, refuse stores that hold anything, objects, database *)

TargetIsEmpty == target.database = Empty /\ target.bucket = Empty
StartRestore(b) ==
  /\ recovery = Idle /\ Verified(b) /\ TargetIsEmpty
  /\ recovery' = [step |-> "objects", backup |-> b]
  /\ UNCHANGED <<now, connected, source, existed, dirs, capture, prune, target>>

\* A component that decayed meanwhile fails its authentication part of the way.
Restored(b, content) == IF Verified(b) THEN content ELSE Partial

RestoreObjects ==
  /\ recovery.step = "objects"
  /\ target' = [target EXCEPT !.bucket = Restored(recovery.backup, dirs[recovery.backup].bucket)]
  /\ recovery' = IF Verified(recovery.backup) THEN [recovery EXCEPT !.step = "database"] ELSE Idle
  /\ UNCHANGED <<now, connected, source, existed, dirs, capture, prune>>

RestoreDatabase ==
  /\ recovery.step = "database"
  /\ target' = [target EXCEPT !.database = Restored(recovery.backup, dirs[recovery.backup].database),
                              !.restored = Verified(recovery.backup)]
  /\ recovery' = Idle
  /\ UNCHANGED <<now, connected, source, existed, dirs, capture, prune>>

\* The runbook: partly written stores are discarded and created empty.
Recreate ==
  /\ recovery = Idle /\ Partial \in {target.database, target.bucket}
  /\ target' = [database |-> Empty, bucket |-> Empty, restored |-> FALSE]
  /\ UNCHANGED <<now, connected, source, existed, dirs, capture, prune, recovery>>

--------------------------------------------------------------------------------
(* The application, the media and time *)

Connect ==
  /\ connected' = ~connected
  /\ UNCHANGED <<now, source, existed, dirs, capture, prune, recovery, target>>

Write(insert, object) ==
  /\ connected /\ source.database + source.bucket < MaxWrites
  /\ source' = IF object THEN [source EXCEPT !.bucket = @ + 1]
               ELSE [source EXCEPT !.database = @ + 1, !.rows = @ + (IF insert THEN 1 ELSE 0)]
  /\ existed' = existed \union {<<source'.database, source'.bucket>>}
  /\ UNCHANGED <<now, connected, dirs, capture, prune, recovery, target>>

Decay(b) ==
  /\ dirs[b].state = "complete" /\ dirs[b].sound
  /\ dirs' = [dirs EXCEPT ![b].sound = FALSE]
  /\ UNCHANGED <<now, connected, source, existed, capture, prune, recovery, target>>

Tick ==
  /\ now < MaxTime /\ now' = now + 1
  /\ UNCHANGED <<connected, source, existed, dirs, capture, prune, recovery, target>>

Next ==
  \/ \E b \in Backups : StartBackup(b) \/ StartRestore(b) \/ Decay(b) \/ LookAt(b) \/ Remove(b)
  \/ \E f \in Files : Unlink(f)
  \/ Before \/ Dump \/ Export \/ After \/ Manifest \/ Complete \/ Crash
  \/ StartPrune \/ VerifyNext \/ StartRemoving \/ RemoveDirectory \/ EndPrune
  \/ RestoreObjects \/ RestoreDatabase \/ Recreate
  \/ Connect \/ Tick
  \/ \E insert, object \in BOOLEAN : Write(insert, object)

Spec == Init /\ [][Next]_vars

--------------------------------------------------------------------------------
TypeOK ==
  /\ now \in 0 .. MaxTime /\ connected \in BOOLEAN
  /\ source \in [database : Nat, rows : Nat, bucket : Nat]
  /\ \A b \in Backups : dirs[b].state \in {"none", "partial", "complete"} /\ dirs[b].files \subseteq Files
  /\ capture # Idle => capture.backup \in Backups
  /\ prune # Idle => prune.listed \subseteq Backups
  /\ recovery # Idle => recovery.backup \in Backups
  /\ target.restored \in BOOLEAN

(* docs/operations/backup-and-restore.md, "renames it only after both encrypted
   components, checksums, the manifest, and its HMAC exist": whatever crashes,
   a directory with the name of a backup is a whole one, but for those a prune
   has begun to remove. *)
CompleteIsWhole ==
  \A b \in Backups : dirs[b].state = "complete" /\ ~dirs[b].begun => dirs[b].files = Whole

(* Violated.  Any directory with that name is a whole one.  A prune that is cut
   off within rm() leaves part of a backup under its name, with a new modification
   time, and no later prune gets past verifying it; and a capture that outlives
   the age of a partial directory may rename what a prune is emptying. *)
NamedIsWhole ==
  \A b \in Backups : dirs[b].state = "complete" => dirs[b].files = Whole

(* A backup loses a file, or its directory, only to a prune that has found at least
   Count newer ones to verify, and these still have all their files: decayed
   backups, or the remains of others, never count as the ones that are kept. *)
Loses(b) ==
  dirs[b].state = "complete" /\ ~(dirs'[b].state = "complete" /\ dirs[b].files \subseteq dirs'[b].files)
Kept(b) == dirs[b].state = "complete" /\ Whole \subseteq dirs[b].files
VerifiedAreKept ==
  [][\A b \in Backups : Loses(b) =>
        Cardinality({k \in prune.verified : Kept(k)' /\ dirs[k].at >= prune.removal.at}) >= Count]_vars

(* docs/operations/backup-and-restore.md, "The command also refuses a source
   with application database connections.  This prevents PostgreSQL references
   and object state from moving independently during capture": what a restore
   brings back existed together. *)
RestoredOnceExisted ==
  target.restored => <<target.database, target.bucket>> \in existed
================================================================================
