---------------------------- MODULE UpdateRecovery ----------------------------
(***************************************************************************)
(* The dual-slot installer of tools/release/update-recovery.ts on its      *)
(* file system: slots/, staging/ and the two pointers, which every crash   *)
(* leaves as they are.  One command runs at a time; each of its file       *)
(* operations is a step, and it may end after any of them (a fault, an     *)
(* error of the file system, the end of the process), which is Abort.      *)
(* Hashes and the checksum of a pointer stand for files that are complete. *)
(***************************************************************************)
EXTENDS Naturals, FiniteSets

CONSTANTS
  Baseline,       \* what initialize() installs: version, channel, schema, artifact
  Offers,         \* update packages that reach the verifier
  Paths,          \* supportedPaths, pairs <<source version, target version>>
  Sources,        \* channels: the source channels of each target channel
  MaxGeneration,  \* highest generation that parsePointer() accepts (1000000)
  MaxEntries      \* entries that one recovery works through (16)

Channels == DOMAIN Sources
Installs == {Baseline} \union {o.target : o \in Offers}
Ids == {"baseline"} \union {o.id : o \in Offers}
Names == {"a", "b"}

\* A path leads to the same version or to a later one, each channel accepts
\* only known channels.
ValidPolicy ==
  /\ Paths # {}
  /\ \A p \in Paths : p[1] \in Nat /\ p[2] \in Nat /\ p[1] <= p[2]
  /\ \A c \in Channels : Sources[c] \subseteq Channels /\ Sources[c] # {}

\* Metadata of a package; artifact names the bytes, intact says that those that
\* arrived have the length and the digest that were signed.
WellFormed(o) ==
  /\ o.id # "baseline"
  /\ o.source.version \in Nat /\ o.source.channel \in Channels
  /\ o.target.version \in Nat /\ o.target.channel \in Channels
  /\ o.signed \in BOOLEAN /\ o.intact \in BOOLEAN

ASSUME UpdateAssumption ==
  /\ ValidPolicy
  /\ \A o \in Offers : WellFormed(o)
  /\ MaxGeneration \in Nat \ {0}
  /\ MaxEntries \in Nat

VARIABLES
  slots,     \* slots/<id>
  staging,   \* staging/<id>
  pointers,  \* pointers/a.json and b.json
  op         \* the command in progress: its next step and what it has read

updateVars == <<slots, staging, pointers, op>>

--------------------------------------------------------------------------------
(* Files *)

Absent == [disk |-> "absent"]
Partial == [disk |-> "partial"]    \* a directory without a readable state.json
Complete(install, healthy) ==
  [disk |-> IF healthy THEN "healthy" ELSE "unhealthy", install |-> install]
Missing == [generation |-> 0]
Idle == [pc |-> "idle"]

\* validPointers(): a pointer counts while its slot is intact and healthy.
Valid(n) ==
  /\ pointers[n].generation \in 1 .. MaxGeneration
  /\ slots[pointers[n].slot].disk = "healthy"
ValidNames == {n \in Names : Valid(n)}

\* active(): the valid pointer of the highest generation.
IsActive(n) ==
  /\ n \in ValidNames
  /\ \A m \in ValidNames : pointers[m].generation <= pointers[n].generation
ActiveSlots == {pointers[n].slot : n \in {m \in Names : IsActive(m)}}
Other(n) == IF n = "a" THEN "b" ELSE "a"
\* (mutant) the pointer of the active slot is the one that is replaced
SameName(n) == n
Inactive(n) == Other(n)

--------------------------------------------------------------------------------
(* verifyUpdatePackage() *)

PathSupported(o) == <<o.source.version, o.target.version>> \in Paths
ChannelSupported(o) == o.source.channel \in Sources[o.target.channel]
Verified(o) ==
  /\ o.signed
  /\ PathSupported(o)
  /\ o.source.version <= o.target.version
  /\ ChannelSupported(o)
  /\ o.intact

--------------------------------------------------------------------------------
(* apply() *)

\* (mutant) the update is taken for whatever is installed
FitsAnything(o, install) == TRUE
FitsInstalled(o, install) ==
  /\ o.source.version = install.version
  /\ o.source.channel = install.channel
  /\ o.source.schema = install.schema

\* The checks and mkdir(staging), which fails when the directory exists.  An update
\* that is already active, or a conflicting one of its name, changes nothing.
StartApply(o, n) ==
  /\ op = Idle
  /\ Verified(o)
  /\ IsActive(n)
  /\ pointers[n].slot # o.id
  /\ FitsInstalled(o, slots[pointers[n].slot].install)
  /\ staging[o.id] = Absent
  /\ staging' = [staging EXCEPT ![o.id] = Partial]
  /\ op' = [pc |-> "stage", offer |-> o, name |-> Inactive(n), slot |-> o.id,
            generation |-> pointers[n].generation + 1]
  /\ UNCHANGED <<slots, pointers>>

\* The application, the migrated copy of the data and the record of both.
StageContent ==
  /\ op.pc = "stage"
  /\ staging' = [staging EXCEPT ![op.slot] = Complete(op.offer.target, FALSE)]
  /\ op' = [op EXCEPT !.pc = "place"]
  /\ UNCHANGED <<slots, pointers>>

\* rename(staging, finalSlot), which fails unless the slot is absent or empty.
PlaceSlot ==
  /\ op.pc = "place"
  /\ slots[op.slot].disk \in {"absent", "partial"}
  /\ slots' = [slots EXCEPT ![op.slot] = staging[op.slot]]
  /\ staging' = [staging EXCEPT ![op.slot] = Absent]
  /\ op' = [op EXCEPT !.pc = "unlink"]
  /\ UNCHANGED pointers

\* replaceCanonical() of the inactive pointer: unlink(), then rename().
UnlinkPointer ==
  /\ op.pc = "unlink"
  /\ pointers' = [pointers EXCEPT ![op.name] = Missing]
  /\ op' = [op EXCEPT !.pc = "link"]
  /\ UNCHANGED <<slots, staging>>
LinkPointer ==
  /\ op.pc = "link"
  /\ pointers' = [pointers EXCEPT ![op.name] =
                    [generation |-> op.generation, slot |-> op.slot]]
  /\ op' = IF "offer" \in DOMAIN op THEN [op EXCEPT !.pc = "health"] ELSE Idle
  /\ UNCHANGED <<slots, staging>>

\* healthCheck() said yes; replaceCanonical() of state.json in two steps.
UnlinkState ==
  /\ op.pc = "health"
  /\ slots' = [slots EXCEPT ![op.slot] = Partial]
  /\ op' = [op EXCEPT !.pc = "mark"]
  /\ UNCHANGED <<staging, pointers>>
MarkHealthy ==
  /\ op.pc = "mark"
  /\ slots' = [slots EXCEPT ![op.slot] = Complete(op.offer.target, TRUE)]
  /\ op' = Idle
  /\ UNCHANGED <<staging, pointers>>

--------------------------------------------------------------------------------
(* recover() *)

Entries(directory) == {s \in Ids : directory[s] # Absent}
Bounded(directory) == Cardinality(Entries(directory)) <= MaxEntries

StartRecover ==
  /\ op = Idle
  /\ ValidNames # {}
  /\ Bounded(staging)
  /\ op' = [pc |-> "clean"]
  /\ UNCHANGED <<slots, staging, pointers>>

\* rm() of a directory that is interrupted leaves part of it.
Removed(directory, s) == {[directory EXCEPT ![s] = r] : r \in {Absent, Partial}}

RemoveStaging(s) ==
  /\ op.pc = "clean"
  /\ s \in Entries(staging)
  /\ staging' \in Removed(staging, s)
  /\ UNCHANGED <<slots, pointers, op>>

Referenced == {pointers[n].slot : n \in ValidNames}

StartSweep ==
  /\ op.pc = "clean"
  /\ Entries(staging) = {}
  /\ Bounded(slots)
  /\ op' = [pc |-> "sweep", keep |-> Referenced]
  /\ UNCHANGED <<slots, staging, pointers>>

RemoveSlot(s) ==
  /\ op.pc = "sweep"
  /\ s \in Entries(slots) \ op.keep
  /\ slots' \in Removed(slots, s)
  /\ UNCHANGED <<staging, pointers, op>>

EndRecover ==
  /\ op.pc = "sweep"
  /\ Entries(slots) \subseteq op.keep
  /\ op' = Idle
  /\ UNCHANGED <<slots, staging, pointers>>

--------------------------------------------------------------------------------
(* rollback() *)

\* The path that led from the previous to the current version must be supported.
StartRollback(n) ==
  LET previous == pointers[Other(n)].slot
      current == pointers[n].slot
  IN /\ op = Idle
     /\ IsActive(n)
     /\ Other(n) \in ValidNames
     /\ previous # current
     /\ <<slots[previous].install.version, slots[current].install.version>> \in Paths
     /\ op' = [pc |-> "unlink", name |-> Inactive(n), slot |-> previous,
               generation |-> pointers[n].generation + 1]
     /\ UNCHANGED <<slots, staging, pointers>>

\* A fault, a failed migration or health check, an error, the end of the process.
Abort ==
  /\ op # Idle
  /\ op' = Idle
  /\ UNCHANGED <<slots, staging, pointers>>

UpdateInit ==
  /\ slots = [s \in Ids |-> IF s = "baseline" THEN Complete(Baseline, TRUE) ELSE Absent]
  /\ staging = [s \in Ids |-> Absent]
  /\ pointers = [n \in Names |-> IF n = "a" THEN [generation |-> 1, slot |-> "baseline"]
                                 ELSE Missing]
  /\ op = Idle

Apply ==
  \/ \E o \in Offers, n \in Names : StartApply(o, n)
  \/ StageContent \/ PlaceSlot \/ UnlinkPointer \/ LinkPointer
  \/ UnlinkState \/ MarkHealthy
Recover ==
  \/ StartRecover \/ StartSweep \/ EndRecover
  \/ \E s \in Ids : RemoveStaging(s) \/ RemoveSlot(s)
UpdateNext == Apply \/ Recover \/ (\E n \in Names : StartRollback(n)) \/ Abort

UpdateSpec == UpdateInit /\ [][UpdateNext]_updateVars

--------------------------------------------------------------------------------
(* Properties *)

Slot ==
  {Absent, Partial} \union
  {Complete(i, h) : i \in Installs, h \in BOOLEAN}
UpdateTypeOK ==
  /\ slots \in [Ids -> Slot]
  /\ staging \in [Ids -> Slot]
  /\ pointers \in [Names -> {Missing} \union [generation : Nat, slot : Ids]]
  /\ op.pc \in {"idle", "stage", "place", "unlink", "link", "health", "mark",
                "clean", "sweep"}

\* Whatever command is interrupted, and wherever, an installation can be launched:
\* some pointer leads to an intact slot that passed its health check.
AlwaysLaunchable == ValidNames # {}

\* What is launched changes at one step and only along the policy: forward on a
\* supported path and between channels that accept each other, or back to where
\* such a path began.  No crash, retry or recovery moves it otherwise.
Launched == {slots[s].install : s \in ActiveSlots}
Forward(i, j) ==
  <<i.version, j.version>> \in Paths /\ i.channel \in Sources[j.channel]
MovesAreSupported ==
  [][\A i \in Launched, j \in Launched' : i = j \/ Forward(i, j) \/ Forward(j, i)]_updateVars
================================================================================
