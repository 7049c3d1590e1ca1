----------------------------- MODULE ArtifactBundle -----------------------------
(***************************************************************************)
(* The bundle of a release (tools/release/artifact-bundle.ts): a directory *)
(* of payload files to which assemble adds the provenance, the checksums   *)
(* and the manifest, and sign a signature; verify reads them all.  Runs    *)
(* for several commits, retries and the packagers that write the payload   *)
(* share the directory, and a run may stop anywhere.                       *)
(***************************************************************************)
EXTENDS Naturals, FiniteSets

CONSTANTS
  Payload,     \* artifacts and SBOMs, by name
  Runs,        \* processes of the tool
  Commits,
  KeyIds,
  MaxBuilds,   \* (bound) times a file is packaged
  MaxStops     \* (bound) runs that stop

VARIABLES
  payload,     \* digest of each file, 0 when there is none
  control,     \* the files the tool writes
  runs,
  stops,
  seen         \* (history) contents the payload has had

vars == <<payload, control, runs, stops, seen>>

Absent == [state |-> "absent"]
Torn == [state |-> "torn"]       \* created, not yet written
Idle == [step |-> "idle"]
Controls == {"provenance", "checksums", "manifest", "signature"}
Present(p) == {f \in Payload : p[f] > 0}

Init ==
  /\ payload \in [Payload -> {0, 1}]
  /\ Present(payload) # {}
  /\ control = [c \in Controls |-> Absent]
  /\ runs = [r \in Runs |-> Idle]
  /\ stops = 0
  /\ seen = {payload}

Goto(r, step) == runs' = [runs EXCEPT ![r].step = step]
Fail(r) == runs' = [runs EXCEPT ![r] = Idle]

--------------------------------------------------------------------------------
(* The packagers *)

Package(f) ==
  /\ payload[f] < MaxBuilds
  /\ payload' = [payload EXCEPT ![f] = @ + 1]
  /\ seen' = seen \union {payload'}
  /\ UNCHANGED <<control, runs, stops>>

--------------------------------------------------------------------------------
(* writeNewOrIdentical(): a file is never replaced.  It is read, created         *)
(* exclusively and then written: three steps.                                    *)

Keep(r, c, contents, next) ==
  /\ control[c] # Absent
  /\ IF control[c] = contents THEN Goto(r, next) ELSE Fail(r)
  /\ UNCHANGED <<payload, control, stops, seen>>

Create(r, c, next) ==
  /\ control[c] = Absent
  /\ control' = [control EXCEPT ![c] = Torn]
  /\ Goto(r, next)
  /\ UNCHANGED <<payload, stops, seen>>

Fill(r, c, contents, next) ==
  /\ control' = [control EXCEPT ![c] = contents]
  /\ Goto(r, next)
  /\ UNCHANGED <<payload, stops, seen>>

--------------------------------------------------------------------------------
(* assembleBundle() *)

Whole(contents) == [state |-> "whole", of |-> contents]

Assemble(r, commit) ==
  /\ runs[r] = Idle
  /\ Present(payload) # {}
  /\ runs' = [runs EXCEPT ![r] =
       [step |-> "hash", left |-> Present(payload),
        statement |-> [commit |-> commit, digests |-> [f \in Present(payload) |-> 0]]]]
  /\ UNCHANGED <<payload, control, stops, seen>>

\* inputRecords(): one file after the other.
Hash(r, f) ==
  /\ runs[r].step = "hash" /\ f \in runs[r].left
  /\ runs' = [runs EXCEPT
       ![r].left = @ \ {f},
       ![r].statement.digests[f] = payload[f],
       ![r].step = IF runs[r].left = {f} THEN "provenance" ELSE "hash"]
  /\ UNCHANGED <<payload, control, stops, seen>>

\* Provenance, checksums and manifest follow from the digests and the commit.
Following == [provenance |-> "checksums", checksums |-> "manifest", manifest |-> "done"]
Filling == [provenance |-> "fill provenance", checksums |-> "fill checksums", manifest |-> "fill manifest"]
Writes(r) ==
  \E c \in DOMAIN Following :
    \/ /\ runs[r].step = c
       /\ \/ Keep(r, c, Whole(runs[r].statement), Following[c])
          \/ Create(r, c, Filling[c])
    \/ /\ runs[r].step = Filling[c]
       /\ Fill(r, c, Whole(runs[r].statement), Following[c])

--------------------------------------------------------------------------------
(* inspectUnsignedBundle(), for signBundle() and verifyBundle() *)

Inspect(r, use, key, commit) ==
  /\ runs[r] = Idle
  /\ control["manifest"].state = "whole"
  /\ control["manifest"].of.commit = commit
  /\ runs' = [runs EXCEPT ![r] =
       [step |-> "inspect", use |-> use, key |-> key, statement |-> control["manifest"].of,
        left |-> DOMAIN control["manifest"].of.digests]]
  /\ UNCHANGED <<payload, control, stops, seen>>

\* (mutant) the manifest is taken at its word
Trusted(r, f) == TRUE
\* hashFile() of a file the manifest names.
Matches(r, f) == payload[f] = runs[r].statement.digests[f]
Rehash(r, f) ==
  /\ runs[r].step = "inspect" /\ f \in runs[r].left
  /\ IF Matches(r, f) THEN runs' = [runs EXCEPT ![r].left = @ \ {f}] ELSE Fail(r)
  /\ UNCHANGED <<payload, control, stops, seen>>

\* Checksums and provenance are those of the manifest, and no other file is there.
Compare(r) ==
  /\ runs[r].step = "inspect" /\ runs[r].left = {}
  /\ IF /\ control["checksums"] = Whole(runs[r].statement)
        /\ control["provenance"] = Whole(runs[r].statement)
        /\ Present(payload) = DOMAIN runs[r].statement.digests
     THEN Goto(r, IF runs[r].use = "sign" THEN "sign" ELSE "read signature")
     ELSE Fail(r)
  /\ UNCHANGED <<payload, control, stops, seen>>

SignatureOf(r) == Whole([key |-> runs[r].key, manifest |-> runs[r].statement])
SignBundle(r) ==
  \/ /\ runs[r].step = "sign"
     /\ Keep(r, "signature", SignatureOf(r), "done") \/ Create(r, "signature", "fill signature")
  \/ /\ runs[r].step = "fill signature"
     /\ Fill(r, "signature", SignatureOf(r), "done")

\* The signature is of this manifest and by the trusted key.
VerifyBundle(r) ==
  /\ runs[r].step = "read signature"
  /\ IF control["signature"] = SignatureOf(r) THEN Goto(r, "valid") ELSE Fail(r)
  /\ UNCHANGED <<payload, control, stops, seen>>

--------------------------------------------------------------------------------

Exit(r) ==
  /\ runs[r].step \in {"done", "valid"}
  /\ Fail(r)
  /\ UNCHANGED <<payload, control, stops, seen>>

\* A cancelled job: what it created stays.
Stop(r) ==
  /\ runs[r] # Idle /\ stops < MaxStops
  /\ Fail(r) /\ stops' = stops + 1
  /\ UNCHANGED <<payload, control, seen>>

Next ==
  \/ \E f \in Payload : Package(f)
  \/ \E r \in Runs :
       \/ \E commit \in Commits :
            \/ Assemble(r, commit)
            \/ \E use \in {"sign", "verify"}, key \in KeyIds : Inspect(r, use, key, commit)
       \/ \E f \in Payload : Hash(r, f) \/ Rehash(r, f)
       \/ Writes(r) \/ Compare(r) \/ SignBundle(r) \/ VerifyBundle(r)
       \/ Exit(r) \/ Stop(r)

Spec == Init /\ [][Next]_vars

--------------------------------------------------------------------------------
(* Properties *)

Written(c) == control[c].state = "whole"

\* The files of a bundle are of one assembly and complete: whatever assemblies and
\* retries raced or stopped, what is written agrees, and a file is only there when
\* those before it are written.
OneAssembly ==
  /\ \A c, d \in DOMAIN Following : Written(c) /\ Written(d) => control[c] = control[d]
  /\ control["checksums"] # Absent => Written("provenance")
  /\ control["manifest"] # Absent => Written("checksums")
  /\ control["signature"] # Absent => Written("manifest")

\* What was signed is this manifest, and the payload had the contents it names all at
\* once, although the files were hashed one by one while they were being packaged.
SignedIsASnapshot ==
  Written("signature") =>
    /\ control["signature"].of.manifest = control["manifest"].of
    /\ \E p \in seen : \A f \in DOMAIN control["manifest"].of.digests :
         p[f] = control["manifest"].of.digests[f]

\* "Existing generated files are accepted only when byte-identical, making retries
\* idempotent" (docs/releases/artifact-integrity.md:63): a run that stopped while it wrote
\* a file leaves one that no retry accepts.
RetriesGoOn ==
  (\A r \in Runs : runs[r] = Idle) => \A c \in Controls : control[c] # Torn

================================================================================
