----------------------------- MODULE ReleaseVersion -----------------------------
(***************************************************************************)
(* Preparing a release (tools/release/versioning.ts): every file that      *)
(* carries the version is replaced, the fragments of the changes become    *)
(* notes of the changelog and are removed.  The files are replaced one by  *)
(* one and the process may stop in between; the maintainer then restores   *)
(* the tracked files or, when release:check passes, commits them.          *)
(***************************************************************************)
EXTENDS Integers, Sequences, FiniteSetsExt

CONSTANTS
  Fragments,   \* .changes/<issue>-<slug>.json
  Versioned,   \* files that carry the version, in the order of the plan's writes
  Releases,    \* versions that may be asked for, from the lowest to the highest
  MaxStops     \* (bound) interrupted runs

VARIABLES
  tree,        \* the working tree: version of each file, changelog, fragments
  committed,   \* the tracked files as they were committed last
  plan,        \* ReleasePlan being applied
  stops

vars == <<tree, committed, plan, stops>>

NoPlan == [step |-> "none"]
Files == {Versioned[i] : i \in DOMAIN Versioned}

Init ==
  /\ tree = [version |-> [f \in Files |-> Releases[1]], changelog |-> <<>>, fragments |-> {}]
  /\ committed = tree
  /\ plan = NoPlan
  /\ stops = 0

--------------------------------------------------------------------------------
(* compareSemanticVersions(): -1, 0 or 1.  A version is its numbers and the     *)
(* identifiers of its prerelease; an identifier is a number or a word.          *)

Sign(n) == IF n < 0 THEN -1 ELSE IF n > 0 THEN 1 ELSE 0

CompareIdentifiers(a, b) ==
  IF a.number = b.number THEN Sign(a.rank - b.rank) ELSE IF a.number THEN -1 ELSE 1

\* The first place where they differ decides; a longer one comes later.
ComparePrerelease(left, right) ==
  IF left = <<>> \/ right = <<>>
  THEN IF left = right THEN 0 ELSE IF left = <<>> THEN 1 ELSE -1
  ELSE LET common == {i \in DOMAIN left \intersect DOMAIN right : left[i] # right[i]}
       IN IF common = {} THEN Sign(Len(left) - Len(right))
          ELSE CompareIdentifiers(left[Min(common)], right[Min(common)])

CompareSemanticVersions(a, b) ==
  LET different == {i \in 1 .. 3 : a.numbers[i] # b.numbers[i]}
  IN IF different = {} THEN ComparePrerelease(a.prerelease, b.prerelease)
     ELSE Sign(a.numbers[Min(different)] - b.numbers[Min(different)])

--------------------------------------------------------------------------------
(* checkReleaseState(): one version everywhere. *)

CheckReleaseState(t) == \A f, g \in Files : t.version[f] = t.version[g]

Version(t) == t.version[Versioned[1]]
Headings(t) == {t.changelog[i].version : i \in DOMAIN t.changelog}
Noted(t) == UNION {t.changelog[i].fragments : i \in DOMAIN t.changelog}

--------------------------------------------------------------------------------
(* prepareRelease() and applyReleasePlan() *)

\* A change is merged with its fragment.
Merge(f) ==
  /\ plan = NoPlan /\ tree = committed
  /\ f \notin tree.fragments \union Noted(tree)
  /\ tree' = [tree EXCEPT !.fragments = @ \union {f}]
  /\ committed' = tree'
  /\ UNCHANGED <<plan, stops>>

PrepareRelease(v) ==
  /\ plan = NoPlan
  /\ CheckReleaseState(tree)
  /\ CompareSemanticVersions(v, Version(tree)) > 0
  /\ tree.fragments # {}
  /\ v \notin Headings(tree)
  /\ plan' = [step |-> "stage", version |-> v, fragments |-> tree.fragments,
              changelog |-> <<[version |-> v, fragments |-> tree.fragments]>> \o tree.changelog,
              replaced |-> 0]
  /\ UNCHANGED <<tree, committed, stops>>

\* Every temporary file is written before the first one is renamed.
Stage ==
  /\ plan.step = "stage"
  /\ plan' = [plan EXCEPT !.step = "replace"]
  /\ UNCHANGED <<tree, committed, stops>>

Replace ==
  /\ plan.step = "replace" /\ plan.replaced < Len(Versioned)
  /\ tree' = [tree EXCEPT !.version[Versioned[plan.replaced + 1]] = plan.version]
  /\ plan' = [plan EXCEPT !.replaced = @ + 1]
  /\ UNCHANGED <<committed, stops>>

\* CHANGELOG.md is the last of the writes.
ReplaceChangelog ==
  /\ plan.step = "replace" /\ plan.replaced = Len(Versioned)
  /\ tree' = [tree EXCEPT !.changelog = plan.changelog]
  /\ plan' = [plan EXCEPT !.step = "delete"]
  /\ UNCHANGED <<committed, stops>>

Delete(f) ==
  /\ plan.step = "delete" /\ f \in plan.fragments
  /\ tree' = [tree EXCEPT !.fragments = @ \ {f}]
  /\ plan' = IF plan.fragments = {f} THEN NoPlan ELSE [plan EXCEPT !.fragments = @ \ {f}]
  /\ UNCHANGED <<committed, stops>>

\* A call fails, or the process ends: what was replaced stays.
Stop ==
  /\ plan # NoPlan /\ stops < MaxStops
  /\ plan' = NoPlan /\ stops' = stops + 1
  /\ UNCHANGED <<tree, committed>>

Restore ==
  /\ plan = NoPlan /\ tree # committed
  /\ tree' = committed
  /\ UNCHANGED <<committed, plan, stops>>

Commit ==
  /\ plan = NoPlan /\ tree # committed /\ CheckReleaseState(tree)
  /\ committed' = tree
  /\ UNCHANGED <<tree, plan, stops>>

Next ==
  \/ \E f \in Fragments : Merge(f) \/ Delete(f)
  \/ \E i \in DOMAIN Releases : PrepareRelease(Releases[i])
  \/ Stage \/ Replace \/ ReplaceChangelog
  \/ Stop \/ Restore \/ Commit

Spec == Init /\ [][Next]_vars

--------------------------------------------------------------------------------
(* Properties *)

Rank(v) == CHOOSE i \in DOMAIN Releases : Releases[i] = v

\* Whatever interrupts a run, no change loses its note: what was a fragment or a
\* note of the changelog is one of both for good, in the tree and as committed.
NotesOf(t) == t.fragments \union Noted(t)
NoteIsKept == NotesOf(tree) \subseteq NotesOf(tree') /\ NotesOf(committed) \subseteq NotesOf(committed')
NoNoteIsLost == [][NoteIsKept]_vars

\* The committed files always agree on one version, and it only moves to a later one
\* of semantic versioning, however many runs were interrupted.
MovesOn ==
  /\ CheckReleaseState(committed')
  /\ Rank(Version(committed)) <= Rank(Version(committed'))
ReleasesAdvance == [][MovesOn]_vars

\* "if a process or disk failure interrupts replacement, release:check detects drift"
\* (docs/releases/versioning.md:54): not when it stops before the changelog or a fragment.
DriftIsDetected ==
  plan = NoPlan /\ CheckReleaseState(tree) /\ Version(tree) # Version(committed)
    => Version(tree) \in Headings(tree) /\ tree.fragments \intersect Noted(tree) = {}

================================================================================
