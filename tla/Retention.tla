-------------------------------- MODULE Retention -------------------------------
(***************************************************************************)
(* Retention of messages (packages/domain/src/retention.ts): one worker    *)
(* runs batches from its checkpoint over the candidates in their order,    *)
(* while authors delete, holds come and go, policies change and a purge    *)
(* fails.  The calls of the RetentionStore are awaited one by one.         *)
(***************************************************************************)
EXTENDS Naturals, FiniteSetsExt

CONSTANTS
  Messages,    \* 1 .. n: in the order of the candidates, of the cursor too
  Scopes,      \* scopes whose policy is set
  Limit,       \* size of a batch
  Default,     \* [retain |-> days, tombstone |-> days] when nothing is set
  Policies,    \* policies that are set
  MaxTime,     \* (bound) days
  MaxFailures  \* (bound) failing purges and crashes

VARIABLES
  now,
  policy,      \* the policy of each scope, or Unset
  deleted,     \* when the author deleted a message; MaxTime + 1: not deleted
  held,        \* messages under a legal hold
  body,        \* what is left: "full", "tombstone", "gone"
  checkpoint,  \* the cursor kept for the worker; 0: from the start
  batch,       \* the batch in progress
  failures

vars == <<now, policy, deleted, held, body, checkpoint, batch, failures>>

Unset == [retain |-> 0, tombstone |-> 0]
Idle == [step |-> "idle"]
NotDeleted == MaxTime + 1
AllScopes == {"space", "community", "instance"}

Init ==
  /\ now = 0
  /\ policy = [s \in AllScopes |-> Unset]
  /\ deleted = [m \in Messages |-> NotDeleted]
  /\ held = {}
  /\ body = [m \in Messages |-> "full"]
  /\ checkpoint = 0 /\ batch = Idle /\ failures = 0

--------------------------------------------------------------------------------
\* resolveRetentionPolicy(): the narrowest scope that has one.
Resolved ==
  CASE policy["space"] # Unset -> policy["space"]
    [] policy["space"] = Unset /\ policy["community"] # Unset -> policy["community"]
    [] OTHER -> IF policy["instance"] # Unset THEN policy["instance"] ELSE Default

\* Every message is as old as the clock.
Acceptable(p) == p.retain >= 1 /\ p.tombstone >= 1
UpdatePolicy(s, p) ==
  /\ Acceptable(p) /\ policy[s] # p /\ policy' = [policy EXCEPT ![s] = p]
  /\ UNCHANGED <<now, deleted, held, body, checkpoint, batch, failures>>

--------------------------------------------------------------------------------
(* runRetentionBatch() *)

\* listCandidates(): a day old at least, behind the cursor, at most Limit.
Candidates == {m \in Messages : now >= 1 /\ m > checkpoint /\ body[m] # "gone"}
FirstOnes(S) == {m \in S : Cardinality({n \in S : n < m}) < Limit}
NextCursor(S) == IF FirstOnes(S) = S THEN 0 ELSE Max(FirstOnes(S))

Start(dry) ==
  /\ batch = Idle
  /\ batch' = [step |-> "next", dry |-> dry, left |-> FirstOnes(Candidates), failed |-> FALSE,
               cursor |-> NextCursor(Candidates), at |-> now, policy |-> Default,
               wasHeld |-> held, wasDeleted |-> deleted]
  /\ UNCHANGED <<now, policy, deleted, held, body, checkpoint, failures>>

Item == Min(batch.left)

\* policy, age and hold of the next candidate; the hold that came with the
\* page, then the store once more.
Due(p) == batch.at >= p.retain
Spared(m) == m \in batch.wasHeld \/ m \in held

Check ==
  /\ batch.step = "next" /\ batch.left # {}
  /\ batch' = IF Due(Resolved) /\ ~Spared(Item) /\ ~batch.dry
              THEN [batch EXCEPT !.step = "purge", !.policy = Resolved]
              ELSE [batch EXCEPT !.left = @ \ {Item}]
  /\ UNCHANGED <<now, policy, deleted, held, body, checkpoint, failures>>

\* Only the body goes while the tombstone is young, or was not there when the
\* page was read.
DeletedOnly(m, p) == batch.wasDeleted[m] = NotDeleted
TombstoneOnly(m, p) ==
  LET d == batch.wasDeleted[m] IN d = NotDeleted \/ batch.at - d < p.tombstone

Purge ==
  /\ batch.step = "purge"
  /\ body' = [body EXCEPT ![Item] = IF TombstoneOnly(Item, batch.policy) THEN "tombstone" ELSE "gone"]
  /\ batch' = [batch EXCEPT !.step = "next", !.left = @ \ {Item}]
  /\ UNCHANGED <<now, policy, deleted, held, checkpoint, failures>>

PurgeFails ==
  /\ batch.step = "purge" /\ failures < MaxFailures
  /\ failures' = failures + 1
  /\ batch' = [batch EXCEPT !.step = "next", !.left = @ \ {Item}, !.failed = TRUE]
  /\ UNCHANGED <<now, policy, deleted, held, body, checkpoint>>

\* The cursor is saved after a batch without a failure that was no dry run.
MaySave == ~batch.dry /\ ~batch.failed

SaveCheckpoint ==
  /\ batch.step = "next" /\ batch.left = {}
  /\ checkpoint' = IF MaySave THEN batch.cursor ELSE checkpoint
  /\ batch' = Idle
  /\ UNCHANGED <<now, policy, deleted, held, body, failures>>

Crash ==
  /\ batch # Idle /\ failures < MaxFailures
  /\ failures' = failures + 1 /\ batch' = Idle
  /\ UNCHANGED <<now, policy, deleted, held, body, checkpoint>>

--------------------------------------------------------------------------------
(* The environment *)

DeleteMessage(m) ==
  /\ deleted[m] = NotDeleted /\ deleted' = [deleted EXCEPT ![m] = now]
  /\ UNCHANGED <<now, policy, held, body, checkpoint, batch, failures>>

Hold(m) ==
  /\ held' = IF m \in held THEN held \ {m} ELSE held \union {m}
  /\ UNCHANGED <<now, policy, deleted, body, checkpoint, batch, failures>>

Tick ==
  /\ now < MaxTime /\ now' = now + 1
  /\ UNCHANGED <<policy, deleted, held, body, checkpoint, batch, failures>>

Next ==
  \/ \E s \in Scopes, p \in Policies : UpdatePolicy(s, p)
  \/ \E dry \in BOOLEAN : Start(dry)
  \/ Check \/ Purge \/ PurgeFails \/ SaveCheckpoint \/ Crash
  \/ \E m \in Messages : DeleteMessage(m) \/ Hold(m)
  \/ Tick

\* Time passes; batches are started again and again, and carried on.
Fairness == WF_vars(Tick) /\ SF_vars(Start(FALSE)) /\ WF_vars(Check \/ Purge \/ SaveCheckpoint)

Spec == Init /\ [][Next]_vars /\ Fairness

--------------------------------------------------------------------------------
TypeOK ==
  /\ now \in 0 .. MaxTime
  /\ policy \in [AllScopes -> Policies \union {Unset}]
  /\ deleted \in [Messages -> 0 .. NotDeleted]
  /\ held \subseteq Messages
  /\ body \in [Messages -> {"full", "tombstone", "gone"}]
  /\ checkpoint \in {0} \union Messages
  /\ batch # Idle => batch.step \in {"next", "purge"} /\ batch.left \subseteq Messages
  /\ failures \in 0 .. MaxFailures

(* A message goes altogether only after its author deleted it and its tombstone
   was as old as some policy in force demands: never on the strength of a
   deletion the page had not seen, a clock that ran on, or a policy of another
   scope.  Replies and unread cursors need the tombstone until then. *)
TombstoneIsKept ==
  [][\A m \in Messages : body'[m] = "gone" /\ body[m] # "gone" =>
        deleted[m] # NotDeleted /\ now - deleted[m] >= batch.policy.tombstone]_vars

(* docs/privacy/data-lifecycle.md, "Holds are rechecked immediately before
   mutation ... deletes in one transaction or records no mutation". *)
HeldIsKept == [][\A m \in held : body'[m] = body[m]]_vars

(* Every message that is due for good and not held is purged in the end, by
   batches that failures and crashes cut short. *)
DueIsPurged ==
  \A m \in Messages : <>(body[m] # "full") \/ []<>(m \in held) \/ []<>(Resolved.retain > MaxTime)
================================================================================
