------------------------------- MODULE AuditTrail ------------------------------
(***************************************************************************)
(* The administrative audit events of a community                          *)
(* (packages/domain/src/index.ts, auditEventRepository() in                *)
(* packages/postgres/src/index.ts, migration 0007).  A call writes its     *)
(* event in a SERIALIZABLE transaction: it sees the rows of its snapshot,  *)
(* also where the trigger has waited for the lock of the community.  A     *)
(* hash is the sequence of everything it covers.                           *)
(***************************************************************************)
EXTENDS Naturals, Sequences

CONSTANTS
  Calls,        \* calls of administrators that run
  Attempts,     \* of a transaction
  PageSize,     \* events a page of list() and verify() has
  MaxCalls,     \* (bound) that ever begin
  MaxFaults     \* (bound) of the network and of the medium

VARIABLES
  chain,        \* audit_events, in the order of chain_index
  checkpoints,  \* audit_checkpoints, in their order
  mutated,      \* the calls whose change of an invitation is committed
  calls,
  begun,        \* calls that ever began
  lock,         \* the holder of the advisory lock
  check,        \* a call of verify()
  walk,         \* a reader of the pages
  faults,       \* that may still happen
  damaged       \* TRUE once rows were lost or altered, as by a partial restore

vars == <<chain, checkpoints, mutated, calls, begun, lock, check, walk, faults, damaged>>

Idle == [step |-> "idle"]
Nobody == "nobody"
\* A directive applies or releases a legal hold.
Kinds == {"change", "checkpoint", "directive"}

Init ==
  /\ chain = <<>> /\ checkpoints = <<>> /\ mutated = {}
  /\ calls = [c \in Calls |-> Idle] /\ begun = 0
  /\ lock = Nobody
  /\ check = Idle /\ walk = Idle
  /\ faults = MaxFaults /\ damaged = FALSE

--------------------------------------------------------------------------------
(* append_audit_event(), auditEventHash() *)

\* What the hash of an event covers besides the hash before it.
Event(id, kind, outcome) == [id |-> id, kind |-> kind, outcome |-> outcome]
HeadHash(rows) == IF rows = <<>> THEN <<>> ELSE rows[Len(rows)].hash
Chained(rows, event) ==
  [event |-> event, sequence |-> (IF rows = <<>> THEN 0 ELSE rows[Len(rows)].sequence) + 1,
   previous |-> HeadHash(rows), hash |-> Append(HeadHash(rows), event)]

\* (mutant) audit_events_community_chain_idx is not there
AnySequence(row) == TRUE
\* Its sequence is free: nobody committed an event that the snapshot has not.
SequenceIsFree(row) == \A i \in DOMAIN chain : chain[i].sequence # row.sequence

Goto(c, step) == calls' = [calls EXCEPT ![c].step = step]
Releases(c) == lock' = IF lock = c THEN Nobody ELSE lock

--------------------------------------------------------------------------------
(* transaction() of createInvitation, revokeInvitation, acceptInvitation,     *)
(* checkpointAuditEvents and setAuditLegalHold                                *)

\* The first statement, a permission check, fixes the snapshot.
BeginCall(c, kind) ==
  /\ calls[c] = Idle /\ begun < MaxCalls
  /\ begun' = begun + 1
  /\ calls' = [calls EXCEPT ![c] =
       [step |-> "append", id |-> begun', kind |-> kind, attempt |-> 1, snapshot |-> chain]]
  /\ UNCHANGED <<chain, checkpoints, mutated, lock, check, walk, faults, damaged>>

\* A transaction that fails is run again when PostgreSQL says it could not be serialized.
\* After the last attempt, or any other error, a change of an invitation is recorded as
\* rejected.
Retry(c) ==
  /\ calls[c].attempt < Attempts
  /\ calls' = [calls EXCEPT ![c] =
       [step |-> "append", id |-> @.id, kind |-> @.kind, attempt |-> @.attempt + 1,
        snapshot |-> chain]]
Refuse(c) ==
  calls' = [calls EXCEPT ![c] =
    IF @.kind = "change" THEN [step |-> "reject", id |-> @.id, kind |-> @.kind] ELSE Idle]

\* The trigger takes the lock and reads the chain; the index refuses a sequence that is
\* taken, as a failed serialization or as a conflict.
AppendEvent(c) ==
  /\ calls[c].step = "append" /\ lock = Nobody
  /\ LET row == Chained(calls[c].snapshot, Event(calls[c].id, calls[c].kind, "succeeded"))
     IN IF SequenceIsFree(row)
        THEN /\ lock' = c
             /\ calls' = [calls EXCEPT ![c] =
                  [step |-> "commit", id |-> @.id, kind |-> @.kind, attempt |-> @.attempt, row |-> row]]
        ELSE (Retry(c) \/ Refuse(c)) /\ UNCHANGED lock
  /\ UNCHANGED <<chain, checkpoints, mutated, begun, check, walk, faults, damaged>>

\* A denial, a version that has moved on or a lost connection.
AbortCall(c) ==
  /\ calls[c].step \in {"append", "commit"}
  /\ Refuse(c) /\ Releases(c)
  /\ UNCHANGED <<chain, checkpoints, mutated, begun, check, walk, faults, damaged>>

\* validate_audit_checkpoint(): the checkpoint is of the head, the event just appended.
Checkpointed(c) ==
  IF calls[c].kind = "checkpoint"
  THEN Append(checkpoints, [sequence |-> calls[c].row.sequence, head |-> calls[c].row.hash])
  ELSE checkpoints

Committed(c) ==
  /\ calls[c].step = "commit"
  /\ chain' = Append(chain, calls[c].row)
  /\ checkpoints' = Checkpointed(c)
  /\ mutated' = IF calls[c].kind = "change" THEN mutated \union {calls[c].id} ELSE mutated
  /\ lock' = Nobody
  /\ UNCHANGED <<begun, check, walk, damaged>>
Commit(c) ==
  Committed(c) /\ calls' = [calls EXCEPT ![c] = Idle] /\ UNCHANGED faults
\* The answer to COMMIT is lost: transaction() takes it for a failure.
CommitUnanswered(c) ==
  /\ faults > 0 /\ faults' = faults - 1
  /\ Committed(c) /\ Refuse(c)

\* rejectedAudit(): a statement of its own, which sees what is committed when it has the
\* lock; its failure is passed over.
RejectedAudit(c) ==
  /\ calls[c].step = "reject" /\ lock = Nobody
  /\ chain' \in {chain, Append(chain, Chained(chain, Event(calls[c].id, "change", "rejected")))}
  /\ calls' = [calls EXCEPT ![c] = Idle]
  /\ UNCHANGED <<checkpoints, mutated, begun, lock, check, walk, faults, damaged>>

--------------------------------------------------------------------------------
(* verify() and list(): a statement for each page.  Readers change nothing, so one of   *)
(* them at a time is enough.                                                            *)

\* The rows are in the order of their sequence.
After(rows, sequence) ==
  LET before == CHOOSE n \in 0 .. Len(rows) :
                  \A i \in DOMAIN rows : rows[i].sequence > sequence <=> i > n
  IN SubSeq(rows, before + 1, Len(rows))
PageOf(sequence) ==
  LET rest == After(chain, sequence)
  IN SubSeq(rest, 1, IF Len(rest) < PageSize THEN Len(rest) ELSE PageSize)

StartVerify ==
  /\ check = Idle /\ walk = Idle
  /\ check' = [step |-> "pages", valid |-> TRUE, count |-> 0, last |-> 0, hash |-> <<>>,
               intact |-> ~damaged]
  /\ UNCHANGED <<chain, checkpoints, mutated, calls, begun, lock, walk, faults, damaged>>

\* Row i of a page follows the row before it, or what the pages before have ended with.
Follows(page, i) ==
  LET previous == IF i = 1 THEN check.hash ELSE page[i - 1].hash IN
  /\ page[i].sequence = check.count + i
  /\ page[i].previous = previous
  /\ page[i].hash = Append(previous, page[i].event)

VerifyPage ==
  /\ check.step = "pages"
  /\ LET page == PageOf(check.last)
         end == IF page = <<>> THEN [sequence |-> check.last, hash |-> check.hash]
                ELSE page[Len(page)]
     IN check' = [check EXCEPT
          !.valid = @ /\ \A i \in DOMAIN page : Follows(page, i),
          !.count = @ + Len(page), !.last = end.sequence, !.hash = end.hash,
          !.step = IF Len(page) < PageSize THEN "checkpoint" ELSE "pages"]
  /\ UNCHANGED <<chain, checkpoints, mutated, calls, begun, lock, walk, faults, damaged>>

Latest == checkpoints[Len(checkpoints)]
\* (mutant) that the chain is in itself consistent is enough
ChainIsEnough == TRUE
CheckpointValid ==
  checkpoints # <<>> =>
    \E i \in DOMAIN chain : chain[i].sequence = Latest.sequence /\ chain[i].hash = Latest.head

\* latestCheckpoint(), after the last page.
VerifyCheckpoint ==
  /\ check.step = "checkpoint"
  /\ check' = [step |-> "done", verdict |-> check.valid /\ CheckpointValid, intact |-> check.intact,
               covered |-> IF checkpoints = <<>> THEN <<>> ELSE Latest.head]
  /\ UNCHANGED <<chain, checkpoints, mutated, calls, begun, lock, walk, faults, damaged>>

StartWalk ==
  /\ check = Idle /\ walk = Idle
  /\ walk' = [step |-> "pages", after |-> 0, shown |-> <<>>, due |-> chain]
  /\ UNCHANGED <<chain, checkpoints, mutated, calls, begun, lock, check, faults, damaged>>
ListAuditEvents ==
  /\ walk.step = "pages"
  /\ LET page == PageOf(walk.after)
         more == Len(After(chain, walk.after)) > PageSize
     IN walk' = [walk EXCEPT !.shown = @ \o page, !.step = IF more THEN "pages" ELSE "done",
                             !.after = IF page = <<>> THEN @ ELSE page[Len(page)].sequence]
  /\ UNCHANGED <<chain, checkpoints, mutated, calls, begun, lock, check, faults, damaged>>

--------------------------------------------------------------------------------
(* Damage, as by a restore of one table or a lost page: rows are missing, an event is   *)
(* not what it was, or all hashes behind it were computed again                         *)

Rechained(rows, i, event) ==
  [k \in DOMAIN rows |->
     IF k < i THEN rows[k]
     ELSE [event |-> IF k = i THEN event ELSE rows[k].event, sequence |-> rows[k].sequence,
           previous |-> [n \in 1 .. k - 1 |-> IF n = i THEN event ELSE rows[n].event],
           hash |-> [n \in 1 .. k |-> IF n = i THEN event ELSE rows[n].event]]]
Altered(i) == Event(chain[i].event.id, chain[i].event.kind, "altered")

Damage ==
  /\ faults > 0 /\ faults' = faults - 1 /\ ~damaged /\ damaged' = TRUE
  /\ \A c \in Calls : calls[c] = Idle
  /\ \E i \in DOMAIN chain :
       chain' \in {SubSeq(chain, 1, i - 1),
                   SubSeq(chain, 1, i - 1) \o SubSeq(chain, i + 1, Len(chain)),
                   [chain EXCEPT ![i].event = Altered(i)],
                   Rechained(chain, i, Altered(i))}
  /\ UNCHANGED <<checkpoints, mutated, calls, begun, lock, check, walk>>

Next ==
  \/ \E c \in Calls, kind \in Kinds : BeginCall(c, kind)
  \/ \E c \in Calls :
       \/ AppendEvent(c) \/ AbortCall(c) \/ Commit(c) \/ CommitUnanswered(c) \/ RejectedAudit(c)
  \/ StartVerify \/ VerifyPage \/ VerifyCheckpoint
  \/ StartWalk \/ ListAuditEvents
  \/ Damage

Spec == Init /\ [][Next]_vars

--------------------------------------------------------------------------------
(* Properties *)

Events == [id : Nat, kind : Kinds, outcome : {"succeeded", "rejected", "altered"}]
Rows == [event : Events, sequence : Nat, previous : Seq(Events), hash : Seq(Events)]
TypeOK ==
  /\ chain \in Seq(Rows) /\ lock \in Calls \union {Nobody}
  /\ checkpoints \in Seq([sequence : Nat, head : Seq(Events)])
  /\ \A c \in Calls : calls[c].step \in {"idle", "append", "commit", "reject"}
  /\ \A c \in Calls : lock = c <=> calls[c].step = "commit"
  /\ check.step \in {"idle", "pages", "checkpoint", "done"} /\ walk.step \in {"idle", "pages", "done"}

\* However transactions overlap on stale snapshots, fail and are run again, and with
\* rejections recorded between them, the events are one chain without a gap, and every
\* checkpoint is of an event of it.
OneChain ==
  ~damaged =>
    /\ \A i \in DOMAIN chain : chain[i] = Chained(SubSeq(chain, 1, i - 1), chain[i].event)
    /\ \A k \in DOMAIN checkpoints : chain[checkpoints[k].sequence].hash = checkpoints[k].head

\* A change of an invitation is committed with exactly one event of its success, also when
\* it was tried several times or its answer was lost (which may add one of its rejection).
RecordedOnce ==
  ~damaged => \A id \in 1 .. begun :
    LET succeeded == {i \in DOMAIN chain : chain[i].event.id = id /\ chain[i].event.outcome = "succeeded"}
    IN /\ \A i, j \in succeeded : i = j
       /\ id \in mutated <=> \E i \in succeeded : chain[i].event.kind = "change"

\* The pages of an export are a beginning of the chain with everything that was
\* committed before the first of them: no later commit has an earlier sequence.
WalkIsComplete ==
  walk.step = "done" /\ ~damaged =>
    Len(walk.shown) >= Len(walk.due) /\ walk.shown = SubSeq(chain, 1, Len(walk.shown))

\* verify() raises no false alarm while events and checkpoints are added between its
\* pages, and it does not pass a chain that is not the one the checkpoint was made of.
VerdictIsSound ==
  check.step = "done" =>
    /\ ~damaged => check.verdict
    /\ check.verdict /\ ~check.intact =>
         /\ Len(check.covered) <= Len(chain)
         /\ \A i \in DOMAIN check.covered : chain[i].event = check.covered[i]

\* "Rejected attempts append a separate safe event after the rejected transaction"
\* (docs/operations/audit-events.md:15): not when the answer to its COMMIT was lost.
RejectedDidNothing ==
  \A i \in DOMAIN chain : chain[i].event.outcome = "rejected" => chain[i].event.id \notin mutated

================================================================================
