----------------------------- MODULE MCJobRecovery -----------------------------
(* Small instances of the work in the background for TLC: the queue of jobs, and *)
(* retention.  The initial state chooses the part that acts; the other stays as  *)
(* it begins.                                                                   *)
EXTENDS JobRecovery, TLC

CONSTANT Messages

VARIABLES
  part,
  \* Retention
  now, policy, deleted, held, body, checkpoint, batch, failures

retentionVars == <<now, policy, deleted, held, body, checkpoint, batch, failures>>

Retention == INSTANCE Retention WITH
  Scopes <- {"space"}, Limit <- 1, Default <- [retain |-> 2, tombstone |-> 2],
  Policies <- {[retain |-> 1, tombstone |-> 1]}, MaxTime <- 3, MaxFailures <- 1

MCInit == part \in {"queue", "retention"} /\ Init /\ Retention!Init
MCNext ==
  /\ UNCHANGED part
  /\ \/ part = "queue" /\ Next /\ UNCHANGED retentionVars
     \/ part = "retention" /\ Retention!Next /\ UNCHANGED vars

\* The fairness of the queue and of retention, each in its part.
MCSpec ==
  /\ MCInit /\ [][MCNext]_<<vars, retentionVars, part>>
  /\ \A w \in Workers :
       /\ WF_vars(part = "queue" /\ Poll(w)) /\ WF_vars(part = "queue" /\ RunOnce(w))
  /\ \A j \in Jobs : WF_vars(part = "queue" /\ LeaseExpires(j))
  /\ WF_retentionVars(part = "retention" /\ Retention!Tick)
  /\ SF_retentionVars(part = "retention" /\ Retention!Start(FALSE))
  /\ WF_retentionVars(part = "retention"
       /\ (Retention!Check \/ Retention!Purge \/ Retention!SaveCheckpoint))

--------------------------------------------------------------------------------
\* Whatever is queued or cancelled comes to its end (job-recovery.ts; JobRecovery,
\* JobsSettle).
QueueSettles == part = "queue" => JobsSettle

\* A tombstone is kept as long as it has to be although batches fail and policies
\* change, and what is due is purged in the end (retention.ts).
RetentionKept ==
  /\ []Retention!TypeOK /\ Retention!TombstoneIsKept
  /\ part = "retention" => Retention!DueIsPurged

================================================================================
