------------------------------ MODULE JobLifecycle ------------------------------
(***************************************************************************)
(* What the job queue promises about a background job, without leases,     *)
(* versions, checkpoints or workers: docs/architecture/failure-recovery.md *)
(* and the statuses of background_jobs.  JobRecovery implements it.        *)
(***************************************************************************)
EXTENDS Naturals

CONSTANTS Jobs, MaxAttempts

VARIABLES status, attempts

lifecycleVars == <<status, attempts>>

Terminal == {"succeeded", "failed", "cancelled"}
Statuses == {"queued", "running", "cancel_requested"} \union Terminal

Init ==
  /\ status = [j \in Jobs |-> "queued"]
  /\ attempts = [j \in Jobs |-> 0]

\* A worker takes the job, for the first time or after its lease ran out.
Start(j) ==
  /\ status[j] \in {"queued", "running"}
  /\ attempts[j] < MaxAttempts
  /\ status'[j] = "running"
  /\ attempts'[j] = attempts[j] + 1

\* The attempt ends: the job waits for the next one, or is settled.  Only the
\* last attempt may fail the job.
EndAttempt(j) ==
  /\ status[j] = "running"
  /\ attempts'[j] = attempts[j]
  /\ \/ status'[j] = "queued" /\ attempts[j] < MaxAttempts
     \/ status'[j] = "failed" /\ attempts[j] = MaxAttempts
     \/ status'[j] = "succeeded"

\* A requested cancellation ends in nothing but a cancelled job.
RequestCancellation(j) ==
  /\ status[j] \in {"queued", "running"}
  /\ status'[j] = "cancel_requested"
  /\ attempts'[j] = attempts[j]
Cancel(j) ==
  /\ status[j] = "cancel_requested"
  /\ status'[j] = "cancelled"
  /\ attempts'[j] = attempts[j]

Keep(j) == status'[j] = status[j] /\ attempts'[j] = attempts[j]

\* One transaction may settle several jobs.
Next ==
  /\ status' \in [Jobs -> Statuses]
  /\ attempts' \in [Jobs -> 0..MaxAttempts]
  /\ \A j \in Jobs : \/ Start(j) \/ EndAttempt(j) \/ RequestCancellation(j)
                     \/ Cancel(j) \/ Keep(j)

Spec == Init /\ [][Next]_lifecycleVars
================================================================================
