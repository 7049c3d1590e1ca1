------------------------------ MODULE JobRecovery ------------------------------
(***************************************************************************)
(* The durable background jobs: RecoverableJobWorker.runOnce               *)
(* (packages/domain/src/job-recovery.ts) over PostgresJobRecoveryStore     *)
(* (packages/postgres/src/index.ts) and the cancellation of an operator    *)
(* (packages/domain/src/administration.ts).                                *)
(*                                                                         *)
(* A worker reads and writes a job in separate SQL statements; between two *)
(* of them its lease may run out, the operator may cancel, another worker  *)
(* may claim, the worker may crash or the store may not answer.  A handler *)
(* that timed out is not stopped: it goes on beside the next run.          *)
(*                                                                         *)
(* A lease token is random in the code; here it is the version of the row  *)
(* at the claim, which is as unique.  Backoff delays are abstracted to     *)
(* "some time", handler names and checkpoint contents to their progress.   *)
(***************************************************************************)
EXTENDS Naturals, FiniteSets

CONSTANTS
  Jobs, Workers,
  MaxAttempts,   \* max_attempts of every row
  MaxProgress,   \* bound: checkpoints a handler saves until its work is done
  MaxFaults      \* bound: crashes, store failures, leases lost by live workers

ASSUME JobAssumption ==
  /\ MaxAttempts \in Nat \ {0} /\ MaxProgress \in Nat /\ MaxFaults \in Nat

VARIABLES
  job,      \* the rows of background_jobs
  worker,   \* runOnce() of each worker
  zombies,  \* handlers that outlived their runOnce()
  faults

vars == <<job, worker, zombies, faults>>

Terminal == {"succeeded", "failed", "cancelled"}
NoLease == 0
Idle == [pc |-> "idle"]

Versions == Nat \ {0}
Rows == [status : {"queued", "running", "cancel_requested"} \union Terminal,
         attempts : 0..MaxAttempts, checkpoint : 0..MaxProgress,
         token : Nat, lease : {"none", "held", "expired"},
         version : Versions]
\* runOnce(): the claimed row as the worker last saw it, and its progress.
Runs == [pc : {"execute", "recheck", "complete", "recover", "cancel", "failure"},
         job : Jobs, token : Versions, version : Versions,
         attempts : 0..MaxAttempts, progress : 0..MaxProgress]
Handlers == [job : Jobs, token : Versions, version : Versions,
             progress : 0..MaxProgress]

Init ==
  /\ job = [j \in Jobs |-> [status |-> "queued", attempts |-> 0,
                            checkpoint |-> 0, token |-> NoLease,
                            lease |-> "none", version |-> 1]]
  /\ worker = [w \in Workers |-> Idle]
  /\ zombies = {}
  /\ faults = 0

--------------------------------------------------------------------------------
(* The statements of the store *)

\* The first UPDATE of claim(): an expired final attempt fails.
Exhausted(r) ==
  r.status = "running" /\ r.lease = "expired" /\ r.attempts >= MaxAttempts
\* (mutant) the row keeps its lease
SettledLeased(r, s) ==
  [r EXCEPT !.status = s, !.version = @ + 1]
Settled(r, s) ==
  [r EXCEPT !.status = s, !.token = NoLease, !.lease = "none",
            !.version = @ + 1]
FailExhausted ==
  [j \in Jobs |-> IF Exhausted(job[j]) THEN Settled(job[j], "failed")
                  ELSE job[j]]

\* (mutant) a cancellation is never taken from a holder that died
CancellableUnleased(r) == r.status = "cancel_requested" /\ r.lease = "none"

\* The candidates of its SELECT; cancellations come first.
Cancellable(r) ==
  r.status = "cancel_requested" /\ r.lease # "held"
Startable(r) ==
  /\ r.attempts < MaxAttempts
  /\ r.status = "queued" \/ (r.status = "running" /\ r.lease = "expired")
Candidates ==
  LET first == {j \in Jobs : Cancellable(job[j])} IN
  IF first # {} THEN first ELSE {j \in Jobs : Startable(job[j])}

\* (mutants) the status, or the lease alone, is enough
CurrentByStatus(r, h, s) == r.status = s
CurrentByLease(r, h, s) == r.token = h.token

\* saveCheckpoint() and the settling transitions are compare-and-set on the
\* token, the version and the status.
Current(r, h, s) ==
  r.status = s /\ r.token = h.token /\ r.version = h.version

\* A saved checkpoint extends the lease; the handler goes on from it.
Saved(r, h) ==
  [r EXCEPT !.checkpoint = h.progress + 1, !.lease = "held", !.version = @ + 1]
Advanced(h) == [h EXCEPT !.progress = @ + 1, !.version = @ + 1]

--------------------------------------------------------------------------------
(* RecoverableJobWorker.runOnce *)

\* claim(): fails exhausted jobs, leases a candidate and counts the attempt.
Claim(w, j) ==
  LET r == job[j]
      v == r.version + 1
      n == IF r.status = "cancel_requested" THEN r.attempts ELSE r.attempts + 1
  IN
  /\ worker[w] = Idle
  /\ j \in Candidates
  /\ job' = [FailExhausted EXCEPT ![j] =
       [r EXCEPT !.status = IF @ = "cancel_requested" THEN @ ELSE "running",
                 !.attempts = n, !.token = v, !.lease = "held",
                 !.version = v]]
  /\ worker' = [worker EXCEPT ![w] =
       [pc |-> IF r.status = "cancel_requested" THEN "recover" ELSE "execute",
        job |-> j, token |-> v, version |-> v, attempts |-> n,
        progress |-> r.checkpoint]]
  /\ UNCHANGED <<zombies, faults>>

ClaimNothing(w) ==
  /\ worker[w] = Idle
  /\ Candidates = {}
  /\ \E j \in Jobs : Exhausted(job[j])
  /\ job' = FailExhausted
  /\ UNCHANGED <<worker, zombies, faults>>

\* The handler saves its next checkpoint.  A refusal
\* reaches the handler as an exception it may or may not let through.
Checkpoint(w) ==
  LET h == worker[w]
      r == job[h.job] IN
  /\ h.pc = "execute"
  /\ h.progress < MaxProgress
  /\ IF Current(r, h, "running")
     THEN /\ job' = [job EXCEPT ![h.job] = Saved(r, h)]
          /\ worker' = [worker EXCEPT ![w] = Advanced(h)]
     ELSE /\ UNCHANGED job
          /\ \/ worker' = [worker EXCEPT ![w] = Idle]
             \/ worker' = [worker EXCEPT ![w] = [h EXCEPT !.progress = @ + 1]]
  /\ UNCHANGED <<zombies, faults>>

HandlerReturns(w) ==
  /\ worker[w].pc = "execute"
  /\ worker' = [worker EXCEPT ![w] = [worker[w] EXCEPT !.pc = "recheck"]]
  /\ UNCHANGED <<job, zombies, faults>>

HandlerFails(w) ==
  /\ worker[w].pc = "execute"
  /\ worker' = [worker EXCEPT ![w] = [worker[w] EXCEPT !.pc = "failure"]]
  /\ UNCHANGED <<job, zombies, faults>>

\* The execution timeout: the run goes on to settle, the handler too.
Timeout(w) ==
  LET h == worker[w] IN
  /\ h.pc = "execute"
  /\ worker' = [worker EXCEPT ![w] = [h EXCEPT !.pc = "failure"]]
  /\ zombies' = zombies \union {[job |-> h.job, token |-> h.token,
                                 version |-> h.version, progress |-> h.progress]}
  /\ UNCHANGED <<job, faults>>

\* cancellationState() after the handler, and of an interrupted cancellation.
CancellationState(w) ==
  LET h == worker[w]
      r == job[h.job] IN
  /\ h.pc \in {"recheck", "recover"}
  /\ IF r.token = h.token /\ r.status \in {"running", "cancel_requested"}
     THEN worker' = [worker EXCEPT ![w] =
            [h EXCEPT !.version = r.version,
                      !.pc = IF h.pc = "recover" \/ r.status = "cancel_requested"
                             THEN "cancel" ELSE "complete"]]
     ELSE worker' = [worker EXCEPT ![w] = Idle]
  /\ UNCHANGED <<job, zombies, faults>>

\* transition(): when the row moved on, the run ends as "lease_lost".
Transition(w, from, to) ==
  LET h == worker[w]
      r == job[h.job] IN
  /\ job' = IF Current(r, h, from)
            THEN [job EXCEPT ![h.job] = Settled(r, to)] ELSE job
  /\ worker' = [worker EXCEPT ![w] = Idle]
  /\ UNCHANGED <<zombies, faults>>

Complete(w) == worker[w].pc = "complete" /\ Transition(w, "running", "succeeded")

Cancel(w) ==
  worker[w].pc = "cancel" /\ Transition(w, "cancel_requested", "cancelled")

\* finishFailure(): the last attempt fails, an earlier one is scheduled again.
FinishFailure(w) ==
  /\ worker[w].pc = "failure"
  /\ Transition(w, "running", IF worker[w].attempts >= MaxAttempts
                              THEN "failed" ELSE "queued")

--------------------------------------------------------------------------------
(* Handlers after their timeout *)

ZombieCheckpoint(z) ==
  LET r == job[z.job] IN
  /\ z.progress < MaxProgress
  /\ IF Current(r, z, "running")
     THEN /\ job' = [job EXCEPT ![z.job] = Saved(r, z)]
          /\ zombies' = (zombies \ {z}) \union {Advanced(z)}
     ELSE /\ zombies' = zombies \ {z}
          /\ UNCHANGED job
  /\ UNCHANGED <<worker, faults>>

ZombieEnds(z) ==
  /\ zombies' = zombies \ {z}
  /\ UNCHANGED <<job, worker, faults>>

--------------------------------------------------------------------------------
(* The operator, time and faults *)

\* JobControlService.cancel: the lease, if there is one, stays.
RequestCancellation(j) ==
  /\ job[j].status \in {"queued", "running"}
  /\ job' = [job EXCEPT ![j].status = "cancel_requested", ![j].version = @ + 1]
  /\ UNCHANGED <<worker, zombies, faults>>

Holder(j, w) ==
  worker[w] # Idle /\ worker[w].job = j /\ worker[w].token = job[j].token

\* The lease of a worker that is gone runs out...
LeaseExpires(j) ==
  /\ job[j].lease = "held"
  /\ \A w \in Workers : ~Holder(j, w)
  /\ job' = [job EXCEPT ![j].lease = "expired"]
  /\ UNCHANGED <<worker, zombies, faults>>

\* ...or that of a worker that is only slow, or whose clock is.
LeaseOverrun(j) ==
  /\ faults < MaxFaults
  /\ job[j].lease = "held"
  /\ \E w \in Workers : Holder(j, w)
  /\ job' = [job EXCEPT ![j].lease = "expired"]
  /\ faults' = faults + 1
  /\ UNCHANGED <<worker, zombies>>

\* The process dies, or a statement of the store fails and runOnce() throws.
\* With a statement that committed before its answer was lost, this comes
\* right after the action of the statement.
Crash(w) ==
  /\ faults < MaxFaults
  /\ worker[w] # Idle
  /\ worker' = [worker EXCEPT ![w] = Idle]
  /\ faults' = faults + 1
  /\ UNCHANGED <<job, zombies>>

--------------------------------------------------------------------------------
RunOnce(w) ==
  \/ Checkpoint(w) \/ HandlerReturns(w) \/ HandlerFails(w) \/ Timeout(w)
  \/ CancellationState(w) \/ Complete(w) \/ Cancel(w) \/ FinishFailure(w)

Poll(w) == ClaimNothing(w) \/ \E j \in Jobs : Claim(w, j)

Next ==
  \/ \E w \in Workers : Poll(w) \/ RunOnce(w) \/ Crash(w)
  \/ \E z \in zombies : ZombieCheckpoint(z) \/ ZombieEnds(z)
  \/ \E j \in Jobs : RequestCancellation(j) \/ LeaseExpires(j) \/ LeaseOverrun(j)

Spec == Init /\ [][Next]_vars

\* Workers poll and their runs end (the execution timeout sees to that); a
\* lease nobody extends runs out.  Faults, the operator and handlers that
\* outlived their run owe nothing.
FairSpec ==
  /\ Spec
  /\ \A w \in Workers : WF_vars(Poll(w)) /\ WF_vars(RunOnce(w))
  /\ \A j \in Jobs : WF_vars(LeaseExpires(j))

--------------------------------------------------------------------------------
(* Properties *)

TypeOK ==
  /\ job \in [Jobs -> Rows]
  /\ worker \in [Workers -> Runs \union {Idle}]
  /\ zombies \subseteq Handlers
  /\ faults \in 0..MaxFaults

\* The rows keep the lease constraint of migration 41: a running job has a
\* lease, a queued or finished one has none, so no job is lost to every claim.
LeaseShape ==
  \A j \in Jobs :
    /\ job[j].status = "running" => job[j].token # NoLease
    /\ job[j].token # NoLease => job[j].status \in {"running", "cancel_requested"}
    /\ job[j].token # NoLease <=> job[j].lease # "none"

\* A lease that has not run out is given up by its holder or kept: no claim
\* replaces it, not even one that finishes a cancellation.
LeaseExclusive ==
  [][\A j \in Jobs :
       job[j].lease = "held"
         => job'[j].token \in {job[j].token, NoLease}]_vars

\* Late work cannot move a job back: checkpoints only grow, although a handler
\* that timed out goes on beside the attempt that resumed its checkpoint.
CheckpointMonotone ==
  [][\A j \in Jobs : job'[j].checkpoint >= job[j].checkpoint]_vars

\* ...and each comes from a handler of the current lease.
CheckpointByHolder ==
  [][\A j \in Jobs : job'[j].checkpoint # job[j].checkpoint =>
       \E h \in {worker[w] : w \in {v \in Workers : worker[v] # Idle}} \union zombies :
         /\ h.job = j
         /\ h.token = job[j].token
         /\ job'[j].checkpoint = h.progress + 1]_vars

\* The queue keeps the promises of JobLifecycle: attempts never exceed their
\* maximum, only the last one fails a job, a settled job is never touched
\* again, and a cancelled job never succeeds.
Lifecycle == INSTANCE JobLifecycle WITH
  status <- [j \in Jobs |-> job[j].status],
  attempts <- [j \in Jobs |-> job[j].attempts]
Implements == Lifecycle!Spec

\* Every job is settled in the end, whatever crashes, timeouts and late
\* checkpoints did to its leases.
EventuallySettled == \A j \in Jobs : <>(job[j].status \in Terminal)

\* A requested cancellation is finished, also when the worker it interrupted
\* is gone.
CancellationCompletes ==
  \A j \in Jobs :
    job[j].status = "cancel_requested" ~> job[j].status = "cancelled"

\* The rows as a whole: their types and the shape of their leases.
RowsSound == TypeOK /\ LeaseShape

\* Leases and checkpoints under late handlers and second workers.
CheckpointsSound == LeaseExclusive /\ CheckpointMonotone /\ CheckpointByHolder

\* Whatever is queued or cancelled comes to its end.
JobsSettle == EventuallySettled /\ CancellationCompletes

================================================================================
