----------------------------- MODULE AccountDeletion ----------------------------
(***************************************************************************)
(* Deletion of an account (packages/domain/src/account-deletion.ts):       *)
(* the owner schedules and cancels, workers process what is due.  Every    *)
(* call of the AccountDeletionStore is awaited on its own, and update()    *)
(* compares the version: owners, workers, legal holds and the transfer of  *)
(* communities interleave between any two of them.                         *)
(***************************************************************************)
EXTENDS Naturals, Sequences

CONSTANTS
  Jobs,      \* ids of jobs of the account
  Workers,   \* calls of process() in progress
  Keys,      \* idempotency keys
  CoolingOff, \* time before a job is due (seven days)
  MaxTime,   \* (bound) the clock
  MaxVersion, \* (bound) version of a job that is still taken up
  MaxFaults  \* (bound) failing steps and crashes

VARIABLES
  now,
  jobs,     \* deletion jobs, by id
  held,     \* has the account an active legal hold?
  sole,     \* is it the only owner of a community?
  owner,    \* the cancellation the owner waits for
  calls,    \* the calls of the workers
  done,     \* irreversible steps done: <<job, step>>
  faults

vars == <<now, jobs, held, sole, owner, calls, done, faults>>

Idle == [step |-> "idle"]
Absent == [status |-> "none", key |-> "none", due |-> 0, version |-> 0]
Over == {"cancelled", "completed"}

\* removeMemberships(), tombstoneAuthoredContent(), tombstoneIdentity(),
\* recordBackupExclusion(): in this order.
Steps == <<"memberships", "content", "identity", "exclusion">>

Init ==
  /\ now = 0
  /\ jobs = [j \in Jobs |-> Absent]
  /\ held = FALSE /\ sole = FALSE
  /\ owner = Idle
  /\ calls = [w \in Workers |-> Idle]
  /\ done = {} /\ faults = 0

Fresh(j, version) == jobs[j].version = version
AnyVersion(j, version) == TRUE
Current(j, version) == Fresh(j, version)

Update(j, status) == jobs' = [jobs EXCEPT ![j].status = status, ![j].version = @ + 1]

--------------------------------------------------------------------------------
(* request() and cancel() of the owner *)

\* findByAccount(): the job of the account that is not over.
Open == {j \in Jobs : jobs[j].status \notin Over \union {"none"}}

\* Asking again with the same key, or with another, changes nothing.
Request(j, key) ==
  /\ ~sole /\ Open = {} /\ jobs[j] = Absent
  /\ jobs' = [jobs EXCEPT ![j] = [status |-> "scheduled", key |-> key, due |-> now + CoolingOff, version |-> 1]]
  /\ UNCHANGED <<now, held, sole, owner, calls, done, faults>>

\* The time is the one the request came in with.
Cancel(j) ==
  /\ owner = Idle /\ jobs[j].status = "scheduled" /\ now < jobs[j].due
  /\ owner' = [step |-> "update", job |-> j, version |-> jobs[j].version]
  /\ UNCHANGED <<now, jobs, held, sole, calls, done, faults>>

CancelUpdate ==
  /\ owner # Idle
  /\ IF Current(owner.job, owner.version) THEN Update(owner.job, "cancelled") ELSE UNCHANGED jobs
  /\ owner' = Idle
  /\ UNCHANGED <<now, held, sole, calls, done, faults>>

--------------------------------------------------------------------------------
(* process() of a worker *)

At(w, step) == calls' = [calls EXCEPT ![w].step = step]
End(w) == calls' = [calls EXCEPT ![w] = Idle]

\* A job in the state "running" is in progress, for ever if its worker is gone.
MayProcess(j) == jobs[j].status \in {"scheduled", "blocked_hold", "failed"} /\ now >= jobs[j].due

Process(w, j) ==
  /\ calls[w] = Idle /\ MayProcess(j) /\ jobs[j].version < MaxVersion
  /\ calls' = [calls EXCEPT ![w] = [step |-> "owner", job |-> j, version |-> jobs[j].version, next |-> 1]]
  /\ UNCHANGED <<now, jobs, held, sole, owner, done, faults>>

AssertCanDelete(w) ==
  /\ calls[w].step = "owner"
  /\ IF sole THEN End(w) ELSE At(w, "hold")
  /\ UNCHANGED <<now, jobs, held, sole, owner, done, faults>>

HasActiveLegalHold(w) ==
  /\ calls[w].step = "hold"
  /\ At(w, IF held THEN "block" ELSE "claim")
  /\ UNCHANGED <<now, jobs, held, sole, owner, done, faults>>

Block(w) ==
  /\ calls[w].step = "block"
  /\ IF Current(calls[w].job, calls[w].version) THEN Update(calls[w].job, "blocked_hold") ELSE UNCHANGED jobs
  /\ End(w)
  /\ UNCHANGED <<now, held, sole, owner, done, faults>>

Claim(w) ==
  /\ calls[w].step = "claim"
  /\ IF Current(calls[w].job, calls[w].version)
     THEN /\ Update(calls[w].job, "running")
          /\ calls' = [calls EXCEPT ![w].step = "delete", ![w].version = @ + 1]
     ELSE UNCHANGED jobs /\ End(w)
  /\ UNCHANGED <<now, held, sole, owner, done, faults>>

\* Every attempt starts over with the first step; each is idempotent.
First(w) == calls[w].next
NextStep(w) == First(w)

Delete(w) ==
  /\ calls[w].step = "delete"
  /\ IF NextStep(w) <= Len(Steps)
     THEN /\ done' = done \union {<<calls[w].job, Steps[NextStep(w)]>>}
          /\ calls' = [calls EXCEPT ![w].next = NextStep(w) + 1]
          /\ UNCHANGED jobs
     ELSE /\ IF Current(calls[w].job, calls[w].version)
             THEN Update(calls[w].job, "completed") ELSE UNCHANGED jobs
          /\ End(w) /\ UNCHANGED done
  /\ UNCHANGED <<now, held, sole, owner, faults>>

\* A step that throws: the job is failed, and may be processed again.
StepFails(w) ==
  /\ calls[w].step = "delete" /\ faults < MaxFaults
  /\ faults' = faults + 1 /\ At(w, "fail")
  /\ UNCHANGED <<now, jobs, held, sole, owner, done>>

RecordFailure(w) ==
  /\ calls[w].step = "fail"
  /\ IF Current(calls[w].job, calls[w].version) THEN Update(calls[w].job, "failed") ELSE UNCHANGED jobs
  /\ End(w)
  /\ UNCHANGED <<now, held, sole, owner, done, faults>>

Crash(w) ==
  /\ calls[w] # Idle /\ faults < MaxFaults
  /\ faults' = faults + 1 /\ End(w)
  /\ UNCHANGED <<now, jobs, held, sole, owner, done>>

--------------------------------------------------------------------------------
(* The environment *)

\* A hold is placed and released, a community is transferred: by others.
Hold ==
  /\ held' = ~held /\ UNCHANGED <<now, jobs, sole, owner, calls, done, faults>>
Transfer ==
  /\ sole' = ~sole /\ UNCHANGED <<now, jobs, held, owner, calls, done, faults>>
Tick ==
  /\ now < MaxTime /\ now' = now + 1
  /\ UNCHANGED <<jobs, held, sole, owner, calls, done, faults>>

WorkerStep(w) ==
  \/ AssertCanDelete(w) \/ HasActiveLegalHold(w) \/ Block(w) \/ Claim(w)
  \/ Delete(w) \/ RecordFailure(w)

Next ==
  \/ \E j \in Jobs, key \in Keys : Request(j, key)
  \/ \E j \in Jobs : Cancel(j)
  \/ CancelUpdate
  \/ \E w \in Workers, j \in Jobs : Process(w, j)
  \/ \E w \in Workers : WorkerStep(w) \/ StepFails(w) \/ Crash(w)
  \/ Hold \/ Transfer \/ Tick

\* Time passes, and process() is called for what is due (again and again: a hold
\* or a community may be in the way of one call) and carried on.
Fairness ==
  /\ WF_vars(Tick)
  /\ \A w \in Workers, j \in Jobs : WF_vars(Process(w, j))
  /\ \A w \in Workers : WF_vars(WorkerStep(w))

Spec == Init /\ [][Next]_vars /\ Fairness

--------------------------------------------------------------------------------
TypeOK ==
  /\ now \in 0 .. MaxTime
  /\ \A j \in Jobs : jobs[j].status \in {"none", "scheduled", "running", "blocked_hold", "completed", "cancelled", "failed"}
  /\ held \in BOOLEAN /\ sole \in BOOLEAN
  /\ owner # Idle => owner.job \in Jobs
  /\ \A w \in Workers : calls[w] # Idle => calls[w].job \in Jobs /\ calls[w].next \in 1 .. 5
  /\ done \subseteq Jobs \X {"memberships", "content", "identity", "exclusion"}
  /\ faults \in 0 .. MaxFaults

(* An account whose deletion was cancelled has lost nothing to it: whichever of
   the cancellation and the claim comes first, the other finds another version,
   even when both had read the job before and the cooling-off ended in between. *)
CancelledIsUntouched ==
  \A j \in Jobs : jobs[j].status = "cancelled" => \A s \in 1 .. 4 : <<j, Steps[s]>> \notin done

(* A completed deletion did every step, whatever attempts failed or crashed on
   the way, and no step is ever done out of its order. *)
CompletedIsComplete ==
  \A j \in Jobs :
    /\ jobs[j].status = "completed" => \A s \in 1 .. 4 : <<j, Steps[s]>> \in done
    /\ \A s \in 2 .. 4 : <<j, Steps[s]>> \in done => <<j, Steps[s - 1]>> \in done

(* docs/privacy/data-lifecycle.md, "Holds supersede retention and account
   deletion": no step is done while the account has a legal hold. *)
HoldSupersedes == [][done' # done => ~held]_vars

(* docs/privacy/data-lifecycle.md, "Interrupted workers resume from persisted
   checkpoints": a deletion a worker began is completed, or waits for a hold. *)
InterruptedResumes ==
  \A j \in Jobs : jobs[j].status = "running" ~> jobs[j].status # "running"
================================================================================
