----------------------------- MODULE PrivacyExports -----------------------------
(***************************************************************************)
(* Exports of personal and community data (packages/domain/src/            *)
(* privacy-export.ts): UserExportService and CommunityExportService over   *)
(* an ExportStore.  Every call of the store is awaited on its own; update()*)
(* compares the version; the object of a job has one name, private/<job>,  *)
(* as in the store the tests use.                                          *)
(***************************************************************************)
EXTENDS Naturals

CONSTANTS
  Jobs,      \* ids of jobs
  Calls,     \* calls of process(), revoke() and retrieve() in progress
  Life,      \* how long an archive lasts (7 days, or 48 hours)
  MaxTime,   \* (bound) the clock
  MaxTries,  \* (bound) how often a job is taken up
  MaxFaults  \* (bound) crashes and failing deletions

VARIABLES
  now,
  jobs,      \* export jobs, by id
  objects,   \* ids of the jobs whose object is stored
  permitted, \* jobs whose requester may still export their subject
  calls,     \* the calls in progress
  faults     \* workers that crashed, deletions that failed

vars == <<now, jobs, objects, permitted, calls, faults>>

Idle == [op |-> "idle"]
Absent == [kind |-> "none", status |-> "none", reference |-> FALSE, expires |-> 0, version |-> 0]
Settled == {"ready", "revoked"}

Init ==
  /\ now = 0
  /\ jobs = [j \in Jobs |-> Absent]
  /\ objects = {}
  /\ permitted = Jobs
  /\ calls = [c \in Calls |-> Idle]
  /\ faults = 0

--------------------------------------------------------------------------------
(* ExportStore *)

Fresh(j, version) == jobs[j].version = version
AnyVersion(j, version) == TRUE
Current(j, version) == Fresh(j, version)

Update(j, status, reference) ==
  jobs' = [jobs EXCEPT ![j].status = status, ![j].reference = reference, ![j].version = @ + 1]

At(c, step) == calls' = [calls EXCEPT ![c].step = step]
End(c) == calls' = [calls EXCEPT ![c] = Idle]
On(c, op, step) == calls[c] # Idle /\ calls[c].op = op /\ calls[c].step = step

--------------------------------------------------------------------------------
(* request() *)

\* The idempotency key and the limit of three a day only say that there is no
\* further job; here a job is one that was created.
MayRequest(j) == jobs[j] = Absent /\ j \in permitted
Request(j, kind) ==
  /\ MayRequest(j)
  /\ jobs' = [jobs EXCEPT ![j] = [kind |-> kind, status |-> "queued", reference |-> FALSE,
                                  expires |-> now + Life, version |-> 1]]
  /\ UNCHANGED <<now, objects, permitted, calls, faults>>

--------------------------------------------------------------------------------
(* process(): find, claim, collect and encrypt, put, publish *)

\* A job that is running may be taken up again.
MayStart(j) == jobs[j].version > 0 /\ jobs[j].status \notin Settled

Process(c, j) ==
  /\ calls[c] = Idle /\ MayStart(j) /\ jobs[j].version < 2 * MaxTries
  /\ calls' = [calls EXCEPT ![c] = [op |-> "process", job |-> j, version |-> jobs[j].version,
                                    put |-> FALSE,
                                    step |-> IF jobs[j].kind = "community" THEN "assert" ELSE "claim"]]
  /\ UNCHANGED <<now, jobs, objects, permitted, faults>>

\* Of the two services only the community's asks again, and before its claim.
AssertCommunityExport(c) ==
  /\ On(c, "process", "assert")
  /\ IF calls[c].job \in permitted THEN At(c, "claim") ELSE End(c)
  /\ UNCHANGED <<now, jobs, objects, permitted, faults>>

Claim(c) ==
  /\ On(c, "process", "claim")
  /\ LET j == calls[c].job  v == calls[c].version
     IN IF Current(j, v)
        THEN /\ Update(j, "running", jobs[j].reference)
             /\ calls' = [calls EXCEPT ![c].step = "build", ![c].version = v + 1]
        ELSE End(c) /\ UNCHANGED jobs
  /\ UNCHANGED <<now, objects, permitted, faults>>

\* Collecting, building or encrypting the archive may fail.
Build(c) ==
  /\ On(c, "process", "build")
  /\ \E step \in {"put", "fail"} : At(c, step)
  /\ UNCHANGED <<now, jobs, objects, permitted, faults>>

PutEncryptedObject(c) ==
  /\ On(c, "process", "put")
  /\ objects' = objects \union {calls[c].job}
  /\ calls' = [calls EXCEPT ![c].put = TRUE, ![c].step = "finish"]
  /\ UNCHANGED <<now, jobs, permitted, faults>>

Finish(c) ==
  /\ On(c, "process", "finish")
  /\ IF Current(calls[c].job, calls[c].version)
     THEN Update(calls[c].job, "ready", TRUE) /\ End(c)
     ELSE UNCHANGED jobs /\ At(c, "fail")
  /\ UNCHANGED <<now, objects, permitted, faults>>

\* The catch clause takes the object back under the name it was put.
TakesBack(c) == IF calls[c].put THEN {calls[c].job} ELSE {}
KeepsPart(c) == {}
Removed(c) == TakesBack(c)

CleanUp(c) ==
  /\ On(c, "process", "fail")
  /\ objects' = objects \ Removed(c)
  /\ At(c, "record")
  /\ UNCHANGED <<now, jobs, permitted, faults>>

RecordFailure(c) ==
  /\ On(c, "process", "record")
  /\ IF Current(calls[c].job, calls[c].version)
     THEN Update(calls[c].job, "failed", FALSE) ELSE UNCHANGED jobs
  /\ End(c)
  /\ UNCHANGED <<now, objects, permitted, faults>>

--------------------------------------------------------------------------------
(* revoke(): the object first, the job after it *)

Revoke(c, j) ==
  /\ calls[c] = Idle /\ jobs[j].version > 0 /\ jobs[j].status # "revoked"
  /\ jobs[j].kind = "community" => j \in permitted
  /\ calls' = [calls EXCEPT ![c] = [op |-> "revoke", job |-> j, version |-> jobs[j].version,
                                    put |-> jobs[j].reference,
                                    step |-> IF jobs[j].reference THEN "delete" ELSE "record"]]
  /\ UNCHANGED <<now, jobs, objects, permitted, faults>>

DeleteObject(c) ==
  /\ On(c, "revoke", "delete")
  /\ objects' = objects \ {calls[c].job}
  /\ At(c, "record")
  /\ UNCHANGED <<now, jobs, permitted, faults>>

RecordRevocation(c) ==
  /\ On(c, "revoke", "record")
  /\ IF Current(calls[c].job, calls[c].version)
     THEN Update(calls[c].job, "revoked", FALSE) ELSE UNCHANGED jobs
  /\ End(c)
  /\ UNCHANGED <<now, objects, permitted, faults>>

--------------------------------------------------------------------------------
(* retrieve(): the job, then its object *)

Retrieve(c, j) ==
  /\ calls[c] = Idle /\ j \in permitted
  /\ jobs[j].status = "ready" /\ jobs[j].reference /\ now < jobs[j].expires
  /\ calls' = [calls EXCEPT ![c] = [op |-> "retrieve", job |-> j, version |-> jobs[j].version,
                                    put |-> FALSE, step |-> "get"]]
  /\ UNCHANGED <<now, jobs, objects, permitted, faults>>

\* Without its object the answer is export_not_found.
GetEncryptedObject(c) ==
  /\ On(c, "retrieve", "get") /\ End(c)
  /\ UNCHANGED <<now, jobs, objects, permitted, faults>>

--------------------------------------------------------------------------------
(* The environment *)

\* A process ends, or deleteObject() throws: the call stops where it is.
Fault(c) ==
  /\ calls[c] # Idle /\ faults < MaxFaults
  /\ End(c) /\ faults' = faults + 1
  /\ UNCHANGED <<now, jobs, objects, permitted>>

Permission(j) ==
  /\ permitted' = IF j \in permitted THEN permitted \ {j} ELSE permitted \union {j}
  /\ UNCHANGED <<now, jobs, objects, calls, faults>>

Tick ==
  /\ now < MaxTime /\ now' = now + 1
  /\ UNCHANGED <<jobs, objects, permitted, calls, faults>>

Step(c) ==
  \/ AssertCommunityExport(c) \/ Claim(c) \/ Build(c) \/ PutEncryptedObject(c) \/ Finish(c)
  \/ CleanUp(c) \/ RecordFailure(c) \/ DeleteObject(c) \/ RecordRevocation(c)
  \/ GetEncryptedObject(c)

Next ==
  \/ \E j \in Jobs, kind \in {"user", "community"} : Request(j, kind)
  \/ \E c \in Calls, j \in Jobs : Process(c, j) \/ Revoke(c, j) \/ Retrieve(c, j)
  \/ \E c \in Calls : Step(c) \/ Fault(c)
  \/ \E j \in Jobs : Permission(j)
  \/ Tick

Spec == Init /\ [][Next]_vars

--------------------------------------------------------------------------------
TypeOK ==
  /\ now \in 0 .. MaxTime
  /\ \A j \in Jobs : /\ jobs[j].kind \in {"none", "user", "community"}
                     /\ jobs[j].status \in {"none", "queued", "running", "ready", "failed", "revoked"}
                     /\ jobs[j].reference \in BOOLEAN /\ jobs[j].version \in Nat
  /\ objects \subseteq Jobs /\ permitted \subseteq Jobs
  /\ \A c \in Calls : calls[c] # Idle => calls[c].op \in {"process", "revoke", "retrieve"} /\ calls[c].job \in Jobs
  /\ faults \in 0 .. MaxFaults

(* A job that is ready leaves that state only when it is revoked, and a revoked
   one never comes back, however many workers had taken the job up before. *)
SettledStaysSettled ==
  [][\A j \in Jobs : jobs[j].status \in Settled /\ jobs'[j] # jobs[j] =>
        jobs[j].status = "ready" /\ jobs'[j].status = "revoked"]_vars

(* When every call has come to its end and none was cut off, the objects that
   are stored belong to jobs that are ready: revocations, failures and workers
   that lost the job to another leave no archive behind.  A job stays ready when
   its time is over, and so does its archive: see ExpiredIsRemoved. *)
AtRest == faults = 0 /\ \A c \in Calls : calls[c] = Idle
NoArchiveIsLeft == AtRest => \A j \in objects : jobs[j].status = "ready"

(* Violated.  No archive outlives its job's time.  The status "expired" is only
   ever tested: retrieve() refuses the job, nothing deletes its object. *)
ExpiredIsRemoved == AtRest => \A j \in objects : now < jobs[j].expires

(* An archive that is ready can be retrieved: its object is stored. *)
ReadyHasObject ==
  (faults = 0) => \A j \in Jobs : jobs[j].status = "ready" =>
    j \in objects \/ \E c \in Calls : On(c, "revoke", "record") /\ calls[c].job = j
================================================================================
