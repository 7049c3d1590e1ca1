--------------------------- MODULE JobRecoveryProofs ---------------------------
(* Theorems about JobRecovery for any jobs, workers, attempts and faults.     *)
EXTENDS JobRecovery, TLAPS

--------------------------------------------------------------------------------
(* Types *)

LEMMA VersionFacts ==
  /\ 1 \in Versions /\ NoLease \notin Versions /\ NoLease \in Nat
  /\ \A v \in Versions : v \in Nat /\ v + 1 \in Versions /\ v + 1 \in Nat /\ v < v + 1
BY DEF Versions, NoLease

LEMMA ProgressFacts ==
  \A p \in 0..MaxProgress : p < MaxProgress => p + 1 \in 0..MaxProgress
BY JobAssumption

LEMMA TypeInit == Init => TypeOK
<1>1. 0 \in 0..MaxAttempts /\ 0 \in 0..MaxProgress /\ 0 \in 0..MaxFaults
  BY JobAssumption
<1> QED
  BY <1>1, VersionFacts DEF Init, TypeOK, Rows, Idle

\* Settling a row, alone or with claim()'s first UPDATE, yields a row.
LEMMA SettledType ==
  ASSUME NEW r \in Rows, NEW s \in Terminal \union {"queued"}
  PROVE  /\ Settled(r, s) \in Rows
         /\ Settled(r, s).status = s
         /\ Settled(r, s).token = NoLease
         /\ Settled(r, s).lease = "none"
         /\ Settled(r, s).attempts = r.attempts
         /\ Settled(r, s).checkpoint = r.checkpoint
         /\ Settled(r, s).version = r.version + 1
<1>1. r.version + 1 \in Versions /\ NoLease \in Nat
  BY VersionFacts DEF Rows
<1> QED
  BY <1>1 DEF Settled, Rows

LEMMA SavedType ==
  ASSUME NEW r \in Rows, NEW h, h.progress + 1 \in 0..MaxProgress
  PROVE  /\ Saved(r, h) \in Rows
         /\ Saved(r, h).status = r.status
         /\ Saved(r, h).token = r.token
         /\ Saved(r, h).lease = "held"
         /\ Saved(r, h).attempts = r.attempts
         /\ Saved(r, h).checkpoint = h.progress + 1
         /\ Saved(r, h).version = r.version + 1
<1>1. r.version + 1 \in Versions
  BY VersionFacts DEF Rows
<1> QED
  BY <1>1 DEF Saved, Rows

LEMMA AdvancedType ==
  ASSUME NEW h \in Runs \union Handlers, h.progress < MaxProgress
  PROVE  /\ h \in Runs => /\ Advanced(h) \in Runs
                           /\ Advanced(h).pc = h.pc
                           /\ Advanced(h).attempts = h.attempts
         /\ h \in Handlers => Advanced(h) \in Handlers
         /\ h.progress + 1 \in 0..MaxProgress
         /\ Advanced(h).job = h.job
         /\ Advanced(h).token = h.token
         /\ Advanced(h).version = h.version + 1
         /\ Advanced(h).progress = h.progress + 1
<1>1. h.version \in Versions /\ h.progress \in 0..MaxProgress
  BY DEF Runs, Handlers
<1>2. h.version + 1 \in Versions /\ h.progress + 1 \in 0..MaxProgress
  BY <1>1, VersionFacts, ProgressFacts
<1>3. CASE h \in Runs
  BY <1>2, <1>3 DEF Advanced, Runs, Handlers
<1>4. CASE h \in Handlers
  BY <1>2, <1>4 DEF Advanced, Runs, Handlers
<1> QED
  BY <1>3, <1>4

LEMMA FailExhaustedType ==
  ASSUME job \in [Jobs -> Rows]
  PROVE  /\ FailExhausted \in [Jobs -> Rows]
         /\ \A j \in Jobs :
              FailExhausted[j] = IF Exhausted(job[j])
                                 THEN Settled(job[j], "failed") ELSE job[j]
BY SettledType DEF FailExhausted, Terminal

\* What a claim writes to the row and remembers of it.
LEMMA ClaimType ==
  ASSUME TypeOK, NEW w \in Workers, NEW j \in Jobs, Claim(w, j)
  PROVE  /\ TypeOK'
         /\ job'[j].attempts = IF job[j].status = "cancel_requested"
                               THEN job[j].attempts ELSE job[j].attempts + 1
         /\ job'[j].status = IF job[j].status = "cancel_requested"
                             THEN "cancel_requested" ELSE "running"
         /\ job'[j].checkpoint = job[j].checkpoint
         /\ job'[j].version = job[j].version + 1
         /\ job'[j].token = job[j].version + 1
         /\ job'[j].lease = "held"
         /\ \A i \in Jobs \ {j} : job'[i] = FailExhausted[i]
         /\ Cancellable(job[j]) \/ Startable(job[j])
<1> DEFINE r == job[j]
           n == IF r.status = "cancel_requested" THEN r.attempts ELSE r.attempts + 1
           row == [r EXCEPT !.status = IF @ = "cancel_requested" THEN @ ELSE "running",
                            !.attempts = n, !.token = r.version + 1,
                            !.lease = "held", !.version = r.version + 1]
           run == [pc |-> IF r.status = "cancel_requested" THEN "recover" ELSE "execute",
                   job |-> j, token |-> r.version + 1, version |-> r.version + 1,
                   attempts |-> n, progress |-> r.checkpoint]
<1>1. r \in Rows
  BY DEF TypeOK
<1>2. /\ job' = [FailExhausted EXCEPT ![j] = row]
      /\ worker' = [worker EXCEPT ![w] = run]
      /\ UNCHANGED <<zombies, faults>>
  BY DEF Claim
<1>3. Cancellable(r) \/ Startable(r)
  BY DEF Claim, Candidates
<1>4. n \in 0..MaxAttempts
  BY <1>1, <1>3, JobAssumption DEF Cancellable, Startable, Rows
<1> HIDE DEF n
<1>5. row \in Rows
  <2>1. r.version + 1 \in Versions /\ r.version + 1 \in Nat
    BY <1>1, VersionFacts DEF Rows
  <2> QED
    BY <1>1, <1>4, <2>1 DEF Rows
<1>6. run \in Runs
  <2>1. r.version + 1 \in Versions /\ r.checkpoint \in 0..MaxProgress
    BY <1>1, VersionFacts DEF Rows
  <2> QED
    BY <1>4, <2>1 DEF Runs
<1>7. job' \in [Jobs -> Rows] /\ job'[j] = row
  BY <1>2, <1>5, FailExhaustedType DEF TypeOK
<1>8. \A i \in Jobs \ {j} : job'[i] = FailExhausted[i]
  BY <1>2, FailExhaustedType DEF TypeOK
<1>9. TypeOK'
  BY <1>2, <1>6, <1>7 DEF TypeOK
<1> QED
  BY <1>1, <1>3, <1>7, <1>8, <1>9 DEF Rows, n

LEMMA TransitionType ==
  ASSUME TypeOK, NEW w \in Workers, worker[w] \in Runs,
         NEW from, NEW to \in Terminal \union {"queued"}, Transition(w, from, to)
  PROVE  TypeOK'
<1>1. worker[w].job \in Jobs
  BY DEF Runs
<1>2. Settled(job[worker[w].job], to) \in Rows
  BY <1>1, SettledType DEF TypeOK
<1> QED
  BY <1>1, <1>2 DEF Transition, TypeOK

LEMMA TypeStep ==
  ASSUME TypeOK, [Next]_vars
  PROVE  TypeOK'
<1> USE DEF TypeOK
<1>1. CASE UNCHANGED vars
  BY <1>1 DEF vars
<1>2. ASSUME NEW w \in Workers, Poll(w) PROVE TypeOK'
  <2>1. CASE ClaimNothing(w)
    BY <2>1, FailExhaustedType DEF ClaimNothing
  <2>2. CASE \E j \in Jobs : Claim(w, j)
    BY <2>2, ClaimType
  <2> QED
    BY <1>2, <2>1, <2>2 DEF Poll
<1>3. ASSUME NEW w \in Workers, RunOnce(w) PROVE TypeOK'
  <2>1. worker[w] \in Runs
    BY <1>3 DEF RunOnce, Idle, Checkpoint, HandlerReturns, HandlerFails, Timeout,
                CancellationState, Complete, Cancel, FinishFailure
  <2>2. worker[w].job \in Jobs /\ job[worker[w].job] \in Rows
    BY <2>1 DEF Runs
  <2>3. CASE Checkpoint(w)
    <3>1. worker[w].progress < MaxProgress
      BY <2>3 DEF Checkpoint
    <3>2. /\ Saved(job[worker[w].job], worker[w]) \in Rows
          /\ Advanced(worker[w]) \in Runs
          /\ [worker[w] EXCEPT !.progress = @ + 1] \in Runs
      <4>1. worker[w].progress + 1 \in 0..MaxProgress
        BY <2>1, <3>1, AdvancedType
      <4> QED
        BY <2>1, <2>2, <3>1, <4>1, SavedType, AdvancedType DEF Runs
    <3> QED
      BY <2>2, <2>3, <3>2 DEF Checkpoint
  <2>4. CASE HandlerReturns(w) \/ HandlerFails(w)
    BY <2>1, <2>4 DEF HandlerReturns, HandlerFails, Runs
  <2>5. CASE Timeout(w)
    BY <2>1, <2>5 DEF Timeout, Runs, Handlers
  <2>6. CASE CancellationState(w)
    <3>1. \A p \in {"cancel", "complete"} :
            [worker[w] EXCEPT !.version = job[worker[w].job].version, !.pc = p] \in Runs
      BY <2>1, <2>2 DEF Runs, Rows
    <3> QED
      BY <2>6, <3>1 DEF CancellationState
  <2>7. CASE Complete(w)
    BY <2>1, <2>7, TransitionType DEF Complete, Terminal
  <2>8. CASE Cancel(w)
    BY <2>1, <2>8, TransitionType DEF Cancel, Terminal
  <2>9. CASE FinishFailure(w)
    BY <2>1, <2>9, TransitionType DEF FinishFailure, Terminal
  <2> QED
    BY <1>3, <2>3, <2>4, <2>5, <2>6, <2>7, <2>8, <2>9 DEF RunOnce
<1>4. ASSUME NEW w \in Workers, Crash(w) PROVE TypeOK'
  BY <1>4, JobAssumption DEF Crash
<1>5. ASSUME NEW z \in zombies, ZombieCheckpoint(z) \/ ZombieEnds(z) PROVE TypeOK'
  <2>1. z \in Handlers /\ z.job \in Jobs /\ job[z.job] \in Rows
    BY DEF Handlers
  <2>2. CASE ZombieCheckpoint(z)
    <3>1. z.progress < MaxProgress
      BY <2>2 DEF ZombieCheckpoint
    <3>2. Saved(job[z.job], z) \in Rows /\ Advanced(z) \in Handlers
      BY <2>1, <3>1, SavedType, AdvancedType
    <3> QED
      BY <2>1, <2>2, <3>2 DEF ZombieCheckpoint
  <2>3. CASE ZombieEnds(z)
    BY <2>3 DEF ZombieEnds
  <2> QED
    BY <1>5, <2>2, <2>3
<1>6. ASSUME NEW j \in Jobs,
             RequestCancellation(j) \/ LeaseExpires(j) \/ LeaseOverrun(j)
      PROVE  TypeOK'
  <2>1. job[j] \in Rows /\ job[j].version + 1 \in Versions
    BY VersionFacts DEF Rows
  <2>2. CASE RequestCancellation(j)
    BY <2>1, <2>2 DEF RequestCancellation, Rows
  <2>3. CASE LeaseExpires(j)
    BY <2>1, <2>3 DEF LeaseExpires, Rows
  <2>4. CASE LeaseOverrun(j)
    BY <2>1, <2>4, JobAssumption DEF LeaseOverrun, Rows
  <2> QED
    BY <1>6, <2>2, <2>3, <2>4
<1> QED
  BY <1>1, <1>2, <1>3, <1>4, <1>5, <1>6 DEF Next

\* Rows, runs and late handlers keep their types; attempts never exceed their
\* maximum.
THEOREM TypeCorrect == Spec => []TypeOK
BY TypeInit, TypeStep, PTL DEF Spec

--------------------------------------------------------------------------------
(* The inductive invariant.  The version of a row grows with every write, so a *)
(* handler that remembers the current version saw the last write.              *)

\* What a run or a late handler remembers is not newer than the row...
Remembers(h) ==
  h.token <= job[h.job].version /\ h.version <= job[h.job].version
\* ...the holder of the lease knows the number of its attempt...
KnowsAttempt(h) ==
  job[h.job].token = h.token => job[h.job].attempts = h.attempts
\* ...and who knows the current version resumed or wrote the last checkpoint.
KnowsCheckpoint(h) ==
  h.version = job[h.job].version =>
    /\ job[h.job].status = "running"
    /\ job[h.job].token = h.token
    /\ job[h.job].checkpoint = h.progress

RunInv ==
  \A w \in Workers : worker[w] # Idle =>
    /\ Remembers(worker[w])
    /\ KnowsAttempt(worker[w])
    /\ worker[w].pc = "execute" => KnowsCheckpoint(worker[w])
ZombieInv == \A z \in zombies : Remembers(z) /\ KnowsCheckpoint(z)

JobInv == TypeOK /\ RunInv /\ ZombieInv

\* How any step may change a row.
RowChange(j) ==
  LET r == job[j]
      s == job'[j] IN
  /\ s.version \in {r.version, r.version + 1}
  /\ s.version = r.version => /\ s.status = r.status /\ s.token = r.token
                             /\ s.attempts = r.attempts
                             /\ s.checkpoint = r.checkpoint
  /\ s.token \in {r.token, NoLease, r.version + 1}
  /\ s.token = r.token /\ r.token # r.version + 1 => s.attempts = r.attempts

LEMMA RowStep ==
  ASSUME TypeOK, [Next]_vars, NEW i \in Jobs
  PROVE  RowChange(i)
<1> USE DEF RowChange
<1>0. /\ job[i] \in Rows /\ job[i].version \in Versions /\ job[i].token \in Nat
      /\ job[i].version + 1 # job[i].version /\ NoLease \notin Versions
      /\ job[i].version + 1 \in Versions
  BY VersionFacts DEF TypeOK, Rows
<1>1. CASE job'[i] = job[i]
  BY <1>1
<1>2. ASSUME NEW w \in Workers, Poll(w) PROVE RowChange(i)
  <2>1. CASE job'[i] = FailExhausted[i]
    <3>1. CASE Exhausted(job[i])
      <4>1. job'[i] = Settled(job[i], "failed")
        BY <2>1, <3>1, FailExhaustedType DEF TypeOK
      <4>2. "failed" \in Terminal \union {"queued"}
        BY DEF Terminal
      <4> QED
        BY <1>0, <4>1, <4>2, SettledType
    <3>2. CASE ~Exhausted(job[i])
      BY <1>1, <2>1, <3>2, FailExhaustedType DEF TypeOK
    <3> QED
      BY <3>1, <3>2
  <2>2. ASSUME NEW j \in Jobs, Claim(w, j) PROVE RowChange(i)
    <3>1. CASE i = j
      <4>1. /\ job'[i].version = job[i].version + 1
            /\ job'[i].token = job[i].version + 1
        BY <2>2, <3>1, ClaimType
      <4> QED
        BY <1>0, <4>1
    <3>2. CASE i # j
      BY <2>1, <2>2, <3>2, ClaimType
    <3> QED
      BY <3>1, <3>2
  <2> QED
    BY <1>2, <2>1, <2>2 DEF Poll, ClaimNothing
<1>3. ASSUME NEW w \in Workers, RunOnce(w), job'[i] # job[i] PROVE RowChange(i)
  <2>1. worker[w] \in Runs /\ worker[w].job \in Jobs
    BY <1>3 DEF RunOnce, Idle, Checkpoint, HandlerReturns, HandlerFails, Timeout,
                CancellationState, Complete, Cancel, FinishFailure, TypeOK, Runs
  <2>2. CASE Checkpoint(w)
    <3>1. worker[w].progress < MaxProgress /\ job'[i] = Saved(job[i], worker[w])
      BY <1>3, <2>1, <2>2 DEF Checkpoint, TypeOK
    <3> QED
      BY <1>0, <2>1, <3>1, SavedType, AdvancedType
  <2>3. ASSUME NEW from, NEW to \in Terminal \union {"queued"},
               Transition(w, from, to)
        PROVE  RowChange(i)
    <3>1. job'[i] = Settled(job[i], to)
      BY <1>3, <2>1, <2>3 DEF Transition, TypeOK
    <3> QED
      BY <1>0, <3>1, SettledType
  <2> QED
    BY <1>3, <2>2, <2>3 DEF RunOnce, HandlerReturns, HandlerFails, Timeout,
       CancellationState, Complete, Cancel, FinishFailure, Terminal
<1>4. ASSUME NEW z \in zombies, ZombieCheckpoint(z), job'[i] # job[i]
      PROVE  RowChange(i)
  <2>1. z \in Handlers /\ z.job \in Jobs
    BY DEF TypeOK, Handlers
  <2>2. z.progress < MaxProgress /\ job'[i] = Saved(job[i], z)
    BY <1>4, <2>1 DEF ZombieCheckpoint, TypeOK
  <2> QED
    BY <1>0, <2>1, <2>2, SavedType, AdvancedType
<1>5. ASSUME NEW j \in Jobs, RequestCancellation(j), job'[i] # job[i]
      PROVE  RowChange(i)
  <2>1. job'[i] = [job[i] EXCEPT !.status = "cancel_requested", !.version = @ + 1]
    BY <1>5 DEF RequestCancellation, TypeOK
  <2> QED
    BY <1>0, <2>1 DEF Rows
<1>6. ASSUME NEW j \in Jobs, LeaseExpires(j) \/ LeaseOverrun(j), job'[i] # job[i]
      PROVE  RowChange(i)
  <2>1. job'[i] = [job[i] EXCEPT !.lease = "expired"]
    BY <1>6 DEF LeaseExpires, LeaseOverrun, TypeOK
  <2> QED
    BY <1>0, <2>1 DEF Rows
<1> QED
  BY <1>1, <1>2, <1>3, <1>4, <1>5, <1>6
     DEF Next, vars, Crash, ZombieEnds

\* What was remembered before a step stays right after it.
LEMMA MemoryStep ==
  ASSUME TypeOK, [Next]_vars, NEW h, h.job \in Jobs,
         h.token \in Versions, h.version \in Versions, Remembers(h)
  PROVE  /\ h.token <= job'[h.job].version
         /\ h.version <= job'[h.job].version
         /\ KnowsAttempt(h) /\ job'[h.job].token = h.token
              => job'[h.job].attempts = h.attempts
         /\ KnowsCheckpoint(h) /\ h.version = job'[h.job].version =>
              /\ job'[h.job].status = "running"
              /\ job'[h.job].token = h.token
              /\ job'[h.job].checkpoint = h.progress
<1>1. RowChange(h.job)
  BY RowStep
<1>2. job[h.job].version \in Nat /\ h.token \in Nat /\ h.version \in Nat
      /\ h.token # NoLease
  BY VersionFacts DEF TypeOK, Rows
<1>3. h.token <= job[h.job].version /\ h.version <= job[h.job].version
  BY DEF Remembers
<1>4. h.token # job[h.job].version + 1 /\ h.version # job[h.job].version + 1
  BY <1>2, <1>3
<1> QED
  BY <1>1, <1>2, <1>3, <1>4 DEF RowChange, KnowsAttempt, KnowsCheckpoint

LEMMA InvInit == Init => RunInv /\ ZombieInv
BY DEF Init, RunInv, ZombieInv

\* A run whose row did not change under it stays right when it only moves on.
LEMMA RunStep ==
  ASSUME JobInv, [Next]_vars, NEW w \in Workers, worker'[w] # Idle
  PROVE  /\ Remembers(worker[w])'
         /\ KnowsAttempt(worker[w])'
         /\ worker'[w].pc = "execute" => KnowsCheckpoint(worker[w])'
<1> USE DEF JobInv
<1>1. CASE worker'[w] = worker[w]
  <2>1. worker[w] \in Runs /\ worker[w].job \in Jobs
        /\ worker[w].token \in Versions /\ worker[w].version \in Versions
    BY <1>1 DEF TypeOK, Runs
  <2>2. /\ Remembers(worker[w]) /\ KnowsAttempt(worker[w])
        /\ worker[w].pc = "execute" => KnowsCheckpoint(worker[w])
    BY <1>1 DEF RunInv
  <2> QED
    BY <1>1, <2>1, <2>2, MemoryStep DEF Remembers, KnowsAttempt, KnowsCheckpoint
<1>2. CASE /\ UNCHANGED job
           /\ worker[w] \in Runs /\ worker'[w] \in Runs
           /\ worker'[w].job = worker[w].job
           /\ worker'[w].token = worker[w].token
           /\ worker'[w].attempts = worker[w].attempts
           /\ worker'[w].version \in {worker[w].version, job[worker[w].job].version}
           /\ worker'[w].pc = "execute" =>
                /\ worker[w].pc = "execute" /\ worker'[w].version = worker[w].version
                /\ ~Current(job[worker[w].job], worker[w], "running")
  <2>1. worker[w] # Idle /\ job[worker[w].job].version \in Nat
    <3>1. worker[w].pc # "idle" /\ worker[w].job \in Jobs
      BY <1>2 DEF Runs
    <3>2. job[worker[w].job].version \in Versions
      BY <3>1 DEF TypeOK, Rows
    <3>3. job[worker[w].job].version \in Nat
      BY <3>2, VersionFacts
    <3> QED
      BY <3>1, <3>3 DEF Idle
  <2>2. /\ Remembers(worker[w]) /\ KnowsAttempt(worker[w])
        /\ worker[w].pc = "execute" => KnowsCheckpoint(worker[w])
    BY <2>1 DEF RunInv
  <2>3. Remembers(worker[w])'
    BY <1>2, <2>1, <2>2 DEF Remembers
  <2>4. KnowsAttempt(worker[w])'
    BY <1>2, <2>2 DEF KnowsAttempt
  <2>5. worker'[w].pc = "execute" => KnowsCheckpoint(worker[w])'
    BY <1>2, <2>2 DEF KnowsCheckpoint, Current
  <2> QED
    BY <2>3, <2>4, <2>5
<1>3. ASSUME NEW j \in Jobs, Claim(w, j)
      PROVE  /\ Remembers(worker[w])'
             /\ KnowsAttempt(worker[w])'
             /\ worker'[w].pc = "execute" => KnowsCheckpoint(worker[w])'
  <2>1. /\ worker'[w].job = j
        /\ worker'[w].token = job[j].version + 1
        /\ worker'[w].version = job[j].version + 1
        /\ worker'[w].progress = job[j].checkpoint
        /\ worker'[w].attempts = IF job[j].status = "cancel_requested"
                                 THEN job[j].attempts ELSE job[j].attempts + 1
        /\ worker'[w].pc = IF job[j].status = "cancel_requested"
                           THEN "recover" ELSE "execute"
    BY <1>3 DEF Claim, TypeOK
  <2>2. job[j].version + 1 \in Nat
    BY VersionFacts DEF TypeOK, Rows
  <2>3. /\ job'[j].attempts = IF job[j].status = "cancel_requested"
                              THEN job[j].attempts ELSE job[j].attempts + 1
        /\ job'[j].status = IF job[j].status = "cancel_requested"
                            THEN "cancel_requested" ELSE "running"
        /\ job'[j].checkpoint = job[j].checkpoint
        /\ job'[j].version = job[j].version + 1
        /\ job'[j].token = job[j].version + 1
    BY <1>3, ClaimType
  <2> QED
    BY <2>1, <2>2, <2>3 DEF Remembers, KnowsAttempt, KnowsCheckpoint
<1>4. ASSUME RunOnce(w)
      PROVE  /\ Remembers(worker[w])'
             /\ KnowsAttempt(worker[w])'
             /\ worker'[w].pc = "execute" => KnowsCheckpoint(worker[w])'
  <2> DEFINE h == worker[w]
             r == job[h.job]
  <2>1. h \in Runs /\ h # Idle /\ h.job \in Jobs /\ r \in Rows
    BY <1>4 DEF RunOnce, Idle, Checkpoint, HandlerReturns, HandlerFails, Timeout,
                CancellationState, Complete, Cancel, FinishFailure, TypeOK, Runs
  <2>2. worker'[w] \in Runs
    BY TypeStep DEF TypeOK
  <2>3. CASE Checkpoint(w) /\ Current(r, h, "running")
    <3>1. h.progress < MaxProgress /\ h.pc = "execute"
          /\ job'[h.job] = Saved(r, h) /\ worker'[w] = Advanced(h)
      BY <2>1, <2>3 DEF Checkpoint, TypeOK
    <3>2. /\ Advanced(h).job = h.job /\ Advanced(h).token = h.token
          /\ Advanced(h).version = h.version + 1
          /\ Advanced(h).progress = h.progress + 1
          /\ Advanced(h).attempts = h.attempts
          /\ h.progress + 1 \in 0..MaxProgress
      BY <2>1, <3>1, AdvancedType
    <3>3. /\ Saved(r, h).status = r.status /\ Saved(r, h).token = r.token
          /\ Saved(r, h).version = r.version + 1
          /\ Saved(r, h).checkpoint = h.progress + 1
          /\ Saved(r, h).attempts = r.attempts
      BY <2>1, <3>2, SavedType
    <3>4. r.version \in Nat /\ h.token \in Nat
          /\ Remembers(h) /\ KnowsAttempt(h)
      BY <2>1, VersionFacts DEF RunInv, Runs, Rows
    <3> QED
      BY <2>3, <3>1, <3>2, <3>3, <3>4
         DEF Remembers, KnowsAttempt, KnowsCheckpoint, Current
  <2>4. CASE Checkpoint(w) /\ ~Current(r, h, "running")
    <3>1. worker'[w] = [h EXCEPT !.progress = @ + 1] /\ UNCHANGED job
      BY <2>4 DEF Checkpoint, TypeOK
    <3> QED
      BY <1>2, <2>1, <2>2, <2>4, <3>1 DEF Runs
  <2>5. CASE HandlerReturns(w) \/ HandlerFails(w) \/ Timeout(w)
    <3>1. PICK p \in {"recheck", "failure"} :
            worker'[w] = [h EXCEPT !.pc = p] /\ UNCHANGED job
      BY <2>5 DEF HandlerReturns, HandlerFails, Timeout, TypeOK
    <3> QED
      BY <1>2, <2>1, <2>2, <3>1 DEF Runs
  <2>6. CASE CancellationState(w)
    <3>1. PICK p \in {"cancel", "complete"} :
            worker'[w] = [h EXCEPT !.version = r.version, !.pc = p] /\ UNCHANGED job
      BY <2>6 DEF CancellationState, TypeOK
    <3> QED
      BY <1>2, <2>1, <2>2, <3>1 DEF Runs
  <2>7. ~(Complete(w) \/ Cancel(w) \/ FinishFailure(w))
    BY DEF Complete, Cancel, FinishFailure, Transition, TypeOK
  <2> QED
    BY <1>4, <2>3, <2>4, <2>5, <2>6, <2>7 DEF RunOnce
<1>5. worker'[w] = worker[w] \/ RunOnce(w) \/ \E j \in Jobs : Claim(w, j)
  <2>1. CASE UNCHANGED vars
    BY <2>1 DEF vars
  <2>2. ASSUME NEW v \in Workers, Poll(v) \/ RunOnce(v) \/ Crash(v), v # w
        PROVE  worker'[w] = worker[w]
    BY <2>2 DEF Poll, RunOnce, Claim, ClaimNothing, Crash, Checkpoint, HandlerReturns,
       HandlerFails, Timeout, CancellationState, Complete, Cancel, FinishFailure,
       Transition, TypeOK
  <2>3. CASE Poll(w) \/ Crash(w)
    BY <2>3 DEF Poll, ClaimNothing, Crash, TypeOK
  <2>4. ASSUME NEW z \in zombies, ZombieCheckpoint(z) \/ ZombieEnds(z)
        PROVE  worker'[w] = worker[w]
    BY <2>4 DEF ZombieCheckpoint, ZombieEnds
  <2>5. ASSUME NEW j \in Jobs,
               RequestCancellation(j) \/ LeaseExpires(j) \/ LeaseOverrun(j)
        PROVE  worker'[w] = worker[w]
    BY <2>5 DEF RequestCancellation, LeaseExpires, LeaseOverrun
  <2> QED
    BY <2>1, <2>2, <2>3, <2>4, <2>5 DEF Next
<1> QED
  BY <1>1, <1>3, <1>4, <1>5

LEMMA ZombieStep ==
  ASSUME JobInv, [Next]_vars, NEW z \in zombies'
  PROVE  Remembers(z)' /\ KnowsCheckpoint(z)'
<1> USE DEF JobInv
<1>1. CASE z \in zombies
  <2>1. /\ z.job \in Jobs /\ z.token \in Versions /\ z.version \in Versions
        /\ Remembers(z) /\ KnowsCheckpoint(z)
    BY <1>1 DEF TypeOK, Handlers, ZombieInv
  <2> QED
    BY <2>1, MemoryStep DEF Remembers, KnowsCheckpoint
<1>2. ASSUME NEW w \in Workers, Timeout(w), z \notin zombies
      PROVE  Remembers(z)' /\ KnowsCheckpoint(z)'
  <2>1. /\ worker[w] # Idle /\ worker[w].pc = "execute"
        /\ z.job = worker[w].job /\ z.token = worker[w].token
        /\ z.version = worker[w].version /\ z.progress = worker[w].progress
        /\ UNCHANGED job
    BY <1>2 DEF Timeout, Idle
  <2>2. Remembers(worker[w]) /\ KnowsCheckpoint(worker[w])
    BY <2>1 DEF RunInv
  <2> QED
    BY <2>1, <2>2 DEF Remembers, KnowsCheckpoint
<1>3. ASSUME NEW y \in zombies, ZombieCheckpoint(y), z \notin zombies
      PROVE  Remembers(z)' /\ KnowsCheckpoint(z)'
  <2> DEFINE r == job[y.job]
  <2>1. /\ Current(r, y, "running") /\ y.progress < MaxProgress
        /\ job' = [job EXCEPT ![y.job] = Saved(r, y)] /\ z = Advanced(y)
    BY <1>3 DEF ZombieCheckpoint
  <2>2. y \in Handlers /\ y.job \in Jobs /\ r \in Rows /\ Remembers(y)
    BY DEF TypeOK, Handlers, ZombieInv
  <2>3. /\ z.job = y.job /\ z.token = y.token
        /\ z.version = y.version + 1
        /\ z.progress = y.progress + 1
        /\ y.progress + 1 \in 0..MaxProgress
    BY <2>1, <2>2, AdvancedType
  <2>4. /\ job'[y.job].status = r.status /\ job'[y.job].token = r.token
        /\ job'[y.job].version = r.version + 1
        /\ job'[y.job].checkpoint = y.progress + 1
    BY <2>1, <2>2, <2>3, SavedType DEF TypeOK
  <2>5. r.version \in Versions /\ y.token \in Versions
    BY <2>2 DEF Rows, Handlers
  <2>6. r.version \in Nat /\ y.token \in Nat
    BY <2>5, VersionFacts
  <2> QED
    BY <2>1, <2>2, <2>3, <2>4, <2>6 DEF Remembers, KnowsCheckpoint, Current
<1> QED
  BY <1>1, <1>2, <1>3 DEF Next, vars, Poll, RunOnce, Claim, ClaimNothing, Crash,
     Checkpoint, HandlerReturns, HandlerFails, CancellationState, Complete, Cancel,
     FinishFailure, Transition, ZombieEnds, RequestCancellation, LeaseExpires,
     LeaseOverrun

\* What runs and late handlers remember is never newer than the row, and the
\* current version is known only to the handler that saw the last write.
THEOREM InvCorrect == Spec => []JobInv
<1>1. Init => JobInv
  BY TypeInit, InvInit DEF JobInv
<1>2. JobInv /\ [Next]_vars => JobInv'
  <2> SUFFICES ASSUME JobInv, [Next]_vars PROVE JobInv'
    OBVIOUS
  <2>1. TypeOK'
    BY TypeStep DEF JobInv
  <2>2. RunInv'
    BY RunStep DEF RunInv
  <2>3. ZombieInv'
    BY ZombieStep DEF ZombieInv
  <2> QED
    BY <2>1, <2>2, <2>3 DEF JobInv
<1> QED
  BY <1>1, <1>2, PTL DEF Spec

--------------------------------------------------------------------------------
(* Checkpoints *)

\* A step that writes a checkpoint is a Saved() of a handler of the lease.
LEMMA CheckpointStep ==
  ASSUME JobInv, [Next]_vars, NEW j \in Jobs,
         job'[j].checkpoint # job[j].checkpoint
  PROVE  \E h \in {worker[w] : w \in {v \in Workers : worker[v] # Idle}} \union zombies :
           /\ h.job = j
           /\ h.token = job[j].token
           /\ job'[j].checkpoint = h.progress + 1
           /\ h.progress = job[j].checkpoint
<1> USE DEF JobInv
<1>0. job[j] \in Rows
  BY DEF TypeOK
<1>1. ASSUME NEW w \in Workers, Poll(w) PROVE FALSE
  <2>1. FailExhausted[j].checkpoint = job[j].checkpoint
    BY <1>0, FailExhaustedType, SettledType DEF TypeOK, Terminal
  <2>2. CASE ClaimNothing(w)
    BY <2>1, <2>2 DEF ClaimNothing
  <2>3. ASSUME NEW i \in Jobs, Claim(w, i) PROVE FALSE
    BY <2>1, <2>3, ClaimType
  <2> QED
    BY <1>1, <2>2, <2>3 DEF Poll
<1>2. ASSUME NEW w \in Workers, Checkpoint(w)
      PROVE  /\ worker[w] # Idle /\ worker[w].job = j
             /\ worker[w].token = job[j].token
             /\ job'[j].checkpoint = worker[w].progress + 1
             /\ worker[w].progress = job[j].checkpoint
  <2>1. worker[w] # Idle /\ worker[w] \in Runs /\ worker[w].pc = "execute"
        /\ worker[w].progress < MaxProgress
    BY <1>2 DEF Checkpoint, Idle, TypeOK
  <2>2. /\ worker[w].job = j /\ Current(job[j], worker[w], "running")
        /\ job'[j] = Saved(job[j], worker[w])
    BY <1>2 DEF Checkpoint, TypeOK
  <2>3. worker[w].progress + 1 \in 0..MaxProgress
    BY <2>1, AdvancedType
  <2>4. KnowsCheckpoint(worker[w])
    BY <2>1 DEF RunInv
  <2> QED
    BY <1>0, <2>1, <2>2, <2>3, <2>4, SavedType DEF KnowsCheckpoint, Current
<1>3. ASSUME NEW w \in Workers, NEW from, NEW to \in Terminal \union {"queued"},
             Transition(w, from, to)
      PROVE  FALSE
  <2>1. job'[j] = Settled(job[j], to)
    BY <1>3 DEF Transition, TypeOK
  <2> QED
    BY <1>0, <2>1, SettledType
<1>4. ASSUME NEW z \in zombies, ZombieCheckpoint(z)
      PROVE  /\ z.job = j /\ z.token = job[j].token
             /\ job'[j].checkpoint = z.progress + 1
             /\ z.progress = job[j].checkpoint
  <2>1. z \in Handlers /\ z.progress < MaxProgress
    BY <1>4 DEF ZombieCheckpoint, TypeOK
  <2>2. /\ z.job = j /\ Current(job[j], z, "running")
        /\ job'[j] = Saved(job[j], z)
    BY <1>4 DEF ZombieCheckpoint, TypeOK
  <2>3. z.progress + 1 \in 0..MaxProgress
    BY <2>1, AdvancedType
  <2>4. KnowsCheckpoint(z)
    BY DEF ZombieInv
  <2> QED
    BY <1>0, <2>1, <2>2, <2>3, <2>4, SavedType DEF KnowsCheckpoint, Current
<1>5. ASSUME NEW i \in Jobs,
             RequestCancellation(i) \/ LeaseExpires(i) \/ LeaseOverrun(i)
      PROVE  FALSE
  BY <1>0, <1>5 DEF RequestCancellation, LeaseExpires, LeaseOverrun, TypeOK, Rows
<1>6. /\ "queued" \in Terminal \union {"queued"}
      /\ "failed" \in Terminal \union {"queued"}
      /\ "succeeded" \in Terminal \union {"queued"}
      /\ "cancelled" \in Terminal \union {"queued"}
  BY DEF Terminal
<1>7. (\E w \in Workers : Checkpoint(w)) \/ (\E z \in zombies : ZombieCheckpoint(z))
  BY <1>1, <1>3, <1>5, <1>6
     DEF Next, vars, RunOnce, HandlerReturns, HandlerFails, Timeout,
         CancellationState, Complete, Cancel, FinishFailure, Crash, ZombieEnds
<1> QED
  BY <1>2, <1>4, <1>7

\* No late handler, stale attempt or second worker moves a job back, for any
\* number of them: checkpoints only grow.
THEOREM Monotone == Spec => CheckpointMonotone
<1>1. JobInv /\ [Next]_vars
        => [\A j \in Jobs : job'[j].checkpoint >= job[j].checkpoint]_vars
  <2> SUFFICES ASSUME JobInv, [Next]_vars, NEW j \in Jobs
               PROVE  job'[j].checkpoint >= job[j].checkpoint
    OBVIOUS
  <2>1. job[j].checkpoint \in Nat
    BY JobAssumption DEF JobInv, TypeOK, Rows
  <2>2. CASE job'[j].checkpoint = job[j].checkpoint
    BY <2>1, <2>2
  <2>3. CASE job'[j].checkpoint # job[j].checkpoint
    <3>1. job'[j].checkpoint = job[j].checkpoint + 1
      BY <2>3, CheckpointStep
    <3> QED
      BY <2>1, <3>1
  <2> QED
    BY <2>2, <2>3
<1> QED
  BY <1>1, InvCorrect, PTL DEF Spec, CheckpointMonotone

\* Every checkpoint comes from a handler of the current lease.
THEOREM ByHolder == Spec => CheckpointByHolder
<1> DEFINE A == \A j \in Jobs : job'[j].checkpoint # job[j].checkpoint =>
       \E h \in {worker[w] : w \in {v \in Workers : worker[v] # Idle}} \union zombies :
         /\ h.job = j
         /\ h.token = job[j].token
         /\ job'[j].checkpoint = h.progress + 1
<1>1. JobInv /\ [Next]_vars => [A]_vars
  BY CheckpointStep
<1> QED
  BY <1>1, InvCorrect, PTL DEF Spec, CheckpointByHolder

--------------------------------------------------------------------------------
(* Leases *)

ShapedRow(r) ==
  /\ r.status = "running" => r.token # NoLease
  /\ r.token # NoLease => r.status \in {"running", "cancel_requested"}
  /\ r.token # NoLease <=> r.lease # "none"

LEMMA ShapeStep ==
  ASSUME TypeOK, LeaseShape, [Next]_vars
  PROVE  LeaseShape'
<1> SUFFICES ASSUME NEW j \in Jobs PROVE ShapedRow(job'[j])
  BY DEF LeaseShape, ShapedRow
<1>0. job[j] \in Rows /\ ShapedRow(job[j])
  BY DEF TypeOK, LeaseShape, ShapedRow
<1>1. CASE job'[j] = job[j]
  BY <1>0, <1>1
<1>2. \A s \in Terminal \union {"queued"} : ShapedRow(Settled(job[j], s))
  BY <1>0, SettledType DEF ShapedRow, Terminal
<1>3. ShapedRow(FailExhausted[j])
  BY <1>0, <1>2, FailExhaustedType DEF TypeOK, Terminal
<1>4. ASSUME NEW w \in Workers, Poll(w) PROVE ShapedRow(job'[j])
  <2>1. CASE ClaimNothing(w)
    BY <1>3, <2>1 DEF ClaimNothing
  <2>2. ASSUME NEW i \in Jobs, Claim(w, i), i # j PROVE ShapedRow(job'[j])
    BY <1>3, <2>2, ClaimType
  <2>3. CASE Claim(w, j)
    <3>1. job[j].version + 1 # NoLease
      BY <1>0, VersionFacts DEF Rows
    <3>2. /\ job'[j].status \in {"running", "cancel_requested"}
          /\ job'[j].token = job[j].version + 1 /\ job'[j].lease = "held"
      BY <2>3, ClaimType
    <3> QED
      BY <3>1, <3>2 DEF ShapedRow
  <2> QED
    BY <1>4, <2>1, <2>2, <2>3 DEF Poll
<1>5. ASSUME NEW h \in Runs \union Handlers, h.progress < MaxProgress,
             Current(job[j], h, "running"), job'[j] = Saved(job[j], h)
      PROVE  ShapedRow(job'[j])
  <2>1. h.progress + 1 \in 0..MaxProgress
    BY <1>5, AdvancedType
  <2> QED
    BY <1>0, <1>5, <2>1, SavedType DEF ShapedRow, Current
<1>6. ASSUME NEW w \in Workers, Checkpoint(w), job'[j] # job[j]
      PROVE  ShapedRow(job'[j])
  <2>1. worker[w] \in Runs
    BY <1>6 DEF Checkpoint, Idle, TypeOK
  <2> QED
    BY <1>5, <1>6, <2>1 DEF Checkpoint, TypeOK
<1>7. ASSUME NEW w \in Workers, NEW from, NEW to \in Terminal \union {"queued"},
             Transition(w, from, to), job'[j] # job[j]
      PROVE  ShapedRow(job'[j])
  BY <1>2, <1>7 DEF Transition, TypeOK
<1>8. ASSUME NEW z \in zombies, ZombieCheckpoint(z), job'[j] # job[j]
      PROVE  ShapedRow(job'[j])
  BY <1>5, <1>8 DEF ZombieCheckpoint, TypeOK
<1>9. ASSUME NEW i \in Jobs, RequestCancellation(i), job'[j] # job[j]
      PROVE  ShapedRow(job'[j])
  BY <1>0, <1>9 DEF RequestCancellation, TypeOK, Rows, ShapedRow
<1>10. ASSUME NEW i \in Jobs, LeaseExpires(i) \/ LeaseOverrun(i), job'[j] # job[j]
       PROVE  ShapedRow(job'[j])
  BY <1>0, <1>10 DEF LeaseExpires, LeaseOverrun, TypeOK, Rows, ShapedRow
<1> QED
  BY <1>1, <1>4, <1>6, <1>7, <1>8, <1>9, <1>10
     DEF Next, vars, RunOnce, HandlerReturns, HandlerFails, Timeout, CancellationState,
         Complete, Cancel, FinishFailure, Crash, ZombieEnds, Terminal

\* No row is left running without a lease, where no claim would find it, nor
\* waiting or settled with one.
THEOREM Shaped == Spec => []LeaseShape
<1>1. Init => LeaseShape
  BY DEF Init, LeaseShape, NoLease
<1>2. TypeOK /\ LeaseShape /\ [Next]_vars => LeaseShape'
  BY ShapeStep
<1> QED
  BY <1>1, <1>2, TypeCorrect, PTL DEF Spec

\* The rows keep their types and the shape of their leases.
THEOREM RowsCorrect == Spec => []RowsSound
BY TypeCorrect, Shaped, PTL DEF RowsSound

\* A step that finds a lease held leaves it, or gives it up.
LEMMA ExclusiveStep ==
  ASSUME TypeOK, LeaseShape, [Next]_vars, NEW j \in Jobs, job[j].lease = "held"
  PROVE  job'[j].token \in {job[j].token, NoLease}
<1>0. job[j] \in Rows /\ ShapedRow(job[j])
  BY DEF TypeOK, LeaseShape, ShapedRow
<1>1. CASE job'[j] = job[j]
  BY <1>1
<1>2. \A s \in Terminal \union {"queued"} : Settled(job[j], s).token = NoLease
  BY <1>0, SettledType
<1>3. FailExhausted[j].token \in {job[j].token, NoLease}
  BY <1>0, <1>2, FailExhaustedType DEF TypeOK, Terminal
<1>4. ASSUME NEW w \in Workers, Poll(w)
      PROVE  job'[j].token \in {job[j].token, NoLease}
  <2>1. CASE ClaimNothing(w)
    BY <1>3, <2>1 DEF ClaimNothing
  <2>2. ASSUME NEW i \in Jobs, Claim(w, i), i # j
        PROVE  job'[j].token \in {job[j].token, NoLease}
    BY <1>3, <2>2, ClaimType
  <2>3. ~Claim(w, j)
    BY <1>0 DEF Claim, Candidates, Cancellable, Startable, ShapedRow
  <2> QED
    BY <1>4, <2>1, <2>2, <2>3 DEF Poll
<1>5. ASSUME NEW h \in Runs \union Handlers, h.progress < MaxProgress,
             Current(job[j], h, "running"), job'[j] = Saved(job[j], h)
      PROVE  job'[j].token = job[j].token
  <2>1. h.progress + 1 \in 0..MaxProgress
    BY <1>5, AdvancedType
  <2> QED
    BY <1>0, <1>5, <2>1, SavedType
<1>6. ASSUME NEW w \in Workers, Checkpoint(w), job'[j] # job[j]
      PROVE  job'[j].token = job[j].token
  <2>1. worker[w] \in Runs
    BY <1>6 DEF Checkpoint, Idle, TypeOK
  <2> QED
    BY <1>5, <1>6, <2>1 DEF Checkpoint, TypeOK
<1>7. ASSUME NEW w \in Workers, NEW from, NEW to \in Terminal \union {"queued"},
             Transition(w, from, to), job'[j] # job[j]
      PROVE  job'[j].token = NoLease
  BY <1>2, <1>7 DEF Transition, TypeOK
<1>8. ASSUME NEW z \in zombies, ZombieCheckpoint(z), job'[j] # job[j]
      PROVE  job'[j].token = job[j].token
  BY <1>5, <1>8 DEF ZombieCheckpoint, TypeOK
<1>9. ASSUME NEW i \in Jobs,
             RequestCancellation(i) \/ LeaseExpires(i) \/ LeaseOverrun(i),
             job'[j] # job[j]
      PROVE  job'[j].token \in {job[j].token, NoLease}
  BY <1>0, <1>9 DEF RequestCancellation, LeaseExpires, LeaseOverrun, TypeOK, Rows, ShapedRow
<1> QED
  BY <1>1, <1>4, <1>6, <1>7, <1>8, <1>9
     DEF Next, vars, RunOnce, HandlerReturns, HandlerFails, Timeout, CancellationState,
         Complete, Cancel, FinishFailure, Crash, ZombieEnds, Terminal

\* A held lease is not taken over, checkpoints only grow, and each comes from a
\* handler of the current lease: the three promises that late handlers and second
\* workers could break.
THEOREM CheckpointsCorrect == Spec => CheckpointsSound
<1>1. TypeOK /\ LeaseShape /\ [Next]_vars
        => [\A j \in Jobs : job[j].lease = "held"
              => job'[j].token \in {job[j].token, NoLease}]_vars
  BY ExclusiveStep
<1>2. Spec => LeaseExclusive
  BY <1>1, TypeCorrect, Shaped, PTL DEF Spec, LeaseExclusive
<1> QED
  BY <1>2, Monotone, ByHolder DEF CheckpointsSound

--------------------------------------------------------------------------------
(* The queue implements JobLifecycle *)

\* The step of JobLifecycle a row takes.
RowLifecycle(r, s) ==
  \/ /\ r.status \in {"queued", "running"} /\ r.attempts < MaxAttempts
     /\ s.status = "running" /\ s.attempts = r.attempts + 1
  \/ /\ r.status = "running" /\ s.attempts = r.attempts
     /\ \/ s.status = "queued" /\ r.attempts < MaxAttempts
        \/ s.status = "failed" /\ r.attempts = MaxAttempts
        \/ s.status = "succeeded"
  \/ /\ r.status \in {"queued", "running"}
     /\ s.status = "cancel_requested" /\ s.attempts = r.attempts
  \/ /\ r.status = "cancel_requested"
     /\ s.status = "cancelled" /\ s.attempts = r.attempts
  \/ s.status = r.status /\ s.attempts = r.attempts

LEMMA LifecycleStep ==
  ASSUME JobInv, [Next]_vars, NEW j \in Jobs
  PROVE  RowLifecycle(job[j], job'[j])
<1> USE DEF JobInv
<1>0. job[j] \in Rows /\ job[j].attempts \in 0..MaxAttempts
  BY DEF TypeOK, Rows
<1>1. CASE job'[j] = job[j]
  BY <1>1 DEF RowLifecycle
<1>2. RowLifecycle(job[j], FailExhausted[j])
  <2>1. CASE Exhausted(job[j])
    <3>1. job[j].status = "running" /\ job[j].attempts = MaxAttempts
      BY <1>0, <2>1, JobAssumption DEF Exhausted
    <3>2. /\ FailExhausted[j].status = "failed"
          /\ FailExhausted[j].attempts = job[j].attempts
      BY <1>0, <2>1, FailExhaustedType, SettledType DEF TypeOK, Terminal
    <3> QED
      BY <3>1, <3>2 DEF RowLifecycle
  <2>2. CASE ~Exhausted(job[j])
    BY <2>2, FailExhaustedType DEF TypeOK, RowLifecycle
  <2> QED
    BY <2>1, <2>2
<1>3. ASSUME NEW w \in Workers, Poll(w) PROVE RowLifecycle(job[j], job'[j])
  <2>1. CASE ClaimNothing(w)
    BY <1>2, <2>1 DEF ClaimNothing
  <2>2. ASSUME NEW i \in Jobs, Claim(w, i), i # j
        PROVE  RowLifecycle(job[j], job'[j])
    BY <1>2, <2>2, ClaimType
  <2>3. CASE Claim(w, j)
    BY <2>3, ClaimType DEF Cancellable, Startable, RowLifecycle
  <2> QED
    BY <1>3, <2>1, <2>2, <2>3 DEF Poll
<1>4. ASSUME NEW h \in Runs \union Handlers, h.progress < MaxProgress,
             job'[j] = Saved(job[j], h)
      PROVE  RowLifecycle(job[j], job'[j])
  <2>1. h.progress + 1 \in 0..MaxProgress
    BY <1>4, AdvancedType
  <2> QED
    BY <1>0, <1>4, <2>1, SavedType DEF RowLifecycle
<1>5. ASSUME NEW w \in Workers, Checkpoint(w), job'[j] # job[j]
      PROVE  RowLifecycle(job[j], job'[j])
  <2>1. worker[w] \in Runs
    BY <1>5 DEF Checkpoint, Idle, TypeOK
  <2> QED
    BY <1>4, <1>5, <2>1 DEF Checkpoint, TypeOK
<1>6. ASSUME NEW z \in zombies, ZombieCheckpoint(z), job'[j] # job[j]
      PROVE  RowLifecycle(job[j], job'[j])
  BY <1>4, <1>6 DEF ZombieCheckpoint, TypeOK
<1>7. ASSUME NEW w \in Workers, Complete(w) \/ Cancel(w) \/ FinishFailure(w),
             job'[j] # job[j]
      PROVE  RowLifecycle(job[j], job'[j])
  <2>1. worker[w] # Idle /\ worker[w] \in Runs
    BY <1>7 DEF Complete, Cancel, FinishFailure, Idle, TypeOK
  <2>2. ASSUME NEW from, NEW to \in Terminal \union {"queued"},
               Transition(w, from, to)
        PROVE  /\ job[j].status = from /\ job'[j].status = to
               /\ job'[j].attempts = job[j].attempts
               /\ worker[w].attempts = job[j].attempts
    <3>1. /\ worker[w].job = j /\ Current(job[j], worker[w], from)
          /\ job'[j] = Settled(job[j], to)
      BY <1>7, <2>2 DEF Transition, TypeOK
    <3>2. KnowsAttempt(worker[w])
      BY <2>1 DEF RunInv
    <3> QED
      BY <1>0, <3>1, <3>2, SettledType DEF KnowsAttempt, Current
  <2>3. CASE Complete(w)
    BY <2>2, <2>3 DEF Complete, Terminal, RowLifecycle
  <2>4. CASE Cancel(w)
    BY <2>2, <2>4 DEF Cancel, Terminal, RowLifecycle
  <2>5. CASE FinishFailure(w) /\ worker[w].attempts >= MaxAttempts
    <3>1. Transition(w, "running", "failed")
      BY <2>5 DEF FinishFailure
    <3>2. /\ job[j].status = "running" /\ job'[j].status = "failed"
          /\ job'[j].attempts = job[j].attempts
          /\ worker[w].attempts = job[j].attempts
      BY <2>2, <3>1 DEF Terminal
    <3>3. job[j].attempts = MaxAttempts
      BY <1>0, <2>5, <3>2, JobAssumption
    <3> QED
      BY <3>2, <3>3 DEF RowLifecycle
  <2>6. CASE FinishFailure(w) /\ ~(worker[w].attempts >= MaxAttempts)
    <3>1. Transition(w, "running", "queued")
      BY <2>6 DEF FinishFailure
    <3>2. /\ job[j].status = "running" /\ job'[j].status = "queued"
          /\ job'[j].attempts = job[j].attempts
          /\ worker[w].attempts = job[j].attempts
      BY <2>2, <3>1
    <3>3. job[j].attempts < MaxAttempts
      BY <1>0, <2>6, <3>2, JobAssumption
    <3> QED
      BY <3>2, <3>3 DEF RowLifecycle
  <2> QED
    BY <1>7, <2>3, <2>4, <2>5, <2>6
<1>8. ASSUME NEW i \in Jobs, RequestCancellation(i), job'[j] # job[j]
      PROVE  RowLifecycle(job[j], job'[j])
  <2>1. /\ job[j].status \in {"queued", "running"}
        /\ job'[j] = [job[j] EXCEPT !.status = "cancel_requested",
                                    !.version = @ + 1]
    BY <1>8 DEF RequestCancellation, TypeOK
  <2> QED
    BY <1>0, <2>1 DEF Rows, RowLifecycle
<1>9. ASSUME NEW i \in Jobs, LeaseExpires(i) \/ LeaseOverrun(i), job'[j] # job[j]
      PROVE  RowLifecycle(job[j], job'[j])
  <2>1. job'[j] = [job[j] EXCEPT !.lease = "expired"]
    BY <1>9 DEF LeaseExpires, LeaseOverrun, TypeOK
  <2> QED
    BY <1>0, <2>1 DEF Rows, RowLifecycle
<1> QED
  BY <1>1, <1>3, <1>5, <1>6, <1>7, <1>8, <1>9
     DEF Next, vars, RunOnce, HandlerReturns, HandlerFails, Timeout,
         CancellationState, Crash, ZombieEnds

\* The detailed queue, with its leases, versions, late handlers and crashes, is
\* an implementation of the abstract life of a job.
THEOREM ImplementsLifecycle == Spec => Implements
<1>1. Init => Lifecycle!Init
  BY DEF Init, Lifecycle!Init
<1>2. JobInv /\ JobInv' /\ [Next]_vars => [Lifecycle!Next]_(Lifecycle!lifecycleVars)
  <2> SUFFICES ASSUME JobInv, JobInv', [Next]_vars PROVE Lifecycle!Next
    OBVIOUS
  <2>1. ASSUME NEW j \in Jobs
        PROVE  /\ job'[j].status \in Lifecycle!Statuses
               /\ job'[j].attempts \in 0..MaxAttempts
               /\ \/ Lifecycle!Start(j) \/ Lifecycle!EndAttempt(j)
                  \/ Lifecycle!RequestCancellation(j) \/ Lifecycle!Cancel(j)
                  \/ Lifecycle!Keep(j)
    <3>1. job'[j] \in Rows
      BY DEF JobInv, TypeOK
    <3>2. RowLifecycle(job[j], job'[j])
      BY LifecycleStep
    <3>3. /\ [i \in Jobs |-> job[i].status][j] = job[j].status
          /\ [i \in Jobs |-> job[i].attempts][j] = job[j].attempts
          /\ [i \in Jobs |-> job'[i].status][j] = job'[j].status
          /\ [i \in Jobs |-> job'[i].attempts][j] = job'[j].attempts
      OBVIOUS
    <3>4. /\ job'[j].status \in Lifecycle!Statuses
          /\ job'[j].attempts \in 0..MaxAttempts
      BY <3>1 DEF Rows, Terminal, Lifecycle!Statuses, Lifecycle!Terminal
    <3> QED
      BY <3>2, <3>3, <3>4 DEF RowLifecycle, Lifecycle!Start, Lifecycle!EndAttempt,
         Lifecycle!RequestCancellation, Lifecycle!Cancel, Lifecycle!Keep
  <2> QED
    BY <2>1 DEF Lifecycle!Next
<1> QED
  BY <1>1, <1>2, InvCorrect, PTL DEF Spec, Implements, Lifecycle!Spec

================================================================================
