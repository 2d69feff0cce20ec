------------------------ MODULE MemoryPipelineProofs ------------------------
(***************************************************************************)
(* Proofs about MemoryPipeline, for every set of workers and threads and   *)
(* every lease, delay, cap and bound.                                      *)
(***************************************************************************)
EXTENDS MemoryPipeline, FiniteSetTheorems, TLAPS

\* The leases, delays and caps are positive numbers.
LEMMA Numbers ==
  /\ Lease \in Nat /\ RetryDelay \in Nat /\ Cooldown \in Nat /\ Retries \in Nat /\ MaxRunning \in Nat
  /\ Lease > 0 /\ RetryDelay > 0 /\ Cooldown > 0 /\ Retries > 0 /\ MaxRunning > 0
  /\ MaxUpdates \in Nat /\ 0 \in Versions /\ 1 \in Versions /\ Versions \subseteq Nat
BY PipelineAssumption DEF Versions

\* Blank rows and snapshots are rows and snapshots.
LEMMA Blanks == NoVersions \in Snapshots /\ NoJob \in JobRows /\ NoLock \in LockRows
BY Numbers DEF NoVersions, Snapshots, NoJob, JobRows, NoLock, LockRows

\* The fields of a job's row.
LEMMA RowFields ==
  ASSUME NEW r \in JobRows
  PROVE  /\ r.st \in {"absent", "running", "done", "error"} /\ r.owner \in Workers \cup {None}
         /\ r.lease \in 0 .. Lease /\ r.retry \in 0 .. RetryDelay /\ r.left \in 0 .. Retries
         /\ r.mark \in Versions /\ r.ok \in Versions
BY DEF JobRows

\* The same for the lock row.
LEMMA LockFields ==
  ASSUME lock \in LockRows
  PROVE  /\ lock.st \in {"absent", "pending", "running", "done", "error"}
         /\ lock.owner \in Workers \cup {None}
         /\ lock.lease \in 0 .. Lease /\ lock.retry \in 0 .. RetryDelay /\ lock.cool \in 0 .. Cooldown
BY DEF LockRows

\* What an enqueued consolidation leaves of the lock row.
LEMMA EnqueuedRow ==
  ASSUME lock \in LockRows
  PROVE  /\ Enqueued \in LockRows
         /\ lock.st = "running" => Enqueued = lock
         /\ lock.st # "running" => Enqueued.st = "pending"
<1>1. CASE lock.st = "absent"
  <2>1. Enqueued = [st |-> "pending", owner |-> lock.owner, lease |-> lock.lease,
                    retry |-> lock.retry, cool |-> lock.cool]
    BY <1>1 DEF Enqueued, LockRows
  <2> QED
    BY <1>1, <2>1, LockFields DEF LockRows
<1>2. CASE lock.st \notin {"absent", "running"}
  <2>1. Enqueued = [st |-> "pending", owner |-> lock.owner, lease |-> lock.lease,
                    retry |-> 0, cool |-> lock.cool]
    BY <1>2 DEF Enqueued, LockRows
  <2> QED
    BY <1>2, <2>1, LockFields, Numbers DEF LockRows
<1>3. CASE lock.st = "running"
  BY <1>3 DEF Enqueued
<1> QED
  BY <1>1, <1>2, <1>3

\* A clock that runs down stays within what was granted.
LEMMA LessIsLess ==
  ASSUME NEW m \in Nat, NEW n \in 0 .. m
  PROVE  Less(n) \in 0 .. m /\ Less(n) <= n /\ (Less(n) > 0 => n > 0) /\ (n > 1 => Less(n) > 0)
BY DEF Less

\* What the rows of the jobs may look like after a step.
LEMMA JobRowsStep ==
  ASSUME TypeOK, RowsInv, NEW w \in Workers, NEW t \in Threads
  PROVE  /\ Finished(t) \in JobRows /\ Finished(t).st = "done"
         /\ Owns(w, t) => Failed(t) \in JobRows /\ Failed(t).st = "error"
         /\ \A v \in Versions \ {0} : Claimable(t, v) =>
              /\ ClaimRow(w, t, v) \in JobRows
              /\ ClaimRow(w, t, v).st = "running" /\ ClaimRow(w, t, v).left > 0
              /\ ClaimRow(w, t, v).owner = w /\ ClaimRow(w, t, v).mark = v
              /\ ClaimRow(w, t, v).ok = job[t].ok
<1>0. PICK r \in JobRows : r = job[t]
  BY DEF TypeOK
<1>1. Finished(t) \in JobRows /\ Finished(t).st = "done"
  <2>1. PICK s : s = [r EXCEPT !.st = "done", !.owner = None, !.lease = 0, !.ok = r.mark]
    OBVIOUS
  <2>2. s = [st |-> "done", owner |-> None, lease |-> 0, retry |-> r.retry,
             left |-> r.left, mark |-> r.mark, ok |-> r.mark]
    BY <2>1 DEF JobRows
  <2>3. s \in JobRows /\ s.st = "done"
    BY <2>2, RowFields, Numbers DEF JobRows
  <2> QED
    BY <1>0, <2>1, <2>3 DEF Finished
<1>2. ASSUME Owns(w, t) PROVE Failed(t) \in JobRows /\ Failed(t).st = "error"
  <2>1. PICK s : s = [r EXCEPT !.st = "error", !.owner = None, !.lease = 0, !.retry = RetryDelay,
                               !.left = @ - 1]
    OBVIOUS
  <2>2. s = [st |-> "error", owner |-> None, lease |-> 0, retry |-> RetryDelay,
             left |-> r.left - 1, mark |-> r.mark, ok |-> r.ok]
    BY <2>1 DEF JobRows
  <2>3. r.left > 0 /\ r.left \in 0 .. Retries
    <3>1. job[t].left > 0
      BY <1>2 DEF Owns, RowsInv
    <3> QED
      BY <3>1, <1>0, RowFields
  <2>4. r.left - 1 \in 0 .. Retries /\ RetryDelay \in 0 .. RetryDelay /\ 0 \in 0 .. Lease
    BY <2>3, Numbers
  <2>5. s \in JobRows /\ s.st = "error"
    BY <2>2, <2>4, RowFields DEF JobRows
  <2> QED
    BY <1>0, <2>1, <2>5 DEF Failed
<1>3. ASSUME NEW v \in Versions \ {0}, Claimable(t, v)
      PROVE  /\ ClaimRow(w, t, v) \in JobRows
             /\ ClaimRow(w, t, v).st = "running" /\ ClaimRow(w, t, v).left > 0
             /\ ClaimRow(w, t, v).owner = w /\ ClaimRow(w, t, v).mark = v
             /\ ClaimRow(w, t, v).ok = job[t].ok
  <2>0. PICK left : left = IF v > r.mark THEN Retries ELSE r.left
    OBVIOUS
  <2>1. v > r.mark \/ r.left > 0
    BY <1>0, <1>3, Numbers DEF Claimable, RowsInv, NoJob
  <2>2. PICK s : s = [r EXCEPT !.st = "running", !.owner = w, !.lease = Lease, !.retry = 0,
                               !.left = left, !.mark = v]
    OBVIOUS
  <2>3. s = [st |-> "running", owner |-> w, lease |-> Lease, retry |-> 0,
             left |-> left, mark |-> v, ok |-> r.ok]
    BY <2>2 DEF JobRows
  <2>4. left \in 0 .. Retries /\ left > 0 /\ Lease \in 0 .. Lease /\ 0 \in 0 .. RetryDelay
    BY <2>0, <2>1, RowFields, Numbers
  <2>5. /\ s \in JobRows /\ s.st = "running" /\ s.left > 0 /\ s.owner = w
        /\ s.mark = v /\ s.ok = r.ok
    BY <2>3, <2>4, RowFields DEF JobRows
  <2>6. s = ClaimRow(w, t, v)
    BY <1>0, <2>0, <2>2 DEF ClaimRow
  <2> QED
    BY <1>0, <2>5, <2>6
<1> QED
  BY <1>1, <1>2, <1>3

\* The lock row after a claim.
LEMMA ClaimedLock ==
  ASSUME NEW w \in Workers, NEW s, s = [NoLock EXCEPT !.st = "running", !.owner = w, !.lease = Lease]
  PROVE  s \in LockRows /\ s.st = "running" /\ s.owner = w /\ s.lease = Lease
<1>1. s = [st |-> "running", owner |-> w, lease |-> Lease, retry |-> 0, cool |-> 0]
  BY DEF NoLock
<1> QED
  BY <1>1, Numbers DEF LockRows

\* A heartbeat keeps the owner and renews the lease.
LEMMA RenewedLock ==
  ASSUME lock \in LockRows, NEW s, s = [lock EXCEPT !.lease = Lease]
  PROVE  s \in LockRows /\ s.st = lock.st /\ s.owner = lock.owner /\ s.lease = Lease
<1>1. s = [st |-> lock.st, owner |-> lock.owner, lease |-> Lease, retry |-> lock.retry,
           cool |-> lock.cool]
  BY DEF LockRows
<1> QED
  BY <1>1, LockFields, Numbers DEF LockRows

\* A success frees the lock.
LEMMA DoneLock ==
  ASSUME lock \in LockRows,
         NEW s, s = [lock EXCEPT !.st = "done", !.owner = None, !.lease = 0, !.cool = Cooldown]
  PROVE  s \in LockRows /\ s.st = "done"
<1>1. s = [st |-> "done", owner |-> None, lease |-> 0, retry |-> lock.retry,
           cool |-> Cooldown]
  BY DEF LockRows
<1> QED
  BY <1>1, LockFields, Numbers DEF LockRows

\* A failure frees the lock.
LEMMA FailedLock ==
  ASSUME lock \in LockRows,
         NEW s, s = [lock EXCEPT !.st = "error", !.owner = None, !.lease = 0, !.retry = RetryDelay]
  PROVE  s \in LockRows /\ s.st = "error"
<1>1. s = [st |-> "error", owner |-> None, lease |-> 0, retry |-> RetryDelay,
           cool |-> lock.cool]
  BY DEF LockRows
<1> QED
  BY <1>1, LockFields, Numbers DEF LockRows

\* Time takes from the lease only.
LEMMA TickedLock ==
  ASSUME lock \in LockRows, NEW s, s = [Ticked(lock) EXCEPT !.cool = Less(@)]
  PROVE  /\ s \in LockRows /\ s.st = lock.st /\ s.owner = lock.owner
         /\ s.lease = Less(lock.lease)
<1>0. PICK r : r = Ticked(lock)
  OBVIOUS
<1>1. r = [st |-> lock.st, owner |-> lock.owner, lease |-> Less(lock.lease),
           retry |-> Less(lock.retry), cool |-> lock.cool]
  BY <1>0 DEF LockRows, Ticked
<1>2. s = [st |-> lock.st, owner |-> lock.owner, lease |-> Less(lock.lease),
           retry |-> Less(lock.retry), cool |-> Less(lock.cool)]
  BY <1>0, <1>1
<1>3. /\ Less(lock.lease) \in 0 .. Lease /\ Less(lock.retry) \in 0 .. RetryDelay
      /\ Less(lock.cool) \in 0 .. Cooldown
  BY LockFields, Numbers, LessIsLess
<1>4. \A q : q = [st |-> lock.st, owner |-> lock.owner, lease |-> Less(lock.lease),
                  retry |-> Less(lock.retry), cool |-> Less(lock.cool)] =>
              /\ q \in LockRows /\ q.st = lock.st /\ q.owner = lock.owner
              /\ q.lease = Less(lock.lease)
  BY <1>3, LockFields DEF LockRows
<1> QED
  BY <1>2, <1>4

\* Time takes from a job's lease and retry delay only.
LEMMA TickedJob ==
  ASSUME NEW r \in JobRows
  PROVE  /\ Ticked(r) \in JobRows /\ Ticked(r).st = r.st /\ Ticked(r).owner = r.owner
         /\ Ticked(r).left = r.left /\ Ticked(r).mark = r.mark /\ Ticked(r).ok = r.ok
         /\ Ticked(r).lease = Less(r.lease)
         /\ r = NoJob => Ticked(r) = NoJob
<1>0. PICK s : s = Ticked(r)
  OBVIOUS
<1>1. s = [st |-> r.st, owner |-> r.owner, lease |-> Less(r.lease), retry |-> Less(r.retry),
           left |-> r.left, mark |-> r.mark, ok |-> r.ok]
  BY <1>0 DEF JobRows, Ticked
<1>2. Less(r.lease) \in 0 .. Lease /\ Less(r.retry) \in 0 .. RetryDelay
  BY RowFields, Numbers, LessIsLess
<1>3. r = NoJob => s = NoJob
  <2> SUFFICES ASSUME r = NoJob PROVE s = NoJob
    OBVIOUS
  <2>1. /\ r.st = "absent" /\ r.owner = None /\ r.lease = 0 /\ r.retry = 0
        /\ r.left = 0 /\ r.mark = 0 /\ r.ok = 0
    BY DEF NoJob
  <2> QED
    BY <1>1, <2>1 DEF NoJob, Less
<1>4. /\ s \in JobRows /\ s.st = r.st /\ s.owner = r.owner /\ s.left = r.left
      /\ s.mark = r.mark /\ s.ok = r.ok /\ s.lease = Less(r.lease)
  BY <1>1, <1>2, RowFields DEF JobRows
<1> QED
  BY <1>0, <1>3, <1>4

\* What a step that forgets a thread, or takes it back, may change: the row of
\* the thread in either database, and the lock it enqueues.
LEMMA ForgetFrame ==
  ASSUME TypeOK, NEW t \in Threads, Forget(t)
  PROVE  /\ UNCHANGED <<version, inputs, memory, baseline, pc, seen, claims, input, wiping>>
         /\ UNCHANGED <<spent, starts, updates>> \/ Spend("forget")
         /\ lock' \in {lock, Enqueued}
         /\ job' = job \/ job' = [job EXCEPT ![t] = NoJob]
         /\ out' = out \/ out' = [out EXCEPT ![t] = 0]
         /\ sel' = sel \/ sel' = [sel EXCEPT ![t] = 0]
         /\ mode' \in [Threads -> Modes] /\ forgetting' \in [Threads -> Remains]
<1> USE DEF rows, threads, root, local, bounds
<1>0. mode \in [Threads -> Modes] /\ forgetting \in [Threads -> Remains]
  BY DEF TypeOK
<1>1. CASE PolluteReads(t)
  <2>1. forgetting' \in [Threads -> Remains]
    BY <1>0, <1>1 DEF PolluteReads, Remains
  <2> QED
    BY <1>0, <1>1, <2>1 DEF PolluteReads
<1>2. CASE PolluteMarks(t)
  <2>1. forgetting' \in [Threads -> Remains] /\ mode' \in [Threads -> Modes]
    BY <1>0, <1>2 DEF PolluteMarks, Remains, Modes
  <2> QED
    BY <1>2, <2>1 DEF PolluteMarks
<1>3. CASE PolluteEnqueues(t)
  <2>1. forgetting' \in [Threads -> Remains]
    BY <1>0, <1>3 DEF PolluteEnqueues, Remains
  <2> QED
    BY <1>0, <1>3, <2>1 DEF PolluteEnqueues
<1>4. CASE DeleteThread(t)
  <2>1. forgetting' \in [Threads -> Remains] /\ mode' \in [Threads -> Modes]
    BY <1>0, <1>4 DEF DeleteThread, Remains, Modes
  <2> QED
    BY <1>4, <2>1 DEF DeleteThread
<1>5. CASE DeleteMemory(t)
  <2>1. forgetting' \in [Threads -> Remains]
    BY <1>0, <1>5 DEF DeleteMemory, Remains
  <2> QED
    BY <1>0, <1>5, <2>1 DEF DeleteMemory
<1>6. ASSUME NEW m \in {"enabled", "off"}, SetMode(t, m)
      PROVE  /\ mode' \in [Threads -> Modes] /\ UNCHANGED <<forgetting, version, rows, root, local, wiping>>
             /\ Spend("forget")
  BY <1>0, <1>6 DEF SetMode, Modes
<1> QED
  BY <1>0, <1>1, <1>2, <1>3, <1>4, <1>5, <1>6 DEF Forget

\* Whatever else happens leaves what is still to be forgotten.
LEMMA ForgettingStep ==
  ASSUME TypeOK, [Next]_vars
  PROVE  forgetting' \in [Threads -> Remains]
<1> USE DEF vars
<1>0. forgetting \in [Threads -> Remains]
  BY DEF TypeOK
<1>1. ASSUME NEW w \in Workers, Startup(w) \/ Phase1(w) \/ Phase2(w) \/ Heartbeat(w) \/ AgentDone(w)
      PROVE  forgetting' = forgetting
  BY <1>1 DEF Startup, Phase1, EndClaims, EndPhase1, Consider, StoreOutput, StoreNothing, Extracting,
     Phase2, ClaimLock, Prepare, Select, Sync, Diff, Confirm, WipeBaseline, CommitBaseline,
     MarkSucceeded, MarkFailed, CloseAgent, Heartbeat, AgentDone
<1>2. ASSUME NEW w \in Workers, Trouble(w) PROVE forgetting' = forgetting
  BY <1>2 DEF Trouble, Crash, StepFails, HeartbeatError, OrphanEdits, ExtractionFails,
     OutcomeLost, Extracting
<1>3. ASSUME NEW t \in Threads, UpdateThread(t) PROVE forgetting' = forgetting
  BY <1>3 DEF UpdateThread
<1>4. CASE ResetRows \/ ResetRoot \/ Tick \/ UNCHANGED vars
  BY <1>0, <1>4 DEF ResetRows, ResetRoot, Tick
<1> QED
  BY <1>0, <1>1, <1>2, <1>3, <1>4, ForgetFrame DEF Next

-----------------------------------------------------------------------------
\* How a step changes the rows of the jobs: not at all, by one of the writes
\* of a phase 1 worker, by a deletion or a reset, or by the time that passes.
JobsKept        == job' = job
JobsClaim(w, t) == /\ Claimable(t, seen[w][t]) /\ seen[w][t] # 0
                   /\ job' = [job EXCEPT ![t] = ClaimRow(w, t, seen[w][t])]
JobsDone(w, t)  == Owns(w, t) /\ job' = [job EXCEPT ![t] = Finished(t)]
JobsFail(w, t)  == Owns(w, t) /\ job' = [job EXCEPT ![t] = Failed(t)]
JobsDrop(S)     == job' = [t \in Threads |-> IF t \in S THEN NoJob ELSE job[t]]
JobsTick        == job' = [t \in Threads |-> Ticked(job[t])]

\* Every step changes the rows in one of these ways.
LEMMA HowJobsChange ==
  ASSUME TypeOK, [Next]_vars
  PROVE  \/ JobsKept \/ JobsTick
         \/ \E S \in SUBSET Threads : JobsDrop(S)
         \/ \E w \in Workers, t \in Threads :
              \/ JobsClaim(w, t) /\ claims' = [claims EXCEPT ![w][t] = seen[w][t]]
              \/ (JobsDone(w, t) \/ JobsFail(w, t)) /\ claims[w][t] # 0
                 /\ claims' = [claims EXCEPT ![w][t] = 0]
<1> USE DEF rows, threads, root, local, vars, bounds
<1>1. CASE UNCHANGED vars
  BY <1>1 DEF JobsKept
<1>2. ASSUME NEW w \in Workers, NEW t \in Threads, Consider(w, t)
      PROVE  JobsKept \/ (JobsClaim(w, t) /\ claims' = [claims EXCEPT ![w][t] = seen[w][t]])
  BY <1>2 DEF Consider, JobsKept, JobsClaim
<1>3. ASSUME NEW w \in Workers, NEW t \in Threads,
             StoreOutput(w, t) \/ StoreNothing(w, t) \/ ExtractionFails(w, t) \/ OutcomeLost(w, t)
      PROVE  \/ JobsKept
             \/ (JobsDone(w, t) \/ JobsFail(w, t)) /\ claims[w][t] # 0
                /\ claims' = [claims EXCEPT ![w][t] = 0]
  BY <1>3 DEF StoreOutput, StoreNothing, ExtractionFails, OutcomeLost, Extracting, JobsKept,
              JobsDone, JobsFail
<1>4. ASSUME NEW w \in Workers, Startup(w) \/ EndClaims(w) \/ EndPhase1(w) \/ Phase2(w)
                                \/ Heartbeat(w) \/ AgentDone(w)
      PROVE  JobsKept
  BY <1>4 DEF Startup, EndClaims, EndPhase1, Phase2, ClaimLock, Prepare, Select, Sync, Diff,
     Confirm, WipeBaseline, CommitBaseline, MarkSucceeded, MarkFailed, CloseAgent, Heartbeat,
     AgentDone, JobsKept
<1>5. ASSUME NEW w \in Workers, Crash(w) \/ StepFails(w) \/ HeartbeatError(w) \/ OrphanEdits(w)
      PROVE  JobsKept
  BY <1>5 DEF Crash, StepFails, HeartbeatError, OrphanEdits, JobsKept
<1>6. ASSUME NEW t \in Threads, UpdateThread(t)
      PROVE  JobsKept
  BY <1>6 DEF UpdateThread, JobsKept
<1>7. ASSUME NEW t \in Threads, Forget(t)
      PROVE  JobsKept \/ JobsDrop({t})
  <2>1. job' = job \/ job' = [job EXCEPT ![t] = NoJob]
    BY <1>7, ForgetFrame
  <2> QED
    BY <2>1 DEF JobsKept, JobsDrop, TypeOK
<1>8. CASE ResetRows
  <2>1. JobsDrop(Threads)
    BY <1>8 DEF ResetRows, JobsDrop
  <2> QED
    BY <2>1
<1>9. CASE ResetRoot
  BY <1>9 DEF ResetRoot, JobsKept
<1>10. CASE Tick
  BY <1>10 DEF Tick, JobsTick
<1>11. CASE \E w \in Workers : Phase1(w)
  BY <1>11, <1>2, <1>3, <1>4 DEF Phase1
<1>12. CASE \E w \in Workers : Trouble(w)
  BY <1>12, <1>3, <1>5 DEF Trouble
<1>13. CASE \E t \in Threads : Forget(t)
  BY <1>13, <1>7
<1> QED
  BY <1>1, <1>4, <1>6, <1>8, <1>9, <1>10, <1>11, <1>12, <1>13 DEF Next

\* The rows of the jobs keep their types and their budgets.
LEMMA JobsStep ==
  ASSUME TypeOK, RowsInv, [Next]_vars
  PROVE  /\ job' \in [Threads -> JobRows]
         /\ \A t \in Threads : /\ job'[t].st = "running" => job'[t].left > 0
                               /\ job'[t].st = "absent" => job'[t] = NoJob
<1>0. job \in [Threads -> JobRows] /\ \A w \in Workers, t \in Threads : seen[w][t] \in Versions
  BY DEF TypeOK, Snapshots
<1>1. \A t \in Threads : /\ job[t].st = "running" => job[t].left > 0
                         /\ job[t].st = "absent" => job[t] = NoJob
  BY DEF RowsInv
<1>2. CASE JobsKept
  BY <1>0, <1>1, <1>2 DEF JobsKept
<1>3. CASE JobsTick
  <2>1. ASSUME NEW t \in Threads
        PROVE  /\ job'[t] \in JobRows
               /\ job'[t].st = "running" => job'[t].left > 0
               /\ job'[t].st = "absent" => job'[t] = NoJob
    <3>1. PICK r \in JobRows : r = job[t] /\ job'[t] = Ticked(r)
      BY <1>0, <1>3 DEF JobsTick
    <3>2. (r.st = "running" => r.left > 0) /\ (r.st = "absent" => r = NoJob)
      BY <3>1, <1>1
    <3> QED
      BY <3>1, <3>2, TickedJob
  <2> QED
    BY <2>1, <1>3 DEF JobsTick
<1>4. CASE \E S \in SUBSET Threads : JobsDrop(S)
  <2>1. NoJob.st = "absent" /\ NoJob \in JobRows
    BY Blanks DEF NoJob
  <2> QED
    BY <1>0, <1>1, <1>4, <2>1 DEF JobsDrop
<1>5. ASSUME NEW w \in Workers, NEW t \in Threads, JobsClaim(w, t) \/ JobsDone(w, t) \/ JobsFail(w, t)
      PROVE  /\ job' \in [Threads -> JobRows]
             /\ \A u \in Threads : /\ job'[u].st = "running" => job'[u].left > 0
                                   /\ job'[u].st = "absent" => job'[u] = NoJob
  <2>1. PICK r \in JobRows : /\ job' = [job EXCEPT ![t] = r]
                             /\ r.st # "absent" /\ (r.st = "running" => r.left > 0)
    BY <1>0, <1>5, JobRowsStep DEF JobsClaim, JobsDone, JobsFail
  <2> QED
    BY <1>0, <1>1, <2>1
<1> QED
  BY <1>2, <1>3, <1>4, <1>5, HowJobsChange

\* Nobody's claim takes the running extractions over the cap.
LEMMA CapStep ==
  ASSUME TypeOK, RowsInv, CapRespected, [Next]_vars
  PROVE  CapRespected'
<1> DEFINE Busy == {t \in Threads : Live(job[t])}
<1>0. /\ job \in [Threads -> JobRows] /\ IsFiniteSet(Busy) /\ MaxRunning \in Nat
      /\ Cardinality(Busy) <= MaxRunning
      /\ \A w \in Workers, t \in Threads : seen[w][t] \in Versions
  <2>1. IsFiniteSet(Busy)
    BY PipelineAssumption, FS_Subset
  <2> QED
    BY <2>1, Numbers DEF TypeOK, CapRespected, Snapshots
<1>1. ASSUME \A t \in Threads : Live(job'[t]) => Live(job[t])
      PROVE  CapRespected'
  <2>1. Busy' \subseteq Busy
    BY <1>1
  <2>2. Cardinality(Busy') <= Cardinality(Busy) /\ Cardinality(Busy') \in Nat /\ Cardinality(Busy) \in Nat
    BY <1>0, <2>1, FS_Subset, FS_CardinalityType
  <2> QED
    BY <1>0, <2>2 DEF CapRespected
<1>2. CASE JobsKept
  BY <1>1, <1>2 DEF JobsKept
<1>3. CASE JobsTick
  <2>1. ASSUME NEW t \in Threads, Live(job'[t]) PROVE Live(job[t])
    <3>1. PICK r \in JobRows : r = job[t] /\ job'[t] = Ticked(r)
      BY <1>0, <1>3 DEF JobsTick
    <3>2. Ticked(r).st = r.st /\ Ticked(r).lease = Less(r.lease) /\ r.lease \in 0 .. Lease
      BY TickedJob, RowFields
    <3>3. Less(r.lease) > 0 => r.lease > 0
      BY <3>2, LessIsLess, Numbers
    <3> QED
      BY <2>1, <3>1, <3>2, <3>3 DEF Live
  <2> QED
    BY <2>1, <1>1
<1>4. CASE \E S \in SUBSET Threads : JobsDrop(S)
  <2>1. NoJob.st = "absent"
    BY DEF NoJob
  <2> QED
    BY <1>1, <1>4, <2>1 DEF JobsDrop, Live
<1>5. ASSUME NEW w \in Workers, NEW t \in Threads, JobsDone(w, t) \/ JobsFail(w, t)
      PROVE  CapRespected'
  <2>1. PICK r \in JobRows : job' = [job EXCEPT ![t] = r] /\ r.st # "running"
    BY <1>0, <1>5, JobRowsStep DEF JobsDone, JobsFail
  <2> QED
    BY <1>0, <1>1, <2>1 DEF Live
<1>6. ASSUME NEW w \in Workers, NEW t \in Threads, JobsClaim(w, t)
      PROVE  CapRespected'
  <2> DEFINE Others == {u \in Threads \ {t} : Live(job[u])}
  <2>1. IsFiniteSet(Others) /\ Cardinality(Others) < MaxRunning /\ Cardinality(Others) \in Nat
    <3>1. Others \subseteq Busy
      OBVIOUS
    <3>2. IsFiniteSet(Others)
      BY <1>0, <3>1, FS_Subset
    <3>3. Cardinality(Others) \in Nat
      BY <3>2, FS_CardinalityType
    <3>4. Cardinality(Others) < MaxRunning
      BY <1>6 DEF JobsClaim, Claimable, OthersBusy
    <3> QED
      BY <3>2, <3>3, <3>4
  <2>2. Busy' \subseteq Others \cup {t}
    BY <1>0, <1>6 DEF JobsClaim
  <2>3. /\ IsFiniteSet(Others \cup {t}) /\ Cardinality(Others \cup {t}) <= MaxRunning
        /\ Cardinality(Others \cup {t}) \in Nat
    <3>1. /\ IsFiniteSet(Others \cup {t})
          /\ Cardinality(Others \cup {t}) = Cardinality(Others) + 1
      BY <2>1, FS_AddElement
    <3> QED
      BY <1>0, <2>1, <3>1
  <2>4. Cardinality(Busy') <= Cardinality(Others \cup {t}) /\ Cardinality(Busy') \in Nat
    BY <2>2, <2>3, FS_Subset, FS_CardinalityType
  <2>5. Cardinality(Busy') <= MaxRunning
    BY <1>0, <2>3, <2>4
  <2> QED
    BY <2>5 DEF CapRespected
<1> QED
  BY <1>2, <1>3, <1>4, <1>5, <1>6, HowJobsChange

\* A worker that owns a row extracts the version the row was marked with.
LEMMA ClaimsStep ==
  ASSUME TypeOK, RowsInv, ClaimsMatch, [Next]_vars
  PROVE  ClaimsMatch'
<1>0. /\ job \in [Threads -> JobRows] /\ claims \in [Workers -> [Threads -> Versions]]
      /\ \A w \in Workers, t \in Threads : seen[w][t] \in Versions
  BY DEF TypeOK, Snapshots
<1>1. \/ claims' = claims
      \/ \E w \in Workers : claims' = [claims EXCEPT ![w] = NoVersions]
      \/ \E w \in Workers, t \in Threads : claims' = [claims EXCEPT ![w][t] = 0]
      \/ \E w \in Workers, t \in Threads :
           JobsClaim(w, t) /\ claims' = [claims EXCEPT ![w][t] = seen[w][t]]
  <2> USE DEF rows, threads, root, local, vars, bounds
  <2>1. CASE UNCHANGED vars
    BY <2>1
  <2>2. ASSUME NEW w \in Workers, NEW t \in Threads, Consider(w, t)
        PROVE  claims' = claims \/ (JobsClaim(w, t) /\ claims' = [claims EXCEPT ![w][t] = seen[w][t]])
    BY <2>2 DEF Consider, JobsClaim
  <2>3. ASSUME NEW w \in Workers, NEW t \in Threads,
               StoreOutput(w, t) \/ StoreNothing(w, t) \/ ExtractionFails(w, t) \/ OutcomeLost(w, t)
        PROVE  claims' = [claims EXCEPT ![w][t] = 0]
    BY <2>3 DEF StoreOutput, StoreNothing, ExtractionFails, OutcomeLost, Extracting
  <2>4. ASSUME NEW w \in Workers, Startup(w) \/ EndClaims(w) \/ EndPhase1(w) \/ Phase2(w)
                                  \/ Heartbeat(w) \/ AgentDone(w)
        PROVE  claims' = claims
    BY <2>4 DEF Startup, EndClaims, EndPhase1, Phase2, ClaimLock, Prepare, Select, Sync, Diff,
       Confirm, WipeBaseline, CommitBaseline, MarkSucceeded, MarkFailed, CloseAgent, Heartbeat,
       AgentDone
  <2>5. ASSUME NEW w \in Workers, StepFails(w) \/ HeartbeatError(w) \/ OrphanEdits(w)
        PROVE  claims' = claims
    BY <2>5 DEF StepFails, HeartbeatError, OrphanEdits
  <2>6. ASSUME NEW w \in Workers, Crash(w) PROVE claims' = [claims EXCEPT ![w] = NoVersions]
    BY <2>6 DEF Crash
  <2>7. ASSUME NEW t \in Threads, UpdateThread(t) \/ Forget(t)
        PROVE  claims' = claims
    BY <2>7, ForgetFrame DEF UpdateThread
  <2>8. CASE ResetRows \/ ResetRoot \/ Tick
    BY <2>8 DEF ResetRows, ResetRoot, Tick
  <2>9. CASE \E w \in Workers : Phase1(w)
    BY <2>9, <2>2, <2>3, <2>4 DEF Phase1
  <2>10. CASE \E w \in Workers : Trouble(w)
    BY <2>10, <2>3, <2>5, <2>6 DEF Trouble
  <2> QED
    BY <2>1, <2>4, <2>7, <2>8, <2>9, <2>10 DEF Next
<1>2. \/ \E w \in Workers, t \in Threads :
           JobsClaim(w, t) /\ claims' = [claims EXCEPT ![w][t] = seen[w][t]]
      \/ \A t \in Threads : \/ job'[t].st # "running"
                            \/ /\ job[t].st = "running" /\ job'[t].owner = job[t].owner
                               /\ job'[t].mark = job[t].mark
  <2>1. CASE JobsKept
    BY <2>1 DEF JobsKept
  <2>2. CASE JobsTick
    <3>1. ASSUME NEW t \in Threads
          PROVE  job'[t].st = job[t].st /\ job'[t].owner = job[t].owner /\ job'[t].mark = job[t].mark
      <4>1. PICK r \in JobRows : r = job[t] /\ job'[t] = Ticked(r)
        BY <1>0, <2>2 DEF JobsTick
      <4> QED
        BY <4>1, TickedJob
    <3> QED
      BY <3>1
  <2>3. CASE \E S \in SUBSET Threads : JobsDrop(S)
    <3>1. NoJob.st = "absent"
      BY DEF NoJob
    <3> QED
      BY <2>3, <3>1 DEF JobsDrop
  <2>4. ASSUME NEW w \in Workers, NEW t \in Threads, JobsDone(w, t) \/ JobsFail(w, t)
        PROVE  \A u \in Threads : \/ job'[u].st # "running"
                                  \/ /\ job[u].st = "running" /\ job'[u].owner = job[u].owner
                                     /\ job'[u].mark = job[u].mark
    <3>1. PICK r \in JobRows : job' = [job EXCEPT ![t] = r] /\ r.st # "running"
      BY <1>0, <2>4, JobRowsStep DEF JobsDone, JobsFail
    <3> QED
      BY <1>0, <3>1
  <2> QED
    BY <2>1, <2>2, <2>3, <2>4, HowJobsChange
<1>3. ASSUME NEW w \in Workers, NEW t \in Threads,
             JobsClaim(w, t), claims' = [claims EXCEPT ![w][t] = seen[w][t]]
      PROVE  ClaimsMatch'
  <2>1. PICK r \in JobRows : /\ job' = [job EXCEPT ![t] = r] /\ r.st = "running"
                             /\ r.owner = w /\ r.mark = seen[w][t]
    <3>1. seen[w][t] \in Versions \ {0} /\ Claimable(t, seen[w][t])
      BY <1>0, <1>3 DEF JobsClaim
    <3>2. PICK r : r = ClaimRow(w, t, seen[w][t])
      OBVIOUS
    <3>3. r \in JobRows /\ r.st = "running" /\ r.owner = w /\ r.mark = seen[w][t]
      BY <3>1, <3>2, JobRowsStep
    <3> QED
      BY <1>3, <3>2, <3>3 DEF JobsClaim
  <2> QED
    BY <1>0, <1>3, <2>1 DEF ClaimsMatch, Owns
<1>4. ASSUME ~ \E w \in Workers, t \in Threads :
                 JobsClaim(w, t) /\ claims' = [claims EXCEPT ![w][t] = seen[w][t]]
      PROVE  ClaimsMatch'
  <2>1. \A w \in Workers, t \in Threads : claims'[w][t] \in {0, claims[w][t]}
    BY <1>0, <1>1, <1>4 DEF NoVersions
  <2>2. \A w \in Workers, t \in Threads : Owns(w, t)' => Owns(w, t) /\ job'[t].mark = job[t].mark
    BY <1>2, <1>4 DEF Owns
  <2> QED
    BY <2>1, <2>2 DEF ClaimsMatch
<1> QED
  BY <1>3, <1>4

-----------------------------------------------------------------------------
\* The lock row keeps its type.
LEMMA LockStep ==
  ASSUME TypeOK, [Next]_vars
  PROVE  lock' \in LockRows
<1> USE DEF rows, threads, root, local, vars, bounds
<1>0. lock \in LockRows
  BY DEF TypeOK
<1>1. ASSUME lock' \in {lock, Enqueued, NoLock} PROVE lock' \in LockRows
  BY <1>0, <1>1, EnqueuedRow, Blanks
<1>2. CASE UNCHANGED vars
  BY <1>0, <1>2
<1>3. ASSUME NEW w \in Workers, Startup(w) \/ Phase1(w) \/ AgentDone(w) \/ Trouble(w)
      PROVE  lock' \in LockRows
  BY <1>1, <1>3 DEF Startup, Phase1, EndClaims, EndPhase1, Consider, StoreOutput, StoreNothing,
     AgentDone, Trouble, Crash, StepFails, HeartbeatError, OrphanEdits, ExtractionFails,
     OutcomeLost, Extracting
<1>4. ASSUME NEW w \in Workers, ClaimLock(w) PROVE lock' \in LockRows
  BY <1>0, <1>4, ClaimedLock DEF ClaimLock
<1>5. ASSUME NEW w \in Workers, Succeeded(w) PROVE lock' \in LockRows
  BY <1>0, <1>5, DoneLock DEF Succeeded
<1>6. ASSUME NEW w \in Workers, Heartbeat(w) \/ Confirm(w) PROVE lock' \in LockRows
  BY <1>0, <1>6, RenewedLock DEF Heartbeat, Confirm
<1>7. ASSUME NEW w \in Workers, MarkFailed(w) PROVE lock' \in LockRows
  BY <1>0, <1>7, FailedLock DEF MarkFailed
<1>8. ASSUME NEW w \in Workers, Phase2(w) PROVE lock' \in LockRows
  <2>1. CASE Diff(w) \/ MarkSucceeded(w)
    BY <1>0, <1>5, <2>1 DEF Diff, MarkSucceeded
  <2>2. CASE Prepare(w) \/ Select(w) \/ Sync(w) \/ WipeBaseline(w) \/ CommitBaseline(w) \/ CloseAgent(w)
    BY <1>0, <2>2 DEF Prepare, Select, Sync, WipeBaseline, CommitBaseline, CloseAgent
  <2> QED
    BY <1>4, <1>6, <1>7, <1>8, <2>1, <2>2 DEF Phase2
<1>9. ASSUME NEW t \in Threads, UpdateThread(t) \/ Forget(t)
      PROVE  lock' \in LockRows
  <2>1. lock' \in {lock, Enqueued}
    BY <1>9, ForgetFrame DEF UpdateThread
  <2> QED
    BY <1>1, <2>1
<1>10. CASE ResetRows \/ ResetRoot
  BY <1>1, <1>10 DEF ResetRows, ResetRoot
<1>11. CASE Tick
  BY <1>0, <1>11, TickedLock DEF Tick
<1> QED
  BY <1>2, <1>3, <1>6, <1>8, <1>9, <1>10, <1>11 DEF Next

\* A worker's note of one thread changes.
LEMMA NoteOne ==
  ASSUME NEW f \in [Workers -> Snapshots], NEW w \in Workers, NEW t \in Threads, NEW v \in Versions
  PROVE  [f EXCEPT ![w][t] = v] \in [Workers -> Snapshots]
BY DEF Snapshots

\* Every step keeps the types and the budgets.
LEMMA TypeStep ==
  ASSUME TypeOK, RowsInv, [Next]_vars
  PROVE  TypeOK' /\ RowsInv'
<1> USE DEF rows, threads, root, local, vars, bounds
<1>0. /\ job' \in [Threads -> JobRows] /\ lock' \in LockRows /\ forgetting' \in [Threads -> Remains]
      /\ \A t \in Threads : /\ job'[t].st = "running" => job'[t].left > 0
                            /\ job'[t].st = "absent" => job'[t] = NoJob
  BY JobsStep, LockStep, ForgettingStep
<1>1. NoVersions \in Snapshots
  BY Blanks
<1> DEFINE ThreadsOK == /\ version \in Snapshots
                        /\ mode \in [Threads -> Modes]
                        /\ \A t \in Threads : version[t] <= updates + 1
           RowsOK    == out \in Snapshots /\ sel \in Snapshots
           RootOK    == /\ inputs \in Snapshots /\ memory \in Snapshots
                        /\ baseline \in {None} \cup Baselines
           LocalOK   == pc \in [Workers -> Steps] /\ {seen, claims, input} \subseteq [Workers -> Snapshots]
           BoundsOK  == spent \in [Troubles -> Nat] /\ starts \in Nat /\ updates \in 0 .. MaxUpdates
           AllOK     == ThreadsOK /\ RowsOK /\ RootOK /\ LocalOK /\ BoundsOK /\ wiping \in BOOLEAN
<1>2. ThreadsOK /\ RowsOK /\ RootOK /\ LocalOK /\ BoundsOK /\ wiping \in BOOLEAN
  <2>1. ThreadsOK
    BY DEF TypeOK, RowsInv
  <2> QED
    BY <2>1 DEF TypeOK
<1>3. ASSUME AllOK' PROVE TypeOK' /\ RowsInv'
  <2>1. TypeOK'
    BY <1>0, <1>3 DEF TypeOK
  <2>2. \A t \in Threads : version'[t] <= updates' + 1
    BY <1>3
  <2>3. RowsInv'
    <3> SUFFICES ASSUME NEW t \in Threads
                 PROVE  /\ job'[t].st = "running" => job'[t].left > 0
                        /\ job'[t].st = "absent" => job'[t] = NoJob
                        /\ version'[t] <= updates' + 1
      BY DEF RowsInv
    <3>1. version'[t] <= updates' + 1
      BY <2>2
    <3>2. (job'[t].st = "running" => job'[t].left > 0) /\ (job'[t].st = "absent" => job'[t] = NoJob)
      BY <1>0
    <3> QED
      BY <3>1, <3>2
  <2> QED
    BY <2>1, <2>3
<1>4. \A k \in Troubles : Spend(k) => BoundsOK' /\ updates' = updates
  BY <1>2 DEF Spend
<1>t. version' = version /\ mode' = mode /\ updates' = updates => ThreadsOK'
  BY <1>2
<1>r. out' = out /\ sel' = sel => RowsOK'
  BY <1>2
<1>o. inputs' = inputs /\ memory' = memory /\ baseline' = baseline => RootOK'
  BY <1>2
<1>l. pc' = pc /\ seen' = seen /\ claims' = claims /\ input' = input => LocalOK'
  BY <1>2
<1>b. spent' = spent /\ starts' = starts /\ updates' = updates => BoundsOK'
  BY <1>2
<1>w. wiping' = wiping => wiping' \in BOOLEAN
  BY <1>2
<1> HIDE DEF ThreadsOK, RowsOK, RootOK, LocalOK, BoundsOK
<1>5. CASE UNCHANGED vars
  BY <1>3, <1>5, <1>t, <1>r, <1>o, <1>l, <1>b, <1>w
<1>6. ASSUME NEW w \in Workers, Startup(w) PROVE AllOK'
  <2>1. RowsOK'
    BY <1>2, <1>6, Numbers DEF Startup, Snapshots, RowsOK
  <2>2. LocalOK'
    <3>1. [t \in Threads |-> IF mode[t] = "enabled" THEN version[t] ELSE 0] \in Snapshots
      BY <1>2, Numbers DEF ThreadsOK, Snapshots
    <3> QED
      BY <1>2, <1>6, <3>1 DEF Startup, Goto, Steps, LocalOK
  <2>3. BoundsOK'
    BY <1>2, <1>6 DEF Startup, BoundsOK
  <2> QED
    BY <1>6, <2>1, <2>2, <2>3, <1>t, <1>o, <1>w DEF Startup
<1>7. ASSUME NEW w \in Workers, Phase1(w) PROVE AllOK'
  <2>1. CASE EndClaims(w) \/ EndPhase1(w)
    <3>1. LocalOK'
      BY <1>1, <1>2, <2>1 DEF EndClaims, EndPhase1, Goto, Steps, LocalOK
    <3> QED
      BY <2>1, <3>1, <1>t, <1>r, <1>o, <1>b, <1>w DEF EndClaims, EndPhase1
  <2>2. ASSUME NEW t \in Threads, Consider(w, t) PROVE AllOK'
    <3>1. seen' \in [Workers -> Snapshots] /\ claims' \in [Workers -> Snapshots]
      <4>1. seen[w][t] \in Versions /\ seen \in [Workers -> Snapshots] /\ claims \in [Workers -> Snapshots]
        BY <1>2 DEF Snapshots, LocalOK
      <4> QED
        <5>1. seen' = [seen EXCEPT ![w][t] = 0]
          BY <2>2 DEF Consider
        <5>2. claims' = claims \/ claims' = [claims EXCEPT ![w][t] = seen[w][t]]
          BY <2>2 DEF Consider
        <5> QED
          <6>1. [seen EXCEPT ![w][t] = 0] \in [Workers -> Snapshots]
            BY <4>1, NoteOne, Numbers
          <6>2. [claims EXCEPT ![w][t] = seen[w][t]] \in [Workers -> Snapshots]
            BY <4>1, NoteOne
          <6> QED
            BY <4>1, <5>1, <5>2, <6>1, <6>2
    <3>2. LocalOK'
      BY <1>2, <2>2, <3>1 DEF Consider, LocalOK
    <3> QED
      BY <2>2, <3>2, <1>t, <1>r, <1>o, <1>b, <1>w DEF Consider
  <2>3. ASSUME NEW t \in Threads, StoreOutput(w, t) \/ StoreNothing(w, t) PROVE AllOK'
    <3>1. claims' \in [Workers -> Snapshots]
      BY <1>2, <2>3, NoteOne, Numbers DEF StoreOutput, StoreNothing, Extracting, LocalOK
    <3>2. LocalOK'
      BY <1>2, <2>3, <3>1 DEF StoreOutput, StoreNothing, Extracting, LocalOK
    <3>3. RowsOK'
      <4>1. claims[w][t] \in Versions
        BY <1>2 DEF LocalOK, Snapshots
      <4> QED
        BY <1>2, <2>3, <4>1, Numbers DEF StoreOutput, StoreNothing, Snapshots, RowsOK
    <3> QED
      BY <2>3, <3>2, <3>3, <1>t, <1>o, <1>b, <1>w DEF StoreOutput, StoreNothing, Extracting
  <2> QED
    BY <1>7, <2>1, <2>2, <2>3 DEF Phase1
<1>8. ASSUME NEW w \in Workers, Phase2(w) \/ Heartbeat(w) \/ AgentDone(w) PROVE AllOK'
  <2> USE DEF Goto, Leave, Steps
  <2>0. Root \in Baselines /\ input[w] \in Snapshots
    BY <1>2 DEF Root, RootOK, LocalOK, Baselines
  <2>1. CASE ClaimLock(w) \/ Heartbeat(w) \/ Confirm(w) \/ MarkFailed(w) \/ CloseAgent(w)
    <3>1. LocalOK'
      BY <1>1, <1>2, <2>1 DEF ClaimLock, Heartbeat, Confirm, MarkFailed, CloseAgent, LocalOK
    <3> QED
      BY <2>1, <3>1, <1>t, <1>r, <1>o, <1>b, <1>w
         DEF ClaimLock, Heartbeat, Confirm, MarkFailed, CloseAgent
  <2>2. CASE Prepare(w) \/ WipeBaseline(w) \/ CommitBaseline(w)
    <3>1. LocalOK' /\ RootOK'
      BY <1>1, <1>2, <2>0, <2>2 DEF Prepare, WipeBaseline, CommitBaseline, LocalOK, RootOK
    <3> QED
      BY <2>2, <3>1, <1>t, <1>r, <1>b, <1>w DEF Prepare, WipeBaseline, CommitBaseline
  <2>3. CASE Select(w)
    <3>1. input' \in [Workers -> Snapshots]
      BY <1>2, <2>3, Numbers DEF Select, Snapshots, LocalOK, RowsOK
    <3>2. LocalOK'
      BY <1>2, <2>3, <3>1 DEF Select, LocalOK
    <3> QED
      BY <2>3, <3>2, <1>t, <1>r, <1>o, <1>b, <1>w DEF Select
  <2>4. CASE Sync(w) \/ AgentDone(w)
    <3>1. LocalOK' /\ RootOK'
      BY <1>2, <2>0, <2>4 DEF Sync, AgentDone, LocalOK, RootOK
    <3> QED
      BY <2>4, <3>1, <1>t, <1>r, <1>b, <1>w DEF Sync, AgentDone
  <2>5. Succeeded(w) /\ out' = out => RowsOK'
    BY <1>2, Numbers DEF Succeeded, Snapshots, RowsOK
  <2>6. CASE Diff(w) \/ MarkSucceeded(w)
    <3>1. LocalOK'
      BY <1>1, <1>2, <2>6 DEF Diff, MarkSucceeded, LocalOK
    <3>2. RowsOK'
      BY <2>5, <2>6, <1>r DEF Diff, MarkSucceeded
    <3> QED
      BY <2>6, <3>1, <3>2, <1>t, <1>o, <1>b, <1>w DEF Diff, MarkSucceeded
  <2> QED
    BY <1>8, <2>1, <2>2, <2>3, <2>4, <2>6 DEF Phase2
<1>9. ASSUME NEW w \in Workers, Trouble(w) PROVE AllOK'
  <2>0. /\ input[w] \in Snapshots
        /\ "fail" \in Troubles /\ "crash" \in Troubles /\ "db" \in Troubles
    BY <1>2 DEF Troubles, LocalOK
  <2>1. CASE Crash(w)
    <3>1. LocalOK' /\ RootOK'
      BY <1>1, <1>2, <2>0, <2>1 DEF Crash, LocalOK, RootOK, Goto, Leave, Steps
    <3> QED
      BY <2>0, <2>1, <3>1, <1>4, <1>t, <1>r, <1>w DEF Crash
  <2>2. CASE StepFails(w) \/ HeartbeatError(w)
    <3>1. LocalOK'
      BY <1>2, <2>2 DEF StepFails, HeartbeatError, LocalOK, Goto, Steps
    <3> QED
      BY <2>0, <2>2, <3>1, <1>4, <1>t, <1>r, <1>o, <1>w DEF StepFails, HeartbeatError
  <2>3. CASE OrphanEdits(w)
    <3>1. RootOK'
      BY <1>2, <2>0, <2>3 DEF OrphanEdits, RootOK
    <3> QED
      BY <2>3, <3>1, <1>t, <1>r, <1>l, <1>b, <1>w DEF OrphanEdits
  <2>4. ASSUME NEW t \in Threads, ExtractionFails(w, t) \/ OutcomeLost(w, t) PROVE AllOK'
    <3>1. claims' \in [Workers -> Snapshots]
      BY <1>2, <2>4, NoteOne, Numbers DEF ExtractionFails, OutcomeLost, Extracting, LocalOK
    <3>2. LocalOK'
      BY <1>2, <2>4, <3>1 DEF ExtractionFails, OutcomeLost, Extracting, LocalOK
    <3> QED
      BY <2>0, <2>4, <3>2, <1>4, <1>t, <1>r, <1>o, <1>w
         DEF ExtractionFails, OutcomeLost, Extracting
  <2> QED
    BY <1>9, <2>1, <2>2, <2>3, <2>4 DEF Trouble
<1>10. ASSUME NEW t \in Threads, UpdateThread(t) PROVE AllOK'
  <2>1. /\ version \in [Threads -> Versions] /\ \A u \in Threads : version[u] <= updates + 1
        /\ updates \in Nat /\ updates < MaxUpdates /\ updates' = updates + 1
        /\ version' = [version EXCEPT ![t] = version[t] + 1]
    BY <1>2, <1>10, Numbers DEF UpdateThread, Snapshots, ThreadsOK, BoundsOK
  <2>2. version[t] + 1 \in Versions
    BY <2>1, Numbers DEF Versions
  <2>3. \A u \in Threads : version[u] \in Nat
    BY <2>1, Numbers
  <2>4. \A u \in Threads : version'[u] <= updates' + 1
    BY <2>1, <2>3
  <2>5. version' \in [Threads -> Versions]
    BY <2>1, <2>2
  <2>6. ThreadsOK'
    BY <1>2, <1>10, <2>4, <2>5 DEF UpdateThread, Snapshots, ThreadsOK
  <2>7. BoundsOK'
    BY <1>2, <1>10, <2>1, Numbers DEF UpdateThread, BoundsOK
  <2> QED
    BY <1>10, <2>6, <2>7, <1>r, <1>o, <1>l, <1>w DEF UpdateThread
<1>11. ASSUME NEW t \in Threads, Forget(t) PROVE AllOK'
  <2>0. /\ UNCHANGED <<version, inputs, memory, baseline, pc, seen, claims, input, wiping>>
        /\ UNCHANGED <<spent, starts, updates>> \/ Spend("forget")
        /\ out' = out \/ out' = [out EXCEPT ![t] = 0]
        /\ sel' = sel \/ sel' = [sel EXCEPT ![t] = 0]
        /\ mode' \in [Threads -> Modes]
    BY <1>11, ForgetFrame
  <2>1. "forget" \in Troubles
    BY DEF Troubles
  <2>2. BoundsOK' /\ updates' = updates
    BY <1>4, <1>b, <2>0, <2>1
  <2>3. ThreadsOK'
    BY <1>2, <2>0, <2>2 DEF ThreadsOK
  <2>4. RowsOK'
    BY <1>2, <2>0, Numbers DEF RowsOK, Snapshots
  <2> QED
    BY <2>0, <2>2, <2>3, <2>4, <1>o, <1>l, <1>w
<1>12. CASE ResetRows
  <2>1. "reset" \in Troubles /\ RowsOK'
    BY <1>1, <1>12 DEF ResetRows, Troubles, RowsOK
  <2> QED
    <3>1. wiping' \in BOOLEAN /\ UNCHANGED <<threads, root, local>> /\ Spend("reset")
      BY <1>12 DEF ResetRows
    <3> QED
      BY <2>1, <3>1, <1>3, <1>4, <1>t, <1>o, <1>l
<1>13. CASE ResetRoot
  <2>1. RootOK'
    BY <1>1, <1>13 DEF ResetRoot, RootOK
  <2> QED
    <3>1. wiping' \in BOOLEAN /\ UNCHANGED <<threads, out, sel, local, bounds>>
      BY <1>13 DEF ResetRoot
    <3> QED
      BY <2>1, <3>1, <1>3, <1>t, <1>r, <1>l, <1>b
<1>14. CASE Tick
  <2>1. "stall" \in Troubles
    BY DEF Troubles
  <2>2. BoundsOK' /\ updates' = updates
    BY <1>4, <1>14, <1>b, <2>1 DEF Tick
  <2> QED
    <3>1. UNCHANGED <<threads, out, sel, root, local, wiping>>
      BY <1>14 DEF Tick
    <3> QED
      BY <2>2, <3>1, <1>3, <1>t, <1>r, <1>o, <1>l, <1>w
<1> HIDE DEF AllOK
<1> QED
  BY <1>3, <1>5, <1>6, <1>7, <1>8, <1>9, <1>10, <1>11, <1>12, <1>13, <1>14 DEF Next

\* Nothing has been claimed before the first session.
LEMMA JobsInit == Init => TypeOK /\ RowsInv /\ CapRespected /\ ClaimsMatch
<1> SUFFICES ASSUME Init PROVE TypeOK /\ RowsInv /\ CapRespected /\ ClaimsMatch
  OBVIOUS
<1>0. NoVersions \in Snapshots /\ NoJob \in JobRows /\ NoLock \in LockRows /\ NoJob.st = "absent"
  BY Blanks DEF NoJob
<1>1. /\ version \in Snapshots /\ mode \in [Threads -> Modes] /\ forgetting \in [Threads -> Remains]
      /\ \A t \in Threads : version[t] = 1
  BY Numbers DEF Init, Snapshots, Modes, Remains
<1>2. job \in [Threads -> JobRows] /\ lock \in LockRows
  BY <1>0 DEF Init
<1>3. pc \in [Workers -> Steps] /\ {seen, claims, input} \subseteq [Workers -> Snapshots]
  BY <1>0 DEF Init, Steps
<1>4. spent \in [Troubles -> Nat] /\ starts \in Nat /\ updates \in 0 .. MaxUpdates
  BY Numbers DEF Init
<1>9. wiping \in BOOLEAN
  BY DEF Init
<1>5. TypeOK
  BY <1>0, <1>1, <1>2, <1>3, <1>4, <1>9 DEF Init, TypeOK
<1>6. RowsInv
  <2>1. \A t \in Threads : version[t] <= updates + 1
    BY <1>1 DEF Init
  <2>2. \A t \in Threads : job[t] = NoJob
    BY DEF Init
  <2> QED
    BY <1>0, <2>1, <2>2 DEF RowsInv
<1>7. CapRespected
  <2>1. {t \in Threads : Live(job[t])} = {}
    BY <1>0 DEF Init, Live
  <2> QED
    BY <2>1, FS_EmptySet, Numbers DEF CapRespected
<1>8. ClaimsMatch
  BY <1>0 DEF Init, ClaimsMatch, Owns
<1> QED
  BY <1>5, <1>6, <1>7, <1>8

(* Whatever crashes, is late, is deleted or reset, a job's retry budget    *)
(* never falls below zero, no lease or delay exceeds what was granted, and *)
(* no more than max_rollouts_per_startup extractions run at the same time. *)
THEOREM JobsStayWithinLimits == Spec => []JobsInv
<1>1. TypeOK /\ RowsInv /\ CapRespected /\ [Next]_vars => (TypeOK /\ RowsInv /\ CapRespected)'
  BY TypeStep, CapStep
<1> QED
  BY <1>1, JobsInit, PTL DEF Spec, JobsInv

\* A row gets its success from the worker that has extracted its version.
LEMMA SuccessStep ==
  ASSUME TypeOK, RowsInv, ClaimsMatch, [Next]_vars, NEW t \in Threads, job'[t].ok \notin {job[t].ok, 0}
  PROVE  \E w \in Workers : claims[w][t] = job'[t].ok /\ claims'[w][t] = 0
<1>0. /\ job \in [Threads -> JobRows] /\ claims \in [Workers -> [Threads -> Versions]]
      /\ \A w \in Workers, u \in Threads : seen[w][u] \in Versions
  BY DEF TypeOK, Snapshots
<1>1. CASE JobsKept
  BY <1>1 DEF JobsKept
<1>2. CASE JobsTick
  <2>1. PICK r \in JobRows : r = job[t] /\ job'[t] = Ticked(r)
    BY <1>0, <1>2 DEF JobsTick
  <2> QED
    BY <2>1, TickedJob
<1>3. CASE \E S \in SUBSET Threads : JobsDrop(S)
  <2>1. NoJob.ok = 0
    BY DEF NoJob
  <2> QED
    BY <1>3, <2>1 DEF JobsDrop
<1>4. ASSUME NEW w \in Workers, NEW u \in Threads, JobsClaim(w, u) PROVE FALSE
  <2>1. seen[w][u] \in Versions \ {0} /\ Claimable(u, seen[w][u])
    BY <1>0, <1>4 DEF JobsClaim
  <2>2. PICK r : r = ClaimRow(w, u, seen[w][u])
    OBVIOUS
  <2>3. r.ok = job[u].ok
    BY <2>1, <2>2, JobRowsStep
  <2> QED
    BY <1>0, <1>4, <2>2, <2>3 DEF JobsClaim
<1>5. ASSUME NEW w \in Workers, NEW u \in Threads, JobsFail(w, u) PROVE FALSE
  <2>1. PICK r \in JobRows : r = job[u]
    BY <1>0
  <2>2. PICK s : s = [r EXCEPT !.st = "error", !.owner = None, !.lease = 0, !.retry = RetryDelay,
                               !.left = @ - 1]
    OBVIOUS
  <2>3. s.ok = r.ok
    BY <2>2 DEF JobRows
  <2>4. job' = [job EXCEPT ![u] = s]
    BY <1>5, <2>1, <2>2 DEF JobsFail, Failed
  <2> QED
    BY <1>0, <2>1, <2>3, <2>4
<1>6. ASSUME NEW w \in Workers, NEW u \in Threads, JobsDone(w, u), claims[w][u] # 0,
             claims' = [claims EXCEPT ![w][u] = 0]
      PROVE  claims[w][t] = job'[t].ok /\ claims'[w][t] = 0
  <2>1. PICK r \in JobRows : r = job[u]
    BY <1>0
  <2>2. PICK s : s = [r EXCEPT !.st = "done", !.owner = None, !.lease = 0, !.ok = r.mark]
    OBVIOUS
  <2>3. s.ok = r.mark
    BY <2>2 DEF JobRows
  <2>4. job' = [job EXCEPT ![u] = s]
    BY <1>6, <2>1, <2>2 DEF JobsDone, Finished
  <2>5. u = t /\ job'[t].ok = job[t].mark
    BY <1>0, <2>1, <2>3, <2>4
  <2>6. claims[w][t] = job[t].mark
    BY <1>6, <2>5 DEF JobsDone, ClaimsMatch
  <2> QED
    BY <1>0, <1>6, <2>5, <2>6
<1> QED
  BY <1>1, <1>2, <1>3, <1>4, <1>5, <1>6, HowJobsChange

(* mark_stage1_job_succeeded compares the ownership token: a thread counts *)
(* as extracted at a version only when a worker that claimed that version  *)
(* has extracted it, however late or crashed the others are.               *)
THEOREM SuccessHasItsExtraction == Spec => SuccessIsEarned
<1> DEFINE I == TypeOK /\ RowsInv /\ ClaimsMatch
<1>1. Init => I
  BY JobsInit
<1>2. I /\ [Next]_vars => I'
  BY TypeStep, ClaimsStep
<1>3. I /\ [Next]_vars =>
        [\A t \in Threads : job'[t].ok \notin {job[t].ok, 0} =>
           \E w \in Workers : claims[w][t] = job'[t].ok /\ claims'[w][t] = 0]_vars
  BY SuccessStep
<1> QED
  BY <1>1, <1>2, <1>3, PTL DEF Spec, SuccessIsEarned

-----------------------------------------------------------------------------
(* The consolidation lock, while no lease runs out under its holder, nobody *)
(* resets the memories and no heartbeat fails on the database.  Workers may *)
(* crash and steps may fail.                                                *)
Undisturbed == Limit["stall"] = 0 /\ Limit["reset"] = 0 /\ Limit["db"] = 0

\* None of the three happens.
LEMMA NoDisturbance ==
  ASSUME Undisturbed, TypeOK
  PROVE  ~ Spend("stall") /\ ~ Spend("reset") /\ ~ Spend("db")
<1>1. spent["stall"] \in Nat /\ spent["reset"] \in Nat /\ spent["db"] \in Nat
  BY DEF TypeOK, Troubles
<1> QED
  BY <1>1 DEF Undisturbed, Spend

\* A lock that is held is one worker's.
LEMMA OneHolder ==
  ASSUME HoldersOwn, NEW v \in Workers, NEW w \in Workers, pc[v] \in Holding, pc[w] \in Holding
  PROVE  v = w
BY DEF HoldersOwn, OwnsLock

\* Steps that leave the lock to its holder keep whoever works on the root
\* its owner.
LEMMA HoldersKept ==
  ASSUME TypeOK, HoldersOwn, lock' \in {lock, Enqueued}, wiping' = wiping,
         \A v \in Workers : /\ pc'[v] \in Holding => pc[v] \in Holding
                            /\ pc'[v] \notin {"orphan", "close"}
  PROVE  HoldersOwn'
<1>1. ASSUME NEW v \in Workers, pc'[v] \in Holding PROVE OwnsLock(v)' /\ lock'.lease > 0
  <2>1. OwnsLock(v) /\ lock.lease > 0
    BY <1>1 DEF HoldersOwn
  <2>2. lock' = lock
    BY <2>1, EnqueuedRow DEF OwnsLock, TypeOK
  <2> QED
    BY <2>1, <2>2 DEF OwnsLock
<1>2. ~wiping'
  BY DEF HoldersOwn
<1> QED
  BY <1>1, <1>2 DEF HoldersOwn

\* A step of w alone leaves every other worker where it is.
LEMMA GotoOne ==
  ASSUME TypeOK, NEW w \in Workers, NEW p, Goto(w, p)
  PROVE  pc'[w] = p /\ \A v \in Workers : v # w => pc'[v] = pc[v]
BY DEF TypeOK, Goto

\* Whoever works on the memory root owns a live lock, step by step.
LEMMA HoldersStep ==
  ASSUME Undisturbed, TypeOK, HoldersOwn, [Next]_vars
  PROVE  HoldersOwn'
<1> USE DEF rows, threads, root, local, vars, bounds
<1>0. /\ lock \in LockRows /\ ~wiping
      /\ \A v \in Workers : /\ pc[v] \in Holding => OwnsLock(v) /\ lock.lease > 0
                            /\ pc[v] \notin {"orphan", "close"}
  BY DEF TypeOK, HoldersOwn
<1>1. \A p \in {"idle", "claim1", "run1", "claim2", "fail"} : p \notin Holding \cup {"orphan", "close"}
  BY DEF Holding
<1>2. \A p \in Holding : p \notin {"orphan", "close", "fail", "claim2"}
  BY DEF Holding
<1>k. ASSUME lock' \in {lock, Enqueued}, wiping' = wiping, pc' = pc PROVE HoldersOwn'
  BY <1>0, <1>k, HoldersKept
\* Steps of w that keep the lock row or enqueue a consolidation.
<1>g. ASSUME NEW w \in Workers, NEW p, Goto(w, p), lock' \in {lock, Enqueued}, wiping' = wiping,
             \/ p \in {"idle", "claim1", "run1", "claim2", "fail"}
             \/ p \in Holding /\ pc[w] \in Holding
      PROVE  HoldersOwn'
  BY <1>0, <1>1, <1>2, <1>g, GotoOne, HoldersKept
<1>3. CASE UNCHANGED vars
  BY <1>3, <1>k
<1>4. ASSUME NEW w \in Workers, Startup(w) \/ Phase1(w) PROVE HoldersOwn'
  <2>1. CASE Startup(w)
    BY <2>1, <1>g DEF Startup
  <2>2. CASE EndClaims(w) \/ EndPhase1(w)
    BY <2>2, <1>g DEF EndClaims, EndPhase1
  <2>3. ASSUME NEW t \in Threads, Consider(w, t) \/ StoreOutput(w, t) \/ StoreNothing(w, t)
        PROVE  HoldersOwn'
    <3>1. lock' \in {lock, Enqueued} /\ wiping' = wiping /\ pc' = pc
      BY <2>3 DEF Consider, StoreOutput, StoreNothing, Extracting
    <3> QED
      BY <3>1, <1>k
  <2> QED
    BY <1>4, <2>1, <2>2, <2>3 DEF Phase1
<1>5. ASSUME NEW w \in Workers, ClaimLock(w) PROVE HoldersOwn'
  <2>1. CASE LockFree
    <3>1. \A v \in Workers : pc[v] \notin Holding
      BY <1>0, <2>1 DEF LockFree, Live, OwnsLock
    <3>2. /\ lock' = [NoLock EXCEPT !.st = "running", !.owner = w, !.lease = Lease]
          /\ Goto(w, "prepare") /\ wiping' = wiping
      BY <1>5, <2>1 DEF ClaimLock
    <3>3. lock'.st = "running" /\ lock'.owner = w /\ lock'.lease > 0
      BY <3>2, ClaimedLock, Numbers
    <3>4. \A v \in Workers : /\ pc'[v] \in Holding => v = w
                             /\ pc'[v] \notin {"orphan", "close"}
      BY <1>0, <3>1, <3>2, GotoOne
    <3> QED
      BY <1>0, <3>2, <3>3, <3>4 DEF HoldersOwn, OwnsLock
  <2>2. CASE ~LockFree
    BY <1>5, <1>g, <2>2 DEF ClaimLock
  <2> QED
    BY <2>1, <2>2
<1>6. ASSUME NEW w \in Workers, Prepare(w) \/ Select(w) \/ Sync(w) \/ WipeBaseline(w)
                                \/ CommitBaseline(w) \/ AgentDone(w)
      PROVE  HoldersOwn'
  <2>1. PICK p \in Holding : Goto(w, p) /\ pc[w] \in Holding /\ lock' = lock /\ wiping' = wiping
    BY <1>6 DEF Prepare, Select, Sync, WipeBaseline, CommitBaseline, AgentDone, Holding
  <2> QED
    BY <2>1, <1>g
<1>7. ASSUME NEW w \in Workers, pc[w] \in Holding, Succeeded(w), Goto(w, "idle"), wiping' = wiping
      PROVE  HoldersOwn'
  <2>1. \A v \in Workers : /\ pc'[v] \notin Holding
                           /\ pc'[v] \notin {"orphan", "close"}
    BY <1>0, <1>1, <1>7, GotoOne, OneHolder
  <2> QED
    BY <1>0, <1>7, <2>1 DEF HoldersOwn
<1>8. ASSUME NEW w \in Workers, Diff(w) \/ MarkSucceeded(w) PROVE HoldersOwn'
  <2>0. pc[w] \in Holding /\ "agent" \in Holding
    BY <1>8 DEF Diff, MarkSucceeded, Holding
  <2>1. CASE Diff(w) /\ baseline # Root
    BY <1>g, <2>0, <2>1 DEF Diff
  <2>2. CASE MarkSucceeded(w) \/ (Diff(w) /\ baseline = Root)
    BY <1>7, <2>0, <2>2 DEF Diff, MarkSucceeded, Leave
  <2> QED
    BY <1>8, <2>1, <2>2
<1>9. ASSUME NEW w \in Workers, Heartbeat(w) \/ Confirm(w) PROVE HoldersOwn'
  <2>0. pc[w] \in Holding /\ OwnsLock(w) /\ "wipe" \in Holding /\ "agent" \in Holding
    <3>1. pc[w] \in Holding /\ "wipe" \in Holding /\ "agent" \in Holding
      BY <1>9 DEF Heartbeat, Confirm, Holding
    <3> QED
      BY <1>0, <3>1
  <2>1. lock' = [lock EXCEPT !.lease = Lease] /\ wiping' = wiping /\ (pc' = pc \/ Goto(w, "wipe"))
    BY <1>9, <2>0 DEF Heartbeat, Confirm
  <2>2. lock'.st = lock.st /\ lock'.owner = lock.owner /\ lock'.lease > 0
    BY <1>0, <2>1, RenewedLock, Numbers
  <2>3. \A v \in Workers : /\ pc'[v] \in Holding => pc[v] \in Holding
                           /\ pc'[v] \notin {"orphan", "close"}
    BY <1>0, <1>2, <2>0, <2>1, GotoOne
  <2> QED
    BY <1>0, <2>1, <2>2, <2>3 DEF HoldersOwn, OwnsLock
<1>10. ASSUME NEW w \in Workers, MarkFailed(w) PROVE HoldersOwn'
  <2>1. pc[w] = "fail" /\ Goto(w, "idle") /\ wiping' = wiping
    BY <1>0, <1>10 DEF MarkFailed, Leave
  <2>2. ASSUME NEW v \in Workers, pc'[v] \in Holding PROVE OwnsLock(v)' /\ lock'.lease > 0
    <3>1. v # w /\ pc[v] \in Holding
      BY <1>1, <2>1, <2>2, GotoOne
    <3>2. OwnsLock(v) /\ lock.lease > 0
      BY <1>0, <3>1
    <3>3. ~ OwnsLock(w) /\ lock.owner # None
      BY <3>1, <3>2, PipelineAssumption DEF OwnsLock
    <3>4. lock' = lock
      BY <1>10, <3>3 DEF MarkFailed
    <3> QED
      BY <3>2, <3>4 DEF OwnsLock
  <2>3. \A v \in Workers : pc'[v] \notin {"orphan", "close"}
    BY <1>0, <2>1, GotoOne
  <2> QED
    BY <1>0, <2>1, <2>2, <2>3 DEF HoldersOwn
<1>11. ASSUME NEW w \in Workers, Phase2(w) PROVE HoldersOwn'
  <2>1. ~ CloseAgent(w)
    BY <1>0 DEF CloseAgent
  <2> QED
    BY <1>5, <1>6, <1>8, <1>9, <1>10, <1>11, <2>1 DEF Phase2
<1>12. ASSUME NEW w \in Workers, Trouble(w) PROVE HoldersOwn'
  <2>1. CASE Crash(w) \/ StepFails(w)
    <3>1. PICK p \in {"idle", "fail"} : Goto(w, p) /\ lock' = lock /\ wiping' = wiping
      BY <2>1 DEF Crash, StepFails, Leave
    <3> QED
      BY <3>1, <1>g
  <2>2. ~ HeartbeatError(w) /\ ~ OrphanEdits(w)
    BY <1>0, NoDisturbance DEF HeartbeatError, OrphanEdits
  <2>3. ASSUME NEW t \in Threads, ExtractionFails(w, t) \/ OutcomeLost(w, t)
        PROVE  HoldersOwn'
    <3>1. lock' = lock /\ wiping' = wiping /\ pc' = pc
      BY <2>3 DEF ExtractionFails, OutcomeLost, Extracting
    <3> QED
      BY <3>1, <1>k
  <2> QED
    BY <1>12, <2>1, <2>2, <2>3 DEF Trouble
<1>13. ASSUME NEW t \in Threads, UpdateThread(t) \/ Forget(t)
       PROVE  HoldersOwn'
  <2>1. lock' \in {lock, Enqueued} /\ wiping' = wiping /\ pc' = pc
    BY <1>13, ForgetFrame DEF UpdateThread
  <2> QED
    BY <2>1, <1>k
<1>14. ~ ResetRows /\ ~ ResetRoot
  BY <1>0, NoDisturbance DEF ResetRows, ResetRoot
<1>15. CASE Tick
  <2>1. ~ Late /\ lock' = [Ticked(lock) EXCEPT !.cool = Less(@)] /\ pc' = pc /\ wiping' = wiping
    BY <1>15, NoDisturbance DEF Tick
  <2>2. lock'.st = lock.st /\ lock'.owner = lock.owner /\ lock'.lease = Less(lock.lease)
    BY <1>0, <2>1, TickedLock
  <2>3. ASSUME NEW v \in Workers, pc[v] \in Holding PROVE lock'.lease > 0
    <3>1. lock.st = "running" /\ lock.owner = v /\ lock.lease > 0 /\ lock.lease \in Nat
      BY <1>0, <2>3, LockFields, Numbers DEF OwnsLock
    <3>2. lock.lease # 1
      <4>1. pc[v] \notin {"idle", "claim1", "run1", "claim2"}
        BY <1>1, <2>3
      <4> QED
        BY <2>1, <3>1, <4>1 DEF Late, Live
    <3>3. Less(lock.lease) > 0
      BY <3>1, <3>2 DEF Less
    <3> QED
      BY <2>2, <3>3
  <2> QED
    BY <1>0, <2>1, <2>2, <2>3 DEF HoldersOwn, OwnsLock
<1> QED
  BY <1>3, <1>4, <1>6, <1>9, <1>11, <1>12, <1>13, <1>14, <1>15 DEF Next

\* Only the holder of the lock touches the memory root and the baseline.
LEMMA RootStep ==
  ASSUME Undisturbed, TypeOK, HoldersOwn, RootIsSynced, [Next]_vars
  PROVE  RootIsSynced'
<1> USE DEF rows, threads, root, local, vars, bounds
<1>0. /\ ~wiping /\ Synced \subseteq Holding /\ "mark" \in Synced
      /\ \A v \in Workers : pc[v] \notin {"orphan", "close"}
      /\ \A v \in Workers : /\ pc[v] \in Synced => inputs = input[v]
                            /\ pc[v] = "mark" => baseline # None /\ baseline.inputs = input[v]
  BY DEF HoldersOwn, RootIsSynced, Synced, Holding
<1>1. \A p \in {"idle", "claim1", "run1", "claim2", "fail", "prepare", "select", "sync"} :
        p \notin Synced
  BY DEF Holding, Synced
<1>2. inputs \in Snapshots /\ memory \in Snapshots /\ input \in [Workers -> Snapshots]
  BY DEF TypeOK
\* The root is left alone, and so is what w had selected, or w has no claim on it.
<1>k. ASSUME inputs' = inputs, baseline' = baseline,
             \A v \in Workers : pc'[v] \in Synced =>
               pc[v] \in Synced /\ input'[v] = input[v] /\ (pc'[v] = "mark" => pc[v] = "mark")
      PROVE  RootIsSynced'
  BY <1>0, <1>k DEF RootIsSynced
<1>u. ASSUME inputs' = inputs, baseline' = baseline, pc' = pc, input' = input PROVE RootIsSynced'
  BY <1>k, <1>u
<1>g. ASSUME NEW w \in Workers, NEW p, Goto(w, p), inputs' = inputs, baseline' = baseline,
             \A v \in Workers : v # w => input'[v] = input[v],
             \/ p \notin Synced
             \/ p # "mark" /\ input'[w] = input[w] /\ pc[w] \in Synced
      PROVE  RootIsSynced'
  BY <1>g, <1>k, GotoOne
<1>l. \A w \in Workers : Leave(w) => Goto(w, "idle") /\ \A v \in Workers : v # w => input'[v] = input[v]
  BY <1>2 DEF Leave
\* Whoever holds the lock is alone with the root.
<1>h. ASSUME NEW w \in Workers, NEW p, Goto(w, p), pc[w] \in Holding, input' = input,
             p \in Synced => inputs' = input[w],
             p = "mark" => baseline' # None /\ baseline'.inputs = input[w]
      PROVE  RootIsSynced'
  <2>1. \A v \in Workers : v # w => pc'[v] \notin Synced
    BY <1>0, <1>h, GotoOne, OneHolder
  <2>2. pc'[w] = p
    BY <1>h, GotoOne
  <2> QED
    BY <1>0, <1>h, <2>1, <2>2 DEF RootIsSynced
<1>3. CASE UNCHANGED vars
  BY <1>3, <1>u
<1>4. ASSUME NEW w \in Workers, Startup(w) \/ Phase1(w) PROVE RootIsSynced'
  <2>1. CASE Startup(w)
    BY <2>1, <1>1, <1>g DEF Startup
  <2>2. CASE EndClaims(w) \/ EndPhase1(w)
    BY <2>2, <1>1, <1>g DEF EndClaims, EndPhase1
  <2>3. ASSUME NEW t \in Threads, Consider(w, t) \/ StoreOutput(w, t) \/ StoreNothing(w, t)
        PROVE  RootIsSynced'
    <3>1. inputs' = inputs /\ baseline' = baseline /\ pc' = pc /\ input' = input
      BY <2>3 DEF Consider, StoreOutput, StoreNothing, Extracting
    <3> QED
      BY <3>1, <1>u
  <2> QED
    BY <1>4, <2>1, <2>2, <2>3 DEF Phase1
<1>5. ASSUME NEW w \in Workers, ClaimLock(w) PROVE RootIsSynced'
  <2>1. PICK p \in {"prepare", "idle"} : Goto(w, p) /\ inputs' = inputs /\ baseline' = baseline
                                         /\ input' = input
    BY <1>5 DEF ClaimLock
  <2> QED
    BY <2>1, <1>1, <1>g
<1>6. ASSUME NEW w \in Workers, Prepare(w) \/ WipeBaseline(w) PROVE RootIsSynced'
  <2>1. CASE Prepare(w)
    <3>1. Goto(w, "select") /\ pc[w] \in Holding /\ input' = input
      BY <2>1 DEF Prepare, Holding
    <3> QED
      BY <3>1, <1>1, <1>h, <1>0
  <2>2. CASE WipeBaseline(w)
    <3>1. /\ Goto(w, "commit") /\ pc[w] \in Holding /\ pc[w] \in Synced /\ input' = input
          /\ inputs' = inputs
      BY <2>2 DEF WipeBaseline, Holding, Synced
    <3> QED
      BY <3>1, <1>h, <1>0
  <2> QED
    BY <1>6, <2>1, <2>2
<1>7. ASSUME NEW w \in Workers, Select(w) PROVE RootIsSynced'
  <2>1. \A v \in Workers : v # w => input'[v] = input[v]
    BY <1>2, <1>7 DEF Select
  <2>2. Goto(w, "sync") /\ inputs' = inputs /\ baseline' = baseline
    BY <1>7 DEF Select
  <2> QED
    BY <2>1, <2>2, <1>1, <1>g
<1>8. ASSUME NEW w \in Workers, Sync(w) PROVE RootIsSynced'
  <2>1. Goto(w, "diff") /\ pc[w] \in Holding /\ input' = input /\ inputs' = input[w]
    BY <1>8 DEF Sync, Holding
  <2> QED
    BY <2>1, <1>h
<1>9. ASSUME NEW w \in Workers, CommitBaseline(w) PROVE RootIsSynced'
  <2>1. /\ Goto(w, "mark") /\ pc[w] \in Holding /\ pc[w] \in Synced /\ input' = input
        /\ inputs' = inputs /\ baseline' = Root
    BY <1>9 DEF CommitBaseline, Holding, Synced
  <2>2. Root \in Baselines /\ Root.inputs = inputs
    BY <1>2 DEF Root, Baselines
  <2>3. Root # None /\ Root.inputs = input[w]
    BY <1>0, <2>1, <2>2, PipelineAssumption
  <2> QED
    BY <1>0, <2>1, <2>3, <1>h
<1>10. ASSUME NEW w \in Workers, Diff(w) \/ MarkSucceeded(w) \/ Heartbeat(w) \/ Confirm(w)
       PROVE  RootIsSynced'
  <2>0. "agent" \in Synced /\ "wipe" \in Synced /\ "orphan" \notin Synced /\ pc[w] \in Synced
    BY <1>10 DEF Diff, MarkSucceeded, Heartbeat, Confirm, Holding, Synced
  <2>1. inputs' = inputs /\ baseline' = baseline
    BY <1>10 DEF Diff, MarkSucceeded, Heartbeat, Confirm
  <2>2. \/ Leave(w) \/ (pc' = pc /\ input' = input)
        \/ (Goto(w, "agent") \/ Goto(w, "orphan") \/ Goto(w, "wipe")) /\ input' = input
    BY <1>10 DEF Diff, MarkSucceeded, Heartbeat, Confirm
  <2> QED
    BY <2>0, <2>1, <2>2, <1>1, <1>g, <1>l, <1>u
<1>11. ASSUME NEW w \in Workers, MarkFailed(w) PROVE RootIsSynced'
  <2>1. Leave(w) /\ inputs' = inputs /\ baseline' = baseline
    BY <1>0, <1>11 DEF MarkFailed
  <2> QED
    BY <2>1, <1>1, <1>g, <1>l
<1>12. ASSUME NEW w \in Workers, Phase2(w) PROVE RootIsSynced'
  <2>1. ~ CloseAgent(w)
    BY <1>0 DEF CloseAgent
  <2> QED
    BY <1>5, <1>6, <1>7, <1>8, <1>9, <1>10, <1>11, <1>12, <2>1 DEF Phase2
<1>13. ASSUME NEW w \in Workers, AgentDone(w) PROVE RootIsSynced'
  <2>1. /\ Goto(w, "confirm") /\ pc[w] \in Synced /\ "confirm" \in Synced /\ input' = input
        /\ inputs' = inputs /\ baseline' = baseline
    BY <1>13 DEF AgentDone, Holding, Synced
  <2> QED
    BY <2>1, <1>g
<1>14. ASSUME NEW w \in Workers, Trouble(w) PROVE RootIsSynced'
  <2>1. CASE Crash(w)
    <3>1. Leave(w) /\ inputs' = inputs /\ baseline' = baseline
      BY <2>1 DEF Crash
    <3> QED
      BY <3>1, <1>1, <1>g, <1>l
  <2>2. CASE StepFails(w)
    <3>1. Goto(w, "fail") /\ inputs' = inputs /\ baseline' = baseline /\ input' = input
      BY <2>2 DEF StepFails
    <3> QED
      BY <3>1, <1>1, <1>g
  <2>3. ~ HeartbeatError(w) /\ ~ OrphanEdits(w)
    BY <1>0, NoDisturbance DEF HeartbeatError, OrphanEdits
  <2>4. ASSUME NEW t \in Threads, ExtractionFails(w, t) \/ OutcomeLost(w, t)
        PROVE  RootIsSynced'
    <3>1. inputs' = inputs /\ baseline' = baseline /\ pc' = pc /\ input' = input
      BY <2>4 DEF ExtractionFails, OutcomeLost, Extracting
    <3> QED
      BY <3>1, <1>u
  <2> QED
    BY <1>14, <2>1, <2>2, <2>3, <2>4 DEF Trouble
<1>15. ASSUME NEW t \in Threads, UpdateThread(t) \/ Forget(t)
       PROVE  RootIsSynced'
  <2>1. inputs' = inputs /\ baseline' = baseline /\ pc' = pc /\ input' = input
    BY <1>15, ForgetFrame DEF UpdateThread
  <2> QED
    BY <2>1, <1>u
<1>16. ~ ResetRows /\ ~ ResetRoot
  BY <1>0, NoDisturbance DEF ResetRows, ResetRoot
<1>17. CASE Tick
  <2>1. inputs' = inputs /\ baseline' = baseline /\ pc' = pc /\ input' = input
    BY <1>17 DEF Tick
  <2> QED
    BY <2>1, <1>u
<1> QED
  BY <1>3, <1>4, <1>10, <1>12, <1>13, <1>14, <1>15, <1>16, <1>17 DEF Next

\* A snapshot is marked by a worker whose selection the baseline holds.
LEMMA SelectedStep ==
  ASSUME TypeOK, HoldersOwn, RootIsSynced, [Next]_vars,
         NEW t \in Threads, sel'[t] \notin {sel[t], 0}
  PROVE  baseline # None /\ baseline.inputs[t] = sel'[t]
<1> USE DEF rows, threads, root, local, vars, bounds
<1>0. sel \in [Threads -> Versions] /\ inputs \in Snapshots /\ memory \in Snapshots
  BY DEF TypeOK, Snapshots
<1>1. PICK w \in Workers : (Diff(w) /\ baseline = Root) \/ MarkSucceeded(w)
  <2>1. sel' # sel
    OBVIOUS
  <2>2. ASSUME NEW w \in Workers, NEW u \in Threads, StoreNothing(w, u) PROVE FALSE
    BY <1>0, <2>2 DEF StoreNothing
  <2>3. ASSUME NEW u \in Threads, Forget(u) PROVE FALSE
    BY <1>0, <2>3, ForgetFrame
  <2>4. ~ ResetRows
    BY DEF ResetRows, NoVersions
  <2>5. ASSUME NEW w \in Workers, Startup(w) \/ EndClaims(w) \/ EndPhase1(w) \/ Heartbeat(w)
                                  \/ AgentDone(w) \/ Trouble(w)
        PROVE  FALSE
    BY <2>1, <2>5 DEF Startup, EndClaims, EndPhase1, Heartbeat, AgentDone, Trouble, Crash,
       StepFails, HeartbeatError, OrphanEdits, ExtractionFails, OutcomeLost
  <2>6. ASSUME NEW w \in Workers, NEW u \in Threads, Consider(w, u) \/ StoreOutput(w, u) PROVE FALSE
    BY <2>1, <2>6 DEF Consider, StoreOutput
  <2>7. ASSUME NEW w \in Workers, ClaimLock(w) \/ Prepare(w) \/ Select(w) \/ Sync(w) \/ Confirm(w)
                                  \/ WipeBaseline(w) \/ CommitBaseline(w) \/ MarkFailed(w)
                                  \/ CloseAgent(w)
        PROVE  FALSE
    BY <2>1, <2>7 DEF ClaimLock, Prepare, Select, Sync, Confirm, WipeBaseline, CommitBaseline,
       MarkFailed, CloseAgent
  <2>8. ASSUME NEW w \in Workers, Diff(w), baseline # Root PROVE FALSE
    BY <2>1, <2>8 DEF Diff
  <2>9. ASSUME NEW u \in Threads, UpdateThread(u) PROVE FALSE
    BY <2>1, <2>9 DEF UpdateThread
  <2>10. ~ ResetRoot /\ ~ Tick /\ ~ UNCHANGED vars
    BY <2>1 DEF ResetRoot, Tick
  <2> QED
    BY <2>2, <2>3, <2>4, <2>5, <2>6, <2>7, <2>8, <2>9, <2>10 DEF Next, Phase1, Phase2
<1>2. sel'[t] = input[w][t]
  <2>1. Succeeded(w)
    BY <1>1 DEF Diff, MarkSucceeded
  <2> QED
    BY <2>1 DEF Succeeded
<1>3. baseline # None /\ baseline.inputs = input[w]
  <2>1. CASE Diff(w) /\ baseline = Root
    <3>1. Root \in Baselines /\ Root.inputs = inputs
      BY <1>0 DEF Root, Baselines
    <3>2. inputs = input[w]
      BY <2>1 DEF Diff, RootIsSynced, Synced, Holding
    <3> QED
      BY <2>1, <3>1, <3>2, PipelineAssumption
  <2>2. CASE MarkSucceeded(w)
    BY <2>2 DEF MarkSucceeded, RootIsSynced
  <2> QED
    BY <1>1, <2>1, <2>2
<1> QED
  BY <1>2, <1>3

\* Before the first session nobody holds the lock.
LEMMA HoldersInit == Init => TypeOK /\ RowsInv /\ HoldersOwn /\ RootIsSynced
<1> SUFFICES ASSUME Init PROVE HoldersOwn /\ RootIsSynced
  BY JobsInit
<1>1. ~wiping /\ \A w \in Workers : pc[w] = "idle"
  BY DEF Init
<1> QED
  BY <1>1 DEF HoldersOwn, RootIsSynced, Holding, Synced

\* What holds in every state of an undisturbed behaviour.
LEMMA HoldersInvariant ==
  Undisturbed /\ Spec => [](TypeOK /\ RowsInv /\ HoldersOwn /\ RootIsSynced)
<1> DEFINE I == TypeOK /\ RowsInv /\ HoldersOwn /\ RootIsSynced
<1>1. (Undisturbed /\ I) /\ [Next]_vars => (Undisturbed /\ I)'
  BY TypeStep, HoldersStep, RootStep DEF Undisturbed
<1>2. Undisturbed /\ Init => Undisturbed /\ I
  BY HoldersInit
<1> HIDE DEF I
<1>3. Undisturbed /\ Spec => [](Undisturbed /\ I)
  BY <1>1, <1>2, PTL DEF Spec
<1> QED
  BY <1>3, PTL DEF I

(* "Only one consolidation inspects or mutates the workspace at a time":   *)
(* for any number of sessions, whichever of them crash or fail, as long as *)
(* no lease runs out under its holder and no heartbeat fails.              *)
THEOREM OneConsolidationHolds == Undisturbed /\ Spec => []OneConsolidation
<1> DEFINE Busy == {w \in Workers : pc[w] \notin {"idle", "claim1", "run1", "claim2", "fail"}}
<1>1. TypeOK /\ HoldersOwn => OneConsolidation
  <2> SUFFICES ASSUME TypeOK, HoldersOwn PROVE Cardinality(Busy) <= 1
    BY DEF OneConsolidation
  <2>1. \A w \in Busy : pc[w] \in Holding
    BY DEF TypeOK, HoldersOwn, Steps, Holding
  <2>2. \A v, w \in Busy : v = w
    BY <2>1, OneHolder
  <2>3. CASE Busy = {}
    <3>1. Cardinality(Busy) = 0
      BY <2>3, FS_EmptySet
    <3> QED
      BY <3>1
  <2>4. CASE Busy # {}
    <3>1. PICK w : Busy = {w}
      BY <2>2, <2>4
    <3>2. Cardinality(Busy) = 1
      BY <3>1, FS_Singleton
    <3> QED
      BY <3>2
  <2> QED
    BY <2>3, <2>4
<1> QED
  BY <1>1, HoldersInvariant, PTL

(* "Successful Phase 2 runs mark the exact stage-1 snapshots they          *)
(* consumed": under the same conditions a snapshot is marked only when the *)
(* baseline of the memory root holds it.                                   *)
THEOREM SelectedWasInBaseline == Undisturbed /\ Spec => SelectedWasConsumed
<1>1. TypeOK /\ HoldersOwn /\ RootIsSynced /\ [Next]_vars =>
        [\A t \in Threads : sel'[t] \notin {sel[t], 0} =>
           baseline # None /\ baseline.inputs[t] = sel'[t]]_vars
  BY SelectedStep
<1> QED
  BY <1>1, HoldersInvariant, PTL DEF Spec, SelectedWasConsumed
=============================================================================
