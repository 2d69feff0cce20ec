--------------------------- MODULE MemoryPipeline ---------------------------
(***************************************************************************)
(* The memory pipeline every root session starts in the background: phase  *)
(* 1 claims threads whose rollout is newer than their memory and stores    *)
(* one extracted output per thread; phase 2 takes the global consolidation *)
(* lock, copies the selected outputs into the memory root, and lets an     *)
(* agent bring the consolidated memory up to date when the root differs    *)
(* from its git baseline.  Workers are sessions, possibly of several       *)
(* processes, that meet only in the memories database (jobs and            *)
(* stage1_outputs) and in the memory root.                                 *)
(*                                                                         *)
(* An action is one database transaction or one step on the memory root.   *)
(* Threads and their memory modes live in another database, the state DB.  *)
(* Times are what is left of a lease, a retry delay or the cooldown, so    *)
(* the clock needs no bound.  A claim's ownership token is written as the  *)
(* worker's name: a worker has at most one claim of a row at a time.  The  *)
(* token of a row that has stopped running is never asked for: it is None. *)
(* A version of a thread stands for its updated_at; 0 stands for none.     *)
(***************************************************************************)
EXTENDS Naturals, FiniteSets

CONSTANTS
  Workers, Threads,
  None,          \* no owner, no baseline
  Lease,         \* stage_one and stage_two JOB_LEASE_SECONDS
  RetryDelay,    \* JOB_RETRY_DELAY_SECONDS
  Cooldown,      \* PHASE2_SUCCESS_COOLDOWN_SECONDS
  Retries,       \* DEFAULT_RETRY_REMAINING
  MaxRunning,    \* max_rollouts_per_startup: cap of claims and of running jobs
  MaxUpdates,    \* bound: updates of threads
  MaxStarts,     \* bound: sessions started; None for no bound
  Limit,         \* bound: how often each kind of trouble happens
  MaxTrouble     \* bound: how often any of them happens

Versions  == 0 .. MaxUpdates + 1
Snapshots == [Threads -> Versions]
Baselines == [inputs : Snapshots, memory : Snapshots]
Troubles  == {"fail", "crash", "db", "stall", "reset", "forget"}

ASSUME PipelineAssumption ==
  /\ {Lease, RetryDelay, Cooldown, Retries, MaxRunning} \subseteq Nat \ {0}
  /\ Limit \in [Troubles -> Nat] /\ {MaxTrouble, MaxUpdates} \subseteq Nat
  /\ MaxStarts \in Nat \cup {None}
  /\ None \notin Workers \cup Baselines
  /\ IsFiniteSet(Threads)

VARIABLES
  version,    \* threads.updated_at
  mode,       \* threads.memory_mode: "off" is disabled or polluted, which nothing
              \* here tells apart, "deleted" is a row that is gone
  out,        \* stage1_outputs.source_updated_at
  sel,        \* stage1_outputs.selected_for_phase2_source_updated_at
  job,        \* the memory_stage1 rows of jobs
  lock,       \* the memory_consolidate_global row of jobs
  inputs,     \* the memory root: the outputs synced into it
  memory,     \* the memory root: what the consolidated files are made from
  baseline,   \* the git baseline of the memory root
  pc, seen, claims, input,   \* the workers' progress and local values
  wiping,     \* a memory reset has cleared the rows and not yet the root
  forgetting, \* what a thread's pollution or deletion has still to do
  spent,      \* troubles so far
  starts,     \* sessions so far, when they are bounded
  updates     \* updates of threads so far

bounds  == <<spent, starts, updates>>
threads == <<version, mode>>
rows    == <<out, sel, job, lock>>
root    == <<inputs, memory, baseline>>
local   == <<pc, seen, claims, input>>
vars == <<threads, rows, root, local, wiping, forgetting, bounds>>

NoVersions == [t \in Threads |-> 0]
NoJob      == [st |-> "absent", owner |-> None, lease |-> 0, retry |-> 0,
               left |-> 0, mark |-> 0, ok |-> 0]
NoLock     == [st |-> "absent", owner |-> None, lease |-> 0, retry |-> 0, cool |-> 0]

Init ==
  /\ version = [t \in Threads |-> 1] /\ mode = [t \in Threads |-> "enabled"]
  /\ out = NoVersions /\ sel = NoVersions
  /\ job = [t \in Threads |-> NoJob] /\ lock = NoLock
  /\ inputs = NoVersions /\ memory = NoVersions /\ baseline = None
  /\ pc = [w \in Workers |-> "idle"]
  /\ seen = [w \in Workers |-> NoVersions]
  /\ claims = [w \in Workers |-> NoVersions]
  /\ input = [w \in Workers |-> NoVersions]
  /\ wiping = FALSE /\ forgetting = [t \in Threads |-> "nothing"]
  /\ spent = [k \in Troubles |-> 0] /\ starts = 0 /\ updates = 0

TroubleSoFar == spent["fail"] + spent["crash"] + spent["db"] + spent["stall"]
                + spent["reset"] + spent["forget"]

Spend(k) == /\ spent[k] < Limit[k] /\ TroubleSoFar < MaxTrouble
            /\ spent' = [spent EXCEPT ![k] = @ + 1] /\ UNCHANGED <<starts, updates>>
Goto(w, p) == pc' = [pc EXCEPT ![w] = p]
Leave(w)   == Goto(w, "idle") /\ input' = [input EXCEPT ![w] = NoVersions]
-----------------------------------------------------------------------------
(* Phase 1.                                                                *)

\* start_memories_startup_task: prune outputs nobody used, then scan the
\* threads table for threads that may need extraction.
Startup(w) ==
  /\ pc[w] = "idle"
  /\ IF MaxStarts = None THEN UNCHANGED starts ELSE starts < MaxStarts /\ starts' = starts + 1
  /\ \E P \in SUBSET {t \in Threads : out[t] # 0 /\ sel[t] = 0} :
       out' = [t \in Threads |-> IF t \in P THEN 0 ELSE out[t]]
  /\ seen' = [seen EXCEPT ![w] = [t \in Threads |-> IF mode[t] = "enabled" THEN version[t] ELSE 0]]
  /\ Goto(w, "claim1")
  /\ UNCHANGED <<threads, sel, job, lock, root, claims, input, wiping, forgetting, spent, updates>>

\* Mutant: running jobs of other threads are not counted.
OthersBusyUncounted(t) == 0

UpToDate(t, v)  == out[t] >= v \/ job[t].ok >= v
Live(j)         == j.st = "running" /\ j.lease > 0
OthersBusy(t)   == Cardinality({u \in Threads \ {t} : Live(job[u])})
Claimed(w)      == {t \in Threads : claims[w][t] # 0}

\* The conditions of try_claim_stage1_job's upsert.
Claimable(t, v) ==
  /\ ~UpToDate(t, v)
  /\ OthersBusy(t) < MaxRunning
  /\ job[t].st # "absent" =>
       /\ ~Live(job[t])
       /\ job[t].retry = 0 \/ v > job[t].mark
       /\ job[t].left > 0  \/ v > job[t].mark

ClaimRow(w, t, v) ==
  [job[t] EXCEPT !.st = "running", !.owner = w, !.lease = Lease, !.retry = 0,
                 !.left = IF v > job[t].mark THEN Retries ELSE @, !.mark = v]

\* One candidate of claim_stage1_jobs_for_startup.
Consider(w, t) ==
  LET v == seen[w][t] IN
  /\ pc[w] = "claim1" /\ v # 0
  /\ Cardinality(Claimed(w)) < MaxRunning
  /\ seen' = [seen EXCEPT ![w][t] = 0]
  /\ IF Claimable(t, v)
     THEN /\ job' = [job EXCEPT ![t] = ClaimRow(w, t, v)]
          /\ claims' = [claims EXCEPT ![w][t] = v]
     ELSE UNCHANGED <<job, claims>>
  /\ UNCHANGED <<threads, out, sel, lock, root, pc, input, wiping, forgetting, bounds>>

EndClaims(w) ==
  /\ pc[w] = "claim1"
  /\ seen[w] = NoVersions \/ Cardinality(Claimed(w)) >= MaxRunning
  /\ seen' = [seen EXCEPT ![w] = NoVersions]
  /\ Goto(w, "run1")
  /\ UNCHANGED <<threads, rows, root, claims, input, wiping, forgetting, bounds>>

\* enqueue_global_consolidation_with_executor
Enqueued == IF lock.st = "absent" THEN [lock EXCEPT !.st = "pending"]
            ELSE IF lock.st = "running" THEN lock
            ELSE [lock EXCEPT !.st = "pending", !.retry = 0]

\* Mutant: the ownership token is not compared.
OwnsAnyRunning(w, t) == job[t].st = "running"

Owns(w, t) == job[t].st = "running" /\ job[t].owner = w

Finished(t)  == [job[t] EXCEPT !.st = "done", !.owner = None, !.lease = 0, !.ok = job[t].mark]
Failed(t)    == [job[t] EXCEPT !.st = "error", !.owner = None, !.lease = 0,
                               !.retry = RetryDelay, !.left = @ - 1]

Extracting(w, t) ==
  /\ pc[w] = "run1" /\ claims[w][t] # 0
  /\ claims' = [claims EXCEPT ![w][t] = 0]
  /\ UNCHANGED <<threads, root, pc, seen, input, wiping, forgetting>>

\* mark_stage1_job_succeeded
StoreOutput(w, t) ==
  LET v == claims[w][t] IN
  /\ Extracting(w, t)
  /\ IF Owns(w, t)
     THEN /\ job' = [job EXCEPT ![t] = Finished(t)]
          /\ out' = [out EXCEPT ![t] = IF v >= @ THEN v ELSE @]
          /\ lock' = Enqueued
     ELSE UNCHANGED <<job, out, lock>>
  /\ UNCHANGED <<sel, bounds>>

\* mark_stage1_job_succeeded_no_output
StoreNothing(w, t) ==
  /\ Extracting(w, t)
  /\ IF Owns(w, t)
     THEN /\ job' = [job EXCEPT ![t] = Finished(t)]
          /\ out' = [out EXCEPT ![t] = 0]
          /\ sel' = [sel EXCEPT ![t] = 0]
          /\ lock' = IF out[t] # 0 THEN Enqueued ELSE lock
     ELSE UNCHANGED <<job, out, sel, lock>>
  /\ UNCHANGED bounds

\* mark_stage1_job_failed
ExtractionFails(w, t) ==
  /\ Spend("fail")
  /\ Extracting(w, t)
  /\ job' = IF Owns(w, t) THEN [job EXCEPT ![t] = Failed(t)] ELSE job
  /\ UNCHANGED <<out, sel, lock>>

\* The outcome cannot be written; the row runs into its lease.
OutcomeLost(w, t) ==
  /\ Spend("db")
  /\ Extracting(w, t)
  /\ UNCHANGED rows

EndPhase1(w) ==
  /\ pc[w] = "run1" /\ Claimed(w) = {}
  /\ Goto(w, "claim2")
  /\ UNCHANGED <<threads, rows, root, seen, claims, input, wiping, forgetting, bounds>>
-----------------------------------------------------------------------------
(* Phase 2.                                                                *)

\* Mutant: a live lease does not keep others away.
LockFreeDespiteLease == lock.retry = 0 /\ lock.cool = 0

Root      == [inputs |-> inputs, memory |-> memory]
OwnsLock(w) == lock.st = "running" /\ lock.owner = w
LockFree    == lock.retry = 0 /\ ~Live(lock) /\ lock.cool = 0

\* try_claim_global_phase2_job; a worker that is refused is done.
ClaimLock(w) ==
  /\ pc[w] = "claim2"
  /\ IF LockFree
     THEN /\ lock' = [NoLock EXCEPT !.st = "running", !.owner = w, !.lease = Lease]
          /\ Goto(w, "prepare")
     ELSE Goto(w, "idle") /\ UNCHANGED lock
  /\ UNCHANGED <<threads, out, sel, job, root, seen, claims, input, wiping, forgetting, bounds>>

\* prepare_memory_workspace: a missing baseline is made from what is there.
Prepare(w) ==
  /\ pc[w] = "prepare"
  /\ Goto(w, "select")
  /\ baseline' = IF baseline = None THEN Root ELSE baseline
  /\ UNCHANGED <<threads, rows, inputs, memory, seen, claims, input, wiping, forgetting, bounds>>

\* Mutant: the thread's memory mode is not looked at.
SelectAnyMode(w) ==
  /\ pc[w] = "select"
  /\ \E S \in SUBSET {t \in Threads : out[t] # 0} :
       input' = [input EXCEPT ![w] = [t \in Threads |-> IF t \in S THEN out[t] ELSE 0]]
  /\ Goto(w, "sync")
  /\ UNCHANGED <<threads, rows, root, seen, claims, wiping, forgetting, bounds>>

\* get_phase2_input_selection: some of the outputs of enabled threads.
Select(w) ==
  /\ pc[w] = "select"
  /\ \E S \in SUBSET {t \in Threads : mode[t] = "enabled" /\ out[t] # 0} :
       input' = [input EXCEPT ![w] = [t \in Threads |-> IF t \in S THEN out[t] ELSE 0]]
  /\ Goto(w, "sync")
  /\ UNCHANGED <<threads, rows, root, seen, claims, wiping, forgetting, bounds>>

\* sync_phase2_workspace_inputs
Sync(w) ==
  /\ pc[w] = "sync"
  /\ inputs' = input[w]
  /\ Goto(w, "diff")
  /\ UNCHANGED <<threads, rows, memory, baseline, seen, claims, input, wiping, forgetting, bounds>>

\* Mutant: every output there is now is marked, not the snapshots consumed.
SucceededWithLatest(w) ==
  IF OwnsLock(w)
  THEN /\ lock' = [lock EXCEPT !.st = "done", !.owner = None, !.lease = 0, !.cool = Cooldown]
       /\ sel' = out
  ELSE UNCHANGED <<lock, sel>>

\* mark_global_phase2_job_succeeded: the flags move to the exact snapshots.
Succeeded(w) ==
  IF OwnsLock(w)
  THEN /\ lock' = [lock EXCEPT !.st = "done", !.owner = None, !.lease = 0, !.cool = Cooldown]
       /\ sel' = [t \in Threads |-> IF input[w][t] = out[t] THEN out[t] ELSE 0]
  ELSE UNCHANGED <<lock, sel>>

\* memory_workspace_diff: nothing changed, or an agent is spawned.
Diff(w) ==
  /\ pc[w] = "diff"
  /\ IF baseline = Root
     THEN Succeeded(w) /\ Leave(w)
     ELSE Goto(w, "agent") /\ UNCHANGED <<lock, sel, input>>
  /\ UNCHANGED <<threads, out, job, root, seen, claims, wiping, forgetting, bounds>>

\* A tick of heartbeat_interval; an agent whose lock is gone is abandoned.
Heartbeat(w) ==
  /\ pc[w] = "agent"
  /\ IF OwnsLock(w)
     THEN lock' = [lock EXCEPT !.lease = Lease] /\ UNCHANGED pc
     ELSE Goto(w, "orphan") /\ UNCHANGED lock
  /\ UNCHANGED <<threads, out, sel, job, root, seen, claims, input, wiping, forgetting, bounds>>

HeartbeatError(w) ==
  /\ Spend("db")
  /\ pc[w] = "agent"
  /\ Goto(w, "orphan")
  /\ UNCHANGED <<threads, rows, root, seen, claims, input, wiping, forgetting>>

\* The agent completes: the consolidated files follow the inputs of its run.
AgentDone(w) ==
  /\ pc[w] = "agent"
  /\ memory' = input[w]
  /\ Goto(w, "confirm")
  /\ UNCHANGED <<threads, rows, inputs, baseline, seen, claims, input, wiping, forgetting, bounds>>

\* An abandoned agent still edits until it is shut down.
OrphanEdits(w) ==
  /\ pc[w] \in {"orphan", "close"}
  /\ memory' = input[w]
  /\ UNCHANGED <<threads, rows, inputs, baseline, local, wiping, forgetting, bounds>>

\* "Do not reset the workspace baseline if we lost the lock."
Confirm(w) ==
  /\ pc[w] = "confirm"
  /\ IF OwnsLock(w)
     THEN lock' = [lock EXCEPT !.lease = Lease] /\ Goto(w, "wipe") /\ UNCHANGED input
     ELSE Leave(w) /\ UNCHANGED lock
  /\ UNCHANGED <<threads, out, sel, job, root, seen, claims, wiping, forgetting, bounds>>

\* reset_git_repository: remove .git, then commit what is there.
WipeBaseline(w) ==
  /\ pc[w] = "wipe"
  /\ baseline' = None
  /\ Goto(w, "commit")
  /\ UNCHANGED <<threads, rows, inputs, memory, seen, claims, input, wiping, forgetting, bounds>>

CommitBaseline(w) ==
  /\ pc[w] = "commit"
  /\ baseline' = Root
  /\ Goto(w, "mark")
  /\ UNCHANGED <<threads, rows, inputs, memory, seen, claims, input, wiping, forgetting, bounds>>

MarkSucceeded(w) ==
  /\ pc[w] = "mark"
  /\ Succeeded(w)
  /\ Leave(w)
  /\ UNCHANGED <<threads, out, job, root, seen, claims, wiping, forgetting, bounds>>

\* A step before the agent, the agent itself or the baseline fails.
StepFails(w) ==
  /\ Spend("fail")
  /\ pc[w] \in {"prepare", "select", "sync", "diff", "agent", "confirm", "commit"}
  /\ Goto(w, "fail")
  /\ UNCHANGED <<threads, rows, root, seen, claims, input, wiping, forgetting>>

\* job::failed: the owned row, or a running row without owner.
MarkFailed(w) ==
  /\ pc[w] \in {"fail", "orphan"}
  /\ lock' = IF OwnsLock(w) \/ (lock.st = "running" /\ lock.owner = None)
             THEN [lock EXCEPT !.st = "error", !.owner = None, !.lease = 0, !.retry = RetryDelay]
             ELSE lock
  /\ IF pc[w] = "fail" THEN Leave(w) ELSE Goto(w, "close") /\ UNCHANGED input
  /\ UNCHANGED <<threads, out, sel, job, root, seen, claims, wiping, forgetting, bounds>>

\* shutdown_consolidation_agent
CloseAgent(w) ==
  /\ pc[w] = "close"
  /\ Leave(w)
  /\ UNCHANGED <<threads, rows, root, seen, claims, wiping, forgetting, bounds>>
-----------------------------------------------------------------------------
(* Around the pipeline.                                                    *)

UpdateThread(t) ==
  /\ mode[t] # "deleted"
  /\ updates < MaxUpdates /\ updates' = updates + 1
  /\ version' = [version EXCEPT ![t] = @ + 1]
  /\ UNCHANGED <<mode, rows, root, local, wiping, forgetting, spent, starts>>

\* set_thread_memory_mode, by a client or by reconcile_rollout, which writes the
\* mode the rollout names over a polluted one; its upsert_thread inserts a row
\* that was deleted again, enabled.
SetMode(t, m) ==
  /\ Spend("forget")
  /\ mode[t] # m /\ (mode[t] = "deleted" => m = "enabled")
  /\ mode' = [mode EXCEPT ![t] = m]
  /\ UNCHANGED <<version, rows, root, local, wiping, forgetting>>

\* mark_thread_memory_mode_polluted reads whether the thread's output was
\* selected, marks the thread in the state DB, and then enqueues.
PolluteReads(t) ==
  /\ Spend("forget")
  /\ forgetting[t] = "nothing"
  /\ forgetting' = [forgetting EXCEPT ![t] = IF sel[t] # 0 THEN "mark_enqueue" ELSE "mark"]
  /\ UNCHANGED <<threads, rows, root, local, wiping>>

PolluteMarks(t) ==
  /\ forgetting[t] \in {"mark", "mark_enqueue"}
  /\ mode' = [mode EXCEPT ![t] = IF @ = "deleted" THEN @ ELSE "off"]
  /\ forgetting' = [forgetting EXCEPT ![t] = IF @ = "mark" THEN "nothing" ELSE "enqueue"]
  /\ UNCHANGED <<version, rows, root, local, wiping, bounds>>

PolluteEnqueues(t) ==
  /\ forgetting[t] = "enqueue"
  /\ lock' = Enqueued
  /\ forgetting' = [forgetting EXCEPT ![t] = "nothing"]
  /\ UNCHANGED <<threads, out, sel, job, root, local, wiping, bounds>>

\* delete_thread deletes the state DB's row, then delete_thread_memory the rest.
DeleteThread(t) ==
  /\ Spend("forget")
  /\ forgetting[t] = "nothing"
  /\ mode' = [mode EXCEPT ![t] = "deleted"]
  /\ forgetting' = [forgetting EXCEPT ![t] = "delete"]
  /\ UNCHANGED <<version, rows, root, local, wiping>>

DeleteMemory(t) ==
  /\ forgetting[t] = "delete"
  /\ out' = [out EXCEPT ![t] = 0] /\ sel' = [sel EXCEPT ![t] = 0]
  /\ job' = [job EXCEPT ![t] = NoJob]
  /\ lock' = IF out[t] # 0 /\ sel[t] # 0 THEN Enqueued ELSE lock
  /\ forgetting' = [forgetting EXCEPT ![t] = "nothing"]
  /\ UNCHANGED <<threads, root, local, wiping, bounds>>

\* memory_reset_response_inner: clear_memory_data, then the memory root.
ResetRows ==
  /\ Spend("reset")
  /\ ~wiping /\ wiping' = TRUE
  /\ out' = NoVersions /\ sel' = NoVersions
  /\ job' = [t \in Threads |-> NoJob] /\ lock' = NoLock
  /\ UNCHANGED <<threads, root, local, forgetting>>

ResetRoot ==
  /\ wiping /\ wiping' = FALSE
  /\ inputs' = NoVersions /\ memory' = NoVersions /\ baseline' = None
  /\ UNCHANGED <<threads, rows, local, forgetting, bounds>>

\* The worker's process dies, and its agent with it.
Crash(w) ==
  /\ Spend("crash")
  /\ pc[w] # "idle" /\ Leave(w)
  /\ seen' = [seen EXCEPT ![w] = NoVersions]
  /\ claims' = [claims EXCEPT ![w] = NoVersions]
  /\ \/ UNCHANGED memory
     \/ pc[w] = "agent" /\ memory' = input[w]
  /\ UNCHANGED <<threads, rows, inputs, baseline, wiping, forgetting>>

\* A lease or a retry delay runs out under a worker that is still at it: the
\* heartbeat every 90 seconds of a lease of an hour did not happen.
Late == \/ Live(lock) /\ lock.lease = 1 /\ pc[lock.owner] \notin {"idle", "claim1", "run1", "claim2"}
        \/ lock.retry = 1 /\ \E w \in Workers : pc[w] = "close"

Less(n)   == IF n = 0 THEN 0 ELSE n - 1
Ticked(r) == [r EXCEPT !.lease = Less(@), !.retry = Less(@)]

Tick ==
  /\ IF Late THEN Spend("stall") ELSE UNCHANGED bounds
  /\ job' = [t \in Threads |-> Ticked(job[t])]
  /\ lock' = [Ticked(lock) EXCEPT !.cool = Less(@)]
  /\ UNCHANGED <<threads, out, sel, root, local, wiping, forgetting>>

Phase1(w) == \/ EndClaims(w) \/ EndPhase1(w)
             \/ \E t \in Threads : Consider(w, t) \/ StoreOutput(w, t) \/ StoreNothing(w, t)

Phase2(w) == \/ ClaimLock(w) \/ Prepare(w) \/ Select(w) \/ Sync(w) \/ Diff(w)
             \/ Confirm(w) \/ WipeBaseline(w) \/ CommitBaseline(w) \/ MarkSucceeded(w)
             \/ MarkFailed(w) \/ CloseAgent(w)

Trouble(w) == \/ Crash(w) \/ StepFails(w) \/ HeartbeatError(w) \/ OrphanEdits(w)
              \/ \E t \in Threads : ExtractionFails(w, t) \/ OutcomeLost(w, t)

\* What forgets a thread, or takes it back.
Forget(t) == \/ PolluteReads(t) \/ PolluteMarks(t) \/ PolluteEnqueues(t)
             \/ DeleteThread(t) \/ DeleteMemory(t)
             \/ \E m \in {"enabled", "off"} : SetMode(t, m)

Next == \/ \E w \in Workers : Startup(w) \/ Phase1(w) \/ Phase2(w) \/ Heartbeat(w)
                              \/ AgentDone(w) \/ Trouble(w)
        \/ \E t \in Threads : UpdateThread(t) \/ Forget(t)
        \/ ResetRows \/ ResetRoot \/ Tick

Spec == Init /\ [][Next]_vars

\* Sessions keep starting, their tasks are polled, agents end, time passes.
FairSpec ==
  /\ Spec
  /\ \A w \in Workers : /\ WF_vars(Startup(w) \/ Phase1(w) \/ Phase2(w))
                        /\ WF_vars(Heartbeat(w)) /\ WF_vars(AgentDone(w))
  /\ WF_vars(ResetRoot) /\ WF_vars(Tick)
-----------------------------------------------------------------------------
Steps == {"idle", "claim1", "run1", "claim2", "prepare", "select", "sync", "diff", "agent",
          "confirm", "wipe", "commit", "mark", "fail", "orphan", "close"}

Modes     == {"enabled", "off", "deleted"}
Remains   == {"nothing", "mark", "mark_enqueue", "enqueue", "delete"}
JobRows   == [st : {"absent", "running", "done", "error"}, owner : Workers \cup {None},
              lease : 0 .. Lease, retry : 0 .. RetryDelay, left : 0 .. Retries,
              mark : Versions, ok : Versions]
LockRows  == [st : {"absent", "pending", "running", "done", "error"}, owner : Workers \cup {None},
              lease : 0 .. Lease, retry : 0 .. RetryDelay, cool : 0 .. Cooldown]

(* Types; a job's retry budget never falls below zero, whatever fails, and  *)
(* no lease or delay exceeds what was granted.                              *)
TypeOK ==
  /\ version \in Snapshots
  /\ mode \in [Threads -> Modes] /\ forgetting \in [Threads -> Remains]
  /\ out \in Snapshots /\ sel \in Snapshots
  /\ job \in [Threads -> JobRows] /\ lock \in LockRows
  /\ inputs \in Snapshots /\ memory \in Snapshots
  /\ baseline \in {None} \cup Baselines
  /\ pc \in [Workers -> Steps] /\ wiping \in BOOLEAN
  /\ {seen, claims, input} \subseteq [Workers -> Snapshots]
  /\ spent \in [Troubles -> Nat] /\ starts \in Nat /\ updates \in 0 .. MaxUpdates

(* try_claim_stage1_job: "global running job count for memory_stage1 is     *)
(* below max_running_jobs", over all workers, whoever crashed or is late.   *)
CapRespected == Cardinality({t \in Threads : Live(job[t])}) <= MaxRunning

(* Retry budgets, leases and the number of running extractions stay within  *)
(* their limits.                                                            *)
JobsInv == TypeOK /\ CapRespected

(* A thread counts as extracted at a version only when some worker has      *)
(* extracted that version: a worker that lost its lease and finishes late   *)
(* does not settle the version its successor has claimed.                   *)
SuccessIsEarned ==
  [][\A t \in Threads : job'[t].ok \notin {job[t].ok, 0} =>
        \E w \in Workers : claims[w][t] = job'[t].ok /\ claims'[w][t] = 0]_vars

(* The memories README: "only one consolidation inspects or mutates the     *)
(* workspace at a time", the time an abandoned agent lives on included.     *)
OneConsolidation ==
  Cardinality({w \in Workers : pc[w] \notin {"idle", "claim1", "run1", "claim2", "fail"}}) <= 1

(* "Successful Phase 2 runs mark the exact stage-1 snapshots they           *)
(* consumed": a snapshot is marked only when the baseline holds it.         *)
SelectedWasConsumed ==
  [][\A t \in Threads : sel'[t] \notin {sel[t], 0} =>
        baseline # None /\ baseline.inputs[t] = sel'[t]]_vars

(* What a thread contributed that is deleted, polluted or disabled, and not *)
(* enabled again for ever after, leaves the memory root for good while      *)
(* sessions keep starting, also when the call that forgets it stops halfway.*)
ForgottenLeaves ==
  \A t \in Threads : <>[](mode[t] # "enabled") => <>[](inputs[t] = 0 /\ memory[t] = 0)
-----------------------------------------------------------------------------
(* What the safety properties rest on.                                     *)

\* A row that runs has a retry left to lose, an absent one is blank, and no
\* thread is newer than the updates there were.
RowsInv ==
  \A t \in Threads : /\ job[t].st = "running" => job[t].left > 0
                     /\ job[t].st = "absent" => job[t] = NoJob
                     /\ version[t] <= updates + 1

\* A worker that still owns the row of a thread it extracts has claimed the
\* version the row was marked with.
ClaimsMatch ==
  \A w \in Workers, t \in Threads : Owns(w, t) /\ claims[w][t] # 0 => claims[w][t] = job[t].mark

\* The steps a worker takes while it holds the consolidation lock, and those
\* after it has synced its selection into the memory root.
Holding == {"prepare", "select", "sync", "diff", "agent", "confirm", "wipe", "commit", "mark"}
Synced  == Holding \ {"prepare", "select", "sync"}

\* While no lease runs out under a worker, no reset clears the rows and no
\* heartbeat fails, whoever works on the memory root holds a live lock, and
\* nobody leaves an agent behind.
HoldersOwn ==
  /\ ~wiping
  /\ \A w \in Workers : /\ pc[w] \in Holding => OwnsLock(w) /\ lock.lease > 0
                        /\ pc[w] \notin {"orphan", "close"}

\* The memory root holds the selection of the worker that has synced it, and
\* a worker about to report success has committed it to the baseline.
RootIsSynced ==
  \A w \in Workers : /\ pc[w] \in Synced => inputs = input[w]
                     /\ pc[w] = "mark" => baseline # None /\ baseline.inputs = input[w]
=============================================================================
