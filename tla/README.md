# A TLA+ verification of the Codex session, agent, request and memory machinery

Codex is a coding agent: clients (a terminal UI, an IDE through the app server,
SDKs) submit operations to *sessions*; a session runs *turns* in which a model
is sampled and its tool calls are executed; a session may spawn *sub-agents*,
each a session of its own that shares its parent's thread manager.  The code is
an asynchronous Rust program (`src/codex-rs`): many tokio tasks over state
behind small locks.  The errors that tests hardly reach are interleavings of
these tasks, and that is what this project models.

## Inventory

| Part | State it keeps | Operations | What is hard | What makes it correct |
|---|---|---|---|---|
| Request serialization (`app-server/src/request_serialization.rs`, `connection_rpc_gate.rs`) | a map from key to queue, one drain task per key; per connection an accepting flag and the running handlers | enqueue, drain, gate run, gate shutdown | a request that arrives while the drain task leaves; panicking handlers; connections that close with requests queued | conflicting requests in arrival order, no stranded request, a shut gate is quiet |
| Session turns (`core/src/tasks/mod.rs`, `session/input_queue.rs`, `state/turn.rs`) | `active_turn`, per-turn pending input and delivery phase, the mailbox, the input queued for the next turn | spawn, start, abort, finish a task; reserve a turn for pending work; inject, steer, deliver mail | the submission loop, the turn's runner, the guardian's abort and API calls all change `active_turn` between each other's locks; abort deadlines | at most one running task, one terminal event per turn, no accepted item lost, mail that asks for a turn gets one |
| Submission loop (`core/src/session/handlers.rs`) | none of its own | one operation at a time | an operation waits inside an abort while other actors go on | aborting returns |
| Turn runner (`core/src/session/turn.rs`, `tasks/regular.rs`, `stream_events_utils.rs`) | local | preamble, drain input, sample, follow up, stop hooks | repeated while input is pending, aborted anywhere | the turn ends |
| Agent registry and control (`core/src/agent/registry.rs`, `control.rs`) | a count of slots, the agent tree by path, used nicknames | reserve, commit, drop, release; spawn, resume, close | concurrent spawns at the limit, a close between the start of a thread and its registration, a close racing a resume | the limit, exclusive paths, distinct names, a count that never wraps |
| Rollout recorder (`rollout/src/recorder.rs`) | command channel, writer state (handle, deferred file, meta, pending items), the file | record, persist, flush, shut down, resume; open, write, recover | write errors and retries, crashes, barriers behind a shutdown | an acknowledged item is readable, each item once and in order, the meta first, barriers return |
| Memory pipeline (`memories/write/`, `state/src/runtime/memories.rs`) | one job row per thread, the global lock row, extracted outputs, the memory root and its git baseline | claim, extract, store; lock, select, sync, diff, run an agent, reset the baseline; forget, reset | workers of several processes, expired leases, crashes between a file step and a row, late finishers | the cap, one consolidation at a time, marks that are earned, forgotten threads leave the memory |
| Thread subscriptions and outgoing requests (`app-server/src/thread_state.rs`, `thread_status.rs`, `outgoing_message.rs`, `request_processors/thread_lifecycle.rs`, `thread_processor.rs`) | subscribers, one `ThreadState` with its listener per thread, callbacks by request id, pending unloads, runtime status | start, resume, unsubscribe, archive, unload, close; ask, replay, answer, resolve, cancel | handlers, listeners, waiting tasks, unload tasks and closing connections run beside each other | every subscriber is shown open approvals and told of their end, nobody joins a thread that is unloading, answers return |
| App-server event loop (`app-server/src/lib.rs`, `message_processor.rs`) | connections, shutdown state | accept, dispatch, drain on shutdown | the loop waits for a connection's handlers, which wait for answers | shutdown ends |
| Goals (`core/src/goals.rs`) | active goal, continuation lock | account, continue when idle | a second user of the turn reservation | as session turns |
| Unified exec (`core/src/unified_exec/`) with deferred network approvals | processes by id, reserved ids, cancelled calls, denials | spawn, store, prune, poll, write, clear, interrupt, deny | exit watchers against writers, pruning at the limit, a denial against an exit | one End event a process, an entry is its own call's, nothing lost from the store, a denied process dies |
| State database (`state/`) | thread metadata, agent jobs, backfill | SQL transactions | the backfill watermark | one owner per job |
| Others (exec server, token refresh, MCP connections, TUI, sandboxes, policies, configuration, protocol) | see `PROJECT.json` | | | |

How the parts interact: the app server's dispatch puts a client's request into
the serialization queues; its handler calls a `CodexThread`, which submits an
operation to the session's loop or calls the session directly; the loop starts
turns; a turn's tools call agent control, which spawns further sessions; a
sub-agent's result comes back as inter-agent mail.  What a session records goes
through its rollout recorder into a file, which a resume reads and from which
the memory pipeline, started by every root session, extracts memories.  The
thread's events come back to clients through the listener task of its
`ThreadState`, which also carries the thread's questions to them.

## Modules

* `RequestSerialization` - the queues, drain tasks and gates.  `OrderedAccess`
  states what they promise: a request runs once every earlier conflicting one
  is over, and a closed connection becomes quiet.  `MCRequestSerialization`
  holds the refinement mapping and the instances.  `RequestSerializationProofs`
  holds the theorems about the queues, `RequestRefinementProofs` the refinement.
* `SessionTurns` - the turn lifecycle of one session; `MCSessionTurns` its
  instances, `SessionTurnsProofs` its theorems.
* `AgentRegistry` - the registry with the spawns, resumes and closes that use
  it; `MCAgentRegistry` its instances, `AgentRegistryProofs` its theorems.
* `RolloutRecorder` - the channel, the writer task and the file; `DurableLog`
  states what it promises, `MCRolloutRecorder` holds the refinement mapping,
  `RolloutRecorderProofs` the theorems with the refinement.
* `MemoryPipeline` - the job rows, the memory root and the workers;
  `MCMemoryPipeline` says which troubles its instances have,
  `MemoryPipelineProofs` holds its theorems.
* `ThreadSubscriptions` - one thread id of the app server, its subscribers,
  listeners and approvals; `MCThreadSubscriptions` its instance,
  `ThreadSubscriptionsProofs` its theorems.  That one request handler works on a
  thread at a time is what `RequestSerialization` shows of the key `thread`.
* `UnifiedExec` - the process store of `exec_command` and `write_stdin`, with
  its watchers and its deferred network approvals; `MCUnifiedExec` its instance,
  `UnifiedExecProofs` its theorems.

### RequestSerialization

`queues`, `mapped` are the map (`mapped` its keys, so that an empty queue that
is still mapped differs from an absent one); `reqs` the requests dispatched so
far, with their connection and scope; `status` where each is (queued, popped by
its drain task, running in its handler, over); a drain task is identified by
the request whose `enqueue` spawned it.  `accepting` and `gate` are the
connection's `ConnectionRpcGate`.  `Dispatch` is the last step of
`dispatch_initialized_client_request` with the whole of `enqueue`;
`DrainPop`/`DrainExit` are the two outcomes of the drain's lock section;
`DrainJoined` is `join_all` returning; `GateEnter`, `HandlerDone`, `GateClose`,
`GateDrained` the two lock sections and the two waits of the gate.
`HandlerPanic` is external: a panic unwinds the drain task and its batch, and
leaves the key in the map, as tokio does.

The mapping to `OrderedAccess` forgets queues, keys and tasks: it shows how far
each request is, waiting until its handler starts (`Phases`); a connection is closed when its gate no longer accepts
(`ClosedConns`) and quiet when the shutdown has returned (`QuietConns`).

### SessionTurns

An actor is the submission loop, the guardian's abort task or the runner of a
turn; `pc` says which lock section it enters next, `reg` holds its local
variables.  `active` is `Session.active_turn`: `None`, or a turn state with the
task it holds; a turn state without a task is a *reservation* (made by
`maybe_start_turn_for_pending_work`) or a turn that `on_task_finished` is
closing.  `pend`, `phase` belong to the turn state, `mailbox`, `idle` to the
`InputQueue`.  The history variables `sent`, `recorded`, `refused` record what
happened to each item; `outcome` the terminal events of each turn.

One action per lock section: `AbortTake`, `AbortWait`, `AbortClear` for
`abort_all_tasks` and `abort_turn_if_active` (the same steps; the guardian's
checks that its turn is still the active one); `StartIfPendingWork`,
`ReserveTurn` for `maybe_start_turn_for_pending_work`; `StartTakePending` to
`StartInstall` for `start_task`; `ConsumePrewarm` to `RunAgain` for the regular
task; `FinishTake`, `FinishPending`, `FinishClear` for `on_task_finished`.
Storing a `RunningTask` over another drops the old one's `AbortOnDropHandle`,
so `StartInstall` kills the runner it replaces.

A response is streamed item by item.  In `r_sample` nothing needs a follow-up
yet, in `r_follow` something does (`needs_follow_up`): a tool call (`ToolItem`)
reopens the mailbox, a message (`MessageItem`) defers later mail, a reasoning
or commentary item with mail queued ends the response (`PreemptForMail`), and
the stream completes (`StreamCompleted`) or fails (`SampleError`: given up,
retried, or tried again without the rejected image).  `AfterFollowUp` and
`AfterAnswer` are what `run_turn`'s loop does with the result.

Abstractions.  What items say, deltas, prompts and what tools do is left out;
tools are over when the stream completes.  Hooks block any subset.  `run_turn`'s
preamble may fail, and then the turn's input is dropped, as in the code; so is
the unrecorded input of an aborted turn.  The two locks of `get_pending_input`
(active turn, then mailbox) are one step.  `handle.abort()` takes effect at
once.  The goals feature is off, as in
`goal_continuation_candidate_if_active`'s first test.  Review tasks, which refuse
steered input as a compaction does, and user-shell tasks, which are of kind
`Regular` (`tasks/user_shell.rs:69`) and so accept it but never take it, are not
modelled.

### AgentRegistry

`count` is `total_count`; `tree`, `keys` are `agent_tree` (a key with no thread
is a reserved path); `used`, `resets` the nickname pool; `live` the thread
manager's threads, `dead` the ones among them whose loop has ended.  A spawn
loads the count (`BeginCall`), compares and exchanges it (`ReserveSlot`, which
may lose and retry), reserves path and nickname (`Prepare`, or `PathTaken`),
starts the thread (`StartThread`) and registers it (`Commit`).  A resume is of a
thread the manager does not have, from an earlier session or closed in this one;
by the time it gets there the thread may be back (`ResumeChecks`): one that has
ended is taken out and started anew, one that runs is returned as if it had just
been started, and the resume commits its own reservation over the entry of the
thread.  An error, or a call abandoned at an await, drops the reservation
(`GiveUp`, then `ReturnSlot`); a resumed thread that was started by then stays.
A close ends the thread (`ShutdownThread`), and unless it is abandoned there
(`AbandonClose`), removes it by its id (`RemoveThread`) and releases its entry
(`ReleaseThread`) and then its slot (`ReleaseSlot`).

`SlotsAccounted` is an equation: the count is the number of open reservations,
registered agents, closes that owe a slot, and slots that are lost (`leaked`).
A slot is lost when a commit overwrites an agent's entry, which the code does
when two resumes of one thread overlap, and for no other reason: without a
resume every slot has an owner that returns it.  Prepare joins the lock sections
of one synchronous function; agents without a thread-spawn source (no path, no
nickname) are the case of a spawn without a path.  The limit is always present
(`config/mod.rs` fills in a default).

### RolloutRecorder

`queue` is the command channel; `open`, `deferred`, `meta`, `pending` the
`RolloutWriterState`; `cur`, `phase`, `attempt` where the writer task is in the
command it took.  `file` is the file's complete lines and `torn` says whether it
ends in an incomplete one.  `TakeCommand` is the loop of `rollout_writer` up to
the point where a barrier has nothing to write (`NothingToWrite`: the file is
deferred and no persist is asked); `OpenFile`, `WriteMeta`, `WriteItem`,
`FinishCommand` are the steps of `write_pending_once`; `OpenFails` and
`WriteFails` go through `write_pending_with_recovery`, which drops the handle
and tries once more, then gives up and keeps the items.  A shutdown that
succeeds ends the writer task and with it the commands still queued, whose
senders see the channel close.  `PatchMetadata` is
`append_rollout_item_to_path`, which writes the same file through a handle of
its own; the appends of two handles are atomic.  `Crash` loses the channel and
the state and keeps the file; `Resume` needs a readable session meta, as
`get_rollout_history` does.

`Leftovers` says what a write that fails or is cut by a crash may leave of its
line: nothing, or a part.  With nothing all promises hold; with a part an
acknowledged item can be unreadable (run `rollout_torn`).  `DurableLog` knows
neither channel nor retries: accepted items are committed in order, an answer
Ok needs the items accepted before the question in the log, only a crash or a
successful close drops the rest.  The log is the file, with the session meta as
a note among the items; the buffer is what is pending or in the channel
(`InFlight`).

### MemoryPipeline

`job` and `lock` are the rows of `jobs` (status, owner, lease, retry delay,
retry budget, input and success watermarks), `out` and `sel` the columns of
`stage1_outputs` that decide, `inputs`, `memory`, `baseline` the memory root:
the files synced from outputs, what the consolidated memory is made from, and
the git baseline.  A version of a thread stands for its `updated_at`.  The token
of a row that no longer runs is `None`: the code keeps it, and nothing compares
it.  One action per statement or transaction (`Consider` with `ClaimRow`,
`StoreOutput`, `StoreNothing`, `ExtractionFails`, `ClaimLock`, `Select`,
`Heartbeat`, `MarkSucceeded`, `MarkFailed`, `ResetRows`) and per step on the root
(`Prepare`, `Sync`, `Diff`, `AgentDone`, `WipeBaseline`, `CommitBaseline`,
`ResetRoot`).  The threads and their memory modes are in the state database,
jobs and outputs in another, so forgetting a thread takes several steps, between
which everything else goes on (`forgetting`): polluting reads whether the output
was selected, marks the thread and enqueues a consolidation (`PolluteReads`,
`PolluteMarks`, `PolluteEnqueues`); deleting removes the thread's row, then its
output and job and enqueues (`DeleteThread`, `DeleteMemory`).  Either may stop
halfway.  A mode is not final: `SetMode` is `set_thread_memory_mode`, which
`reconcile_rollout` also calls with the mode the rollout names, so that a
polluted thread is enabled again, and its upsert brings a deleted row back.
`ForgottenLeaves` is therefore about threads that stay forgotten from some time
on.  `Startup` prunes any of the outputs that are not selected.  Its candidates are read before the
claims, so a claim may be for a version that is old by then.  Leases and delays
are counted down by `Tick`; a lease of a worker that is alive and not stalled
does not run out (`Late`), because the heartbeat comes every 90 seconds of an
hour.  `HeartbeatError` gives up the row and closes the agent later, which may
still edit the root meanwhile (`OrphanEdits`).  `updates` counts the new
versions of threads, so that the bound on them is not a sum over the threads.

Left out: the age that retention looks at, and the ranking and limits of the
selection (any subset of what is old, and of the usable outputs, may be taken),
the files' text, the extension resources, and the skip when the account's rate
limit is low (a start that does nothing).

### ThreadSubscriptions

`subs` and `entry` are the thread's entry in `ThreadStateManager`, `tx` the
command channel each `ThreadState` object holds, `listeners` the listener tasks
(with the commands sent to them), `convs` the core threads made for the id,
`loaded` the one the thread manager holds.  `op` is the request handler at work,
`closing` a connection being closed, `req` the approvals: opened by the core
thread (`AskApproval`), sent by the listener (`TakeEvent`, `Ask`), answered by a
client or cancelled, then resolved through the listener (`Resolve`,
`ResolveCommand`) before the decision goes back (`Decide`).  `asked` and `told`
record what each subscriber was sent.  The thirty idle minutes may pass whenever
the thread has no subscriber and is not active (`UnloadTrigger`).

A teardown is four steps (`Teardown`: the unload mark is cleared, the requests
are cancelled, the state is removed, the status is forgotten), taken by a
handler (`HandlerTeardown`) or a closing connection (`CloseTeardown`) with
everything else in between.  Starting a listener is two: the watchers of the
thread's entry are subscribed to (`Listen`, `Attached`), and several awaits
later the `ThreadState` found at the beginning gets a listener, unless it has one for the
core thread (`ListenSet`, `AttachedSet`).  A listener's watchers keep the last
value of an entry that was removed (`peopled`, `SeenSubs`), and `should_unload_now`
looks at nothing else.  `unload_thread_without_subscribers` (cancel the requests,
remove the state, submit the shutdown) is one step of the listener, `Unload`, and
the end of its task, which removes the thread by id, another, `Unloaded`.

A thread that was torn down once (unload, archive, replace, a connection that
closes) can be disturbed by what is still under way from its earlier life; the
model has these races, and `SubscribersAsked`, `PromptsRetired` and
`NoPromptAfterResolved` are therefore stated while the thread has its first
`ThreadState` (`FirstState`).  What the model shows after that:

* the teardown at the end of `connection_closed` was decided some awaits
  earlier and removes the entry a cold resume has made meanwhile;
* the listener of a removed entry that had no subscribers marks the thread that
  a replacing resume has just loaded and subscribed to, and then removes it: the
  exception of `UnloadInv`;
* the steps of a teardown clear an unload mark that was set meanwhile, or are
  followed by one that outlives the removal of the state;
* a thread that is unloaded while a resume starts a listener for it gets one on
  a `ThreadState` that is in no entry, which nobody cancels; a rejoin that
  races an unload leaves a second listener on the dying thread, and when that
  one unloads, the newly loaded thread is removed by id;
* requests are given up by thread id, so the turn events of a core thread that
  such a listener still serves, or that a removal by id left behind, withhold the
  answer that another core thread of the id waits for, and its own turns those of
  the one left behind: the exception of `WithheldIsUnneeded`;
* a resume command sent to a listener that is about to end is never answered;
* an approval the listener opens after the teardown stays open;
* a status guard released late lowers the count of a newer approval.

### UnifiedExec

A call and the process it opens have one name.  `store` and `reserved` are the
`ProcessStore`, `newer` the order of `last_used` (for a call, the calls whose
entry was used after its own); `running` is what the
operating system runs, `exited`, `token`, `failed` what `UnifiedExecProcess`
shows of it; `active`, `outcomes` are the `NetworkApprovalService`, `cell` the
deferred approval's `finish_outcome`, `denied` its cancelled token.  `pc` is the
await a call of `exec_command` is at: the id is reserved (`Allocate`), the
approval registered (`Register`), the process opened (`Open`), looked at
(`Begin`), stored (`StoreProcess`, and `Evict` when it pruned another), waited
for (`Settle`, `SettleFailed`), looked up again (`Refresh`), finished after the
grace for a late denial (`FinishLate`) and its id released (`Release`).
`writer` is the `write_stdin` at work, which excludes calls of `exec_command`
as the lock of one tool runtime does; code mode builds a runtime with a lock of
its own (`tools/code_mode/mod.rs:103`), and calls of the two beside each other
are not modelled.  `Abort` drops a call at an await; the process
dies with it when nobody else holds it (`KeptBy`); a real interrupt drops every
call of the turn.  `TerminateAll` and
`TerminateNext` are `terminate_all_processes`.

The model is of local processes: on an exec server a terminated process is not
seen to exit, and a failing write releases it.  The output, its deadlines and
sandbox denials (an answer with the same effect on the store) are left out; the
wait for output may end at any time.  Setting `has_exited` and cancelling the
token at an exit are one step, and so are finishing the approval and failing
the process in the denial task.

What the properties except is what the code does not keep:

* a clearing of the store (or the pruning of a call in flight) frees ids of
  calls at work; when another call draws such an id, one may overwrite, report,
  remove or release the other's entry (`Freed`), and a live process is
  then in no store;
* a call interrupted while it is not in the store leaves its network
  registration behind, which keeps later denials from being attributed, and
  behind the proxy also its process, which the denial task keeps alive; a call
  interrupted while it holds a pruned entry leaves that one running
  (`unstored`).

## Runs

| Run | Checks | Result |
|---|---|---|
| `serialization` | `ArrivalOrder`, `OneDrainPerKey`, `RequestsFinish`, `ShutdownReturns`, and `KeepsPromise`: refinement of `OrderedAccess` | hold |
| `session_user` | `TurnInv` (types, `OneRunningTask`, `ReservationOwned`), `NoTaskInTheWay`, `OneOutcome`, `NothingVanishes`, with user input, plain mail, interrupt, compaction, shutdown | hold |
| `session_abort` | `OneRunningTask`, `LoopReturns` with approvals, injections, interrupt, shutdown and the guardian beside one user turn | hold |
| `session_mail` | `TurnsEnd`, `MailStartsTurn` | hold |
| `session_stolen` | `NoTaskInTheWay` with trigger mail and user input | violated |
| `registry_spawn` | `TypeOK`, `SlotsAccounted`, `PathsExclusive`, `NicknamesUnique`, `LiveIsCounted`, with resumes of closed agents and abandoned calls | hold |
| `rollout_log` | `FileInv` (types and `MetaFirst`), `AckedIsReadable`, `BarriersReturn`, and `KeepsLog`: refinement of `DurableLog`; failing writes leave nothing | hold |
| `rollout_torn` | `AckedIsReadable` with a failing write that leaves a part of its line | violated |
| `memory_jobs` | `JobsInv` (types and `CapRespected`), `SuccessIsEarned` with every kind of trouble | hold |
| `memory_forget` | `OneConsolidation`, `SelectedWasConsumed`, `ForgottenLeaves` with a failure, a crash and a thread that is forgotten and taken back, while sessions keep starting | hold |
| `thread_prompts` | `UnloadInv` (types and `MarkedHasNoSubscriber`), `SubscribersAsked`, `PromptsRetired`, `WithheldIsUnneeded`, `NoPromptAfterResolved`, `DecisionsReturn` | hold |
| `exec_store` | `StoreInv` (types and `OwnEntry`), `OneEnd`, `Tracked`, `DeniedIsNotSuccess`, `InterruptKeepsProcess`, `EndComes`, `DeniedDies` | hold |

Every property has a mutant, a definition in the module marked *Mutant* that
stands for a plausible mistake in the code (a dropped guard, a missing abort, a
check on a stale count) under which TLC finds the property violated.

**What the violations show.**

* `session_stolen`: a finishing runner reserves the idle session for trigger
  mail; before it starts its task, the loop takes user input, finds no task to
  steer, drops the reservation and installs its own turn; the runner's
  `start_task` then meets that task.  In a debug build the assertion fails; in
  a release build the user's turn is dropped without a terminal event.
* `rollout_torn`: `write_all` fails after part of a line; the writer reopens
  the file and appends the whole line behind that part, a flush answers Ok, and
  `load_rollout_items` skips the line it cannot parse.

**What the passing runs leave out because the code does not keep it.**  Each of
these was found by adding the trigger to a run:

* user input beside the guardian's abort: the abort takes the active turn out
  before the old task has ended, and a second task runs beside it for up to
  100 ms (`OneRunningTask`; `session/session.rs:18` says at most one);
* an item injected between `on_task_finished` draining the turn's input and
  clearing the active turn is accepted and lost (`NothingVanishes`);
* an interrupt in the same window takes the finishing turn, and trigger mail
  that came in then has nobody to start its turn (`MailStartsTurn`);
* mail that the delivery phase leaves for the next turn still cuts a response
  short, because the preemption in `try_run_sampling_request` does not look at
  the phase;
* a close releases by thread id after the thread was resumed, or a resume is
  abandoned after it started the thread, so a resumed agent may run without a
  slot; `LiveIsCounted` speaks of threads no one has begun to resume;
* two resumes of one thread that overlap leave a slot that no one returns
  (`control.rs:656`); `SlotsAccounted` counts it;
* a memory reset deletes the lock row while an agent runs, so that a second
  consolidation starts beside it (`OneConsolidation`); and a worker that stalls
  longer than its lease between its ownership check and the baseline reset
  commits over its successor's work (`ForgottenLeaves`).

Where trigger mail meets user input, `OneOutcome`, `TurnsEnd` and
`ReservationOwned` fail too, for the reason `session_stolen` shows (a stale
`on_task_finished` takes another turn's task).

**Bounds.**  Three requests suffice for order, batches and a request that
arrives while the drain leaves; two
connections for a gate that closes while the other goes on.  Keys do not
interact, so the run has one; that keys of one connection are its own is in the
proofs, which hold for every set of scopes.  Two user inputs, three turns and
three turn states let a turn be steered, aborted and replaced while another
finishes; one interrupt, compaction and shutdown each may fall anywhere.  The
liveness instances have turn states enough for all their submissions, so that
no actor ever waits for a bound.  Two
spawns or resumes and a close at a limit of two meet at every step; two
threads let one be closed and resumed, twice at the same time, while the other
is spawned; one nickname reset shows the ordinals.  Closes that race each other
are left to the proofs, which hold for every number of them: a second one makes
the run four times as long.  Threads of an earlier session (`Resumable`) are
resumed as a closed one is, and the run has none.  Deadlock is checked for the registry, whose calls always come to an end; a session or a
queue without further work may stop, so the other runs switch it off, except
the two of the memory pipeline, where time always passes.

Two clients and a channel of two let a barrier wait behind another and behind a
shutdown; three items with two faults let both attempts of one command fail, or
one of each of two; one crash may fall between any two steps.  Two workers and
two threads at a cap of one are the smallest case in which claims compete; a
lease, delay and cooldown of one tick each expire before, between or after any
steps.  In `memory_jobs` every kind of trouble may happen, at most two in a
behaviour; in `memory_forget` the number of sessions is not bounded, so that
liveness does not depend on a last one, and the two troubles may be a deletion
or pollution with an enabling behind it, a failure or a crash.  Two connections
and one approval with three client requests or timeouts (`MaxCalls`), of any
kind, where a connection that closes counts for two (`Cost`), let a second client
rejoin, replace the thread or be the last to leave; two core threads with a turn
each and three `ThreadState` objects are all these can make.  The exceptions of
`UnloadInv` and `WithheldIsUnneeded` are reached within these bounds.  The inductive invariants of
`SessionTurns` (`IInv`, `CustodyInv`) were checked on the instances of
`session_user` and `session_mail` before they were proved.

Two calls at a store of one prune each other and meet at every step; two of an
interrupt, a clearing and a `write_stdin` may fall anywhere, so that every pair
is explored.  Each happens at most once in a behaviour (`Extra`), in the proofs
as well, and the interrupt drops one call; none of the invariants speaks of how
many there were.  With so few entries the choice among several candidates for
pruning (`Pruned`) is not exercised there; a random simulation with three calls
found nothing, and the proofs hold for stores and limits of any size.

**Fairness.**  `Progress` (weak fairness of every actor's steps) is tokio
polling its tasks and timers firing; nobody has to submit anything.
`Cooperation`, used only by `session_mail`, assumes of
the environment that the model does not call tools, fail or be preempted by
mail for ever, that
hooks do not block everything for ever, and that compaction does not fail for
ever; without it the code does retry for ever (see the hazards).  In
`serialization` handlers are fair: they end or panic.  `rollout_log` needs
only that the writer task is polled.  `memory_forget` assumes that sessions keep
starting, their background tasks are polled, agents end and time passes; agents
do (their status becomes final or their worker stops waiting), and nothing
promises that a user starts sessions for ever, which is what "in the end" means
there.  In `thread_prompts` every listener and every waiting task is polled; clients, core
threads and clocks owe nothing.  In `exec_store` the runtime does not stop while
some task can go on, which is less than fairness to each; processes may run for
ever.

## Proofs

`RequestSerializationProofs`, for any set of connections and scopes and any
number of requests and panics:

* `TypeCorrect`: `Spec => []TypeOK`;
* `ArrivalOrderHolds`: `Spec => []ArrivalOrder`;
* `OneDrainHolds`: `Spec => []OneDrainPerKey`.

`ArrivalOrder` speaks of requests past the queue; that a drain task pops the
right one needs that queues hold exactly the queued requests of their key in
order (`QueuesHoldQueued`), that whatever leaves a queue leaves at the front
(`FrontLeavesFirst`), that a batch is one exclusive request or shared reads only
(`BatchesHoldPopped`), and that the map's keys and the serving tasks agree, one
task each (`MapMatchesTasks`).  `IInv` is their conjunction; the proof has one
lemma per kind of step.

`RequestRefinementProofs`, for the same constants:

* `QueuesKeepPromise`: `Spec => KeepsPromise`, the refinement of
  `OrderedAccess`.

`Dispatch` maps to the arrival of a request, `GateEnter` to its start, or to its
end when the gate is closed, the end and the panic of handlers to the end of the
requests they take along, the gate's two steps to closing and quiet; what a
drain task does maps to nothing.  That a popped request may start is
`PoppedHasTurn`, from the invariant above: every earlier conflicting request has
left the queue first and is no longer in a batch.  That a shut gate stays quiet
needs `GateMatches`.

`AgentRegistryProofs`, for any finite sets of calls, paths and threads and any
limit:

* `RegistryTypes`: `Spec => []TypeOK`, in particular `total_count` within
  `0 .. agent_max_threads`;
* `SlotsAreAccounted`: `Spec => []SlotsAccounted`;
* `PathsAreExclusive`: `Spec => []PathsExclusive`;
* `LiveThreadsAreCounted`: `Spec => []LiveIsCounted`;
* `NicknamesAreUnique`: `Spec => []NicknamesUnique`.

The count is typed only because its slots have owners: a decrement is safe when
the call that makes it holds a slot (`OneLess`).  `IInv` joins the two, with
the facts that a key that is not in the tree names no thread and that calls
know the thread they commit or release.  The cardinality steps rest on
`OneLess` and `OneMore`.  `LiveInv` adds `ThreadsKnown`, that the thread a close
has removed runs again only if it is resumed, and `StartedOnce`, that a thread
no one resumes is started by one call and registered by no other, so that its
commit overwrites nothing.  `NameInv` adds `NicknamesApart`: names of the current
pool generation are in the pool's memory, names of older generations have a
smaller ordinal, and calls in flight count like the entries they will make.

`RolloutRecorderProofs`, for any clients, items, faults, crashes and channel:

* `RecorderTypes`: `Spec => []TypeOK`;
* `AcknowledgedStaysReadable`: `Whole /\ Spec => []AckedIsReadable`;
* `FileStaysResumable`: `Whole /\ Spec => []FileInv`;
* `RecorderKeepsLog`: `Whole /\ Spec => KeepsLog`, the refinement of
  `DurableLog`.

`Whole` is `Leftovers = {"nothing"}`: a failing write leaves nothing of its
line.  Without it the three are false, which is what `rollout_torn` shows.
`LogInv` says where every accepted item is: file, pending list, command at work
and channel hold them in the order of their numbers and without a gap
(`InOrder`), and behind every barrier, wherever it waits, are the items it asks
for (`Barred`).  A write moves the first pending item to the end of the file,
which keeps both; an Ok is given with the pending list empty, so what it covers
is in the file.

`MemoryPipelineProofs`, for any threads, workers, versions, caps and limits on
troubles:

* `JobsStayWithinLimits`: `Spec => []JobsInv`;
* `SuccessHasItsExtraction`: `Spec => SuccessIsEarned`, an action property;
* `OneConsolidationHolds`: `Undisturbed /\ Spec => []OneConsolidation`;
* `SelectedWasInBaseline`: `Undisturbed /\ Spec => SelectedWasConsumed`, an
  action property.

The cap holds because a claim counts the live leases in its transaction; the
retry budget because a running row has a retry left to lose (`RowsInv`).  A
success is earned because a worker that still owns a row claimed the version the
row was marked with (`ClaimsMatch`), however often the row changed hands
between.  `Undisturbed` excludes three troubles by their bound: a lease that
runs out under a stalled worker, a reset, which deletes the lock row under its
holder, and a database error, after which a worker gives up the row and leaves
its agent at work.  Each of them breaks `OneConsolidation`, as said under the
runs; crashes, failing agents, forgotten threads and any number of sessions are
allowed.  Then whoever works on the root owns a live lock (`HoldersOwn`), hence
is alone there, and the root holds what it synced (`RootIsSynced`).

`UnifiedExecProofs`, for any calls, ids and limit of the store, and an interrupt,
a clearing and a write at any time:

* `StoreStaysSound`: `Spec => []StoreInv`;
* `AtMostOneEnd`: `Spec => []OneEnd`;
* `ProcessesAreTracked`: `Spec => []Tracked`;
* `DenialIsReported`: `Spec => []DeniedIsNotSuccess`;
* `InterruptSparesProcess`: `Spec => InterruptKeepsProcess`, an action property.

`IInv` has thirteen parts, each preserved by a lemma of its own from the few
others it needs.  The limit needs that a full store always has an entry to
prune: `UseInv` says that `last_used` orders the entries, so that there is an
oldest one outside the protected most recent (`OldestExists`,
`PrunedIsStored`).  Entries are found by id and ids are given back, so the rest
turns on `IdInv`: two calls in progress share an id only when somebody else has
given it back.  `TakenInv` follows the entries out of the store, `WriterInv`
those in the hands of `write_stdin`, `DenialInv` a denial until the call has
been told of it, `EndInv` who sends the End event.

`ThreadSubscriptionsProofs`, for any connections, approvals, turns, core
threads, `ThreadState` objects and client requests:

* `UnloadSafe`: `Spec => []UnloadInv`;
* `EveryoneAsked`: `Spec => []SubscribersAsked`;
* `EveryoneTold`: `Spec => []PromptsRetired`;
* `WithheldSafe`: `Spec => []WithheldIsUnneeded`;
* `NoLatePrompt`: `Spec => NoPromptAfterResolved`, an action property.

The inductive invariant `IInv` has twelve parts.  Three follow an approval on
its way: it is queued once, in the events of its core thread or in the hand of
one listener (`AskInv`), and its resolution waits in one command channel
(`CommandInv`), which no ended listener has (`ChannelInv`); `GuardInv` bounds the
count in the thread's status by the approvals that hold a guard.  As long as the
thread keeps its first entry it has one core thread and one listener, which
nobody told to stop (`FirstInv`); that listener leaves out only the client it is
answering (`ReplayInv`), and whatever is over was told to everybody who shows it
and is in no replay (`ToldInv`, `RetiredInv`).  No invariant says which listener
serves the thread later on, because there may be several.  `WithheldIsUnneeded`
needs the order of events: while a core thread waits for an approval, no turn
starts or ends in its queue behind it (`BlocksInv`), so that a listener that
learns of a turn has no approval of that turn open (`GivenUpIsOthers`);
`ResultInv` carries that to the decision.  `MarkedHasNoSubscriber` is inductive
by itself: a listener of the thread's own entry marks it only under the lock that
every subscription takes.

`SessionTurnsProofs`, for any inputs, mails, injections, approvals, turns, turn
states and numbers of operations:

* `SessionTypes`: `Spec => []TypeOK`;
* `TurnsFresh`: `Spec => []FreshInv`: a created turn belongs to the caller that
  created it until that caller installs it;
* `OneTaskRuns`: `Undisturbed /\ Spec => []OneRunningTask`;
* `TurnsHandedOver`: `Undisturbed /\ Spec => []TurnInv`;
* `OneOutcomePerTurn`: `Undisturbed /\ Spec => []OneOutcome`;
* `NoTaskMet`: `(NoSelfStart \/ Undisturbed) /\ Spec => []NoTaskInTheWay`;
* `AcceptedItemsKept`: `Undisturbed /\ NoInjection /\ Spec => []NothingVanishes`.

`Undisturbed` says which operations may meet.  The guardian aborts no turn, and
either nothing queued starts a turn by itself (`NoSelfStart`: user input, plain
mail, interrupts, compactions, shutdowns and injections, as in `session_user`)
or nothing submitted aborts or replaces a turn (`NoReplacement`: mail of both
kinds, approvals and injections, as in `session_mail`).  `NoInjection` also
leaves injections and approvals out.  None of these can be dropped: with a
guardian abort beside two user inputs, or with trigger mail beside user input
and an interrupt, TLC finds each of `OneRunningTask`, `OneOutcome`,
`ReservationOwned` and `NothingVanishes` violated, and with an injection
`NothingVanishes`, for the reasons given under the runs.

A step lemma per action says what it does to the actor that takes it and to
what others see (`Kills`, `Installs`, `Detaches`, ...); `StepCases` says that
these twenty-two are all, and the invariants are proved over them.  `RegInv`
(actors read registers only where they have been set, and a new turn state is
one nobody knows) and `FreshInv` hold in every session, and `WayInv` wherever
only the loop starts turns.  For the undisturbed session `PlaceInv` says where
the actors can be, so that the two regimes exclude each other's steps;
`OwnerInv`, that a runner at work is the active task or the one the loop is
aborting, and is not reported yet; `StartInv`, that one actor starts a turn at a
time, with no task in its way, and that the turn state it fills stays the active
one and is not one that a finishing runner will clear.  One running task
follows from the two: while the loop waits for a task, no turn is active.
`ItemInv` adds that a finishing runner that is past its last drain leaves an
empty turn state, which is what an injection breaks; `Conserves` is the
obligation each step then meets, to leave every item with somebody who will
take it.

The assumptions on the constants are named in the modules
(`RegistryAssumption`, `TurnBounds`, ...) and evaluated by every run.

Only model-checked: all liveness (the prover has no fairness or `ENABLED`), and
`OneRunningTask` in `session_abort`, whose one user turn meets approvals and the
guardian outside `Undisturbed`.

## Not modelled

The terminal UI, protocol types, configuration, sandboxing, telemetry and the
command-line front ends have little state that concurrency could disturb;
model output, patches and shell parsing are character-level data.  The parts in
the plan below are not modelled yet.  `PROJECT.json` lists every part.

## Plan

In order of weight, with what each should show:

1. *done* `RequestSerialization`, `SessionTurns`, `AgentRegistry`,
   `RolloutRecorder` with `DurableLog`, `MemoryPipeline`,
   `ThreadSubscriptions`, `UnifiedExec`.
2. *done* Proofs: the refinements of `OrderedAccess` and `DurableLog`, and every
   safety property checked of the queues, the session's turns, the registry, the
   recorder, the memory pipeline, the thread subscriptions and the process store.
3. The app server's event loop with connection shutdown, composed with
   `RequestSerialization`; goals continuation in `SessionTurns`.
4. Host prompts of network approvals, processes on an exec server, the
   guardian's review sessions, token refresh.
