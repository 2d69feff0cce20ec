----------------------------- MODULE UnifiedExec -----------------------------
(***************************************************************************)
(* The process store of the exec_command and write_stdin tools.  A call of *)
(* exec_command reserves a process id, opens a local process, puts it in   *)
(* the store when it is still alive, waits for output and answers with the *)
(* id or with the exit code.  Beside the calls run, for each process, the  *)
(* task that sees it exit, the task that streams its output, the watcher   *)
(* that emits the End event and the task that kills it when its network    *)
(* access is denied; and the submission loop, which may clear the store at *)
(* any time.  A call opens at most one process, which is named after it.   *)
(***************************************************************************)
EXTENDS Naturals, FiniteSets

CONSTANTS
  Calls,       \* calls of exec_command
  Managed,     \* the calls whose attempt runs behind the managed network proxy
  Ids,         \* process ids
  NoCall,      \* the entry of an id without process
  NoId,        \* the id of a call that has reserved none
  MaxStored,   \* MAX_UNIFIED_EXEC_PROCESSES
  Protected,   \* how many of the most recently used processes are not pruned
  MaxExtras    \* bound: how many of an interrupt, a clearing and a write_stdin occur

ASSUME UnifiedExecAssumption ==
  /\ {MaxStored, Protected, MaxExtras} \subseteq Nat
  /\ Protected < MaxStored
  /\ NoCall \notin Calls /\ NoId \notin Ids
  /\ IsFiniteSet(Calls) /\ IsFiniteSet(Ids) /\ Cardinality(Ids) >= Cardinality(Calls)
  /\ Managed \subseteq Calls

VARIABLES
  pc,          \* where each call of exec_command is
  id,          \* the process id of the call
  early,       \* calls whose process was alive when first looked at
  taken,       \* the entry the call has taken out of the store, pruned or exited
  writer,      \* the write_stdin in progress
  store,       \* ProcessStore.processes: id -> call of the entry
  reserved,    \* ProcessStore.reserved_process_ids
  newer,       \* ProcessEntry.last_used: the calls whose entry was used after the call's
  doomed,      \* entries drained by terminate_all_processes, not yet terminated
  running,     \* the processes the operating system runs
  exited,      \* has_exited
  token,       \* the exit token is cancelled
  failed,      \* failure_message is some
  stream,      \* the streaming task
  watcher,     \* the exit watcher
  ends,        \* how many End events the call has had
  guard,       \* the task of terminate_process_on_network_denial
  active,      \* NetworkApprovalService.active_calls
  outcomes,    \* NetworkApprovalService.call_outcomes, all of them denials
  cell,        \* DeferredNetworkApproval.finish_outcome
  denied,      \* the network token is cancelled
  blamed,      \* the call a denial in progress has been attributed to
  freed,       \* ghost: calls whose id was given back by somebody else
  unstored,    \* ghost: calls interrupted while not in the store
  extras       \* which of an interrupt, a clearing and a write_stdin occurred

calls     == <<pc, id, early, taken>>
shelf     == <<store, reserved, newer>>
process   == <<running, exited, token, failed>>
tasks     == <<stream, watcher, ends>>
approvals == <<active, outcomes, cell>>
proxy     == <<denied, blamed>>
ghosts    == <<freed, unstored>>
vars == <<calls, writer, shelf, doomed, process, tasks, guard, approvals, proxy,
          ghosts, extras>>

Over       == {"running", "exited", "failed", "aborted"}
InProgress == {c \in Calls : pc[c] \notin Over \cup {"idle"}}
Stored     == {store[i] : i \in Ids} \ {NoCall}
NoWriter   == [pc |-> "idle", id |-> NoId, call |-> NoCall]

Init ==
  /\ pc = [c \in Calls |-> "idle"] /\ id = [c \in Calls |-> NoId]
  /\ early = {} /\ taken = [c \in Calls |-> NoCall] /\ writer = NoWriter
  /\ store = [i \in Ids |-> NoCall] /\ reserved = {} /\ doomed = {}
  /\ newer = [c \in Calls |-> {}]
  /\ running = {} /\ exited = {} /\ token = {} /\ failed = {}
  /\ stream = [c \in Calls |-> "none"] /\ watcher = [c \in Calls |-> "none"]
  /\ ends = [c \in Calls |-> 0] /\ guard = [c \in Calls |-> "none"]
  /\ active = {} /\ outcomes = {} /\ cell = [c \in Calls |-> "absent"]
  /\ denied = {} /\ blamed = {}
  /\ freed = {} /\ unstored = {} /\ extras = {}
-----------------------------------------------------------------------------
(* Processes and approvals: what the operations below have in common.      *)

Goto(c, label) == pc' = [pc EXCEPT ![c] = label]

\* UnifiedExecProcess::terminate: the child is killed and the token cancelled;
\* that it has exited is seen by its own task.
Terminate(S) ==
  /\ running' = running \ S
  /\ token' = token \cup S
  /\ UNCHANGED <<exited, failed>>

\* fail_and_terminate: the failed state counts as exited.
FailAndTerminate(c) ==
  /\ running' = running \ {c}
  /\ token' = token \cup {c}
  /\ exited' = exited \cup {c}
  /\ failed' = failed \cup {c}

\* unregister_call: the outcome goes with the registration.
Unregister(S) ==
  /\ active' = active \ S
  /\ outcomes' = outcomes \ S
  /\ UNCHANGED cell

\* Mutant: the outcome is taken from the service at every finish.
FinishAgain(c) ==
  /\ active' = active \ {c}
  /\ outcomes' = outcomes \ {c}
  /\ cell' = [cell EXCEPT ![c] = IF @ = "absent" THEN @
                                 ELSE IF c \in outcomes THEN "denied" ELSE "ok"]

\* DeferredNetworkApproval::finish: the first finish takes the outcome from
\* the service and keeps it for the others.
Finish(c) ==
  IF cell[c] = "unset"
    THEN /\ active' = active \ {c}
         /\ outcomes' = outcomes \ {c}
         /\ cell' = [cell EXCEPT ![c] = IF c \in outcomes THEN "denied" ELSE "ok"]
    ELSE UNCHANGED approvals

\* The entries of S leave the store, and their last_used with them.
Drop(S) == newer' = [x \in Calls |-> IF x \in S THEN {} ELSE newer[x] \ S]

\* ProcessStore::remove
RemoveEntry(i) ==
  /\ store' = [store EXCEPT ![i] = NoCall]
  /\ reserved' = reserved \ {i}
  /\ Drop({store[i]})

\* The calls that have a last_used: their entry is in the store or on its way.
Entries == Stored \cup {c \in Calls : pc[c] = "store"}

\* Instant::now() for the entry of c
Use(c) == newer' = [x \in Calls |-> IF x \in Entries \ {c} THEN newer[x] \cup {c} ELSE {}]

\* One of the events whose number the model bounds.
Extra(kind) ==
  /\ kind \notin extras /\ Cardinality(extras) < MaxExtras
  /\ extras' = extras \cup {kind}

Emit(c) == ends' = [ends EXCEPT ![c] = @ + 1]
-----------------------------------------------------------------------------
(* exec_command.  Calls run beside each other; write_stdin excludes them.  *)

\* The ids a random draw may give: one used before, or a new one; which of the
\* new ones makes no difference.
Draws ==
  LET used == {id[c] : c \in Calls} \cap Ids
  IN used \cup {CHOOSE i \in Ids : i \notin used}

\* Mutant: the drawn id is not compared with the reserved ones.
AnyId == Draws

FreeIds == Draws \ reserved

\* allocate_process_id
Allocate(c, i) ==
  /\ pc[c] = "idle" /\ writer = NoWriter
  /\ i \in FreeIds
  /\ reserved' = reserved \cup {i}
  /\ id' = [id EXCEPT ![c] = i]
  /\ Goto(c, "reserved")
  /\ UNCHANGED <<early, taken, writer, store, newer, doomed, process, tasks, guard,
                 approvals, proxy, ghosts, extras>>

\* The handler refuses the call, or apply_patch takes it: the id is given back.
\* When get_command or apply_patch fails the id stays reserved.
Reject(c) ==
  /\ pc[c] = "reserved"
  /\ \/ RemoveEntry(id[c]) /\ Unregister({store[id[c]]})
     \/ UNCHANGED <<shelf, approvals>>
  /\ Goto(c, "failed")
  /\ UNCHANGED <<id, early, taken, writer, doomed, process, tasks, guard, proxy,
                 ghosts, extras>>

\* begin_network_approval
Register(c) ==
  /\ pc[c] = "reserved"
  /\ active' = active \cup ({c} \cap Managed)
  /\ cell' = [cell EXCEPT ![c] = IF c \in Managed THEN "unset" ELSE "absent"]
  /\ Goto(c, "opening")
  /\ UNCHANGED <<id, early, taken, writer, shelf, doomed, process, tasks, guard,
                 outcomes, proxy, ghosts, extras>>

OpenFails(c) ==
  /\ pc[c] = "opening"
  /\ Finish(c)
  /\ Goto(c, "release_failed")
  /\ UNCHANGED <<id, early, taken, writer, shelf, doomed, process, tasks, guard,
                 proxy, ghosts, extras>>

\* Mutant: no task waits for the denial when it came while the process opened.
GuardIfNotDenied(c) == IF cell[c] = "unset" /\ c \notin denied THEN "armed" ELSE "none"

GuardOf(c) == IF cell[c] = "unset" THEN "armed" ELSE "none"

Open(c) ==
  /\ pc[c] = "opening"
  /\ running' = running \cup {c}
  /\ guard' = [guard EXCEPT ![c] = GuardOf(c)]
  /\ Goto(c, "opened")
  /\ UNCHANGED <<id, early, taken, writer, shelf, doomed, exited, token, failed, tasks,
                 approvals, proxy, ghosts, extras>>

\* Mutant: the live process is not put in the store before the wait.
AfterBegin(c) == "collect"

NextAfterBegin(c) == IF c \in exited THEN "collect" ELSE "store"

\* The Begin event, start_streaming_output and the first look at the process;
\* last_used is this moment.
Begin(c) ==
  /\ pc[c] = "opened"
  /\ stream' = [stream EXCEPT ![c] = "reading"]
  /\ early' = IF c \in exited THEN early ELSE early \cup {c}
  /\ IF c \in exited THEN UNCHANGED newer ELSE Use(c)
  /\ Goto(c, NextAfterBegin(c))
  /\ UNCHANGED <<id, taken, writer, store, reserved, doomed, process, watcher, ends,
                 guard, approvals, proxy, ghosts, extras>>

Full == Cardinality(Stored) >= MaxStored

\* The entries that are not among the most recently used ones.
Candidates == {c \in Stored : Cardinality(newer[c] \cap Stored) >= Protected}

\* process_id_to_prune_from_meta: the least recently used entry outside the
\* protected ones, an exited one before any other.
ToPrune ==
  LET gone == Candidates \cap exited
      pool == IF gone # {} THEN gone ELSE Candidates
  IN CHOOSE c \in pool : pool \ {c} \subseteq newer[c]

\* prune_processes_if_needed
Pruned == IF Full THEN ToPrune ELSE NoCall

\* Who keeps process x alive when call c lets go of it: another call, the loop
\* that clears the store, the watcher, and the task that waits for a denial.
KeptBy(c, x) ==
  \/ x # c /\ x \in InProgress
  \/ x \in doomed \/ writer.call = x
  \/ \E d \in Calls \ {c} : taken[d] = x
  \/ watcher[x] = "waiting"
  \/ guard[x] = "armed"

\* store_process up to the end of the lock: prune, insert.  Without a pruned
\* entry there is no await before the watcher is spawned.
StoreProcess(c) ==
  /\ pc[c] = "store"
  /\ LET replaced == {store[id[c]]} \ {NoCall, Pruned}
     IN Terminate({x \in replaced \cap running : ~ KeptBy(c, x)})
  /\ store' = [i \in Ids |-> IF i = id[c] THEN c
                             ELSE IF store[i] = Pruned THEN NoCall ELSE store[i]]
  /\ reserved' = IF Pruned = NoCall THEN reserved ELSE reserved \ {id[Pruned]}
  /\ Drop({Pruned, store[id[c]]})
  /\ freed' = freed \cup ({Pruned} \cap InProgress)
  /\ taken' = [taken EXCEPT ![c] = Pruned]
  /\ IF Pruned = NoCall
       THEN watcher' = [watcher EXCEPT ![c] = "waiting"] /\ Goto(c, "collect")
       ELSE UNCHANGED watcher /\ Goto(c, "evict")
  /\ UNCHANGED <<id, early, writer, doomed, stream, ends, guard, approvals, proxy,
                 unstored, extras>>

\* Mutant: the pruned process is forgotten, not terminated.
EvictOnlyEntry(c) ==
  /\ pc[c] = "evict"
  /\ Unregister({taken[c]}) /\ UNCHANGED process
  /\ taken' = [taken EXCEPT ![c] = NoCall]
  /\ watcher' = [watcher EXCEPT ![c] = "waiting"]
  /\ Goto(c, "collect")
  /\ UNCHANGED <<id, early, writer, shelf, doomed, stream, ends, guard, proxy, ghosts,
                 extras>>

\* The rest of store_process with a pruned entry.
Evict(c) ==
  /\ pc[c] = "evict"
  /\ Unregister({taken[c]}) /\ Terminate({taken[c]})
  /\ taken' = [taken EXCEPT ![c] = NoCall]
  /\ watcher' = [watcher EXCEPT ![c] = "waiting"]
  /\ Goto(c, "collect")
  /\ UNCHANGED <<id, early, writer, shelf, doomed, stream, ends, guard, proxy, ghosts,
                 extras>>

\* Mutant: a failed call emits its End event although a watcher does too.
EndOfEvery(c) == Emit(c)

\* emit_failed_initial_exec_end_if_unstored
FailedEnd(c) == IF c \in early THEN UNCHANGED ends ELSE Emit(c)

\* The wait for output ends, by its deadline or by the exit, on a process whose
\* network access was denied or that failed otherwise.
SettleFailed(c) ==
  /\ pc[c] = "collect"
  /\ c \in denied \cup failed
  /\ Finish(c)
  /\ FailedEnd(c)
  /\ Goto(c, "release_killed")
  /\ UNCHANGED <<id, early, taken, writer, shelf, doomed, process, stream, watcher,
                 guard, proxy, ghosts, extras>>

Settle(c) ==
  /\ pc[c] = "collect"
  /\ c \notin denied \cup failed
  /\ Goto(c, IF c \in early THEN "refresh" ELSE "late")
  /\ UNCHANGED <<id, early, taken, writer, shelf, doomed, process, tasks, guard,
                 approvals, proxy, ghosts, extras>>

\* refresh_process_state: an exited entry leaves the store.
Refresh(c) ==
  /\ pc[c] = "refresh"
  /\ LET entry == store[id[c]]
     IN IF entry \in exited
          THEN RemoveEntry(id[c]) /\ taken' = [taken EXCEPT ![c] = entry] /\ Goto(c, "late")
          ELSE UNCHANGED <<shelf, taken>> /\ Goto(c, IF entry = NoCall THEN "failed" ELSE "running")
  /\ UNCHANGED <<id, early, writer, doomed, process, tasks, guard, approvals, proxy,
                 ghosts, extras>>

\* After the exit, and after the grace for a late denial, the approval is
\* finished.  A stored process has been removed and has its watcher; the other
\* one gets its End event here and still has an id to give back.
FinishLate(c) ==
  /\ pc[c] = "late"
  /\ Finish(c)
  /\ LET isDenied == cell'[c] = "denied"
     IN IF c \in early
          THEN /\ Goto(c, IF isDenied THEN "failed" ELSE "exited")
               /\ IF isDenied THEN FailAndTerminate(taken[c]) ELSE UNCHANGED process
               /\ UNCHANGED ends
          ELSE /\ Goto(c, IF isDenied THEN "release_killed" ELSE "release_exited")
               /\ Emit(c)
               /\ UNCHANGED process
  /\ taken' = [taken EXCEPT ![c] = NoCall]
  /\ UNCHANGED <<id, early, writer, shelf, doomed, stream, watcher, guard, proxy,
                 ghosts, extras>>

\* release_process_id and the answer.
Release(c) ==
  /\ pc[c] \in {"release_failed", "release_killed", "release_exited"}
  /\ RemoveEntry(id[c])
  /\ Unregister({store[id[c]]})
  /\ IF pc[c] = "release_killed" THEN FailAndTerminate(c) ELSE UNCHANGED process
  /\ Goto(c, IF pc[c] = "release_exited" THEN "exited" ELSE "failed")
  /\ UNCHANGED <<id, early, taken, writer, doomed, tasks, guard, proxy, ghosts, extras>>

\* The turn is interrupted: the call's task is dropped at an await, and with it
\* the last handle of a process nobody else holds.
Abort(c) ==
  /\ c \in InProgress
  /\ Extra("interrupt")
  /\ Goto(c, "aborted")
  /\ taken' = [taken EXCEPT ![c] = NoCall]
  /\ LET mine == {c, taken[c]} \ {NoCall}
     IN /\ Terminate({x \in mine \cap running : x \notin Stored /\ ~ KeptBy(c, x)})
        /\ unstored' = unstored \cup (mine \ Stored)
  /\ UNCHANGED <<id, early, writer, shelf, doomed, tasks, guard, approvals, proxy,
                 freed>>
-----------------------------------------------------------------------------
(* write_stdin, one at a time and not beside exec_command.                 *)

\* prepare_process_handles; input for a process without a terminal is refused.
WritePrepare(i) ==
  /\ writer = NoWriter /\ InProgress = {}
  /\ Extra("write")
  /\ store[i] # NoCall
  /\ Use(store[i])
  /\ \/ writer' = [pc |-> "collect", id |-> i, call |-> store[i]]
     \/ UNCHANGED writer
  /\ UNCHANGED <<calls, store, reserved, doomed, process, tasks, guard, approvals,
                 proxy, ghosts>>

\* The input cannot be written: an exited process leaves the store and is
\* reported after the wait, otherwise the call fails.
WriteFails ==
  /\ writer.pc = "collect"
  /\ IF store[writer.id] \in exited
       THEN RemoveEntry(writer.id) /\ writer' = [writer EXCEPT !.pc = "gone"]
       ELSE UNCHANGED shelf /\ writer' = NoWriter
  /\ UNCHANGED <<calls, doomed, process, tasks, guard, approvals, proxy, ghosts, extras>>

WriteSettle ==
  /\ writer.pc \in {"collect", "gone"}
  /\ IF writer.call \in denied \cup failed
       THEN Finish(writer.call) /\ writer' = [writer EXCEPT !.pc = "release"]
       ELSE /\ writer' = [writer EXCEPT !.pc = IF @ = "gone" THEN "late" ELSE "refresh"]
            /\ UNCHANGED approvals
  /\ UNCHANGED <<calls, shelf, doomed, process, tasks, guard, proxy, ghosts, extras>>

WriteRefresh ==
  /\ writer.pc = "refresh"
  /\ LET entry == store[writer.id]
     IN IF entry \in exited
          THEN RemoveEntry(writer.id) /\ writer' = [writer EXCEPT !.pc = "late", !.call = entry]
          ELSE UNCHANGED shelf /\ writer' = NoWriter
  /\ UNCHANGED <<calls, doomed, process, tasks, guard, approvals, proxy, ghosts, extras>>

WriteFinishLate ==
  /\ writer.pc = "late"
  /\ Finish(writer.call)
  /\ IF cell'[writer.call] = "denied" THEN FailAndTerminate(writer.call) ELSE UNCHANGED process
  /\ writer' = NoWriter
  /\ UNCHANGED <<calls, shelf, doomed, tasks, guard, proxy, ghosts, extras>>

WriteRelease ==
  /\ writer.pc = "release"
  /\ RemoveEntry(writer.id)
  /\ Unregister({store[writer.id]})
  /\ FailAndTerminate(writer.call)
  /\ writer' = NoWriter
  /\ UNCHANGED <<calls, doomed, tasks, guard, proxy, ghosts, extras>>

\* An interrupted write_stdin lets go of its process as a call does.
WriteAbort ==
  /\ writer # NoWriter
  /\ Extra("interrupt")
  /\ writer' = NoWriter
  /\ LET mine == {writer.call} \ Stored
     IN /\ Terminate({x \in mine \cap running : watcher[x] = "none" /\ guard[x] # "armed"
                                                  /\ x \notin doomed})
        /\ unstored' = unstored \cup mine
  /\ UNCHANGED <<calls, shelf, doomed, tasks, guard, approvals, proxy, freed>>
-----------------------------------------------------------------------------
(* terminate_all_processes, for a request to clean up or at shutdown.      *)

TerminateAll ==
  /\ doomed = {} /\ Extra("clear")
  /\ doomed' = Stored
  /\ store' = [i \in Ids |-> NoCall]
  /\ reserved' = {}
  /\ Drop(Stored)
  /\ freed' = freed \cup InProgress
  /\ UNCHANGED <<calls, writer, process, tasks, guard, approvals, proxy, unstored>>

TerminateNext(c) ==
  /\ c \in doomed
  /\ doomed' = doomed \ {c}
  /\ Unregister({c}) /\ Terminate({c})
  /\ UNCHANGED <<calls, writer, shelf, tasks, guard, proxy, ghosts, extras>>
-----------------------------------------------------------------------------
(* What goes on for a process beside the calls.                            *)

\* The child ends by itself: has_exited is set, then the token is cancelled.
Exits(c) ==
  /\ c \in running
  /\ running' = running \ {c}
  /\ exited' = exited \cup {c}
  /\ token' = token \cup {c}
  /\ UNCHANGED <<failed, calls, writer, shelf, doomed, tasks, guard, approvals, proxy,
                 ghosts, extras>>

\* The exit of a terminated child is seen by the task that waits for exit_rx.
ExitSeen(c) ==
  /\ c \in token \ exited
  /\ exited' = exited \cup {c}
  /\ UNCHANGED <<running, token, failed, calls, writer, shelf, doomed, tasks, guard,
                 approvals, proxy, ghosts, extras>>

\* Mutant: notify_waiters, which is lost on a watcher that is not there yet.
DrainedNow(c) == IF watcher[c] = "waiting" THEN "drained" ELSE "none"

\* notify_one keeps a permit for a watcher that does not wait yet.
Drained(c) == "drained"

\* start_streaming_output: the grace after the exit is over.
StreamEnds(c) ==
  /\ stream[c] = "reading" /\ c \in token
  /\ stream' = [stream EXCEPT ![c] = Drained(c)]
  /\ UNCHANGED <<calls, writer, shelf, doomed, process, watcher, ends, guard, approvals,
                 proxy, ghosts, extras>>

\* spawn_exit_watcher: the exit token, then the drained output, then End.
WatcherEnds(c) ==
  /\ watcher[c] = "waiting" /\ c \in token
  /\ stream[c] = "drained"
  /\ watcher' = [watcher EXCEPT ![c] = "done"]
  /\ Emit(c)
  /\ UNCHANGED <<calls, writer, shelf, doomed, process, stream, guard, approvals, proxy,
                 ghosts, extras>>

\* terminate_process_on_network_denial
GuardKills(c) ==
  /\ guard[c] = "armed" /\ c \in denied
  /\ guard' = [guard EXCEPT ![c] = "done"]
  /\ Finish(c) /\ FailAndTerminate(c)
  /\ UNCHANGED <<calls, writer, shelf, doomed, tasks, proxy, ghosts, extras>>

\* The exit, and no denial within the grace.
GuardGivesUp(c) ==
  /\ guard[c] = "armed" /\ c \in token \ denied
  /\ guard' = [guard EXCEPT ![c] = "done"]
  /\ UNCHANGED <<calls, writer, shelf, doomed, process, tasks, approvals, proxy, ghosts,
                 extras>>

\* resolve_single_active_call: a blocked request is attributed only when there
\* is a single candidate.
Blame(c) ==
  /\ active = {c}
  /\ c \notin blamed \cup denied
  /\ blamed' = blamed \cup {c}
  /\ UNCHANGED <<calls, writer, shelf, doomed, process, tasks, guard, approvals, denied,
                 ghosts, extras>>

\* record_call_outcome, after a prompt or at once.
RecordDenial(c) ==
  /\ c \in blamed \cap active
  /\ outcomes' = outcomes \cup {c}
  /\ denied' = denied \cup {c}
  /\ blamed' = blamed \ {c}
  /\ UNCHANGED <<calls, writer, shelf, doomed, process, tasks, guard, active, cell,
                 ghosts, extras>>
-----------------------------------------------------------------------------
CallStep(c) ==
  \/ Reject(c) \/ Register(c) \/ OpenFails(c) \/ Open(c) \/ Begin(c) \/ StoreProcess(c) \/ Evict(c)
  \/ SettleFailed(c) \/ Settle(c) \/ Refresh(c) \/ FinishLate(c) \/ Release(c)

WriteStep ==
  WriteSettle \/ WriteRefresh \/ WriteFinishLate \/ WriteRelease

TaskStep(c) ==
  \/ ExitSeen(c) \/ StreamEnds(c) \/ WatcherEnds(c)
  \/ GuardKills(c) \/ GuardGivesUp(c)

\* What the runtime's tasks do by themselves.
Work ==
  \/ \E c \in Calls : CallStep(c) \/ TaskStep(c) \/ TerminateNext(c)
  \/ WriteStep

Next ==
  \/ Work
  \/ \E c \in Calls, i \in Ids : Allocate(c, i)
  \/ \E i \in Ids : WritePrepare(i)
  \/ WriteFails \/ WriteAbort \/ TerminateAll
  \/ \E c \in Calls : Abort(c) \/ Exits(c) \/ Blame(c) \/ RecordDenial(c)

Spec == Init /\ [][Next]_vars

\* The runtime does not stop while a task has something to do.  That is less
\* than fairness to every task, and enough because every task here ends.  A
\* process may run, and a denial or an interrupt be absent, for ever.
Fairness == WF_vars(Work)

FairSpec == Spec /\ Fairness
-----------------------------------------------------------------------------
(* Properties.                                                             *)

Labels == Over \cup {"idle", "reserved", "opening", "opened", "store", "evict", "collect",
                     "refresh", "late", "release_failed", "release_killed", "release_exited"}

\* The types of the variables.
CallTypes ==
  /\ pc \in [Calls -> Labels] /\ id \in [Calls -> Ids \cup {NoId}]
  /\ early \subseteq Calls /\ taken \in [Calls -> Calls \cup {NoCall}]

ShelfTypes ==
  /\ store \in [Ids -> Calls \cup {NoCall}] /\ reserved \subseteq Ids
  /\ newer \in [Calls -> SUBSET Calls]

ProcessTypes ==
  /\ doomed \subseteq Calls /\ running \subseteq Calls /\ exited \subseteq Calls
  /\ token \subseteq Calls /\ failed \subseteq Calls

TaskTypes ==
  /\ stream \in [Calls -> {"none", "reading", "drained"}]
  /\ watcher \in [Calls -> {"none", "waiting", "done"}]
  /\ guard \in [Calls -> {"none", "armed", "done"}]
  /\ ends \in [Calls -> Nat]

NetTypes ==
  /\ active \subseteq Calls /\ outcomes \subseteq Calls
  /\ denied \subseteq Calls /\ blamed \subseteq Calls
  /\ cell \in [Calls -> {"absent", "unset", "ok", "denied"}]

WriterTypes ==
  \/ writer = NoWriter
  \/ writer \in [pc : {"collect", "gone", "refresh", "late", "release"}, id : Ids, call : Calls]

GhostTypes ==
  /\ freed \subseteq Calls /\ unstored \subseteq Calls
  /\ extras \subseteq {"interrupt", "clear", "write"}

Types ==
  /\ CallTypes /\ ShelfTypes /\ ProcessTypes /\ TaskTypes
  /\ NetTypes /\ WriterTypes /\ GhostTypes

WithinLimit == Cardinality(Stored) <= MaxStored

\* Besides the types: the store never holds more than MAX_UNIFIED_EXEC_PROCESSES
\* entries, however many calls store at the same time.
TypeOK == Types /\ WithinLimit

\* A call has at most one End event: either its watcher emits it or the call
\* itself does, whatever fails, is denied or is interrupted on the way.
OneEnd == \A c \in Calls : ends[c] <= 1

\* A clearing of the store frees the ids of calls in flight as well, and so does
\* pruning the entry of one; whoever has such an id may meet the entry of another.
Freed(i) == \E d \in freed : id[d] = i

\* The entry a call finds under its id, to report, remove or release it, is its
\* own, unless somebody else has given the id back while the call was in flight.
OwnEntry ==
  \A c \in InProgress :
    \/ pc[c] = "late" /\ c \in early
    \/ store[id[c]] \in {c, NoCall}
    \/ Freed(id[c])

\* The store stays within MAX_UNIFIED_EXEC_PROCESSES however many calls store at
\* once, and nobody works on the entry of another call.
StoreInv == TypeOK /\ OwnEntry

InHands(c) ==
  \/ c \in InProgress \cup Stored \cup doomed \/ writer.call = c
  \/ \E d \in Calls : taken[d] = c
  \/ c \in unstored \/ Freed(id[c])

\* A process that runs and a network registration are always in somebody's
\* hands: a call in progress, the store, whoever prunes or clears it.  Known
\* exceptions: calls interrupted while their entry was not in the store, and
\* ids freed in flight.
Tracked == \A c \in running \cup active : InHands(c)

\* A command whose network access was denied is never reported as one that
\* exited by itself, also when the denial comes after the exit.
DeniedIsNotSuccess ==
  \A c \in Calls : pc[c] = "exited" => c \notin denied \/ Freed(id[c])

\* "interrupting the turn cannot drop the last Arc and terminate the background
\* process": an interrupt during the wait leaves the process as it is, unless
\* the id was given back by somebody else.
InterruptKeepsProcess ==
  [][\A c \in early : pc[c] \in {"evict", "collect", "refresh"} /\ pc'[c] = "aborted"
        => (c \in running => c \in running' \/ Freed(id[c]))]_vars

\* A command that began and whose process is gone gets its End event, unless an
\* interrupt comes before there is a watcher.
EndComes ==
  \A c \in Calls :
    (stream[c] # "none" /\ c \notin running)
      ~> (ends[c] = 1 \/ (pc[c] = "aborted" /\ watcher[c] = "none"))

\* A process whose network access was denied does not go on running.
DeniedDies == \A c \in Managed : (c \in denied /\ c \in running) ~> (c \notin running)
-----------------------------------------------------------------------------
(* What the properties rest on: the parts of the inductive invariant.      *)

Unopened == {"idle", "reserved", "opening", "release_failed"}

Late(c) == pc[c] = "late" /\ c \in early

\* Calls in progress that still have their id.
Holders == {c \in InProgress : ~ Late(c)}

\* What holds of a call wherever it is.
PhaseInv ==
  \A c \in Calls :
    /\ pc[c] # "idle" => id[c] \in Ids
    /\ pc[c] \in Unopened \cup {"opened", "release_exited"} => c \notin early
    /\ pc[c] \in {"store", "evict", "refresh"} => c \in early
    /\ pc[c] = "evict" => taken[c] \in early
    /\ IF Late(c) THEN taken[c] \in exited ELSE pc[c] # "evict" => taken[c] = NoCall
    /\ pc[c] \in {"collect", "late", "release_exited"} /\ c \notin early => c \in exited

\* A process is terminated only once it has been opened, and runs no more then.
ProcessInv ==
  /\ running \cap token = {} /\ exited \subseteq token /\ doomed \subseteq early
  /\ \A c \in Calls : pc[c] \in Unopened => c \notin running \cup token /\ guard[c] = "none"
  /\ writer # NoWriter => writer.call \in early

\* An entry is under the id of its call, which has been through store_process.
EntryInv ==
  \A i \in Ids : store[i] # NoCall =>
    store[i] \in early /\ id[store[i]] = i /\ pc[store[i]] # "store"

\* last_used orders the entries.
UseInv ==
  \A x \in Entries :
    /\ x \notin newer[x]
    /\ \A y \in Entries \ {x} : x \in newer[y] \/ y \in newer[x]
    /\ \A y \in Entries : y \in newer[x] => newer[y] \cap Entries \subseteq newer[x]

\* The watcher's End event, or the call's own, is the only one.
EndInv ==
  \A c \in Calls :
    /\ pc[c] \in Unopened \cup {"opened", "store", "evict"} \/ c \notin early => watcher[c] = "none"
    /\ c \in early => ends[c] = IF watcher[c] = "done" THEN 1 ELSE 0
    /\ c \notin early => ends[c] <= 1
    /\ c \notin early /\ pc[c] \in Unopened \cup {"opened", "collect", "late"} => ends[c] = 0

\* A call whose id is given back has one, and write_stdin runs beside no call.
AloneInv ==
  /\ \A d \in freed : pc[d] # "idle"
  /\ writer # NoWriter => InProgress = {}

\* Two calls in progress share an id only when somebody has given it back.
IdInv ==
  /\ \A i \in Ids : store[i] # NoCall => i \in reserved \/ Freed(i)
  /\ \A c \in Holders : id[c] \in reserved \/ Freed(id[c])
  /\ \A c, d \in Holders : c # d /\ id[c] = id[d] => Freed(id[c])
  /\ \A c \in Holders : store[id[c]] \in {c, NoCall} \/ Freed(id[c])
  /\ \A c \in Holders \cap early : pc[c] # "store" => store[id[c]] = c \/ Freed(id[c])

\* An entry out of the store belongs to a call that is over, or whose id is free.
TakenInv ==
  /\ \A c \in doomed \cap InProgress : Freed(id[c])
  /\ \A c \in Calls : pc[c] = "evict" /\ taken[c] \in InProgress => Freed(id[taken[c]])
  /\ \A c \in Calls : Late(c) => id[taken[c]] = id[c] /\ (taken[c] = c \/ Freed(id[c]))

\* A denial is kept until the call has been told of it.
DenialInv ==
  \A c \in Calls :
    /\ c \in active => cell[c] = "unset"
    /\ c \in denied => cell[c] # "absent"
    /\ pc[c] \in {"idle", "reserved"} => cell[c] = "absent"
    /\ pc[c] \in {"release_failed", "release_killed"} => cell[c] # "unset"
    /\ pc[c] \in {"release_exited", "exited"} => cell[c] \in {"ok", "absent"}
    /\ c \in denied /\ (c \in InProgress \/ pc[c] = "exited") =>
         cell[c] = "denied" \/ (cell[c] = "unset" /\ c \in outcomes) \/ Freed(id[c])

\* What write_stdin holds is the entry of its id, or somebody else ends it.
WriterInv ==
  writer # NoWriter =>
    /\ store[writer.id] \in {writer.call, NoCall}
    /\ writer.pc \in {"gone", "late"} => writer.call \in exited
    /\ writer.pc = "release" => cell[writer.call] # "unset"
    /\ writer.pc \in {"collect", "refresh"} =>
         store[writer.id] = writer.call \/ writer.call \in doomed
           \/ writer.call \notin running \cup active

\* The inductive invariant.
IInv ==
  /\ Types /\ WithinLimit /\ PhaseInv /\ ProcessInv /\ EntryInv /\ UseInv /\ EndInv
  /\ AloneInv /\ IdInv /\ TakenInv /\ DenialInv /\ WriterInv /\ Tracked
=============================================================================
