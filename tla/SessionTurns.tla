---------------------------- MODULE SessionTurns ----------------------------
(***************************************************************************)
(* The lifecycle of turns in one session (codex-core): the submission      *)
(* loop, the runner each turn is spawned on, the guardian's abort task and *)
(* callers from outside share Session.active_turn, the per-turn pending    *)
(* input and the session's input queue.  A step is one lock section, or    *)
(* what an actor does between two of them.                                 *)
(*                                                                         *)
(* Actors: Loop is submission_loop, Guard the task that aborts a turn      *)
(* after too many guardian denials, and turn t is also the actor that runs *)
(* it.  An ActiveTurn is [ts, task]: ts names the shared TurnState object, *)
(* task the turn whose RunningTask it holds, or None for a reservation.    *)
(***************************************************************************)
EXTENDS Naturals, FiniteSets

CONSTANTS
  Loop, Guard,     \* the actors that are not turns
  None,            \* no active turn, no task, no turn state
  UserInputs,      \* user messages a client may submit
  Mails,           \* inter-agent messages another agent may send
  TriggerMails,    \* ... those marked trigger_turn
  Injections,      \* hidden items injected through the thread's API
  Approvals,       \* guardian approvals handled by the loop
  MaxTurns,        \* bound: turns started
  MaxTurnStates,   \* bound: TurnState objects created
  MaxInterrupts,   \* bound: Op::Interrupt submissions
  MaxCompacts,     \* bound: Op::Compact submissions
  MaxGuardAborts,  \* bound: turns the guardian tries to abort
  MaxShutdowns     \* bound: Op::Shutdown submissions (0 or 1)

Items == UserInputs \cup Mails \cup Injections \cup Approvals
Turns == 1 .. MaxTurns
TurnStates == 1 .. MaxTurnStates
Actors == {Loop, Guard} \cup Turns

ASSUME TurnBounds ==
  /\ MaxTurns \in Nat /\ MaxTurnStates \in Nat /\ MaxInterrupts \in Nat
  /\ MaxCompacts \in Nat /\ MaxGuardAborts \in Nat /\ MaxShutdowns \in Nat
  /\ TriggerMails \subseteq Mails
  /\ {None, Loop, Guard} \cap Nat = {} /\ Loop # Guard /\ None \notin {Loop, Guard}
  /\ None \notin [ts : TurnStates, task : Turns \cup {None}]

VARIABLES
  active,      \* Session.active_turn: None or [ts, task]
  pend,        \* turn state -> pending_input
  phase,       \* turn state -> MailboxDeliveryPhase
  mailbox,     \* InputQueue.mailbox_pending_mails
  idle,        \* InputQueue.idle_pending_input
  turnStates,  \* TurnState objects created so far
  turnIds,     \* turns started so far
  kind,        \* turn -> TaskKind
  input,       \* turn -> the input it was started with
  cancelled,   \* turn -> its cancellation token
  outcome,     \* turn -> the terminal events sent for it
  pc, reg,     \* actor -> where it is, and its local variables
  sent,        \* items that have been submitted
  recorded,    \* items recorded in the conversation history
  refused,     \* items a hook blocked, an abort cleared or a caller got back
  used         \* operation -> how often it was submitted (bounds)

session == <<active, pend, phase, mailbox, idle, turnStates>>
turns   == <<turnIds, kind, input, cancelled, outcome>>
fates   == <<sent, recorded, refused>>
vars    == <<session, turns, pc, reg, fates, used>>

ActiveTask == IF active = None THEN None ELSE active.task

NoReg == [task |-> None, ts |-> None, reason |-> "none", turn |-> None, held |-> {}]

Regs == [task : Turns \cup {None}, ts : TurnStates \cup {None},
         reason : {"none", "Replaced", "Interrupted", "Shutdown"},
         turn : Turns \cup {None}, held : SUBSET Items]

Ops == {"Interrupt", "Compact", "Guard", "Shutdown"}

Stops == {"parked", "ended", "killed"}
Streaming == {"r_sample", "r_follow"}
Running == Streaming \cup {"r_start", "r_input", "r_drain", "r_cont", "r_more",
                           "r_again", "r_other", "r_check"}
Steps == Running \cup Stops \cup
  {"ab_take", "ab_wait", "ab_clear", "q_idle", "ms_check", "ms_reserve",
   "st_pend", "st_ts", "st_extend", "st_install",
   "f_take", "f_pend", "f_clear", "r_done"}

TypeOK ==
  /\ active \in {None} \cup [ts : TurnStates, task : Turns \cup {None}]
  /\ pend \in [TurnStates -> SUBSET Items]
  /\ phase \in [TurnStates -> {"CurrentTurn", "NextTurn"}]
  /\ mailbox \subseteq Mails
  /\ idle \subseteq Approvals
  /\ turnStates \in 0 .. MaxTurnStates
  /\ turnIds \in 0 .. MaxTurns
  /\ kind \in [Turns -> {"Regular", "Compact"}]
  /\ input \in [Turns -> SUBSET Items]
  /\ cancelled \in [Turns -> BOOLEAN]
  /\ outcome \in [Turns -> SUBSET {"complete", "aborted"}]
  /\ pc \in [Actors -> Steps]
  /\ reg \in [Actors -> Regs]
  /\ sent \subseteq Items /\ recorded \subseteq Items /\ refused \subseteq Items
  /\ used \in [Ops -> Nat]
  /\ used["Interrupt"] <= MaxInterrupts /\ used["Compact"] <= MaxCompacts
  /\ used["Guard"] <= MaxGuardAborts /\ used["Shutdown"] <= MaxShutdowns

Init ==
  /\ active = None
  /\ pend = [s \in TurnStates |-> {}]
  /\ phase = [s \in TurnStates |-> "CurrentTurn"]
  /\ mailbox = {} /\ idle = {} /\ turnStates = 0 /\ turnIds = 0
  /\ kind = [t \in Turns |-> "Regular"]
  /\ input = [t \in Turns |-> {}]
  /\ cancelled = [t \in Turns |-> FALSE]
  /\ outcome = [t \in Turns |-> {}]
  /\ pc = [a \in Actors |-> "parked"]
  /\ reg = [a \in Actors |-> NoReg]
  /\ sent = {} /\ recorded = {} /\ refused = {}
  /\ used = [o \in Ops |-> 0]

-----------------------------------------------------------------------------
Go(a, step) == pc' = [pc EXCEPT ![a] = step]

\* Where an actor goes when the procedure it was in returns to its caller.
Return(a) ==
  /\ Go(a, IF a \in Turns THEN "r_done"
           ELSE IF reg[a].reason = "Shutdown" THEN "ended" ELSE "parked")
  /\ reg' = [reg EXCEPT ![a] = NoReg]

\* Mutant: the check does not look at the delivery phase, the drain does.
HasPendingAnyPhase ==
  mailbox # {} \/ (active # None /\ pend[active.ts] # {})

\* has_pending_input, evaluated against whatever turn is active.
HasPending ==
  IF active = None THEN mailbox # {}
  ELSE pend[active.ts] # {} \/ (phase[active.ts] = "CurrentTurn" /\ mailbox # {})

\* What get_pending_input returns and leaves behind.
Pending == (IF active = None THEN {} ELSE pend[active.ts]) \cup
           (IF active # None /\ phase[active.ts] = "NextTurn" THEN {} ELSE mailbox)

TakePending ==
  /\ pend' = IF active = None THEN pend ELSE [pend EXCEPT ![active.ts] = {}]
  /\ mailbox' = mailbox \ Pending

\* The active turn, or a fresh ActiveTurn::default() when there is none.
ActiveOrNew == IF active = None THEN [ts |-> turnStates + 1, task |-> None] ELSE active

\* A new turn context with its sub id, for a task of this kind and input.
NewTurn(k, items) ==
  /\ turnIds < MaxTurns
  /\ turnIds' = turnIds + 1
  /\ kind' = [kind EXCEPT ![turnIds + 1] = k]
  /\ input' = [input EXCEPT ![turnIds + 1] = items]
  /\ UNCHANGED <<cancelled, outcome>>

\* Hooks inspect items one by one: the blocked ones are dropped, the others
\* recorded in the conversation history.
Record(items, blocked) ==
  /\ recorded' = recorded \cup (items \ blocked)
  /\ refused' = refused \cup blocked

-----------------------------------------------------------------------------
(* Operations of the submission loop, one at a time, and calls from outside. *)

(* steer_input, up to its refusals: the active turn has a regular task.     *)
Steerable == ActiveTask # None /\ kind[ActiveTask] = "Regular"

Steer(x) ==
  /\ pend' = [pend EXCEPT ![active.ts] = @ \cup {x}]
  /\ phase' = [phase EXCEPT ![active.ts] = "CurrentTurn"]

(* Op::UserInput: steer the active turn, or start a turn in its place when  *)
(* there is no task to steer.  A task that is not steerable is an error,    *)
(* and so, whatever runs, may be the settings that come with the input.     *)
UserInput(x) ==
  /\ pc[Loop] = "parked" /\ x \notin sent
  /\ sent' = sent \cup {x}
  /\ \/ /\ Steerable
        /\ Steer(x)
        /\ UNCHANGED <<turns, pc, reg, refused>>
     \/ /\ refused' = refused \cup {x}
        /\ UNCHANGED <<turns, pc, reg, pend, phase>>
     \/ /\ ActiveTask = None
        /\ NewTurn("Regular", {x})
        /\ Go(Loop, "ab_take")
        /\ reg' = [reg EXCEPT ![Loop].reason = "Replaced", ![Loop].turn = turnIds + 1]
        /\ UNCHANGED <<pend, phase, refused>>
  /\ UNCHANGED <<active, mailbox, idle, turnStates, recorded, used>>

(* CodexThread::steer_input, called by the app server beside the loop.      *)
SteerFromClient(x) ==
  /\ x \notin sent
  /\ sent' = sent \cup {x}
  /\ IF Steerable THEN Steer(x) /\ UNCHANGED refused
                  ELSE refused' = refused \cup {x} /\ UNCHANGED <<pend, phase>>
  /\ UNCHANGED <<active, mailbox, idle, turnStates, turns, pc, reg, recorded, used>>

\* Mutant: the compaction is started without aborting what runs.
CompactWithoutAbort ==
  /\ pc[Loop] = "parked" /\ used["Compact"] < MaxCompacts
  /\ used' = [used EXCEPT !["Compact"] = @ + 1]
  /\ NewTurn("Compact", {})
  /\ Go(Loop, "st_pend")
  /\ reg' = [reg EXCEPT ![Loop].reason = "Replaced", ![Loop].turn = turnIds + 1]
  /\ UNCHANGED <<session, fates>>

(* Op::Compact: spawn_task replaces whatever runs.                          *)
Compact ==
  /\ pc[Loop] = "parked" /\ used["Compact"] < MaxCompacts
  /\ used' = [used EXCEPT !["Compact"] = @ + 1]
  /\ NewTurn("Compact", {})
  /\ Go(Loop, "ab_take")
  /\ reg' = [reg EXCEPT ![Loop].reason = "Replaced", ![Loop].turn = turnIds + 1]
  /\ UNCHANGED <<session, fates>>

(* Op::Interrupt and Op::Shutdown both abort_all_tasks(Interrupted).        *)
Interrupt ==
  /\ pc[Loop] = "parked" /\ used["Interrupt"] < MaxInterrupts
  /\ used' = [used EXCEPT !["Interrupt"] = @ + 1]
  /\ Go(Loop, "ab_take")
  /\ reg' = [reg EXCEPT ![Loop].reason = "Interrupted"]
  /\ UNCHANGED <<session, turns, fates>>

Shutdown ==
  /\ pc[Loop] = "parked" /\ used["Shutdown"] < MaxShutdowns
  /\ used' = [used EXCEPT !["Shutdown"] = @ + 1]
  /\ Go(Loop, "ab_take")
  /\ reg' = [reg EXCEPT ![Loop].reason = "Shutdown"]
  /\ UNCHANGED <<session, turns, fates>>

(* Op::InterAgentCommunication: queue the mail; trigger_turn mail wakes an  *)
(* idle session.                                                            *)
InterAgentCommunication(m) ==
  /\ pc[Loop] = "parked" /\ m \notin sent
  /\ sent' = sent \cup {m}
  /\ mailbox' = mailbox \cup {m}
  /\ Go(Loop, IF m \in TriggerMails THEN "ms_check" ELSE "parked")
  /\ UNCHANGED <<active, pend, phase, idle, turnStates, turns, reg, recorded, refused, used>>

\* InputQueue::inject_response_items: accepted by any active turn.
AcceptInjection(x) == pend' = [pend EXCEPT ![active.ts] = @ \cup {x}]

(* Op::ApproveGuardianDeniedAction: inject, or keep for the next turn.      *)
ApproveDenied(x) ==
  /\ pc[Loop] = "parked" /\ x \notin sent
  /\ sent' = sent \cup {x}
  /\ IF active # None
       THEN AcceptInjection(x) /\ UNCHANGED <<pc, reg>>
       ELSE /\ Go(Loop, "q_idle")
            /\ reg' = [reg EXCEPT ![Loop].held = {x}]
            /\ UNCHANGED pend
  /\ UNCHANGED <<active, phase, mailbox, idle, turnStates, turns, recorded, refused, used>>

QueueForNextTurn ==
  /\ pc[Loop] = "q_idle"
  /\ idle' = idle \cup reg[Loop].held
  /\ Return(Loop)
  /\ UNCHANGED <<active, pend, phase, mailbox, turnStates, turns, fates, used>>

(* CodexThread::inject_response_items_into_active_turn, beside the loop.    *)
Inject(x) ==
  /\ x \notin sent
  /\ sent' = sent \cup {x}
  /\ IF active # None THEN AcceptInjection(x) /\ UNCHANGED refused
                      ELSE refused' = refused \cup {x} /\ UNCHANGED pend
  /\ UNCHANGED <<active, phase, mailbox, idle, turnStates, turns, pc, reg, recorded, used>>

(* record_guardian_denial: the review of a tool call spawns an abort of the *)
(* turn that made it.                                                       *)
GuardianDenies(t) ==
  /\ pc[Guard] = "parked" /\ used["Guard"] < MaxGuardAborts
  /\ pc[t] = "r_follow" /\ ActiveTask = t
  /\ used' = [used EXCEPT !["Guard"] = @ + 1]
  /\ Go(Guard, "ab_take")
  /\ reg' = [reg EXCEPT ![Guard].reason = "Interrupted", ![Guard].turn = t]
  /\ UNCHANGED <<session, turns, fates>>

-----------------------------------------------------------------------------
(* Procedures the loop, the guardian's task and finishing runners share.     *)

(* abort_all_tasks (Loop) and abort_turn_if_active (Guard): take the active *)
(* turn and cancel its task.  A turn that has no task is dropped as it is.  *)
AbortTake(a) ==
  /\ pc[a] = "ab_take"
  /\ \/ /\ ActiveTask # None /\ (a = Guard => ActiveTask = reg[a].turn)
        /\ active' = None
        /\ cancelled' = [cancelled EXCEPT ![ActiveTask] = TRUE]
        /\ Go(a, IF cancelled[ActiveTask] THEN "ab_clear" ELSE "ab_wait")
        /\ reg' = [reg EXCEPT ![a].task = ActiveTask, ![a].ts = active.ts]
     \/ /\ a = Loop /\ ActiveTask = None
        /\ active' = None
        /\ IF reg[a].reason = "Replaced" THEN Go(a, "st_pend") /\ UNCHANGED reg
                                         ELSE Return(a)
        /\ UNCHANGED cancelled
     \/ /\ a = Guard /\ ActiveTask # reg[a].turn
        /\ Return(a)
        /\ UNCHANGED <<active, cancelled>>
  /\ UNCHANGED <<pend, phase, mailbox, idle, turnStates, turnIds, kind, input,
                 outcome, fates, used>>

\* Mutant: the handle is not aborted when the deadline passes.
AbortWaitNoKill(a) ==
  /\ pc[a] = "ab_wait"
  /\ Go(a, "ab_clear")
  /\ outcome' = [outcome EXCEPT ![reg[a].task] = @ \cup {"aborted"}]
  /\ UNCHANGED <<session, turnIds, kind, input, cancelled, reg, fates, used>>

\* Mutant: the wait has no deadline.
AbortWaitForever(a) ==
  /\ pc[a] = "ab_wait" /\ pc[reg[a].task] = "ended"
  /\ Go(a, "ab_clear")
  /\ outcome' = [outcome EXCEPT ![reg[a].task] = @ \cup {"aborted"}]
  /\ UNCHANGED <<session, turnIds, kind, input, cancelled, reg, fates, used>>

(* handle_task_abort: wait until the runner is done or 100 ms have passed,  *)
(* abort its handle, send TurnAborted.  Input not yet recorded goes with it. *)
AbortWait(a) ==
  /\ pc[a] = "ab_wait"
  /\ LET t == reg[a].task IN
       /\ pc' = [pc EXCEPT ![a] = "ab_clear",
                           ![t] = IF @ \in Stops THEN @ ELSE "killed"]
       /\ outcome' = [outcome EXCEPT ![t] = @ \cup {"aborted"}]
       /\ refused' = refused \cup input[t]
       /\ input' = [input EXCEPT ![t] = {}]
  /\ UNCHANGED <<session, turnIds, kind, cancelled, reg, sent, recorded, used>>

(* clear_pending, then start the replacement or look for pending work.      *)
AbortClear(a) ==
  /\ pc[a] = "ab_clear"
  /\ refused' = refused \cup pend[reg[a].ts]
  /\ pend' = [pend EXCEPT ![reg[a].ts] = {}]
  /\ Go(a, IF reg[a].reason = "Replaced" THEN "st_pend" ELSE "ms_check")
  /\ reg' = [reg EXCEPT ![a].task = None, ![a].ts = None]
  /\ UNCHANGED <<active, phase, mailbox, idle, turnStates, turns, sent, recorded, used>>

(* maybe_start_turn_for_pending_work: is there any?                         *)
StartIfPendingWork(a) ==
  /\ pc[a] = "ms_check"
  /\ \/ /\ idle # {} \/ mailbox \cap TriggerMails # {}
        /\ Go(a, "ms_reserve") /\ UNCHANGED reg
     \/ /\ idle = {} /\ mailbox \cap TriggerMails = {}
        /\ Return(a)
  /\ UNCHANGED <<session, turns, fates, used>>

(* ... and is the session idle?  Reserve it, then start a regular turn.     *)
ReserveTurn(a) ==
  /\ pc[a] = "ms_reserve"
  /\ \/ /\ active # None
        /\ Return(a)
        /\ UNCHANGED <<active, turnStates, turns>>
     \/ /\ active = None /\ turnStates < MaxTurnStates
        /\ active' = ActiveOrNew /\ turnStates' = turnStates + 1
        /\ NewTurn("Regular", {})
        /\ Go(a, "st_pend")
        /\ reg' = [reg EXCEPT ![a].turn = turnIds + 1]
  /\ UNCHANGED <<pend, phase, mailbox, idle, fates, used>>

(* start_task takes what was queued for the next turn and the mailbox ...   *)
StartTakePending(a) ==
  /\ pc[a] = "st_pend"
  /\ reg' = [reg EXCEPT ![a].held = idle \cup Pending]
  /\ idle' = {} /\ TakePending
  /\ Go(a, "st_ts")
  /\ UNCHANGED <<active, phase, turnStates, turns, fates, used>>

GetOrInsertActive ==
  /\ turnStates' = IF active = None THEN turnStates + 1 ELSE turnStates
  /\ turnStates' <= MaxTurnStates

(* ... finds or creates the ActiveTurn whose turn state will hold it ...    *)
StartTurnState(a) ==
  /\ pc[a] = "st_ts"
  /\ GetOrInsertActive
  /\ active' = ActiveOrNew
  /\ reg' = [reg EXCEPT ![a].ts = ActiveOrNew.ts]
  /\ Go(a, "st_extend")
  /\ UNCHANGED <<pend, phase, mailbox, idle, turns, fates, used>>

StartExtendPending(a) ==
  /\ pc[a] = "st_extend"
  /\ pend' = [pend EXCEPT ![reg[a].ts] = @ \cup reg[a].held]
  /\ reg' = [reg EXCEPT ![a].held = {}]
  /\ Go(a, "st_install")
  /\ UNCHANGED <<active, phase, mailbox, idle, turnStates, turns, fates, used>>

(* ... and spawns the runner.  Storing the RunningTask drops one that was   *)
(* there, whose AbortOnDropHandle then aborts its runner.                   *)
StartInstall(a) ==
  /\ pc[a] = "st_install"
  /\ GetOrInsertActive
  /\ LET t == reg[a].turn
         after == IF a \in Turns THEN "r_done"
                  ELSE IF reg[a].reason = "Shutdown" THEN "ended" ELSE "parked"
     IN  /\ active' = [ActiveOrNew EXCEPT !.task = t]
         /\ pc' = [b \in Actors |->
                     IF b = a THEN after
                     ELSE IF b = t THEN IF kind[t] = "Regular" THEN "r_start" ELSE "r_other"
                     ELSE IF b = ActiveTask /\ pc[b] \notin Stops THEN "killed"
                     ELSE pc[b]]
  /\ reg' = [reg EXCEPT ![a] = NoReg]
  /\ UNCHANGED <<pend, phase, mailbox, idle, turns, fates, used>>

-----------------------------------------------------------------------------
(* The runner of turn t: RegularTask::run around run_turn.                   *)

\* The turn's own input is dropped on the way to step.
DropInput(t, step) ==
  /\ input' = [input EXCEPT ![t] = {}]
  /\ Record(input[t], input[t])
  /\ Go(t, step)
  /\ UNCHANGED <<session, turnIds, kind, cancelled, outcome, reg, sent, used>>

(* RegularTask::run first awaits the startup prewarm, unless cancelled.     *)
ConsumePrewarm(t) ==
  /\ pc[t] = "r_start"
  /\ \/ Go(t, "r_input") /\ UNCHANGED <<session, turns, reg, fates, used>>
     \/ cancelled[t] /\ DropInput(t, "r_check")

(* The compaction before a turn fails, against the old model or the limit.  *)
CompactionFails(t) == pc[t] = "r_input" /\ DropInput(t, "r_again")

(* Listing the tools for skills and plugins sees the cancellation.          *)
SkillsCancelled(t) == pc[t] = "r_input" /\ cancelled[t] /\ DropInput(t, "r_again")

(* The rest of run_turn's preamble: a hook may stop the turn or block its   *)
(* input, and a turn without input starts with what is pending.             *)
BeginRunTurn(t) ==
  /\ pc[t] = "r_input"
  /\ \/ /\ input' = [input EXCEPT ![t] = {}]
        /\ Record(input[t], {})
        /\ Go(t, IF input[t] = {} THEN "r_drain" ELSE "r_sample")
        /\ UNCHANGED <<session, turnIds, kind, cancelled, outcome, reg, sent, used>>
     \/ DropInput(t, "r_again")

(* get_pending_input and run_hooks_and_record_inputs: with something        *)
(* blocked and no user input accepted, run_turn ends.                       *)
DrainPending(t) ==
  /\ pc[t] = "r_drain"
  /\ TakePending
  /\ \E blocked \in SUBSET Pending :
       /\ Record(Pending, blocked)
       /\ Go(t, IF blocked # {} /\ (Pending \ blocked) \cap UserInputs = {}
                THEN "r_again" ELSE "r_sample")
  /\ UNCHANGED <<active, phase, idle, turnStates, turns, reg, sent, used>>

\* The delivery phase of turn t's state, while t is the active task: mail is
\* deferred only when no input is pending.
SetPhase(t, p) ==
  /\ ActiveTask = t
  /\ p = "NextTurn" => pend[active.ts] = {}
  /\ phase' = [phase EXCEPT ![active.ts] = p]

(* The response's items, one by one.  A tool call reopens the mailbox (one   *)
(* that cannot be parsed is answered directly); both need a follow-up.      *)
ToolItem(t) ==
  /\ pc[t] \in Streaming
  /\ Go(t, "r_follow")
  /\ SetPhase(t, "CurrentTurn") \/ UNCHANGED phase
  /\ UNCHANGED <<active, pend, mailbox, idle, turnStates, turns, reg, fates, used>>

(* An assistant message that is not commentary, or an image: later mail     *)
(* waits for the next turn.                                                 *)
MessageItem(t) ==
  /\ pc[t] \in Streaming
  /\ SetPhase(t, "NextTurn")
  /\ UNCHANGED <<active, pend, mailbox, idle, turnStates, turns, pc, reg, fates, used>>

(* A reasoning or commentary item with mail queued ends the response early. *)
PreemptForMail(t) ==
  /\ pc[t] \in Streaming /\ ~cancelled[t]
  /\ mailbox # {}
  /\ Go(t, "r_cont")
  /\ UNCHANGED <<session, turns, reg, fates, used>>

(* response.completed, and the tools in flight are done.  The model may ask *)
(* to go on (end_turn is false) without a tool call.                        *)
StreamCompleted(t) ==
  /\ pc[t] \in Streaming /\ ~cancelled[t]
  /\ \/ Go(t, "r_cont")
     \/ pc[t] = "r_sample" /\ Go(t, "r_more")
  /\ UNCHANGED <<session, turns, reg, fates, used>>

(* The request fails or sees the cancellation; it is retried in place, or   *)
(* by run_turn's loop after a rejected image was replaced in the history.   *)
SampleError(t) ==
  /\ pc[t] \in Streaming
  /\ \E next \in {"r_sample", "r_drain", "r_again"} : Go(t, next)
  /\ UNCHANGED <<session, turns, reg, fates, used>>

(* A follow-up drains what is pending first, except after the compaction    *)
(* that the token limit calls for, which may fail.                          *)
AfterFollowUp(t) ==
  /\ pc[t] = "r_cont"
  /\ \E next \in {"r_drain", "r_sample", "r_again"} : Go(t, next)
  /\ UNCHANGED <<session, turns, reg, fates, used>>

(* After a final answer: pending input continues the turn (unless the       *)
(* compaction it needs fails), and so may a stop hook.                      *)
AfterAnswer(t) ==
  /\ pc[t] = "r_more"
  /\ \E next \in {"r_drain", "r_again"} : Go(t, next)
  /\ UNCHANGED <<session, turns, reg, fates, used>>

(* RegularTask::run calls run_turn again while something is pending.        *)
RunAgain(t) ==
  /\ pc[t] = "r_again"
  /\ Go(t, IF HasPending THEN "r_input" ELSE "r_check")
  /\ UNCHANGED <<session, turns, reg, fates, used>>

(* CompactTask::run takes no input.                                         *)
RunCompact(t) ==
  /\ pc[t] = "r_other"
  /\ Go(t, "r_check")
  /\ UNCHANGED <<session, turns, reg, fates, used>>

(* The spawned future: on_task_finished unless the turn was cancelled.      *)
CheckCancelled(t) ==
  /\ pc[t] = "r_check"
  /\ Go(t, IF cancelled[t] THEN "r_done" ELSE "f_take")
  /\ UNCHANGED <<session, turns, reg, fates, used>>

\* Mutant: the task is looked at but not taken.
FinishTakeKeepsTask(t) ==
  /\ pc[t] = "f_take"
  /\ \/ ActiveTask # None /\ reg' = [reg EXCEPT ![t].ts = active.ts] /\ Go(t, "f_pend")
     \/ ActiveTask = None /\ Go(t, "r_done") /\ UNCHANGED reg
  /\ UNCHANGED <<session, turns, fates, used>>

(* on_task_finished takes and detaches the active turn's task, whichever.   *)
FinishTake(t) ==
  /\ pc[t] = "f_take"
  /\ \/ /\ ActiveTask # None
        /\ active' = [active EXCEPT !.task = None]
        /\ reg' = [reg EXCEPT ![t].ts = active.ts]
        /\ Go(t, "f_pend")
     \/ /\ ActiveTask = None
        /\ Go(t, "r_done")
        /\ UNCHANGED <<active, reg>>
  /\ UNCHANGED <<pend, phase, mailbox, idle, turnStates, turnIds, kind, input,
                 cancelled, outcome, fates, used>>

\* Mutant: what is left in the turn state is dropped.
FinishPendingDrops(t) ==
  /\ pc[t] = "f_pend"
  /\ pend' = [pend EXCEPT ![reg[t].ts] = {}]
  /\ outcome' = [outcome EXCEPT ![t] = @ \cup {"complete"}]
  /\ Go(t, "f_clear")
  /\ UNCHANGED <<active, phase, mailbox, idle, turnStates, turnIds, kind, input,
                 cancelled, reg, fates, used>>

(* It records what is left in the turn state and sends TurnComplete ...     *)
FinishPending(t) ==
  /\ pc[t] = "f_pend"
  /\ LET left == pend[reg[t].ts] IN
       \E blocked \in SUBSET left : Record(left, blocked)
  /\ pend' = [pend EXCEPT ![reg[t].ts] = {}]
  /\ outcome' = [outcome EXCEPT ![t] = @ \cup {"complete"}]
  /\ Go(t, "f_clear")
  /\ UNCHANGED <<active, phase, mailbox, idle, turnStates, turnIds, kind, input,
                 cancelled, reg, sent, used>>

\* Mutant: the active turn is left reserved.
FinishClearKeeps(t) ==
  /\ pc[t] = "f_clear"
  /\ Go(t, "r_done")
  /\ reg' = [reg EXCEPT ![t] = NoReg]
  /\ UNCHANGED <<session, turns, fates, used>>

\* Mutant: pending work is not looked for.
FinishClearNoRestart(t) ==
  /\ pc[t] = "f_clear"
  /\ active' = IF active = [ts |-> reg[t].ts, task |-> None] THEN None ELSE active
  /\ Go(t, "r_done")
  /\ reg' = [reg EXCEPT ![t] = NoReg]
  /\ UNCHANGED <<pend, phase, mailbox, idle, turnStates, turns, fates, used>>

(* ... and clears the active turn if it is still its own.                   *)
FinishClear(t) ==
  /\ pc[t] = "f_clear"
  /\ \/ /\ active = [ts |-> reg[t].ts, task |-> None]
        /\ active' = None
        /\ Go(t, "ms_check")
     \/ /\ active # [ts |-> reg[t].ts, task |-> None]
        /\ Go(t, "r_done")
        /\ UNCHANGED active
  /\ reg' = [reg EXCEPT ![t] = NoReg]
  /\ UNCHANGED <<pend, phase, mailbox, idle, turnStates, turns, fates, used>>

NotifyDone(t) ==
  /\ pc[t] = "r_done"
  /\ Go(t, "ended")
  /\ UNCHANGED <<session, turns, reg, fates, used>>

-----------------------------------------------------------------------------
RunnerStep(t) ==
  \/ ConsumePrewarm(t) \/ CompactionFails(t) \/ SkillsCancelled(t) \/ BeginRunTurn(t)
  \/ DrainPending(t) \/ ToolItem(t) \/ MessageItem(t) \/ PreemptForMail(t)
  \/ StreamCompleted(t) \/ SampleError(t) \/ AfterFollowUp(t) \/ AfterAnswer(t)
  \/ RunAgain(t) \/ RunCompact(t)
  \/ CheckCancelled(t) \/ FinishTake(t) \/ FinishPending(t) \/ FinishClear(t)
  \/ NotifyDone(t)

StartStep(a) ==
  \/ StartIfPendingWork(a) \/ ReserveTurn(a) \/ StartTakePending(a)
  \/ StartTurnState(a) \/ StartExtendPending(a) \/ StartInstall(a)

AbortStep(a) == AbortTake(a) \/ AbortWait(a) \/ AbortClear(a)

Submit ==
  \/ \E x \in UserInputs : UserInput(x) \/ SteerFromClient(x)
  \/ \E m \in Mails : InterAgentCommunication(m)
  \/ \E x \in Approvals : ApproveDenied(x)
  \/ \E x \in Injections : Inject(x)
  \/ \E t \in Turns : GuardianDenies(t)
  \/ Compact \/ Interrupt \/ Shutdown

Next ==
  \/ Submit
  \/ QueueForNextTurn
  \/ \E a \in {Loop, Guard} : AbortStep(a)
  \/ \E a \in Actors : StartStep(a)
  \/ \E t \in Turns : RunnerStep(t)

Spec == Init /\ [][Next]_vars

(* Tasks of the runtime keep being polled and timers fire: every actor in   *)
(* the middle of an operation takes its next step.  Nobody has to submit.   *)
Progress ==
  /\ WF_vars(QueueForNextTurn)
  /\ \A a \in {Loop, Guard} : WF_vars(AbortStep(a))
  /\ \A a \in Actors : WF_vars(StartStep(a))
  /\ \A t \in Turns : WF_vars(RunnerStep(t))

(* The model keeps neither calling tools nor failing for ever, a hook does  *)
(* not block everything for ever, run_turn's preamble does not always fail. *)
Cooperation ==
  /\ \A t \in Turns : SF_vars(StreamCompleted(t))
  /\ \A t \in Turns : SF_vars(StreamCompleted(t) /\ pc'[t] = "r_more")
  /\ \A t \in Turns : SF_vars(BeginRunTurn(t) /\ pc'[t] \in {"r_drain", "r_sample"})
  /\ \A t \in Turns : SF_vars(DrainPending(t) /\ pc'[t] # "r_again")
  /\ \A t \in Turns : SF_vars(AfterAnswer(t) /\ (HasPending <=> pc'[t] = "r_drain"))

FairSpec == Init /\ [][Next]_vars /\ Progress
CooperativeSpec == FairSpec /\ Cooperation

-----------------------------------------------------------------------------
(* What the session promises.                                                *)

(* The session runs at most one task at a time.                             *)
OneRunningTask ==
  \A t, u \in Turns : pc[t] \in Running /\ pc[u] \in Running => t = u

(* start_task's debug_assert: the active turn it fills has no task.         *)
NoTaskInTheWay ==
  \A a \in Actors : pc[a] \in {"st_ts", "st_install"} => ActiveTask = None

(* A turn is reported complete or aborted, never both.                      *)
OneOutcome == \A t \in Turns : Cardinality(outcome[t]) <= 1

(* Actors that will still act on their registers.                           *)
Busy(a) == pc[a] \notin Stops

(* Where an item that a caller was told is accepted can wait.               *)
Waiting(x) ==
  \/ x \in mailbox \cup idle
  \/ active # None /\ x \in pend[active.ts]
  \/ \E a \in Actors : Busy(a) /\ x \in reg[a].held
  \/ \E a \in Actors : pc[a] \in {"ab_wait", "ab_clear", "f_pend"} /\ x \in pend[reg[a].ts]
  \/ \E t \in Turns : x \in input[t] /\ pc[t] \in {"r_start", "r_input"}
  \/ \E a \in Actors : Busy(a) /\ reg[a].turn # None /\ x \in input[reg[a].turn]

(* Nothing accepted vanishes: it waits, or is in the history, or a hook, an *)
(* abort or a failed preamble dropped it, or the caller got it back.        *)
NothingVanishes == \A x \in sent : x \in recorded \cup refused \/ Waiting(x)

(* A reserved active turn belongs to an actor that will fill or clear it.   *)
ReservationOwned ==
  active # None /\ active.task = None =>
    \E a \in Actors :
      \/ pc[a] \in {"st_pend", "st_ts", "st_extend", "st_install"}
      \/ pc[a] \in {"f_pend", "f_clear"} /\ reg[a].ts = active.ts

(* However turns replace, abort and finish one another, one task runs at a  *)
(* time and no turn stays reserved by nobody.                               *)
TurnInv == TypeOK /\ OneRunningTask /\ ReservationOwned

-----------------------------------------------------------------------------
(* The inductive invariant behind these promises.  Its first two parts hold *)
(* in every session, the others in an undisturbed one.                      *)

Starting == {"st_pend", "st_ts", "st_extend", "st_install"}
Aborting == {"ab_take", "ab_wait", "ab_clear"}
Closing  == {"f_pend", "f_clear"}
Working  == Running \cup {"f_take"}

(* Nothing queued starts a turn by itself: the loop starts every turn.      *)
NoSelfStart == TriggerMails = {} /\ Approvals = {}

(* Nothing submitted aborts or replaces a turn.                             *)
NoReplacement ==
  UserInputs = {} /\ MaxInterrupts = 0 /\ MaxCompacts = 0 /\ MaxShutdowns = 0

(* The guardian aborts no turn, and turns that start by themselves do not   *)
(* meet operations that replace them.                                       *)
Undisturbed == MaxGuardAborts = 0 /\ (NoSelfStart \/ NoReplacement)

(* Nobody injects items either.                                             *)
NoInjection == Injections = {} /\ Approvals = {}

(* What an actor's registers hold where it reads them.                      *)
RegSound(a) ==
  /\ pc[a] = "ab_wait" => reg[a].task # None
  /\ pc[a] \in Closing \cup {"ab_wait", "ab_clear", "st_extend", "st_install"} =>
       reg[a].ts # None /\ reg[a].ts <= turnStates
  /\ pc[a] \in Starting \/ (pc[a] \in Aborting /\ reg[a].reason = "Replaced") =>
       reg[a].turn # None
  /\ pc[a] = "q_idle" => reg[a].held \subseteq Approvals

RegInv ==
  /\ active # None => active.ts <= turnStates
  /\ \A a \in Actors : RegSound(a)
  /\ reg[Guard].reason # "Replaced"

(* Actors that have created a turn; the guardian's task may hold another's. *)
Creators == {a \in Actors : reg[a].turn # None /\ (a = Guard => pc[a] \in Starting)}

(* A turn is parked until one actor, the one that created it, installs it.  *)
FreshInv ==
  /\ \A t \in Turns :
       /\ t > turnIds => pc[t] = "parked" /\ input[t] = {}
       /\ pc[t] = "parked" =>
            /\ outcome[t] = {} /\ ~ cancelled[t] /\ ActiveTask # t
            /\ \A a \in Actors : pc[a] = "ab_wait" => reg[a].task # t
       /\ kind[t] = "Compact" => input[t] = {}
  /\ \A a \in Creators :
       /\ reg[a].turn <= turnIds /\ pc[reg[a].turn] = "parked"
       /\ \A b \in Creators : reg[b].turn = reg[a].turn => b = a

(* Where the actors of an undisturbed session can be.                       *)
PlaceInv ==
  /\ pc[Guard] = "parked"
  /\ pc[Loop] \notin Working \cup Closing \cup {"r_done", "killed"}
  /\ \A t \in Turns : pc[t] \notin Aborting \cup {"q_idle"}
  /\ NoReplacement => pc[Loop] \notin Aborting
  /\ NoSelfStart =>
       /\ idle = {} /\ pc[Loop] \notin {"ms_reserve", "q_idle"}
       /\ \A t \in Turns : pc[t] \notin Starting \cup {"ms_reserve"}
  /\ \A a \in Actors : reg[a].turn # None =>
       pc[a] \in Starting \/ (pc[a] \in Aborting /\ reg[a].reason = "Replaced")

(* A runner at work is the active task or the one the loop is aborting, and *)
(* nothing has been reported of it.                                         *)
OwnerInv ==
  /\ \A t \in Turns :
       /\ pc[t] \in Working => ActiveTask = t \/ (pc[Loop] = "ab_wait" /\ reg[Loop].task = t)
       /\ ActiveTask = t => pc[t] \in Working /\ ~ cancelled[t] /\ outcome[t] = {}
       /\ pc[t] = "f_pend" => outcome[t] = {}
       /\ outcome[t] \in {{}, {"complete"}, {"aborted"}}
  /\ pc[Loop] = "ab_wait" =>
       /\ pc[reg[Loop].task] \in Working \cup {"r_done", "ended"}
       /\ outcome[reg[Loop].task] = {}

(* One actor starts a turn at a time, with no task in its way; the turn     *)
(* state it fills stays the active one, and no finishing runner closes it.  *)
StartInv ==
  /\ \A a \in Actors : pc[a] \in Starting =>
       /\ ActiveTask = None
       /\ \A b \in Actors : pc[b] \in Starting => b = a
       /\ NoReplacement => active # None
       /\ pc[a] \in {"st_pend", "st_ts"} /\ NoSelfStart => active = None
       /\ pc[a] \in {"st_extend", "st_install"} => active = [ts |-> reg[a].ts, task |-> None]
  /\ pc[Loop] \in {"ab_wait", "ab_clear"} => active = None
  /\ \A t \in Turns : pc[t] \in Closing /\ active # None /\ active.ts = reg[t].ts =>
       active.task = None /\ \A a \in Actors : pc[a] \notin Starting

(* Items leave the mailbox for the turn that starts, and a finished turn    *)
(* state holds none.                                                        *)
ItemInv ==
  /\ idle = {}
  /\ \A a \in Actors : pc[a] \notin {"st_ts", "st_extend"} => reg[a].held = {}
  /\ \A t \in Turns : pc[t] = "f_clear" => pend[reg[t].ts] = {}

(* Without turns that start by themselves, whoever aborts: once the loop has *)
(* taken the active turn, no task is installed but its own.                 *)
WayInv ==
  /\ idle = {} /\ pc[Loop] \notin {"ms_reserve", "q_idle"}
  /\ \A a \in Actors \ {Loop} : pc[a] \notin Starting \cup {"ms_reserve"}
  /\ pc[Loop] \in Starting \cup {"ab_wait", "ab_clear"} => ActiveTask = None

BaseInv == TypeOK /\ RegInv /\ FreshInv
IInv == BaseInv /\ PlaceInv /\ OwnerInv /\ StartInv /\ ReservationOwned
CustodyInv == IInv /\ ItemInv /\ NothingVanishes

-----------------------------------------------------------------------------
(* What happens in the end.                                                 *)

(* Aborting returns, however the task behaves: the wait has a deadline.     *)
LoopReturns == pc[Loop] # "parked" ~> pc[Loop] \in {"parked", "ended"}

(* Every turn that was started is reported complete or aborted in the end.  *)
TurnsEnd == \A t \in Turns : pc[t] \in {"r_start", "r_other"} ~> outcome[t] # {}

(* Trigger mail does not wait for ever for a turn that takes it.            *)
MailStartsTurn == \A m \in TriggerMails : m \in mailbox ~> m \notin mailbox
=============================================================================
