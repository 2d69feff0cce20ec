------------------------- MODULE SessionTurnsProofs -------------------------
(***************************************************************************)
(* Proofs about SessionTurns, for any inputs, mails, turns and operations: *)
(* types and registers in every session; one running task, one terminal    *)
(* event, no task in the way and no lost item in an undisturbed one.       *)
(***************************************************************************)
EXTENDS SessionTurns, FiniteSetTheorems, TLAPS

-----------------------------------------------------------------------------
(* Names, and what the small helpers of the model do.                        *)

\* The loop, the guardian and the turns are different actors, None is no turn.
LEMMA Names ==
  /\ Loop \in Actors /\ Guard \in Actors /\ Turns \subseteq Actors
  /\ Loop \notin Turns /\ Guard \notin Turns /\ Loop # Guard
  /\ None \notin Actors /\ None \notin Turns /\ None \notin TurnStates
  /\ \A a \in Actors : a = Loop \/ a = Guard \/ a \in Turns
  /\ Turns \subseteq Nat /\ TurnStates \subseteq Nat
  /\ TriggerMails \subseteq Mails
  /\ Mails \subseteq Items /\ UserInputs \subseteq Items
  /\ Injections \subseteq Items /\ Approvals \subseteq Items
BY TurnBounds DEF Actors, Turns, TurnStates, Items

\* A new turn or turn state within the bounds is one of them, and is new.
LEMMA NextNames ==
  ASSUME turnIds \in 0 .. MaxTurns, turnStates \in 0 .. MaxTurnStates
  PROVE  /\ turnIds \in Nat /\ turnStates \in Nat
         /\ turnIds < MaxTurns => turnIds + 1 \in Turns /\ turnIds + 1 \in 0 .. MaxTurns
         /\ turnStates + 1 <= MaxTurnStates =>
              turnStates + 1 \in TurnStates /\ turnStates + 1 \in 0 .. MaxTurnStates
BY TurnBounds DEF Turns, TurnStates

\* The active turn is None or a record, and these do not mix.
LEMMA ActiveCases ==
  ASSUME active \in {None} \cup [ts : TurnStates, task : Turns \cup {None}]
  PROVE  /\ active = None => ActiveTask = None
         /\ active # None => /\ active.ts \in TurnStates /\ active.task \in Turns \cup {None}
                             /\ ActiveTask = active.task
                             /\ active = [ts |-> active.ts, task |-> active.task]
         /\ ActiveTask \in Turns \cup {None}
         /\ ActiveTask # None => active # None /\ ActiveTask \in Turns
BY DEF ActiveTask

\* A record is not None, whatever turn state and task it has.
LEMMA RecordIsActive ==
  ASSUME NEW s \in TurnStates, NEW t \in Turns \cup {None}
  PROVE  [ts |-> s, task |-> t] # None
BY TurnBounds

\* Go moves one actor.
LEMMA GoMoves ==
  ASSUME TypeOK, NEW a \in Actors, NEW step \in Steps, Go(a, step)
  PROVE  /\ pc' \in [Actors -> Steps] /\ pc'[a] = step
         /\ \A b \in Actors : b # a => pc'[b] = pc[b]
BY DEF TypeOK, Go

\* NoReg is a register file.
LEMMA NoRegType ==
  /\ NoReg \in Regs
  /\ NoReg.task = None /\ NoReg.ts = None /\ NoReg.reason = "none" /\ NoReg.turn = None
  /\ NoReg.held = {}
BY DEF NoReg, Regs

\* Return moves one actor and empties its registers.
LEMMA ReturnMoves ==
  ASSUME TypeOK, NEW a \in Actors, Return(a)
  PROVE  /\ pc' \in [Actors -> Steps] /\ reg' \in [Actors -> Regs]
         /\ pc'[a] \in {"r_done", "ended", "parked"} /\ reg'[a] = NoReg
         /\ a \in Turns => pc'[a] = "r_done"
         /\ a \notin Turns => pc'[a] \in {"ended", "parked"}
         /\ a \notin Turns /\ reg[a].reason # "Shutdown" => pc'[a] = "parked"
         /\ \A b \in Actors : b # a => pc'[b] = pc[b] /\ reg'[b] = reg[b]
BY NoRegType DEF TypeOK, Return, Go, Steps, Stops

\* What get_pending_input can return and what it leaves.
LEMMA PendingTypes ==
  ASSUME TypeOK
  PROVE  /\ Pending \in SUBSET Items
         /\ TakePending => /\ pend' \in [TurnStates -> SUBSET Items] /\ mailbox' \subseteq mailbox
                           /\ \A s \in TurnStates : pend'[s] \subseteq pend[s] /\ pend[s] \subseteq pend'[s] \cup Pending
                           /\ mailbox \subseteq mailbox' \cup Pending
<1>1. Pending \in SUBSET Items
  BY ActiveCases, Names DEF TypeOK, Pending
<1>2. ASSUME TakePending, active = None
      PROVE  pend' = pend /\ mailbox' = mailbox \ Pending
  BY <1>2 DEF TakePending
<1>3. ASSUME TakePending, active # None
      PROVE  /\ pend' = [pend EXCEPT ![active.ts] = {}] /\ mailbox' = mailbox \ Pending
             /\ active.ts \in TurnStates /\ pend[active.ts] \subseteq Pending
  BY <1>3, ActiveCases DEF TakePending, Pending, TypeOK
<1> QED
  BY <1>1, <1>2, <1>3 DEF TypeOK

-----------------------------------------------------------------------------
(* What a runner does inside its turn, in one formula.                       *)

\* The steps of RegularTask::run, run_turn and CompactTask::run.
InTurn(t) ==
  \/ ConsumePrewarm(t) \/ CompactionFails(t) \/ SkillsCancelled(t) \/ BeginRunTurn(t)
  \/ DrainPending(t) \/ ToolItem(t) \/ MessageItem(t) \/ PreemptForMail(t)
  \/ StreamCompleted(t) \/ SampleError(t) \/ AfterFollowUp(t) \/ AfterAnswer(t)
  \/ RunAgain(t) \/ RunCompact(t)

\* Items only leave pending input, the mailbox and the turn's own input, for
\* the history or for those dropped; the turn keeps running.
Digests(t) ==
  /\ pc[t] \in Running /\ pc'[t] \in Running /\ pc' \in [Actors -> Steps]
  /\ \A a \in Actors : a # t => pc'[a] = pc[a]
  /\ UNCHANGED <<active, idle, turnStates, turnIds, kind, cancelled, outcome, reg, sent, used>>
  /\ phase' \in [TurnStates -> {"CurrentTurn", "NextTurn"}]
  /\ pend' \in [TurnStates -> SUBSET Items] /\ \A s \in TurnStates : pend'[s] \subseteq pend[s]
  /\ input' \in [Turns -> SUBSET Items] /\ \A u \in Turns : input'[u] \subseteq input[u]
  /\ mailbox' \subseteq mailbox
  /\ recorded' \subseteq Items /\ refused' \subseteq Items
  /\ recorded \cup refused \subseteq recorded' \cup refused'
  /\ \A s \in TurnStates : pend[s] \subseteq pend'[s] \cup recorded' \cup refused'
  /\ \A u \in Turns : input[u] \subseteq input'[u] \cup recorded' \cup refused'
  /\ mailbox \subseteq mailbox' \cup recorded' \cup refused'
  /\ pc[t] \in {"r_start", "r_input"} => pc'[t] \in {"r_start", "r_input"} \/ input'[t] = {}

\* A step that only moves the runner.
LEMMA MoveDigests ==
  ASSUME TypeOK, NEW t \in Turns, pc[t] \in Running,
         NEW next \in Running, Go(t, next), pc[t] # "r_start", pc[t] # "r_input",
         UNCHANGED <<session, turns, reg, fates, used>>
  PROVE  Digests(t)
<1>1. next \in Steps /\ t \in Actors
  BY Names DEF Steps
<1>2. pc' \in [Actors -> Steps] /\ pc'[t] = next /\ \A b \in Actors : b # t => pc'[b] = pc[b]
  BY <1>1, GoMoves
<1> QED
  BY <1>2 DEF Digests, TypeOK, session, turns, fates

\* Dropping the turn's input.
LEMMA DropDigests ==
  ASSUME TypeOK, NEW t \in Turns, pc[t] \in Running, NEW next \in Running, DropInput(t, next)
  PROVE  Digests(t)
<1>1. next \in Steps /\ t \in Actors
  BY Names DEF Steps
<1>2. pc' \in [Actors -> Steps] /\ pc'[t] = next /\ \A b \in Actors : b # t => pc'[b] = pc[b]
  BY <1>1, GoMoves DEF DropInput
<1>3. /\ input' = [input EXCEPT ![t] = {}] /\ recorded' = recorded /\ refused' = refused \cup input[t]
      /\ UNCHANGED <<session, turnIds, kind, cancelled, outcome, reg, sent, used>>
  BY DEF DropInput, Record
<1>4. input' \in [Turns -> SUBSET Items] /\ input'[t] = {} /\ input[t] \subseteq Items
  BY <1>3 DEF TypeOK
<1>5. \A u \in Turns : u # t => input'[u] = input[u]
  BY <1>3 DEF TypeOK
<1>6. \A u \in Turns : input'[u] \subseteq input[u] /\ input[u] \subseteq input'[u] \cup recorded' \cup refused'
  BY <1>3, <1>4, <1>5
<1> QED
  BY <1>2, <1>3, <1>4, <1>6 DEF Digests, TypeOK, session

\* Every step inside a turn digests.
LEMMA InTurnDigests ==
  ASSUME TypeOK, NEW t \in Turns, InTurn(t)
  PROVE  Digests(t)
<1> USE DEF Running, Streaming
<1>0. t \in Actors /\ pc[t] \in Steps /\ Running \subseteq Steps
  BY Names DEF TypeOK, Steps
<1>1. CASE ConsumePrewarm(t)
  <2>1. CASE cancelled[t] /\ DropInput(t, "r_check")
    BY <2>1, <1>1, DropDigests DEF ConsumePrewarm
  <2>2. CASE Go(t, "r_input") /\ UNCHANGED <<session, turns, reg, fates, used>>
    <3>1. pc' \in [Actors -> Steps] /\ pc'[t] = "r_input" /\ \A b \in Actors : b # t => pc'[b] = pc[b]
      BY <1>0, <2>2, GoMoves
    <3> QED
      BY <1>1, <2>2, <3>1 DEF ConsumePrewarm, Digests, TypeOK, session, turns, fates
  <2> QED
    BY <1>1, <2>1, <2>2 DEF ConsumePrewarm
<1>2. CASE CompactionFails(t) \/ SkillsCancelled(t)
  BY <1>2, DropDigests DEF CompactionFails, SkillsCancelled
<1>3. CASE BeginRunTurn(t)
  <2>1. CASE DropInput(t, "r_again")
    BY <1>3, <2>1, DropDigests DEF BeginRunTurn
  <2>2. CASE /\ input' = [input EXCEPT ![t] = {}]
             /\ Record(input[t], {})
             /\ Go(t, IF input[t] = {} THEN "r_drain" ELSE "r_sample")
             /\ UNCHANGED <<session, turnIds, kind, cancelled, outcome, reg, sent, used>>
    <3>1. PICK next \in {"r_drain", "r_sample"} : Go(t, next)
      BY <2>2
    <3>2. pc' \in [Actors -> Steps] /\ pc'[t] = next /\ \A b \in Actors : b # t => pc'[b] = pc[b]
      BY <1>0, <3>1, GoMoves
    <3>3. recorded' = recorded \cup input[t] /\ refused' = refused
      BY <2>2 DEF Record
    <3>4. input' \in [Turns -> SUBSET Items] /\ input'[t] = {} /\ input[t] \subseteq Items
      BY <2>2 DEF TypeOK
    <3>5. \A u \in Turns : u # t => input'[u] = input[u]
      BY <2>2 DEF TypeOK
    <3>6. \A u \in Turns : input'[u] \subseteq input[u] /\ input[u] \subseteq input'[u] \cup recorded' \cup refused'
      BY <3>3, <3>4, <3>5
    <3> QED
      BY <1>3, <2>2, <3>2, <3>3, <3>4, <3>6 DEF BeginRunTurn, Digests, TypeOK, session
  <2> QED
    BY <1>3, <2>1, <2>2 DEF BeginRunTurn
<1>4. CASE DrainPending(t)
  <2>1. PICK blocked \in SUBSET Pending :
          /\ Record(Pending, blocked)
          /\ Go(t, IF blocked # {} /\ (Pending \ blocked) \cap UserInputs = {}
                   THEN "r_again" ELSE "r_sample")
    BY <1>4 DEF DrainPending
  <2>2. PICK next \in {"r_again", "r_sample"} : Go(t, next)
    BY <2>1
  <2>3. pc' \in [Actors -> Steps] /\ pc'[t] = next /\ \A b \in Actors : b # t => pc'[b] = pc[b]
    BY <1>0, <2>2, GoMoves
  <2>4. recorded' = recorded \cup (Pending \ blocked) /\ refused' = refused \cup blocked
    BY <2>1 DEF Record
  <2>5. TakePending /\ UNCHANGED <<active, phase, idle, turnStates, turns, reg, sent, used>>
    BY <1>4 DEF DrainPending
  <2>6. /\ pend' \in [TurnStates -> SUBSET Items] /\ mailbox' \subseteq mailbox
        /\ \A s \in TurnStates : pend'[s] \subseteq pend[s] /\ pend[s] \subseteq pend'[s] \cup Pending
        /\ mailbox \subseteq mailbox' \cup Pending /\ Pending \subseteq Items
    BY <2>5, PendingTypes
  <2>7. Pending \subseteq recorded' \cup refused'
    BY <2>1, <2>4
  <2>8. recorded' \subseteq Items /\ refused' \subseteq Items
    BY <2>1, <2>4, <2>6 DEF TypeOK
  <2>9. \A u \in Turns : input' = input /\ input[u] \subseteq input'[u]
    BY <2>5 DEF turns
  <2> QED
    BY <1>4, <2>3, <2>4, <2>5, <2>6, <2>7, <2>8, <2>9 DEF DrainPending, Digests, TypeOK, turns
<1>5. CASE ToolItem(t)
  <2>1. pc' \in [Actors -> Steps] /\ pc'[t] = "r_follow" /\ \A b \in Actors : b # t => pc'[b] = pc[b]
    BY <1>0, <1>5, GoMoves DEF ToolItem
  <2>2. phase' \in [TurnStates -> {"CurrentTurn", "NextTurn"}]
    BY <1>5, ActiveCases DEF ToolItem, SetPhase, TypeOK
  <2> QED
    BY <1>5, <2>1, <2>2 DEF ToolItem, Digests, TypeOK, turns, fates
<1>6. CASE MessageItem(t)
  <2>1. phase' \in [TurnStates -> {"CurrentTurn", "NextTurn"}]
    BY <1>6, ActiveCases DEF MessageItem, SetPhase, TypeOK
  <2> QED
    BY <1>0, <1>6, <2>1 DEF MessageItem, Digests, TypeOK, turns, fates
<1>7. CASE PreemptForMail(t)
  BY <1>7, MoveDigests DEF PreemptForMail
<1>8. CASE StreamCompleted(t)
  BY <1>8, MoveDigests DEF StreamCompleted
<1>9. CASE SampleError(t)
  BY <1>9, MoveDigests DEF SampleError
<1>10. CASE AfterFollowUp(t)
  BY <1>10, MoveDigests DEF AfterFollowUp
<1>11. CASE AfterAnswer(t)
  BY <1>11, MoveDigests DEF AfterAnswer
<1>12. CASE RunAgain(t)
  <2>1. PICK next \in {"r_input", "r_check"} : Go(t, next)
    BY <1>12 DEF RunAgain
  <2> QED
    BY <1>12, <2>1, MoveDigests DEF RunAgain
<1>13. CASE RunCompact(t)
  BY <1>13, MoveDigests DEF RunCompact
<1> QED
  BY <1>1, <1>2, <1>3, <1>4, <1>5, <1>6, <1>7, <1>8, <1>9, <1>10, <1>11, <1>12, <1>13 DEF InTurn

-----------------------------------------------------------------------------
(* What the other steps do to the actor that takes them.                     *)

\* Only actor a moves or changes its registers.
Elsewhere(a) ==
  /\ pc' \in [Actors -> Steps] /\ reg' \in [Actors -> Regs]
  /\ \A b \in Actors : b # a => pc'[b] = pc[b] /\ reg'[b] = reg[b]

\* Moving an actor that keeps its registers.
LEMMA GoKeepsRegs ==
  ASSUME TypeOK, NEW a \in Actors, NEW step \in Steps, Go(a, step), UNCHANGED reg
  PROVE  Elsewhere(a) /\ pc'[a] = step /\ reg'[a] = reg[a]
BY GoMoves DEF TypeOK, Elsewhere

\* Moving an actor whose registers change.
LEMMA GoSetsRegs ==
  ASSUME TypeOK, NEW a \in Actors, NEW step \in Steps, Go(a, step),
         NEW r \in Regs, reg' = [reg EXCEPT ![a] = r]
  PROVE  Elsewhere(a) /\ pc'[a] = step /\ reg'[a] = r
BY GoMoves DEF TypeOK, Elsewhere

\* A submission that is accepted, refused or queued on the spot.
Accepts ==
  /\ UNCHANGED <<active, idle, turnStates, turnIds, kind, input, cancelled, outcome, pc, reg,
                 recorded, used>>
  /\ phase' \in [TurnStates -> {"CurrentTurn", "NextTurn"}]
  /\ pend' \in [TurnStates -> SUBSET Items] /\ \A s \in TurnStates : pend[s] \subseteq pend'[s]
  /\ mailbox' \subseteq Mails /\ mailbox \subseteq mailbox'
  /\ sent' \subseteq Items /\ refused' \subseteq Items /\ refused \subseteq refused'
  /\ \A s \in TurnStates : pend'[s] # pend[s] =>
       active # None /\ active.ts = s /\ (NoInjection => active.task # None)
  /\ \A x \in sent' \ sent :
       x \in refused' \cup mailbox' \/ (active # None /\ x \in pend'[active.ts])

\* A steered or injected item goes to the active turn's state.
LEMMA ItemJoins ==
  ASSUME TypeOK, NEW x \in Items, active # None,
         pend' = [pend EXCEPT ![active.ts] = @ \cup {x}]
  PROVE  /\ pend' \in [TurnStates -> SUBSET Items] /\ \A s \in TurnStates : pend[s] \subseteq pend'[s]
         /\ \A s \in TurnStates : pend'[s] # pend[s] => active.ts = s
         /\ x \in pend'[active.ts]
<1>1. active.ts \in TurnStates /\ pend \in [TurnStates -> SUBSET Items]
  BY ActiveCases DEF TypeOK
<1> QED
  BY <1>1

\* Steering keeps the mailbox open.
LEMMA SteerJoins ==
  ASSUME TypeOK, NEW x \in UserInputs, Steerable, Steer(x),
         UNCHANGED <<active, mailbox, idle, turnStates, turns, pc, reg, recorded, refused, used>>,
         sent' = sent \cup {x}
  PROVE  Accepts
<1>1. active # None /\ active.task # None /\ x \in Items /\ active.ts \in TurnStates
  BY ActiveCases, Names DEF Steerable, TypeOK
<1>2. /\ pend' \in [TurnStates -> SUBSET Items] /\ \A s \in TurnStates : pend[s] \subseteq pend'[s]
      /\ \A s \in TurnStates : pend'[s] # pend[s] => active.ts = s
      /\ x \in pend'[active.ts]
  BY <1>1, ItemJoins DEF Steer
<1>3. phase' \in [TurnStates -> {"CurrentTurn", "NextTurn"}]
  BY <1>1 DEF Steer, TypeOK
<1> QED
  BY <1>1, <1>2, <1>3 DEF Accepts, TypeOK, turns

\* A refused item changes nothing else.
LEMMA RefusalAccepts ==
  ASSUME TypeOK, NEW x \in Items, sent' = sent \cup {x}, refused' = refused \cup {x},
         UNCHANGED <<active, pend, phase, mailbox, idle, turnStates, turns, pc, reg, recorded, used>>
  PROVE  Accepts
BY DEF Accepts, TypeOK, turns

\* An injected item may reach a turn whose task is gone.
LEMMA InjectionAccepts ==
  ASSUME TypeOK, NEW x \in Injections \cup Approvals, active # None, AcceptInjection(x),
         sent' = sent \cup {x},
         UNCHANGED <<active, phase, mailbox, idle, turnStates, turns, pc, reg, recorded, refused, used>>
  PROVE  Accepts
<1>1. x \in Items /\ ~ NoInjection
  BY Names DEF NoInjection
<1>2. /\ pend' \in [TurnStates -> SUBSET Items] /\ \A s \in TurnStates : pend[s] \subseteq pend'[s]
      /\ \A s \in TurnStates : pend'[s] # pend[s] => active.ts = s
      /\ x \in pend'[active.ts]
  BY <1>1, ItemJoins DEF AcceptInjection
<1> QED
  BY <1>1, <1>2 DEF Accepts, TypeOK, turns

\* The loop creates a turn and goes to abort what is in its way.
Creates ==
  /\ pc[Loop] = "parked" /\ pc'[Loop] = "ab_take" /\ Elsewhere(Loop)
  /\ turnIds + 1 \in Turns /\ turnIds' = turnIds + 1 /\ turnIds' \in 0 .. MaxTurns
  /\ reg'[Loop].reason = "Replaced" /\ reg'[Loop].turn = turnIds + 1
  /\ reg'[Loop].held = reg[Loop].held
  /\ kind' \in [Turns -> {"Regular", "Compact"}] /\ input' \in [Turns -> SUBSET Items]
  /\ \A t \in Turns : t # turnIds + 1 => kind'[t] = kind[t] /\ input'[t] = input[t]
  /\ kind'[turnIds + 1] = "Compact" => input'[turnIds + 1] = {}
  /\ sent' = sent \cup input'[turnIds + 1] /\ ~ NoReplacement
  /\ used' \in [Ops -> Nat]
  /\ used'["Interrupt"] <= MaxInterrupts /\ used'["Compact"] <= MaxCompacts
  /\ used'["Guard"] <= MaxGuardAborts /\ used'["Shutdown"] <= MaxShutdowns
  /\ UNCHANGED <<active, pend, phase, mailbox, idle, turnStates, cancelled, outcome, recorded, refused>>

\* What a new turn context changes.
LEMMA TurnCreated ==
  ASSUME TypeOK, NEW k \in {"Regular", "Compact"}, NEW items \in SUBSET Items, NewTurn(k, items)
  PROVE  /\ turnIds + 1 \in Turns /\ turnIds' = turnIds + 1 /\ turnIds' \in 0 .. MaxTurns
         /\ kind' \in [Turns -> {"Regular", "Compact"}] /\ input' \in [Turns -> SUBSET Items]
         /\ \A t \in Turns : t # turnIds + 1 => kind'[t] = kind[t] /\ input'[t] = input[t]
         /\ kind'[turnIds + 1] = k /\ input'[turnIds + 1] = items
         /\ UNCHANGED <<cancelled, outcome>>
<1>1. turnIds + 1 \in Turns /\ turnIds + 1 \in 0 .. MaxTurns
  BY NextNames DEF NewTurn, TypeOK
<1> QED
  BY <1>1 DEF NewTurn, TypeOK

\* The loop's registers when it replaces what runs.
LEMMA LoopReplaces ==
  ASSUME TypeOK, turnIds + 1 \in Turns, Go(Loop, "ab_take"),
         reg' = [reg EXCEPT ![Loop].reason = "Replaced", ![Loop].turn = turnIds + 1]
  PROVE  /\ Elsewhere(Loop) /\ pc'[Loop] = "ab_take"
         /\ reg'[Loop].reason = "Replaced" /\ reg'[Loop].turn = turnIds + 1
         /\ reg'[Loop].held = reg[Loop].held
<1> DEFINE r == [reg[Loop] EXCEPT !.reason = "Replaced", !.turn = turnIds + 1]
<1>1. reg[Loop] \in Regs /\ "ab_take" \in Steps
  BY Names DEF TypeOK, Steps
<1>2. r \in Regs /\ r.reason = "Replaced" /\ r.turn = turnIds + 1 /\ r.held = reg[Loop].held
  BY <1>1 DEF Regs
<1>3. reg' = [reg EXCEPT ![Loop] = r]
  OBVIOUS
<1> HIDE DEF r
<1> QED
  BY <1>1, <1>2, <1>3, GoSetsRegs, Names

\* An interrupt or a shutdown sends the loop to abort what runs.
Interrupts ==
  /\ pc[Loop] = "parked" /\ pc'[Loop] = "ab_take" /\ Elsewhere(Loop) /\ ~ NoReplacement
  /\ reg'[Loop].reason \in {"Interrupted", "Shutdown"}
  /\ reg'[Loop].turn = reg[Loop].turn /\ reg'[Loop].held = reg[Loop].held
  /\ used' \in [Ops -> Nat]
  /\ used'["Interrupt"] <= MaxInterrupts /\ used'["Compact"] <= MaxCompacts
  /\ used'["Guard"] <= MaxGuardAborts /\ used'["Shutdown"] <= MaxShutdowns
  /\ UNCHANGED <<session, turns, fates>>

\* The guardian's task sets out to abort a turn.
Denies ==
  /\ pc[Guard] = "parked" /\ pc'[Guard] = "ab_take" /\ Elsewhere(Guard) /\ MaxGuardAborts # 0
  /\ reg'[Guard].reason = "Interrupted"
  /\ used' \in [Ops -> Nat]
  /\ used'["Interrupt"] <= MaxInterrupts /\ used'["Compact"] <= MaxCompacts
  /\ used'["Guard"] <= MaxGuardAborts /\ used'["Shutdown"] <= MaxShutdowns
  /\ UNCHANGED <<session, turns, fates>>

\* Mail or an approval that the loop goes on to handle.
Wakes ==
  /\ pc[Loop] = "parked" /\ pc'[Loop] \in {"ms_check", "q_idle"} /\ Elsewhere(Loop) /\ ~ NoSelfStart
  /\ reg'[Loop].turn = reg[Loop].turn /\ reg'[Loop].reason = reg[Loop].reason
  /\ pc'[Loop] = "q_idle" => reg'[Loop].held \subseteq Approvals
  /\ NoInjection => pc'[Loop] = "ms_check" /\ reg'[Loop].held = reg[Loop].held
  /\ mailbox' \subseteq Mails /\ mailbox \subseteq mailbox' /\ sent' \subseteq Items
  /\ NoInjection => sent' \subseteq sent \cup mailbox'
  /\ UNCHANGED <<active, pend, phase, idle, turnStates, turns, recorded, refused, used>>

\* Counting a submission keeps the bounds.
LEMMA UseCounted ==
  ASSUME TypeOK, NEW o \in Ops, used' = [used EXCEPT ![o] = @ + 1],
         \/ o = "Interrupt" /\ used[o] < MaxInterrupts
         \/ o = "Compact" /\ used[o] < MaxCompacts
         \/ o = "Guard" /\ used[o] < MaxGuardAborts
         \/ o = "Shutdown" /\ used[o] < MaxShutdowns
  PROVE  /\ used' \in [Ops -> Nat]
         /\ used'["Interrupt"] <= MaxInterrupts /\ used'["Compact"] <= MaxCompacts
         /\ used'["Guard"] <= MaxGuardAborts /\ used'["Shutdown"] <= MaxShutdowns
BY TurnBounds DEF TypeOK, Ops

\* The loop's registers when it only aborts.
LEMMA LoopAborts ==
  ASSUME TypeOK, NEW a \in Actors, NEW why \in {"Interrupted", "Shutdown"}, Go(a, "ab_take"),
         reg' = [reg EXCEPT ![a].reason = why]
  PROVE  /\ Elsewhere(a) /\ pc'[a] = "ab_take" /\ reg'[a].reason = why
         /\ reg'[a].turn = reg[a].turn /\ reg'[a].held = reg[a].held
<1> DEFINE r == [reg[a] EXCEPT !.reason = why]
<1>1. reg[a] \in Regs /\ "ab_take" \in Steps
  BY DEF TypeOK, Steps
<1>2. r \in Regs /\ r.reason = why /\ r.turn = reg[a].turn /\ r.held = reg[a].held
  BY <1>1 DEF Regs
<1>3. reg' = [reg EXCEPT ![a] = r]
  OBVIOUS
<1> HIDE DEF r
<1>4. Elsewhere(a) /\ pc'[a] = "ab_take" /\ reg'[a] = r
  BY <1>1, <1>2, <1>3, GoSetsRegs
<1> QED
  BY <1>2, <1>4

\* Every submission is one of these.
LEMMA SubmitCases ==
  ASSUME TypeOK, Submit
  PROVE  Accepts \/ Creates \/ Interrupts \/ Denies \/ Wakes
<1>0. used \in [Ops -> Nat] /\ "ab_take" \in Steps /\ reg \in [Actors -> Regs]
  BY DEF TypeOK, Steps
<1>1. ASSUME NEW x \in UserInputs, UserInput(x)
      PROVE  Accepts \/ Creates
  <2>0. x \in Items /\ UNCHANGED <<active, mailbox, idle, turnStates, recorded, used>> /\ sent' = sent \cup {x}
    BY <1>1, Names DEF UserInput
  <2>1. CASE Steerable /\ Steer(x) /\ UNCHANGED <<turns, pc, reg, refused>>
    BY <2>0, <2>1, SteerJoins
  <2>2. CASE refused' = refused \cup {x} /\ UNCHANGED <<turns, pc, reg, pend, phase>>
    BY <2>0, <2>2, RefusalAccepts
  <2>3. CASE /\ ActiveTask = None
             /\ NewTurn("Regular", {x})
             /\ Go(Loop, "ab_take")
             /\ reg' = [reg EXCEPT ![Loop].reason = "Replaced", ![Loop].turn = turnIds + 1]
             /\ UNCHANGED <<pend, phase, refused>>
    <3>1. /\ turnIds + 1 \in Turns /\ turnIds' = turnIds + 1 /\ turnIds' \in 0 .. MaxTurns
          /\ kind' \in [Turns -> {"Regular", "Compact"}] /\ input' \in [Turns -> SUBSET Items]
          /\ \A t \in Turns : t # turnIds + 1 => kind'[t] = kind[t] /\ input'[t] = input[t]
          /\ kind'[turnIds + 1] = "Regular" /\ input'[turnIds + 1] = {x}
          /\ UNCHANGED <<cancelled, outcome>>
      BY <2>0, <2>3, TurnCreated
    <3>2. /\ Elsewhere(Loop) /\ pc'[Loop] = "ab_take"
          /\ reg'[Loop].reason = "Replaced" /\ reg'[Loop].turn = turnIds + 1
          /\ reg'[Loop].held = reg[Loop].held
      BY <2>3, <3>1, LoopReplaces
    <3>3. ~ NoReplacement /\ pc[Loop] = "parked"
      BY <1>1 DEF NoReplacement, UserInput
    <3> QED
      BY <2>0, <2>3, <3>1, <3>2, <3>3 DEF Creates, TypeOK
  <2> QED
    BY <1>1, <2>1, <2>2, <2>3 DEF UserInput
<1>2. ASSUME NEW x \in UserInputs, SteerFromClient(x)
      PROVE  Accepts
  <2>0. /\ x \in Items /\ sent' = sent \cup {x}
        /\ UNCHANGED <<active, mailbox, idle, turnStates, turns, pc, reg, recorded, used>>
    BY <1>2, Names DEF SteerFromClient
  <2>1. CASE Steerable
    BY <1>2, <2>0, <2>1, SteerJoins DEF SteerFromClient
  <2>2. CASE ~ Steerable
    BY <1>2, <2>0, <2>2, RefusalAccepts DEF SteerFromClient
  <2> QED
    BY <2>1, <2>2
<1>3. ASSUME NEW m \in Mails, InterAgentCommunication(m)
      PROVE  Accepts \/ Wakes
  <2>0. /\ m \in Items /\ sent' = sent \cup {m} /\ mailbox' = mailbox \cup {m} /\ pc[Loop] = "parked"
        /\ UNCHANGED <<active, pend, phase, idle, turnStates, turns, reg, recorded, refused, used>>
    BY <1>3, Names DEF InterAgentCommunication
  <2>1. CASE m \in TriggerMails
    <3>1. Go(Loop, "ms_check") /\ "ms_check" \in Steps /\ ~ NoSelfStart
      BY <1>3, <2>1 DEF InterAgentCommunication, Steps, NoSelfStart
    <3>2. Elsewhere(Loop) /\ pc'[Loop] = "ms_check" /\ reg'[Loop] = reg[Loop]
      BY <2>0, <3>1, GoKeepsRegs, Names
    <3> QED
      BY <2>0, <3>1, <3>2 DEF Wakes, TypeOK
  <2>2. CASE m \notin TriggerMails
    <3>1. pc' = pc
      BY <1>3, <2>0, <2>2 DEF InterAgentCommunication, Go, TypeOK
    <3> QED
      BY <2>0, <3>1 DEF Accepts, TypeOK, turns
  <2> QED
    BY <2>1, <2>2
<1>4. ASSUME NEW x \in Approvals, ApproveDenied(x)
      PROVE  Accepts \/ Wakes
  <2>0. /\ x \in Items /\ sent' = sent \cup {x} /\ pc[Loop] = "parked"
        /\ UNCHANGED <<active, phase, mailbox, idle, turnStates, turns, recorded, refused, used>>
    BY <1>4, Names DEF ApproveDenied
  <2>1. CASE active # None
    BY <1>4, <2>0, <2>1, InjectionAccepts DEF ApproveDenied
  <2>2. CASE active = None
    <3> DEFINE r == [reg[Loop] EXCEPT !.held = {x}]
    <3>1. reg' = [reg EXCEPT ![Loop] = r] /\ Go(Loop, "q_idle") /\ "q_idle" \in Steps /\ pend' = pend
      BY <1>4, <2>2 DEF ApproveDenied, Steps
    <3>2. r \in Regs /\ r.turn = reg[Loop].turn /\ r.reason = reg[Loop].reason /\ r.held \subseteq Approvals
      <4>1. reg[Loop] \in Regs
        BY <1>0, Names
      <4> QED
        BY <4>1, <2>0 DEF Regs
    <3> HIDE DEF r
    <3>3. Elsewhere(Loop) /\ pc'[Loop] = "q_idle" /\ reg'[Loop] = r
      BY <3>1, <3>2, GoSetsRegs, Names
    <3>4. ~ NoSelfStart /\ ~ NoInjection
      BY DEF NoSelfStart, NoInjection
    <3> QED
      BY <2>0, <3>1, <3>2, <3>3, <3>4 DEF Wakes, TypeOK
  <2> QED
    BY <2>1, <2>2
<1>5. ASSUME NEW x \in Injections, Inject(x)
      PROVE  Accepts
  <2>0. /\ x \in Items /\ sent' = sent \cup {x}
        /\ UNCHANGED <<active, phase, mailbox, idle, turnStates, turns, pc, reg, recorded, used>>
    BY <1>5, Names DEF Inject
  <2>1. CASE active # None
    BY <1>5, <2>0, <2>1, InjectionAccepts DEF Inject
  <2>2. CASE active = None
    BY <1>5, <2>0, <2>2, RefusalAccepts DEF Inject
  <2> QED
    BY <2>1, <2>2
<1>6. ASSUME NEW t \in Turns, GuardianDenies(t)
      PROVE  Denies
  <2> DEFINE r == [reg[Guard] EXCEPT !.reason = "Interrupted", !.turn = t]
  <2>1. reg' = [reg EXCEPT ![Guard] = r] /\ Go(Guard, "ab_take") /\ pc[Guard] = "parked"
    BY <1>6 DEF GuardianDenies
  <2>2. r \in Regs /\ r.reason = "Interrupted"
    <3>1. reg[Guard] \in Regs
      BY <1>0, Names
    <3> QED
      BY <3>1 DEF Regs
  <2> HIDE DEF r
  <2>3. Elsewhere(Guard) /\ pc'[Guard] = "ab_take" /\ reg'[Guard] = r
    BY <1>0, <2>1, <2>2, GoSetsRegs, Names
  <2>4. "Guard" \in Ops /\ used["Guard"] < MaxGuardAborts /\ used' = [used EXCEPT !["Guard"] = @ + 1]
    BY <1>6 DEF GuardianDenies, Ops
  <2>5. MaxGuardAborts # 0
    BY <1>0, <2>4, TurnBounds
  <2> QED
    BY <1>6, <2>1, <2>2, <2>3, <2>4, <2>5, UseCounted DEF Denies, GuardianDenies
<1>7. ASSUME Compact
      PROVE  Creates
  <2>1. /\ turnIds + 1 \in Turns /\ turnIds' = turnIds + 1 /\ turnIds' \in 0 .. MaxTurns
        /\ kind' \in [Turns -> {"Regular", "Compact"}] /\ input' \in [Turns -> SUBSET Items]
        /\ \A t \in Turns : t # turnIds + 1 => kind'[t] = kind[t] /\ input'[t] = input[t]
        /\ kind'[turnIds + 1] = "Compact" /\ input'[turnIds + 1] = {}
        /\ UNCHANGED <<cancelled, outcome>>
    BY <1>7, TurnCreated DEF Compact
  <2>2. /\ Elsewhere(Loop) /\ pc'[Loop] = "ab_take"
        /\ reg'[Loop].reason = "Replaced" /\ reg'[Loop].turn = turnIds + 1
        /\ reg'[Loop].held = reg[Loop].held
    BY <1>7, <2>1, LoopReplaces DEF Compact
  <2>3. "Compact" \in Ops /\ used["Compact"] < MaxCompacts /\ used' = [used EXCEPT !["Compact"] = @ + 1]
    BY <1>7 DEF Compact, Ops
  <2>4. ~ NoReplacement
    BY <1>0, <2>3, TurnBounds DEF NoReplacement
  <2>5. /\ pc[Loop] = "parked" /\ UNCHANGED <<active, pend, phase, mailbox, idle, turnStates>>
        /\ UNCHANGED <<sent, recorded, refused>>
    BY <1>7 DEF Compact, session, fates
  <2> QED
    BY <2>1, <2>2, <2>3, <2>4, <2>5, UseCounted DEF Creates
<1>8. ASSUME Interrupt
      PROVE  Interrupts
  <2>1. "Interrupt" \in Ops /\ used["Interrupt"] < MaxInterrupts /\ used' = [used EXCEPT !["Interrupt"] = @ + 1]
    BY <1>8 DEF Interrupt, Ops
  <2>2. ~ NoReplacement
    BY <1>0, <2>1, TurnBounds DEF NoReplacement
  <2>3. /\ Elsewhere(Loop) /\ pc'[Loop] = "ab_take" /\ reg'[Loop].reason = "Interrupted"
        /\ reg'[Loop].turn = reg[Loop].turn /\ reg'[Loop].held = reg[Loop].held
    BY <1>8, LoopAborts, Names DEF Interrupt
  <2> QED
    BY <1>8, <2>1, <2>2, <2>3, UseCounted DEF Interrupts, Interrupt
<1>9. ASSUME Shutdown
      PROVE  Interrupts
  <2>1. "Shutdown" \in Ops /\ used["Shutdown"] < MaxShutdowns /\ used' = [used EXCEPT !["Shutdown"] = @ + 1]
    BY <1>9 DEF Shutdown, Ops
  <2>2. ~ NoReplacement
    BY <1>0, <2>1, TurnBounds DEF NoReplacement
  <2>3. /\ Elsewhere(Loop) /\ pc'[Loop] = "ab_take" /\ reg'[Loop].reason = "Shutdown"
        /\ reg'[Loop].turn = reg[Loop].turn /\ reg'[Loop].held = reg[Loop].held
    BY <1>9, LoopAborts, Names DEF Shutdown
  <2> QED
    BY <1>9, <2>1, <2>2, <2>3, UseCounted DEF Interrupts, Shutdown
<1> QED
  BY <1>1, <1>2, <1>3, <1>4, <1>5, <1>6, <1>7, <1>8, <1>9 DEF Submit

\* An abort takes the active turn with its task.
TakesTask(a) ==
  /\ pc[a] = "ab_take" /\ Elsewhere(a) /\ ActiveTask \in Turns /\ active # None /\ active' = None
  /\ cancelled' \in [Turns -> BOOLEAN] /\ \A t \in Turns : t # ActiveTask => cancelled'[t] = cancelled[t]
  /\ pc'[a] = IF cancelled[ActiveTask] THEN "ab_clear" ELSE "ab_wait"
  /\ reg'[a].task = ActiveTask /\ reg'[a].ts = active.ts
  /\ reg'[a].reason = reg[a].reason /\ reg'[a].turn = reg[a].turn /\ reg'[a].held = reg[a].held
  /\ UNCHANGED <<pend, phase, mailbox, idle, turnStates, turnIds, kind, input, outcome, fates, used>>

\* The loop's abort finds no task: whatever turn there is goes.
DropsTurn ==
  /\ pc[Loop] = "ab_take" /\ Elsewhere(Loop) /\ ActiveTask = None /\ active' = None
  /\ \/ reg[Loop].reason = "Replaced" /\ pc'[Loop] = "st_pend" /\ reg'[Loop] = reg[Loop]
     \/ reg[Loop].reason # "Replaced" /\ pc'[Loop] \in {"ended", "parked"} /\ reg'[Loop] = NoReg
  /\ UNCHANGED <<cancelled, pend, phase, mailbox, idle, turnStates, turnIds, kind, input, outcome,
                 fates, used>>

\* An actor gives up its procedure and goes where its caller goes on.
Leaves(a) ==
  /\ pc[a] \in {"ab_take", "ms_check", "ms_reserve"} /\ Elsewhere(a) /\ reg'[a] = NoReg
  /\ pc[a] = "ab_take" => a = Guard
  /\ a \in Turns => pc'[a] = "r_done"
  /\ a \notin Turns => pc'[a] \in {"ended", "parked"}
  /\ a = Guard => pc'[a] = "parked" \/ reg[a].reason = "Shutdown"
  /\ UNCHANGED <<session, turns, fates, used>>

LEMMA AbortTakeCases ==
  ASSUME TypeOK, NEW a \in {Loop, Guard}, AbortTake(a)
  PROVE  TakesTask(a) \/ (a = Loop /\ DropsTurn) \/ Leaves(a)
<1>0. /\ a \in Actors /\ a \notin Turns /\ pc[a] = "ab_take" /\ reg \in [Actors -> Regs] /\ reg[a] \in Regs
      /\ UNCHANGED <<pend, phase, mailbox, idle, turnStates, turnIds, kind, input, outcome, fates, used>>
  BY Names DEF AbortTake, TypeOK
<1>1. CASE /\ ActiveTask # None /\ (a = Guard => ActiveTask = reg[a].turn)
           /\ active' = None
           /\ cancelled' = [cancelled EXCEPT ![ActiveTask] = TRUE]
           /\ Go(a, IF cancelled[ActiveTask] THEN "ab_clear" ELSE "ab_wait")
           /\ reg' = [reg EXCEPT ![a].task = ActiveTask, ![a].ts = active.ts]
  <2> DEFINE r == [reg[a] EXCEPT !.task = ActiveTask, !.ts = active.ts]
             step == IF cancelled[ActiveTask] THEN "ab_clear" ELSE "ab_wait"
  <2>1. ActiveTask \in Turns /\ active # None /\ active.ts \in TurnStates
    BY <1>1, ActiveCases DEF TypeOK
  <2>2. /\ r \in Regs /\ r.task = ActiveTask /\ r.ts = active.ts
        /\ r.reason = reg[a].reason /\ r.turn = reg[a].turn /\ r.held = reg[a].held
    BY <1>0, <2>1 DEF Regs
  <2>3. step \in Steps /\ Go(a, step) /\ reg' = [reg EXCEPT ![a] = r]
    BY <1>1 DEF Steps
  <2>4. cancelled' \in [Turns -> BOOLEAN] /\ \A t \in Turns : t # ActiveTask => cancelled'[t] = cancelled[t]
    BY <1>1, <2>1 DEF TypeOK
  <2>5. step = IF cancelled[ActiveTask] THEN "ab_clear" ELSE "ab_wait"
    OBVIOUS
  <2> HIDE DEF r, step
  <2>6. Elsewhere(a) /\ pc'[a] = step /\ reg'[a] = r
    BY <1>0, <2>2, <2>3, GoSetsRegs
  <2> QED
    BY <1>0, <1>1, <2>1, <2>2, <2>4, <2>5, <2>6 DEF TakesTask
<1>2. CASE /\ a = Loop /\ ActiveTask = None
           /\ active' = None
           /\ IF reg[a].reason = "Replaced" THEN Go(a, "st_pend") /\ UNCHANGED reg ELSE Return(a)
           /\ UNCHANGED cancelled
  <2>1. CASE reg[a].reason = "Replaced"
    <3>1. Elsewhere(a) /\ pc'[a] = "st_pend" /\ reg'[a] = reg[a]
      <4>1. "st_pend" \in Steps
        BY DEF Steps
      <4> QED
        BY <1>0, <1>2, <2>1, <4>1, GoKeepsRegs
    <3> QED
      BY <1>0, <1>2, <2>1, <3>1 DEF DropsTurn
  <2>2. CASE reg[a].reason # "Replaced"
    <3>1. Elsewhere(a) /\ pc'[a] \in {"ended", "parked"} /\ reg'[a] = NoReg
      BY <1>0, <1>2, <2>2, ReturnMoves DEF Elsewhere
    <3> QED
      BY <1>0, <1>2, <2>2, <3>1 DEF DropsTurn
  <2> QED
    BY <2>1, <2>2
<1>3. CASE /\ a = Guard /\ ActiveTask # reg[a].turn
           /\ Return(a)
           /\ UNCHANGED <<active, cancelled>>
  <2>1. /\ Elsewhere(a) /\ pc'[a] \in {"ended", "parked"} /\ reg'[a] = NoReg
        /\ pc'[a] = "parked" \/ reg[a].reason = "Shutdown"
    BY <1>0, <1>3, ReturnMoves DEF Elsewhere
  <2> QED
    BY <1>0, <1>3, <2>1 DEF Leaves, session, turns
<1> QED
  BY <1>1, <1>2, <1>3 DEF AbortTake

\* An abort has waited long enough for the task and ends it.
Kills(a) ==
  /\ pc[a] = "ab_wait" /\ pc'[a] = "ab_clear" /\ reg' = reg /\ reg[a].task \in Turns
  /\ pc' \in [Actors -> Steps]
  /\ pc'[reg[a].task] = IF pc[reg[a].task] \in Stops THEN pc[reg[a].task] ELSE "killed"
  /\ \A b \in Actors \ {a, reg[a].task} : pc'[b] = pc[b]
  /\ outcome' \in [Turns -> SUBSET {"complete", "aborted"}]
  /\ outcome'[reg[a].task] = outcome[reg[a].task] \cup {"aborted"}
  /\ input' \in [Turns -> SUBSET Items] /\ input'[reg[a].task] = {}
  /\ \A t \in Turns : t # reg[a].task => outcome'[t] = outcome[t] /\ input'[t] = input[t]
  /\ refused' = refused \cup input[reg[a].task] /\ refused' \subseteq Items
  /\ UNCHANGED <<session, turnIds, kind, cancelled, sent, recorded, used>>

LEMMA AbortWaitKills ==
  ASSUME TypeOK, RegInv, NEW a \in {Loop, Guard}, AbortWait(a)
  PROVE  Kills(a)
<1>0. a \in Actors /\ a \notin Turns /\ pc[a] = "ab_wait" /\ reg[a] \in Regs
  BY Names DEF AbortWait, TypeOK
<1>1. reg[a].task \in Turns /\ reg[a].task \in Actors /\ reg[a].task # a
  BY <1>0, Names DEF RegInv, RegSound, Regs
<1> DEFINE t == reg[a].task
           last == IF pc[t] \in Stops THEN pc[t] ELSE "killed"
<1>2. /\ pc' = [pc EXCEPT ![a] = "ab_clear", ![t] = last]
      /\ outcome' = [outcome EXCEPT ![t] = @ \cup {"aborted"}]
      /\ refused' = refused \cup input[t]
      /\ input' = [input EXCEPT ![t] = {}]
      /\ UNCHANGED <<session, turnIds, kind, cancelled, reg, sent, recorded, used>>
  BY <1>0, <1>1 DEF AbortWait, TypeOK
<1>3. last \in Steps /\ "ab_clear" \in Steps /\ pc \in [Actors -> Steps]
  BY <1>1 DEF TypeOK, Steps, Stops
<1>4. last = IF pc[t] \in Stops THEN pc[t] ELSE "killed"
  OBVIOUS
<1> HIDE DEF last
<1>5. /\ pc' \in [Actors -> Steps] /\ pc'[a] = "ab_clear" /\ pc'[t] = last
      /\ \A b \in Actors \ {a, t} : pc'[b] = pc[b]
  BY <1>0, <1>1, <1>2, <1>3
<1>6. /\ outcome' \in [Turns -> SUBSET {"complete", "aborted"}]
      /\ outcome'[t] = outcome[t] \cup {"aborted"}
      /\ \A u \in Turns : u # t => outcome'[u] = outcome[u]
  BY <1>1, <1>2 DEF TypeOK
<1>7. /\ input' \in [Turns -> SUBSET Items] /\ input'[t] = {}
      /\ \A u \in Turns : u # t => input'[u] = input[u]
      /\ refused' \subseteq Items
  BY <1>1, <1>2 DEF TypeOK
<1> QED
  BY <1>0, <1>1, <1>2, <1>4, <1>5, <1>6, <1>7 DEF Kills

\* An abort empties the turn state it took and goes on.
Clears(a) ==
  /\ pc[a] = "ab_clear" /\ Elsewhere(a) /\ reg[a].ts \in TurnStates
  /\ pc'[a] = IF reg[a].reason = "Replaced" THEN "st_pend" ELSE "ms_check"
  /\ reg'[a].turn = reg[a].turn /\ reg'[a].held = reg[a].held /\ reg'[a].reason = reg[a].reason
  /\ pend' \in [TurnStates -> SUBSET Items] /\ pend'[reg[a].ts] = {}
  /\ \A s \in TurnStates : s # reg[a].ts => pend'[s] = pend[s]
  /\ refused' = refused \cup pend[reg[a].ts] /\ refused' \subseteq Items
  /\ UNCHANGED <<active, phase, mailbox, idle, turnStates, turns, sent, recorded, used>>

LEMMA AbortClearClears ==
  ASSUME TypeOK, RegInv, NEW a \in {Loop, Guard}, AbortClear(a)
  PROVE  Clears(a)
<1>0. a \in Actors /\ pc[a] = "ab_clear" /\ reg[a] \in Regs
  BY Names DEF AbortClear, TypeOK
<1>1. reg[a].ts \in TurnStates
  BY <1>0 DEF RegInv, RegSound, Regs
<1> DEFINE r == [reg[a] EXCEPT !.task = None, !.ts = None]
           step == IF reg[a].reason = "Replaced" THEN "st_pend" ELSE "ms_check"
<1>2. r \in Regs /\ r.turn = reg[a].turn /\ r.held = reg[a].held /\ r.reason = reg[a].reason
  BY <1>0 DEF Regs
<1>3. reg' = [reg EXCEPT ![a] = r] /\ Go(a, step) /\ step \in Steps
  BY <1>0 DEF AbortClear, Steps
<1>4. step = IF reg[a].reason = "Replaced" THEN "st_pend" ELSE "ms_check"
  OBVIOUS
<1> HIDE DEF r, step
<1>5. Elsewhere(a) /\ pc'[a] = step /\ reg'[a] = r
  BY <1>0, <1>2, <1>3, GoSetsRegs
<1>6. /\ pend' \in [TurnStates -> SUBSET Items] /\ pend'[reg[a].ts] = {}
      /\ \A s \in TurnStates : s # reg[a].ts => pend'[s] = pend[s]
      /\ refused' = refused \cup pend[reg[a].ts] /\ refused' \subseteq Items
  BY <1>1 DEF AbortClear, TypeOK
<1> QED
  BY <1>0, <1>1, <1>2, <1>4, <1>5, <1>6 DEF Clears, AbortClear

\* There is pending work: the session may have to be reserved.
Looks(a) ==
  /\ pc[a] = "ms_check" /\ pc'[a] = "ms_reserve" /\ Elsewhere(a) /\ reg'[a] = reg[a]
  /\ NoSelfStart => idle # {}
  /\ UNCHANGED <<session, turns, fates, used>>

LEMMA StartIfPendingWorkCases ==
  ASSUME TypeOK, NEW a \in Actors, StartIfPendingWork(a)
  PROVE  Looks(a) \/ Leaves(a)
<1>0. pc[a] = "ms_check" /\ UNCHANGED <<session, turns, fates, used>> /\ "ms_reserve" \in Steps
  BY DEF StartIfPendingWork, Steps
<1>1. CASE (idle # {} \/ mailbox \cap TriggerMails # {}) /\ Go(a, "ms_reserve") /\ UNCHANGED reg
  <2>1. Elsewhere(a) /\ pc'[a] = "ms_reserve" /\ reg'[a] = reg[a]
    BY <1>0, <1>1, GoKeepsRegs
  <2>2. NoSelfStart => idle # {}
    BY <1>1 DEF NoSelfStart
  <2> QED
    BY <1>0, <2>1, <2>2 DEF Looks
<1>2. CASE Return(a)
  <2>1. /\ Elsewhere(a) /\ reg'[a] = NoReg
        /\ a \in Turns => pc'[a] = "r_done"
        /\ a \notin Turns => pc'[a] \in {"ended", "parked"}
        /\ a = Guard => pc'[a] = "parked" \/ reg[a].reason = "Shutdown"
    BY <1>2, ReturnMoves, Names DEF Elsewhere
  <2> QED
    BY <1>0, <2>1 DEF Leaves
<1> QED
  BY <1>1, <1>2 DEF StartIfPendingWork

\* An actor reserves the idle session and creates the turn that will use it.
Reserves(a) ==
  /\ pc[a] = "ms_reserve" /\ pc'[a] = "st_pend" /\ Elsewhere(a) /\ active = None
  /\ turnStates + 1 \in TurnStates /\ turnStates' = turnStates + 1 /\ turnStates' \in 0 .. MaxTurnStates
  /\ active' = [ts |-> turnStates + 1, task |-> None] /\ active' # None
  /\ turnIds + 1 \in Turns /\ turnIds' = turnIds + 1 /\ turnIds' \in 0 .. MaxTurns
  /\ reg'[a].turn = turnIds + 1 /\ reg'[a].held = reg[a].held /\ reg'[a].reason = reg[a].reason
  /\ kind' \in [Turns -> {"Regular", "Compact"}] /\ input' \in [Turns -> SUBSET Items]
  /\ \A t \in Turns : t # turnIds + 1 => kind'[t] = kind[t] /\ input'[t] = input[t]
  /\ input'[turnIds + 1] = {}
  /\ UNCHANGED <<pend, phase, mailbox, idle, cancelled, outcome, fates, used>>

LEMMA ReserveTurnCases ==
  ASSUME TypeOK, NEW a \in Actors, ReserveTurn(a)
  PROVE  Reserves(a) \/ Leaves(a)
<1>0. pc[a] = "ms_reserve" /\ UNCHANGED <<pend, phase, mailbox, idle, fates, used>> /\ reg[a] \in Regs
  BY DEF ReserveTurn, TypeOK
<1>1. CASE active # None /\ Return(a) /\ UNCHANGED <<active, turnStates, turns>>
  <2>1. /\ Elsewhere(a) /\ reg'[a] = NoReg
        /\ a \in Turns => pc'[a] = "r_done"
        /\ a \notin Turns => pc'[a] \in {"ended", "parked"}
        /\ a = Guard => pc'[a] = "parked" \/ reg[a].reason = "Shutdown"
    BY <1>1, ReturnMoves, Names DEF Elsewhere
  <2> QED
    BY <1>0, <1>1, <2>1 DEF Leaves, session
<1>2. CASE /\ active = None /\ turnStates < MaxTurnStates
           /\ active' = ActiveOrNew /\ turnStates' = turnStates + 1
           /\ NewTurn("Regular", {})
           /\ Go(a, "st_pend")
           /\ reg' = [reg EXCEPT ![a].turn = turnIds + 1]
  <2>1. turnStates + 1 \in TurnStates /\ turnStates' = turnStates + 1 /\ turnStates' \in 0 .. MaxTurnStates
    BY <1>2, NextNames, TurnBounds DEF TypeOK
  <2>2. active' = [ts |-> turnStates + 1, task |-> None] /\ active' # None
    BY <1>2, <2>1, RecordIsActive DEF ActiveOrNew
  <2>3. /\ turnIds + 1 \in Turns /\ turnIds' = turnIds + 1 /\ turnIds' \in 0 .. MaxTurns
        /\ kind' \in [Turns -> {"Regular", "Compact"}] /\ input' \in [Turns -> SUBSET Items]
        /\ \A t \in Turns : t # turnIds + 1 => kind'[t] = kind[t] /\ input'[t] = input[t]
        /\ input'[turnIds + 1] = {} /\ UNCHANGED <<cancelled, outcome>>
    BY <1>2, TurnCreated
  <2> DEFINE r == [reg[a] EXCEPT !.turn = turnIds + 1]
  <2>4. r \in Regs /\ r.turn = turnIds + 1 /\ r.held = reg[a].held /\ r.reason = reg[a].reason
    BY <1>0, <2>3 DEF Regs
  <2>5. reg' = [reg EXCEPT ![a] = r] /\ "st_pend" \in Steps
    BY <1>2 DEF Steps
  <2> HIDE DEF r
  <2>6. Elsewhere(a) /\ pc'[a] = "st_pend" /\ reg'[a] = r
    BY <1>2, <2>4, <2>5, GoSetsRegs
  <2> QED
    BY <1>0, <1>2, <2>1, <2>2, <2>3, <2>4, <2>6 DEF Reserves
<1> QED
  BY <1>1, <1>2 DEF ReserveTurn

\* start_task holds what it took.
TakesWork(a) ==
  /\ pc[a] = "st_pend" /\ pc'[a] = "st_ts" /\ Elsewhere(a)
  /\ reg'[a].held = idle \cup Pending /\ reg'[a].turn = reg[a].turn /\ reg'[a].reason = reg[a].reason
  /\ idle' = {} /\ TakePending
  /\ UNCHANGED <<active, phase, turnStates, turns, fates, used>>

LEMMA StartTakePendingTakes ==
  ASSUME TypeOK, NEW a \in Actors, StartTakePending(a)
  PROVE  TakesWork(a)
<1> DEFINE r == [reg[a] EXCEPT !.held = idle \cup Pending]
<1>1. idle \cup Pending \in SUBSET Items /\ reg[a] \in Regs
  BY PendingTypes, Names DEF TypeOK
<1>2. r \in Regs /\ r.held = idle \cup Pending /\ r.turn = reg[a].turn /\ r.reason = reg[a].reason
  <2> HIDE DEF Pending
  <2> QED
    BY <1>1 DEF Regs
<1>3. reg' = [reg EXCEPT ![a] = r] /\ Go(a, "st_ts") /\ "st_ts" \in Steps
  BY DEF StartTakePending, Steps
<1> HIDE DEF r
<1>4. Elsewhere(a) /\ pc'[a] = "st_ts" /\ reg'[a] = r
  BY <1>2, <1>3, GoSetsRegs
<1> QED
  BY <1>2, <1>4 DEF TakesWork, StartTakePending

\* The active turn is found, or a new turn state made.
GetsActive ==
  /\ active # None => turnStates' = turnStates
  /\ active = None => turnStates' = turnStates + 1
  /\ turnStates' \in 0 .. MaxTurnStates /\ turnStates <= turnStates'
  /\ ActiveOrNew.ts \in TurnStates
  /\ active # None => ActiveOrNew = active
  /\ active = None => ActiveOrNew.ts = turnStates + 1 /\ ActiveOrNew = [ts |-> turnStates + 1, task |-> None]
  /\ ActiveOrNew \in [ts : TurnStates, task : Turns \cup {None}]

LEMMA GetOrInsert ==
  ASSUME TypeOK, GetOrInsertActive
  PROVE  GetsActive
<1>1. turnStates \in Nat /\ turnStates \in 0 .. MaxTurnStates
  BY NextNames DEF TypeOK
<1>2. CASE active = None
  <2>1. turnStates' = turnStates + 1 /\ turnStates' <= MaxTurnStates
    BY <1>2 DEF GetOrInsertActive
  <2>2. turnStates + 1 \in TurnStates /\ turnStates + 1 \in 0 .. MaxTurnStates /\ turnStates <= turnStates + 1
    BY <1>1, <2>1, NextNames DEF TypeOK
  <2> QED
    BY <1>2, <2>1, <2>2 DEF GetsActive, ActiveOrNew
<1>3. CASE active # None
  BY <1>1, <1>3, ActiveCases DEF GetsActive, ActiveOrNew, GetOrInsertActive, TypeOK
<1> QED
  BY <1>2, <1>3

FindsState(a) ==
  /\ pc[a] = "st_ts" /\ pc'[a] = "st_extend" /\ Elsewhere(a) /\ GetsActive
  /\ active' = ActiveOrNew /\ active' # None
  /\ reg'[a].ts = ActiveOrNew.ts /\ reg'[a].turn = reg[a].turn /\ reg'[a].held = reg[a].held
  /\ reg'[a].reason = reg[a].reason
  /\ UNCHANGED <<pend, phase, mailbox, idle, turns, fates, used>>

LEMMA StartTurnStateFinds ==
  ASSUME TypeOK, NEW a \in Actors, StartTurnState(a)
  PROVE  FindsState(a)
<1>1. GetsActive /\ reg[a] \in Regs
  BY GetOrInsert DEF StartTurnState, TypeOK
<1> DEFINE r == [reg[a] EXCEPT !.ts = ActiveOrNew.ts]
<1>2. r \in Regs /\ r.ts = ActiveOrNew.ts /\ r.turn = reg[a].turn /\ r.held = reg[a].held /\ r.reason = reg[a].reason
  BY <1>1 DEF Regs, GetsActive
<1>3. reg' = [reg EXCEPT ![a] = r] /\ Go(a, "st_extend") /\ "st_extend" \in Steps
  BY DEF StartTurnState, Steps
<1>4. ActiveOrNew # None
  BY <1>1, TurnBounds DEF GetsActive
<1> HIDE DEF r
<1>5. Elsewhere(a) /\ pc'[a] = "st_extend" /\ reg'[a] = r
  BY <1>2, <1>3, GoSetsRegs
<1> QED
  BY <1>1, <1>2, <1>4, <1>5 DEF FindsState, StartTurnState

\* The held items go to the turn state.
HandsOver(a) ==
  /\ pc[a] = "st_extend" /\ pc'[a] = "st_install" /\ Elsewhere(a) /\ reg[a].ts \in TurnStates
  /\ pend' \in [TurnStates -> SUBSET Items] /\ pend'[reg[a].ts] = pend[reg[a].ts] \cup reg[a].held
  /\ \A s \in TurnStates : s # reg[a].ts => pend'[s] = pend[s]
  /\ reg'[a].held = {} /\ reg'[a].ts = reg[a].ts /\ reg'[a].turn = reg[a].turn
  /\ reg'[a].reason = reg[a].reason
  /\ UNCHANGED <<active, phase, mailbox, idle, turnStates, turns, fates, used>>

LEMMA StartExtendPendingHandsOver ==
  ASSUME TypeOK, RegInv, NEW a \in Actors, StartExtendPending(a)
  PROVE  HandsOver(a)
<1>0. pc[a] = "st_extend" /\ reg[a] \in Regs
  BY DEF StartExtendPending, TypeOK
<1>1. reg[a].ts \in TurnStates /\ reg[a].held \in SUBSET Items
  BY <1>0 DEF RegInv, RegSound, Regs
<1> DEFINE r == [reg[a] EXCEPT !.held = {}]
<1>2. r \in Regs /\ r.ts = reg[a].ts /\ r.turn = reg[a].turn /\ r.held = {} /\ r.reason = reg[a].reason
  BY <1>0 DEF Regs
<1>3. reg' = [reg EXCEPT ![a] = r] /\ Go(a, "st_install") /\ "st_install" \in Steps
  BY DEF StartExtendPending, Steps
<1> HIDE DEF r
<1>4. Elsewhere(a) /\ pc'[a] = "st_install" /\ reg'[a] = r
  BY <1>2, <1>3, GoSetsRegs
<1>5. /\ pend' \in [TurnStates -> SUBSET Items] /\ pend'[reg[a].ts] = pend[reg[a].ts] \cup reg[a].held
      /\ \A s \in TurnStates : s # reg[a].ts => pend'[s] = pend[s]
  BY <1>1 DEF StartExtendPending, TypeOK
<1> QED
  BY <1>0, <1>1, <1>2, <1>4, <1>5 DEF HandsOver, StartExtendPending

\* The runner of the new turn is spawned; a task in its way is dropped.
Installs(a) ==
  /\ pc[a] = "st_install" /\ GetsActive /\ reg[a].turn \in Turns /\ reg[a].turn # a
  /\ active' = [ts |-> ActiveOrNew.ts, task |-> reg[a].turn] /\ active' # None
  /\ pc' \in [Actors -> Steps] /\ reg' \in [Actors -> Regs]
  /\ a \in Turns => pc'[a] = "r_done"
  /\ a \notin Turns => pc'[a] \in {"ended", "parked"}
  /\ a \notin Turns /\ reg[a].reason # "Shutdown" => pc'[a] = "parked"
  /\ pc'[reg[a].turn] \in {"r_start", "r_other"}
  /\ kind[reg[a].turn] # "Compact" => pc'[reg[a].turn] = "r_start"
  /\ \A b \in Actors \ {a, reg[a].turn} :
       \/ pc'[b] = pc[b]
       \/ b = ActiveTask /\ pc[b] \notin Stops /\ pc'[b] = "killed"
  /\ reg'[a] = NoReg /\ \A b \in Actors : b # a => reg'[b] = reg[b]
  /\ UNCHANGED <<pend, phase, mailbox, idle, turns, fates, used>>

LEMMA StartInstallInstalls ==
  ASSUME BaseInv, NEW a \in Actors, StartInstall(a)
  PROVE  Installs(a)
<1>0. TypeOK /\ RegInv /\ FreshInv /\ pc[a] = "st_install" /\ reg[a] \in Regs
  BY DEF BaseInv, StartInstall, TypeOK
<1>1. reg[a].turn \in Turns /\ pc[reg[a].turn] = "parked" /\ reg[a].turn \in Actors
  BY <1>0, Names DEF RegInv, RegSound, FreshInv, Creators, Starting, Regs
<1>2. GetsActive
  BY <1>0, GetOrInsert DEF StartInstall
<1> DEFINE t == reg[a].turn
           after == IF a \in Turns THEN "r_done"
                    ELSE IF reg[a].reason = "Shutdown" THEN "ended" ELSE "parked"
<1>3. /\ active' = [ActiveOrNew EXCEPT !.task = t]
      /\ pc' = [b \in Actors |->
                  IF b = a THEN after
                  ELSE IF b = t THEN IF kind[t] = "Regular" THEN "r_start" ELSE "r_other"
                  ELSE IF b = ActiveTask /\ pc[b] \notin Stops THEN "killed"
                  ELSE pc[b]]
      /\ reg' = [reg EXCEPT ![a] = NoReg]
      /\ UNCHANGED <<pend, phase, mailbox, idle, turns, fates, used>>
  BY DEF StartInstall
<1>4. active' = [ts |-> ActiveOrNew.ts, task |-> t]
  <2>1. ActiveOrNew \in [ts : TurnStates, task : Turns \cup {None}]
    BY <1>2 DEF GetsActive
  <2> HIDE DEF ActiveOrNew
  <2> QED
    BY <1>3, <2>1
<1>5. active' # None
  BY <1>1, <1>2, <1>4, RecordIsActive DEF GetsActive
<1>6. pc' \in [Actors -> Steps]
  <2>1. \A b \in Actors : pc'[b] \in Steps
    BY <1>0, <1>3 DEF Steps, Stops, Running, TypeOK
  <2> QED
    BY <1>3, <2>1
<1>7. reg' \in [Actors -> Regs] /\ reg'[a] = NoReg /\ \A b \in Actors : b # a => reg'[b] = reg[b]
  BY <1>0, <1>3, NoRegType DEF TypeOK
<1>8. t # a
  BY <1>0, <1>1
<1>9. /\ a \in Turns => pc'[a] = "r_done"
      /\ a \notin Turns => pc'[a] \in {"ended", "parked"}
      /\ a \notin Turns /\ reg[a].reason # "Shutdown" => pc'[a] = "parked"
  BY <1>3
<1>10. /\ pc'[t] \in {"r_start", "r_other"}
       /\ kind[t] # "Compact" => pc'[t] = "r_start"
  BY <1>0, <1>1, <1>3, <1>8 DEF TypeOK
<1>11. \A b \in Actors \ {a, t} :
         \/ pc'[b] = pc[b]
         \/ b = ActiveTask /\ pc[b] \notin Stops /\ pc'[b] = "killed"
  BY <1>3
<1> QED
  BY <1>0, <1>1, <1>2, <1>3, <1>4, <1>5, <1>6, <1>7, <1>8, <1>9, <1>10, <1>11 DEF Installs

\* A runner moves on behind its turn and changes nothing else.
Passes(t) ==
  /\ Elsewhere(t) /\ reg'[t] = reg[t]
  /\ \/ pc[t] = "r_check" /\ pc'[t] = IF cancelled[t] THEN "r_done" ELSE "f_take"
     \/ pc[t] = "f_take" /\ ActiveTask = None /\ pc'[t] = "r_done"
     \/ pc[t] = "r_done" /\ pc'[t] = "ended"
  /\ UNCHANGED <<session, turns, fates, used>>

\* on_task_finished takes the task of the active turn.
Detaches(t) ==
  /\ pc[t] = "f_take" /\ pc'[t] = "f_pend" /\ Elsewhere(t) /\ ActiveTask \in Turns /\ active # None
  /\ active' = [ts |-> active.ts, task |-> None] /\ active' # None
  /\ reg'[t].ts = active.ts /\ reg'[t].turn = reg[t].turn /\ reg'[t].held = reg[t].held
  /\ reg'[t].reason = reg[t].reason
  /\ UNCHANGED <<pend, phase, mailbox, idle, turnStates, turns, fates, used>>

\* It records what is left and reports the turn complete.
Completes(t) ==
  /\ pc[t] = "f_pend" /\ pc'[t] = "f_clear" /\ Elsewhere(t) /\ reg'[t] = reg[t] /\ reg[t].ts \in TurnStates
  /\ pend' \in [TurnStates -> SUBSET Items] /\ pend'[reg[t].ts] = {}
  /\ \A s \in TurnStates : s # reg[t].ts => pend'[s] = pend[s]
  /\ outcome' \in [Turns -> SUBSET {"complete", "aborted"}]
  /\ outcome'[t] = outcome[t] \cup {"complete"} /\ \A u \in Turns : u # t => outcome'[u] = outcome[u]
  /\ recorded' \subseteq Items /\ refused' \subseteq Items
  /\ recorded \cup refused \cup pend[reg[t].ts] \subseteq recorded' \cup refused'
  /\ UNCHANGED <<active, phase, mailbox, idle, turnStates, turnIds, kind, input, cancelled, sent, used>>

\* It clears the active turn if that is still the one it closes.
Closes(t) ==
  /\ pc[t] = "f_clear" /\ Elsewhere(t) /\ reg'[t] = NoReg
  /\ \/ active = [ts |-> reg[t].ts, task |-> None] /\ active' = None /\ pc'[t] = "ms_check"
     \/ active # [ts |-> reg[t].ts, task |-> None] /\ active' = active /\ pc'[t] = "r_done"
  /\ UNCHANGED <<pend, phase, mailbox, idle, turnStates, turns, fates, used>>

LEMMA RunnerCases ==
  ASSUME TypeOK, RegInv, NEW t \in Turns, RunnerStep(t)
  PROVE  Digests(t) \/ Passes(t) \/ Detaches(t) \/ Completes(t) \/ Closes(t)
<1>0. t \in Actors /\ reg[t] \in Regs /\ {"r_done", "f_take", "f_pend", "f_clear", "ms_check", "ended"} \subseteq Steps
  BY Names DEF TypeOK, Steps, Stops
<1>1. CASE InTurn(t)
  BY <1>1, InTurnDigests
<1>2. CASE CheckCancelled(t)
  <2> DEFINE step == IF cancelled[t] THEN "r_done" ELSE "f_take"
  <2>1. Go(t, step) /\ step \in Steps /\ UNCHANGED <<session, turns, reg, fates, used>> /\ pc[t] = "r_check"
    BY <1>0, <1>2 DEF CheckCancelled
  <2>2. step = IF cancelled[t] THEN "r_done" ELSE "f_take"
    OBVIOUS
  <2> HIDE DEF step
  <2>3. Elsewhere(t) /\ pc'[t] = step /\ reg'[t] = reg[t]
    BY <1>0, <2>1, GoKeepsRegs
  <2> QED
    BY <2>1, <2>2, <2>3 DEF Passes
<1>3. CASE FinishTake(t)
  <2>1. CASE ActiveTask = None
    <3>1. Go(t, "r_done") /\ UNCHANGED <<session, turns, reg, fates, used>> /\ pc[t] = "f_take"
      BY <1>3, <2>1 DEF FinishTake, session, turns
    <3>2. Elsewhere(t) /\ pc'[t] = "r_done" /\ reg'[t] = reg[t]
      BY <1>0, <3>1, GoKeepsRegs
    <3> QED
      BY <2>1, <3>1, <3>2 DEF Passes
  <2>2. CASE ActiveTask # None
    <3>1. ActiveTask \in Turns /\ active # None /\ active.ts \in TurnStates /\ active \in [ts : TurnStates, task : Turns \cup {None}]
      BY <2>2, ActiveCases DEF TypeOK
    <3>2. active' = [active EXCEPT !.task = None]
      BY <1>3, <2>2 DEF FinishTake
    <3>3. active' = [ts |-> active.ts, task |-> None] /\ active' # None
      BY <3>1, <3>2, RecordIsActive
    <3> DEFINE r == [reg[t] EXCEPT !.ts = active.ts]
    <3>4. r \in Regs /\ r.ts = active.ts /\ r.turn = reg[t].turn /\ r.held = reg[t].held /\ r.reason = reg[t].reason
      BY <1>0, <3>1 DEF Regs
    <3>5. reg' = [reg EXCEPT ![t] = r] /\ Go(t, "f_pend") /\ pc[t] = "f_take"
      BY <1>3, <2>2 DEF FinishTake
    <3> HIDE DEF r
    <3>6. Elsewhere(t) /\ pc'[t] = "f_pend" /\ reg'[t] = r
      BY <1>0, <3>4, <3>5, GoSetsRegs
    <3> QED
      BY <1>3, <3>1, <3>3, <3>4, <3>5, <3>6 DEF Detaches, FinishTake, turns
  <2> QED
    BY <2>1, <2>2
<1>4. CASE FinishPending(t)
  <2>1. pc[t] = "f_pend" /\ reg[t].ts \in TurnStates
    BY <1>0, <1>4 DEF FinishPending, RegInv, RegSound, Closing, Regs
  <2>2. PICK blocked \in SUBSET pend[reg[t].ts] : Record(pend[reg[t].ts], blocked)
    BY <1>4 DEF FinishPending
  <2>3. /\ recorded' = recorded \cup (pend[reg[t].ts] \ blocked) /\ refused' = refused \cup blocked
        /\ pend[reg[t].ts] \subseteq Items
    BY <2>1, <2>2 DEF Record, TypeOK
  <2>4. /\ recorded' \subseteq Items /\ refused' \subseteq Items
        /\ recorded \cup refused \cup pend[reg[t].ts] \subseteq recorded' \cup refused'
    BY <2>2, <2>3 DEF TypeOK
  <2>5. /\ pend' \in [TurnStates -> SUBSET Items] /\ pend'[reg[t].ts] = {}
        /\ \A s \in TurnStates : s # reg[t].ts => pend'[s] = pend[s]
    BY <1>4, <2>1 DEF FinishPending, TypeOK
  <2>6. /\ outcome' \in [Turns -> SUBSET {"complete", "aborted"}]
        /\ outcome'[t] = outcome[t] \cup {"complete"} /\ \A u \in Turns : u # t => outcome'[u] = outcome[u]
    BY <1>4 DEF FinishPending, TypeOK
  <2>7. Elsewhere(t) /\ pc'[t] = "f_clear" /\ reg'[t] = reg[t]
    BY <1>0, <1>4, GoKeepsRegs DEF FinishPending
  <2> QED
    BY <1>4, <2>1, <2>4, <2>5, <2>6, <2>7 DEF Completes, FinishPending
<1>5. CASE FinishClear(t)
  <2>1. PICK step \in {"ms_check", "r_done"} :
          /\ Go(t, step)
          /\ \/ active = [ts |-> reg[t].ts, task |-> None] /\ active' = None /\ step = "ms_check"
             \/ active # [ts |-> reg[t].ts, task |-> None] /\ active' = active /\ step = "r_done"
    BY <1>5 DEF FinishClear
  <2>2. Elsewhere(t) /\ pc'[t] = step /\ reg'[t] = NoReg
    BY <1>0, <1>5, <2>1, NoRegType, GoSetsRegs DEF FinishClear
  <2> QED
    BY <1>5, <2>1, <2>2 DEF Closes, FinishClear
<1>6. CASE NotifyDone(t)
  <2>1. Elsewhere(t) /\ pc'[t] = "ended" /\ reg'[t] = reg[t]
    BY <1>0, <1>6, GoKeepsRegs DEF NotifyDone
  <2> QED
    BY <1>6, <2>1 DEF Passes, NotifyDone
<1> QED
  BY <1>1, <1>2, <1>3, <1>4, <1>5, <1>6 DEF RunnerStep, InTurn

\* The approval is kept for the next turn.
Keeps ==
  /\ pc[Loop] = "q_idle" /\ pc'[Loop] \in {"ended", "parked"} /\ Elsewhere(Loop) /\ reg'[Loop] = NoReg
  /\ idle' \subseteq Approvals
  /\ UNCHANGED <<active, pend, phase, mailbox, turnStates, turns, fates, used>>

LEMMA QueueForNextTurnKeeps ==
  ASSUME TypeOK, RegInv, QueueForNextTurn
  PROVE  Keeps
<1>1. /\ Elsewhere(Loop) /\ pc'[Loop] \in {"ended", "parked"} /\ reg'[Loop] = NoReg
  BY ReturnMoves, Names DEF QueueForNextTurn, Elsewhere
<1> QED
  BY <1>1, Names DEF Keeps, QueueForNextTurn, RegInv, RegSound, TypeOK

\* Every step of the session is one of these.
LEMMA StepCases ==
  ASSUME BaseInv, Next
  PROVE  \/ Accepts \/ Creates \/ Interrupts \/ Denies \/ Wakes \/ Keeps \/ DropsTurn
         \/ \E a \in {Loop, Guard} : TakesTask(a) \/ Kills(a) \/ Clears(a)
         \/ \E a \in Actors : \/ Leaves(a) \/ Looks(a) \/ Reserves(a) \/ TakesWork(a) \/ FindsState(a)
                              \/ HandsOver(a) \/ Installs(a)
         \/ \E t \in Turns : Digests(t) \/ Passes(t) \/ Detaches(t) \/ Completes(t) \/ Closes(t)
<1>0. TypeOK /\ RegInv
  BY DEF BaseInv
<1>1. CASE Submit
  BY <1>0, <1>1, SubmitCases
<1>2. CASE QueueForNextTurn
  BY <1>0, <1>2, QueueForNextTurnKeeps
<1>3. ASSUME NEW a \in {Loop, Guard}, AbortStep(a)
      PROVE  TakesTask(a) \/ (a = Loop /\ DropsTurn) \/ Leaves(a) \/ Kills(a) \/ Clears(a)
  BY <1>0, <1>3, AbortTakeCases, AbortWaitKills, AbortClearClears DEF AbortStep
<1>4. ASSUME NEW a \in Actors, StartStep(a)
      PROVE  \/ Leaves(a) \/ Looks(a) \/ Reserves(a) \/ TakesWork(a) \/ FindsState(a)
             \/ HandsOver(a) \/ Installs(a)
  BY <1>0, <1>4, StartIfPendingWorkCases, ReserveTurnCases, StartTakePendingTakes,
     StartTurnStateFinds, StartExtendPendingHandsOver, StartInstallInstalls DEF StartStep
<1>5. ASSUME NEW t \in Turns, RunnerStep(t)
      PROVE  Digests(t) \/ Passes(t) \/ Detaches(t) \/ Completes(t) \/ Closes(t)
  BY <1>0, <1>5, RunnerCases
<1> QED
  BY <1>1, <1>2, <1>3, <1>4, <1>5, Names DEF Next

-----------------------------------------------------------------------------
(* Types, registers and fresh turns, in every session.                       *)

LEMMA InitBase == Init => BaseInv
<1> SUFFICES ASSUME Init PROVE BaseInv
  OBVIOUS
<1>1. TypeOK
  BY NoRegType, TurnBounds DEF Init, TypeOK, Steps, Stops, Ops
<1>2. RegInv /\ FreshInv
  BY NoRegType, Names DEF Init, RegInv, RegSound, FreshInv, Creators, Closing, Starting,
     Aborting, ActiveTask
<1> QED
  BY <1>1, <1>2 DEF BaseInv

\* Steps keep the types.
LEMMA TypesStep ==
  ASSUME BaseInv, Next
  PROVE  TypeOK'
<1>0. TypeOK /\ RegInv /\ FreshInv
  BY DEF BaseInv
<1> USE <1>0 DEF session, turns, fates
<1>1. ASSUME Accepts PROVE TypeOK'
  BY <1>1 DEF Accepts, TypeOK
<1>2. ASSUME Creates PROVE TypeOK'
  BY <1>2 DEF Creates, Elsewhere, TypeOK
<1>3. ASSUME Interrupts \/ Denies PROVE TypeOK'
  BY <1>3 DEF Interrupts, Denies, Elsewhere, TypeOK
<1>4. ASSUME Wakes \/ Keeps PROVE TypeOK'
  BY <1>4 DEF Wakes, Keeps, Elsewhere, TypeOK
<1>5. ASSUME DropsTurn PROVE TypeOK'
  BY <1>5 DEF DropsTurn, Elsewhere, TypeOK
<1>6. ASSUME NEW a \in {Loop, Guard}, TakesTask(a) PROVE TypeOK'
  BY <1>6 DEF TakesTask, Elsewhere, TypeOK
<1>7. ASSUME NEW a \in {Loop, Guard}, Kills(a) PROVE TypeOK'
  BY <1>7 DEF Kills, TypeOK
<1>8. ASSUME NEW a \in {Loop, Guard}, Clears(a) PROVE TypeOK'
  BY <1>8 DEF Clears, Elsewhere, TypeOK
<1>9. ASSUME NEW a \in Actors, Leaves(a) \/ Looks(a) PROVE TypeOK'
  BY <1>9 DEF Leaves, Looks, Elsewhere, TypeOK
<1>10. ASSUME NEW a \in Actors, Reserves(a) PROVE TypeOK'
  BY <1>10 DEF Reserves, Elsewhere, TypeOK
<1>11. ASSUME NEW a \in Actors, TakesWork(a) PROVE TypeOK'
  BY <1>11, PendingTypes DEF TakesWork, Elsewhere, TypeOK
<1>12. ASSUME NEW a \in Actors, FindsState(a) PROVE TypeOK'
  BY <1>12 DEF FindsState, GetsActive, Elsewhere, TypeOK
<1>13. ASSUME NEW a \in Actors, HandsOver(a) PROVE TypeOK'
  BY <1>13 DEF HandsOver, Elsewhere, TypeOK
<1>14. ASSUME NEW a \in Actors, Installs(a) PROVE TypeOK'
  BY <1>14 DEF Installs, GetsActive, TypeOK
<1>15. ASSUME NEW t \in Turns, Digests(t) PROVE TypeOK'
  BY <1>15 DEF Digests, TypeOK
<1>16. ASSUME NEW t \in Turns, Passes(t) PROVE TypeOK'
  BY <1>16 DEF Passes, Elsewhere, TypeOK
<1>17. ASSUME NEW t \in Turns, Detaches(t) PROVE TypeOK'
  BY <1>17 DEF Detaches, Elsewhere, TypeOK
<1>18. ASSUME NEW t \in Turns, Completes(t) PROVE TypeOK'
  BY <1>18 DEF Completes, Elsewhere, TypeOK
<1>19. ASSUME NEW t \in Turns, Closes(t) PROVE TypeOK'
  BY <1>19 DEF Closes, Elsewhere, TypeOK
<1> QED
  BY StepCases, <1>1, <1>2, <1>3, <1>4, <1>5, <1>6, <1>7, <1>8, <1>9, <1>10, <1>11, <1>12, <1>13,
     <1>14, <1>15, <1>16, <1>17, <1>18, <1>19

\* Steps keep the registers sound.
LEMMA RegsStep ==
  ASSUME BaseInv, Next
  PROVE  RegInv'
<1>0. TypeOK /\ RegInv /\ FreshInv /\ turnStates \in Nat /\ turnIds \in Nat
  BY NextNames DEF BaseInv, TypeOK
<1>a. /\ \A b \in Actors : reg[b].ts \in TurnStates \cup {None} /\ reg[b].turn \in Turns \cup {None}
      /\ \A s \in TurnStates : s \in Nat
      /\ active # None => active.ts \in TurnStates /\ active.ts # None
  BY <1>0, Names, ActiveCases DEF TypeOK, Regs
<1> USE <1>0, Names, NoRegType DEF session, turns, fates, Starting, Aborting, Closing
<1>1. ASSUME Accepts PROVE RegInv'
  BY <1>1 DEF Accepts, RegInv, RegSound
<1>2. ASSUME Creates PROVE RegInv'
  BY <1>2 DEF Creates, Elsewhere, RegInv, RegSound
<1>3. ASSUME Interrupts PROVE RegInv'
  BY <1>3 DEF Interrupts, Elsewhere, RegInv, RegSound
<1>4. ASSUME Denies PROVE RegInv'
  BY <1>4 DEF Denies, Elsewhere, RegInv, RegSound
<1>5. ASSUME Wakes PROVE RegInv'
  BY <1>5 DEF Wakes, Elsewhere, RegInv, RegSound
<1>6. ASSUME Keeps PROVE RegInv'
  BY <1>6 DEF Keeps, Elsewhere, RegInv, RegSound
<1>7. ASSUME DropsTurn PROVE RegInv'
  BY <1>7 DEF DropsTurn, Elsewhere, RegInv, RegSound
<1>8. ASSUME NEW a \in {Loop, Guard}, TakesTask(a) PROVE RegInv'
  BY <1>8, <1>a DEF TakesTask, Elsewhere, RegInv, RegSound
<1>9. ASSUME NEW a \in {Loop, Guard}, Kills(a) PROVE RegInv'
  <2>1. /\ UNCHANGED <<active, turnStates>> /\ reg' = reg
        /\ pc[a] = "ab_wait" /\ pc'[a] = "ab_clear"
        /\ \A b \in Actors : b # a => pc'[b] \in {pc[b], "killed"}
    BY <1>9 DEF Kills
  <2>2. ASSUME NEW b \in Actors PROVE RegSound(b)'
    <3>1. RegSound(b)
      BY DEF RegInv
    <3> QED
      BY <2>1, <3>1 DEF RegSound
  <2> QED
    BY <2>1, <2>2 DEF RegInv
<1>10. ASSUME NEW a \in {Loop, Guard}, Clears(a) PROVE RegInv'
  BY <1>10 DEF Clears, Elsewhere, RegInv, RegSound
<1>11. ASSUME NEW a \in Actors, Leaves(a) PROVE RegInv'
  BY <1>11 DEF Leaves, Elsewhere, RegInv, RegSound
<1>12. ASSUME NEW a \in Actors, Looks(a) PROVE RegInv'
  BY <1>12 DEF Looks, Elsewhere, RegInv, RegSound
<1>13. ASSUME NEW a \in Actors, Reserves(a) PROVE RegInv'
  <2>1. \A s \in TurnStates : s <= turnStates => s <= turnStates'
    BY <1>13, <1>a DEF Reserves
  <2>2. active'.ts <= turnStates'
    BY <1>13 DEF Reserves
  <2>3. reg'[a].turn # None /\ pc'[a] = "st_pend" /\ reg'[Guard].reason # "Replaced"
    BY <1>13 DEF Reserves, Elsewhere, RegInv, RegSound
  <2>4. \A b \in Actors : b # a => pc'[b] = pc[b] /\ reg'[b] = reg[b]
    BY <1>13 DEF Reserves, Elsewhere
  <2>5. RegSound(a)'
    BY <1>a, <2>2, <2>3 DEF RegSound
  <2>6. ASSUME NEW b \in Actors, b # a PROVE RegSound(b)'
    BY <1>a, <2>1, <2>4, <2>6 DEF RegInv, RegSound
  <2> QED
    BY <2>2, <2>3, <2>5, <2>6 DEF RegInv
<1>14. ASSUME NEW a \in Actors, TakesWork(a) PROVE RegInv'
  BY <1>14 DEF TakesWork, Elsewhere, RegInv, RegSound
<1>15. ASSUME NEW a \in Actors, FindsState(a) PROVE RegInv'
  <2>1. \A s \in TurnStates : s <= turnStates => s <= turnStates'
    BY <1>15, <1>a DEF FindsState, GetsActive, TypeOK
  <2>2. active'.ts <= turnStates' /\ active'.ts \in TurnStates
    BY <1>15, <1>a DEF FindsState, GetsActive, RegInv, RegSound
  <2>3. /\ reg'[a].turn # None /\ pc'[a] = "st_extend" /\ reg'[Guard].reason # "Replaced"
        /\ reg'[a].ts = active'.ts
    BY <1>15 DEF FindsState, Elsewhere, RegInv, RegSound
  <2>4. \A b \in Actors : b # a => pc'[b] = pc[b] /\ reg'[b] = reg[b]
    BY <1>15 DEF FindsState, Elsewhere
  <2>5. RegSound(a)'
    BY <1>a, <2>2, <2>3 DEF RegSound
  <2>6. ASSUME NEW b \in Actors, b # a PROVE RegSound(b)'
    BY <1>a, <2>1, <2>4, <2>6 DEF RegInv, RegSound
  <2> QED
    BY <2>2, <2>3, <2>5, <2>6 DEF RegInv
<1>16. ASSUME NEW a \in Actors, HandsOver(a) PROVE RegInv'
  BY <1>16 DEF HandsOver, Elsewhere, RegInv, RegSound
<1>17. ASSUME NEW a \in Actors, Installs(a) PROVE RegInv'
  <2>1. \A s \in TurnStates : s <= turnStates => s <= turnStates'
    BY <1>17, <1>a DEF Installs, GetsActive, TypeOK
  <2>2. active'.ts <= turnStates'
    BY <1>17, <1>a DEF Installs, GetsActive, RegInv, RegSound
  <2>3. pc'[a] \in Stops \cup {"r_done"} /\ reg'[a] = NoReg /\ reg'[Guard].reason # "Replaced"
    BY <1>17 DEF Installs, RegInv, RegSound, Stops
  <2>4. \A b \in Actors : b # a => reg'[b] = reg[b] /\ pc'[b] \in {pc[b], "killed", "r_start", "r_other"}
    BY <1>17 DEF Installs
  <2>5. RegSound(a)'
    BY <1>a, <2>2, <2>3 DEF RegSound, Stops
  <2>6. ASSUME NEW b \in Actors, b # a PROVE RegSound(b)'
    BY <1>a, <2>1, <2>4, <2>6 DEF RegInv, RegSound
  <2> QED
    BY <2>2, <2>3, <2>5, <2>6 DEF RegInv
<1>18. ASSUME NEW t \in Turns, Digests(t) PROVE RegInv'
  BY <1>18 DEF Digests, Running, Streaming, RegInv, RegSound
<1>19. ASSUME NEW t \in Turns, Passes(t) PROVE RegInv'
  BY <1>19 DEF Passes, Elsewhere, RegInv, RegSound
<1>20. ASSUME NEW t \in Turns, Detaches(t) PROVE RegInv'
  BY <1>20, <1>a DEF Detaches, Elsewhere, RegInv, RegSound
<1>21. ASSUME NEW t \in Turns, Completes(t) PROVE RegInv'
  <2>1. /\ UNCHANGED <<active, turnStates>> /\ pc[t] = "f_pend" /\ pc'[t] = "f_clear" /\ t \in Actors
        /\ \A b \in Actors : reg'[b] = reg[b] /\ (b # t => pc'[b] = pc[b])
    BY <1>21 DEF Completes, Elsewhere
  <2>2. ASSUME NEW b \in Actors PROVE RegSound(b)'
    <3>1. RegSound(b) /\ RegSound(t)
      BY <2>1 DEF RegInv
    <3>2. CASE b = t
      BY <2>1, <3>1, <3>2 DEF RegSound
    <3>3. CASE b # t
      BY <2>1, <3>1, <3>3 DEF RegSound
    <3> QED
      BY <3>2, <3>3
  <2> QED
    BY <2>1, <2>2 DEF RegInv
<1>22. ASSUME NEW t \in Turns, Closes(t) PROVE RegInv'
  BY <1>22 DEF Closes, Elsewhere, RegInv, RegSound
<1> QED
  BY StepCases, <1>1, <1>2, <1>3, <1>4, <1>5, <1>6, <1>7, <1>8, <1>9, <1>10, <1>11, <1>12,
     <1>13, <1>14, <1>15, <1>16, <1>17, <1>18, <1>19, <1>20, <1>21, <1>22

\* A step that creates and installs no turn.
Quiet ==
  /\ turnIds' = turnIds /\ kind' = kind
  /\ \A t \in Turns : /\ input'[t] \subseteq input[t]
                      /\ (pc'[t] = "parked") <=> (pc[t] = "parked")
                      /\ pc[t] = "parked" => outcome'[t] = outcome[t] /\ cancelled'[t] = cancelled[t]
  /\ ActiveTask' \in {ActiveTask, None}
  /\ \A b \in Actors : pc'[b] = "ab_wait" =>
       \/ pc[b] = "ab_wait" /\ reg'[b].task = reg[b].task
       \/ ActiveTask # None /\ reg'[b].task = ActiveTask
  /\ \A b \in Creators' : b \in Creators /\ reg'[b].turn = reg[b].turn

LEMMA QuietKeepsFresh ==
  ASSUME TypeOK, FreshInv, Quiet
  PROVE  FreshInv'
<1>1. ASSUME NEW t \in Turns
      PROVE  /\ t > turnIds' => pc'[t] = "parked" /\ input'[t] = {}
             /\ kind'[t] = "Compact" => input'[t] = {}
  BY <1>1 DEF Quiet, FreshInv
<1>2. ASSUME NEW t \in Turns, pc'[t] = "parked"
      PROVE  outcome'[t] = {} /\ ~ cancelled'[t] /\ ActiveTask' # t
  BY <1>2, Names DEF Quiet, FreshInv
<1>3. ASSUME NEW t \in Turns, pc'[t] = "parked", NEW a \in Actors, pc'[a] = "ab_wait"
      PROVE  reg'[a].task # t
  BY <1>3 DEF Quiet, FreshInv
<1>4. ASSUME NEW a \in Creators'
      PROVE  /\ reg'[a].turn <= turnIds' /\ pc'[reg'[a].turn] = "parked"
             /\ \A b \in Creators' : reg'[b].turn = reg'[a].turn => b = a
  <2>1. a \in Creators /\ reg'[a].turn = reg[a].turn /\ reg[a].turn \in Turns
    BY <1>4 DEF Quiet, Creators, TypeOK, Regs
  <2> QED
    BY <2>1 DEF Quiet, FreshInv
<1> QED
  BY <1>1, <1>2, <1>3, <1>4 DEF FreshInv

\* An actor creates a turn, which no other has.
LEMMA NewCreator ==
  ASSUME TypeOK, FreshInv, turnIds \in Nat, NEW a \in Actors, turnIds + 1 \in Turns,
         turnIds' = turnIds + 1, outcome' = outcome, cancelled' = cancelled, ActiveTask' \in {ActiveTask, None},
         \A t \in Turns : pc'[t] = "parked" <=> pc[t] = "parked",
         \A t \in Turns : t # turnIds + 1 => kind'[t] = kind[t] /\ input'[t] = input[t],
         kind'[turnIds + 1] = "Compact" => input'[turnIds + 1] = {},
         pc'[a] # "ab_wait", reg'[a].turn = turnIds + 1,
         \A b \in Actors : b # a => pc'[b] = pc[b] /\ reg'[b] = reg[b]
  PROVE  FreshInv'
<1>0. /\ \A b \in Actors : reg[b].turn \in Turns \cup {None}
      /\ \A t \in Turns : t \in Nat
  BY Names DEF TypeOK, Regs
<1>1. ASSUME NEW t \in Turns
      PROVE  /\ t > turnIds' => pc'[t] = "parked" /\ input'[t] = {}
             /\ kind'[t] = "Compact" => input'[t] = {}
  BY <1>0, <1>1 DEF FreshInv
<1>2. ASSUME NEW t \in Turns, pc'[t] = "parked"
      PROVE  outcome'[t] = {} /\ ~ cancelled'[t] /\ ActiveTask' # t
  BY <1>2, Names DEF FreshInv
<1>3. ASSUME NEW t \in Turns, pc'[t] = "parked", NEW b \in Actors, pc'[b] = "ab_wait"
      PROVE  reg'[b].task # t
  BY <1>3 DEF FreshInv
<1>4. pc'[turnIds + 1] = "parked"
  BY <1>0 DEF FreshInv
<1>5. ASSUME NEW b \in Creators', b # a
      PROVE  b \in Creators /\ reg'[b].turn = reg[b].turn /\ reg[b].turn \in Turns
             /\ reg[b].turn <= turnIds /\ pc'[reg[b].turn] = "parked"
  BY <1>0, <1>5 DEF Creators, FreshInv
<1>6. ASSUME NEW b \in Creators'
      PROVE  /\ reg'[b].turn <= turnIds' /\ pc'[reg'[b].turn] = "parked"
             /\ \A c \in Creators' : reg'[c].turn = reg'[b].turn => c = b
  BY <1>0, <1>4, <1>5, <1>6 DEF FreshInv
<1> QED
  BY <1>1, <1>2, <1>3, <1>6 DEF FreshInv

\* Nobody waits for a turn that is not installed yet.
LEMMA ParkedNotAwaited ==
  ASSUME FreshInv, NEW t \in Turns, pc[t] = "parked", NEW b \in Actors, pc[b] = "ab_wait"
  PROVE  reg[b].task # t
BY DEF FreshInv

\* Steps keep turns fresh until they are installed.
LEMMA FreshStep ==
  ASSUME BaseInv, Next
  PROVE  FreshInv'
<1>0. TypeOK /\ RegInv /\ FreshInv /\ turnIds \in Nat
  BY NextNames DEF BaseInv, TypeOK
<1>a. /\ \A b \in Actors : reg[b].turn \in Turns \cup {None} /\ reg[b].task \in Turns \cup {None}
      /\ \A t \in Turns : t \in Nat /\ t \in Actors
      /\ ActiveTask \in Turns \cup {None}
  BY <1>0, Names, ActiveCases DEF TypeOK, Regs
<1> USE <1>0, <1>a, Names, NoRegType DEF session, turns, fates, Starting, ActiveTask
<1>1. ASSUME Accepts PROVE Quiet
  BY <1>1 DEF Accepts, Quiet, Creators
<1>2. ASSUME Creates PROVE FreshInv'
  <2>1. /\ turnIds + 1 \in Turns /\ turnIds' = turnIds + 1 /\ ActiveTask' = ActiveTask /\ outcome' = outcome /\ cancelled' = cancelled
        /\ \A t \in Turns : pc'[t] = pc[t] /\ (t # turnIds + 1 => kind'[t] = kind[t] /\ input'[t] = input[t])
        /\ kind'[turnIds + 1] = "Compact" => input'[turnIds + 1] = {}
        /\ pc'[Loop] = "ab_take" /\ reg'[Loop].turn = turnIds + 1
        /\ \A b \in Actors : b # Loop => pc'[b] = pc[b] /\ reg'[b] = reg[b]
    BY <1>2 DEF Creates, Elsewhere
  <2> QED
    BY <2>1, NewCreator
<1>3. ASSUME Interrupts PROVE Quiet
  BY <1>3 DEF Interrupts, Elsewhere, Quiet, Creators
<1>4. ASSUME Denies PROVE Quiet
  BY <1>4 DEF Denies, Elsewhere, Quiet, Creators
<1>5. ASSUME Wakes PROVE Quiet
  BY <1>5 DEF Wakes, Elsewhere, Quiet, Creators
<1>6. ASSUME Keeps PROVE Quiet
  BY <1>6 DEF Keeps, Elsewhere, Quiet, Creators
<1>7. ASSUME DropsTurn PROVE Quiet
  BY <1>7 DEF DropsTurn, Elsewhere, Quiet, Creators
<1>8. ASSUME NEW a \in {Loop, Guard}, TakesTask(a) PROVE Quiet
  <2>1. \A t \in Turns : pc[t] = "parked" => t # ActiveTask
    BY DEF FreshInv
  <2>2. \A t \in Turns : pc[t] = "parked" => cancelled'[t] = cancelled[t]
    BY <1>8, <2>1 DEF TakesTask
  <2>3. /\ turnIds' = turnIds /\ ActiveTask' = None /\ UNCHANGED <<outcome, kind, input>>
        /\ pc[a] = "ab_take" /\ pc'[a] \in {"ab_wait", "ab_clear"} /\ reg'[a].turn = reg[a].turn
        /\ reg'[a].task = ActiveTask /\ ActiveTask # None
    BY <1>8 DEF TakesTask
  <2>4. \A b \in Actors : b # a => pc'[b] = pc[b] /\ reg'[b] = reg[b]
    BY <1>8 DEF TakesTask, Elsewhere
  <2> HIDE DEF ActiveTask
  <2> QED
    BY <2>1, <2>2, <2>3, <2>4 DEF Quiet, Creators
<1>9. ASSUME NEW a \in {Loop, Guard}, Kills(a) PROVE Quiet
  <2>0. pc[a] = "ab_wait" /\ reg[a].task \in Turns /\ a \in Actors
    BY <1>9 DEF Kills
  <2>1. pc[reg[a].task] # "parked"
    BY <2>0, ParkedNotAwaited
  <2>2. \A t \in Turns : /\ (pc'[t] = "parked") <=> (pc[t] = "parked")
                         /\ pc[t] = "parked" => outcome'[t] = outcome[t] /\ cancelled'[t] = cancelled[t]
                         /\ input'[t] \subseteq input[t]
    BY <1>9, <2>1 DEF Kills, Stops
  <2>3. \A b \in Actors : reg'[b] = reg[b] /\ pc'[b] \in {pc[b], "ab_clear", "killed"}
    BY <1>9 DEF Kills
  <2>4. ActiveTask' = ActiveTask /\ turnIds' = turnIds /\ kind' = kind
    BY <1>9 DEF Kills
  <2> QED
    BY <2>2, <2>3, <2>4 DEF Quiet, Creators
<1>10. ASSUME NEW a \in {Loop, Guard}, Clears(a) PROVE Quiet
  BY <1>10 DEF Clears, Elsewhere, Quiet, Creators, RegInv
<1>11. ASSUME NEW a \in Actors, Leaves(a) PROVE Quiet
  BY <1>11 DEF Leaves, Elsewhere, Quiet, Creators
<1>12. ASSUME NEW a \in Actors, Looks(a) PROVE Quiet
  BY <1>12 DEF Looks, Elsewhere, Quiet, Creators
<1>13. ASSUME NEW a \in Actors, Reserves(a) PROVE FreshInv'
  BY <1>13 DEF Reserves, Elsewhere, FreshInv, Creators
<1>14. ASSUME NEW a \in Actors, TakesWork(a) PROVE Quiet
  BY <1>14 DEF TakesWork, Elsewhere, Quiet, Creators
<1>15. ASSUME NEW a \in Actors, FindsState(a) PROVE Quiet
  BY <1>15 DEF FindsState, GetsActive, Elsewhere, Quiet, Creators
<1>16. ASSUME NEW a \in Actors, HandsOver(a) PROVE Quiet
  BY <1>16 DEF HandsOver, Elsewhere, Quiet, Creators
<1>17. ASSUME NEW a \in Actors, Installs(a) PROVE FreshInv'
  <2> DEFINE u == reg[a].turn
  <2>1. /\ u \in Turns /\ u # a /\ pc'[u] # "parked" /\ pc'[u] \in {"r_start", "r_other"}
        /\ ActiveTask' = u /\ reg'[a] = NoReg
        /\ pc[a] = "st_install" /\ (a \in Turns => pc'[a] # "parked") /\ pc'[a] # "ab_wait"
        /\ UNCHANGED <<turnIds, kind, input, cancelled, outcome>>
    BY <1>17 DEF Installs
  <2>2. \A b \in Actors : b # a => reg'[b] = reg[b]
    BY <1>17 DEF Installs
  <2>3. \A b \in Actors : b # a /\ b # u => pc'[b] = pc[b] \/ (pc'[b] = "killed" /\ pc[b] # "parked")
    BY <1>17 DEF Installs, Stops
  <2>4. a \in Creators
    BY <2>1 DEF Creators
  <2>5. pc[u] = "parked" /\ \A b \in Creators : b # a => reg[b].turn # u
    BY <2>4 DEF FreshInv
  <2>6. \A t \in Turns : t # u => ((pc'[t] = "parked") <=> (pc[t] = "parked"))
    BY <2>1, <2>3
  <2>7. ASSUME NEW t \in Turns
        PROVE  /\ t > turnIds' => pc'[t] = "parked" /\ input'[t] = {}
               /\ kind'[t] = "Compact" => input'[t] = {}
               /\ pc'[t] = "parked" => outcome'[t] = {} /\ ~ cancelled'[t] /\ ActiveTask' # t
    <3>1. u <= turnIds
      BY <2>4 DEF FreshInv
    <3>2. t > turnIds => t # u
      BY <3>1
    <3>3. CASE t = u
      BY <2>1, <3>2, <3>3 DEF FreshInv
    <3>4. CASE t # u
      BY <2>1, <2>6, <3>4 DEF FreshInv
    <3> QED
      BY <3>3, <3>4
  <2>8. ASSUME NEW t \in Turns, pc'[t] = "parked", NEW b \in Actors, pc'[b] = "ab_wait"
        PROVE  reg'[b].task # t
    <3>1. pc[t] = "parked" /\ pc[b] = "ab_wait" /\ reg'[b] = reg[b]
      BY <2>1, <2>2, <2>3, <2>5, <2>6, <2>8
    <3> QED
      BY <3>1, ParkedNotAwaited
  <2>9. ASSUME NEW b \in Creators'
        PROVE  b \in Creators /\ b # a /\ reg'[b].turn = reg[b].turn
    BY <2>1, <2>2, <2>3, <2>9 DEF Creators
  <2>10. ASSUME NEW b \in Creators'
         PROVE  /\ reg'[b].turn <= turnIds' /\ pc'[reg'[b].turn] = "parked"
                /\ \A c \in Creators' : reg'[c].turn = reg'[b].turn => c = b
    <3>1. reg[b].turn \in Turns /\ reg[b].turn # u /\ reg[b].turn <= turnIds /\ pc[reg[b].turn] = "parked"
      BY <2>5, <2>9, <2>10 DEF FreshInv, Creators
    <3>2. pc'[reg[b].turn] = "parked"
      BY <2>6, <3>1
    <3> QED
      BY <2>1, <2>9, <2>10, <3>1, <3>2 DEF FreshInv
  <2> QED
    BY <2>7, <2>8, <2>10 DEF FreshInv
<1>18. ASSUME NEW t \in Turns, Digests(t) PROVE Quiet
  BY <1>18 DEF Digests, Running, Streaming, Quiet, Creators
<1>19. ASSUME NEW t \in Turns, Passes(t) PROVE Quiet
  BY <1>19 DEF Passes, Elsewhere, Quiet, Creators
<1>20. ASSUME NEW t \in Turns, Detaches(t) PROVE Quiet
  BY <1>20 DEF Detaches, Elsewhere, Quiet, Creators
<1>21. ASSUME NEW t \in Turns, Completes(t) PROVE Quiet
  BY <1>21 DEF Completes, Elsewhere, Quiet, Creators
<1>22. ASSUME NEW t \in Turns, Closes(t) PROVE Quiet
  BY <1>22 DEF Closes, Elsewhere, Quiet, Creators
<1> QED
  BY StepCases, QuietKeepsFresh, <1>1, <1>2, <1>3, <1>4, <1>5, <1>6, <1>7, <1>8, <1>9, <1>10,
     <1>11, <1>12, <1>13, <1>14, <1>15, <1>16, <1>17, <1>18, <1>19, <1>20, <1>21, <1>22

\* The invariant of every session.
LEMMA BaseHolds == Spec => []BaseInv
<1>1. BaseInv /\ [Next]_vars => BaseInv'
  <2>1. ASSUME BaseInv, Next PROVE BaseInv'
    BY <2>1, TypesStep, RegsStep, FreshStep DEF BaseInv
  <2>2. ASSUME BaseInv, UNCHANGED vars PROVE BaseInv'
    BY <2>2 DEF BaseInv, TypeOK, RegInv, RegSound, FreshInv, Creators, ActiveTask,
                vars, session, turns, fates
  <2> QED
    BY <2>1, <2>2
<1> QED
  BY <1>1, InitBase, PTL DEF Spec

\* The session's shared state and the local variables of its actors keep their
\* types: no actor reads a turn, a task or a turn state that is not there.
THEOREM SessionTypes == Spec => []TypeOK
<1>1. BaseInv => TypeOK
  BY DEF BaseInv
<1> QED
  BY <1>1, BaseHolds, PTL

\* In every session, also a disturbed one, a turn that spawn_task or
\* maybe_start_turn_for_pending_work created is held by that one caller until it
\* installs the turn; before that it is not active, cancelled or reported.
THEOREM TurnsFresh == Spec => []FreshInv
<1>1. BaseInv => FreshInv
  BY DEF BaseInv
<1> QED
  BY <1>1, BaseHolds, PTL

-----------------------------------------------------------------------------
(* No task in the way, when only the loop starts turns.                      *)

LEMMA WayStep ==
  ASSUME BaseInv, NoSelfStart, WayInv, Next
  PROVE  WayInv'
<1>0. TypeOK /\ RegInv /\ FreshInv
  BY DEF BaseInv
<1>a. /\ ActiveTask = IF active = None THEN None ELSE active.task
      /\ ActiveTask' = IF active' = None THEN None ELSE active'.task
  BY DEF ActiveTask
<1> USE <1>0, <1>a, Names DEF session, turns, fates, Starting, WayInv
<1>1. ASSUME Accepts PROVE WayInv'
  BY <1>1 DEF Accepts
<1>2. ASSUME Creates PROVE WayInv'
  BY <1>2 DEF Creates, Elsewhere
<1>3. ASSUME Interrupts PROVE WayInv'
  BY <1>3 DEF Interrupts, Elsewhere
<1>4. ASSUME Denies PROVE WayInv'
  BY <1>4 DEF Denies, Elsewhere
<1>5. ASSUME Wakes PROVE WayInv'
  BY <1>5 DEF Wakes, Elsewhere
<1>6. ASSUME Keeps PROVE WayInv'
  BY <1>6 DEF Keeps, Elsewhere, NoSelfStart
<1>7. ASSUME DropsTurn PROVE WayInv'
  BY <1>7 DEF DropsTurn, Elsewhere
<1>8. ASSUME NEW a \in {Loop, Guard}, TakesTask(a) PROVE WayInv'
  BY <1>8 DEF TakesTask, Elsewhere
<1>9. ASSUME NEW a \in {Loop, Guard}, Kills(a) PROVE WayInv'
  BY <1>9 DEF Kills, Stops
<1>10. ASSUME NEW a \in {Loop, Guard}, Clears(a) PROVE WayInv'
  BY <1>10 DEF Clears, Elsewhere, RegInv
<1>11. ASSUME NEW a \in Actors, Leaves(a) PROVE WayInv'
  BY <1>11 DEF Leaves, Elsewhere
<1>12. ASSUME NEW a \in Actors, Looks(a) PROVE WayInv'
  BY <1>12 DEF Looks, Elsewhere
<1>13. ASSUME NEW a \in Actors, Reserves(a) PROVE WayInv'
  BY <1>13 DEF Reserves, Elsewhere
<1>14. ASSUME NEW a \in Actors, TakesWork(a) PROVE WayInv'
  BY <1>14 DEF TakesWork, Elsewhere
<1>15. ASSUME NEW a \in Actors, FindsState(a) PROVE WayInv'
  BY <1>15 DEF FindsState, GetsActive, Elsewhere
<1>16. ASSUME NEW a \in Actors, HandsOver(a) PROVE WayInv'
  BY <1>16 DEF HandsOver, Elsewhere
<1>17. ASSUME NEW a \in Actors, Installs(a) PROVE WayInv'
  BY <1>17 DEF Installs, GetsActive
<1>18. ASSUME NEW t \in Turns, Digests(t) PROVE WayInv'
  BY <1>18 DEF Digests, Running, Streaming
<1>19. ASSUME NEW t \in Turns, Passes(t) PROVE WayInv'
  BY <1>19 DEF Passes, Elsewhere
<1>20. ASSUME NEW t \in Turns, Detaches(t) PROVE WayInv'
  BY <1>20 DEF Detaches, Elsewhere
<1>21. ASSUME NEW t \in Turns, Completes(t) PROVE WayInv'
  BY <1>21 DEF Completes, Elsewhere
<1>22. ASSUME NEW t \in Turns, Closes(t) PROVE WayInv'
  BY <1>22 DEF Closes, Elsewhere
<1> QED
  BY StepCases, <1>1, <1>2, <1>3, <1>4, <1>5, <1>6, <1>7, <1>8, <1>9, <1>10, <1>11, <1>12,
     <1>13, <1>14, <1>15, <1>16, <1>17, <1>18, <1>19, <1>20, <1>21, <1>22

\* When no mail or approval starts a turn by itself, nobody but the loop fills the
\* active turn between the abort and the install, whatever the guardian aborts.
LEMMA NoTaskMetByLoop == NoSelfStart /\ Spec => []NoTaskInTheWay
<1>1. NoSelfStart /\ Init => WayInv
  BY Names DEF Init, WayInv, Starting
<1>2. (NoSelfStart /\ WayInv) /\ BaseInv /\ [Next]_vars => (NoSelfStart /\ WayInv)'
  <2>1. ASSUME WayInv, UNCHANGED vars PROVE WayInv'
    BY <2>1 DEF WayInv, ActiveTask, vars, session
  <2>2. NoSelfStart' = NoSelfStart
    BY DEF NoSelfStart
  <2> QED
    BY <2>1, <2>2, WayStep
<1>3. WayInv => NoTaskInTheWay
  BY Names DEF WayInv, NoTaskInTheWay, Starting
<1> QED
  BY <1>1, <1>2, <1>3, BaseHolds, PTL DEF Spec

-----------------------------------------------------------------------------
(* An undisturbed session.                                                   *)

LEMMA InitUndisturbed == Init => PlaceInv /\ OwnerInv /\ StartInv /\ ReservationOwned
<1> SUFFICES ASSUME Init PROVE PlaceInv /\ OwnerInv /\ StartInv /\ ReservationOwned
  OBVIOUS
<1> USE Names, NoRegType DEF Init, Starting, Aborting, Closing, Working, Running, Streaming, ActiveTask
<1>1. PlaceInv
  BY DEF PlaceInv
<1>2. OwnerInv
  BY DEF OwnerInv
<1>3. StartInv /\ ReservationOwned
  BY DEF StartInv, ReservationOwned
<1> QED
  BY <1>1, <1>2, <1>3

\* Actors stay where an undisturbed session has them.
LEMMA PlaceStep ==
  ASSUME IInv, Undisturbed, Next
  PROVE  PlaceInv'
<1>0. /\ TypeOK /\ RegInv /\ FreshInv /\ PlaceInv /\ OwnerInv /\ StartInv /\ ReservationOwned
      /\ MaxGuardAborts = 0 /\ (NoSelfStart \/ NoReplacement)
  BY DEF IInv, BaseInv, Undisturbed
<1>a. /\ ActiveTask = IF active = None THEN None ELSE active.task
      /\ ActiveTask' = IF active' = None THEN None ELSE active'.task
      /\ ActiveTask \in Turns \cup {None} /\ pc[Guard] = "parked"
  BY <1>0, ActiveCases DEF ActiveTask, TypeOK, PlaceInv
<1> USE <1>0, <1>a, Names, NoRegType DEF session, turns, fates, Starting, Aborting, Closing, Working, Running, Streaming, PlaceInv
<1>1. ASSUME Accepts PROVE PlaceInv'
  BY <1>1 DEF Accepts
<1>2. ASSUME Creates PROVE PlaceInv'
  BY <1>2 DEF Creates, Elsewhere
<1>3. ASSUME Interrupts PROVE PlaceInv'
  BY <1>3 DEF Interrupts, Elsewhere
<1>4. ASSUME Denies PROVE PlaceInv'
  BY <1>4 DEF Denies, Elsewhere
<1>5. ASSUME Wakes PROVE PlaceInv'
  BY <1>5 DEF Wakes, Elsewhere
<1>6. ASSUME Keeps PROVE PlaceInv'
  BY <1>6 DEF Keeps, Elsewhere, NoSelfStart
<1>7. ASSUME DropsTurn PROVE PlaceInv'
  BY <1>7 DEF DropsTurn, Elsewhere
<1>8. ASSUME NEW a \in {Loop, Guard}, TakesTask(a) PROVE PlaceInv'
  BY <1>8 DEF TakesTask, Elsewhere
<1>9. ASSUME NEW a \in {Loop, Guard}, Kills(a) PROVE PlaceInv'
  BY <1>9 DEF Kills, Stops
<1>10. ASSUME NEW a \in {Loop, Guard}, Clears(a) PROVE PlaceInv'
  BY <1>10 DEF Clears, Elsewhere
<1>11. ASSUME NEW a \in Actors, Leaves(a) PROVE PlaceInv'
  BY <1>11 DEF Leaves, Elsewhere
<1>12. ASSUME NEW a \in Actors, Looks(a) PROVE PlaceInv'
  BY <1>12 DEF Looks, Elsewhere
<1>13. ASSUME NEW a \in Actors, Reserves(a) PROVE PlaceInv'
  BY <1>13 DEF Reserves, Elsewhere
<1>14. ASSUME NEW a \in Actors, TakesWork(a) PROVE PlaceInv'
  BY <1>14 DEF TakesWork, Elsewhere
<1>15. ASSUME NEW a \in Actors, FindsState(a) PROVE PlaceInv'
  BY <1>15 DEF FindsState, GetsActive, Elsewhere
<1>16. ASSUME NEW a \in Actors, HandsOver(a) PROVE PlaceInv'
  BY <1>16 DEF HandsOver, Elsewhere
<1>17. ASSUME NEW a \in Actors, Installs(a) PROVE PlaceInv'
  <2>1. ActiveTask = None /\ pc[reg[a].turn] = "parked" /\ reg[a].turn \in Turns
    BY <1>17 DEF Installs, StartInv, FreshInv, Creators, RegInv, RegSound
  <2>2. reg[reg[a].turn].turn = None
    BY <2>1
  <2>3. \A b \in Actors \ {a, reg[a].turn} : pc'[b] = pc[b]
    BY <1>17, <2>1 DEF Installs
  <2> QED
    BY <1>17, <2>1, <2>2, <2>3 DEF Installs
<1>18. ASSUME NEW t \in Turns, Digests(t) PROVE PlaceInv'
  BY <1>18 DEF Digests, Running, Streaming
<1>19. ASSUME NEW t \in Turns, Passes(t) PROVE PlaceInv'
  BY <1>19 DEF Passes, Elsewhere
<1>20. ASSUME NEW t \in Turns, Detaches(t) PROVE PlaceInv'
  BY <1>20 DEF Detaches, Elsewhere
<1>21. ASSUME NEW t \in Turns, Completes(t) PROVE PlaceInv'
  BY <1>21 DEF Completes, Elsewhere
<1>22. ASSUME NEW t \in Turns, Closes(t) PROVE PlaceInv'
  BY <1>22 DEF Closes, Elsewhere
<1> QED
  BY StepCases, <1>1, <1>2, <1>3, <1>4, <1>5, <1>6, <1>7, <1>8, <1>9, <1>10, <1>11, <1>12,
     <1>13, <1>14, <1>15, <1>16, <1>17, <1>18, <1>19, <1>20, <1>21, <1>22 DEF IInv

\* A reserved turn keeps its owner.
LEMMA ReservationStep ==
  ASSUME IInv, Undisturbed, Next
  PROVE  ReservationOwned'
<1>0. /\ TypeOK /\ RegInv /\ FreshInv /\ PlaceInv /\ OwnerInv /\ StartInv /\ ReservationOwned
      /\ MaxGuardAborts = 0 /\ (NoSelfStart \/ NoReplacement)
  BY DEF IInv, BaseInv, Undisturbed
<1>a. /\ ActiveTask = IF active = None THEN None ELSE active.task
      /\ ActiveTask' = IF active' = None THEN None ELSE active'.task
      /\ ActiveTask \in Turns \cup {None} /\ pc[Guard] = "parked"
  BY <1>0, ActiveCases DEF ActiveTask, TypeOK, PlaceInv
<1> USE <1>0, <1>a, Names, NoRegType DEF session, turns, fates, Starting, Closing, Working, Running, Streaming, ReservationOwned
<1>1. ASSUME Accepts PROVE ReservationOwned'
  BY <1>1 DEF Accepts
<1>2. ASSUME Creates PROVE ReservationOwned'
  BY <1>2 DEF Creates, Elsewhere
<1>3. ASSUME Interrupts PROVE ReservationOwned'
  BY <1>3 DEF Interrupts, Elsewhere
<1>4. ASSUME Denies PROVE ReservationOwned'
  BY <1>4 DEF Denies, Elsewhere
<1>5. ASSUME Wakes PROVE ReservationOwned'
  BY <1>5 DEF Wakes, Elsewhere
<1>6. ASSUME Keeps PROVE ReservationOwned'
  BY <1>6 DEF Keeps, Elsewhere
<1>7. ASSUME DropsTurn PROVE ReservationOwned'
  BY <1>7 DEF DropsTurn, Elsewhere
<1>8. ASSUME NEW a \in {Loop, Guard}, TakesTask(a) PROVE ReservationOwned'
  BY <1>8 DEF TakesTask, Elsewhere
<1>9. ASSUME NEW a \in {Loop, Guard}, Kills(a) PROVE ReservationOwned'
  BY <1>9 DEF Kills, Stops, OwnerInv
<1>10. ASSUME NEW a \in {Loop, Guard}, Clears(a) PROVE ReservationOwned'
  BY <1>10 DEF Clears, Elsewhere, StartInv
<1>11. ASSUME NEW a \in Actors, Leaves(a) PROVE ReservationOwned'
  BY <1>11 DEF Leaves, Elsewhere
<1>12. ASSUME NEW a \in Actors, Looks(a) PROVE ReservationOwned'
  BY <1>12 DEF Looks, Elsewhere
<1>13. ASSUME NEW a \in Actors, Reserves(a) PROVE ReservationOwned'
  BY <1>13 DEF Reserves, Elsewhere
<1>14. ASSUME NEW a \in Actors, TakesWork(a) PROVE ReservationOwned'
  BY <1>14 DEF TakesWork, Elsewhere
<1>15. ASSUME NEW a \in Actors, FindsState(a) PROVE ReservationOwned'
  BY <1>15 DEF FindsState, GetsActive, Elsewhere
<1>16. ASSUME NEW a \in Actors, HandsOver(a) PROVE ReservationOwned'
  BY <1>16 DEF HandsOver, Elsewhere
<1>17. ASSUME NEW a \in Actors, Installs(a) PROVE ReservationOwned'
  BY <1>17 DEF Installs, GetsActive
<1>18. ASSUME NEW t \in Turns, Digests(t) PROVE ReservationOwned'
  BY <1>18 DEF Digests, Running, Streaming
<1>19. ASSUME NEW t \in Turns, Passes(t) PROVE ReservationOwned'
  BY <1>19 DEF Passes, Elsewhere
<1>20. ASSUME NEW t \in Turns, Detaches(t) PROVE ReservationOwned'
  BY <1>20 DEF Detaches, Elsewhere
<1>21. ASSUME NEW t \in Turns, Completes(t) PROVE ReservationOwned'
  BY <1>21 DEF Completes, Elsewhere
<1>22. ASSUME NEW t \in Turns, Closes(t) PROVE ReservationOwned'
  <2>1. active # None => active = [ts |-> active.ts, task |-> active.task]
    BY ActiveCases DEF TypeOK
  <2> QED
    BY <1>22, <2>1 DEF Closes, Elsewhere
<1> QED
  BY StepCases, <1>1, <1>2, <1>3, <1>4, <1>5, <1>6, <1>7, <1>8, <1>9, <1>10, <1>11, <1>12,
     <1>13, <1>14, <1>15, <1>16, <1>17, <1>18, <1>19, <1>20, <1>21, <1>22 DEF IInv

\* A step that starts and ends no work and reports nothing.
KeepsOwners ==
  /\ outcome' = outcome /\ cancelled' = cancelled /\ ActiveTask' = ActiveTask
  /\ \A t \in Turns : /\ (pc'[t] \in Working) <=> (pc[t] \in Working)
                      /\ pc'[t] = "f_pend" => pc[t] = "f_pend"
                      /\ pc[t] \in {"r_done", "ended"} => pc'[t] \in {"r_done", "ended"}
  /\ (pc'[Loop] = "ab_wait") <=> (pc[Loop] = "ab_wait")
  /\ pc[Loop] = "ab_wait" => reg'[Loop].task = reg[Loop].task

LEMMA OwnerKept ==
  ASSUME OwnerInv, KeepsOwners, pc[Loop] = "ab_wait" => reg[Loop].task \in Turns
  PROVE  OwnerInv'
<1>1. ASSUME NEW t \in Turns
      PROVE  /\ pc'[t] \in Working => ActiveTask' = t \/ (pc'[Loop] = "ab_wait" /\ reg'[Loop].task = t)
             /\ ActiveTask' = t => pc'[t] \in Working /\ ~ cancelled'[t] /\ outcome'[t] = {}
             /\ pc'[t] = "f_pend" => outcome'[t] = {}
             /\ outcome'[t] \in {{}, {"complete"}, {"aborted"}}
  BY <1>1 DEF OwnerInv, KeepsOwners
<1>2. ASSUME pc'[Loop] = "ab_wait"
      PROVE  /\ pc'[reg'[Loop].task] \in Working \cup {"r_done", "ended"}
             /\ outcome'[reg'[Loop].task] = {}
  BY <1>2 DEF OwnerInv, KeepsOwners
<1> QED
  BY <1>1, <1>2 DEF OwnerInv

\* A runner at work keeps its owner, and nothing is reported of it.
LEMMA OwnerStep ==
  ASSUME IInv, Undisturbed, Next
  PROVE  OwnerInv'
<1>0. /\ TypeOK /\ RegInv /\ FreshInv /\ PlaceInv /\ OwnerInv /\ StartInv /\ ReservationOwned
      /\ MaxGuardAborts = 0 /\ (NoSelfStart \/ NoReplacement)
  BY DEF IInv, BaseInv, Undisturbed
<1>a. /\ ActiveTask = IF active = None THEN None ELSE active.task
      /\ ActiveTask' = IF active' = None THEN None ELSE active'.task
      /\ ActiveTask \in Turns \cup {None} /\ pc[Guard] = "parked"
  BY <1>0, ActiveCases DEF ActiveTask, TypeOK, PlaceInv
<1>b. pc[Loop] = "ab_wait" => reg[Loop].task \in Turns
  BY <1>0, Names DEF RegInv, RegSound, TypeOK, Regs
<1> USE <1>0, <1>a, Names, NoRegType DEF session, turns, fates
<1>1. ASSUME Accepts PROVE OwnerInv'
  BY <1>1 DEF Accepts, Working, Running, Streaming, OwnerInv
<1>2. ASSUME Creates PROVE OwnerInv'
  BY <1>2 DEF Creates, Elsewhere, Working, Running, Streaming, OwnerInv
<1>3. ASSUME Interrupts PROVE OwnerInv'
  BY <1>3 DEF Interrupts, Elsewhere, Working, Running, Streaming, OwnerInv
<1>4. ASSUME Denies PROVE OwnerInv'
  BY <1>4 DEF Denies, Elsewhere, Working, Running, Streaming, OwnerInv
<1>5. ASSUME Wakes PROVE OwnerInv'
  BY <1>5 DEF Wakes, Elsewhere, Working, Running, Streaming, OwnerInv
<1>6. ASSUME Keeps PROVE OwnerInv'
  BY <1>6 DEF Keeps, Elsewhere, Working, Running, Streaming, OwnerInv
<1>7. ASSUME DropsTurn PROVE OwnerInv'
  BY <1>7 DEF DropsTurn, Elsewhere, Working, Running, Streaming, OwnerInv
<1>8. ASSUME NEW a \in {Loop, Guard}, TakesTask(a) PROVE OwnerInv'
  BY <1>8 DEF TakesTask, Elsewhere, FreshInv, Working, Running, Streaming, OwnerInv
<1>9. ASSUME NEW a \in {Loop, Guard}, Kills(a) PROVE OwnerInv'
  BY <1>9 DEF Kills, Stops, StartInv, Working, Running, Streaming, OwnerInv
<1>10. ASSUME NEW a \in {Loop, Guard}, Clears(a) PROVE OwnerInv'
  BY <1>10 DEF Clears, Elsewhere, Working, Running, Streaming, OwnerInv
<1>11. ASSUME NEW a \in Actors, Leaves(a) PROVE OwnerInv'
  <2>1. KeepsOwners
    BY <1>11 DEF Leaves, Elsewhere, Working, Running, Streaming, KeepsOwners
  <2> QED
    BY <1>b, <2>1, OwnerKept
<1>12. ASSUME NEW a \in Actors, Looks(a) PROVE OwnerInv'
  <2>1. KeepsOwners
    BY <1>12 DEF Looks, Elsewhere, Working, Running, Streaming, KeepsOwners
  <2> QED
    BY <1>b, <2>1, OwnerKept
<1>13. ASSUME NEW a \in Actors, Reserves(a) PROVE OwnerInv'
  <2>1. KeepsOwners
    BY <1>13 DEF Reserves, Elsewhere, Working, Running, Streaming, KeepsOwners
  <2> QED
    BY <1>b, <2>1, OwnerKept
<1>14. ASSUME NEW a \in Actors, TakesWork(a) PROVE OwnerInv'
  <2>1. KeepsOwners
    BY <1>14 DEF TakesWork, Elsewhere, Working, Running, Streaming, KeepsOwners
  <2> QED
    BY <1>b, <2>1, OwnerKept
<1>15. ASSUME NEW a \in Actors, FindsState(a) PROVE OwnerInv'
  <2>1. KeepsOwners
    BY <1>15 DEF FindsState, GetsActive, Elsewhere, Working, Running, Streaming, KeepsOwners
  <2> QED
    BY <1>b, <2>1, OwnerKept
<1>16. ASSUME NEW a \in Actors, HandsOver(a) PROVE OwnerInv'
  <2>1. KeepsOwners
    BY <1>16 DEF HandsOver, Elsewhere, Working, Running, Streaming, KeepsOwners
  <2> QED
    BY <1>b, <2>1, OwnerKept
<1>17. ASSUME NEW a \in Actors, Installs(a) PROVE OwnerInv'
  <2> DEFINE u == reg[a].turn
  <2>1. ActiveTask = None /\ pc[u] = "parked" /\ u \in Turns /\ outcome[u] = {}
    BY <1>17 DEF Installs, StartInv, FreshInv, Creators, RegInv, RegSound, Starting, Working,
       Running, Streaming, OwnerInv
  <2>2. /\ ActiveTask' = u /\ outcome' = outcome /\ cancelled' = cancelled /\ pc'[u] \in Working
        /\ \A b \in Actors \ {a, u} : pc'[b] = pc[b] /\ reg'[b] = reg[b]
    <3>1. ActiveTask' = u /\ outcome' = outcome /\ cancelled' = cancelled
      BY <1>17 DEF Installs
    <3>2. pc'[u] \in {"r_start", "r_other"}
      BY <1>17 DEF Installs
    <3>3. \A b \in Actors \ {a, u} : reg'[b] = reg[b]
      BY <1>17 DEF Installs
    <3>4. \A b \in Actors \ {a, u} : pc'[b] = pc[b]
      BY <1>17, <2>1 DEF Installs
    <3> QED
      BY <3>1, <3>2, <3>3, <3>4 DEF Working, Running
  <2>3. pc[a] = "st_install" /\ pc'[a] \in {"r_done", "ended", "parked"} /\ a # u
    BY <1>17 DEF Installs, Working, Running, Streaming, OwnerInv
  <2>4. ~ cancelled[u]
    BY <2>1 DEF FreshInv, Working, Running, Streaming, OwnerInv
  <2>5. (pc'[Loop] = "ab_wait") => a # Loop /\ pc[Loop] = "ab_wait" /\ reg'[Loop] = reg[Loop]
    BY <2>1, <2>2, <2>3 DEF Working, Running, Streaming, OwnerInv
  <2>6. {"r_done", "ended", "parked", "st_install"} \cap Working = {} /\ "f_pend" \notin Working
    BY DEF Working, Running, Streaming
  <2>7. ASSUME NEW v \in Turns
        PROVE  /\ pc'[v] \in Working => ActiveTask' = v \/ (pc'[Loop] = "ab_wait" /\ reg'[Loop].task = v)
               /\ ActiveTask' = v => pc'[v] \in Working /\ ~ cancelled'[v] /\ outcome'[v] = {}
               /\ pc'[v] = "f_pend" => outcome'[v] = {}
               /\ outcome'[v] \in {{}, {"complete"}, {"aborted"}}
    <3>1. CASE v = u
      BY <2>1, <2>2, <2>4, <2>6, <3>1
    <3>2. CASE v = a
      BY <2>2, <2>3, <2>6, <3>2 DEF OwnerInv
    <3>3. CASE v # u /\ v # a
      <4>1. pc'[v] = pc[v]
        BY <2>2, <3>3
      <4>2. pc[Loop] = "ab_wait" => pc'[Loop] = "ab_wait" /\ reg'[Loop] = reg[Loop]
        BY <2>1, <2>2, <2>3
      <4> QED
        BY <2>1, <2>2, <3>3, <4>1, <4>2 DEF OwnerInv
    <3> QED
      BY <3>1, <3>2, <3>3
  <2>8. ASSUME pc'[Loop] = "ab_wait"
        PROVE  /\ pc'[reg'[Loop].task] \in Working \cup {"r_done", "ended"}
               /\ outcome'[reg'[Loop].task] = {}
    <3> DEFINE v == reg[Loop].task
    <3>1. v \in Turns /\ reg'[Loop].task = v /\ pc[v] \in Working \cup {"r_done", "ended"} /\ outcome[v] = {}
      BY <1>b, <2>5, <2>8 DEF OwnerInv
    <3>2. v # u /\ v # a
      BY <2>1, <2>3, <2>6, <3>1
    <3> QED
      BY <2>2, <3>1, <3>2
  <2> QED
    BY <2>7, <2>8 DEF OwnerInv
<1>18. ASSUME NEW t \in Turns, Digests(t) PROVE OwnerInv'
  <2>1. KeepsOwners
    BY <1>18 DEF Digests, Working, Running, Streaming, KeepsOwners
  <2> QED
    BY <1>b, <2>1, OwnerKept
<1>19. ASSUME NEW t \in Turns, Passes(t) PROVE OwnerInv'
  <2>1. /\ ActiveTask' = ActiveTask /\ outcome' = outcome /\ cancelled' = cancelled
        /\ \A u \in Turns : u # t => pc'[u] = pc[u]
        /\ pc'[Loop] = pc[Loop] /\ reg'[Loop] = reg[Loop]
        /\ pc'[t] \notin {"f_pend"} /\ pc[t] \notin {"f_pend"}
    BY <1>19 DEF Passes, Elsewhere, Working, Running, Streaming, OwnerInv
  <2>2. CASE pc[t] = "r_done" /\ pc'[t] = "ended"
    <3>1. KeepsOwners
      BY <2>1, <2>2 DEF KeepsOwners, Working, Running, Streaming
    <3> QED
      BY <1>b, <3>1, OwnerKept
  <2>3. CASE pc[t] = "r_check" /\ pc'[t] = "f_take"
    <3>1. KeepsOwners
      BY <2>1, <2>3 DEF KeepsOwners, Working, Running, Streaming
    <3> QED
      BY <1>b, <3>1, OwnerKept
  <2>4. CASE pc[t] = "r_check" /\ cancelled[t] /\ pc'[t] = "r_done"
    <3>1. ActiveTask # t
      BY <2>4 DEF Working, Running, Streaming, OwnerInv
    <3>2. pc'[t] \notin Working
      BY <2>4 DEF Working, Running, Streaming
    <3>3. ASSUME NEW v \in Turns
          PROVE  /\ pc'[v] \in Working => ActiveTask' = v \/ (pc'[Loop] = "ab_wait" /\ reg'[Loop].task = v)
                 /\ ActiveTask' = v => pc'[v] \in Working /\ ~ cancelled'[v] /\ outcome'[v] = {}
                 /\ pc'[v] = "f_pend" => outcome'[v] = {}
                 /\ outcome'[v] \in {{}, {"complete"}, {"aborted"}}
      <4>1. CASE v = t
        BY <2>1, <3>1, <3>2, <4>1 DEF OwnerInv
      <4>2. CASE v # t
        <5>1. pc'[v] = pc[v]
          BY <2>1, <4>2
        <5> QED
          BY <2>1, <5>1 DEF OwnerInv
      <4> QED
        BY <4>1, <4>2
    <3>4. ASSUME pc'[Loop] = "ab_wait"
          PROVE  /\ pc'[reg'[Loop].task] \in Working \cup {"r_done", "ended"}
                 /\ outcome'[reg'[Loop].task] = {}
      <4> DEFINE w == reg[Loop].task
      <4>1. w \in Turns /\ reg'[Loop].task = w /\ pc[w] \in Working \cup {"r_done", "ended"} /\ outcome[w] = {}
        BY <1>b, <2>1, <3>4 DEF OwnerInv
      <4>2. w # t => pc'[w] = pc[w]
        BY <2>1, <4>1
      <4> HIDE DEF w
      <4> QED
        BY <2>1, <2>4, <4>1, <4>2
    <3> QED
      BY <3>3, <3>4 DEF OwnerInv
  <2>5. CASE pc[t] = "f_take" /\ ActiveTask = None /\ pc'[t] = "r_done"
    BY <1>b, <2>1, <2>5 DEF Working, Running, Streaming, OwnerInv
  <2> QED
    BY <1>19, <2>2, <2>3, <2>4, <2>5 DEF Passes, Working, Running, Streaming, OwnerInv
<1>20. ASSUME NEW t \in Turns, Detaches(t) PROVE OwnerInv'
  BY <1>20 DEF Detaches, Elsewhere, StartInv, Working, Running, Streaming, OwnerInv
<1>21. ASSUME NEW t \in Turns, Completes(t) PROVE OwnerInv'
  <2>1. /\ ActiveTask' = ActiveTask /\ cancelled' = cancelled /\ t \in Actors
        /\ \A u \in Turns : u # t => pc'[u] = pc[u] /\ outcome'[u] = outcome[u]
        /\ pc'[Loop] = pc[Loop] /\ reg'[Loop] = reg[Loop]
        /\ pc[t] = "f_pend" /\ pc'[t] = "f_clear" /\ outcome'[t] = outcome[t] \cup {"complete"}
    BY <1>21 DEF Completes, Elsewhere, Working, Running, Streaming, OwnerInv
  <2>2. ActiveTask # t /\ (pc[Loop] = "ab_wait" => reg[Loop].task # t)
    BY <2>1 DEF Working, Running, Streaming, OwnerInv
  <2>3. outcome'[t] = {"complete"}
    BY <2>1 DEF Working, Running, Streaming, OwnerInv
  <2>4. pc'[t] \notin Working /\ pc'[t] # "f_pend"
    BY <2>1 DEF Working, Running, Streaming
  <2>5. ASSUME NEW v \in Turns
        PROVE  /\ pc'[v] \in Working => ActiveTask' = v \/ (pc'[Loop] = "ab_wait" /\ reg'[Loop].task = v)
               /\ ActiveTask' = v => pc'[v] \in Working /\ ~ cancelled'[v] /\ outcome'[v] = {}
               /\ pc'[v] = "f_pend" => outcome'[v] = {}
               /\ outcome'[v] \in {{}, {"complete"}, {"aborted"}}
    BY <2>1, <2>2, <2>3, <2>4, <2>5 DEF OwnerInv
  <2>6. ASSUME pc'[Loop] = "ab_wait"
        PROVE  /\ pc'[reg'[Loop].task] \in Working \cup {"r_done", "ended"}
               /\ outcome'[reg'[Loop].task] = {}
    <3> DEFINE w == reg[Loop].task
    <3>1. w \in Turns /\ reg'[Loop].task = w /\ pc[w] \in Working \cup {"r_done", "ended"} /\ outcome[w] = {}
      BY <1>b, <2>1, <2>6 DEF OwnerInv
    <3>2. w # t
      BY <2>1, <2>2, <2>6
    <3> HIDE DEF w
    <3> QED
      BY <2>1, <3>1, <3>2
  <2> QED
    BY <2>5, <2>6 DEF OwnerInv
<1>22. ASSUME NEW t \in Turns, Closes(t) PROVE OwnerInv'
  <2>1. KeepsOwners
    BY <1>22 DEF Closes, Elsewhere, Working, Running, Streaming, KeepsOwners
  <2> QED
    BY <1>b, <2>1, OwnerKept
<1> QED
  BY StepCases, <1>1, <1>2, <1>3, <1>4, <1>5, <1>6, <1>7, <1>8, <1>9, <1>10, <1>11, <1>12,
     <1>13, <1>14, <1>15, <1>16, <1>17, <1>18, <1>19, <1>20, <1>21, <1>22 DEF IInv

\* One actor starts at a time, and its turn state stays the active one.
LEMMA StartsStep ==
  ASSUME IInv, Undisturbed, Next
  PROVE  StartInv'
<1>0. /\ TypeOK /\ RegInv /\ FreshInv /\ PlaceInv /\ OwnerInv /\ StartInv /\ ReservationOwned
      /\ MaxGuardAborts = 0 /\ (NoSelfStart \/ NoReplacement)
  BY DEF IInv, BaseInv, Undisturbed
<1>a. /\ ActiveTask = IF active = None THEN None ELSE active.task
      /\ ActiveTask' = IF active' = None THEN None ELSE active'.task
      /\ ActiveTask \in Turns \cup {None} /\ pc[Guard] = "parked"
  BY <1>0, ActiveCases DEF ActiveTask, TypeOK, PlaceInv
<1>c. /\ NoSelfStart' = NoSelfStart /\ NoReplacement' = NoReplacement
      /\ turnStates \in Nat /\ \A b \in Actors : reg[b].ts \in TurnStates \cup {None}
  BY <1>0, NextNames DEF NoSelfStart, NoReplacement, TypeOK, Regs
<1>d. \A t \in Turns : pc[t] \in Closing => reg[t].ts \in Nat /\ reg[t].ts <= turnStates
  BY <1>0, <1>c, Names DEF RegInv, RegSound
<1> USE <1>0, <1>a, <1>c, Names, NoRegType DEF session, turns, fates, Starting, Closing, StartInv
<1>1. ASSUME Accepts PROVE StartInv'
  BY <1>1 DEF Accepts
<1>2. ASSUME Creates PROVE StartInv'
  BY <1>2 DEF Creates, Elsewhere, PlaceInv, Aborting, Working, Running, Streaming
<1>3. ASSUME Interrupts PROVE StartInv'
  BY <1>3 DEF Interrupts, Elsewhere, PlaceInv, Aborting, Working, Running, Streaming
<1>4. ASSUME Denies PROVE StartInv'
  BY <1>4 DEF Denies, Elsewhere
<1>5. ASSUME Wakes PROVE StartInv'
  BY <1>5 DEF Wakes, Elsewhere, PlaceInv, Aborting, Working, Running, Streaming
<1>6. ASSUME Keeps PROVE StartInv'
  BY <1>6 DEF Keeps, Elsewhere, PlaceInv, Aborting, Working, Running, Streaming
<1>7. ASSUME DropsTurn PROVE StartInv'
  BY <1>7 DEF DropsTurn, Elsewhere, PlaceInv, Aborting, Working, Running, Streaming
<1>8. ASSUME NEW a \in {Loop, Guard}, TakesTask(a) PROVE StartInv'
  BY <1>8 DEF TakesTask, Elsewhere, PlaceInv, Aborting, Working, Running, Streaming
<1>9. ASSUME NEW a \in {Loop, Guard}, Kills(a) PROVE StartInv'
  BY <1>9 DEF Kills, Stops, PlaceInv, Aborting, Working, Running, Streaming
<1>10. ASSUME NEW a \in {Loop, Guard}, Clears(a) PROVE StartInv'
  <2>1. a = Loop /\ pc[Loop] = "ab_clear" /\ active = None /\ active' = None
    BY <1>10 DEF Clears
  <2>2. NoSelfStart /\ ~ NoReplacement
    BY <2>1 DEF PlaceInv, Aborting
  <2>3. \A b \in Actors : b # Loop => pc'[b] = pc[b] /\ pc[b] \notin Starting
    BY <1>10, <2>1, <2>2 DEF Clears, Elsewhere, PlaceInv
  <2>4. pc'[Loop] \in {"st_pend", "ms_check"}
    BY <1>10, <2>1 DEF Clears
  <2> QED
    BY <2>1, <2>2, <2>3, <2>4
<1>11. ASSUME NEW a \in Actors, Leaves(a) PROVE StartInv'
  BY <1>11 DEF Leaves, Elsewhere, PlaceInv, Aborting, Working, Running, Streaming
<1>12. ASSUME NEW a \in Actors, Looks(a) PROVE StartInv'
  BY <1>12 DEF Looks, Elsewhere, PlaceInv, Aborting, Working, Running, Streaming
<1>13. ASSUME NEW a \in Actors, Reserves(a) PROVE StartInv'
  <2>1. pc[a] = "ms_reserve" /\ pc'[a] = "st_pend" /\ active = None /\ ~ NoSelfStart /\ NoReplacement
    BY <1>13 DEF Reserves, PlaceInv
  <2>2. \A b \in Actors : b # a => pc'[b] = pc[b] /\ reg'[b] = reg[b] /\ pc[b] \notin Starting
    BY <1>13, <2>1 DEF Reserves, Elsewhere
  <2>3. active' # None /\ active'.ts = turnStates + 1 /\ active'.task = None
    BY <1>13 DEF Reserves
  <2>4. \A t \in Turns : pc'[t] \in Closing => reg'[t].ts # active'.ts
    BY <1>d, <2>1, <2>2, <2>3
  <2>5. pc'[Loop] \notin {"ab_wait", "ab_clear"}
    BY <2>1, <2>2 DEF PlaceInv, Aborting
  <2> QED
    BY <2>1, <2>2, <2>3, <2>4, <2>5
<1>14. ASSUME NEW a \in Actors, TakesWork(a) PROVE StartInv'
  BY <1>14 DEF TakesWork, Elsewhere, PlaceInv, Aborting, Working, Running, Streaming
<1>15. ASSUME NEW a \in Actors, FindsState(a) PROVE StartInv'
  <2>1. pc[a] = "st_ts" /\ pc'[a] = "st_extend" /\ ActiveTask = None
    BY <1>15 DEF FindsState
  <2>2. \A b \in Actors : b # a => pc'[b] = pc[b] /\ reg'[b] = reg[b] /\ pc[b] \notin Starting
    BY <1>15, <2>1 DEF FindsState, Elsewhere
  <2>3. active' # None /\ active' = [ts |-> reg'[a].ts, task |-> None]
    BY <1>15, <2>1, ActiveCases DEF FindsState, GetsActive, TypeOK
  <2>4. \A t \in Turns : pc'[t] \in Closing => reg'[t].ts # active'.ts
    <3>1. CASE active = None
      BY <1>15, <1>d, <2>1, <2>2, <3>1 DEF FindsState, GetsActive
    <3>2. CASE active # None
      BY <1>15, <2>1, <2>2, <3>2 DEF FindsState, GetsActive
    <3> QED
      BY <3>1, <3>2
  <2>5. pc'[Loop] \notin {"ab_wait", "ab_clear"}
    BY <2>1, <2>2 DEF PlaceInv, Aborting
  <2> QED
    BY <2>1, <2>2, <2>3, <2>4, <2>5
<1>16. ASSUME NEW a \in Actors, HandsOver(a) PROVE StartInv'
  BY <1>16 DEF HandsOver, Elsewhere, PlaceInv, Aborting, Working, Running, Streaming
<1>17. ASSUME NEW a \in Actors, Installs(a) PROVE StartInv'
  <2> DEFINE u == reg[a].turn
  <2>1. pc[a] = "st_install" /\ ActiveTask = None /\ active # None /\ active = [ts |-> reg[a].ts, task |-> None]
    <3>1. pc[a] = "st_install"
      BY <1>17 DEF Installs
    <3>2. reg[a].ts \in TurnStates
      BY <3>1 DEF RegInv, RegSound
    <3>3. ActiveTask = None /\ active = [ts |-> reg[a].ts, task |-> None]
      BY <3>1
    <3> QED
      BY <3>1, <3>2, <3>3, RecordIsActive
  <2>2. active'.ts = active.ts
    BY <1>17, <2>1 DEF Installs, GetsActive
  <2>3. \A b \in Actors : b # a /\ b # u => pc'[b] = pc[b] /\ reg'[b] = reg[b] /\ pc[b] \notin Starting
    <3>1. \A b \in Actors : b # a => pc[b] \notin Starting
      BY <2>1
    <3>2. \A b \in Actors : b # a /\ b # u => pc'[b] = pc[b] /\ reg'[b] = reg[b]
      BY <1>17, <2>1 DEF Installs
    <3> QED
      BY <3>1, <3>2
  <2>4. pc'[a] \in {"r_done", "ended", "parked"} /\ pc'[u] \in {"r_start", "r_other"} /\ u \in Turns
    BY <1>17 DEF Installs
  <2>5. \A b \in Actors : pc'[b] \notin Starting
    BY <2>3, <2>4
  <2>6. \A t \in Turns : pc'[t] \in Closing => reg'[t].ts # active'.ts
    BY <2>1, <2>2, <2>3, <2>4
  <2>7. pc'[Loop] \notin {"ab_wait", "ab_clear"}
    BY <2>1, <2>3, <2>4 DEF PlaceInv, Aborting
  <2> QED
    BY <2>5, <2>6, <2>7
<1>18. ASSUME NEW t \in Turns, Digests(t) PROVE StartInv'
  BY <1>18 DEF Digests, Running, Streaming
<1>19. ASSUME NEW t \in Turns, Passes(t) PROVE StartInv'
  BY <1>19 DEF Passes, Elsewhere
<1>20. ASSUME NEW t \in Turns, Detaches(t) PROVE StartInv'
  BY <1>20 DEF Detaches, Elsewhere, PlaceInv, Aborting, Working, Running, Streaming
<1>21. ASSUME NEW t \in Turns, Completes(t) PROVE StartInv'
  <2>1. /\ active' = active /\ pc[t] = "f_pend" /\ pc'[t] = "f_clear" /\ reg'[t] = reg[t]
        /\ \A b \in Actors : b # t => pc'[b] = pc[b] /\ reg'[b] = reg[b]
    BY <1>21 DEF Completes, Elsewhere
  <2>2. /\ \A b \in Actors : reg'[b] = reg[b] /\ (pc'[b] \in Starting => pc'[b] = pc[b])
        /\ pc'[Loop] \in {"ab_wait", "ab_clear"} => pc'[Loop] = pc[Loop]
        /\ \A u \in Turns : pc'[u] \in Closing => pc[u] \in Closing
        /\ \A b \in Actors : pc'[b] \in Starting <=> pc[b] \in Starting
    BY <2>1
  <2>3. ASSUME NEW b \in Actors, pc'[b] \in Starting
        PROVE  /\ ActiveTask' = None
               /\ \A c \in Actors : pc'[c] \in Starting => c = b
               /\ NoReplacement => active' # None
               /\ pc'[b] \in {"st_pend", "st_ts"} /\ NoSelfStart => active' = None
               /\ pc'[b] \in {"st_extend", "st_install"} => active' = [ts |-> reg'[b].ts, task |-> None]
    <3>1. pc[b] \in Starting /\ pc'[b] = pc[b] /\ reg'[b] = reg[b]
      BY <2>2, <2>3
    <3>2. \A c \in Actors : pc'[c] \in Starting => c = b
      BY <2>2, <3>1
    <3> QED
      BY <2>1, <3>1, <3>2
  <2>4. pc'[Loop] \in {"ab_wait", "ab_clear"} => active' = None
    BY <2>1, <2>2
  <2>5. ASSUME NEW u \in Turns, pc'[u] \in Closing, active' # None, active'.ts = reg'[u].ts
        PROVE  active'.task = None /\ \A b \in Actors : pc'[b] \notin Starting
    <3>1. pc[u] \in Closing /\ active # None /\ active.ts = reg[u].ts
      BY <2>1, <2>2, <2>5
    <3>2. active.task = None /\ \A b \in Actors : pc[b] \notin Starting
      BY <3>1
    <3> QED
      BY <2>1, <2>2, <3>2
  <2> QED
    BY <2>3, <2>4, <2>5
<1>22. ASSUME NEW t \in Turns, Closes(t) PROVE StartInv'
  BY <1>22 DEF Closes, Elsewhere, PlaceInv, Aborting, Working, Running, Streaming
<1> QED
  BY StepCases, <1>1, <1>2, <1>3, <1>4, <1>5, <1>6, <1>7, <1>8, <1>9, <1>10, <1>11, <1>12,
     <1>13, <1>14, <1>15, <1>16, <1>17, <1>18, <1>19, <1>20, <1>21, <1>22 DEF IInv

\* The invariant of an undisturbed session.
LEMMA UndisturbedHolds == Undisturbed /\ Spec => []IInv
<1>1. Undisturbed /\ Init => IInv
  BY InitBase, InitUndisturbed DEF IInv
<1>2. (Undisturbed /\ IInv) /\ [Next]_vars => (Undisturbed /\ IInv)'
  <2>1. ASSUME IInv, Undisturbed, Next PROVE IInv'
    <3>1. BaseInv'
      BY <2>1, TypesStep, RegsStep, FreshStep DEF IInv, BaseInv
    <3> QED
      BY <2>1, <3>1, PlaceStep, OwnerStep, StartsStep, ReservationStep DEF IInv
  <2>2. ASSUME IInv, UNCHANGED vars PROVE IInv'
    <3>1. BaseInv'
      BY <2>2 DEF IInv, BaseInv, TypeOK, RegInv, RegSound, FreshInv, Creators, ActiveTask,
                  vars, session, turns, fates
    <3>2. PlaceInv' /\ ReservationOwned'
      BY <2>2 DEF IInv, PlaceInv, ReservationOwned, NoSelfStart, NoReplacement, vars, session, turns
    <3>3. OwnerInv' /\ StartInv'
      BY <2>2 DEF IInv, OwnerInv, StartInv, NoSelfStart, NoReplacement, ActiveTask, vars,
         session, turns
    <3> QED
      BY <3>1, <3>2, <3>3 DEF IInv
  <2>3. Undisturbed' = Undisturbed
    BY DEF Undisturbed, NoSelfStart, NoReplacement
  <2> QED
    BY <2>1, <2>2, <2>3
<1> QED
  BY <1>1, <1>2, PTL DEF Spec

\* Two running turns would both be the active task or the one being aborted, and
\* while the loop waits for a task there is no active one.
LEMMA OwnersMakeOne ==
  ASSUME IInv
  PROVE  OneRunningTask
<1>0. OwnerInv /\ StartInv
  BY DEF IInv
<1> SUFFICES ASSUME NEW t \in Turns, NEW u \in Turns, pc[t] \in Running, pc[u] \in Running
             PROVE  t = u
  BY DEF OneRunningTask
<1>1. pc[t] \in Working /\ pc[u] \in Working
  BY DEF Working
<1>2. /\ ActiveTask = t \/ (pc[Loop] = "ab_wait" /\ reg[Loop].task = t)
      /\ ActiveTask = u \/ (pc[Loop] = "ab_wait" /\ reg[Loop].task = u)
  BY <1>0, <1>1 DEF OwnerInv
<1>3. pc[Loop] = "ab_wait" => ActiveTask = None
  BY <1>0 DEF StartInv, ActiveTask
<1> QED
  BY <1>2, <1>3, Names

\* The session runs at most one task at a time: spawn_task, on_task_finished and
\* abort_all_tasks hand the active turn over without letting two runners work.
THEOREM OneTaskRuns == Undisturbed /\ Spec => []OneRunningTask
<1>1. IInv => OneRunningTask
  BY OwnersMakeOne
<1> QED
  BY <1>1, UndisturbedHolds, PTL

\* However turns replace, abort and finish one another, one task runs at a time
\* and no turn stays reserved by nobody.
THEOREM TurnsHandedOver == Undisturbed /\ Spec => []TurnInv
<1>1. IInv => TurnInv
  BY OwnersMakeOne DEF IInv, BaseInv, TurnInv
<1> QED
  BY <1>1, UndisturbedHolds, PTL

\* A turn is reported complete by on_task_finished or aborted by
\* handle_task_abort, never by both.
THEOREM OneOutcomePerTurn == Undisturbed /\ Spec => []OneOutcome
<1>1. ASSUME IInv PROVE OneOutcome
  <2>1. ASSUME NEW t \in Turns PROVE Cardinality(outcome[t]) <= 1
    <3>1. outcome[t] \in {{}, {"complete"}, {"aborted"}}
      BY <1>1 DEF IInv, OwnerInv
    <3>2. /\ Cardinality({}) = 0
          /\ Cardinality({"complete"}) = 1 /\ Cardinality({"aborted"}) = 1
      BY FS_EmptySet, FS_Singleton
    <3> QED
      BY <3>1, <3>2
  <2> QED
    BY <2>1 DEF OneOutcome
<1> QED
  BY <1>1, UndisturbedHolds, PTL

\* start_task's debug_assert holds when only the loop starts turns, also beside
\* the guardian's aborts, and when turns start by themselves, as long as nothing
\* else replaces them.
THEOREM NoTaskMet == (NoSelfStart \/ Undisturbed) /\ Spec => []NoTaskInTheWay
<1>1. IInv => NoTaskInTheWay
  BY DEF IInv, StartInv, NoTaskInTheWay, Starting
<1> QED
  BY <1>1, NoTaskMetByLoop, UndisturbedHolds, PTL

-----------------------------------------------------------------------------
(* No accepted item vanishes from an undisturbed session.                    *)

\* A turn state that a finishing runner has emptied stays empty.
LEMMA ItemStep ==
  ASSUME IInv, Undisturbed, NoInjection, ItemInv, Next
  PROVE  ItemInv'
<1>0. /\ TypeOK /\ RegInv /\ FreshInv /\ PlaceInv /\ OwnerInv /\ StartInv /\ ReservationOwned
      /\ MaxGuardAborts = 0 /\ (NoSelfStart \/ NoReplacement)
  BY DEF IInv, BaseInv, Undisturbed
<1>a. /\ ActiveTask = IF active = None THEN None ELSE active.task
      /\ ActiveTask' = IF active' = None THEN None ELSE active'.task
      /\ ActiveTask \in Turns \cup {None} /\ pc[Guard] = "parked"
  BY <1>0, ActiveCases DEF ActiveTask, TypeOK, PlaceInv
<1>c. Approvals = {} /\ \A b \in Actors : reg[b].ts \in TurnStates \cup {None}
  BY <1>0 DEF NoInjection, TypeOK, Regs
<1>d. \A u \in Turns : pc[u] = "f_clear" => reg[u].ts \in TurnStates
  BY <1>0, <1>c, Names DEF RegInv, RegSound, Closing
<1> USE <1>0, <1>a, <1>c, Names, NoRegType DEF session, turns, fates
<1>1. ASSUME Accepts PROVE ItemInv'
  BY <1>1, <1>d DEF Accepts, ItemInv, StartInv, Closing, Starting
<1>2. ASSUME Creates PROVE ItemInv'
  <2>1. idle' = {} /\ \A b \in Actors : pc'[b] \notin {"st_ts", "st_extend"} => reg'[b].held = {}
    BY <1>2 DEF Creates, Elsewhere, ItemInv
  <2>2. ASSUME NEW u \in Turns, pc'[u] = "f_clear" PROVE pend'[reg'[u].ts] = {}
    BY <1>2, <2>2 DEF Creates, Elsewhere, ItemInv
  <2> QED
    BY <2>1, <2>2 DEF ItemInv
<1>3. ASSUME Interrupts PROVE ItemInv'
  <2>0. idle' = idle /\ pend' = pend
    BY <1>3 DEF Interrupts
  <2>1. idle' = {} /\ \A b \in Actors : pc'[b] \notin {"st_ts", "st_extend"} => reg'[b].held = {}
    BY <1>3 DEF Interrupts, Elsewhere, ItemInv
  <2>2. ASSUME NEW u \in Turns, pc'[u] = "f_clear" PROVE pend'[reg'[u].ts] = {}
    <3>1. pc[u] = "f_clear" /\ reg'[u] = reg[u]
      BY <1>3, <2>2 DEF Interrupts, Elsewhere
    <3>2. reg[u].ts \in TurnStates /\ pend[reg[u].ts] = {}
      BY <1>d, <3>1 DEF ItemInv
    <3> QED
      BY <2>0, <3>1, <3>2
  <2> QED
    BY <2>1, <2>2 DEF ItemInv
<1>4. ASSUME Denies PROVE ItemInv'
  BY <1>4, <1>d DEF Denies, Elsewhere, ItemInv
<1>5. ASSUME Wakes PROVE ItemInv'
  BY <1>5, <1>d DEF Wakes, Elsewhere, ItemInv
<1>6. ASSUME Keeps PROVE ItemInv'
  BY <1>6, <1>d DEF Keeps, Elsewhere, ItemInv
<1>7. ASSUME DropsTurn PROVE ItemInv'
  BY <1>7, <1>d DEF DropsTurn, Elsewhere, ItemInv
<1>8. ASSUME NEW a \in {Loop, Guard}, TakesTask(a) PROVE ItemInv'
  BY <1>8, <1>d DEF TakesTask, Elsewhere, ItemInv
<1>9. ASSUME NEW a \in {Loop, Guard}, Kills(a) PROVE ItemInv'
  BY <1>9, <1>d DEF Kills, Stops, ItemInv, OwnerInv, Working, Running, Streaming
<1>10. ASSUME NEW a \in {Loop, Guard}, Clears(a) PROVE ItemInv'
  <2>1. idle' = {} /\ \A b \in Actors : pc'[b] \notin {"st_ts", "st_extend"} => reg'[b].held = {}
    BY <1>10 DEF Clears, Elsewhere, ItemInv
  <2>2. ASSUME NEW u \in Turns, pc'[u] = "f_clear" PROVE pend'[reg'[u].ts] = {}
    <3>1. pc[u] = "f_clear" /\ reg'[u] = reg[u]
      BY <1>10, <2>2 DEF Clears, Elsewhere
    <3>2. reg[u].ts \in TurnStates /\ pend[reg[u].ts] = {}
      BY <1>d, <3>1 DEF ItemInv
    <3> QED
      <4>1. reg[a].ts \in TurnStates /\ pend'[reg[a].ts] = {} /\ \A s \in TurnStates : s # reg[a].ts => pend'[s] = pend[s]
        BY <1>10 DEF Clears
      <4> QED
        BY <3>1, <3>2, <4>1
  <2> QED
    BY <2>1, <2>2 DEF ItemInv
<1>11. ASSUME NEW a \in Actors, Leaves(a) PROVE ItemInv'
  <2>0. idle' = idle /\ pend' = pend
    BY <1>11 DEF Leaves
  <2>1. idle' = {} /\ \A b \in Actors : pc'[b] \notin {"st_ts", "st_extend"} => reg'[b].held = {}
    BY <1>11 DEF Leaves, Elsewhere, ItemInv
  <2>2. ASSUME NEW u \in Turns, pc'[u] = "f_clear" PROVE pend'[reg'[u].ts] = {}
    <3>1. pc[u] = "f_clear" /\ reg'[u] = reg[u]
      BY <1>11, <2>2 DEF Leaves, Elsewhere
    <3>2. reg[u].ts \in TurnStates /\ pend[reg[u].ts] = {}
      BY <1>d, <3>1 DEF ItemInv
    <3> QED
      BY <2>0, <3>1, <3>2
  <2> QED
    BY <2>1, <2>2 DEF ItemInv
<1>12. ASSUME NEW a \in Actors, Looks(a) PROVE ItemInv'
  <2>1. idle' = {} /\ \A b \in Actors : pc'[b] \notin {"st_ts", "st_extend"} => reg'[b].held = {}
    BY <1>12 DEF Looks, Elsewhere, ItemInv
  <2>2. ASSUME NEW u \in Turns, pc'[u] = "f_clear" PROVE pend'[reg'[u].ts] = {}
    <3>1. pc[u] = "f_clear" /\ reg'[u] = reg[u]
      BY <1>12, <2>2 DEF Looks, Elsewhere
    <3>2. reg[u].ts \in TurnStates /\ pend[reg[u].ts] = {}
      BY <1>d, <3>1 DEF ItemInv
    <3> QED
      BY <1>12, <3>1, <3>2 DEF Looks
  <2> QED
    BY <2>1, <2>2 DEF ItemInv
<1>13. ASSUME NEW a \in Actors, Reserves(a) PROVE ItemInv'
  <2>1. idle' = {} /\ \A b \in Actors : pc'[b] \notin {"st_ts", "st_extend"} => reg'[b].held = {}
    BY <1>13 DEF Reserves, Elsewhere, ItemInv
  <2>2. ASSUME NEW u \in Turns, pc'[u] = "f_clear" PROVE pend'[reg'[u].ts] = {}
    <3>1. pc[u] = "f_clear" /\ reg'[u] = reg[u]
      BY <1>13, <2>2 DEF Reserves, Elsewhere
    <3>2. reg[u].ts \in TurnStates /\ pend[reg[u].ts] = {}
      BY <1>d, <3>1 DEF ItemInv
    <3> QED
      BY <1>13, <3>1, <3>2 DEF Reserves
  <2> QED
    BY <2>1, <2>2 DEF ItemInv
<1>14. ASSUME NEW a \in Actors, TakesWork(a) PROVE ItemInv'
  <2>1. idle' = {} /\ \A b \in Actors : pc'[b] \notin {"st_ts", "st_extend"} => reg'[b].held = {}
    BY <1>14 DEF TakesWork, Elsewhere, ItemInv
  <2>2. ASSUME NEW u \in Turns, pc'[u] = "f_clear" PROVE pend'[reg'[u].ts] = {}
    <3>1. pc[u] = "f_clear" /\ reg'[u] = reg[u]
      BY <1>14, <2>2 DEF TakesWork, Elsewhere
    <3>2. reg[u].ts \in TurnStates /\ pend[reg[u].ts] = {}
      BY <1>d, <3>1 DEF ItemInv
    <3>3. pend'[reg[u].ts] \subseteq pend[reg[u].ts]
      BY <1>14, <3>2, PendingTypes DEF TakesWork
    <3> QED
      BY <3>1, <3>2, <3>3
  <2> QED
    BY <2>1, <2>2 DEF ItemInv
<1>15. ASSUME NEW a \in Actors, FindsState(a) PROVE ItemInv'
  BY <1>15, <1>d DEF FindsState, GetsActive, Elsewhere, ItemInv
<1>16. ASSUME NEW a \in Actors, HandsOver(a) PROVE ItemInv'
  <2>1. idle' = {} /\ \A b \in Actors : pc'[b] \notin {"st_ts", "st_extend"} => reg'[b].held = {}
    BY <1>16 DEF HandsOver, Elsewhere, ItemInv
  <2>2. ASSUME NEW u \in Turns, pc'[u] = "f_clear" PROVE pend'[reg'[u].ts] = {}
    <3>1. pc[u] = "f_clear" /\ reg'[u] = reg[u]
      BY <1>16, <2>2 DEF HandsOver, Elsewhere
    <3>2. reg[u].ts \in TurnStates /\ pend[reg[u].ts] = {}
      BY <1>d, <3>1 DEF ItemInv
    <3>3. pc[a] = "st_extend" /\ active = [ts |-> reg[a].ts, task |-> None] /\ active # None
      <4>1. pc[a] = "st_extend" /\ reg[a].ts \in TurnStates
        BY <1>16 DEF HandsOver
      <4>2. active = [ts |-> reg[a].ts, task |-> None]
        BY <4>1 DEF StartInv, Starting
      <4> QED
        BY <4>1, <4>2, RecordIsActive
    <3>4. reg[u].ts # reg[a].ts
      BY <3>1, <3>3 DEF StartInv, Closing, Starting
    <3> QED
      BY <1>16, <3>1, <3>2, <3>4 DEF HandsOver
  <2> QED
    BY <2>1, <2>2 DEF ItemInv
<1>17. ASSUME NEW a \in Actors, Installs(a) PROVE ItemInv'
  <2>1. pc[a] = "st_install" /\ reg[a].turn \in Turns /\ reg[a].turn # a /\ reg'[a] = NoReg
    BY <1>17 DEF Installs
  <2>2. ActiveTask = None
    BY <2>1 DEF StartInv, Starting
  <2>3. pc[reg[a].turn] = "parked"
    BY <2>1 DEF FreshInv, Creators, Starting
  <2>4. \A b \in Actors \ {a, reg[a].turn} : pc'[b] = pc[b]
    BY <1>17, <2>2 DEF Installs
  <2>5. idle' = idle /\ pend' = pend /\ \A b \in Actors : b # a => reg'[b] = reg[b]
    BY <1>17 DEF Installs
  <2>6. pc'[a] # "f_clear" /\ pc'[reg[a].turn] # "f_clear"
    BY <1>17 DEF Installs
  <2>7. idle' = {} /\ \A b \in Actors : pc'[b] \notin {"st_ts", "st_extend"} => reg'[b].held = {}
    BY <2>1, <2>3, <2>4, <2>5 DEF ItemInv
  <2>8. ASSUME NEW u \in Turns, pc'[u] = "f_clear" PROVE pend'[reg'[u].ts] = {}
    <3>1. pc[u] = "f_clear" /\ reg'[u] = reg[u]
      BY <2>4, <2>5, <2>6, <2>8
    <3> QED
      BY <2>5, <3>1 DEF ItemInv
  <2> QED
    BY <2>7, <2>8 DEF ItemInv
<1>18. ASSUME NEW t \in Turns, Digests(t) PROVE ItemInv'
  <2>1. idle' = {} /\ \A b \in Actors : pc'[b] \notin {"st_ts", "st_extend"} => reg'[b].held = {}
    BY <1>18 DEF Digests, Running, Streaming, ItemInv
  <2>2. ASSUME NEW u \in Turns, pc'[u] = "f_clear" PROVE pend'[reg'[u].ts] = {}
    <3>1. pc[u] = "f_clear" /\ reg'[u] = reg[u]
      BY <1>18, <2>2 DEF Digests, Running, Streaming
    <3>2. reg[u].ts \in TurnStates /\ pend[reg[u].ts] = {}
      BY <1>d, <3>1 DEF ItemInv
    <3> QED
      BY <1>18, <3>1, <3>2 DEF Digests
  <2> QED
    BY <2>1, <2>2 DEF ItemInv
<1>19. ASSUME NEW t \in Turns, Passes(t) PROVE ItemInv'
  <2>1. idle' = {} /\ \A b \in Actors : pc'[b] \notin {"st_ts", "st_extend"} => reg'[b].held = {}
    BY <1>19 DEF Passes, Elsewhere, ItemInv
  <2>2. ASSUME NEW u \in Turns, pc'[u] = "f_clear" PROVE pend'[reg'[u].ts] = {}
    <3>1. pc[u] = "f_clear" /\ reg'[u] = reg[u]
      BY <1>19, <2>2 DEF Passes, Elsewhere
    <3>2. reg[u].ts \in TurnStates /\ pend[reg[u].ts] = {}
      BY <1>d, <3>1 DEF ItemInv
    <3> QED
      BY <1>19, <3>1, <3>2 DEF Passes
  <2> QED
    BY <2>1, <2>2 DEF ItemInv
<1>20. ASSUME NEW t \in Turns, Detaches(t) PROVE ItemInv'
  BY <1>20, <1>d DEF Detaches, Elsewhere, ItemInv
<1>21. ASSUME NEW t \in Turns, Completes(t) PROVE ItemInv'
  <2>1. idle' = {} /\ \A b \in Actors : pc'[b] \notin {"st_ts", "st_extend"} => reg'[b].held = {}
    BY <1>21 DEF Completes, Elsewhere, ItemInv
  <2>2. ASSUME NEW u \in Turns, pc'[u] = "f_clear" PROVE pend'[reg'[u].ts] = {}
    <3>1. CASE u = t
      BY <1>21, <3>1 DEF Completes
    <3>2. CASE u # t
      <4>1. pc[u] = "f_clear" /\ reg'[u] = reg[u]
        BY <1>21, <2>2, <3>2 DEF Completes, Elsewhere
      <4>2. reg[u].ts \in TurnStates /\ pend[reg[u].ts] = {}
        BY <1>d, <4>1 DEF ItemInv
      <4> QED
        <5>1. pend'[reg[t].ts] = {} /\ \A s \in TurnStates : s # reg[t].ts => pend'[s] = pend[s]
          BY <1>21 DEF Completes
        <5> QED
          BY <4>1, <4>2, <5>1
    <3> QED
      BY <3>1, <3>2
  <2> QED
    BY <2>1, <2>2 DEF ItemInv
<1>22. ASSUME NEW t \in Turns, Closes(t) PROVE ItemInv'
  BY <1>22, <1>d DEF Closes, Elsewhere, ItemInv
<1> QED
  BY StepCases, <1>1, <1>2, <1>3, <1>4, <1>5, <1>6, <1>7, <1>8, <1>9, <1>10, <1>11, <1>12,
     <1>13, <1>14, <1>15, <1>16, <1>17, <1>18, <1>19, <1>20, <1>21, <1>22 DEF IInv

\* Where an item is on its way: stowed by the session or an actor, ...
Stowed(x) ==
  \/ x \in recorded \cup refused \cup mailbox
  \/ \E a \in Actors : Busy(a) /\ x \in reg[a].held

\* ... in a turn state that is active or that an actor will still empty, ...
Custodians == {"ab_wait", "ab_clear", "f_pend"}
Guarded(s) ==
  \/ active # None /\ active.ts = s
  \/ \E a \in Actors : pc[a] \in Custodians /\ reg[a].ts = s

\* ... or the input of a turn that is about to start or has just started.
Pledged(t) ==
  \/ pc[t] \in {"r_start", "r_input"}
  \/ \E a \in Actors : Busy(a) /\ reg[a].turn = t

\* These are the ways to wait, when nothing is queued for the next turn.
LEMMA WaysToWait ==
  ASSUME TypeOK, RegInv, idle = {}, NEW x, x \in recorded \cup refused \/ Waiting(x)
  PROVE  \/ Stowed(x)
         \/ \E s \in TurnStates : Guarded(s) /\ x \in pend[s]
         \/ \E t \in Turns : Pledged(t) /\ x \in input[t]
<1>0. /\ active # None => active.ts \in TurnStates
      /\ \A a \in Actors : reg[a].ts \in TurnStates \cup {None} /\ reg[a].turn \in Turns \cup {None}
      /\ \A a \in Actors : pc[a] \in Custodians => reg[a].ts \in TurnStates
  BY ActiveCases DEF TypeOK, Regs, RegInv, RegSound, Closing, Custodians
<1>1. CASE x \in recorded \cup refused \cup mailbox \cup idle
  BY <1>1 DEF Stowed
<1>2. CASE active # None /\ x \in pend[active.ts]
  BY <1>0, <1>2 DEF Guarded
<1>3. CASE \E a \in Actors : Busy(a) /\ x \in reg[a].held
  BY <1>3 DEF Stowed
<1>4. CASE \E a \in Actors : pc[a] \in {"ab_wait", "ab_clear", "f_pend"} /\ x \in pend[reg[a].ts]
  BY <1>0, <1>4 DEF Guarded, Custodians
<1>5. CASE \E t \in Turns : x \in input[t] /\ pc[t] \in {"r_start", "r_input"}
  BY <1>5 DEF Pledged
<1>6. CASE \E a \in Actors : Busy(a) /\ reg[a].turn # None /\ x \in input[reg[a].turn]
  BY <1>0, <1>6 DEF Pledged
<1> QED
  BY <1>1, <1>2, <1>3, <1>4, <1>5, <1>6 DEF Waiting

LEMMA WaysAreWaiting ==
  ASSUME NEW x, \/ Stowed(x)'
                \/ \E s \in TurnStates : Guarded(s)' /\ x \in pend'[s]
                \/ \E t \in Turns : Pledged(t)' /\ x \in input'[t]
  PROVE  x \in recorded' \cup refused' \/ Waiting(x)'
<1>1. CASE Stowed(x)'
  BY <1>1 DEF Stowed, Busy, Waiting
<1>2. CASE \E s \in TurnStates : Guarded(s)' /\ x \in pend'[s]
  BY <1>2 DEF Guarded, Custodians, Waiting
<1>3. CASE \E t \in Turns : Pledged(t)' /\ x \in input'[t]
  BY <1>3, Names DEF Pledged, Busy, Waiting
<1> QED
  BY <1>1, <1>2, <1>3

\* A step that leaves every item it finds on some way, and puts new ones on one.
HeldKept ==
  /\ \A x \in recorded \cup refused \cup mailbox : Stowed(x)'
  /\ \A b \in Actors : Busy(b) => \A x \in reg[b].held :
       Stowed(x)' \/ \E s \in TurnStates : Guarded(s)' /\ x \in pend'[s]
PendKept == \A s \in TurnStates : \A x \in pend[s] : x \in pend'[s] \/ Stowed(x)'
GuardKept == \A s \in TurnStates : Guarded(s) /\ pend'[s] # {} => Guarded(s)'
InputKept == \A u \in Turns : \A x \in input[u] : x \in input'[u] \/ Stowed(x)'
PledgeKept == \A u \in Turns : Pledged(u) /\ input'[u] # {} => Pledged(u)'
SentKept ==
  \A x \in sent' \ sent :
    \/ Stowed(x)'
    \/ \E s \in TurnStates : Guarded(s)' /\ x \in pend'[s]
    \/ \E u \in Turns : Pledged(u)' /\ x \in input'[u]
Conserves == HeldKept /\ PendKept /\ GuardKept /\ InputKept /\ PledgeKept /\ SentKept

LEMMA NothingLost ==
  ASSUME TypeOK, RegInv, idle = {}, NothingVanishes, Conserves
  PROVE  NothingVanishes'
<1> SUFFICES ASSUME NEW x \in sent' PROVE x \in recorded' \cup refused' \/ Waiting(x)'
  BY DEF NothingVanishes
<1>1. CASE x \notin sent
  BY <1>1, WaysAreWaiting DEF Conserves, SentKept
<1>2. CASE x \in sent
  <2>1. \/ Stowed(x)
        \/ \E s \in TurnStates : Guarded(s) /\ x \in pend[s]
        \/ \E t \in Turns : Pledged(t) /\ x \in input[t]
    BY <1>2, WaysToWait DEF NothingVanishes
  <2>2. CASE Stowed(x)
    BY <2>2, WaysAreWaiting DEF Stowed, Conserves, HeldKept
  <2>3. CASE \E s \in TurnStates : Guarded(s) /\ x \in pend[s]
    BY <2>3, WaysAreWaiting DEF Conserves, PendKept, GuardKept
  <2>4. CASE \E t \in Turns : Pledged(t) /\ x \in input[t]
    BY <2>4, WaysAreWaiting DEF Conserves, InputKept, PledgeKept
  <2> QED
    BY <2>1, <2>2, <2>3, <2>4
<1> QED
  BY <1>1, <1>2

\* Every step of an undisturbed session conserves the items.
LEMMA StepConserves ==
  ASSUME IInv, Undisturbed, NoInjection, ItemInv, Next
  PROVE  Conserves
<1>0. /\ TypeOK /\ RegInv /\ FreshInv /\ PlaceInv /\ OwnerInv /\ StartInv /\ ReservationOwned
      /\ MaxGuardAborts = 0 /\ (NoSelfStart \/ NoReplacement)
  BY DEF IInv, BaseInv, Undisturbed
<1>a. /\ ActiveTask = IF active = None THEN None ELSE active.task
      /\ ActiveTask' = IF active' = None THEN None ELSE active'.task
      /\ ActiveTask \in Turns \cup {None} /\ pc[Guard] = "parked"
  BY <1>0, ActiveCases DEF ActiveTask, TypeOK, PlaceInv
<1>c. /\ Approvals = {} /\ idle = {} /\ turnIds \in Nat
      /\ \A b \in Actors : reg[b].turn \in Turns \cup {None}
      /\ active # None => active.ts \in TurnStates
      /\ \A u \in Turns : u \in Nat /\ u \in Actors /\ (u > turnIds => input[u] = {})
  BY <1>0, NextNames, Names, ActiveCases DEF NoInjection, TypeOK, Regs, ItemInv, FreshInv
<1>d. /\ \A b \in Actors : pc[b] \in Custodians \cup {"f_clear", "st_extend", "st_install"} => reg[b].ts \in TurnStates
      /\ \A b \in Actors : pc[b] \notin {"st_ts", "st_extend"} => reg[b].held = {}
      /\ \A b \in Actors : reg[b].turn # None =>
           pc[b] \in Starting \/ (pc[b] \in Aborting /\ reg[b].reason = "Replaced")
  BY <1>0, <1>c DEF ItemInv, RegInv, RegSound, Closing, PlaceInv, Custodians, TypeOK, Regs
<1> USE <1>0, <1>a, <1>c, <1>d, Names, NoRegType DEF session, turns, fates
<1>1. ASSUME Accepts PROVE Conserves
  <2>1. HeldKept
    BY <1>1 DEF HeldKept, Accepts, Stowed, Busy, Stops
  <2>2. PendKept
    BY <1>1 DEF PendKept, Accepts, Stowed
  <2>3. GuardKept
    BY <1>1 DEF GuardKept, Accepts, Guarded, Custodians
  <2>4. InputKept
    BY <1>1 DEF InputKept, Accepts, Stowed
  <2>5. PledgeKept
    BY <1>1 DEF PledgeKept, Accepts, Pledged, Busy, Stops, Starting, Aborting
  <2>6. SentKept
    BY <1>1 DEF SentKept, Accepts, Stowed, Guarded, Pledged, Busy, Stops
  <2> QED
    BY <2>1, <2>2, <2>3, <2>4, <2>5, <2>6 DEF Conserves
<1>2. ASSUME Creates PROVE Conserves
  <2>1. HeldKept
    BY <1>2 DEF HeldKept, Creates, Elsewhere, Stowed, Busy, Stops
  <2>2. PendKept
    BY <1>2 DEF PendKept, Creates, Elsewhere, Stowed
  <2>3. GuardKept
    BY <1>2 DEF GuardKept, Creates, Elsewhere, Guarded, Custodians
  <2>4. InputKept
    BY <1>2 DEF InputKept, Creates, Elsewhere, Stowed
  <2>5. PledgeKept
    BY <1>2 DEF PledgeKept, Creates, Elsewhere, Pledged, Busy, Stops, Starting, Aborting
  <2>6. SentKept
    BY <1>2 DEF SentKept, Creates, Elsewhere, Stowed, Guarded, Pledged, Busy, Stops
  <2> QED
    BY <2>1, <2>2, <2>3, <2>4, <2>5, <2>6 DEF Conserves
<1>3. ASSUME Interrupts PROVE Conserves
  <2>1. HeldKept
    BY <1>3 DEF HeldKept, Interrupts, Elsewhere, Stowed, Busy, Stops
  <2>2. PendKept
    BY <1>3 DEF PendKept, Interrupts, Elsewhere, Stowed
  <2>3. GuardKept
    BY <1>3 DEF GuardKept, Interrupts, Elsewhere, Guarded, Custodians
  <2>4. InputKept
    BY <1>3 DEF InputKept, Interrupts, Elsewhere, Stowed
  <2>5. PledgeKept
    BY <1>3 DEF PledgeKept, Interrupts, Elsewhere, Pledged, Busy, Stops, Starting, Aborting
  <2>6. SentKept
    BY <1>3 DEF SentKept, Interrupts, Elsewhere, Stowed, Guarded, Pledged, Busy, Stops
  <2> QED
    BY <2>1, <2>2, <2>3, <2>4, <2>5, <2>6 DEF Conserves
<1>4. ASSUME Denies PROVE Conserves
  BY <1>4 DEF Denies
<1>5. ASSUME Wakes PROVE Conserves
  <2>1. HeldKept
    BY <1>5 DEF HeldKept, Wakes, Elsewhere, Stowed, Busy, Stops
  <2>2. PendKept
    BY <1>5 DEF PendKept, Wakes, Elsewhere, Stowed
  <2>3. GuardKept
    BY <1>5 DEF GuardKept, Wakes, Elsewhere, Guarded, Custodians
  <2>4. InputKept
    BY <1>5 DEF InputKept, Wakes, Elsewhere, Stowed
  <2>5. PledgeKept
    BY <1>5 DEF PledgeKept, Wakes, Elsewhere, Pledged, Busy, Stops, Starting, Aborting
  <2>6. SentKept
    BY <1>5 DEF SentKept, Wakes, Elsewhere, Stowed, Guarded, Pledged, Busy, Stops
  <2> QED
    BY <2>1, <2>2, <2>3, <2>4, <2>5, <2>6 DEF Conserves
<1>6. ASSUME Keeps PROVE Conserves
  <2>1. HeldKept
    BY <1>6 DEF HeldKept, Keeps, Elsewhere, Stowed, Busy, Stops
  <2>2. PendKept
    BY <1>6 DEF PendKept, Keeps, Elsewhere, Stowed
  <2>3. GuardKept
    BY <1>6 DEF GuardKept, Keeps, Elsewhere, Guarded, Custodians
  <2>4. InputKept
    BY <1>6 DEF InputKept, Keeps, Elsewhere, Stowed
  <2>5. PledgeKept
    BY <1>6 DEF PledgeKept, Keeps, Elsewhere, Pledged, Busy, Stops, Starting, Aborting
  <2>6. SentKept
    BY <1>6 DEF SentKept, Keeps, Elsewhere, Stowed, Guarded, Pledged, Busy, Stops
  <2> QED
    BY <2>1, <2>2, <2>3, <2>4, <2>5, <2>6 DEF Conserves
<1>7. ASSUME DropsTurn PROVE Conserves
  <2>0. \A s \in TurnStates : active # None /\ active.ts = s /\ pend[s] # {} =>
          \E b \in Actors \ {Loop} : pc[b] = "f_pend" /\ reg[b].ts = s
    <3>1. NoSelfStart /\ pc[Loop] = "ab_take"
      BY <1>7 DEF DropsTurn, PlaceInv, Aborting
    <3>2. \A b \in Actors : pc[b] \notin Starting
      BY <3>1 DEF PlaceInv, Starting
    <3>3. active # None => active.task = None
      BY <1>7 DEF DropsTurn
    <3>4. active # None => \E b \in Actors : pc[b] \in {"f_pend", "f_clear"} /\ reg[b].ts = active.ts
      BY <3>2, <3>3 DEF ReservationOwned, Starting
    <3>5. \A b \in Actors : pc[b] \in {"f_pend", "f_clear"} => b \in Turns
      BY <3>1
    <3>6. ASSUME NEW b \in Turns, pc[b] = "f_clear" PROVE pend[reg[b].ts] = {}
      BY <3>6 DEF ItemInv
    <3>7. Loop \notin Turns
      BY Names
    <3> QED
      BY <3>4, <3>5, <3>6, <3>7
  <2>1. HeldKept
    BY <1>7 DEF HeldKept, DropsTurn, Elsewhere, Stowed, Busy, Stops
  <2>2. PendKept
    BY <1>7 DEF PendKept, DropsTurn, Elsewhere, Stowed
  <2>3. GuardKept
    BY <1>7, <2>0 DEF GuardKept, DropsTurn, Elsewhere, Guarded, Custodians
  <2>4. InputKept
    BY <1>7 DEF InputKept, DropsTurn, Elsewhere, Stowed
  <2>5. PledgeKept
    BY <1>7 DEF PledgeKept, DropsTurn, Elsewhere, Pledged, Busy, Stops, Starting, Aborting
  <2>6. SentKept
    BY <1>7 DEF SentKept, DropsTurn, Elsewhere, Stowed, Guarded, Pledged, Busy, Stops
  <2> QED
    BY <2>1, <2>2, <2>3, <2>4, <2>5, <2>6 DEF Conserves
<1>8. ASSUME NEW a \in {Loop, Guard}, TakesTask(a) PROVE Conserves
  <2>1. HeldKept
    BY <1>8 DEF HeldKept, TakesTask, Elsewhere, Stowed, Busy, Stops
  <2>2. PendKept
    BY <1>8 DEF PendKept, TakesTask, Elsewhere, Stowed
  <2>3. GuardKept
    BY <1>8 DEF GuardKept, TakesTask, Elsewhere, Guarded, Custodians
  <2>4. InputKept
    BY <1>8 DEF InputKept, TakesTask, Elsewhere, Stowed
  <2>5. PledgeKept
    BY <1>8 DEF PledgeKept, TakesTask, Elsewhere, Pledged, Busy, Stops, Starting, Aborting
  <2>6. SentKept
    BY <1>8 DEF SentKept, TakesTask, Elsewhere, Stowed, Guarded, Pledged, Busy, Stops
  <2> QED
    BY <2>1, <2>2, <2>3, <2>4, <2>5, <2>6 DEF Conserves
<1>9. ASSUME NEW a \in {Loop, Guard}, Kills(a) PROVE Conserves
  <2> DEFINE v == reg[a].task
  <2>0. /\ v \in Turns /\ v # a /\ pc[a] = "ab_wait" /\ pc'[a] = "ab_clear" /\ reg' = reg /\ pend' = pend
        /\ mailbox' = mailbox /\ recorded' = recorded /\ sent' = sent /\ active' = active
        /\ refused' = refused \cup input[v] /\ input'[v] = {}
        /\ \A u \in Turns : u # v => input'[u] = input[u]
        /\ \A b \in Actors : b # a /\ b # v => pc'[b] = pc[b]
    BY <1>9 DEF Kills
  <2>a. reg[v].held = {} /\ reg[v].turn = None /\ pc[v] \notin Custodians
    BY <1>9, <2>0 DEF OwnerInv, Working, Running, Streaming, Custodians, Starting, Aborting
  <2> HIDE DEF v
  <2>1. HeldKept
    BY <2>0, <2>a DEF HeldKept, Stowed, Busy, Stops
  <2>2. PendKept
    BY <2>0 DEF PendKept
  <2>3. GuardKept
    BY <2>0, <2>a DEF GuardKept, Guarded, Custodians
  <2>4. InputKept
    BY <2>0 DEF InputKept, Stowed
  <2>5. PledgeKept
    BY <2>0, <2>a DEF PledgeKept, Pledged, Busy, Stops
  <2>6. SentKept
    BY <2>0 DEF SentKept
  <2> QED
    BY <2>1, <2>2, <2>3, <2>4, <2>5, <2>6 DEF Conserves
<1>10. ASSUME NEW a \in {Loop, Guard}, Clears(a) PROVE Conserves
  <2>1. HeldKept
    BY <1>10 DEF HeldKept, Clears, Elsewhere, Stowed, Busy, Stops
  <2>2. PendKept
    BY <1>10 DEF PendKept, Clears, Elsewhere, Stowed
  <2>3. GuardKept
    BY <1>10 DEF GuardKept, Clears, Elsewhere, Guarded, Custodians
  <2>4. InputKept
    BY <1>10 DEF InputKept, Clears, Elsewhere, Stowed
  <2>5. PledgeKept
    BY <1>10 DEF PledgeKept, Clears, Elsewhere, Pledged, Busy, Stops, Starting, Aborting
  <2>6. SentKept
    BY <1>10 DEF SentKept, Clears, Elsewhere, Stowed, Guarded, Pledged, Busy, Stops
  <2> QED
    BY <2>1, <2>2, <2>3, <2>4, <2>5, <2>6 DEF Conserves
<1>11. ASSUME NEW a \in Actors, Leaves(a) PROVE Conserves
  <2>1. HeldKept
    BY <1>11 DEF HeldKept, Leaves, Elsewhere, Stowed, Busy, Stops
  <2>2. PendKept
    BY <1>11 DEF PendKept, Leaves, Elsewhere, Stowed
  <2>3. GuardKept
    BY <1>11 DEF GuardKept, Leaves, Elsewhere, Guarded, Custodians
  <2>4. InputKept
    BY <1>11 DEF InputKept, Leaves, Elsewhere, Stowed
  <2>5. PledgeKept
    BY <1>11 DEF PledgeKept, Leaves, Elsewhere, Pledged, Busy, Stops, Starting, Aborting
  <2>6. SentKept
    BY <1>11 DEF SentKept, Leaves, Elsewhere, Stowed, Guarded, Pledged, Busy, Stops
  <2> QED
    BY <2>1, <2>2, <2>3, <2>4, <2>5, <2>6 DEF Conserves
<1>12. ASSUME NEW a \in Actors, Looks(a) PROVE Conserves
  <2>1. HeldKept
    BY <1>12 DEF HeldKept, Looks, Elsewhere, Stowed, Busy, Stops
  <2>2. PendKept
    BY <1>12 DEF PendKept, Looks, Elsewhere, Stowed
  <2>3. GuardKept
    BY <1>12 DEF GuardKept, Looks, Elsewhere, Guarded, Custodians
  <2>4. InputKept
    BY <1>12 DEF InputKept, Looks, Elsewhere, Stowed
  <2>5. PledgeKept
    BY <1>12 DEF PledgeKept, Looks, Elsewhere, Pledged, Busy, Stops, Starting, Aborting
  <2>6. SentKept
    BY <1>12 DEF SentKept, Looks, Elsewhere, Stowed, Guarded, Pledged, Busy, Stops
  <2> QED
    BY <2>1, <2>2, <2>3, <2>4, <2>5, <2>6 DEF Conserves
<1>13. ASSUME NEW a \in Actors, Reserves(a) PROVE Conserves
  <2>1. HeldKept
    BY <1>13 DEF HeldKept, Reserves, Elsewhere, Stowed, Busy, Stops
  <2>2. PendKept
    BY <1>13 DEF PendKept, Reserves, Elsewhere, Stowed
  <2>3. GuardKept
    BY <1>13 DEF GuardKept, Reserves, Elsewhere, Guarded, Custodians
  <2>4. InputKept
    BY <1>13 DEF InputKept, Reserves, Elsewhere, Stowed
  <2>5. PledgeKept
    BY <1>13 DEF PledgeKept, Reserves, Elsewhere, Pledged, Busy, Stops, Starting, Aborting
  <2>6. SentKept
    BY <1>13 DEF SentKept, Reserves, Elsewhere, Stowed, Guarded, Pledged, Busy, Stops
  <2> QED
    BY <2>1, <2>2, <2>3, <2>4, <2>5, <2>6 DEF Conserves
<1>14. ASSUME NEW a \in Actors, TakesWork(a) PROVE Conserves
  <2>0. /\ mailbox \subseteq mailbox' \cup Pending /\ reg'[a].held = Pending /\ pc'[a] = "st_ts"
        /\ \A s \in TurnStates : pend[s] \subseteq pend'[s] \cup Pending
        /\ recorded' = recorded /\ refused' = refused
        /\ \A b \in Actors : b # a => pc'[b] = pc[b] /\ reg'[b] = reg[b]
        /\ pc[a] = "st_pend"
    BY <1>14, PendingTypes DEF TakesWork, Elsewhere
  <2>1. HeldKept
    BY <2>0 DEF HeldKept, Stowed, Busy, Stops
  <2>2. PendKept
    BY <2>0 DEF PendKept, Stowed, Busy, Stops
  <2>3. GuardKept
    BY <1>14 DEF GuardKept, TakesWork, Elsewhere, Guarded, Custodians
  <2>4. InputKept
    BY <1>14 DEF InputKept, TakesWork, Elsewhere, Stowed
  <2>5. PledgeKept
    BY <1>14 DEF PledgeKept, TakesWork, Elsewhere, Pledged, Busy, Stops, Starting, Aborting
  <2>6. SentKept
    BY <1>14 DEF SentKept, TakesWork, Elsewhere, Stowed, Guarded, Pledged, Busy, Stops
  <2> QED
    BY <2>1, <2>2, <2>3, <2>4, <2>5, <2>6 DEF Conserves
<1>15. ASSUME NEW a \in Actors, FindsState(a) PROVE Conserves
  <2>1. HeldKept
    BY <1>15 DEF HeldKept, FindsState, GetsActive, Elsewhere, Stowed, Busy, Stops
  <2>2. PendKept
    BY <1>15 DEF PendKept, FindsState, GetsActive, Elsewhere, Stowed
  <2>3. GuardKept
    BY <1>15 DEF GuardKept, FindsState, GetsActive, Elsewhere, Guarded, Custodians
  <2>4. InputKept
    BY <1>15 DEF InputKept, FindsState, GetsActive, Elsewhere, Stowed
  <2>5. PledgeKept
    BY <1>15 DEF PledgeKept, FindsState, GetsActive, Elsewhere, Pledged, Busy, Stops, Starting,
       Aborting
  <2>6. SentKept
    BY <1>15 DEF SentKept, FindsState, GetsActive, Elsewhere, Stowed, Guarded, Pledged, Busy, Stops
  <2> QED
    BY <2>1, <2>2, <2>3, <2>4, <2>5, <2>6 DEF Conserves
<1>16. ASSUME NEW a \in Actors, HandsOver(a) PROVE Conserves
  <2>0. active # None /\ active.ts = reg[a].ts /\ active' = active
    <3>1. pc[a] = "st_extend" /\ reg[a].ts \in TurnStates /\ active' = active
      BY <1>16 DEF HandsOver
    <3>2. active = [ts |-> reg[a].ts, task |-> None]
      BY <3>1 DEF StartInv, Starting
    <3> QED
      BY <3>1, <3>2, RecordIsActive
  <2>1. HeldKept
    BY <1>16, <2>0 DEF HeldKept, HandsOver, Elsewhere, Stowed, Guarded, Busy, Stops
  <2>2. PendKept
    BY <1>16 DEF PendKept, HandsOver, Elsewhere, Stowed
  <2>3. GuardKept
    BY <1>16 DEF GuardKept, HandsOver, Elsewhere, Guarded, Custodians
  <2>4. InputKept
    BY <1>16 DEF InputKept, HandsOver, Elsewhere, Stowed
  <2>5. PledgeKept
    BY <1>16 DEF PledgeKept, HandsOver, Elsewhere, Pledged, Busy, Stops, Starting, Aborting
  <2>6. SentKept
    BY <1>16 DEF SentKept, HandsOver, Elsewhere, Stowed, Guarded, Pledged, Busy, Stops
  <2> QED
    BY <2>1, <2>2, <2>3, <2>4, <2>5, <2>6 DEF Conserves
<1>17. ASSUME NEW a \in Actors, Installs(a) PROVE Conserves
  <2> DEFINE v == reg[a].turn
  <2>0. /\ pc[a] = "st_install" /\ v \in Turns /\ v # a /\ reg[a].ts \in TurnStates
        /\ pc[v] = "parked" /\ (kind[v] = "Compact" => input[v] = {})
    BY <1>17 DEF Installs, FreshInv, Creators, Starting
  <2>a. ActiveTask = None /\ active = [ts |-> reg[a].ts, task |-> None]
    BY <2>0 DEF StartInv, Starting
  <2>b. active # None
    BY <2>0, <2>a, RecordIsActive
  <2>c. active' # None /\ active'.ts = active.ts
    BY <1>17, <2>b DEF Installs, GetsActive
  <2>d. /\ \A b \in Actors : b # a /\ b # v => pc'[b] = pc[b] /\ reg'[b] = reg[b]
        /\ reg'[v] = reg[v] /\ reg[v].held = {} /\ reg[a].held = {}
        /\ kind[v] # "Compact" => pc'[v] = "r_start"
        /\ UNCHANGED <<pend, mailbox, input, sent, recorded, refused>>
    <3>1. \A b \in Actors : b # a /\ b # v => pc'[b] = pc[b]
      BY <1>17, <2>a DEF Installs
    <3>2. /\ \A b \in Actors : b # a => reg'[b] = reg[b]
          /\ kind[v] # "Compact" => pc'[v] = "r_start"
          /\ UNCHANGED <<pend, mailbox, input, sent, recorded, refused>>
      BY <1>17 DEF Installs
    <3>3. reg[v].held = {} /\ reg[a].held = {}
      BY <2>0
    <3> QED
      BY <2>0, <3>1, <3>2, <3>3
  <2>e. reg[a].turn = v
    OBVIOUS
  <2> HIDE DEF v
  <2>1. HeldKept
    BY <2>0, <2>d DEF HeldKept, Stowed, Busy, Stops
  <2>2. PendKept
    BY <2>d DEF PendKept
  <2>3. GuardKept
    BY <2>0, <2>b, <2>c, <2>d DEF GuardKept, Guarded, Custodians
  <2>4. InputKept
    BY <2>d DEF InputKept
  <2>5. PledgeKept
    <3> SUFFICES ASSUME NEW u \in Turns, Pledged(u), input'[u] # {} PROVE Pledged(u)'
      BY DEF PledgeKept
    <3>1. CASE u = v
      BY <2>0, <2>d, <3>1 DEF Pledged
    <3>2. CASE u # v /\ pc[u] \in {"r_start", "r_input"}
      BY <2>0, <2>d, <3>2 DEF Pledged
    <3>3. CASE u # v /\ \E b \in Actors : Busy(b) /\ reg[b].turn = u
      BY <2>0, <2>d, <2>e, <3>3 DEF Pledged, Busy, Stops
    <3> QED
      BY <3>1, <3>2, <3>3 DEF Pledged
  <2>6. SentKept
    BY <2>d DEF SentKept
  <2> QED
    BY <2>1, <2>2, <2>3, <2>4, <2>5, <2>6 DEF Conserves
<1>18. ASSUME NEW t \in Turns, Digests(t) PROVE Conserves
  <2>1. HeldKept
    BY <1>18 DEF HeldKept, Digests, Running, Streaming, Stowed, Busy, Stops
  <2>2. PendKept
    BY <1>18 DEF PendKept, Digests, Running, Streaming, Stowed
  <2>3. GuardKept
    BY <1>18 DEF GuardKept, Digests, Running, Streaming, Guarded, Custodians
  <2>4. InputKept
    BY <1>18 DEF InputKept, Digests, Running, Streaming, Stowed
  <2>5. PledgeKept
    BY <1>18 DEF PledgeKept, Digests, Running, Streaming, Pledged, Busy, Stops, Starting, Aborting
  <2>6. SentKept
    BY <1>18 DEF SentKept, Digests, Running, Streaming, Stowed, Guarded, Pledged, Busy, Stops
  <2> QED
    BY <2>1, <2>2, <2>3, <2>4, <2>5, <2>6 DEF Conserves
<1>19. ASSUME NEW t \in Turns, Passes(t) PROVE Conserves
  <2>1. HeldKept
    BY <1>19 DEF HeldKept, Passes, Elsewhere, Stowed, Busy, Stops
  <2>2. PendKept
    BY <1>19 DEF PendKept, Passes, Elsewhere, Stowed
  <2>3. GuardKept
    BY <1>19 DEF GuardKept, Passes, Elsewhere, Guarded, Custodians
  <2>4. InputKept
    BY <1>19 DEF InputKept, Passes, Elsewhere, Stowed
  <2>5. PledgeKept
    BY <1>19 DEF PledgeKept, Passes, Elsewhere, Pledged, Busy, Stops, Starting, Aborting
  <2>6. SentKept
    BY <1>19 DEF SentKept, Passes, Elsewhere, Stowed, Guarded, Pledged, Busy, Stops
  <2> QED
    BY <2>1, <2>2, <2>3, <2>4, <2>5, <2>6 DEF Conserves
<1>20. ASSUME NEW t \in Turns, Detaches(t) PROVE Conserves
  <2>1. HeldKept
    BY <1>20 DEF HeldKept, Detaches, Elsewhere, Stowed, Busy, Stops
  <2>2. PendKept
    BY <1>20 DEF PendKept, Detaches, Elsewhere, Stowed
  <2>3. GuardKept
    BY <1>20 DEF GuardKept, Detaches, Elsewhere, Guarded, Custodians
  <2>4. InputKept
    BY <1>20 DEF InputKept, Detaches, Elsewhere, Stowed
  <2>5. PledgeKept
    BY <1>20 DEF PledgeKept, Detaches, Elsewhere, Pledged, Busy, Stops, Starting, Aborting
  <2>6. SentKept
    BY <1>20 DEF SentKept, Detaches, Elsewhere, Stowed, Guarded, Pledged, Busy, Stops
  <2> QED
    BY <2>1, <2>2, <2>3, <2>4, <2>5, <2>6 DEF Conserves
<1>21. ASSUME NEW t \in Turns, Completes(t) PROVE Conserves
  <2>1. HeldKept
    BY <1>21 DEF HeldKept, Completes, Elsewhere, Stowed, Busy, Stops
  <2>2. PendKept
    BY <1>21 DEF PendKept, Completes, Elsewhere, Stowed
  <2>3. GuardKept
    BY <1>21 DEF GuardKept, Completes, Elsewhere, Guarded, Custodians
  <2>4. InputKept
    BY <1>21 DEF InputKept, Completes, Elsewhere, Stowed
  <2>5. PledgeKept
    BY <1>21 DEF PledgeKept, Completes, Elsewhere, Pledged, Busy, Stops, Starting, Aborting
  <2>6. SentKept
    BY <1>21 DEF SentKept, Completes, Elsewhere, Stowed, Guarded, Pledged, Busy, Stops
  <2> QED
    BY <2>1, <2>2, <2>3, <2>4, <2>5, <2>6 DEF Conserves
<1>22. ASSUME NEW t \in Turns, Closes(t) PROVE Conserves
  <2>0. pend' = pend /\ pend[reg[t].ts] = {}
    BY <1>22 DEF Closes, ItemInv
  <2>1. HeldKept
    BY <1>22 DEF HeldKept, Closes, Elsewhere, Stowed, Busy, Stops
  <2>2. PendKept
    BY <1>22 DEF PendKept, Closes, Elsewhere, Stowed
  <2>3. GuardKept
    BY <1>22, <2>0 DEF GuardKept, Closes, Elsewhere, Guarded, Custodians
  <2>4. InputKept
    BY <1>22 DEF InputKept, Closes, Elsewhere, Stowed
  <2>5. PledgeKept
    BY <1>22 DEF PledgeKept, Closes, Elsewhere, Pledged, Busy, Stops, Starting, Aborting
  <2>6. SentKept
    BY <1>22 DEF SentKept, Closes, Elsewhere, Stowed, Guarded, Pledged, Busy, Stops
  <2> QED
    BY <2>1, <2>2, <2>3, <2>4, <2>5, <2>6 DEF Conserves
<1> QED
  BY StepCases, <1>1, <1>2, <1>3, <1>4, <1>5, <1>6, <1>7, <1>8, <1>9, <1>10, <1>11, <1>12,
     <1>13, <1>14, <1>15, <1>16, <1>17, <1>18, <1>19, <1>20, <1>21, <1>22 DEF IInv

\* The invariant of an undisturbed session without injected items.
LEMMA CustodyHolds == Undisturbed /\ NoInjection /\ Spec => []CustodyInv
<1>1. Init => ItemInv /\ NothingVanishes
  BY NoRegType, Names DEF Init, ItemInv, NothingVanishes
<1>2. (Undisturbed /\ NoInjection /\ ItemInv /\ NothingVanishes) /\ IInv /\ [Next]_vars
        => (Undisturbed /\ NoInjection /\ ItemInv /\ NothingVanishes)'
  <2>1. ASSUME Undisturbed, NoInjection, ItemInv, NothingVanishes, IInv, Next
        PROVE  ItemInv' /\ NothingVanishes'
    <3>1. TypeOK /\ RegInv /\ idle = {}
      BY <2>1 DEF IInv, BaseInv, ItemInv
    <3> QED
      BY <2>1, <3>1, ItemStep, StepConserves, NothingLost
  <2>2. ASSUME ItemInv, NothingVanishes, UNCHANGED vars
        PROVE  ItemInv' /\ NothingVanishes'
    BY <2>2 DEF ItemInv, NothingVanishes, Waiting, Busy, vars, session, turns, fates
  <2>3. Undisturbed' = Undisturbed /\ NoInjection' = NoInjection
    BY DEF Undisturbed, NoSelfStart, NoReplacement, NoInjection
  <2> QED
    BY <2>1, <2>2, <2>3
<1>3. IInv /\ ItemInv /\ NothingVanishes => CustodyInv
  BY DEF CustodyInv
<1> QED
  BY <1>1, <1>2, <1>3, UndisturbedHolds, PTL DEF Spec

\* Nothing accepted vanishes: user input, steered or not, and mail wait in the
\* mailbox, a turn state or a turn's input until they are recorded or dropped by
\* a hook, an abort or a failed preamble.
THEOREM AcceptedItemsKept == Undisturbed /\ NoInjection /\ Spec => []NothingVanishes
<1>1. CustodyInv => NothingVanishes
  BY DEF CustodyInv
<1> QED
  BY <1>1, CustodyHolds, PTL

=============================================================================
