----------------------- MODULE RequestRefinementProofs -----------------------
(***************************************************************************)
(* The proof that the queues, the drain tasks and the gates keep the       *)
(* promise OrderedAccess states, for every set of connections and scopes   *)
(* and every bound: every step of RequestSerialization is a step of the    *)
(* promise or changes nothing it shows.                                    *)
(***************************************************************************)
EXTENDS MCRequestSerialization, RequestSerializationProofs

\* What the proof knows of a reachable state.
PromiseInv == IInv /\ GateMatches

\* The gates open, close once and stay closed.
LEMMA GateStep == TypeOK /\ GateMatches /\ [Next]_vars => GateMatches'
<1> SUFFICES ASSUME TypeOK, GateMatches, [Next]_vars PROVE GateMatches'
  OBVIOUS
<1>1. ASSUME UNCHANGED <<accepting, gate>> PROVE GateMatches'
  BY <1>1 DEF GateMatches
<1>2. ASSUME NEW c \in Conns, GateClose(c) \/ GateDrained(c) PROVE GateMatches'
  BY <1>2 DEF GateClose, GateDrained, GateMatches, TypeOK
<1>3. ASSUME NEW c \in Conns, NEW s \in Scopes \cup {NoScope}, Dispatch(c, s)
      PROVE  GateMatches'
  BY <1>1, <1>3 DEF Dispatch
<1>4. ASSUME NEW i \in Dispatched, GateEnter(i) \/ HandlerDone(i) \/ HandlerPanic(i)
      PROVE  GateMatches'
  BY <1>1, <1>4 DEF GateEnter, HandlerDone, HandlerPanic
<1>5. ASSUME NEW d \in Dispatched, DrainStep(d) PROVE GateMatches'
  BY <1>1, <1>5 DEF DrainStep, DrainPop, DrainExit, DrainJoined
<1>6. CASE UNCHANGED vars
  BY <1>1, <1>6 DEF vars
<1> QED
  BY <1>2, <1>3, <1>4, <1>5, <1>6 DEF Next

\* The phase of a request, read off its status.
LEMMA PhaseOf ==
  ASSUME TypeOK, NEW i \in Ids
  PROVE  /\ Phases[i] = Phase(i)
         /\ status[i] = "new" => Phase(i) = "new"
         /\ status[i] \in {"queued", "popped"} => Phase(i) = "waiting"
         /\ status[i] = "running" => Phase(i) = "running"
         /\ Finished(i) <=> Phase(i) = "over"
BY DEF TypeOK, Phases, Phase, Finished

\* The promise's conflicts are those the queues order by.
LEMMA SameConflicts ==
  ASSUME NEW i \in Dispatched, NEW j \in Dispatched
  PROVE  RequestConflict(reqs[i], reqs[j]) <=> Conflict(i, j)
BY DEF RequestConflict, Conflict, Scoped, Key, Access, FromScope

\* A request that has left its queue and waits at the gate has its turn.
LEMMA PoppedHasTurn ==
  ASSUME PromiseInv, NEW i \in Dispatched, status[i] = "popped"
  PROVE  Promise!Turn(i)
<1>1. i \in Ids /\ Dispatched \subseteq Ids /\ TypeOK
  BY BoundsAssumption DEF PromiseInv, IInv, TypeOK, Ids, Dispatched
<1>2. Phases[i] = "waiting"
  BY <1>1, PhaseOf
<1>3. ASSUME NEW j \in 1 .. (i - 1), RequestConflict(reqs[j], reqs[i])
      PROVE  Phases[j] = "over"
  <2>1. j \in Dispatched /\ j < i
    BY DEF PromiseInv, IInv, TypeOK, Dispatched
  <2>2. Conflict(j, i)
    BY <2>1, <1>3, SameConflicts
  <2>3. Finished(j)
    BY <2>1, <2>2 DEF PromiseInv, IInv, ArrivalOrder
  <2> QED
    BY <2>1, <2>3, <1>1, PhaseOf
<1> QED
  BY <1>2, <1>3 DEF Promise!Turn

\* Phases change only where the status does.
LEMMA PhasesKeep ==
  ASSUME \A i \in Ids : Phase(i)' = Phase(i)
  PROVE  Phases' = Phases
BY DEF Phases

\* Before the first request the promise is in its initial state.
LEMMA PromiseInit == Init => Promise!Init
<1> SUFFICES ASSUME Init PROVE Promise!Init
  OBVIOUS
<1>1. \A i \in Ids : Phase(i) = "new"
  BY TypeInit, PhaseOf DEF Init
<1>2. Phases = [i \in Ids |-> "new"]
  BY <1>1 DEF Phases
<1> QED
  BY <1>2 DEF Init, Promise!Init, Promise!Ids, Ids, ClosedConns, QuietConns

\* A dispatched request arrives: its connection's gate is still open.
LEMMA DispatchArrives ==
  ASSUME PromiseInv, TypeOK', NEW c \in Conns, NEW s \in Scopes \cup {NoScope},
         gate[c] = "open", Dispatch(c, s)
  PROVE  Promise!Next
<1> DEFINE r == [conn |-> c, scope |-> s]
<1>1. r \in Request /\ RequestConn(r) = c
  BY DEF Request, RequestConn
<1>2. PICK i \in Ids : i = Len(reqs) + 1
  BY BoundsAssumption DEF Dispatch, PromiseInv, IInv, TypeOK, Ids
<1>3. c \notin ClosedConns
  BY DEF PromiseInv, GateMatches, ClosedConns
<1>4. \A j \in Ids : j # i => Phase(j)' = Phase(j)
  BY <1>2 DEF Dispatch, Phase, PromiseInv, IInv, TypeOK
<1>5. Phase(i)' = "waiting"
  <2>1. status'[i] \in {"queued", "popped"}
    BY <1>2 DEF Dispatch, PromiseInv, IInv, TypeOK
  <2> QED
    BY <2>1 DEF Phase
<1>6. Phases' = [Phases EXCEPT ![Len(reqs) + 1] = "waiting"]
  BY <1>2, <1>4, <1>5 DEF Phases
<1>7. ClosedConns' = ClosedConns /\ QuietConns' = QuietConns
  BY DEF Dispatch, ClosedConns, QuietConns
<1>8. Promise!Arrive(r)
  BY <1>1, <1>3, <1>6, <1>7 DEF Promise!Arrive, Dispatch
<1> QED
  BY <1>1, <1>8 DEF Promise!Next

\* Requests that are running, or have their turn, end together.
LEMMA RequestsEnd ==
  ASSUME PromiseInv, NEW S \in SUBSET Dispatched, S # {},
         \A i \in S : status[i] \in {"popped", "running"},
         \A i \in Ids : Phase(i)' = IF i \in S THEN "over" ELSE Phase(i),
         reqs' = reqs, accepting' = accepting, gate' = gate
  PROVE  Promise!Next
<1>1. Dispatched \subseteq Ids /\ TypeOK
  BY BoundsAssumption DEF PromiseInv, IInv, TypeOK, Ids, Dispatched
<1>2. \A i \in S : Phases[i] = "running" \/ Promise!Turn(i)
  BY <1>1, PhaseOf, PoppedHasTurn
<1>3. Phases' = [i \in Ids |-> IF i \in S THEN "over" ELSE Phases[i]]
  BY DEF Phases
<1>4. ClosedConns' = ClosedConns /\ QuietConns' = QuietConns
  BY DEF ClosedConns, QuietConns
<1>5. Promise!End(S)
  BY <1>2, <1>3, <1>4 DEF Promise!End, Promise!Ids, Ids
<1>6. S \in SUBSET (1 .. Len(reqs))
  BY DEF Dispatched
<1> QED
  BY <1>5, <1>6 DEF Promise!Next

\* A request that reaches the gate starts, or ends there if it is closed.
LEMMA GateStarts ==
  ASSUME PromiseInv, NEW i \in Dispatched, GateEnter(i)
  PROVE  Promise!Next
<1>1. i \in Ids /\ Conn(i) \in Conns /\ TypeOK
  <2>1. TypeOK /\ reqs[i] \in Request
    BY DEF PromiseInv, IInv, TypeOK, Dispatched
  <2>2. i \in Ids
    BY BoundsAssumption DEF PromiseInv, IInv, TypeOK, Ids, Dispatched
  <2> QED
    BY <2>1, <2>2 DEF Conn, Request
<1>2. \A j \in Ids : j # i => Phase(j)' = Phase(j)
  BY <1>1 DEF GateEnter, Phase, TypeOK
<1>3. CASE accepting[Conn(i)]
  <2>1. Phase(i)' = "running"
    BY <1>1, <1>3 DEF GateEnter, Phase, TypeOK
  <2>2. Phases' = [Phases EXCEPT ![i] = "running"]
    BY <1>2, <2>1 DEF Phases
  <2>3. Promise!Turn(i) /\ RequestConn(reqs[i]) \notin ClosedConns
    BY <1>3, PoppedHasTurn DEF GateEnter, RequestConn, ClosedConns, Conn
  <2>4. ClosedConns' = ClosedConns /\ QuietConns' = QuietConns /\ reqs' = reqs
    BY DEF GateEnter, ClosedConns, QuietConns
  <2>5. Promise!Start(i)
    BY <2>2, <2>3, <2>4 DEF Promise!Start
  <2>6. i \in 1 .. Len(reqs)
    BY DEF Dispatched
  <2> QED
    BY <2>5, <2>6 DEF Promise!Next
<1>4. CASE ~accepting[Conn(i)]
  <2>1. Phase(i)' = "over"
    BY <1>1, <1>4 DEF GateEnter, Phase, TypeOK
  <2>2. \A j \in Ids : Phase(j)' = IF j \in {i} THEN "over" ELSE Phase(j)
    BY <1>2, <2>1
  <2>3. /\ \A j \in {i} : status[j] \in {"popped", "running"}
        /\ reqs' = reqs /\ accepting' = accepting /\ gate' = gate
    BY DEF GateEnter
  <2> QED
    BY <2>2, <2>3, RequestsEnd
<1> QED
  BY <1>3, <1>4

\* A handler that completes ends alone.
LEMMA HandlerEnds ==
  ASSUME PromiseInv, NEW i \in Dispatched, HandlerDone(i)
  PROVE  Promise!Next
<1>1. i \in Ids /\ TypeOK
  BY BoundsAssumption DEF PromiseInv, IInv, TypeOK, Ids, Dispatched
<1>2. \A j \in Ids : Phase(j)' = IF j \in {i} THEN "over" ELSE Phase(j)
  BY <1>1 DEF HandlerDone, Phase, TypeOK
<1>3. /\ \A j \in {i} : status[j] \in {"popped", "running"}
      /\ reqs' = reqs /\ accepting' = accepting /\ gate' = gate
  BY DEF HandlerDone
<1> QED
  BY <1>2, <1>3, RequestsEnd

\* A panic ends the requests of the batch its task was joining.
LEMMA PanicEnds ==
  ASSUME PromiseInv, NEW i \in Dispatched, HandlerPanic(i)
  PROVE  Promise!Next
<1> DEFINE owners == {d \in Ids : drain[d] = "joining" /\ i \in batch[d]}
           lost   == {i} \cup UNION {{j \in batch[d] : ~Finished(j)} : d \in owners}
<1>1. i \in Ids /\ TypeOK /\ Dispatched \subseteq Ids
  BY BoundsAssumption DEF PromiseInv, IInv, TypeOK, Ids, Dispatched
<1>2. /\ status' = [j \in Ids |-> IF j \in lost THEN "dropped" ELSE status[j]]
      /\ reqs' = reqs /\ accepting' = accepting /\ gate' = gate
      /\ status[i] = "running"
  BY DEF HandlerPanic
<1>3. \A j \in lost : j \in Dispatched /\ status[j] # "queued" /\ status[j] # "new"
                      /\ ~Finished(j)
  BY <1>1, <1>2 DEF PromiseInv, IInv, BatchesHoldPopped, UndispatchedIsNew, Finished
<1>4. lost # {} /\ i \in lost
  OBVIOUS
<1> HIDE DEF lost, owners
<1>5. lost \in SUBSET Dispatched /\ \A j \in lost : status[j] \in {"popped", "running"}
  BY <1>1, <1>3 DEF TypeOK, Finished
<1>6. \A j \in Ids : Phase(j)' = IF j \in lost THEN "over" ELSE Phase(j)
  BY <1>2 DEF Phase
<1> QED
  BY <1>2, <1>4, <1>5, <1>6, RequestsEnd

\* What a drain task does between two locks shows in no phase.
LEMMA DrainStutters ==
  ASSUME PromiseInv, NEW d \in Dispatched, Scoped(d), DrainStep(d)
  PROVE  UNCHANGED Promise!vars
<1>1. TypeOK /\ d \in Ids /\ Key(d) \in Keys
  BY KeyType DEF PromiseInv, IInv
<1>2. UNCHANGED <<reqs, accepting, gate>>
  BY DEF DrainStep, DrainPop, DrainExit, DrainJoined
<1>3. \A j \in Ids : Phase(j)' = Phase(j)
  <2>1. CASE DrainPop(d)
    <3> DEFINE q == queues[Key(d)]
    <3>1. PICK n \in 1 .. Len(q) :
            status' = [i \in Ids |-> IF i \in {q[m] : m \in 1 .. n} THEN "popped" ELSE status[i]]
      BY <2>1 DEF DrainPop
    <3>2. \A m \in 1 .. n : status[q[m]] = "queued"
      <4>1. q \in Seq(Ids)
        BY <1>1 DEF TypeOK
      <4>2. \A m \in 1 .. n : m \in DOMAIN q
        BY <4>1
      <4> QED
        BY <4>2, <1>1 DEF PromiseInv, IInv, QueuesHoldQueued
    <3> HIDE DEF q
    <3>3. \A j \in Ids : status'[j] = status[j] \/ (status[j] = "queued" /\ status'[j] = "popped")
      BY <3>1, <3>2
    <3> QED
      BY <3>3 DEF Phase
  <2>2. CASE DrainExit(d) \/ DrainJoined(d)
    BY <2>2 DEF DrainExit, DrainJoined, Phase
  <2> QED
    BY <2>1, <2>2 DEF DrainStep
<1>4. Phases' = Phases
  BY <1>3, PhasesKeep
<1> QED
  BY <1>2, <1>4 DEF Promise!vars, ClosedConns, QuietConns

\* A gate closes, and is quiet when no handler holds a token of it.
LEMMA GateCloses ==
  ASSUME PromiseInv, NEW c \in Conns, GateClose(c) \/ GateDrained(c)
  PROVE  Promise!Next
<1>1. TypeOK
  BY DEF PromiseInv, IInv
<1>2. reqs' = reqs /\ Phases' = Phases
  BY DEF GateClose, GateDrained, Phases, Phase
<1>3. CASE GateClose(c)
  <2>1. ClosedConns' = ClosedConns \cup {c} /\ QuietConns' = QuietConns
    BY <1>1, <1>3 DEF GateClose, ClosedConns, QuietConns, TypeOK
  <2>2. Promise!Close(c)
    BY <1>2, <2>1 DEF Promise!Close
  <2> QED
    BY <2>2 DEF Promise!Next
<1>4. CASE GateDrained(c)
  <2>1. ClosedConns' = ClosedConns /\ QuietConns' = QuietConns \cup {c}
    BY <1>1, <1>4 DEF GateDrained, ClosedConns, QuietConns, TypeOK
  <2>2. c \in ClosedConns
    BY <1>4 DEF GateDrained, ClosedConns, PromiseInv, GateMatches
  <2>3. ASSUME NEW i \in 1 .. Len(reqs), RequestConn(reqs[i]) = c
        PROVE  Phases[i] # "running"
    <3>1. i \in Ids /\ i \in Dispatched /\ Conn(i) = c
      BY <2>3, <1>1, BoundsAssumption DEF TypeOK, Ids, Dispatched, RequestConn, Conn
    <3>2. status[i] # "running"
      BY <3>1, <1>4 DEF GateDrained, InFlight
    <3> QED
      BY <3>1, <3>2, <1>1 DEF Phases, Phase
  <2>4. Promise!Quiet(c)
    BY <1>2, <2>1, <2>2, <2>3 DEF Promise!Quiet
  <2> QED
    BY <2>4 DEF Promise!Next
<1> QED
  BY <1>3, <1>4

\* Every step is a step of the promise or shows nothing of it.
LEMMA PromiseStep == PromiseInv /\ [Next]_vars => [Promise!Next]_(Promise!vars)
<1> SUFFICES ASSUME PromiseInv, [Next]_vars
             PROVE  Promise!Next \/ UNCHANGED Promise!vars
  OBVIOUS
<1>0. TypeOK'
  BY TypeStep DEF PromiseInv, IInv
<1>1. CASE UNCHANGED vars
  BY <1>1 DEF vars, Promise!vars, Phases, Phase, ClosedConns, QuietConns
<1>2. ASSUME NEW c \in Conns, NEW s \in Scopes \cup {NoScope}, gate[c] = "open", Dispatch(c, s)
      PROVE  Promise!Next
  BY <1>0, <1>2, DispatchArrives
<1>3. ASSUME NEW i \in Dispatched, GateEnter(i) \/ HandlerDone(i) \/ HandlerPanic(i)
      PROVE  Promise!Next
  BY <1>3, GateStarts, HandlerEnds, PanicEnds
<1>4. ASSUME NEW d \in Dispatched, Scoped(d), DrainStep(d)
      PROVE  UNCHANGED Promise!vars
  BY <1>4, DrainStutters
<1>5. ASSUME NEW c \in Conns, GateClose(c) \/ GateDrained(c)
      PROVE  Promise!Next
  BY <1>5, GateCloses
<1> QED
  BY <1>1, <1>2, <1>3, <1>4, <1>5 DEF Next

(* The app server keeps its promise to the clients that share it: requests *)
(* that conflict start and end in the order they arrived, a closed         *)
(* connection starts no handler, and its shutdown returns when none of its *)
(* handlers runs, whatever panics on the way.                              *)
THEOREM QueuesKeepPromise == Spec => KeepsPromise
<1>1. Init => PromiseInv
  BY InvInit DEF PromiseInv, GateMatches, Init
<1>2. PromiseInv /\ [Next]_vars => PromiseInv'
  BY InvStep, GateStep DEF PromiseInv, IInv
<1> QED
  BY <1>1, <1>2, PromiseInit, PromiseStep, PTL DEF Spec, KeepsPromise, Promise!Spec
=============================================================================
