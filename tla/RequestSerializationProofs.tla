--------------------- MODULE RequestSerializationProofs ---------------------
(***************************************************************************)
(* Proofs about RequestSerialization, for every set of connections and     *)
(* scopes and every bound.                                                 *)
(***************************************************************************)
EXTENDS RequestSerialization, TLAPS

\* A dispatched, scoped request has a key of the map.
LEMMA KeyType ==
  ASSUME TypeOK, NEW i \in Dispatched, Scoped(i)
  PROVE  Key(i) \in Keys /\ i \in Ids
<1>1. reqs[i] \in Request
  BY DEF TypeOK, Dispatched
<1>2. reqs[i].conn \in Conns /\ reqs[i].scope \in Scopes
  BY <1>1 DEF Scoped, Request
<1>3. i \in Ids
  BY BoundsAssumption DEF TypeOK, Dispatched, Ids
<1> QED
  BY <1>2, <1>3 DEF Key, Keys

\* Every step of the queues, the drain tasks and the gates keeps the types.
LEMMA TypeStep == TypeOK /\ [Next]_vars => TypeOK'
<1> SUFFICES ASSUME TypeOK, [Next]_vars PROVE TypeOK'
  OBVIOUS
<1>1. ASSUME NEW c \in Conns, NEW s \in Scopes \cup {NoScope}, Dispatch(c, s)
      PROVE  TypeOK'
  <2> DEFINE i == Len(reqs) + 1
  <2>1. i \in Ids /\ Len(reqs) \in Nat
    BY <1>1, BoundsAssumption DEF Dispatch, TypeOK, Ids
  <2> DEFINE r == [conn |-> c, scope |-> s]
  <2> r \in Request
    BY DEF Request
  <2> HIDE DEF r
  <2>2. reqs' \in Seq(Request) /\ Len(reqs') <= MaxRequests
    <3>1. reqs' = Append(reqs, r)
      BY <1>1 DEF Dispatch, r
    <3>2. reqs \in Seq(Request) /\ Len(reqs) < MaxRequests
      BY <1>1 DEF Dispatch, TypeOK
    <3> QED
      BY <3>1, <3>2, BoundsAssumption
  <2>3. CASE s = NoScope
    BY <2>3, <1>1, <2>1, <2>2 DEF Dispatch, TypeOK
  <2>4. CASE s # NoScope
    <3>1. FromScope(c, s).key \in Keys
      BY <2>4 DEF Keys
    <3>2. queues' \in [Keys -> Seq(Ids)] /\ mapped' \subseteq Keys
      <4> DEFINE k == FromScope(c, s).key
      <4> HIDE DEF k
      <4>1. queues' = [queues EXCEPT ![k] = Append(@, i)] /\ mapped' = mapped \cup {k}
        BY <2>4, <1>1 DEF Dispatch, Enqueue, k
      <4>2. k \in Keys
        BY <3>1 DEF k
      <4> QED
        BY <4>1, <4>2, <2>1 DEF TypeOK
    <3>3. drain' \in [Ids -> {"none", "ready", "joining", "exited", "unwound"}]
      BY <2>4, <1>1, <2>1 DEF Dispatch, Enqueue, TypeOK
    <3> QED
      BY <3>2, <3>3, <2>4, <1>1, <2>1, <2>2 DEF Dispatch, TypeOK
  <2> QED
    BY <2>3, <2>4
<1>2. ASSUME NEW i \in Dispatched, GateEnter(i) \/ HandlerDone(i)
      PROVE  TypeOK'
  BY <1>2 DEF GateEnter, HandlerDone, TypeOK
<1>3. ASSUME NEW i \in Dispatched, HandlerPanic(i)
      PROVE  TypeOK'
  BY <1>3, BoundsAssumption DEF HandlerPanic, TypeOK
<1>4. ASSUME NEW d \in Dispatched, Scoped(d), DrainPop(d)
      PROVE  TypeOK'
  <2>1. Key(d) \in Keys /\ d \in Ids
    BY <1>4, KeyType
  <2> DEFINE k == Key(d)
             q == queues[k]
  <2>2. q \in Seq(Ids)
    BY <2>1 DEF TypeOK
  <2>3. PICK n \in 1 .. Len(q) :
          /\ queues' = [queues EXCEPT ![k] = SubSeq(q, n + 1, Len(q))]
          /\ batch' = [batch EXCEPT ![d] = {q[m] : m \in 1 .. n}]
          /\ status' = [i \in Ids |-> IF i \in {q[m] : m \in 1 .. n} THEN "popped" ELSE status[i]]
    BY <1>4 DEF DrainPop
  <2>4. SubSeq(q, n + 1, Len(q)) \in Seq(Ids)
    BY <2>2, <2>3
  <2>5. {q[m] : m \in 1 .. n} \subseteq Ids
    BY <2>2, <2>3
  <2>6. queues' \in [Keys -> Seq(Ids)] /\ batch' \in [Ids -> SUBSET Ids]
    BY <2>1, <2>3, <2>4, <2>5 DEF TypeOK
  <2>7. status' \in [Ids -> {"new", "queued", "popped", "running", "done", "skipped", "dropped"}]
    BY <2>3 DEF TypeOK
  <2> QED
    BY <2>6, <2>7, <1>4 DEF DrainPop, TypeOK
<1>5. ASSUME NEW d \in Dispatched, DrainExit(d) \/ DrainJoined(d)
      PROVE  TypeOK'
  BY <1>5 DEF DrainExit, DrainJoined, TypeOK
<1>6. ASSUME NEW c \in Conns, GateClose(c) \/ GateDrained(c)
      PROVE  TypeOK'
  BY <1>6 DEF GateClose, GateDrained, TypeOK
<1>7. CASE UNCHANGED vars
  BY <1>7 DEF vars, TypeOK
<1> QED
  BY <1>1, <1>2, <1>3, <1>4, <1>5, <1>6, <1>7 DEF Next, DrainStep

\* Before the first request every variable has its type.
LEMMA TypeInit == Init => TypeOK
BY BoundsAssumption DEF Init, TypeOK, Ids

(* Every variable keeps its type in every behaviour of the queues, the     *)
(* drain tasks and the gates.                                              *)
THEOREM TypeCorrect == Spec => []TypeOK
BY TypeInit, TypeStep, PTL DEF Spec

-----------------------------------------------------------------------------
\* A request that passes the gate, is turned away by it or completes only
\* moves forward: no queue, batch or task changes.
LEMMA StatusStep ==
  ASSUME IInv, TypeOK', NEW i \in Dispatched,
         status[i] \in {"popped", "running"},
         NEW v \in {"running", "skipped", "done"},
         status' = [status EXCEPT ![i] = v],
         UNCHANGED <<reqs, mapped, queues, drain, batch>>
  PROVE  IInv'
<1> USE DEF Dispatched, Scoped, Key, Access
<1>0. i \in Ids /\ Dispatched \subseteq Ids
  BY BoundsAssumption DEF IInv, TypeOK, Ids
<1>1. UndispatchedIsNew'
  BY <1>0 DEF IInv, UndispatchedIsNew, TypeOK
<1>2. QueuesHoldQueued'
  <2>1. \A j \in Dispatched : status'[j] = "queued" <=> status[j] = "queued"
    BY <1>0 DEF IInv, TypeOK
  <2> QED
    BY <2>1 DEF IInv, QueuesHoldQueued
<1>3. FrontLeavesFirst'
  BY <1>0 DEF IInv, FrontLeavesFirst, TypeOK
<1>4. BatchesHoldPopped'
  BY <1>0 DEF IInv, BatchesHoldPopped, TypeOK
<1>5. MapMatchesTasks'
  BY DEF IInv, MapMatchesTasks, Serving
<1>6. ArrivalOrder'
  BY <1>0 DEF IInv, ArrivalOrder, Conflict, Finished, TypeOK
<1> QED
  BY <1>1, <1>2, <1>3, <1>4, <1>5, <1>6 DEF IInv

\* A drain task that has joined its batch, or that leaves with its key.
LEMMA JoinedStep ==
  ASSUME IInv, TypeOK', NEW d \in Dispatched, Scoped(d), DrainJoined(d)
  PROVE  IInv'
<1> USE DEF Dispatched, Scoped, Key, Access, DrainJoined
<1>0. d \in Ids /\ Dispatched \subseteq Ids
  BY BoundsAssumption DEF IInv, TypeOK, Ids
<1>1. UndispatchedIsNew'
  BY <1>0 DEF IInv, UndispatchedIsNew, TypeOK
<1>2. QueuesHoldQueued'
  BY DEF IInv, QueuesHoldQueued
<1>3. FrontLeavesFirst'
  BY DEF IInv, FrontLeavesFirst
<1>4. BatchesHoldPopped'
  BY <1>0 DEF IInv, BatchesHoldPopped, TypeOK, Finished
<1>5. MapMatchesTasks'
  BY <1>0 DEF IInv, MapMatchesTasks, Serving, TypeOK
<1>6. ArrivalOrder'
  BY DEF IInv, ArrivalOrder, Conflict, Finished
<1> QED
  BY <1>1, <1>2, <1>3, <1>4, <1>5, <1>6 DEF IInv

\* A drain task that finds its queue empty removes the key and is gone.
LEMMA ExitStep ==
  ASSUME IInv, TypeOK', NEW d \in Dispatched, Scoped(d), DrainExit(d)
  PROVE  IInv'
<1> USE DEF Dispatched, Scoped, Key, Access, DrainExit
<1>0. d \in Ids /\ Dispatched \subseteq Ids /\ Key(d) \in Keys
  BY BoundsAssumption, KeyType DEF IInv, TypeOK, Ids
<1>1. UndispatchedIsNew'
  BY <1>0 DEF IInv, UndispatchedIsNew, TypeOK
<1>2. QueuesHoldQueued'
  BY DEF IInv, QueuesHoldQueued
<1>3. FrontLeavesFirst'
  BY DEF IInv, FrontLeavesFirst
<1>4. BatchesHoldPopped'
  <2>1. \A e \in Ids : drain'[e] = "joining" <=> drain[e] = "joining"
    BY <1>0 DEF IInv, TypeOK
  <2> QED
    BY <1>0, <2>1 DEF IInv, BatchesHoldPopped
<1>5. MapMatchesTasks'
  <2>1. Key(d) \in mapped /\ queues[Key(d)] = <<>>
    BY DEF IInv, MapMatchesTasks, Serving
  <2> QED
    BY <1>0, <2>1 DEF IInv, MapMatchesTasks, Serving, TypeOK
<1>6. ArrivalOrder'
  BY DEF IInv, ArrivalOrder, Conflict, Finished
<1> QED
  BY <1>1, <1>2, <1>3, <1>4, <1>5, <1>6 DEF IInv

\* A panic takes down the batch it is part of; the key stays in the map.
LEMMA PanicStep ==
  ASSUME IInv, TypeOK', NEW i \in Dispatched, HandlerPanic(i)
  PROVE  IInv'
<1> DEFINE owners == {d \in Ids : drain[d] = "joining" /\ i \in batch[d]}
           lost   == {i} \cup UNION {{j \in batch[d] : ~Finished(j)} : d \in owners}
<1>0. i \in Ids /\ Dispatched \subseteq Ids /\ Dispatched' = Dispatched
  BY BoundsAssumption DEF IInv, TypeOK, Ids, HandlerPanic, Dispatched
<1>1. /\ status' = [j \in Ids |-> IF j \in lost THEN "dropped" ELSE status[j]]
      /\ drain' = [d \in Ids |-> IF d \in owners THEN "unwound" ELSE drain[d]]
      /\ batch' = [d \in Ids |-> IF d \in owners THEN {} ELSE batch[d]]
      /\ UNCHANGED <<reqs, mapped, queues>>
  BY DEF HandlerPanic
<1>2. \A j \in lost : j \in Dispatched /\ status[j] # "queued" /\ status[j] # "new"
  BY <1>0 DEF IInv, BatchesHoldPopped, UndispatchedIsNew, HandlerPanic
<1>3. \A j \in Ids : /\ status'[j] = "queued" <=> status[j] = "queued"
                     /\ status'[j] = "new" <=> status[j] = "new"
                     /\ Finished(j) => Finished(j)'
  BY <1>1, <1>2 DEF Finished
<1>4. \A d \in Ids : Serving(d) <=> Serving(d)'
  BY <1>1 DEF Serving
<1> HIDE DEF owners, lost
<1> USE DEF Scoped, Key, Access
<1>5. UndispatchedIsNew'
  BY <1>0, <1>1, <1>3 DEF IInv, UndispatchedIsNew, owners
<1>6. QueuesHoldQueued'
  BY <1>0, <1>1, <1>3 DEF IInv, QueuesHoldQueued
<1>7. FrontLeavesFirst'
  BY <1>0, <1>1, <1>3 DEF IInv, FrontLeavesFirst
<1>8. BatchesHoldPopped'
  <2>1. ASSUME NEW j \in Dispatched, Scoped(j), status'[j] \in {"popped", "running"}
        PROVE  \E d \in Dispatched : /\ Scoped(d) /\ Key(d) = Key(j)
                                     /\ drain'[d] = "joining" /\ j \in batch'[d]
    <3>1. j \notin lost /\ status[j] \in {"popped", "running"}
      BY <2>1, <1>0, <1>1
    <3>2. PICK d \in Dispatched : /\ Scoped(d) /\ Key(d) = Key(j)
                                  /\ drain[d] = "joining" /\ j \in batch[d]
      BY <3>1, <2>1 DEF IInv, BatchesHoldPopped
    <3>3. d \notin owners
      BY <3>1, <3>2 DEF lost, Finished
    <3> QED
      BY <3>2, <3>3, <1>0, <1>1
  <2>2. \A d \in Ids : \A j \in batch'[d] : j \in batch[d] /\ drain'[d] = drain[d] /\ batch'[d] = batch[d]
    BY <1>1
  <2>3. ASSUME NEW d \in Ids, NEW j \in batch'[d]
        PROVE  /\ drain'[d] = "joining" /\ j \in Dispatched /\ Scoped(j) /\ Key(j) = Key(d)
               /\ status'[j] # "queued"
               /\ \A l \in batch'[d] : j # l => Access(j) = "SharedRead"
    BY <2>2, <1>0, <1>3 DEF IInv, BatchesHoldPopped
  <2>4. \A j \in Dispatched :
          (Scoped(j) /\ status'[j] \in {"popped", "running"}) =>
            \E d \in Dispatched : /\ Scoped(d) /\ Key(d) = Key(j)
                                  /\ drain'[d] = "joining" /\ j \in batch'[d]
    BY <2>1
  <2>5. \A d \in Ids : \A j \in batch'[d] :
          /\ drain'[d] = "joining" /\ j \in Dispatched /\ Scoped(j) /\ Key(j) = Key(d)
          /\ status'[j] # "queued"
          /\ \A l \in batch'[d] : j # l => Access(j) = "SharedRead"
    BY <2>3
  <2>6. reqs' = reqs
    BY <1>1
  <2> QED
    BY <2>4, <2>5, <2>6, <1>0 DEF BatchesHoldPopped
<1>9. MapMatchesTasks'
  BY <1>0, <1>1, <1>4 DEF IInv, MapMatchesTasks
<1>10. ArrivalOrder'
  BY <1>0, <1>1, <1>3 DEF IInv, ArrivalOrder, Conflict
<1> QED
  BY <1>5, <1>6, <1>7, <1>8, <1>9, <1>10 DEF IInv

\* A dispatched request is newer than every other one, and joins the back
\* of its queue or, without a scope, no queue at all.
LEMMA DispatchStep ==
  ASSUME IInv, TypeOK', NEW c \in Conns, NEW s \in Scopes \cup {NoScope}, Dispatch(c, s)
  PROVE  IInv'
<1> DEFINE k == FromScope(c, s).key
<1>0. PICK i \in Nat : i = Len(reqs) + 1
  BY DEF IInv, TypeOK
<1>1. /\ i \in Ids /\ i \notin Dispatched /\ Dispatched \subseteq Ids
      /\ Dispatched' = Dispatched \cup {i}
      /\ \A j \in Dispatched : j < i
  BY <1>0, BoundsAssumption DEF IInv, TypeOK, Ids, Dispatched, Dispatch
<1>2. /\ \A j \in Dispatched : reqs'[j] = reqs[j]
      /\ reqs'[i] = [conn |-> c, scope |-> s]
  BY <1>0 DEF IInv, TypeOK, Dispatched, Dispatch
<1>3. \A j \in Dispatched : /\ Scoped(j)' <=> Scoped(j)
                            /\ Key(j)' = Key(j)
                            /\ Access(j)' = Access(j)
  BY <1>2 DEF Scoped, Key, Access
<1>4. (Scoped(i)' <=> s # NoScope) /\ Key(i)' = k
  BY <1>2 DEF Scoped, Key
<1>5. /\ status' = [status EXCEPT ![i] = IF s = NoScope THEN "popped" ELSE "queued"]
      /\ batch' = batch
      /\ s = NoScope => UNCHANGED <<mapped, queues, drain>>
      /\ s # NoScope => Enqueue(i, k)
  BY <1>0 DEF Dispatch
<1>6. /\ \A j \in Ids : j # i => status'[j] = status[j]
      /\ status'[i] = IF s = NoScope THEN "popped" ELSE "queued"
      /\ status[i] = "new" /\ drain[i] = "none"
  BY <1>1, <1>5 DEF IInv, TypeOK, UndispatchedIsNew
<1>7. s # NoScope => k \in Keys
  BY DEF Keys
<1>8. /\ \A d \in Ids : d # i => drain'[d] = drain[d]
      /\ drain'[i] = IF s # NoScope /\ k \notin mapped THEN "ready" ELSE "none"
      /\ mapped' = IF s # NoScope THEN mapped \cup {k} ELSE mapped
  BY <1>1, <1>5, <1>6 DEF IInv, TypeOK, Enqueue
<1>9. \A kk \in Keys : /\ (s = NoScope \/ kk # k) => queues'[kk] = queues[kk]
                       /\ (s # NoScope /\ kk = k) => queues'[kk] = Append(queues[kk], i)
                       /\ queues[kk] \in Seq(Ids)
  BY <1>5, <1>7 DEF IInv, TypeOK, Enqueue
<1> HIDE DEF k
<1>10. \A kk \in Keys :
         /\ DOMAIN queues[kk] \subseteq DOMAIN queues'[kk]
         /\ \A m \in DOMAIN queues[kk] : queues'[kk][m] = queues[kk][m]
         /\ \A m \in DOMAIN queues'[kk] \ DOMAIN queues[kk] :
              /\ s # NoScope /\ kk = k /\ queues'[kk][m] = i
              /\ \A n \in DOMAIN queues'[kk] : n # m => n \in DOMAIN queues[kk]
              /\ \A n \in DOMAIN queues[kk] : n < m
  BY <1>1, <1>9
<1>11. s # NoScope => \E m \in DOMAIN queues'[k] : queues'[k][m] = i
  BY <1>1, <1>7, <1>9
<1>12. UndispatchedIsNew'
  BY <1>1, <1>3, <1>4, <1>6, <1>8 DEF IInv, UndispatchedIsNew
<1>13. QueuesHoldQueued'
  <2>1. ASSUME NEW kk \in Keys, NEW m \in DOMAIN queues'[kk], NEW x, x = queues'[kk][m]
        PROVE  x \in Dispatched' /\ Scoped(x)' /\ Key(x)' = kk /\ status'[x] = "queued"
    <3>1. CASE m \in DOMAIN queues[kk]
      <4>1. x = queues[kk][m]
        BY <2>1, <3>1, <1>10
      <4>2. x \in Dispatched /\ Scoped(x) /\ Key(x) = kk /\ status[x] = "queued"
        BY <4>1, <3>1 DEF IInv, QueuesHoldQueued
      <4> QED
        BY <4>2, <1>1, <1>3, <1>6
    <3>2. CASE m \notin DOMAIN queues[kk]
      BY <2>1, <3>2, <1>1, <1>4, <1>6, <1>10
    <3> QED
      BY <3>1, <3>2
  <2>2. ASSUME NEW kk \in Keys, NEW m \in DOMAIN queues'[kk], NEW n \in DOMAIN queues'[kk], m < n
        PROVE  queues'[kk][m] < queues'[kk][n]
    <3>1. m \in DOMAIN queues[kk]
      BY <2>2, <1>9, <1>10
    <3>2. CASE n \in DOMAIN queues[kk]
      BY <2>2, <3>1, <3>2, <1>10 DEF IInv, QueuesHoldQueued
    <3>3. CASE n \notin DOMAIN queues[kk]
      <4>1. queues[kk][m] \in Dispatched
        BY <3>1 DEF IInv, QueuesHoldQueued
      <4>2. queues'[kk][n] = i
        BY <3>3, <1>10
      <4>3. queues'[kk][m] = queues[kk][m]
        BY <3>1, <1>10
      <4> QED
        BY <4>1, <4>2, <4>3, <1>1
    <3> QED
      BY <3>2, <3>3
  <2>3. \A j \in Dispatched' : status'[j] = "queued" =>
          Scoped(j)' /\ \E m \in DOMAIN queues'[Key(j)'] : queues'[Key(j)'][m] = j
    <3>1. ASSUME NEW j \in Dispatched, status'[j] = "queued"
          PROVE  Scoped(j)' /\ \E m \in DOMAIN queues'[Key(j)'] : queues'[Key(j)'][m] = j
      <4>1. status[j] = "queued" /\ j \in Ids
        BY <3>1, <1>1, <1>6
      <4>2. Scoped(j) /\ \E m \in DOMAIN queues[Key(j)] : queues[Key(j)][m] = j
        BY <4>1 DEF IInv, QueuesHoldQueued
      <4>3. Key(j) \in Keys
        BY <4>2, KeyType DEF IInv
      <4> QED
        BY <4>2, <4>3, <1>3, <1>10
    <3> QED
      BY <3>1, <1>1, <1>4, <1>6, <1>11
  <2>4. (\A kk \in Keys : \A m \in DOMAIN queues[kk] :
          /\ queues[kk][m] \in Dispatched
          /\ Scoped(queues[kk][m])
          /\ Key(queues[kk][m]) = kk
          /\ status[queues[kk][m]] = "queued")'
    BY <2>1 DEF Scoped, Key
  <2> QED
    BY <2>2, <2>3, <2>4 DEF QueuesHoldQueued
<1>14. FrontLeavesFirst'
  BY <1>1, <1>3, <1>4, <1>6 DEF IInv, FrontLeavesFirst
<1>15. BatchesHoldPopped'
  <2>1. ASSUME NEW j \in Dispatched', Scoped(j)', status'[j] \in {"popped", "running"}
        PROVE  \E d \in Dispatched' : /\ Scoped(d)' /\ Key(d)' = Key(j)'
                                      /\ drain'[d] = "joining" /\ j \in batch'[d]
    <3>1. j # i /\ j \in Dispatched /\ Scoped(j) /\ status[j] \in {"popped", "running"}
      BY <2>1, <1>1, <1>3, <1>4, <1>6
    <3>2. PICK d \in Dispatched : /\ Scoped(d) /\ Key(d) = Key(j)
                                  /\ drain[d] = "joining" /\ j \in batch[d]
      BY <3>1 DEF IInv, BatchesHoldPopped
    <3> QED
      BY <3>1, <3>2, <1>1, <1>3, <1>5, <1>6, <1>8
  <2>2. ASSUME NEW d \in Ids, NEW j \in batch'[d]
        PROVE  /\ drain'[d] = "joining" /\ j \in Dispatched' /\ Scoped(j)' /\ Key(j)' = Key(d)'
               /\ status'[j] # "queued"
               /\ \A l \in batch'[d] : j # l => Access(j)' = "SharedRead"
    <3>1. /\ drain[d] = "joining" /\ j \in Dispatched /\ Scoped(j) /\ Key(j) = Key(d)
          /\ status[j] # "queued"
          /\ \A l \in batch[d] : j # l => Access(j) = "SharedRead"
      BY <2>2, <1>5 DEF IInv, BatchesHoldPopped
    <3>2. d \in Dispatched /\ d # i /\ j # i
      BY <3>1, <1>1, <1>6 DEF IInv, UndispatchedIsNew
    <3> QED
      BY <3>1, <3>2, <1>1, <1>3, <1>5, <1>6, <1>8
  <2> QED
    BY <2>1, <2>2 DEF BatchesHoldPopped
<1>16. MapMatchesTasks'
  BY <1>1, <1>3, <1>4, <1>6, <1>7, <1>8, <1>9 DEF IInv, TypeOK, MapMatchesTasks, Serving
<1>17. ArrivalOrder'
  BY <1>1, <1>3, <1>4, <1>6 DEF IInv, ArrivalOrder, Conflict, Finished
<1> QED
  BY <1>12, <1>13, <1>14, <1>15, <1>16, <1>17 DEF IInv

\* A drain task takes the front of its queue when nothing of its key is
\* past the queue: it is the only task of the key, and it is not joining.
LEMMA PopStep ==
  ASSUME IInv, TypeOK', NEW d \in Dispatched, Scoped(d), DrainPop(d)
  PROVE  IInv'
<1>0. /\ d \in Ids /\ Dispatched \subseteq Ids /\ Key(d) \in Keys
      /\ reqs' = reqs /\ Dispatched' = Dispatched /\ mapped' = mapped
  BY BoundsAssumption, KeyType DEF IInv, TypeOK, Ids, Dispatched, DrainPop
<1>1. PICK k \in Keys : k = Key(d)
  BY <1>0
<1>2. PICK q \in Seq(Ids) : q = queues[k]
  BY DEF IInv, TypeOK
<1>3. PICK n \in 1 .. Len(q) :
        /\ IsBatch(q, n)
        /\ queues' = [queues EXCEPT ![k] = SubSeq(q, n + 1, Len(q))]
        /\ batch' = [batch EXCEPT ![d] = {q[m] : m \in 1 .. n}]
        /\ status' = [i \in Ids |-> IF i \in {q[m] : m \in 1 .. n} THEN "popped" ELSE status[i]]
  <2> DEFINE Pops(kk, qq) == \E n \in 1 .. Len(qq) :
        /\ IsBatch(qq, n)
        /\ queues' = [queues EXCEPT ![kk] = SubSeq(qq, n + 1, Len(qq))]
        /\ batch' = [batch EXCEPT ![d] = {qq[m] : m \in 1 .. n}]
        /\ status' = [i \in Ids |-> IF i \in {qq[m] : m \in 1 .. n} THEN "popped" ELSE status[i]]
  <2>1. Pops(Key(d), queues[Key(d)])
    BY DEF DrainPop
  <2>2. Pops(k, q)
    <3> HIDE DEF Pops
    <3> QED
      BY <2>1, <1>1, <1>2
  <2> QED
    BY <2>2
<1>4. PICK popped : popped = {q[m] : m \in 1 .. n}
  OBVIOUS
<1> n \in Nat /\ Len(q) \in Nat /\ n <= Len(q)
  BY <1>3
<1>5. /\ batch'[d] = popped
      /\ \A e \in Ids : e # d => batch'[e] = batch[e]
      /\ \A i \in Ids : status'[i] = IF i \in popped THEN "popped" ELSE status[i]
      /\ drain[d] = "ready" /\ drain'[d] = "joining"
      /\ \A e \in Ids : e # d => drain'[e] = drain[e]
      /\ \A kk \in Keys : kk # k => queues'[kk] = queues[kk]
  <2>1. batch'[d] = popped /\ \A e \in Ids : e # d => batch'[e] = batch[e]
    BY <1>0, <1>3, <1>4 DEF IInv, TypeOK
  <2>2. \A i \in Ids : status'[i] = IF i \in popped THEN "popped" ELSE status[i]
    BY <1>3, <1>4
  <2>3. /\ drain[d] = "ready" /\ drain'[d] = "joining"
        /\ \A e \in Ids : e # d => drain'[e] = drain[e]
    BY <1>0 DEF IInv, TypeOK, DrainPop
  <2>4. \A kk \in Keys : kk # k => queues'[kk] = queues[kk]
    BY <1>3 DEF IInv, TypeOK
  <2> QED
    BY <2>1, <2>2, <2>3, <2>4
<1>6. /\ Len(queues'[k]) = Len(q) - n
      /\ DOMAIN queues'[k] = 1 .. (Len(q) - n)
      /\ DOMAIN q = 1 .. Len(q)
      /\ \A m \in DOMAIN queues'[k] : m + n \in DOMAIN q /\ queues'[k][m] = q[m + n]
  BY <1>1, <1>2, <1>3 DEF IInv, TypeOK
<1>7. \A i \in popped : /\ i \in Dispatched /\ i \in Ids /\ Scoped(i)
                        /\ Key(i) = k /\ status[i] = "queued"
  BY <1>0, <1>1, <1>2, <1>3, <1>4 DEF IInv, QueuesHoldQueued
<1>8. \A i, j \in popped : i # j => Access(i) = "SharedRead"
  <2>1. CASE Access(q[1]) = "Exclusive"
    BY <2>1, <1>3, <1>4 DEF IsBatch
  <2>2. CASE Access(q[1]) # "Exclusive"
    BY <2>2, <1>3, <1>4 DEF IsBatch
  <2> QED
    BY <2>1, <2>2
\* Nothing of this key is past the queue before the step.
<1>9. \A i \in Dispatched : (Scoped(i) /\ Key(i) = k) => status[i] \notin {"popped", "running"}
  <2> SUFFICES ASSUME NEW i \in Dispatched, Scoped(i), Key(i) = k, status[i] \in {"popped", "running"}
               PROVE  FALSE
    OBVIOUS
  <2>1. PICK e \in Dispatched : Scoped(e) /\ Key(e) = k /\ drain[e] = "joining"
    BY DEF IInv, BatchesHoldPopped
  <2>2. e = d
    BY <2>1, <1>1, <1>5 DEF IInv, MapMatchesTasks, Serving
  <2> QED
    BY <2>1, <2>2, <1>5
\* What stays queued under the key is newer than what was popped.
<1>10. \A i \in Dispatched : (Scoped(i) /\ Key(i) = k /\ status[i] = "queued") =>
         \/ i \in popped
         \/ /\ \E m \in DOMAIN queues'[k] : queues'[k][m] = i
            /\ \A j \in popped : j < i
  <2> SUFFICES ASSUME NEW i \in Dispatched, Scoped(i), Key(i) = k, status[i] = "queued",
                      i \notin popped
               PROVE  /\ \E m \in DOMAIN queues'[k] : queues'[k][m] = i
                      /\ \A j \in popped : j < i
    OBVIOUS
  <2>1. PICK m \in DOMAIN q : q[m] = i
    BY <1>2 DEF IInv, QueuesHoldQueued
  <2>2. m > n /\ m \in Nat
    BY <2>1, <1>3, <1>4, <1>6
  <2>3. m - n \in DOMAIN queues'[k] /\ queues'[k][m - n] = i
    <3>1. m - n \in DOMAIN queues'[k] /\ (m - n) + n = m
      <4>1. m \in 1 .. Len(q)
        BY <1>6
      <4>2. m - n \in 1 .. (Len(q) - n) /\ (m - n) + n = m
        BY <4>1, <2>2, <1>3
      <4> QED
        BY <4>2, <1>6
    <3> QED
      BY <3>1, <2>1, <1>6
  <2>4. \A l \in 1 .. n : q[l] < q[m]
    BY <2>1, <2>2, <1>2, <1>3, <1>6 DEF IInv, QueuesHoldQueued
  <2> QED
    BY <2>1, <2>3, <2>4, <1>4
<1>11. \A m \in DOMAIN queues'[k] : queues'[k][m] \notin popped
  <2> SUFFICES ASSUME NEW m \in DOMAIN queues'[k], NEW l \in 1 .. n, q[m + n] = q[l]
               PROVE  FALSE
    BY <1>4, <1>6
  <2>1. l < m + n /\ l \in DOMAIN q /\ m + n \in DOMAIN q
    BY <1>3, <1>6
  <2>2. q[l] < q[m + n]
    BY <2>1, <1>2, <1>6 DEF IInv, QueuesHoldQueued
  <2>3. q[l] \in Nat
    <3>1. q[l] \in Ids
      BY <2>1, <1>2, <1>6
    <3> QED
      BY <3>1, BoundsAssumption DEF Ids
  <2> QED
    BY <2>2, <2>3
<1> USE DEF Scoped, Key, Access
<1>12. UndispatchedIsNew'
  BY <1>0, <1>5, <1>7 DEF IInv, UndispatchedIsNew
<1>13. FrontLeavesFirst'
  BY <1>0, <1>5, <1>7, <1>10 DEF IInv, FrontLeavesFirst
<1>14. QueuesHoldQueued'
  <2>1. ASSUME NEW kk \in Keys, NEW m \in DOMAIN queues'[kk], NEW x, x = queues'[kk][m]
        PROVE  x \in Dispatched /\ Scoped(x) /\ Key(x) = kk /\ status'[x] = "queued"
    <3>1. CASE kk = k
      <4>1. m + n \in DOMAIN queues[kk] /\ x = queues[kk][m + n] /\ x \notin popped
        BY <2>1, <3>1, <1>2, <1>6, <1>11
      <4>2. x \in Dispatched /\ Scoped(x) /\ Key(x) = kk /\ status[x] = "queued"
        BY <4>1 DEF IInv, QueuesHoldQueued
      <4> QED
        BY <4>1, <4>2, <1>0, <1>5
    <3>2. CASE kk # k
      <4>1. x \in Dispatched /\ Scoped(x) /\ Key(x) = kk /\ status[x] = "queued"
        BY <2>1, <3>2, <1>5 DEF IInv, QueuesHoldQueued
      <4> QED
        BY <4>1, <3>2, <1>0, <1>5, <1>7
    <3> QED
      BY <3>1, <3>2
  <2>2. ASSUME NEW kk \in Keys, NEW m \in DOMAIN queues'[kk], NEW l \in DOMAIN queues'[kk], m < l
        PROVE  queues'[kk][m] < queues'[kk][l]
    <3>1. CASE kk = k
      <4>1. /\ m + n \in DOMAIN q /\ l + n \in DOMAIN q
            /\ queues'[kk][m] = q[m + n] /\ queues'[kk][l] = q[l + n]
        BY <3>1, <1>6
      <4>2. m \in Nat /\ l \in Nat
        <5>1. m \in 1 .. (Len(q) - n) /\ l \in 1 .. (Len(q) - n)
          BY <3>1, <1>6
        <5> QED
          BY <5>1
      <4>3. m + n < l + n
        BY <2>2, <4>2
      <4> QED
        BY <4>1, <4>3, <3>1, <1>2 DEF IInv, QueuesHoldQueued
    <3>2. CASE kk # k
      BY <2>2, <3>2, <1>5 DEF IInv, QueuesHoldQueued
    <3> QED
      BY <3>1, <3>2
  <2>3. ASSUME NEW i \in Dispatched, status'[i] = "queued"
        PROVE  Scoped(i) /\ \E m \in DOMAIN queues'[Key(i)] : queues'[Key(i)][m] = i
    <3>1. i \notin popped /\ status[i] = "queued"
      BY <2>3, <1>0, <1>5
    <3>2. Scoped(i) /\ \E m \in DOMAIN queues[Key(i)] : queues[Key(i)][m] = i
      BY <3>1 DEF IInv, QueuesHoldQueued
    <3>3. Key(i) \in Keys
      BY <3>2, KeyType DEF IInv
    <3>4. CASE Key(i) = k
      BY <3>1, <3>2, <3>4, <1>10
    <3>5. CASE Key(i) # k
      BY <3>2, <3>3, <3>5, <1>5
    <3> QED
      BY <3>2, <3>4, <3>5
  <2> QED
    BY <2>1, <2>2, <2>3, <1>0 DEF QueuesHoldQueued
<1>15. BatchesHoldPopped'
  <2>1. ASSUME NEW i \in Dispatched, Scoped(i), status'[i] \in {"popped", "running"}
        PROVE  \E e \in Dispatched : /\ Scoped(e) /\ Key(e) = Key(i)
                                     /\ drain'[e] = "joining" /\ i \in batch'[e]
    <3>1. CASE i \in popped
      BY <3>1, <1>1, <1>5, <1>7
    <3>2. CASE i \notin popped
      <4>1. status[i] \in {"popped", "running"}
        BY <3>2, <2>1, <1>0, <1>5
      <4>2. PICK e \in Dispatched : /\ Scoped(e) /\ Key(e) = Key(i)
                                    /\ drain[e] = "joining" /\ i \in batch[e]
        BY <4>1, <2>1 DEF IInv, BatchesHoldPopped
      <4> QED
        BY <4>2, <1>0, <1>5
    <3> QED
      BY <3>1, <3>2
  <2>2. ASSUME NEW e \in Ids, NEW i \in batch'[e]
        PROVE  /\ drain'[e] = "joining" /\ i \in Dispatched /\ Scoped(i) /\ Key(i) = Key(e)
               /\ status'[i] # "queued"
               /\ \A j \in batch'[e] : i # j => Access(i) = "SharedRead"
    <3>1. CASE e = d
      BY <3>1, <2>2, <1>1, <1>5, <1>7, <1>8
    <3>2. CASE e # d
      <4>1. /\ drain[e] = "joining" /\ i \in Dispatched /\ Scoped(i) /\ Key(i) = Key(e)
            /\ status[i] # "queued"
            /\ \A j \in batch[e] : i # j => Access(i) = "SharedRead"
        BY <3>2, <2>2, <1>5 DEF IInv, BatchesHoldPopped
      <4> QED
        BY <4>1, <3>2, <1>0, <1>5
    <3> QED
      BY <3>1, <3>2
  <2> QED
    BY <2>1, <2>2, <1>0 DEF BatchesHoldPopped
<1>16. MapMatchesTasks'
  <2>1. \A e \in Dispatched : Serving(e)' <=> Serving(e)
    BY <1>0, <1>5 DEF Serving
  <2>2. \A kk \in Keys \ mapped : queues'[kk] = <<>>
    BY <1>1, <1>5 DEF IInv, MapMatchesTasks, DrainPop
  <2> QED
    BY <2>1, <2>2, <1>0 DEF IInv, MapMatchesTasks
<1>17. ArrivalOrder'
  <2> SUFFICES ASSUME NEW i \in Dispatched, NEW j \in Dispatched, i < j, Conflict(i, j),
                      status'[j] # "queued"
               PROVE  Finished(i)'
    BY <1>0 DEF ArrivalOrder, Conflict
  <2>1. CASE j \notin popped
    <3>1. Finished(i)
      BY <2>1, <1>0, <1>5 DEF IInv, ArrivalOrder
    <3> QED
      BY <3>1, <1>0, <1>5, <1>7 DEF Finished
  <2>2. CASE j \in popped
    <3>1. Scoped(i) /\ Key(i) = k
      BY <2>2, <1>7 DEF Conflict
    <3>2. i \notin popped
      <4>1. i # j
        BY DEF Dispatched
      <4> QED
        BY <4>1, <2>2, <1>8 DEF Conflict
    <3>3. status[i] # "queued"
      BY <3>1, <3>2, <2>2, <1>0, <1>10 DEF Ids
    <3>4. status[i] \notin {"popped", "running", "new"}
      BY <3>1, <1>0, <1>9 DEF IInv, UndispatchedIsNew
    <3> QED
      BY <3>2, <3>3, <3>4, <1>0, <1>5 DEF IInv, TypeOK, Finished
  <2> QED
    BY <2>1, <2>2
<1> QED
  BY <1>12, <1>13, <1>14, <1>15, <1>16, <1>17 DEF IInv

-----------------------------------------------------------------------------
\* The inductive invariant holds before the first request.
LEMMA InvInit == Init => IInv
<1> SUFFICES ASSUME Init PROVE IInv
  OBVIOUS
<1>1. Dispatched = {} /\ TypeOK
  BY TypeInit DEF Init, Dispatched
<1>2. \A k \in Keys : queues[k] = <<>> /\ DOMAIN queues[k] = {}
  BY DEF Init
<1> QED
  BY <1>1, <1>2 DEF Init, IInv, UndispatchedIsNew, QueuesHoldQueued, FrontLeavesFirst,
                    BatchesHoldPopped, MapMatchesTasks, ArrivalOrder

\* The inductive invariant is preserved by every step: one case per action.
LEMMA InvStep == IInv /\ [Next]_vars => IInv'
<1> SUFFICES ASSUME IInv, [Next]_vars PROVE IInv'
  OBVIOUS
<1>0. TypeOK'
  BY TypeStep DEF IInv
<1>1. ASSUME NEW c \in Conns, NEW s \in Scopes \cup {NoScope}, Dispatch(c, s)
      PROVE  IInv'
  BY <1>0, <1>1, DispatchStep
<1>2. ASSUME NEW i \in Dispatched, GateEnter(i) \/ HandlerDone(i)
      PROVE  IInv'
  <2>1. PICK v \in {"running", "skipped", "done"} :
          /\ status[i] \in {"popped", "running"}
          /\ status' = [status EXCEPT ![i] = v]
          /\ UNCHANGED <<reqs, mapped, queues, drain, batch>>
    BY <1>2 DEF GateEnter, HandlerDone
  <2> QED
    BY <1>0, <2>1, StatusStep
<1>3. ASSUME NEW i \in Dispatched, HandlerPanic(i)
      PROVE  IInv'
  BY <1>0, <1>3, PanicStep
<1>4. ASSUME NEW d \in Dispatched, Scoped(d), DrainStep(d)
      PROVE  IInv'
  BY <1>0, <1>4, PopStep, ExitStep, JoinedStep DEF DrainStep
<1>5. ASSUME UNCHANGED <<reqs, status, mapped, queues, drain, batch>>
      PROVE  IInv'
  BY <1>0, <1>5 DEF IInv, UndispatchedIsNew, QueuesHoldQueued, FrontLeavesFirst,
     BatchesHoldPopped, MapMatchesTasks, ArrivalOrder, Conflict, Finished, Serving,
     Dispatched, Scoped, Key, Access
<1>6. ASSUME NEW c \in Conns, GateClose(c) \/ GateDrained(c)
      PROVE  IInv'
  BY <1>5, <1>6 DEF GateClose, GateDrained
<1>7. CASE UNCHANGED vars
  BY <1>5, <1>7 DEF vars
<1> QED
  BY <1>1, <1>2, <1>3, <1>4, <1>6, <1>7 DEF Next

(* Requests of one key take effect in the order they arrived, and an       *)
(* exclusive handler never overlaps another one of its key, for any number *)
(* of connections, scopes, requests and panics.                            *)
THEOREM ArrivalOrderHolds == Spec => []ArrivalOrder
<1>1. IInv => ArrivalOrder
  BY DEF IInv
<1> QED
  BY <1>1, InvInit, InvStep, PTL DEF Spec

(* enqueue's "spawn a drain task iff the key is absent" keeps one task per *)
(* key in the map and strands no request in the queue of an absent key.    *)
THEOREM OneDrainHolds == Spec => []OneDrainPerKey
<1>1. IInv => OneDrainPerKey
  BY DEF IInv, MapMatchesTasks, OneDrainPerKey, Serving
<1> QED
  BY <1>1, InvInit, InvStep, PTL DEF Spec
=============================================================================
