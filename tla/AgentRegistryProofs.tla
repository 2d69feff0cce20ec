------------------------ MODULE AgentRegistryProofs ------------------------
(* Proofs about AgentRegistry, for any number of calls, threads and paths:   *)
(* its types, that total_count accounts for every slot and every spawned     *)
(* thread that lives, and that paths and nicknames are not given twice.      *)
EXTENDS AgentRegistry, FiniteSetTheorems, TLAPS

(* The sets that are counted are finite, their cardinalities numbers.       *)
LEMMA HeldFinite ==
  ASSUME TypeOK
  PROVE  /\ IsFiniteSet(Holders) /\ IsFiniteSet(Counted) /\ IsFiniteSet(Owing)
         /\ Cardinality(Holders) \in Nat /\ Cardinality(Counted) \in Nat
         /\ Cardinality(Owing) \in Nat
<1>1. /\ IsFiniteSet(Workers) /\ IsFiniteSet(Closers)
      /\ IsFiniteSet(Paths) /\ IsFiniteSet(Threads)
  BY RegistryAssumption
<1>2. IsFiniteSet(Paths \cup Threads)
  BY <1>1, FS_Union
<1>3. IsFiniteSet(Keys)
  BY <1>2, FS_AddElement DEF Keys
<1>4. Holders \subseteq Workers /\ Counted \subseteq Keys /\ Owing \subseteq Closers
  BY DEF Holders, Counted, Owing, TypeOK
<1>5. IsFiniteSet(Holders) /\ IsFiniteSet(Counted) /\ IsFiniteSet(Owing)
  BY <1>1, <1>3, <1>4, FS_Subset
<1> QED
  BY <1>5, FS_CardinalityType

(* Taking an element out of a finite set leaves one fewer.                  *)
LEMMA OneLess ==
  ASSUME NEW S, IsFiniteSet(S), NEW x \in S
  PROVE  /\ Cardinality(S) \in Nat
         /\ Cardinality(S) >= 1
         /\ Cardinality(S \ {x}) = Cardinality(S) - 1
<1>1. Cardinality(S) \in Nat /\ IsFiniteSet(S \ {x}) /\ Cardinality(S \ {x}) = Cardinality(S) - 1
  BY FS_CardinalityType, FS_RemoveElement
<1>2. Cardinality(S \ {x}) \in Nat
  BY <1>1, FS_CardinalityType
<1> QED
  BY <1>1, <1>2

(* Putting a new element into a finite set makes one more.                  *)
LEMMA OneMore ==
  ASSUME NEW S, IsFiniteSet(S), NEW x, x \notin S
  PROVE  /\ Cardinality(S) \in Nat
         /\ Cardinality(S \cup {x}) = Cardinality(S) + 1
  BY FS_AddElement, FS_CardinalityType

(* Initially nothing is counted.                                            *)
LEMMA RegistryInit == Init => IInv
<1> SUFFICES ASSUME Init PROVE IInv
  OBVIOUS
<1>1. TypeOK /\ CleanTree /\ CallsKnow /\ ClosersKnow
  BY RegistryAssumption DEF Init, TypeOK, CleanTree, CallsKnow, ClosersKnow, Named, Idle, Keys,
     Nicknames, Calls
<1>2. Holders = {} /\ Counted = {} /\ Owing = {}
  BY DEF Init, Holders, Counted, Owing, Reserved, Idle
<1>3. Accounts
  BY <1>2, FS_EmptySet DEF Accounts, Init
<1> QED
  BY <1>1, <1>3 DEF IInv

(* The numbers of Accounts.                                                 *)
LEMMA Numbers ==
  ASSUME IInv
  PROVE  /\ count \in Nat /\ MaxThreads \in Nat /\ count <= MaxThreads /\ leaked \in Nat
         /\ Cardinality(Holders) \in Nat /\ Cardinality(Counted) \in Nat
         /\ Cardinality(Owing) \in Nat
  BY HeldFinite, RegistryAssumption DEF IInv, TypeOK

(* Steps that reserve, use or give up a reservation.                        *)
LEMMA WorkerKeeps ==
  ASSUME IInv, NEW w \in Workers, WorkerStep(w)
  PROVE  IInv'
<1> USE DEF IInv
<1>0. /\ count \in Nat /\ MaxThreads \in Nat /\ count <= MaxThreads /\ leaked \in Nat
      /\ Cardinality(Holders) \in Nat /\ Cardinality(Counted) \in Nat
      /\ Cardinality(Owing) \in Nat
  BY Numbers
<1>c. call[w] \in Calls
  BY DEF TypeOK
<1>o. closing' = closing => Owing' = Owing
  BY DEF Owing
<1>1. ASSUME NEW id \in Threads \cup {None}, NEW path \in Paths \cup {None}, BeginCall(w, id, path)
      PROVE  IInv'
  <2>1. Holders' = Holders /\ Counted' = Counted /\ count' = count
    BY <1>1 DEF BeginCall, Holders, Counted, Reserved, Idle, registry, TypeOK
  <2>2. TypeOK' /\ CallsKnow'
    BY <1>1, <1>0, RegistryAssumption
       DEF BeginCall, registry, threads, TypeOK, Idle, CallsKnow, Named, Calls
  <2> QED
    BY <1>1, <1>o, <2>1, <2>2 DEF BeginCall, registry, Accounts, CleanTree, ClosersKnow
<1>2. CASE ReserveSlot(w)
  <2>1. TypeOK' /\ CallsKnow'
    BY <1>2, <1>0 DEF ReserveSlot, Unregistered, threads, history, TypeOK, Idle, CallsKnow, Named, Calls
  <2>2. /\ CleanTree' /\ ClosersKnow' /\ Counted' = Counted /\ Owing' = Owing
        /\ leaked' = leaked
    BY <1>2 DEF ReserveSlot, Unregistered, history, CleanTree, ClosersKnow, Counted, Owing
  <2>3. CASE count' = count
    <3>1. Holders' = Holders
      BY <1>2, <1>0, <2>3 DEF ReserveSlot, Holders, Reserved, Idle, TypeOK, Calls
    <3> QED
      BY <2>1, <2>2, <2>3, <3>1 DEF Accounts
  <2>4. CASE count' = count + 1
    <3>1. Holders' = Holders \cup {w} /\ w \notin Holders
      BY <1>2, <1>0, <2>4 DEF ReserveSlot, Holders, Reserved, Idle, TypeOK, Calls
    <3>2. Cardinality(Holders') = Cardinality(Holders) + 1
      BY <3>1, HeldFinite, OneMore
    <3>3. Accounts'
      BY <1>0, <2>2, <2>4, <3>2 DEF Accounts
    <3> QED
      BY <2>1, <2>2, <3>3
  <2> QED
    BY <1>2, <2>3, <2>4 DEF ReserveSlot
<1>3. CASE PathTaken(w)
  <2>1. Holders' = Holders /\ Counted' = Counted
    BY <1>3 DEF PathTaken, Holders, Counted, Reserved, Idle, TypeOK, Keys
  <2>2. TypeOK' /\ CallsKnow' /\ ClosersKnow'
    BY <1>3, <1>0 DEF PathTaken, threads, history, TypeOK, Idle, Keys, CallsKnow, Named,
       ClosersKnow, Calls
  <2>3. CleanTree'
    BY <1>3 DEF PathTaken, CleanTree, TypeOK, Keys
  <2> QED
    BY <1>3, <1>o, <2>1, <2>2, <2>3 DEF Accounts, PathTaken, history
<1>4. CASE Prepare(w)
  <2>0. call[w].path \in Paths \cup {None} /\ (call[w].path # None => tree[call[w].path] = None)
    BY <1>4 DEF Prepare, CleanTree, TypeOK, Keys, Calls
  <2>1. Holders' = Holders /\ count' = count
    BY <1>4 DEF Prepare, Holders, Reserved, TypeOK
  <2>2. Counted' = Counted
    BY <1>4, <2>0, RegistryAssumption DEF Prepare, Counted, TypeOK, Keys
  <2>3. used' \subseteq Nicknames /\ resets' \in 0 .. MaxResets
    BY <1>4, RegistryAssumption DEF Prepare, PickNickname, TypeOK, Nicknames
  <2>4. call' \in [Workers -> Calls]
          /\ CallsKnow'
    <3>1. PICK n \in Nicknames : call' = [call EXCEPT ![w].pc = "named", ![w].nick = n]
      BY <1>4 DEF Prepare
    <3>2. [call[w] EXCEPT !.pc = "named", !.nick = n] \in Calls
      BY <1>c DEF Calls
    <3>3. call' = [call EXCEPT ![w] = [call[w] EXCEPT !.pc = "named", !.nick = n]]
      BY <3>1 DEF TypeOK
    <3>4. call' \in [Workers -> Calls]
      BY <3>2, <3>3 DEF TypeOK
    <3>5. CallsKnow'
      BY <3>2, <3>3 DEF TypeOK, Calls, CallsKnow, Named
    <3> QED
      BY <3>4, <3>5
  <2>5. keys' \subseteq Keys /\ tree' \in [Keys -> Threads \cup {None, Root}] /\ CleanTree'
    BY <1>4, <2>0 DEF Prepare, TypeOK, Keys, CleanTree
  <2>6. TypeOK' /\ ClosersKnow'
    BY <1>4, <2>1, <2>3, <2>4, <2>5 DEF Prepare, threads, history, TypeOK, ClosersKnow
  <2> QED
    BY <1>4, <1>o, <2>1, <2>2, <2>4, <2>5, <2>6 DEF Accounts, Prepare, history
<1>5. CASE ResumeChecks(w)
  <2>1. PICK pc \in {"starting", "started"} : call' = [call EXCEPT ![w].pc = pc]
    BY <1>5 DEF ResumeChecks
  <2>2. call[w].pc = "named" /\ call[w].id # None
    BY <1>5 DEF ResumeChecks
  <2>3. /\ \A v \in Workers \ {w} : call'[v] = call[v]
        /\ call'[w] = [call[w] EXCEPT !.pc = pc] /\ call'[w] \in Calls
        /\ call' \in [Workers -> Calls]
    BY <2>1, <1>c DEF TypeOK, Calls
  <2>4. Holders' = Holders /\ Counted' = Counted /\ count' = count
    BY <1>5, <2>2, <2>3, <1>c DEF ResumeChecks, registry, Holders, Counted, Reserved, Calls
  <2>5. CallsKnow'
    BY <2>2, <2>3, <1>c DEF CallsKnow, Named, Calls
  <2>6. TypeOK'
    BY <1>5, <2>3 DEF ResumeChecks, registry, history, TypeOK
  <2> QED
    BY <1>5, <1>o, <2>4, <2>5, <2>6
       DEF ResumeChecks, registry, history, Accounts, CleanTree, ClosersKnow
<1>6. CASE StartThread(w)
  <2>1. PICK t \in Threads, pc \in {"started", "resumed"} :
          /\ call' = [call EXCEPT ![w] = [call[w] EXCEPT !.pc = pc, !.id = t]]
          /\ live' = live \cup {t} /\ born' = born \cup {t}
    <3>1. PICK t \in Threads :
            /\ \/ call' = [call EXCEPT ![w].pc = "started", ![w].id = t]
               \/ t = call[w].id /\ call' = [call EXCEPT ![w].pc = "resumed"]
            /\ live' = live \cup {t} /\ born' = born \cup {t}
      BY <1>6 DEF StartThread
    <3>2. CASE call' = [call EXCEPT ![w].pc = "started", ![w].id = t]
      BY <3>1, <3>2 DEF TypeOK
    <3>3. CASE t = call[w].id /\ call' = [call EXCEPT ![w].pc = "resumed"]
      <4>1. [call[w] EXCEPT !.pc = "resumed", !.id = t] = [call[w] EXCEPT !.pc = "resumed"]
        BY <3>3, <1>c DEF Calls
      <4>2. call' = [call EXCEPT ![w] = [call[w] EXCEPT !.pc = "resumed"]]
        BY <3>3 DEF TypeOK
      <4> QED
        BY <3>1, <4>1, <4>2
    <3> QED
      BY <3>1, <3>2, <3>3
  <2>2. t # None /\ call[w].pc \in {"named", "starting"}
    BY <1>6, RegistryAssumption DEF StartThread
  <2>3. /\ \A v \in Workers \ {w} : call'[v] = call[v]
        /\ call'[w] = [call[w] EXCEPT !.pc = pc, !.id = t] /\ call'[w] \in Calls
        /\ call' \in [Workers -> Calls]
    BY <2>1, <1>c DEF TypeOK, Calls
  <2>4. Holders' = Holders /\ Counted' = Counted /\ count' = count
    BY <1>6, <2>2, <2>3, <1>c DEF StartThread, registry, Holders, Counted, Reserved, Calls
  <2>5. CallsKnow'
    BY <2>2, <2>3, <1>c DEF CallsKnow, Named, Calls
  <2>6. TypeOK'
    BY <1>6, <2>1, <2>3 DEF StartThread, registry, history, TypeOK
  <2> QED
    BY <1>6, <1>o, <2>4, <2>5, <2>6
       DEF StartThread, registry, history, Accounts, CleanTree, ClosersKnow
<1>7. CASE GiveUp(w)
  <2>1. Holders' = Holders /\ Counted' = Counted
    BY <1>7 DEF GiveUp, Drop, Holders, Counted, Reserved, Idle, TypeOK
  <2>2. TypeOK' /\ CallsKnow' /\ ClosersKnow' /\ CleanTree'
    BY <1>7, <1>0 DEF GiveUp, Drop, threads, history, TypeOK, Idle, CallsKnow, Named, ClosersKnow,
       CleanTree, Calls
  <2> QED
    BY <1>7, <1>o, <2>1, <2>2 DEF Accounts, GiveUp, history
<1>8. CASE ReturnSlot(w)
  <2>1. Holders' = Holders \ {w} /\ w \in Holders /\ Counted' = Counted
    BY <1>8 DEF ReturnSlot, Unregistered, Holders, Counted, Reserved, Idle, TypeOK
  <2>2. Cardinality(Holders) >= 1 /\ Cardinality(Holders') = Cardinality(Holders) - 1
    BY <2>1, HeldFinite, OneLess
  <2>3. leaked' = leaked /\ Owing' = Owing /\ count' = count - 1
    BY <1>8, <1>o DEF ReturnSlot, history
  <2>4. Accounts' /\ count' \in 0 .. MaxThreads
    BY <1>0, <2>1, <2>2, <2>3 DEF Accounts
  <2>5. TypeOK' /\ CallsKnow' /\ ClosersKnow' /\ CleanTree'
    BY <1>8, <1>0, <2>4 DEF ReturnSlot, Unregistered, threads, history, TypeOK, Idle, CallsKnow,
       Named, ClosersKnow, CleanTree, Calls
  <2> QED
    BY <2>4, <2>5
<1>9. CASE Commit(w)
  <2> DEFINE k == KeyOf(call[w].path, call[w].id)
  <2>1. k \in Keys \ {Root} /\ call[w].id \in Threads /\ call[w].nick \in Nicknames
    BY <1>9, <1>c, RegistryAssumption DEF Commit, KeyOf, Keys, CallsKnow, Named, Calls
  <2>2. Holders' = Holders \ {w} /\ w \in Holders
    BY <1>9 DEF Commit, Holders, Reserved, Idle, TypeOK
  <2>9. /\ tree' = [tree EXCEPT ![k] = call[w].id] /\ keys' = keys \cup {k}
        /\ nicks' = [nicks EXCEPT ![k] = call[w].nick]
        /\ leaked' = IF tree[k] = None THEN leaked ELSE leaked + 1
    BY <1>9 DEF Commit
  <2> HIDE DEF k
  <2>3. Counted' = Counted \cup {k} /\ (k \in Counted <=> tree[k] # None)
    BY <2>1, <2>9, RegistryAssumption DEF Counted, TypeOK, CleanTree
  <2>4. Cardinality(Counted') + leaked' = Cardinality(Counted) + leaked + 1 /\ leaked' \in Nat
          /\ Cardinality(Counted') \in Nat
    <3>1. CASE k \in Counted
      <4>1. Counted' = Counted
        BY <2>3, <3>1
      <4> QED
        BY <2>3, <2>9, <3>1, <4>1, <1>0
    <3>2. CASE k \notin Counted
      <4>1. Cardinality(Counted') = Cardinality(Counted) + 1
        BY <2>3, <3>2, HeldFinite, OneMore
      <4> QED
        BY <2>3, <2>9, <3>2, <4>1, <1>0
    <3> QED
      BY <3>1, <3>2
  <2>5. Cardinality(Holders) >= 1 /\ Cardinality(Holders') = Cardinality(Holders) - 1
    BY <2>2, HeldFinite, OneLess
  <2>6. count' = count /\ Owing' = Owing
    BY <1>9, <1>o DEF Commit
  <2>7. Accounts'
    BY <1>0, <2>4, <2>5, <2>6 DEF Accounts
  <2>8. CallsKnow' /\ ClosersKnow'
    BY <1>9 DEF Commit, TypeOK, Idle, CallsKnow, Named, ClosersKnow
  <2>10. CleanTree'
    BY <2>1, <2>9 DEF CleanTree, TypeOK
  <2>11. call' \in [Workers -> Calls]
    BY <1>9, <1>0 DEF Commit, TypeOK, Idle, Calls
  <2>12. TypeOK'
    BY <1>9, <2>1, <2>4, <2>9, <2>11 DEF Commit, threads, TypeOK
  <2> QED
    BY <2>7, <2>8, <2>10, <2>12
<1> QED
  BY <1>1, <1>2, <1>3, <1>4, <1>5, <1>6, <1>7, <1>8, <1>9 DEF WorkerStep

(* Steps that close an agent.                                               *)
LEMMA CloserKeeps ==
  ASSUME IInv, NEW c \in Closers, CloserStep(c)
  PROVE  IInv'
<1> USE DEF IInv
<1>0. /\ count \in Nat /\ MaxThreads \in Nat /\ count <= MaxThreads /\ leaked \in Nat
      /\ Cardinality(Holders) \in Nat /\ Cardinality(Counted) \in Nat
      /\ Cardinality(Owing) \in Nat
  BY Numbers
<1>c. call' = call => Holders' = Holders /\ CallsKnow'
  BY DEF Holders, Reserved, CallsKnow, Named
<1>1. ASSUME NEW t \in born \cup {Root}, ShutdownThread(c, t)
      PROVE  IInv'
  <2>1. Counted' = Counted /\ Owing' = Owing
    BY <1>1 DEF ShutdownThread, registry, Counted, Owing, TypeOK
  <2>2. TypeOK' /\ ClosersKnow'
    BY <1>1, RegistryAssumption DEF ShutdownThread, registry, history, TypeOK, ClosersKnow
  <2> QED
    BY <1>1, <1>c, <2>1, <2>2 DEF ShutdownThread, registry, history, Accounts, CleanTree
<1>2. CASE AbandonClose(c) \/ RemoveThread(c)
  <2>1. Counted' = Counted /\ Owing' = Owing
    BY <1>2 DEF AbandonClose, RemoveThread, registry, Counted, Owing, TypeOK
  <2>2. TypeOK' /\ ClosersKnow'
    BY <1>2 DEF AbandonClose, RemoveThread, registry, threads, history, TypeOK, ClosersKnow
  <2> QED
    BY <1>2, <1>c, <2>1, <2>2 DEF AbandonClose, RemoveThread, registry, history, Accounts, CleanTree
<1>3. CASE ReleaseThread(c)
  <2>1. /\ Holders' = Holders /\ CallsKnow' /\ ClosersKnow' /\ c \notin Owing
        /\ count' = count /\ leaked' = leaked
    BY <1>3, <1>c DEF ReleaseThread, ClosersKnow, TypeOK, history, Owing
  <2>2. CASE UNCHANGED <<keys, tree, nicks>>
               /\ closing' = [closing EXCEPT ![c] = [pc |-> "idle", id |-> None]]
    <3>1. Counted' = Counted /\ Owing' = Owing
      BY <2>1, <2>2 DEF Counted, Owing, TypeOK
    <3>2. TypeOK' /\ CleanTree'
      BY <1>3, <2>2 DEF ReleaseThread, threads, history, TypeOK, CleanTree
    <3> QED
      BY <2>1, <2>2, <3>1, <3>2 DEF Accounts
  <2>3. ASSUME NEW k \in keys, tree[k] = closing[c].id, keys' = keys \ {k},
               tree' = [tree EXCEPT ![k] = None], nicks' = [nicks EXCEPT ![k] = None],
               closing' = [closing EXCEPT ![c] =
                 IF k = Root THEN [pc |-> "idle", id |-> None] ELSE [pc |-> "released", id |-> None]]
        PROVE  IInv'
    <3>1. closing[c].id # None /\ k \in Keys
      BY <1>3 DEF ReleaseThread, ClosersKnow, TypeOK
    <3>2. Counted' = Counted \ {k}
      BY <2>3 DEF Counted, TypeOK
    <3>3. Accounts'
      <4>1. CASE k = Root
        <5>1. Counted' = Counted /\ Owing' = Owing
          BY <2>1, <2>3, <3>2, <4>1 DEF Counted, Owing, TypeOK
        <5> QED
          BY <2>1, <5>1 DEF Accounts
      <4>2. CASE k # Root
        <5>1. k \in Counted
          BY <2>3, <3>1, <4>2 DEF Counted
        <5>2. Cardinality(Counted) >= 1 /\ Cardinality(Counted') = Cardinality(Counted) - 1
          BY <3>2, <5>1, HeldFinite, OneLess
        <5>3. Owing' = Owing \cup {c}
          BY <2>3, <4>2 DEF Owing, TypeOK
        <5>4. Cardinality(Owing') = Cardinality(Owing) + 1
          BY <2>1, <5>3, HeldFinite, OneMore
        <5> QED
          BY <1>0, <2>1, <5>2, <5>4 DEF Accounts
      <4> QED
        BY <4>1, <4>2
    <3>4. TypeOK' /\ CleanTree'
      BY <1>3, <2>3, <3>1 DEF ReleaseThread, threads, history, TypeOK, CleanTree
    <3> QED
      BY <2>1, <3>3, <3>4
  <2> QED
    BY <1>3, <2>2, <2>3 DEF ReleaseThread
<1>4. CASE ReleaseSlot(c)
  <2>1. Counted' = Counted /\ Owing' = Owing \ {c} /\ c \in Owing
    BY <1>4 DEF ReleaseSlot, Unregistered, Counted, Owing, TypeOK
  <2>2. Cardinality(Owing) >= 1 /\ Cardinality(Owing') = Cardinality(Owing) - 1
    BY <2>1, HeldFinite, OneLess
  <2>3. leaked' = leaked /\ Holders' = Holders /\ count' = count - 1 /\ CallsKnow'
    BY <1>4, <1>c DEF ReleaseSlot, history
  <2>4. Accounts' /\ count' \in 0 .. MaxThreads
    BY <1>0, <2>1, <2>2, <2>3 DEF Accounts
  <2>5. TypeOK' /\ ClosersKnow' /\ CleanTree'
    BY <1>4, <2>4 DEF ReleaseSlot, Unregistered, threads, history, TypeOK, ClosersKnow, CleanTree
  <2> QED
    BY <2>3, <2>4, <2>5
<1> QED
  BY <1>1, <1>2, <1>3, <1>4 DEF CloserStep

(* IInv is inductive.                                                       *)
LEMMA RegistryStep == IInv /\ [Next]_vars => IInv'
<1> SUFFICES ASSUME IInv, [Next]_vars PROVE IInv'
  OBVIOUS
<1>1. CASE Next
  BY <1>1, WorkerKeeps, CloserKeeps DEF Next
<1>2. CASE UNCHANGED vars
  <2>1. Holders' = Holders /\ Counted' = Counted /\ Owing' = Owing
    BY <1>2 DEF vars, registry, Holders, Counted, Owing, Reserved
  <2> QED
    BY <1>2, <2>1 DEF vars, registry, threads, history, IInv, TypeOK, Accounts, CleanTree, CallsKnow,
       Named, ClosersKnow
<1> QED
  BY <1>1, <1>2

(* total_count stays within 0 .. agent_max_threads and everything else in   *)
(* its type, whatever calls run together.                                   *)
THEOREM RegistryTypes == Spec => []TypeOK
<1>1. IInv => TypeOK
  BY DEF IInv
<1> QED
  BY <1>1, RegistryInit, RegistryStep, PTL DEF Spec

(* A call that holds a path.                                                *)
Holds(w) == Named(w) /\ call[w].path # None

(* While a call starts its thread it keeps its path and its nickname, and   *)
(* the registry does not change.                                            *)
LEMMA StartMoves ==
  ASSUME IInv, NEW w \in Workers, ResumeChecks(w) \/ StartThread(w)
  PROVE  /\ Named(w) /\ Named(w)' /\ call[w].pc \in {"named", "starting"}
         /\ call'[w].path = call[w].path /\ call'[w].nick = call[w].nick
         /\ \A v \in Workers \ {w} : call'[v] = call[v]
         /\ registry' = registry /\ closing' = closing /\ history' = history
<1>t. call \in [Workers -> Calls] /\ call[w] \in Calls
  BY DEF IInv, TypeOK
<1>1. CASE ResumeChecks(w)
  <2>1. PICK pc \in {"starting", "started"} : call' = [call EXCEPT ![w].pc = pc]
    BY <1>1 DEF ResumeChecks
  <2> QED
    BY <1>1, <1>t, <2>1 DEF ResumeChecks, Named, Calls
<1>2. CASE StartThread(w)
  <2>1. /\ \E t \in Threads :
             \/ call' = [call EXCEPT ![w].pc = "started", ![w].id = t]
             \/ call' = [call EXCEPT ![w].pc = "resumed"]
        /\ call[w].pc \in {"named", "starting"}
        /\ registry' = registry /\ closing' = closing /\ history' = history
    BY <1>2 DEF StartThread
  <2> QED
    BY <1>t, <2>1 DEF Named, Calls
<1> QED
  BY <1>1, <1>2

(* A close changes entries only where it releases one.                      *)
LEMMA CloserMoves ==
  ASSUME NEW c \in Closers, CloserStep(c)
  PROVE  /\ call' = call /\ born' = born /\ history' = history
         /\ used' = used /\ resets' = resets
         /\ ~ReleaseThread(c) => UNCHANGED <<tree, keys, nicks>>
  BY DEF CloserStep, ShutdownThread, AbandonClose, RemoveThread, ReleaseThread, ReleaseSlot,
     registry, Unregistered, threads

(* A held path stays held by one call, and no thread gets registered under  *)
(* it: reserve_agent_path refuses any key that is present.                  *)
LEMMA PathStep == IInv /\ PathsExclusive /\ [Next]_vars => PathsExclusive'
<1> SUFFICES ASSUME IInv, PathsExclusive, [Next]_vars PROVE PathsExclusive'
  OBVIOUS
<1> USE DEF IInv
<1>t. /\ tree \in [Keys -> Threads \cup {None, Root}] /\ keys \subseteq Keys
      /\ call \in [Workers -> Calls]
  BY DEF TypeOK
<1>p. \A w \in Workers : Holds(w) => /\ call[w].path \in keys
                                     /\ tree[call[w].path] = None
                                     /\ call[w].path \in Paths
                                     /\ \A v \in Workers : Holds(v) /\ call[v].path = call[w].path
                                          => v = w
  BY <1>t DEF PathsExclusive, Holds, Calls
<1>g. ASSUME \A w \in Workers : Holds(w)' => /\ call[w]'.path \in keys'
                                             /\ tree'[call[w]'.path] = None
                                             /\ \A v \in Workers :
                                                  Holds(v)' /\ call[v]'.path = call[w]'.path
                                                    => v = w
      PROVE  PathsExclusive'
  BY <1>g DEF PathsExclusive, Holds
<1>k. \A k \in Paths : k \in Keys /\ k # Root /\ k \notin Threads
  BY RegistryAssumption DEF Keys
(* Steps of a worker that end with it holding no path, or as it did before. *)
<1>s. ASSUME NEW w \in Workers,
             \A v \in Workers \ {w} : call'[v] = call[v],
             ~Holds(w)' \/ (Holds(w) /\ Holds(w)' /\ call'[w].path = call[w].path),
             \A p \in Paths : p \in keys /\ tree[p] = None /\ ~(Holds(w) /\ p = call[w].path)
                => p \in keys' /\ tree'[p] = None,
             Holds(w)' => call[w].path \in keys' /\ tree'[call[w].path] = None
      PROVE  PathsExclusive'
  <2>1. \A v \in Workers : Holds(v)' => Holds(v) /\ call'[v].path = call[v].path
    BY <1>s DEF Holds, Named
  <2>2. \A v \in Workers : Holds(v)' => call'[v].path \in keys' /\ tree'[call'[v].path] = None
    BY <1>s, <1>p, <2>1
  <2> QED
    BY <2>1, <2>2, <1>p, <1>g
<1>1. ASSUME NEW w \in Workers, WorkerStep(w) PROVE PathsExclusive'
  <2>1. CASE \E id \in Threads \cup {None}, path \in Paths \cup {None} : BeginCall(w, id, path)
    <3>1. ~Holds(w)' /\ \A v \in Workers \ {w} : call'[v] = call[v]
      BY <2>1, <1>t DEF BeginCall, Holds, Named, Idle
    <3>2. tree' = tree /\ keys' = keys
      BY <2>1 DEF BeginCall, registry
    <3> QED
      BY <3>1, <3>2, <1>s
  <2>2. CASE ReserveSlot(w)
    <3>1. ~Holds(w)' /\ \A v \in Workers \ {w} : call'[v] = call[v]
      BY <2>2, <1>t DEF ReserveSlot, Holds, Named, Idle, Calls
    <3>2. tree' = tree /\ keys' = keys
      BY <2>2 DEF ReserveSlot, Unregistered
    <3> QED
      BY <3>1, <3>2, <1>s
  <2>3. CASE PathTaken(w)
    <3>1. ~Holds(w)' /\ \A v \in Workers \ {w} : call'[v] = call[v]
      BY <2>3, <1>t DEF PathTaken, Holds, Named, Idle
    <3>2. \A p \in Paths : p \in keys /\ tree[p] = None => p \in keys' /\ tree'[p] = None
      BY <2>3, <1>t, <1>k DEF PathTaken
    <3> QED
      BY <3>1, <3>2, <1>s
  <2>4. CASE Prepare(w)
    <3>1. PICK n \in Nicknames : call' = [call EXCEPT ![w].pc = "named", ![w].nick = n]
      BY <2>4 DEF Prepare
    <3>2. /\ \A v \in Workers \ {w} : call'[v] = call[v]
          /\ call'[w].path = call[w].path
          /\ call[w].path \in Paths \cup {None}
      BY <3>1, <1>t DEF Calls
    <3>3. /\ call[w].path \notin keys
          /\ call[w].path # None => call[w].path \in keys' /\ tree'[call[w].path] = None
          /\ \A p \in Paths : p \in keys /\ tree[p] = None => p \in keys' /\ tree'[p] = None
      BY <2>4, <1>t, <1>k, <3>2 DEF Prepare, CleanTree
    <3>4. \A v \in Workers : Holds(v)' => v = w \/ Holds(v)
      BY <3>2 DEF Holds, Named
    <3>5. \A v \in Workers : Holds(v)' => call'[v].path \in keys' /\ tree'[call'[v].path] = None
      BY <3>2, <3>3, <3>4, <1>p DEF Holds
    <3>6. \A u, v \in Workers : Holds(u)' /\ Holds(v)' /\ call'[u].path = call'[v].path => u = v
      BY <3>2, <3>3, <3>4, <1>p
    <3> QED
      BY <3>5, <3>6, <1>g
  <2>5. CASE ResumeChecks(w) \/ StartThread(w)
    <3>1. tree' = tree /\ keys' = keys
      BY <2>5, StartMoves DEF registry
    <3>2. ~Holds(w)' \/ (Holds(w) /\ Holds(w)' /\ call'[w].path = call[w].path)
      BY <2>5, StartMoves DEF Holds
    <3>3. \A v \in Workers \ {w} : call'[v] = call[v]
      BY <2>5, StartMoves
    <3> QED
      BY <3>1, <3>2, <3>3, <1>p, <1>s
  <2>6. CASE GiveUp(w)
    <3>1. ~Holds(w)' /\ \A v \in Workers \ {w} : call'[v] = call[v]
      BY <2>6, <1>t DEF GiveUp, Drop, Holds, Named, Idle
    <3>2. tree' = tree
      BY <2>6 DEF GiveUp
    <3>3. \A p \in Paths : p \in keys /\ ~(Holds(w) /\ p = call[w].path) => p \in keys'
      BY <2>6, RegistryAssumption DEF GiveUp, Drop, Holds
    <3> QED
      BY <3>1, <3>2, <3>3, <1>s
  <2>8. CASE ReturnSlot(w)
    <3>1. ~Holds(w)' /\ \A v \in Workers \ {w} : call'[v] = call[v]
      BY <2>8, <1>t DEF ReturnSlot, Holds, Named, Idle
    <3>2. tree' = tree /\ keys' = keys
      BY <2>8 DEF ReturnSlot, Unregistered
    <3> QED
      BY <3>1, <3>2, <1>s
  <2>7. CASE Commit(w)
    <3>1. ~Holds(w)' /\ \A v \in Workers \ {w} : call'[v] = call[v]
      BY <2>7, <1>t DEF Commit, Holds, Named, Idle
    <3>2. PICK k : /\ k = KeyOf(call[w].path, call[w].id)
                   /\ tree' = [tree EXCEPT ![k] = call[w].id] /\ keys' = keys \cup {k}
      BY <2>7 DEF Commit
    <3>3. \A p \in Paths : p = k => Holds(w) /\ p = call[w].path
      BY <2>7, <3>2, <1>t, <1>k, RegistryAssumption DEF Commit, KeyOf, Holds, Named, Calls, CallsKnow
    <3>4. \A p \in Paths : p # k /\ p \in keys /\ tree[p] = None => p \in keys' /\ tree'[p] = None
      BY <3>2, <1>t, <1>k
    <3> QED
      BY <3>1, <3>3, <3>4, <1>s
  <2> QED
    BY <1>1, <2>1, <2>2, <2>3, <2>4, <2>5, <2>6, <2>7, <2>8 DEF WorkerStep
<1>2. ASSUME NEW c \in Closers, CloserStep(c) PROVE PathsExclusive'
  <2>1. call' = call
    BY <1>2, CloserMoves
  <2>2. \A p \in Paths : p \in keys /\ tree[p] = None => p \in keys' /\ tree'[p] = None
    <3>1. CASE ReleaseThread(c)
      BY <3>1, <1>t, <1>k DEF ReleaseThread, ClosersKnow
    <3> QED
      BY <1>2, <3>1, CloserMoves
  <2>3. \A w \in Workers : Holds(w)' <=> Holds(w)
    BY <2>1 DEF Holds, Named
  <2> QED
    BY <2>1, <2>2, <2>3, <1>p, <1>g
<1>3. CASE UNCHANGED vars
  BY <1>3 DEF vars, registry, PathsExclusive, Named
<1> QED
  BY <1>1, <1>2, <1>3 DEF Next

(* Two spawns that run together never hold the same agent path.             *)
THEOREM PathsAreExclusive == Spec => []PathsExclusive
<1>1. Init => PathsExclusive
  BY DEF Init, PathsExclusive, Named, Idle
<1> QED
  BY <1>1, RegistryInit, RegistryStep, PathStep, PTL DEF Spec

-----------------------------------------------------------------------------
(* Until it commits, a call changes no entry but the root's.                *)
LEMMA OnlyCommitRegisters ==
  ASSUME IInv, NEW w \in Workers, WorkerStep(w), ~Commit(w)
  PROVE  /\ Counted' = Counted /\ nicks' = nicks /\ closing' = closing
         /\ \A k \in Keys \ {Root} : tree'[k] = tree[k]
         /\ tree'[Root] \in {tree[Root], Root}
         /\ \A v \in Workers \ {w} : call'[v] = call[v]
<1>t. /\ tree \in [Keys -> Threads \cup {None, Root}] /\ keys \subseteq Keys
      /\ call \in [Workers -> Calls] /\ Root \in Keys
  BY DEF IInv, TypeOK, Keys
<1>1. CASE \E id \in Threads \cup {None}, path \in Paths \cup {None} : BeginCall(w, id, path)
  BY <1>1, <1>t DEF BeginCall, registry, Counted
<1>2. CASE ReserveSlot(w)
  BY <1>2, <1>t DEF ReserveSlot, Unregistered, Counted
<1>3. CASE PathTaken(w)
  BY <1>3, <1>t DEF PathTaken, Counted
<1>4. CASE Prepare(w)
  <2>1. PICK n \in Nicknames : call' = [call EXCEPT ![w].pc = "named", ![w].nick = n]
    BY <1>4 DEF Prepare
  <2>2. call[w].path \in Paths \cup {None} /\ (call[w].path # None => tree[call[w].path] = None)
    BY <1>4, <1>t DEF Prepare, IInv, CleanTree, Keys, Calls
  <2>3. (\A k \in Keys \ {Root} : tree'[k] = tree[k]) /\ tree'[Root] \in {tree[Root], Root}
    BY <1>4, <1>t DEF Prepare
  <2>4. Counted' = Counted
    BY <1>4, <1>t, <2>2, <2>3, RegistryAssumption DEF Prepare, Counted, Keys
  <2> QED
    BY <1>4, <1>t, <2>1, <2>3, <2>4 DEF Prepare
<1>5. CASE ResumeChecks(w) \/ StartThread(w)
  BY <1>5, StartMoves DEF registry, Counted
<1>6. CASE GiveUp(w)
  BY <1>6, <1>t DEF GiveUp, Drop, Counted
<1>7. CASE ReturnSlot(w)
  BY <1>7, <1>t DEF ReturnSlot, Unregistered, Counted
<1> QED
  BY <1>1, <1>2, <1>3, <1>4, <1>5, <1>6, <1>7 DEF WorkerStep

(* commit adds one entry, or replaces one.                                  *)
LEMMA CommitRegisters ==
  ASSUME IInv, NEW w \in Workers, Commit(w)
  PROVE  LET k == KeyOf(call[w].path, call[w].id) IN
         /\ k \in Keys \ {Root} /\ call[w].id \in Threads
         /\ Counted' = Counted \cup {k} /\ tree'[k] = call[w].id /\ nicks'[k] = call[w].nick
         /\ \A j \in Keys \ {k} : tree'[j] = tree[j] /\ nicks'[j] = nicks[j]
         /\ k \in Threads => k = call[w].id
         /\ k \in Paths => k = call[w].path /\ call[w].path # None
         /\ call'[w] = Idle /\ \A v \in Workers \ {w} : call'[v] = call[v]
<1> DEFINE k == KeyOf(call[w].path, call[w].id)
<1>t. /\ tree \in [Keys -> Threads \cup {None, Root}] /\ keys \subseteq Keys
      /\ nicks \in [Keys -> Nicknames \cup {None}]
      /\ call \in [Workers -> Calls] /\ call[w] \in Calls
  BY DEF IInv, TypeOK
<1>1. call[w].id \in Threads /\ call[w].path \in Paths \cup {None}
  BY <1>t DEF Commit, IInv, CallsKnow, Calls
<1>2. /\ k \in Keys \ {Root} /\ (k \in Threads => k = call[w].id)
      /\ (k \in Paths => k = call[w].path /\ call[w].path # None)
  BY <1>1, RegistryAssumption DEF KeyOf, Keys
<1>3. /\ tree' = [tree EXCEPT ![k] = call[w].id] /\ keys' = keys \cup {k}
      /\ nicks' = [nicks EXCEPT ![k] = call[w].nick]
      /\ call' = [call EXCEPT ![w] = Idle]
  BY DEF Commit
<1>4. call[w].id # None
  BY <1>1, RegistryAssumption
<1> HIDE DEF k
<1>5. Counted' = Counted \cup {k}
  BY <1>t, <1>2, <1>3, <1>4 DEF Counted
<1>6. /\ tree'[k] = call[w].id /\ nicks'[k] = call[w].nick
      /\ \A j \in Keys \ {k} : tree'[j] = tree[j] /\ nicks'[j] = nicks[j]
      /\ call'[w] = Idle /\ \A v \in Workers \ {w} : call'[v] = call[v]
  BY <1>t, <1>2, <1>3
<1> QED
  BY <1>1, <1>2, <1>5, <1>6 DEF k

(* What a step of a call does to its own id: BeginCall sets it to a thread  *)
(* that is then resumed, a spawn learns it when it starts its thread.       *)
LEMMA IdMoves ==
  ASSUME IInv, ThreadsKnown, NEW w \in Workers, WorkerStep(w)
  PROVE  /\ call'[w].id \in born' \cup {None}
         /\ call'[w].pc \notin {"idle", "started"} => call'[w].id \in resumed' \cup {None}
         /\ born \subseteq born' /\ resumed \subseteq resumed' /\ resumed' \subseteq born'
         /\ live' \subseteq live \cup born'
         /\ (live' \ live) \ resumed' \subseteq born' \ born
         /\ ~Commit(w) => leaked' = leaked
         /\ call'[w].pc = "idle" => call'[w].id = None
         /\ ~Commit(w) => call[w].pc # "started"
         /\ call'[w].pc = "started" /\ call[w].pc # "started" =>
              call'[w].id \in resumed' \cup (born' \ born)
<1>t. call \in [Workers -> Calls] /\ call[w] \in Calls
  BY DEF IInv, TypeOK
<1>k. call[w].id \in born \cup {None}
  BY DEF ThreadsKnown
<1>r. call[w].pc \notin {"idle", "started"} => call[w].id \in resumed \cup {None}
  BY DEF ThreadsKnown
<1>b. resumed \subseteq born
  BY DEF ThreadsKnown
<1>1. ASSUME NEW id \in Threads \cup {None}, NEW path \in Paths \cup {None}, BeginCall(w, id, path)
      PROVE  /\ call'[w].pc = "counting" /\ call'[w].id = id /\ born' = born /\ live' = live
             /\ resumed' = resumed \cup ({id} \ {None}) /\ leaked' = leaked
             /\ id \in born \cup {None} /\ call[w].pc # "started"
  BY <1>1, <1>t DEF BeginCall, threads, Idle
<1>2. CASE ReserveSlot(w) \/ GiveUp(w) \/ ReturnSlot(w) \/ PathTaken(w) \/ Commit(w)
  <2>1. /\ born' = born /\ live' = live /\ resumed' = resumed /\ (~Commit(w) => leaked' = leaked)
    BY <1>2 DEF ReserveSlot, GiveUp, ReturnSlot, PathTaken, Commit, threads, history
  <2>2. \/ call'[w].id = call[w].id /\ call[w].pc = "counting" /\ call'[w].pc \notin {"idle", "started"}
        \/ call'[w].id = None /\ call'[w].pc # "started"
    BY <1>2, <1>t DEF ReserveSlot, GiveUp, Drop, ReturnSlot, PathTaken, Commit, Idle, Calls
  <2>3. ~Commit(w) => call[w].pc # "started"
    BY <1>2 DEF ReserveSlot, GiveUp, ReturnSlot, PathTaken
  <2> QED
    BY <2>1, <2>2, <2>3, <1>k, <1>r, <1>b
<1>3. CASE Prepare(w)
  <2>1. PICK n \in Nicknames : call' = [call EXCEPT ![w].pc = "named", ![w].nick = n]
    BY <1>3 DEF Prepare
  <2>2. call'[w].id = call[w].id /\ call[w].pc = "reserved" /\ call'[w].pc = "named"
    BY <1>3, <2>1, <1>t DEF Prepare, Calls
  <2>3. UNCHANGED <<live, born, resumed, leaked>>
    BY <1>3 DEF Prepare, threads, history
  <2> QED
    BY <2>2, <2>3, <1>k, <1>r, <1>b
<1>4. CASE ResumeChecks(w)
  <2>1. PICK pc \in {"starting", "started"} : call' = [call EXCEPT ![w].pc = pc]
    BY <1>4 DEF ResumeChecks
  <2>2. call'[w].id = call[w].id /\ call'[w].pc = pc /\ call[w].pc = "named" /\ call[w].id # None
    BY <1>4, <2>1, <1>t DEF ResumeChecks, Calls
  <2>3. live' \subseteq live /\ UNCHANGED <<born, resumed, leaked>>
    BY <1>4 DEF ResumeChecks, history
  <2> QED
    BY <2>2, <2>3, <1>k, <1>r, <1>b
<1>5. CASE StartThread(w)
  <2>1. PICK t \in Threads :
          /\ \/ /\ call[w].pc = "named" /\ call[w].id = None /\ t \notin born
                /\ call' = [call EXCEPT ![w].pc = "started", ![w].id = t]
             \/ /\ call[w].pc = "starting" /\ t = call[w].id
                /\ call' = [call EXCEPT ![w].pc = "resumed"]
          /\ live' = live \cup {t} /\ born' = born \cup {t}
    BY <1>5 DEF StartThread
  <2>2. UNCHANGED <<resumed, leaked>> /\ t # None
    BY <1>5, RegistryAssumption DEF StartThread, history
  <2>3. CASE call' = [call EXCEPT ![w].pc = "started", ![w].id = t] /\ t \notin born
    <3>1. call'[w].pc = "started" /\ call'[w].id = t
      BY <2>3, <1>t DEF Calls
    <3> QED
      BY <2>1, <2>2, <2>3, <3>1, <1>b
  <2>4. CASE /\ call' = [call EXCEPT ![w].pc = "resumed"]
             /\ call[w].pc = "starting" /\ t = call[w].id
    <3>1. call'[w].pc = "resumed" /\ call'[w].id = t /\ t \in resumed
      BY <2>4, <2>2, <1>t, <1>r DEF Calls
    <3> QED
      BY <2>1, <2>2, <3>1, <1>b
  <2> QED
    BY <2>1, <2>3, <2>4
<1> QED
  BY <1>1, <1>2, <1>3, <1>4, <1>5, <1>k, <1>b DEF WorkerStep

(* ThreadsKnown is kept by every step.                                      *)
LEMMA ThreadsStep == IInv /\ ThreadsKnown /\ [Next]_vars => ThreadsKnown'
<1> SUFFICES ASSUME IInv, ThreadsKnown, [Next]_vars PROVE ThreadsKnown'
  OBVIOUS
<1>t. /\ tree \in [Keys -> Threads \cup {None, Root}] /\ keys \subseteq Keys
      /\ call \in [Workers -> Calls] /\ Threads \subseteq Keys \ {Root}
      /\ closing \in [Closers -> [pc : {"idle", "ended", "removed", "released"},
                                  id : Threads \cup {Root, None}]]
  BY RegistryAssumption DEF IInv, TypeOK, Keys
<1>1. ASSUME NEW w \in Workers, WorkerStep(w) PROVE ThreadsKnown'
  <2>1. /\ call'[w].id \in born' \cup {None}
        /\ call'[w].pc \notin {"idle", "started"} => call'[w].id \in resumed' \cup {None}
        /\ born \subseteq born' /\ resumed \subseteq resumed' /\ resumed' \subseteq born'
        /\ live' \subseteq live \cup born'
        /\ (live' \ live) \ resumed' \subseteq born' \ born
    BY <1>1, IdMoves
  <2>2. /\ \A v \in Workers \ {w} : call'[v] = call[v]
        /\ closing' = closing
        /\ tree'[Root] \in {None, Root}
        /\ \A k \in Keys \ {Root} : tree'[k] \in born' \cup {None}
        /\ \A k \in Threads : tree'[k] \in {k, None}
    <3>1. CASE Commit(w)
      <4>1. UNCHANGED <<born, closing>>
        BY <3>1 DEF Commit, threads
      <4>2. call[w].id \in born \cup {None}
        BY DEF ThreadsKnown
      <4>3. QED
        <5> DEFINE k == KeyOf(call[w].path, call[w].id)
        <5>1. /\ k \in Keys \ {Root} /\ call[w].id \in Threads /\ tree'[k] = call[w].id
              /\ \A j \in Keys \ {k} : tree'[j] = tree[j]
              /\ k \in Threads => k = call[w].id
              /\ \A v \in Workers \ {w} : call'[v] = call[v]
          BY <3>1, CommitRegisters
        <5> HIDE DEF k
        <5>2. tree'[Root] \in {None, Root}
          BY <5>1 DEF ThreadsKnown, Keys
        <5>3. \A j \in Keys \ {Root} : tree'[j] \in born' \cup {None}
          BY <4>1, <4>2, <5>1 DEF ThreadsKnown
        <5>4. \A j \in Threads : tree'[j] \in {j, None}
          BY <5>1, <1>t DEF ThreadsKnown
        <5> QED
          BY <4>1, <5>1, <5>2, <5>3, <5>4
    <3>2. CASE ~Commit(w)
      BY <1>1, <3>2, <2>1, <1>t, OnlyCommitRegisters DEF ThreadsKnown
    <3> QED
      BY <3>1, <3>2
  <2>3. \A c \in Closers : closing[c].pc = "removed" =>
          closing[c].id \notin live' \ ({Root} \cup resumed')
    BY <2>1 DEF ThreadsKnown
  <2>4. \A v \in Workers : call'[v].id \in born' \cup {None}
    BY <2>1, <2>2 DEF ThreadsKnown
  <2>5. \A v \in Workers : call'[v].pc \notin {"idle", "started"} => call'[v].id \in resumed' \cup {None}
    BY <2>1, <2>2 DEF ThreadsKnown
  <2> QED
    BY <2>1, <2>2, <2>3, <2>4, <2>5 DEF ThreadsKnown
<1>2. ASSUME NEW c \in Closers, CloserStep(c) PROVE ThreadsKnown'
  <2>0. call' = call /\ born' = born /\ resumed' = resumed
    BY <1>2, CloserMoves DEF history
  <2>1. ASSUME NEW t \in born \cup {Root}, ShutdownThread(c, t) PROVE ThreadsKnown'
    BY <2>0, <2>1, <1>t DEF ShutdownThread, registry, ThreadsKnown
  <2>2. CASE AbandonClose(c) \/ ReleaseSlot(c)
    BY <2>0, <2>2, <1>t DEF AbandonClose, ReleaseSlot, Unregistered, registry, threads, ThreadsKnown
  <2>3. CASE RemoveThread(c)
    BY <2>0, <2>3, <1>t DEF RemoveThread, registry, ThreadsKnown
  <2>4. CASE ReleaseThread(c)
    <3>1. /\ \A b \in Closers : closing'[b] = closing[b] \/ closing'[b].pc \in {"idle", "released"}
          /\ \A k \in Keys : tree'[k] \in {tree[k], None}
          /\ live' = live
      BY <2>4, <1>t DEF ReleaseThread, threads
    <3>2. /\ tree'[Root] \in {Root, None}
          /\ \A k \in Keys \ {Root} : tree'[k] \in born \cup {None}
          /\ \A k \in Threads : tree'[k] \in {k, None}
      BY <3>1, <1>t DEF ThreadsKnown, Keys
    <3>3. /\ \A b \in Closers : closing'[b].pc \in {"ended", "removed"} =>
               closing'[b].id \in born \cup {Root}
          /\ \A b \in Closers : closing'[b].pc = "removed" =>
               closing'[b].id \notin live \ ({Root} \cup resumed)
      BY <3>1 DEF ThreadsKnown
    <3> QED
      BY <2>0, <3>1, <3>2, <3>3 DEF ThreadsKnown
  <2> QED
    BY <1>2, <2>1, <2>2, <2>3, <2>4 DEF CloserStep
<1>3. CASE UNCHANGED vars
  BY <1>3 DEF vars, registry, threads, history, ThreadsKnown
<1> QED
  BY <1>1, <1>2, <1>3 DEF Next

(* A thread no one has begun to resume is started and registered once, so   *)
(* that only a resume can overwrite an entry.                               *)
LEMMA StartedStep ==
  IInv /\ PathsExclusive /\ ThreadsKnown /\ StartedOnce /\ [Next]_vars => StartedOnce'
<1> SUFFICES ASSUME IInv, PathsExclusive, ThreadsKnown, StartedOnce, [Next]_vars PROVE StartedOnce'
  OBVIOUS
<1>t. /\ tree \in [Keys -> Threads \cup {None, Root}] /\ keys \subseteq Keys
      /\ call \in [Workers -> Calls] /\ born \subseteq Threads
      /\ Root \notin Threads /\ None \notin Threads
  BY RegistryAssumption DEF IInv, TypeOK
<1>1. ASSUME NEW w \in Workers, WorkerStep(w) PROVE StartedOnce'
  <2>1. /\ call'[w].pc = "started" /\ call[w].pc # "started" =>
             call'[w].id \in resumed' \cup (born' \ born)
        /\ call'[w].pc \notin {"idle", "started"} => call'[w].id \in resumed' \cup {None}
        /\ resumed \subseteq resumed' /\ born \subseteq born' /\ resumed' \subseteq born'
        /\ ~Commit(w) => leaked' = leaked
        /\ call'[w].id \in born' \cup {None}
        /\ call'[w].pc = "idle" => call'[w].id = None
        /\ ~Commit(w) => call[w].pc # "started"
    BY <1>1, IdMoves
  <2>k. born' \subseteq Threads
    BY <1>1, RegistryStep DEF Next, IInv, TypeOK
  <2>2. CASE Commit(w)
    <3> DEFINE k == KeyOf(call[w].path, call[w].id)
    <3>1. /\ k \in Keys \ {Root} /\ tree'[k] = call[w].id
          /\ \A j \in Keys \ {k} : tree'[j] = tree[j]
          /\ k \in Threads => k = call[w].id
          /\ k \in Paths => k = call[w].path /\ call[w].path # None
          /\ call'[w] = Idle /\ \A v \in Workers \ {w} : call'[v] = call[v]
          /\ call[w].id \in Threads
      BY <2>2, CommitRegisters
    <3>2. /\ leaked' = IF tree[k] = None THEN leaked ELSE leaked + 1
          /\ resumed' = resumed /\ call[w].pc \in {"started", "resumed"}
      BY <2>2 DEF Commit
    <3> HIDE DEF k
    <3>3. tree[k] # None => call[w].id \in resumed
      <4>1. k \in Paths => tree[k] = None
        BY <3>1, <3>2 DEF PathsExclusive, Named
      <4>2. k \in Threads => tree[k] \in {call[w].id, None}
        BY <3>1 DEF ThreadsKnown
      <4>3. call[w].pc = "resumed" => call[w].id \in resumed
        BY <1>t, <3>1 DEF ThreadsKnown
      <4>4. call[w].pc = "started" /\ call[w].id \notin resumed => tree[k] # call[w].id
        BY <3>1 DEF StartedOnce
      <4> QED
        BY <3>1, <3>2, <4>1, <4>2, <4>3, <4>4 DEF Keys
    <3>4. leaked' > 0 => resumed' # {}
      BY <3>2, <3>3 DEF StartedOnce
    <3>5. \A v \in Workers : call'[v].pc = "started" =>
            v # w /\ call[v].pc = "started" /\ call'[v].id = call[v].id
      BY <3>1 DEF Idle
    <3>6. call'[w].id = None
      BY <3>1 DEF Idle
    <3>7. ASSUME NEW v \in Workers, call'[v].pc = "started", call'[v].id \notin resumed'
          PROVE  /\ \A j \in Keys : tree'[j] # call'[v].id
                 /\ \A u \in Workers : call'[u].id = call'[v].id => u = v
      <4>1. /\ v # w /\ call[v].pc = "started" /\ call[v].id \notin resumed
            /\ call'[v].id = call[v].id
        BY <3>2, <3>5, <3>7
      <4>2. /\ \A j \in Keys : tree[j] # call[v].id
            /\ \A u \in Workers : call[u].id = call[v].id => u = v
        BY <4>1 DEF StartedOnce
      <4>3. call[v].id # None
        BY <4>1 DEF IInv, CallsKnow
      <4>4. call[w].id # call[v].id
        BY <4>1, <4>2
      <4>5. \A j \in Keys : tree'[j] # call'[v].id
        BY <3>1, <4>1, <4>2, <4>4
      <4>6. \A u \in Workers : call'[u].id = call'[v].id => u = v
        BY <3>1, <3>6, <4>1, <4>2, <4>3
      <4> QED
        BY <4>5, <4>6
    <3> QED
      BY <3>4, <3>7 DEF StartedOnce
  <2>3. CASE ~Commit(w)
    <3>1. /\ \A k \in Keys \ {Root} : tree'[k] = tree[k]
          /\ \A v \in Workers \ {w} : call'[v] = call[v]
      BY <1>1, <2>3, OnlyCommitRegisters
    <3>2. \A k \in Keys : tree'[k] \in born \cup {None, Root}
      <4>1. tree'[Root] \in {tree[Root], Root}
        BY <1>1, <2>3, OnlyCommitRegisters
      <4>2. tree[Root] \in {None, Root}
        BY DEF ThreadsKnown
      <4> QED
        BY <3>1, <4>1, <4>2 DEF ThreadsKnown, Keys
    <3>4. tree'[Root] \in {tree[Root], Root}
      BY <1>1, <2>3, OnlyCommitRegisters
    <3>3. ASSUME NEW v \in Workers, call'[v].pc = "started", call'[v].id \notin resumed'
          PROVE  /\ \A j \in Keys : tree'[j] # call'[v].id
                 /\ \A u \in Workers : call'[u].id = call'[v].id => u = v
      <4>1. CASE call[v].pc = "started" /\ v # w
        <5>1. call'[v].id = call[v].id /\ call[v].id \notin resumed
          BY <2>1, <3>1, <3>3, <4>1
        <5>2. call'[w].id # call[v].id
          <6>2. call[v].id \in born /\ call[v].id # None
            BY <4>1 DEF ThreadsKnown, IInv, CallsKnow
          <6> QED
            BY <2>1, <2>3, <3>3, <5>1, <6>2
        <5>3. call[v].id \in Threads
          BY <4>1, <1>t DEF ThreadsKnown, IInv, CallsKnow
        <5>4. \A j \in Keys : tree'[j] # call[v].id
          BY <3>1, <3>4, <4>1, <5>1, <5>3, <1>t DEF StartedOnce
        <5>5. \A u \in Workers : call'[u].id = call[v].id => u = v
          BY <3>1, <4>1, <5>1, <5>2 DEF StartedOnce
        <5> QED
          BY <5>1, <5>4, <5>5
      <4>2. CASE v = w
        <5>2. call'[w].id \in born' \ born
          BY <2>1, <2>3, <3>3, <4>2
        <5>3. \A u \in Workers \ {w} : call'[u].id \in born \cup {None}
          BY <3>1 DEF ThreadsKnown
        <5>4. call'[w].id \in Threads
          BY <5>2, <2>k
        <5> QED
          BY <3>2, <4>2, <5>2, <5>3, <5>4, <1>t
      <4> QED
        BY <3>1, <3>3, <4>1, <4>2
    <3> QED
      BY <2>1, <2>3, <3>3 DEF StartedOnce
  <2> QED
    BY <2>2, <2>3
<1>2. ASSUME NEW c \in Closers, CloserStep(c) PROVE StartedOnce'
  <2>1. call' = call /\ resumed' = resumed /\ leaked' = leaked
    BY <1>2, CloserMoves DEF history
  <2>2. \A k \in Keys : tree'[k] \in {tree[k], None}
    <3>1. CASE ReleaseThread(c)
      BY <3>1, <1>t DEF ReleaseThread
    <3> QED
      BY <1>2, <3>1, CloserMoves
  <2>3. \A w \in Workers : call[w].pc = "started" => call[w].id # None
    BY DEF IInv, CallsKnow
  <2> QED
    BY <2>1, <2>2, <2>3 DEF StartedOnce
<1>3. CASE UNCHANGED vars
  BY <1>3 DEF vars, registry, history, StartedOnce
<1> QED
  BY <1>1, <1>2, <1>3 DEF Next

(* No step leaves a thread spawned in this session running uncounted.       *)
LEMMA LiveStep == LiveInv /\ [Next]_vars => LiveIsCounted'
<1> SUFFICES ASSUME LiveInv, [Next]_vars PROVE LiveIsCounted'
  OBVIOUS
<1> USE DEF LiveInv
<1>t. /\ tree \in [Keys -> Threads \cup {None, Root}] /\ keys \subseteq Keys
      /\ call \in [Workers -> Calls] /\ Counted \subseteq Keys \ {Root}
  BY DEF IInv, TypeOK, Counted
<1> DEFINE Covered(t) == \/ \E k \in Counted : tree[k] = t
                         \/ \E w \in Workers : call[w].pc = "started" /\ call[w].id = t
<1>c. \A t \in live \ ({Root} \cup resumed) : Covered(t)
  BY DEF LiveIsCounted
<1>g. ASSUME \A t \in live' \ ({Root} \cup resumed') : Covered(t)' PROVE LiveIsCounted'
  BY <1>g DEF LiveIsCounted
<1>1. ASSUME NEW w \in Workers, WorkerStep(w) PROVE LiveIsCounted'
  <2>1. CASE Commit(w)
    <3> DEFINE k == KeyOf(call[w].path, call[w].id)
    <3>1. /\ k \in Keys \ {Root} /\ Counted' = Counted \cup {k} /\ tree'[k] = call[w].id
          /\ \A j \in Keys \ {k} : tree'[j] = tree[j]
          /\ k \in Threads => k = call[w].id
          /\ k \in Paths => k = call[w].path /\ call[w].path # None
          /\ \A v \in Workers \ {w} : call'[v] = call[v]
      BY <2>1, CommitRegisters
    <3> HIDE DEF k
    <3>2. live' = live /\ resumed' = resumed /\ call[w].pc \in {"started", "resumed"}
      BY <2>1 DEF Commit, threads
    <3>3. k \in Counted => tree[k] = call[w].id
      BY <3>1, <3>2 DEF PathsExclusive, Named, ThreadsKnown, Keys, Counted
    <3>4. ASSUME NEW t \in live \ ({Root} \cup resumed) PROVE Covered(t)'
      <4>1. CASE \E j \in Counted : tree[j] = t
        BY <4>1, <3>1, <3>3, <1>t
      <4>2. CASE \E v \in Workers : call[v].pc = "started" /\ call[v].id = t
        BY <4>2, <3>1
      <4> QED
        BY <4>1, <4>2, <1>c
    <3> QED
      BY <3>2, <3>4, <1>g
  <2>2. CASE ~Commit(w)
    <3>1. /\ Counted' = Counted /\ \A k \in Keys \ {Root} : tree'[k] = tree[k]
          /\ \A v \in Workers \ {w} : call'[v] = call[v]
      BY <1>1, <2>2, OnlyCommitRegisters
    <3>2. call[w].pc # "started" /\ resumed \subseteq resumed'
      BY <1>1, <2>2, IdMoves
    <3>3. \A t \in live \ ({Root} \cup resumed') : Covered(t)'
      BY <3>1, <3>2, <1>c, <1>t
    <3>4. \A t \in live' \ live : t \notin resumed' => Covered(t)'
      <4>1. CASE StartThread(w)
        <5>1. PICK t \in Threads :
                /\ \/ /\ call[w].pc = "named" /\ call[w].id = None
                      /\ call' = [call EXCEPT ![w].pc = "started", ![w].id = t]
                   \/ call[w].pc = "starting" /\ t = call[w].id
                /\ live' = live \cup {t}
          BY <4>1 DEF StartThread
        <5>2. call[w].pc = "starting" => call[w].id \in resumed
          BY DEF ThreadsKnown, IInv, CallsKnow
        <5>3. call' = [call EXCEPT ![w].pc = "started", ![w].id = t] =>
                call'[w].pc = "started" /\ call'[w].id = t
          BY <1>t DEF Calls
        <5> QED
          BY <3>2, <5>1, <5>2, <5>3
      <4>2. CASE ~StartThread(w)
        <5>1. live' \subseteq live
          BY <1>1, <2>2, <4>2 DEF WorkerStep, BeginCall, ReserveSlot, PathTaken, Prepare, ResumeChecks,
             GiveUp, ReturnSlot, threads
        <5> QED
          BY <5>1
      <4> QED
        BY <4>1, <4>2
    <3> QED
      BY <3>3, <3>4, <1>g
  <2> QED
    BY <2>1, <2>2
<1>2. ASSUME NEW c \in Closers, CloserStep(c) PROVE LiveIsCounted'
  <2>1. call' = call /\ resumed' = resumed
    BY <1>2, CloserMoves DEF history
  <2>2. live' \subseteq live
    BY <1>2 DEF CloserStep, ShutdownThread, AbandonClose, RemoveThread, ReleaseThread, ReleaseSlot,
       threads
  <2>3. CASE ~ReleaseThread(c)
    <3>1. tree' = tree /\ Counted' = Counted
      BY <1>2, <2>3, CloserMoves DEF Counted
    <3> QED
      BY <2>1, <2>2, <3>1, <1>c, <1>g
  <2>4. CASE ReleaseThread(c)
    <3>1. closing[c].id \notin live \ ({Root} \cup resumed)
      BY <2>4 DEF ReleaseThread, ThreadsKnown
    <3>2. \A k \in Counted : tree[k] # closing[c].id => k \in Counted' /\ tree'[k] = tree[k]
      BY <2>4, <1>t DEF ReleaseThread, Counted
    <3> QED
      BY <2>1, <2>2, <3>1, <3>2, <1>c, <1>g
  <2> QED
    BY <2>3, <2>4
<1>3. CASE UNCHANGED vars
  BY <1>3 DEF vars, registry, threads, history, LiveIsCounted, Counted
<1> QED
  BY <1>1, <1>2, <1>3 DEF Next

(* LiveInv is inductive.                                                    *)
LEMMA LiveInvHolds == Spec => []LiveInv
<1>1. Init => LiveInv
  <2>1. Init => PathsExclusive /\ ThreadsKnown /\ StartedOnce
    BY RegistryAssumption DEF Init, PathsExclusive, Named, ThreadsKnown, StartedOnce, Idle, Keys
  <2>2. Init => LiveIsCounted
    BY DEF Init, LiveIsCounted
  <2> QED
    BY <2>1, <2>2, RegistryInit DEF LiveInv
<1>2. LiveInv /\ [Next]_vars => LiveInv'
  BY RegistryStep, PathStep, ThreadsStep, StartedStep, LiveStep DEF LiveInv
<1> QED
  BY <1>1, <1>2, PTL DEF Spec

(* Every slot of total_count has one owner that will return it: a           *)
(* reservation, a registered agent or a close; a slot without one was lost  *)
(* by a commit over the entry of an agent that two calls resumed.           *)
THEOREM SlotsAreAccounted == Spec => []SlotsAccounted
<1>1. LiveInv => SlotsAccounted
  BY DEF LiveInv, IInv, Accounts, StartedOnce, SlotsAccounted
<1> QED
  BY <1>1, LiveInvHolds, PTL

(* A thread no one has begun to resume runs only while an entry of the tree *)
(* or the call that started it holds a slot for it, so that                 *)
(* agent_max_threads limits the agents that run, whatever calls overlap.    *)
THEOREM LiveThreadsAreCounted == Spec => []LiveIsCounted
<1>1. LiveInv => LiveIsCounted
  BY DEF LiveInv
<1> QED
  BY <1>1, LiveInvHolds, PTL

(* A nickname that reserve_agent_nickname picks for a spawn is given out by  *)
(* no earlier pick, and what was given out stays so.                        *)
LEMMA PickIsNew ==
  ASSUME IInv, NEW n \in Nicknames, NEW hadOne \in BOOLEAN, PickNickname(n, hadOne)
  PROVE  /\ \A m : GivenOut(m) => GivenOut(m)'
         /\ ~hadOne => GivenOut(n)' /\ \A m : GivenOut(m) => m # n
<1>1. /\ resets \in Nat /\ MaxResets \in Nat /\ used \subseteq Nicknames
      /\ \A m \in Nicknames : m[2] \in Nat
  BY RegistryAssumption DEF IInv, TypeOK, Nicknames
<1>2. CASE hadOne /\ used' = used \cup {n} /\ resets' = resets
  BY <1>1, <1>2 DEF GivenOut
<1>3. CASE n \notin used /\ n[2] = resets /\ used' = used \cup {n} /\ resets' = resets
  BY <1>1, <1>3 DEF GivenOut
<1>4. CASE resets' = resets + 1 /\ n[2] = resets + 1 /\ used' = {n}
  BY <1>1, <1>4 DEF GivenOut
<1> QED
  BY <1>2, <1>3, <1>4 DEF PickNickname

(* The nicknames of this session's agents stay apart.                       *)
LEMMA NameStep == NameInv /\ [Next]_vars => NicknamesApart'
<1> SUFFICES ASSUME NameInv, [Next]_vars PROVE NicknamesApart'
  OBVIOUS
<1> USE DEF NameInv
<1>t. /\ tree \in [Keys -> Threads \cup {None, Root}] /\ keys \subseteq Keys
      /\ call \in [Workers -> Calls] /\ nicks \in [Keys -> Nicknames \cup {None}]
      /\ Own \subseteq Counted /\ Counted \subseteq Keys \ {Root}
  BY DEF IInv, TypeOK, Own, Counted
(* Steps that add no name and take none back from the pool.                 *)
<1>s. ASSUME Own' \subseteq Own, \A k \in Own' : nicks'[k] = nicks[k],
             Spawning' \subseteq Spawning, \A v \in Spawning' : call'[v].nick = call[v].nick,
             \A m : GivenOut(m) => GivenOut(m)'
      PROVE  NicknamesApart'
  BY <1>s DEF NicknamesApart
<1>1. ASSUME NEW w \in Workers, WorkerStep(w) PROVE NicknamesApart'
  <2>1. CASE Commit(w)
    <3> DEFINE k == KeyOf(call[w].path, call[w].id)
    <3>1. /\ k \in Keys \ {Root} /\ Counted' = Counted \cup {k} /\ tree'[k] = call[w].id
          /\ nicks'[k] = call[w].nick
          /\ \A j \in Keys \ {k} : tree'[j] = tree[j] /\ nicks'[j] = nicks[j]
          /\ call'[w] = Idle /\ \A v \in Workers \ {w} : call'[v] = call[v]
      BY <2>1, CommitRegisters
    <3> HIDE DEF k
    <3>2. /\ Named(w) /\ used' = used \cup {call[w].nick} /\ resets' = resets
          /\ resumed' = resumed
      BY <2>1 DEF Commit, Named
    <3>3. \A m : GivenOut(m) => GivenOut(m)'
      BY <3>2 DEF GivenOut
    <3>4. \A j \in Own' : j # k => j \in Own /\ nicks'[j] = nicks[j]
      BY <3>1, <3>2, <1>t DEF Own
    <3>5. k \in Own' => w \in Spawning /\ nicks'[k] = call[w].nick
      BY <3>1, <3>2 DEF Own, Spawning
    <3>6. \A v \in Spawning' : v \in Spawning /\ v # w /\ call'[v].nick = call[v].nick
      BY <3>1, <3>2 DEF Spawning, Named, Idle
    <3> QED
      BY <3>3, <3>4, <3>5, <3>6 DEF NicknamesApart
  <2>2. CASE ~Commit(w)
    <3>1. /\ Counted' = Counted /\ nicks' = nicks
          /\ \A k \in Keys \ {Root} : tree'[k] = tree[k]
          /\ \A v \in Workers \ {w} : call'[v] = call[v]
      BY <1>1, <2>2, OnlyCommitRegisters
    <3>0. resumed \subseteq resumed'
      BY <1>1, IdMoves
    <3>2. Own' \subseteq Own
      BY <3>0, <3>1, <1>t DEF Own
    <3>3. \A v \in Workers \ {w} : v \in Spawning' => v \in Spawning
      BY <3>0, <3>1 DEF Spawning, Named
    <3>4. CASE Prepare(w)
      <4>1. PICK n \in Nicknames :
              /\ PickNickname(n, call[w].id # None)
              /\ call' = [call EXCEPT ![w].pc = "named", ![w].nick = n]
        BY <3>4 DEF Prepare
      <4>2. call[w].pc = "reserved" /\ call'[w].nick = n /\ call'[w].id = call[w].id
        BY <3>4, <4>1, <1>t DEF Prepare, Calls
      <4>3. w \notin Spawning /\ (w \in Spawning' => call[w].id = None)
        BY <3>0, <4>2 DEF Spawning, Named, ThreadsKnown
      <4>4. /\ \A m : GivenOut(m) => GivenOut(m)'
            /\ call[w].id = None => GivenOut(n)' /\ \A m : GivenOut(m) => m # n
        BY <4>1, PickIsNew
      <4>5. Spawning' \subseteq Workers /\ Spawning \subseteq Workers
        BY DEF Spawning
      <4> QED
        BY <3>1, <3>2, <3>3, <4>2, <4>3, <4>4, <4>5 DEF NicknamesApart
    <3>5. CASE ResumeChecks(w) \/ StartThread(w)
      <4>1. /\ Named(w) /\ call'[w].nick = call[w].nick /\ call[w].pc \in {"named", "starting"}
            /\ used' = used /\ resets' = resets /\ resumed' = resumed
        BY <3>5, StartMoves DEF registry, history
      <4>2. w \in Spawning' => w \in Spawning
        <5>1. CASE call[w].id \in resumed
          <6>1. call'[w].id = call[w].id
            BY <3>5, <5>1, <1>t, RegistryAssumption DEF ResumeChecks, StartThread, Calls, IInv, TypeOK
          <6> QED
            BY <4>1, <5>1, <6>1 DEF Spawning
        <5>2. CASE call[w].id \notin resumed
          BY <4>1, <5>2 DEF Spawning
        <5> QED
          BY <5>1, <5>2
      <4>3. Spawning' \subseteq Workers
        BY DEF Spawning
      <4> QED
        BY <3>1, <3>2, <3>3, <4>1, <4>2, <4>3, <1>s DEF GivenOut
    <3>6. CASE ~Prepare(w) /\ ~ResumeChecks(w) /\ ~StartThread(w)
      <4>1. UNCHANGED <<used, resets>>
        BY <1>1, <2>2, <3>6 DEF WorkerStep, BeginCall, ReserveSlot, Unregistered, registry, PathTaken,
           GiveUp, ReturnSlot
      <4>2. w \notin Spawning'
        <5>1. CASE \E id \in Threads \cup {None}, path \in Paths \cup {None} : BeginCall(w, id, path)
          BY <5>1, <1>t DEF BeginCall, Idle, Spawning, Named
        <5>2. CASE ReserveSlot(w)
          BY <5>2, <1>t DEF ReserveSlot, Idle, Spawning, Named, Calls
        <5>3. CASE PathTaken(w) \/ GiveUp(w) \/ ReturnSlot(w)
          BY <5>3, <1>t DEF PathTaken, GiveUp, Drop, ReturnSlot, Idle, Spawning, Named
        <5> QED
          BY <1>1, <2>2, <3>6, <5>1, <5>2, <5>3 DEF WorkerStep
      <4>3. Spawning' \subseteq Workers
        BY DEF Spawning
      <4> QED
        BY <3>1, <3>2, <3>3, <4>1, <4>2, <4>3, <1>s DEF GivenOut
    <3> QED
      BY <3>4, <3>5, <3>6
  <2> QED
    BY <2>1, <2>2
<1>2. ASSUME NEW c \in Closers, CloserStep(c) PROVE NicknamesApart'
  <2>1. call' = call /\ UNCHANGED <<used, resets, resumed>>
    BY <1>2, CloserMoves DEF history
  <2>2. Own' \subseteq Own /\ \A k \in Own' : nicks'[k] = nicks[k]
    <3>1. CASE ReleaseThread(c)
      BY <2>1, <3>1, <1>t DEF ReleaseThread, Own, Counted
    <3>2. CASE ~ReleaseThread(c)
      BY <1>2, <2>1, <3>2, CloserMoves DEF Own, Counted
    <3> QED
      BY <3>1, <3>2
  <2> QED
    BY <2>1, <2>2, <1>s DEF Spawning, Named, GivenOut
<1>3. CASE UNCHANGED vars
  BY <1>3, <1>s DEF vars, registry, history, Own, Counted, Spawning, Named, GivenOut
<1> QED
  BY <1>1, <1>2, <1>3 DEF Next

(* Registered agents that were spawned in this session have different       *)
(* nicknames, across pool resets and whatever spawns overlap.               *)
THEOREM NicknamesAreUnique == Spec => []NicknamesUnique
<1>1. Init => NameInv
  <2>1. Init => ThreadsKnown
    BY RegistryAssumption DEF Init, ThreadsKnown, Idle, Keys
  <2>2. Init => Own = {} /\ Spawning = {}
    BY DEF Init, Own, Counted, Spawning, Named, Idle
  <2> QED
    BY <2>1, <2>2, RegistryInit DEF NameInv, NicknamesApart
<1>2. NameInv /\ [Next]_vars => NameInv'
  BY RegistryStep, ThreadsStep, NameStep DEF NameInv
<1>3. NameInv => NicknamesUnique
  BY DEF NameInv, NicknamesApart, NicknamesUnique, Own
<1> QED
  BY <1>1, <1>2, <1>3, PTL DEF Spec
=============================================================================
