-------------------------- MODULE UnifiedExecProofs --------------------------
(***************************************************************************)
(* Proofs about UnifiedExec, for every finite set of calls and ids and     *)
(* every limit of the store.                                               *)
(***************************************************************************)
EXTENDS UnifiedExec, FiniteSetTheorems, TLAPS

\* What the limits and the names are.
LEMMA Constants ==
  /\ MaxStored \in Nat /\ Protected \in Nat /\ Protected < MaxStored
  /\ NoCall \notin Calls /\ NoId \notin Ids /\ IsFiniteSet(Calls) /\ IsFiniteSet(Ids)
BY UnifiedExecAssumption

\* The entries are calls, finitely many.
LEMMA StoredAreCalls ==
  ASSUME ShelfTypes
  PROVE  /\ Stored \subseteq Calls /\ IsFiniteSet(Stored) /\ Cardinality(Stored) \in Nat
         /\ Entries \subseteq Calls /\ Stored \subseteq Entries
         /\ \A i \in Ids : store[i] # NoCall => store[i] \in Stored
         /\ \A c \in Stored : \E i \in Ids : store[i] = c
         /\ NoCall \notin Stored
<1>1. Stored \subseteq Calls /\ Entries \subseteq Calls /\ Stored \subseteq Entries /\ NoCall \notin Stored
  BY DEF Stored, Entries, ShelfTypes
<1>2. \A i \in Ids : store[i] # NoCall => store[i] \in Stored
  BY DEF Stored
<1>3. \A c \in Stored : \E i \in Ids : store[i] = c
  BY DEF Stored
<1> QED
  BY <1>1, <1>2, <1>3, Constants, FS_Subset, FS_CardinalityType

\* Among entries there is a least recently used one.
LEMMA OldestExists ==
  ASSUME ShelfTypes, UseInv, NEW pool \in SUBSET Entries, pool # {}
  PROVE  \E c \in pool : pool \ {c} \subseteq newer[c]
<1> DEFINE Rest(c) == Entries \ newer[c]
           R == StrictSubsetOrdering(Calls)
           T == {Rest(c) : c \in pool}
<1>1. FiniteSubsetsOf(Calls) = SUBSET Calls
  BY Constants, FS_FiniteSubsetsOfFinite
<1>2. IsWellFoundedOn(R, SUBSET Calls)
  BY <1>1, FS_StrictSubsetOrderingWellFounded
<1>3. T \subseteq SUBSET Calls /\ T # {}
  BY StoredAreCalls
<1>4. \E s \in T : \A t \in T : ~ (<<t, s>> \in R)
  <2> HIDE DEF T, R
  <2> QED
    BY <1>2, <1>3, WFMin
<1>5. PICK c \in pool : \A x \in pool : ~ (<<Rest(x), Rest(c)>> \in R)
  BY <1>4
<1>6. ASSUME NEW x \in pool \ {c}, x \notin newer[c]
      PROVE  FALSE
  <2>1. c \in newer[x]
    BY <1>6 DEF UseInv
  <2>2. newer[c] \cap Entries \subseteq newer[x]
    BY <2>1 DEF UseInv
  <2>3. c \in Rest(c) /\ c \notin Rest(x) /\ Rest(x) \subseteq Rest(c)
    BY <2>1, <2>2 DEF UseInv
  <2>4. Rest(x) \in SUBSET Calls /\ Rest(c) \in SUBSET Calls
    BY StoredAreCalls
  <2>5. <<Rest(x), Rest(c)>> \in R
    BY <2>3, <2>4 DEF StrictSubsetOrdering
  <2> QED
    BY <1>5, <2>5
<1> QED
  BY <1>6

\* A full store has an entry to prune: MaxStored exceeds the protected ones.
LEMMA PrunedIsStored ==
  ASSUME ShelfTypes, UseInv
  PROVE  /\ Full => Pruned \in Stored
         /\ ~ Full => Pruned = NoCall
<1>1. ASSUME Full
      PROVE  Candidates # {}
  <2>1. Stored # {}
    BY <1>1, Constants, FS_EmptySet DEF Full
  <2>2. PICK c \in Stored : Stored \ {c} \subseteq newer[c]
    BY <2>1, StoredAreCalls, OldestExists
  <2>3. /\ IsFiniteSet(Stored \ {c}) /\ Cardinality(Stored \ {c}) = Cardinality(Stored) - 1
    BY StoredAreCalls, FS_RemoveElement
  <2>4. IsFiniteSet(newer[c] \cap Stored) /\ Cardinality(newer[c] \cap Stored) \in Nat
    BY StoredAreCalls, FS_Subset, FS_CardinalityType
  <2>5. Cardinality(Stored \ {c}) <= Cardinality(newer[c] \cap Stored)
    <3>1. Stored \ {c} \in SUBSET (newer[c] \cap Stored)
      BY <2>2
    <3> QED
      BY <3>1, <2>4, FS_Subset
  <2>6. Cardinality(newer[c] \cap Stored) >= Protected
    BY <1>1, <2>3, <2>4, <2>5, StoredAreCalls, Constants DEF Full
  <2> QED
    BY <2>6 DEF Candidates
<1>2. ASSUME Full
      PROVE  Pruned \in Stored
  <2> DEFINE gone == Candidates \cap exited
             pool == IF gone # {} THEN gone ELSE Candidates
  <2>1. pool # {} /\ pool \subseteq Stored
    BY <1>1, <1>2 DEF Candidates
  <2>2. \E c \in pool : pool \ {c} \subseteq newer[c]
    BY <2>1, StoredAreCalls, OldestExists
  <2>3. Pruned = CHOOSE c \in pool : pool \ {c} \subseteq newer[c]
    BY <1>2 DEF Pruned, ToPrune
  <2>4. Pruned \in pool
    BY <2>2, <2>3
  <2> QED
    BY <2>1, <2>4
<1>3. ~ Full => Pruned = NoCall
  BY DEF Pruned
<1> QED
  BY <1>2, <1>3

\* What write_stdin holds once it has taken an exited entry.
LEMMA EntryTaken ==
  ASSUME WriterTypes, WriteRefresh, store[writer.id] \in exited
  PROVE  /\ writer # NoWriter /\ writer.id \in Ids
         /\ writer' = [pc |-> "late", id |-> writer.id, call |-> store[writer.id]]
<1>1. writer # NoWriter
  BY DEF WriteRefresh, NoWriter
<1>2. writer \in [pc : {"collect", "gone", "refresh", "late", "release"}, id : Ids, call : Calls]
  BY <1>1 DEF WriterTypes
<1>3. writer' = [writer EXCEPT !.pc = "late", !.call = store[writer.id]]
  BY DEF WriteRefresh
<1> QED
  BY <1>1, <1>2, <1>3

\* An entry that is used becomes the most recent one.
LEMMA UseKeepsOrder ==
  ASSUME UseInv, ShelfTypes, ShelfTypes', NEW c \in Calls, Use(c), Entries' \subseteq Entries \cup {c}
  PROVE  UseInv'
<1>1. \A x \in Entries' : newer'[x] = IF x = c THEN {} ELSE newer[x] \cup {c}
  BY StoredAreCalls DEF Use
<1>2. \A x \in Entries' \ {c} : x \in Entries
  OBVIOUS
<1>3. ASSUME NEW x \in Entries'
      PROVE  /\ x \notin newer'[x]
             /\ \A y \in Entries' \ {x} : x \in newer'[y] \/ y \in newer'[x]
  <2>1. CASE x = c
    BY <1>1, <2>1
  <2>2. CASE x # c
    <3>1. x \in Entries /\ newer'[x] = newer[x] \cup {c} /\ x \notin newer[x]
      BY <1>1, <1>2, <2>2 DEF UseInv
    <3>2. ASSUME NEW y \in Entries' \ {x}, y # c
          PROVE  x \in newer'[y] \/ y \in newer'[x]
      <4>1. y \in Entries /\ newer'[y] = newer[y] \cup {c}
        BY <1>1, <1>2, <3>2
      <4>2. x \in newer[y] \/ y \in newer[x]
        BY <3>1, <4>1, <3>2 DEF UseInv
      <4> QED
        BY <3>1, <4>1, <4>2
    <3> QED
      BY <2>2, <3>1, <3>2
  <2> QED
    BY <2>1, <2>2
<1>4. ASSUME NEW x \in Entries', NEW y \in Entries', y \in newer'[x]
      PROVE  newer'[y] \cap Entries' \subseteq newer'[x]
  <2>1. x # c
    BY <1>1, <1>4
  <2>2. CASE y = c
    BY <1>1, <2>2
  <2>3. CASE y # c
    <3>1. x \in Entries /\ y \in Entries /\ newer'[x] = newer[x] \cup {c}
          /\ newer'[y] = newer[y] \cup {c}
      BY <1>1, <1>2, <2>1, <2>3
    <3>2. newer[y] \cap Entries \subseteq newer[x]
      BY <1>4, <2>3, <3>1 DEF UseInv
    <3> QED
      BY <1>2, <3>1, <3>2
  <2> QED
    BY <2>2, <2>3
<1> QED
  BY <1>3, <1>4 DEF UseInv

\* The order of the others survives when entries leave.
LEMMA DropKeepsOrder ==
  ASSUME UseInv, ShelfTypes, NEW S, Drop(S), Entries' \subseteq Entries \ S
  PROVE  UseInv'
<1>1. \A x \in Entries' : newer'[x] = newer[x] \ S /\ x \in Entries \ S
  BY StoredAreCalls DEF Drop
<1> QED
  BY <1>1 DEF UseInv

\* It survives as well when no last_used changes.
LEMMA SameKeepsOrder ==
  ASSUME UseInv, newer' = newer, Entries' \subseteq Entries
  PROVE  UseInv'
BY DEF UseInv

\* An id that is removed takes its entry out of the entries.
LEMMA RemovedEntry ==
  ASSUME CallTypes, ShelfTypes, EntryInv, NEW i \in Ids, RemoveEntry(i),
         \A c \in Calls : pc'[c] = "store" => pc[c] = "store"
  PROVE  Entries' \subseteq Entries \ {store[i]}
<1>1. ASSUME NEW x \in Stored'
      PROVE  x \in Stored /\ x # store[i]
  <2>1. PICK j \in Ids : store'[j] = x /\ x # NoCall
    BY <1>1 DEF Stored
  <2>2. j # i /\ store[j] = x
    BY <2>1 DEF RemoveEntry, ShelfTypes
  <2> QED
    BY <2>1, <2>2 DEF EntryInv, Stored
<1>2. ASSUME NEW x \in Calls, pc'[x] = "store"
      PROVE  x \in Entries /\ x # store[i]
  BY <1>2, Constants DEF Entries, EntryInv
<1> QED
  BY <1>1, <1>2 DEF Entries

\* The other entries stay.
LEMMA OthersStay ==
  ASSUME ShelfTypes, NEW i \in Ids, RemoveEntry(i)
  PROVE  \A x \in Stored : x = store[i] \/ x \in Stored'
BY DEF RemoveEntry, ShelfTypes, Stored

\* write_stdin is idle or holds an entry.
LEMMA WriterFields ==
  ASSUME WriterTypes
  PROVE  /\ writer = NoWriter => writer.pc = "idle" /\ writer.call = NoCall
         /\ writer # NoWriter => writer.pc \in {"collect", "gone", "refresh", "late", "release"}
                                 /\ writer.id \in Ids /\ writer.call \in Calls
BY DEF WriterTypes, NoWriter

\* Moving on, write_stdin keeps what it holds.
LEMMA WriterMoves ==
  ASSUME WriterTypes, writer # NoWriter, NEW label, writer' = [writer EXCEPT !.pc = label]
  PROVE  writer'.pc = label /\ writer'.id = writer.id /\ writer'.call = writer.call
BY DEF WriterTypes

\* The calls stay typed.
LEMMA CallTypesStep ==
  ASSUME IInv, [Next]_vars
  PROVE  CallTypes'
<1>h. CallTypes /\ ShelfTypes /\ ProcessTypes /\ UseInv
  BY DEF IInv, Types
<1>u. UNCHANGED <<pc, id, early, taken>> => CallTypes'
  BY <1>h DEF CallTypes, Labels, Over
<1>1. ASSUME NEW c \in Calls, CallStep(c)
      PROVE  CallTypes'
  <2>1. CASE Reject(c)
    BY <2>1, <1>h DEF Reject, Goto, CallTypes, Labels, Over
  <2>2. CASE Register(c)
    BY <2>2, <1>h DEF Register, Goto, CallTypes, Labels, Over
  <2>3. CASE OpenFails(c)
    BY <2>3, <1>h DEF OpenFails, Goto, CallTypes, Labels, Over
  <2>4. CASE Open(c)
    BY <2>4, <1>h DEF Open, Goto, CallTypes, Labels, Over
  <2>5. CASE Begin(c)
    BY <2>5, <1>h DEF Begin, NextAfterBegin, Goto, CallTypes, Labels, Over
  <2>6. CASE StoreProcess(c)
    BY <2>6, <1>h, PrunedIsStored, StoredAreCalls DEF StoreProcess, Goto, CallTypes, Labels,
        Over
  <2>7. CASE Evict(c)
    BY <2>7, <1>h DEF Evict, Goto, CallTypes, Labels, Over
  <2>8. CASE SettleFailed(c)
    BY <2>8, <1>h DEF SettleFailed, Goto, CallTypes, Labels, Over
  <2>9. CASE Settle(c)
    BY <2>9, <1>h DEF Settle, Goto, CallTypes, Labels, Over
  <2>10. CASE Refresh(c)
    BY <2>10, <1>h DEF Refresh, Goto, CallTypes, Labels, Over, ProcessTypes
  <2>11. CASE FinishLate(c)
    BY <2>11, <1>h DEF FinishLate, Goto, CallTypes, Labels, Over
  <2>12. CASE Release(c)
    BY <2>12, <1>h DEF Release, Goto, CallTypes, Labels, Over
  <2> QED
    BY <1>1, <2>1, <2>2, <2>3, <2>4, <2>5, <2>6, <2>7, <2>8, <2>9, <2>10, <2>11, <2>12 DEF
        CallStep
<1>2. ASSUME NEW c \in Calls, TaskStep(c) \/ TerminateNext(c) \/ Abort(c) \/ Exits(c)
               \/ Blame(c) \/ RecordDenial(c)
      PROVE  CallTypes'
  <2>1. CASE Abort(c)
    BY <2>1, <1>h DEF Abort, Goto, CallTypes, Labels, Over
  <2>2. CASE ExitSeen(c) \/ StreamEnds(c) \/ WatcherEnds(c) \/ GuardKills(c)
               \/ GuardGivesUp(c) \/ TerminateNext(c) \/ Exits(c) \/ Blame(c)
               \/ RecordDenial(c)
    BY <2>2, <1>u DEF ExitSeen, StreamEnds, WatcherEnds, GuardKills, GuardGivesUp,
        TerminateNext, Exits, Blame, RecordDenial, calls
  <2> QED
    BY <1>2, <2>1, <2>2 DEF TaskStep
<1>3. ASSUME WriteStep \/ WriteFails \/ WriteAbort \/ TerminateAll
      PROVE  CallTypes'
  BY <1>3, <1>u DEF WriteStep, WriteSettle, WriteRefresh, WriteFinishLate, WriteRelease,
      WriteFails, WriteAbort, TerminateAll, calls
<1>4. ASSUME NEW c \in Calls, NEW i \in Ids, Allocate(c, i)
      PROVE  CallTypes'
  BY <1>4, <1>h DEF Allocate, Goto, CallTypes, Labels, Over
<1>5. ASSUME NEW i \in Ids, WritePrepare(i)
      PROVE  CallTypes'
  BY <1>5, <1>u DEF WritePrepare, calls
<1>6. CASE UNCHANGED vars
  BY <1>6, <1>u DEF vars, calls
<1> QED
  BY <1>1, <1>2, <1>3, <1>4, <1>5, <1>6 DEF Next, Work

\* So does the store.
LEMMA ShelfTypesStep ==
  ASSUME IInv, [Next]_vars
  PROVE  ShelfTypes'
<1>h. CallTypes /\ ShelfTypes
  BY DEF IInv, Types
<1>u. UNCHANGED <<store, reserved, newer>> => ShelfTypes'
  BY <1>h DEF ShelfTypes
<1>1. ASSUME NEW c \in Calls, CallStep(c)
      PROVE  ShelfTypes'
  <2>1. CASE Reject(c)
    BY <2>1, <1>h DEF Reject, RemoveEntry, Drop, shelf, ShelfTypes
  <2>2. CASE Begin(c)
    BY <2>2, <1>h DEF Begin, Use, ShelfTypes
  <2>3. CASE StoreProcess(c)
    BY <2>3, <1>h DEF StoreProcess, Drop, ShelfTypes
  <2>4. CASE Refresh(c)
    BY <2>4, <1>h DEF Refresh, RemoveEntry, Drop, shelf, ShelfTypes
  <2>5. CASE Release(c)
    BY <2>5, <1>h DEF Release, RemoveEntry, Drop, ShelfTypes
  <2>6. CASE Register(c) \/ OpenFails(c) \/ Open(c) \/ Evict(c) \/ SettleFailed(c)
               \/ Settle(c) \/ FinishLate(c)
    BY <2>6, <1>u DEF Register, OpenFails, Open, Evict, SettleFailed, Settle, FinishLate,
        shelf
  <2> QED
    BY <1>1, <2>1, <2>2, <2>3, <2>4, <2>5, <2>6 DEF CallStep
<1>2. ASSUME NEW c \in Calls, TaskStep(c) \/ TerminateNext(c) \/ Abort(c) \/ Exits(c)
               \/ Blame(c) \/ RecordDenial(c)
      PROVE  ShelfTypes'
  BY <1>2, <1>u DEF TaskStep, ExitSeen, StreamEnds, WatcherEnds, GuardKills, GuardGivesUp,
      TerminateNext, Abort, Exits, Blame, RecordDenial, shelf
<1>3. ASSUME WriteStep \/ WriteFails \/ WriteAbort \/ TerminateAll
      PROVE  ShelfTypes'
  <2>1. CASE WriteRefresh
    BY <2>1, <1>h DEF WriteRefresh, RemoveEntry, Drop, shelf, ShelfTypes
  <2>2. CASE WriteRelease
    BY <2>2, <1>h DEF WriteRelease, RemoveEntry, Drop, ShelfTypes
  <2>3. CASE WriteFails
    BY <2>3, <1>h DEF WriteFails, RemoveEntry, Drop, shelf, ShelfTypes
  <2>4. CASE TerminateAll
    BY <2>4, <1>h DEF TerminateAll, Drop, ShelfTypes
  <2>5. CASE WriteSettle \/ WriteFinishLate \/ WriteAbort
    BY <2>5, <1>u DEF WriteSettle, WriteFinishLate, WriteAbort, shelf
  <2> QED
    BY <1>3, <2>1, <2>2, <2>3, <2>4, <2>5 DEF WriteStep
<1>4. ASSUME NEW c \in Calls, NEW i \in Ids, Allocate(c, i)
      PROVE  ShelfTypes'
  BY <1>4, <1>h DEF Allocate, ShelfTypes
<1>5. ASSUME NEW i \in Ids, WritePrepare(i)
      PROVE  ShelfTypes'
  BY <1>5, <1>h DEF WritePrepare, Use, ShelfTypes
<1>6. CASE UNCHANGED vars
  BY <1>6, <1>u DEF vars, shelf
<1> QED
  BY <1>1, <1>2, <1>3, <1>4, <1>5, <1>6 DEF Next, Work

\* So do the processes.
LEMMA ProcessTypesStep ==
  ASSUME IInv, [Next]_vars
  PROVE  ProcessTypes'
<1>h. CallTypes /\ ShelfTypes /\ ProcessTypes /\ WriterTypes /\ PhaseInv
  BY DEF IInv, Types
<1>u. UNCHANGED <<doomed, running, exited, token, failed>> => ProcessTypes'
  BY <1>h DEF ProcessTypes
<1>1. ASSUME NEW c \in Calls, CallStep(c)
      PROVE  ProcessTypes'
  <2>1. CASE Open(c)
    BY <2>1, <1>h DEF Open, ProcessTypes
  <2>2. CASE StoreProcess(c)
    BY <2>2, <1>h DEF StoreProcess, Terminate, ProcessTypes
  <2>3. CASE Evict(c)
    BY <2>3, <1>h, StoredAreCalls DEF Evict, Terminate, ProcessTypes, PhaseInv, CallTypes
  <2>4. CASE FinishLate(c)
    BY <2>4, <1>h DEF FinishLate, FailAndTerminate, process, ProcessTypes, PhaseInv, Late
  <2>5. CASE Release(c)
    BY <2>5, <1>h DEF Release, FailAndTerminate, process, ProcessTypes
  <2>6. CASE Reject(c) \/ Register(c) \/ OpenFails(c) \/ Begin(c) \/ SettleFailed(c)
               \/ Settle(c) \/ Refresh(c)
    BY <2>6, <1>u DEF Reject, Register, OpenFails, Begin, SettleFailed, Settle, Refresh,
        process
  <2> QED
    BY <1>1, <2>1, <2>2, <2>3, <2>4, <2>5, <2>6 DEF CallStep
<1>2. ASSUME NEW c \in Calls, TaskStep(c) \/ TerminateNext(c) \/ Abort(c) \/ Exits(c)
               \/ Blame(c) \/ RecordDenial(c)
      PROVE  ProcessTypes'
  <2>1. CASE ExitSeen(c)
    BY <2>1, <1>h DEF ExitSeen, ProcessTypes
  <2>2. CASE GuardKills(c)
    BY <2>2, <1>h DEF GuardKills, FailAndTerminate, ProcessTypes
  <2>3. CASE TerminateNext(c)
    BY <2>3, <1>h DEF TerminateNext, Terminate, ProcessTypes
  <2>4. CASE Abort(c)
    BY <2>4, <1>h DEF Abort, Terminate, ProcessTypes
  <2>5. CASE Exits(c)
    BY <2>5, <1>h DEF Exits, ProcessTypes
  <2>6. CASE StreamEnds(c) \/ WatcherEnds(c) \/ GuardGivesUp(c) \/ Blame(c)
               \/ RecordDenial(c)
    BY <2>6, <1>u DEF StreamEnds, WatcherEnds, GuardGivesUp, Blame, RecordDenial, process
  <2> QED
    BY <1>2, <2>1, <2>2, <2>3, <2>4, <2>5, <2>6 DEF TaskStep
<1>3. ASSUME WriteStep \/ WriteFails \/ WriteAbort \/ TerminateAll
      PROVE  ProcessTypes'
  <2>1. CASE WriteFinishLate
    BY <2>1, <1>h DEF WriteFinishLate, FailAndTerminate, process, ProcessTypes, WriterTypes,
        NoWriter
  <2>2. CASE WriteRelease
    BY <2>2, <1>h DEF WriteRelease, FailAndTerminate, ProcessTypes, WriterTypes, NoWriter
  <2>3. CASE WriteAbort
    BY <2>3, <1>h DEF WriteAbort, Terminate, ProcessTypes
  <2>4. CASE TerminateAll
    BY <2>4, <1>h, StoredAreCalls DEF TerminateAll, process, ProcessTypes
  <2>5. CASE WriteSettle \/ WriteRefresh \/ WriteFails
    BY <2>5, <1>u DEF WriteSettle, WriteRefresh, WriteFails, process
  <2> QED
    BY <1>3, <2>1, <2>2, <2>3, <2>4, <2>5 DEF WriteStep
<1>4. ASSUME NEW c \in Calls, NEW i \in Ids, Allocate(c, i)
      PROVE  ProcessTypes'
  BY <1>4, <1>u DEF Allocate, process
<1>5. ASSUME NEW i \in Ids, WritePrepare(i)
      PROVE  ProcessTypes'
  BY <1>5, <1>u DEF WritePrepare, process
<1>6. CASE UNCHANGED vars
  BY <1>6, <1>u DEF vars, process
<1> QED
  BY <1>1, <1>2, <1>3, <1>4, <1>5, <1>6 DEF Next, Work

\* So do the tasks beside the calls.
LEMMA TaskTypesStep ==
  ASSUME IInv, [Next]_vars
  PROVE  TaskTypes'
<1>h. TaskTypes
  BY DEF IInv, Types
<1>u. UNCHANGED <<stream, watcher, guard, ends>> => TaskTypes'
  BY <1>h DEF TaskTypes
<1>1. ASSUME NEW c \in Calls, CallStep(c)
      PROVE  TaskTypes'
  <2>1. CASE Open(c)
    BY <2>1, <1>h DEF Open, GuardOf, tasks, TaskTypes
  <2>2. CASE Begin(c)
    BY <2>2, <1>h DEF Begin, TaskTypes
  <2>3. CASE StoreProcess(c)
    BY <2>3, <1>h DEF StoreProcess, TaskTypes
  <2>4. CASE Evict(c)
    BY <2>4, <1>h DEF Evict, TaskTypes
  <2>5. CASE SettleFailed(c)
    BY <2>5, <1>h DEF SettleFailed, FailedEnd, Emit, TaskTypes
  <2>6. CASE FinishLate(c)
    BY <2>6, <1>h DEF FinishLate, Emit, TaskTypes
  <2>7. CASE Reject(c) \/ Register(c) \/ OpenFails(c) \/ Settle(c) \/ Refresh(c)
               \/ Release(c)
    BY <2>7, <1>u DEF Reject, Register, OpenFails, Settle, Refresh, Release, tasks
  <2> QED
    BY <1>1, <2>1, <2>2, <2>3, <2>4, <2>5, <2>6, <2>7 DEF CallStep
<1>2. ASSUME NEW c \in Calls, TaskStep(c) \/ TerminateNext(c) \/ Abort(c) \/ Exits(c)
               \/ Blame(c) \/ RecordDenial(c)
      PROVE  TaskTypes'
  <2>1. CASE StreamEnds(c)
    BY <2>1, <1>h DEF StreamEnds, TaskTypes, Drained
  <2>2. CASE WatcherEnds(c)
    BY <2>2, <1>h DEF WatcherEnds, Emit, TaskTypes
  <2>3. CASE GuardKills(c)
    BY <2>3, <1>h DEF GuardKills, tasks, TaskTypes
  <2>4. CASE GuardGivesUp(c)
    BY <2>4, <1>h DEF GuardGivesUp, tasks, TaskTypes
  <2>5. CASE ExitSeen(c) \/ TerminateNext(c) \/ Abort(c) \/ Exits(c) \/ Blame(c)
               \/ RecordDenial(c)
    BY <2>5, <1>u DEF ExitSeen, TerminateNext, Abort, Exits, Blame, RecordDenial, tasks
  <2> QED
    BY <1>2, <2>1, <2>2, <2>3, <2>4, <2>5 DEF TaskStep
<1>3. ASSUME WriteStep \/ WriteFails \/ WriteAbort \/ TerminateAll
      PROVE  TaskTypes'
  BY <1>3, <1>u DEF WriteStep, WriteSettle, WriteRefresh, WriteFinishLate, WriteRelease,
      WriteFails, WriteAbort, TerminateAll, tasks
<1>4. ASSUME NEW c \in Calls, NEW i \in Ids, Allocate(c, i)
      PROVE  TaskTypes'
  BY <1>4, <1>u DEF Allocate, tasks
<1>5. ASSUME NEW i \in Ids, WritePrepare(i)
      PROVE  TaskTypes'
  BY <1>5, <1>u DEF WritePrepare, tasks
<1>6. CASE UNCHANGED vars
  BY <1>6, <1>u DEF vars, tasks
<1> QED
  BY <1>1, <1>2, <1>3, <1>4, <1>5, <1>6 DEF Next, Work

\* So do the network approvals.
LEMMA NetTypesStep ==
  ASSUME IInv, [Next]_vars
  PROVE  NetTypes'
<1>h. NetTypes
  BY DEF IInv, Types
<1>u. UNCHANGED <<active, outcomes, denied, blamed, cell>> => NetTypes'
  BY <1>h DEF NetTypes
<1>1. ASSUME NEW c \in Calls, CallStep(c)
      PROVE  NetTypes'
  <2>1. CASE Reject(c)
    BY <2>1, <1>h DEF Reject, Unregister, approvals, proxy, NetTypes
  <2>2. CASE Register(c)
    BY <2>2, <1>h DEF Register, proxy, NetTypes
  <2>3. CASE OpenFails(c)
    BY <2>3, <1>h DEF OpenFails, Finish, approvals, proxy, NetTypes
  <2>4. CASE Evict(c)
    BY <2>4, <1>h DEF Evict, Unregister, proxy, NetTypes
  <2>5. CASE SettleFailed(c)
    BY <2>5, <1>h DEF SettleFailed, Finish, approvals, proxy, NetTypes
  <2>6. CASE FinishLate(c)
    BY <2>6, <1>h DEF FinishLate, Finish, approvals, proxy, NetTypes
  <2>7. CASE Release(c)
    BY <2>7, <1>h DEF Release, Unregister, proxy, NetTypes
  <2>8. CASE Open(c) \/ Begin(c) \/ StoreProcess(c) \/ Settle(c) \/ Refresh(c)
    BY <2>8, <1>u DEF Open, Begin, StoreProcess, Settle, Refresh, approvals, proxy
  <2> QED
    BY <1>1, <2>1, <2>2, <2>3, <2>4, <2>5, <2>6, <2>7, <2>8 DEF CallStep
<1>2. ASSUME NEW c \in Calls, TaskStep(c) \/ TerminateNext(c) \/ Abort(c) \/ Exits(c)
               \/ Blame(c) \/ RecordDenial(c)
      PROVE  NetTypes'
  <2>1. CASE GuardKills(c)
    BY <2>1, <1>h DEF GuardKills, Finish, approvals, proxy, NetTypes
  <2>2. CASE TerminateNext(c)
    BY <2>2, <1>h DEF TerminateNext, Unregister, proxy, NetTypes
  <2>3. CASE Blame(c)
    BY <2>3, <1>h DEF Blame, approvals, NetTypes
  <2>4. CASE RecordDenial(c)
    BY <2>4, <1>h DEF RecordDenial, NetTypes
  <2>5. CASE ExitSeen(c) \/ StreamEnds(c) \/ WatcherEnds(c) \/ GuardGivesUp(c) \/ Abort(c)
               \/ Exits(c)
    BY <2>5, <1>u DEF ExitSeen, StreamEnds, WatcherEnds, GuardGivesUp, Abort, Exits,
        approvals, proxy
  <2> QED
    BY <1>2, <2>1, <2>2, <2>3, <2>4, <2>5 DEF TaskStep
<1>3. ASSUME WriteStep \/ WriteFails \/ WriteAbort \/ TerminateAll
      PROVE  NetTypes'
  <2>1. CASE WriteSettle
    BY <2>1, <1>h DEF WriteSettle, Finish, approvals, proxy, NetTypes
  <2>2. CASE WriteFinishLate
    BY <2>2, <1>h DEF WriteFinishLate, Finish, approvals, proxy, NetTypes
  <2>3. CASE WriteRelease
    BY <2>3, <1>h DEF WriteRelease, Unregister, proxy, NetTypes
  <2>4. CASE WriteRefresh \/ WriteFails \/ WriteAbort \/ TerminateAll
    BY <2>4, <1>u DEF WriteRefresh, WriteFails, WriteAbort, TerminateAll, approvals, proxy
  <2> QED
    BY <1>3, <2>1, <2>2, <2>3, <2>4 DEF WriteStep
<1>4. ASSUME NEW c \in Calls, NEW i \in Ids, Allocate(c, i)
      PROVE  NetTypes'
  BY <1>4, <1>u DEF Allocate, approvals, proxy
<1>5. ASSUME NEW i \in Ids, WritePrepare(i)
      PROVE  NetTypes'
  BY <1>5, <1>u DEF WritePrepare, approvals, proxy
<1>6. CASE UNCHANGED vars
  BY <1>6, <1>u DEF vars, approvals, proxy
<1> QED
  BY <1>1, <1>2, <1>3, <1>4, <1>5, <1>6 DEF Next, Work

\* So does write_stdin.
LEMMA WriterTypesStep ==
  ASSUME IInv, [Next]_vars
  PROVE  WriterTypes'
<1>h. WriterTypes /\ ShelfTypes /\ ProcessTypes
  BY DEF IInv, Types
<1>u. UNCHANGED writer => WriterTypes'
  BY <1>h DEF WriterTypes, NoWriter, ShelfTypes, ProcessTypes
<1>1. ASSUME NEW c \in Calls, CallStep(c)
      PROVE  WriterTypes'
  BY <1>1, <1>u DEF CallStep, Reject, Register, OpenFails, Open, Begin, StoreProcess, Evict,
      SettleFailed, Settle, Refresh, FinishLate, Release
<1>2. ASSUME NEW c \in Calls, TaskStep(c) \/ TerminateNext(c) \/ Abort(c) \/ Exits(c)
               \/ Blame(c) \/ RecordDenial(c)
      PROVE  WriterTypes'
  BY <1>2, <1>u DEF TaskStep, ExitSeen, StreamEnds, WatcherEnds, GuardKills, GuardGivesUp,
      TerminateNext, Abort, Exits, Blame, RecordDenial
<1>3. ASSUME WriteStep \/ WriteFails \/ WriteAbort \/ TerminateAll
      PROVE  WriterTypes'
  <2>1. CASE WriteSettle
    BY <2>1, <1>h DEF WriteSettle, WriterTypes, NoWriter, ShelfTypes, ProcessTypes
  <2>2. CASE WriteRefresh
    <3>1. CASE store[writer.id] \in exited
      BY <2>2, <3>1, <1>h, EntryTaken DEF WriterTypes, ProcessTypes
    <3> QED
      BY <2>2, <3>1 DEF WriteRefresh, WriterTypes
  <2>3. CASE WriteFinishLate
    BY <2>3, <1>h DEF WriteFinishLate, WriterTypes, NoWriter, ShelfTypes, ProcessTypes
  <2>4. CASE WriteRelease
    BY <2>4, <1>h DEF WriteRelease, WriterTypes, NoWriter, ShelfTypes, ProcessTypes
  <2>5. CASE WriteFails
    BY <2>5, <1>h DEF WriteFails, WriterTypes, NoWriter, ShelfTypes, ProcessTypes
  <2>6. CASE WriteAbort
    BY <2>6, <1>h DEF WriteAbort, WriterTypes, NoWriter, ShelfTypes, ProcessTypes
  <2>7. CASE TerminateAll
    BY <2>7, <1>u DEF TerminateAll
  <2> QED
    BY <1>3, <2>1, <2>2, <2>3, <2>4, <2>5, <2>6, <2>7 DEF WriteStep
<1>4. ASSUME NEW c \in Calls, NEW i \in Ids, Allocate(c, i)
      PROVE  WriterTypes'
  BY <1>4, <1>u DEF Allocate
<1>5. ASSUME NEW i \in Ids, WritePrepare(i)
      PROVE  WriterTypes'
  BY <1>5, <1>h DEF WritePrepare, WriterTypes, NoWriter, ShelfTypes, ProcessTypes
<1>6. CASE UNCHANGED vars
  BY <1>6, <1>u DEF vars
<1> QED
  BY <1>1, <1>2, <1>3, <1>4, <1>5, <1>6 DEF Next, Work

\* So do the ghosts and the bounds.
LEMMA GhostTypesStep ==
  ASSUME IInv, [Next]_vars
  PROVE  GhostTypes'
<1>h. GhostTypes /\ CallTypes /\ WriterTypes
  BY DEF IInv, Types
<1>u. UNCHANGED <<freed, unstored, extras>> => GhostTypes'
  BY <1>h DEF GhostTypes, InProgress
<1>1. ASSUME NEW c \in Calls, CallStep(c)
      PROVE  GhostTypes'
  <2>1. CASE StoreProcess(c)
    BY <2>1, <1>h DEF StoreProcess, GhostTypes, InProgress
  <2>2. CASE Reject(c) \/ Register(c) \/ OpenFails(c) \/ Open(c) \/ Begin(c) \/ Evict(c)
               \/ SettleFailed(c) \/ Settle(c) \/ Refresh(c) \/ FinishLate(c) \/ Release(c)
    BY <2>2, <1>u DEF Reject, Register, OpenFails, Open, Begin, Evict, SettleFailed, Settle,
        Refresh, FinishLate, Release, ghosts
  <2> QED
    BY <1>1, <2>1, <2>2 DEF CallStep
<1>2. ASSUME NEW c \in Calls, TaskStep(c) \/ TerminateNext(c) \/ Abort(c) \/ Exits(c)
               \/ Blame(c) \/ RecordDenial(c)
      PROVE  GhostTypes'
  <2>1. CASE Abort(c)
    BY <2>1, <1>h DEF Abort, Extra, GhostTypes, InProgress, CallTypes
  <2>2. CASE ExitSeen(c) \/ StreamEnds(c) \/ WatcherEnds(c) \/ GuardKills(c)
               \/ GuardGivesUp(c) \/ TerminateNext(c) \/ Exits(c) \/ Blame(c)
               \/ RecordDenial(c)
    BY <2>2, <1>u DEF ExitSeen, StreamEnds, WatcherEnds, GuardKills, GuardGivesUp,
        TerminateNext, Exits, Blame, RecordDenial, ghosts
  <2> QED
    BY <1>2, <2>1, <2>2 DEF TaskStep
<1>3. ASSUME WriteStep \/ WriteFails \/ WriteAbort \/ TerminateAll
      PROVE  GhostTypes'
  <2>1. CASE WriteAbort
    BY <2>1, <1>h DEF WriteAbort, Extra, GhostTypes, InProgress, WriterTypes, NoWriter
  <2>2. CASE TerminateAll
    BY <2>2, <1>h DEF TerminateAll, Extra, GhostTypes, InProgress
  <2>3. CASE WriteSettle \/ WriteRefresh \/ WriteFinishLate \/ WriteRelease \/ WriteFails
    BY <2>3, <1>u DEF WriteSettle, WriteRefresh, WriteFinishLate, WriteRelease, WriteFails,
        ghosts
  <2> QED
    BY <1>3, <2>1, <2>2, <2>3 DEF WriteStep
<1>4. ASSUME NEW c \in Calls, NEW i \in Ids, Allocate(c, i)
      PROVE  GhostTypes'
  BY <1>4, <1>u DEF Allocate, ghosts
<1>5. ASSUME NEW i \in Ids, WritePrepare(i)
      PROVE  GhostTypes'
  BY <1>5, <1>h DEF WritePrepare, Extra, ghosts, GhostTypes, InProgress
<1>6. CASE UNCHANGED vars
  BY <1>6, <1>u DEF vars, ghosts
<1> QED
  BY <1>1, <1>2, <1>3, <1>4, <1>5, <1>6 DEF Next, Work

\* Every step leaves every call in one of its phases.
LEMMA PhaseStep ==
  ASSUME IInv, [Next]_vars
  PROVE  PhaseInv'
<1>h. CallTypes /\ ShelfTypes /\ ProcessTypes /\ PhaseInv /\ EntryInv /\ UseInv
  BY DEF IInv, Types
<1>u. UNCHANGED <<pc, id, early, taken, exited>> => PhaseInv'
  BY <1>h DEF PhaseInv, Late, Unopened, CallTypes, Over
<1>1. ASSUME NEW c \in Calls, CallStep(c)
      PROVE  PhaseInv'
  <2>1. CASE Reject(c)
    BY <2>1, <1>h DEF Reject, Goto, process, PhaseInv, Late, Unopened, CallTypes, Over
  <2>2. CASE Register(c)
    BY <2>2, <1>h DEF Register, Goto, process, PhaseInv, Late, Unopened, CallTypes, Over
  <2>3. CASE OpenFails(c)
    BY <2>3, <1>h DEF OpenFails, Goto, process, PhaseInv, Late, Unopened, CallTypes, Over
  <2>4. CASE Open(c)
    BY <2>4, <1>h DEF Open, Goto, PhaseInv, Late, Unopened, CallTypes, Over
  <2>5. CASE Begin(c)
    BY <2>5, <1>h DEF Begin, NextAfterBegin, Goto, process, PhaseInv, Late, Unopened,
        CallTypes, Over
  <2>6. CASE StoreProcess(c)
    BY <2>6, <1>h, PrunedIsStored, StoredAreCalls, Constants DEF StoreProcess, Terminate,
        Goto, PhaseInv, Late, Unopened, CallTypes, Over, EntryInv
  <2>7. CASE Evict(c)
    BY <2>7, <1>h DEF Evict, Terminate, Goto, PhaseInv, Late, Unopened, CallTypes, Over
  <2>8. CASE SettleFailed(c)
    BY <2>8, <1>h DEF SettleFailed, Goto, process, PhaseInv, Late, Unopened, CallTypes, Over
  <2>9. CASE Settle(c)
    BY <2>9, <1>h DEF Settle, Goto, process, PhaseInv, Late, Unopened, CallTypes, Over
  <2>10. CASE Refresh(c)
    BY <2>10, <1>h, Constants DEF Refresh, Goto, process, PhaseInv, Late, Unopened,
        CallTypes, Over, ProcessTypes
  <2>11. CASE FinishLate(c)
    BY <2>11, <1>h DEF FinishLate, FailAndTerminate, Goto, process, PhaseInv, Late,
        Unopened, CallTypes, Over
  <2>12. CASE Release(c)
    BY <2>12, <1>h DEF Release, FailAndTerminate, Goto, process, PhaseInv, Late, Unopened,
        CallTypes, Over
  <2> QED
    BY <1>1, <2>1, <2>2, <2>3, <2>4, <2>5, <2>6, <2>7, <2>8, <2>9, <2>10, <2>11, <2>12 DEF
        CallStep
<1>2. ASSUME NEW c \in Calls, TaskStep(c) \/ TerminateNext(c) \/ Abort(c) \/ Exits(c)
               \/ Blame(c) \/ RecordDenial(c)
      PROVE  PhaseInv'
  <2>1. CASE ExitSeen(c)
    BY <2>1, <1>h DEF ExitSeen, calls, PhaseInv, Late, Unopened, CallTypes, Over
  <2>2. CASE GuardKills(c)
    BY <2>2, <1>h DEF GuardKills, FailAndTerminate, calls, PhaseInv, Late, Unopened,
        CallTypes, Over
  <2>3. CASE Abort(c)
    BY <2>3, <1>h DEF Abort, Terminate, Goto, PhaseInv, Late, Unopened, CallTypes, Over,
        InProgress
  <2>4. CASE Exits(c)
    BY <2>4, <1>h DEF Exits, calls, PhaseInv, Late, Unopened, CallTypes, Over
  <2>5. CASE StreamEnds(c) \/ WatcherEnds(c) \/ GuardGivesUp(c) \/ TerminateNext(c)
               \/ Blame(c) \/ RecordDenial(c)
    BY <2>5, <1>u DEF StreamEnds, WatcherEnds, GuardGivesUp, TerminateNext, Blame,
        RecordDenial, Terminate, calls, process
  <2> QED
    BY <1>2, <2>1, <2>2, <2>3, <2>4, <2>5 DEF TaskStep
<1>3. ASSUME WriteStep \/ WriteFails \/ WriteAbort \/ TerminateAll
      PROVE  PhaseInv'
  <2>1. CASE WriteFinishLate
    BY <2>1, <1>h DEF WriteFinishLate, FailAndTerminate, calls, process, PhaseInv, Late,
        Unopened, CallTypes, Over
  <2>2. CASE WriteRelease
    BY <2>2, <1>h DEF WriteRelease, FailAndTerminate, calls, PhaseInv, Late, Unopened,
        CallTypes, Over
  <2>3. CASE WriteSettle \/ WriteRefresh \/ WriteFails \/ WriteAbort \/ TerminateAll
    BY <2>3, <1>u DEF WriteSettle, WriteRefresh, WriteFails, WriteAbort, TerminateAll,
        Terminate, calls, process
  <2> QED
    BY <1>3, <2>1, <2>2, <2>3 DEF WriteStep
<1>4. ASSUME NEW c \in Calls, NEW i \in Ids, Allocate(c, i)
      PROVE  PhaseInv'
  BY <1>4, <1>h DEF Allocate, Goto, process, PhaseInv, Late, Unopened, CallTypes, Over
<1>5. ASSUME NEW i \in Ids, WritePrepare(i)
      PROVE  PhaseInv'
  BY <1>5, <1>u DEF WritePrepare, calls, process
<1>6. CASE UNCHANGED vars
  BY <1>6, <1>u DEF vars, calls, process
<1> QED
  BY <1>1, <1>2, <1>3, <1>4, <1>5, <1>6 DEF Next, Work

\* A process is opened before it is terminated, and then runs no more.
LEMMA ProcessStep ==
  ASSUME IInv, [Next]_vars
  PROVE  ProcessInv'
<1>h. CallTypes /\ ShelfTypes /\ ProcessTypes /\ TaskTypes /\ WriterTypes /\ PhaseInv
      /\ ProcessInv /\ EntryInv
  BY DEF IInv, Types
<1>u. UNCHANGED <<running, token, exited, doomed, early, pc, guard, writer>> => ProcessInv'
  BY <1>h DEF ProcessInv, Unopened, CallTypes
<1>1. ASSUME NEW c \in Calls, CallStep(c)
      PROVE  ProcessInv'
  <2>1. CASE Reject(c)
    BY <2>1, <1>h DEF Reject, Goto, process, ProcessInv, Unopened, CallTypes
  <2>2. CASE Register(c)
    BY <2>2, <1>h DEF Register, Goto, process, ProcessInv, Unopened, CallTypes
  <2>3. CASE OpenFails(c)
    BY <2>3, <1>h DEF OpenFails, Goto, process, ProcessInv, Unopened, CallTypes
  <2>4. CASE Open(c)
    BY <2>4, <1>h DEF Open, GuardOf, Goto, ProcessInv, Unopened, CallTypes, TaskTypes
  <2>5. CASE Begin(c)
    BY <2>5, <1>h DEF Begin, NextAfterBegin, Goto, process, ProcessInv, Unopened, CallTypes
  <2>6. CASE StoreProcess(c)
    BY <2>6, <1>h DEF StoreProcess, Terminate, Goto, ProcessInv, Unopened, CallTypes,
        PhaseInv
  <2>7. CASE Evict(c)
    BY <2>7, <1>h DEF Evict, Terminate, Goto, ProcessInv, Unopened, CallTypes, PhaseInv
  <2>8. CASE SettleFailed(c)
    BY <2>8, <1>h DEF SettleFailed, Goto, process, ProcessInv, Unopened, CallTypes
  <2>9. CASE Settle(c)
    BY <2>9, <1>h DEF Settle, Goto, process, ProcessInv, Unopened, CallTypes
  <2>10. CASE Refresh(c)
    BY <2>10, <1>h DEF Refresh, Goto, process, ProcessInv, Unopened, CallTypes
  <2>11. CASE FinishLate(c)
    BY <2>11, <1>h DEF FinishLate, FailAndTerminate, Goto, process, ProcessInv, Unopened,
        CallTypes, PhaseInv, Late
  <2>12. CASE Release(c)
    BY <2>12, <1>h DEF Release, FailAndTerminate, Goto, process, ProcessInv, Unopened,
        CallTypes
  <2> QED
    BY <1>1, <2>1, <2>2, <2>3, <2>4, <2>5, <2>6, <2>7, <2>8, <2>9, <2>10, <2>11, <2>12 DEF
        CallStep
<1>2. ASSUME NEW c \in Calls, TaskStep(c) \/ TerminateNext(c) \/ Abort(c) \/ Exits(c)
               \/ Blame(c) \/ RecordDenial(c)
      PROVE  ProcessInv'
  <2>1. CASE ExitSeen(c)
    BY <2>1, <1>h DEF ExitSeen, calls, ProcessInv, Unopened, CallTypes
  <2>2. CASE GuardKills(c)
    BY <2>2, <1>h DEF GuardKills, FailAndTerminate, calls, ProcessInv, Unopened, CallTypes,
        TaskTypes
  <2>3. CASE GuardGivesUp(c)
    BY <2>3, <1>h DEF GuardGivesUp, calls, process, ProcessInv, Unopened, CallTypes
  <2>4. CASE TerminateNext(c)
    BY <2>4, <1>h DEF TerminateNext, Terminate, calls, ProcessInv, Unopened, CallTypes,
        PhaseInv
  <2>5. CASE Abort(c)
    BY <2>5, <1>h DEF Abort, Terminate, Goto, ProcessInv, Unopened, CallTypes, PhaseInv,
        InProgress, Over
  <2>6. CASE Exits(c)
    BY <2>6, <1>h DEF Exits, calls, ProcessInv, Unopened, CallTypes
  <2>7. CASE StreamEnds(c) \/ WatcherEnds(c) \/ Blame(c) \/ RecordDenial(c)
    BY <2>7, <1>u DEF StreamEnds, WatcherEnds, Blame, RecordDenial, calls, process
  <2> QED
    BY <1>2, <2>1, <2>2, <2>3, <2>4, <2>5, <2>6, <2>7 DEF TaskStep
<1>3. ASSUME WriteStep \/ WriteFails \/ WriteAbort \/ TerminateAll
      PROVE  ProcessInv'
  <2>1. CASE WriteSettle
    BY <2>1, <1>h DEF WriteSettle, calls, process, ProcessInv, Unopened, CallTypes,
        WriterTypes, NoWriter
  <2>2. CASE WriteRefresh
    <3>1. CASE store[writer.id] \in exited
      <4>1. writer'.call = store[writer.id] /\ writer.id \in Ids /\ store[writer.id] \in early
        BY <2>2, <3>1, <1>h, Constants, EntryTaken DEF EntryInv, ProcessTypes
      <4> QED
        BY <2>2, <4>1, <1>h DEF WriteRefresh, ProcessInv, calls, process, tasks
    <3> QED
      BY <2>2, <3>1, <1>h DEF WriteRefresh, ProcessInv, calls, process, tasks
  <2>3. CASE WriteFinishLate
    BY <2>3, <1>h DEF WriteFinishLate, FailAndTerminate, calls, process, ProcessInv,
        Unopened, CallTypes, PhaseInv, WriterTypes, NoWriter
  <2>4. CASE WriteRelease
    BY <2>4, <1>h DEF WriteRelease, FailAndTerminate, calls, ProcessInv, Unopened,
        CallTypes, PhaseInv, WriterTypes, NoWriter
  <2>5. CASE WriteFails
    BY <2>5, <1>h DEF WriteFails, calls, process, ProcessInv, Unopened, CallTypes,
        WriterTypes, NoWriter
  <2>6. CASE WriteAbort
    BY <2>6, <1>h DEF WriteAbort, Terminate, calls, ProcessInv, Unopened, CallTypes,
        PhaseInv, WriterTypes, NoWriter
  <2>7. CASE TerminateAll
    BY <2>7, <1>h DEF TerminateAll, calls, process, ProcessInv, Unopened, CallTypes,
        EntryInv, Stored
  <2> QED
    BY <1>3, <2>1, <2>2, <2>3, <2>4, <2>5, <2>6, <2>7 DEF WriteStep
<1>4. ASSUME NEW c \in Calls, NEW i \in Ids, Allocate(c, i)
      PROVE  ProcessInv'
  BY <1>4, <1>h DEF Allocate, Goto, process, ProcessInv, Unopened, CallTypes
<1>5. ASSUME NEW i \in Ids, WritePrepare(i)
      PROVE  ProcessInv'
  BY <1>5, <1>h DEF WritePrepare, calls, process, ProcessInv, Unopened, CallTypes, EntryInv,
      NoWriter
<1>6. CASE UNCHANGED vars
  BY <1>6, <1>u DEF vars, calls, process
<1> QED
  BY <1>1, <1>2, <1>3, <1>4, <1>5, <1>6 DEF Next, Work

\* Every entry stays under the id of its call.
LEMMA EntryStep ==
  ASSUME IInv, [Next]_vars
  PROVE  EntryInv'
<1>h. CallTypes /\ ShelfTypes /\ PhaseInv /\ EntryInv
  BY DEF IInv, Types
<1>u. UNCHANGED <<store, id, early, pc>> => EntryInv'
  BY <1>h DEF EntryInv, CallTypes, ShelfTypes
<1>1. ASSUME NEW c \in Calls, CallStep(c)
      PROVE  EntryInv'
  <2>1. CASE Reject(c)
    BY <2>1, <1>h DEF Reject, RemoveEntry, Goto, shelf, EntryInv, CallTypes, ShelfTypes
  <2>2. CASE Register(c)
    BY <2>2, <1>h DEF Register, Goto, shelf, EntryInv, CallTypes, ShelfTypes
  <2>3. CASE OpenFails(c)
    BY <2>3, <1>h DEF OpenFails, Goto, shelf, EntryInv, CallTypes, ShelfTypes
  <2>4. CASE Open(c)
    BY <2>4, <1>h DEF Open, Goto, shelf, EntryInv, CallTypes, ShelfTypes
  <2>5. CASE Begin(c)
    BY <2>5, <1>h DEF Begin, NextAfterBegin, Goto, EntryInv, CallTypes, ShelfTypes, PhaseInv
  <2>6. CASE StoreProcess(c)
    BY <2>6, <1>h, Constants DEF StoreProcess, Goto, EntryInv, CallTypes, ShelfTypes,
        PhaseInv
  <2>7. CASE Evict(c)
    BY <2>7, <1>h DEF Evict, Goto, shelf, EntryInv, CallTypes, ShelfTypes
  <2>8. CASE SettleFailed(c)
    BY <2>8, <1>h DEF SettleFailed, Goto, shelf, EntryInv, CallTypes, ShelfTypes
  <2>9. CASE Settle(c)
    BY <2>9, <1>h DEF Settle, Goto, shelf, EntryInv, CallTypes, ShelfTypes
  <2>10. CASE Refresh(c)
    BY <2>10, <1>h DEF Refresh, RemoveEntry, Goto, shelf, EntryInv, CallTypes, ShelfTypes
  <2>11. CASE FinishLate(c)
    BY <2>11, <1>h DEF FinishLate, Goto, shelf, EntryInv, CallTypes, ShelfTypes
  <2>12. CASE Release(c)
    BY <2>12, <1>h DEF Release, RemoveEntry, Goto, EntryInv, CallTypes, ShelfTypes
  <2> QED
    BY <1>1, <2>1, <2>2, <2>3, <2>4, <2>5, <2>6, <2>7, <2>8, <2>9, <2>10, <2>11, <2>12 DEF
        CallStep
<1>2. ASSUME NEW c \in Calls, TaskStep(c) \/ TerminateNext(c) \/ Abort(c) \/ Exits(c)
               \/ Blame(c) \/ RecordDenial(c)
      PROVE  EntryInv'
  <2>1. CASE Abort(c)
    BY <2>1, <1>h DEF Abort, Goto, shelf, EntryInv, CallTypes, ShelfTypes
  <2>2. CASE ExitSeen(c) \/ StreamEnds(c) \/ WatcherEnds(c) \/ GuardKills(c)
               \/ GuardGivesUp(c) \/ TerminateNext(c) \/ Exits(c) \/ Blame(c)
               \/ RecordDenial(c)
    BY <2>2, <1>u DEF ExitSeen, StreamEnds, WatcherEnds, GuardKills, GuardGivesUp,
        TerminateNext, Exits, Blame, RecordDenial, calls, shelf
  <2> QED
    BY <1>2, <2>1, <2>2 DEF TaskStep
<1>3. ASSUME WriteStep \/ WriteFails \/ WriteAbort \/ TerminateAll
      PROVE  EntryInv'
  <2>1. CASE WriteRefresh
    BY <2>1, <1>h DEF WriteRefresh, RemoveEntry, calls, shelf, EntryInv, CallTypes,
        ShelfTypes
  <2>2. CASE WriteRelease
    BY <2>2, <1>h DEF WriteRelease, RemoveEntry, calls, EntryInv, CallTypes, ShelfTypes
  <2>3. CASE WriteFails
    BY <2>3, <1>h DEF WriteFails, RemoveEntry, calls, shelf, EntryInv, CallTypes, ShelfTypes
  <2>4. CASE TerminateAll
    BY <2>4, <1>h DEF TerminateAll, calls, EntryInv, CallTypes, ShelfTypes
  <2>5. CASE WriteSettle \/ WriteFinishLate \/ WriteAbort
    BY <2>5, <1>u DEF WriteSettle, WriteFinishLate, WriteAbort, calls, shelf
  <2> QED
    BY <1>3, <2>1, <2>2, <2>3, <2>4, <2>5 DEF WriteStep
<1>4. ASSUME NEW c \in Calls, NEW i \in Ids, Allocate(c, i)
      PROVE  EntryInv'
  BY <1>4, <1>h DEF Allocate, Goto, EntryInv, CallTypes, ShelfTypes, PhaseInv, Unopened
<1>5. ASSUME NEW i \in Ids, WritePrepare(i)
      PROVE  EntryInv'
  BY <1>5, <1>u DEF WritePrepare, calls
<1>6. CASE UNCHANGED vars
  BY <1>6, <1>u DEF vars, calls, shelf
<1> QED
  BY <1>1, <1>2, <1>3, <1>4, <1>5, <1>6 DEF Next, Work

\* No step adds an End event to one there is.
LEMMA EndStep ==
  ASSUME IInv, [Next]_vars
  PROVE  EndInv'
<1>h. CallTypes /\ TaskTypes /\ PhaseInv /\ EndInv
  BY DEF IInv, Types
<1>u. UNCHANGED <<pc, early, watcher, ends>> => EndInv'
  BY <1>h DEF EndInv, CallTypes, TaskTypes, Unopened
<1>1. ASSUME NEW c \in Calls, CallStep(c)
      PROVE  EndInv'
  <2>1. CASE Reject(c)
    BY <2>1, <1>h DEF Reject, Goto, tasks, EndInv, CallTypes, TaskTypes, Unopened
  <2>2. CASE Register(c)
    BY <2>2, <1>h DEF Register, Goto, tasks, EndInv, CallTypes, TaskTypes, Unopened
  <2>3. CASE OpenFails(c)
    BY <2>3, <1>h DEF OpenFails, Goto, tasks, EndInv, CallTypes, TaskTypes, Unopened
  <2>4. CASE Open(c)
    BY <2>4, <1>h DEF Open, Goto, tasks, EndInv, CallTypes, TaskTypes, Unopened
  <2>5. CASE Begin(c)
    BY <2>5, <1>h DEF Begin, NextAfterBegin, Goto, EndInv, CallTypes, TaskTypes, Unopened,
        PhaseInv
  <2>6. CASE StoreProcess(c)
    BY <2>6, <1>h DEF StoreProcess, Goto, EndInv, CallTypes, TaskTypes, Unopened, PhaseInv
  <2>7. CASE Evict(c)
    BY <2>7, <1>h DEF Evict, Goto, EndInv, CallTypes, TaskTypes, Unopened, PhaseInv
  <2>8. CASE SettleFailed(c)
    BY <2>8, <1>h DEF SettleFailed, FailedEnd, Emit, Goto, EndInv, CallTypes, TaskTypes,
        Unopened
  <2>9. CASE Settle(c)
    BY <2>9, <1>h DEF Settle, Goto, tasks, EndInv, CallTypes, TaskTypes, Unopened
  <2>10. CASE Refresh(c)
    BY <2>10, <1>h DEF Refresh, Goto, tasks, EndInv, CallTypes, TaskTypes, Unopened,
        PhaseInv
  <2>11. CASE FinishLate(c)
    BY <2>11, <1>h DEF FinishLate, Emit, Goto, EndInv, CallTypes, TaskTypes, Unopened,
        PhaseInv, Late
  <2>12. CASE Release(c)
    BY <2>12, <1>h DEF Release, Goto, tasks, EndInv, CallTypes, TaskTypes, Unopened
  <2> QED
    BY <1>1, <2>1, <2>2, <2>3, <2>4, <2>5, <2>6, <2>7, <2>8, <2>9, <2>10, <2>11, <2>12 DEF
        CallStep
<1>2. ASSUME NEW c \in Calls, TaskStep(c) \/ TerminateNext(c) \/ Abort(c) \/ Exits(c)
               \/ Blame(c) \/ RecordDenial(c)
      PROVE  EndInv'
  <2>1. CASE WatcherEnds(c)
    BY <2>1, <1>h DEF WatcherEnds, Emit, calls, EndInv, CallTypes, TaskTypes, Unopened
  <2>2. CASE Abort(c)
    BY <2>2, <1>h DEF Abort, Goto, tasks, EndInv, CallTypes, TaskTypes, Unopened,
        InProgress, Over
  <2>3. CASE ExitSeen(c) \/ StreamEnds(c) \/ GuardKills(c) \/ GuardGivesUp(c)
               \/ TerminateNext(c) \/ Exits(c) \/ Blame(c) \/ RecordDenial(c)
    BY <2>3, <1>u DEF ExitSeen, StreamEnds, GuardKills, GuardGivesUp, TerminateNext, Exits,
        Blame, RecordDenial, calls, tasks
  <2> QED
    BY <1>2, <2>1, <2>2, <2>3 DEF TaskStep
<1>3. ASSUME WriteStep \/ WriteFails \/ WriteAbort \/ TerminateAll
      PROVE  EndInv'
  BY <1>3, <1>u DEF WriteStep, WriteSettle, WriteRefresh, WriteFinishLate, WriteRelease,
      WriteFails, WriteAbort, TerminateAll, calls, tasks
<1>4. ASSUME NEW c \in Calls, NEW i \in Ids, Allocate(c, i)
      PROVE  EndInv'
  BY <1>4, <1>h DEF Allocate, Goto, tasks, EndInv, CallTypes, TaskTypes, Unopened
<1>5. ASSUME NEW i \in Ids, WritePrepare(i)
      PROVE  EndInv'
  BY <1>5, <1>u DEF WritePrepare, calls, tasks
<1>6. CASE UNCHANGED vars
  BY <1>6, <1>u DEF vars, calls, tasks
<1> QED
  BY <1>1, <1>2, <1>3, <1>4, <1>5, <1>6 DEF Next, Work

\* Every step keeps the order of the entries by last_used.
LEMMA UseStep ==
  ASSUME IInv, [Next]_vars
  PROVE  UseInv'
<1>h. CallTypes /\ ShelfTypes /\ WriterTypes /\ PhaseInv /\ EntryInv /\ UseInv
  BY DEF IInv, Types
<1>s. ShelfTypes'
  BY ShelfTypesStep
<1>u. UNCHANGED <<store, newer, pc>> => UseInv'
  BY <1>h DEF UseInv, Entries, Stored
<1>1. ASSUME NEW c \in Calls, CallStep(c)
      PROVE  UseInv'
  <2>1. CASE Reject(c)
    <3>1. CASE RemoveEntry(id[c])
      <4>1. id[c] \in Ids /\ \A x \in Calls : pc'[x] = "store" => pc[x] = "store"
        BY <2>1, <1>h DEF Reject, Goto, CallTypes, PhaseInv
      <4> QED
        BY <3>1, <4>1, <1>h, RemovedEntry, DropKeepsOrder DEF RemoveEntry
    <3>2. CASE UNCHANGED shelf
      <4>1. Entries' \subseteq Entries /\ newer' = newer
        BY <2>1, <3>2, <1>h DEF Reject, Goto, CallTypes, PhaseInv, Entries, Stored, shelf
      <4> QED
        BY <4>1, <1>h, SameKeepsOrder
    <3> QED
      BY <2>1, <3>1, <3>2 DEF Reject
  <2>2. CASE Register(c)
    <3>1. Entries' \subseteq Entries /\ newer' = newer
      BY <2>2, <1>h DEF Register, Goto, CallTypes, Entries, Stored, calls, shelf
    <3> QED
      BY <3>1, <1>h, SameKeepsOrder
  <2>3. CASE OpenFails(c)
    <3>1. Entries' \subseteq Entries /\ newer' = newer
      BY <2>3, <1>h DEF OpenFails, Goto, CallTypes, Entries, Stored, calls, shelf
    <3> QED
      BY <3>1, <1>h, SameKeepsOrder
  <2>4. CASE Open(c)
    <3>1. Entries' \subseteq Entries /\ newer' = newer
      BY <2>4, <1>h DEF Open, Goto, CallTypes, Entries, Stored, calls, shelf
    <3> QED
      BY <3>1, <1>h, SameKeepsOrder
  <2>5. CASE Begin(c)
    <3>1. CASE c \in exited
      <4>1. Entries' \subseteq Entries /\ newer' = newer
        BY <2>5, <3>1, <1>h DEF Begin, NextAfterBegin, Goto, CallTypes, Entries, Stored
      <4> QED
        BY <4>1, <1>h, SameKeepsOrder
    <3>2. CASE c \notin exited
      <4>1. Entries' \subseteq Entries \cup {c} /\ Use(c)
        BY <2>5, <3>2, <1>h DEF Begin, NextAfterBegin, Goto, CallTypes, Entries, Stored
      <4> QED
        BY <4>1, <1>h, <1>s, UseKeepsOrder
    <3> QED
      BY <3>1, <3>2
  <2>6. CASE StoreProcess(c)
    <3>1. ASSUME NEW x \in Stored'
          PROVE  x \in Entries /\ x # Pruned /\ x # store[id[c]]
      <4>1. PICK j \in Ids : store'[j] = x /\ x # NoCall
        BY <3>1 DEF Stored
      <4>2. CASE j = id[c]
        <5>1. x = c /\ x \in Entries
          BY <2>6, <4>1, <4>2 DEF StoreProcess, Entries
        <5>2. c \notin Stored /\ Pruned \in Stored \cup {NoCall} /\ store[id[c]] \in Stored \cup {NoCall}
          BY <2>6, <1>h, <4>2, PrunedIsStored, StoredAreCalls DEF StoreProcess, EntryInv, Stored
        <5> QED
          BY <4>1, <5>1, <5>2
      <4>3. CASE j # id[c]
        <5>1. x = store[j] /\ x # Pruned
          BY <2>6, <4>1, <4>3 DEF StoreProcess
        <5> QED
          BY <2>6, <4>1, <4>3, <5>1, <1>h DEF StoreProcess, PhaseInv, EntryInv, Entries, Stored
      <4> QED
        BY <4>2, <4>3
    <3>2. ASSUME NEW x \in Calls, pc'[x] = "store"
          PROVE  x \in Entries /\ x # Pruned /\ x # store[id[c]]
      <4>1. pc[x] = "store" /\ x \in Entries /\ x \notin Stored
        BY <2>6, <3>2, <1>h DEF StoreProcess, Goto, CallTypes, Entries, EntryInv, Stored
      <4>2. Pruned \in Stored \cup {NoCall} /\ store[id[c]] \in Stored \cup {NoCall}
        BY <2>6, <1>h, PrunedIsStored, StoredAreCalls DEF StoreProcess, PhaseInv, Stored
      <4> QED
        BY <3>2, <4>1, <4>2, Constants
    <3>3. Entries' \subseteq Entries \ {Pruned, store[id[c]]} /\ Drop({Pruned, store[id[c]]})
      BY <2>6, <3>1, <3>2 DEF StoreProcess, Entries
    <3> QED
      BY <3>3, <1>h, DropKeepsOrder
  <2>7. CASE Evict(c)
    <3>1. Entries' \subseteq Entries /\ newer' = newer
      BY <2>7, <1>h DEF Evict, Goto, CallTypes, Entries, Stored, calls, shelf
    <3> QED
      BY <3>1, <1>h, SameKeepsOrder
  <2>8. CASE SettleFailed(c)
    <3>1. Entries' \subseteq Entries /\ newer' = newer
      BY <2>8, <1>h DEF SettleFailed, Goto, CallTypes, Entries, Stored, calls, shelf
    <3> QED
      BY <3>1, <1>h, SameKeepsOrder
  <2>9. CASE Settle(c)
    <3>1. Entries' \subseteq Entries /\ newer' = newer
      BY <2>9, <1>h DEF Settle, Goto, CallTypes, Entries, Stored, calls, shelf
    <3> QED
      BY <3>1, <1>h, SameKeepsOrder
  <2>10. CASE Refresh(c)
    <3>1. CASE RemoveEntry(id[c])
      <4>1. id[c] \in Ids /\ \A x \in Calls : pc'[x] = "store" => pc[x] = "store"
        BY <2>10, <1>h DEF Refresh, Goto, CallTypes, PhaseInv
      <4> QED
        BY <3>1, <4>1, <1>h, RemovedEntry, DropKeepsOrder DEF RemoveEntry
    <3>2. CASE UNCHANGED shelf
      <4>1. Entries' \subseteq Entries /\ newer' = newer
        BY <2>10, <3>2, <1>h DEF Refresh, Goto, CallTypes, PhaseInv, Entries, Stored, shelf
      <4> QED
        BY <4>1, <1>h, SameKeepsOrder
    <3> QED
      BY <2>10, <3>1, <3>2 DEF Refresh
  <2>11. CASE FinishLate(c)
    <3>1. Entries' \subseteq Entries /\ newer' = newer
      BY <2>11, <1>h DEF FinishLate, Goto, CallTypes, Entries, Stored, calls, shelf
    <3> QED
      BY <3>1, <1>h, SameKeepsOrder
  <2>12. CASE Release(c)
    <3>1. RemoveEntry(id[c]) /\ id[c] \in Ids /\ \A x \in Calls : pc'[x] = "store" => pc[x] = "store"
      BY <2>12, <1>h DEF Release, Goto, CallTypes, PhaseInv
    <3> QED
      BY <3>1, <1>h, RemovedEntry, DropKeepsOrder DEF RemoveEntry
  <2> QED
    BY <1>1, <2>1, <2>2, <2>3, <2>4, <2>5, <2>6, <2>7, <2>8, <2>9, <2>10, <2>11, <2>12 DEF
        CallStep
<1>2. ASSUME NEW c \in Calls, TaskStep(c) \/ TerminateNext(c) \/ Abort(c) \/ Exits(c)
               \/ Blame(c) \/ RecordDenial(c)
      PROVE  UseInv'
  <2>1. CASE Abort(c)
    <3>1. Entries' \subseteq Entries /\ newer' = newer
      BY <2>1, <1>h DEF Abort, Goto, CallTypes, Entries, Stored, calls, shelf
    <3> QED
      BY <3>1, <1>h, SameKeepsOrder
  <2>2. CASE ExitSeen(c) \/ StreamEnds(c) \/ WatcherEnds(c) \/ GuardKills(c)
               \/ GuardGivesUp(c) \/ TerminateNext(c) \/ Exits(c) \/ Blame(c)
               \/ RecordDenial(c)
    BY <2>2, <1>u DEF ExitSeen, StreamEnds, WatcherEnds, GuardKills, GuardGivesUp,
        TerminateNext, Exits, Blame, RecordDenial, calls, shelf
  <2> QED
    BY <1>2, <2>1, <2>2 DEF TaskStep
<1>3. ASSUME WriteStep \/ WriteFails \/ WriteAbort \/ TerminateAll
      PROVE  UseInv'
  <2>1. CASE WriteRefresh
    <3>1. CASE RemoveEntry(writer.id)
      <4>1. writer.id \in Ids /\ \A x \in Calls : pc'[x] = "store" => pc[x] = "store"
        BY <2>1, <1>h DEF WriteRefresh, calls, WriterTypes, NoWriter
      <4> QED
        BY <3>1, <4>1, <1>h, RemovedEntry, DropKeepsOrder DEF RemoveEntry
    <3>2. CASE UNCHANGED shelf
      <4>1. Entries' \subseteq Entries /\ newer' = newer
        BY <2>1, <3>2, <1>h DEF WriteRefresh, calls, WriterTypes, NoWriter, Entries, Stored, shelf
      <4> QED
        BY <4>1, <1>h, SameKeepsOrder
    <3> QED
      BY <2>1, <3>1, <3>2 DEF WriteRefresh
  <2>2. CASE WriteRelease
    <3>1. RemoveEntry(writer.id) /\ writer.id \in Ids /\ \A x \in Calls : pc'[x] = "store" => pc[x] = "store"
      BY <2>2, <1>h DEF WriteRelease, calls, WriterTypes, NoWriter
    <3> QED
      BY <3>1, <1>h, RemovedEntry, DropKeepsOrder DEF RemoveEntry
  <2>3. CASE WriteFails
    <3>1. CASE RemoveEntry(writer.id)
      <4>1. writer.id \in Ids /\ \A x \in Calls : pc'[x] = "store" => pc[x] = "store"
        BY <2>3, <1>h DEF WriteFails, calls, WriterTypes, NoWriter
      <4> QED
        BY <3>1, <4>1, <1>h, RemovedEntry, DropKeepsOrder DEF RemoveEntry
    <3>2. CASE UNCHANGED shelf
      <4>1. Entries' \subseteq Entries /\ newer' = newer
        BY <2>3, <3>2, <1>h DEF WriteFails, calls, WriterTypes, NoWriter, Entries, Stored, shelf
      <4> QED
        BY <4>1, <1>h, SameKeepsOrder
    <3> QED
      BY <2>3, <3>1, <3>2 DEF WriteFails
  <2>4. CASE TerminateAll
    <3>1. Entries' \subseteq Entries \ Stored /\ Drop(Stored)
      BY <2>4, <1>h, Constants DEF TerminateAll, Entries, Stored, calls, EntryInv, ShelfTypes
    <3> QED
      BY <3>1, <1>h, DropKeepsOrder
  <2>5. CASE WriteSettle \/ WriteFinishLate \/ WriteAbort
    BY <2>5, <1>u DEF WriteSettle, WriteFinishLate, WriteAbort, calls, shelf
  <2> QED
    BY <1>3, <2>1, <2>2, <2>3, <2>4, <2>5 DEF WriteStep
<1>4. ASSUME NEW c \in Calls, NEW i \in Ids, Allocate(c, i)
      PROVE  UseInv'
  <2>1. Entries' \subseteq Entries /\ newer' = newer
    BY <1>4, <1>h DEF Allocate, Goto, CallTypes, Entries, Stored
  <2> QED
    BY <2>1, <1>h, SameKeepsOrder
<1>5. ASSUME NEW i \in Ids, WritePrepare(i)
      PROVE  UseInv'
  <2>1. Entries' \subseteq Entries /\ Use(store[i]) /\ store[i] \in Calls
    BY <1>5, <1>h DEF WritePrepare, Entries, Stored, calls, ShelfTypes
  <2> QED
    BY <2>1, <1>h, <1>s, UseKeepsOrder
<1>6. CASE UNCHANGED vars
  BY <1>6, <1>u DEF vars, calls, shelf
<1> QED
  BY <1>1, <1>2, <1>3, <1>4, <1>5, <1>6 DEF Next, Work

\* The store does not grow beyond its limit.
LEMMA LimitStep ==
  ASSUME IInv, [Next]_vars
  PROVE  WithinLimit'
<1>h. CallTypes /\ ShelfTypes /\ UseInv /\ WithinLimit
  BY DEF IInv, Types
<1>g. ASSUME NEW S, IsFiniteSet(S), Cardinality(S) <= MaxStored, Stored' \subseteq S
      PROVE  WithinLimit'
  <2>1. Cardinality(Stored') <= Cardinality(S) /\ Cardinality(Stored') \in Nat /\ Cardinality(S) \in Nat
    BY <1>g, FS_Subset, FS_CardinalityType
  <2> QED
    BY <1>g, <2>1, Constants DEF WithinLimit
<1>f. Stored' \subseteq Stored => WithinLimit'
  BY <1>g, <1>h, StoredAreCalls DEF WithinLimit
<1>s. ASSUME NEW S, IsFiniteSet(S), Cardinality(S) <= Cardinality(Stored), Stored' \subseteq S
      PROVE  WithinLimit'
  <2>1. Cardinality(S) \in Nat /\ Cardinality(S) <= MaxStored
    BY <1>s, <1>h, StoredAreCalls, Constants, FS_CardinalityType DEF WithinLimit
  <2> QED
    BY <1>g, <1>s, <2>1
<1>u. UNCHANGED store => WithinLimit'
  BY <1>h DEF WithinLimit, Stored
<1>1. ASSUME NEW c \in Calls, CallStep(c)
      PROVE  WithinLimit'
  <2>1. CASE Reject(c)
    <3>1. Stored' \subseteq Stored
      BY <2>1, <1>h DEF Reject, RemoveEntry, ShelfTypes, Stored, shelf
    <3> QED
      BY <3>1, <1>f
  <2>2. CASE StoreProcess(c)
    <3>1. CASE Full
      <4>1. Stored' \subseteq (Stored \ {Pruned}) \cup {c}
        BY <2>2, <1>h DEF StoreProcess, Stored
      <4>2. /\ IsFiniteSet(Stored \ {Pruned}) /\ Cardinality(Stored \ {Pruned}) = Cardinality(Stored) - 1
        BY <3>1, <1>h, PrunedIsStored, StoredAreCalls, FS_RemoveElement
      <4>3. /\ IsFiniteSet((Stored \ {Pruned}) \cup {c})
            /\ Cardinality((Stored \ {Pruned}) \cup {c}) <= Cardinality(Stored)
        <5> DEFINE X == Stored \ {Pruned}
        <5>1. IsFiniteSet(X \cup {c}) /\ Cardinality(X \cup {c}) = IF c \in X THEN Cardinality(X) ELSE Cardinality(X) + 1
          <6> HIDE DEF X
          <6> QED
            BY <4>2, FS_AddElement DEF X
        <5> QED
          BY <4>2, <5>1, <1>h, StoredAreCalls
      <4> QED
        BY <4>1, <4>3, <1>s
    <3>2. CASE ~ Full
      <4>1. Stored' \subseteq Stored \cup {c}
        BY <2>2, <1>h DEF StoreProcess, Stored
      <4>2. Cardinality(Stored) + 1 <= MaxStored
        BY <3>2, <1>h, StoredAreCalls, Constants DEF Full
      <4>3. IsFiniteSet(Stored \cup {c}) /\ Cardinality(Stored \cup {c}) <= MaxStored
        BY <4>2, <1>h, StoredAreCalls, Constants, FS_AddElement DEF WithinLimit
      <4> QED
        BY <4>1, <4>3, <1>g
    <3> QED
      BY <3>1, <3>2
  <2>3. CASE Refresh(c)
    <3>1. Stored' \subseteq Stored
      BY <2>3, <1>h DEF Refresh, RemoveEntry, ShelfTypes, Stored, shelf
    <3> QED
      BY <3>1, <1>f
  <2>4. CASE Release(c)
    <3>1. Stored' \subseteq Stored
      BY <2>4, <1>h DEF Release, RemoveEntry, ShelfTypes, Stored, shelf
    <3> QED
      BY <3>1, <1>f
  <2>5. CASE Register(c) \/ OpenFails(c) \/ Open(c) \/ Begin(c) \/ Evict(c)
               \/ SettleFailed(c) \/ Settle(c) \/ FinishLate(c)
    BY <2>5, <1>u DEF Register, OpenFails, Open, Begin, Evict, SettleFailed, Settle,
        FinishLate, shelf
  <2> QED
    BY <1>1, <2>1, <2>2, <2>3, <2>4, <2>5 DEF CallStep
<1>2. ASSUME NEW c \in Calls, TaskStep(c) \/ TerminateNext(c) \/ Abort(c) \/ Exits(c)
               \/ Blame(c) \/ RecordDenial(c)
      PROVE  WithinLimit'
  BY <1>2, <1>u DEF TaskStep, ExitSeen, StreamEnds, WatcherEnds, GuardKills, GuardGivesUp,
      TerminateNext, Abort, Exits, Blame, RecordDenial, shelf
<1>3. ASSUME WriteStep \/ WriteFails \/ WriteAbort \/ TerminateAll
      PROVE  WithinLimit'
  <2>1. CASE WriteRefresh
    <3>1. Stored' \subseteq Stored
      BY <2>1, <1>h DEF WriteRefresh, RemoveEntry, ShelfTypes, Stored, shelf
    <3> QED
      BY <3>1, <1>f
  <2>2. CASE WriteRelease
    <3>1. Stored' \subseteq Stored
      BY <2>2, <1>h DEF WriteRelease, RemoveEntry, ShelfTypes, Stored, shelf
    <3> QED
      BY <3>1, <1>f
  <2>3. CASE WriteFails
    <3>1. Stored' \subseteq Stored
      BY <2>3, <1>h DEF WriteFails, RemoveEntry, ShelfTypes, Stored, shelf
    <3> QED
      BY <3>1, <1>f
  <2>4. CASE TerminateAll
    <3>1. Stored' \subseteq Stored
      BY <2>4 DEF TerminateAll, Stored
    <3> QED
      BY <3>1, <1>f
  <2>5. CASE WriteSettle \/ WriteFinishLate \/ WriteAbort
    BY <2>5, <1>u DEF WriteSettle, WriteFinishLate, WriteAbort, shelf
  <2> QED
    BY <1>3, <2>1, <2>2, <2>3, <2>4, <2>5 DEF WriteStep
<1>4. ASSUME NEW c \in Calls, NEW i \in Ids, Allocate(c, i)
      PROVE  WithinLimit'
  BY <1>4, <1>u DEF Allocate
<1>5. ASSUME NEW i \in Ids, WritePrepare(i)
      PROVE  WithinLimit'
  BY <1>5, <1>u DEF WritePrepare
<1>6. CASE UNCHANGED vars
  BY <1>6, <1>u DEF vars, shelf
<1> QED
  BY <1>1, <1>2, <1>3, <1>4, <1>5, <1>6 DEF Next, Work

\* write_stdin excludes the calls, and a call whose id was given back keeps it.
LEMMA AloneStep ==
  ASSUME IInv, [Next]_vars
  PROVE  AloneInv'
<1>h. CallTypes /\ GhostTypes /\ AloneInv
  BY DEF IInv, Types
<1>w. \A c \in InProgress : writer = NoWriter
  BY <1>h DEF AloneInv
<1>u. UNCHANGED <<freed, pc, writer>> => AloneInv'
  BY <1>h DEF AloneInv, InProgress, Over, CallTypes, NoWriter
<1>1. ASSUME NEW c \in Calls, CallStep(c)
      PROVE  AloneInv'
  <2>1. CASE Reject(c)
    BY <2>1, <1>h DEF Reject, Goto, ghosts, AloneInv, InProgress, Over, CallTypes, NoWriter
  <2>2. CASE Register(c)
    BY <2>2, <1>h DEF Register, Goto, ghosts, AloneInv, InProgress, Over, CallTypes,
        NoWriter
  <2>3. CASE OpenFails(c)
    BY <2>3, <1>h DEF OpenFails, Goto, ghosts, AloneInv, InProgress, Over, CallTypes,
        NoWriter
  <2>4. CASE Open(c)
    BY <2>4, <1>h DEF Open, Goto, ghosts, AloneInv, InProgress, Over, CallTypes, NoWriter
  <2>5. CASE Begin(c)
    BY <2>5, <1>h DEF Begin, NextAfterBegin, Goto, ghosts, AloneInv, InProgress, Over,
        CallTypes, NoWriter
  <2>6. CASE StoreProcess(c)
    <3>1. c \in InProgress /\ writer' = NoWriter
      BY <2>6, <1>w DEF StoreProcess, InProgress, Over
    <3>2. freed' \subseteq freed \cup InProgress
      BY <2>6 DEF StoreProcess, ghosts
    <3>3. \A d \in Calls : pc'[d] = "idle" => pc[d] = "idle"
      BY <2>6, <1>h DEF StoreProcess, Goto, CallTypes
    <3> QED
      BY <3>1, <3>2, <3>3, <1>h DEF AloneInv, InProgress, GhostTypes
  <2>7. CASE Evict(c)
    BY <2>7, <1>h DEF Evict, Goto, ghosts, AloneInv, InProgress, Over, CallTypes, NoWriter
  <2>8. CASE SettleFailed(c)
    BY <2>8, <1>h DEF SettleFailed, Goto, ghosts, AloneInv, InProgress, Over, CallTypes,
        NoWriter
  <2>9. CASE Settle(c)
    BY <2>9, <1>h DEF Settle, Goto, ghosts, AloneInv, InProgress, Over, CallTypes, NoWriter
  <2>10. CASE Refresh(c)
    <3>1. c \in InProgress /\ writer' = NoWriter
      BY <2>10, <1>w DEF Refresh, InProgress, Over
    <3>2. freed' \subseteq freed \cup InProgress
      BY <2>10 DEF Refresh, ghosts
    <3>3. \A d \in Calls : pc'[d] = "idle" => pc[d] = "idle"
      BY <2>10, <1>h DEF Refresh, Goto, CallTypes
    <3> QED
      BY <3>1, <3>2, <3>3, <1>h DEF AloneInv, InProgress, GhostTypes
  <2>11. CASE FinishLate(c)
    <3>1. c \in InProgress /\ writer' = NoWriter
      BY <2>11, <1>w DEF FinishLate, InProgress, Over
    <3>2. freed' \subseteq freed \cup InProgress
      BY <2>11 DEF FinishLate, ghosts
    <3>3. \A d \in Calls : pc'[d] = "idle" => pc[d] = "idle"
      BY <2>11, <1>h DEF FinishLate, Goto, CallTypes
    <3> QED
      BY <3>1, <3>2, <3>3, <1>h DEF AloneInv, InProgress, GhostTypes
  <2>12. CASE Release(c)
    BY <2>12, <1>h DEF Release, Goto, ghosts, AloneInv, InProgress, Over, CallTypes,
        NoWriter
  <2> QED
    BY <1>1, <2>1, <2>2, <2>3, <2>4, <2>5, <2>6, <2>7, <2>8, <2>9, <2>10, <2>11, <2>12 DEF
        CallStep
<1>2. ASSUME NEW c \in Calls, TaskStep(c) \/ TerminateNext(c) \/ Abort(c) \/ Exits(c)
               \/ Blame(c) \/ RecordDenial(c)
      PROVE  AloneInv'
  <2>1. CASE Abort(c)
    BY <2>1, <1>h DEF Abort, Goto, AloneInv, InProgress, Over, CallTypes, NoWriter
  <2>2. CASE ExitSeen(c) \/ StreamEnds(c) \/ WatcherEnds(c) \/ GuardKills(c)
               \/ GuardGivesUp(c) \/ TerminateNext(c) \/ Exits(c) \/ Blame(c)
               \/ RecordDenial(c)
    BY <2>2, <1>u DEF ExitSeen, StreamEnds, WatcherEnds, GuardKills, GuardGivesUp,
        TerminateNext, Exits, Blame, RecordDenial, calls, ghosts
  <2> QED
    BY <1>2, <2>1, <2>2 DEF TaskStep
<1>3. ASSUME WriteStep \/ WriteFails \/ WriteAbort \/ TerminateAll
      PROVE  AloneInv'
  <2>1. CASE WriteSettle
    BY <2>1, <1>h DEF WriteSettle, calls, ghosts, AloneInv, InProgress, Over, CallTypes,
        NoWriter
  <2>2. CASE WriteRefresh
    BY <2>2, <1>h DEF WriteRefresh, calls, ghosts, AloneInv, InProgress, Over, CallTypes,
        NoWriter
  <2>3. CASE WriteFinishLate
    BY <2>3, <1>h DEF WriteFinishLate, calls, ghosts, AloneInv, InProgress, Over, CallTypes,
        NoWriter
  <2>4. CASE WriteRelease
    BY <2>4, <1>h DEF WriteRelease, calls, ghosts, AloneInv, InProgress, Over, CallTypes,
        NoWriter
  <2>5. CASE WriteFails
    BY <2>5, <1>h DEF WriteFails, calls, ghosts, AloneInv, InProgress, Over, CallTypes,
        NoWriter
  <2>6. CASE WriteAbort
    BY <2>6, <1>h DEF WriteAbort, calls, AloneInv, InProgress, Over, CallTypes, NoWriter
  <2>7. CASE TerminateAll
    BY <2>7, <1>h DEF TerminateAll, calls, AloneInv, InProgress, Over, CallTypes, NoWriter
  <2> QED
    BY <1>3, <2>1, <2>2, <2>3, <2>4, <2>5, <2>6, <2>7 DEF WriteStep
<1>4. ASSUME NEW c \in Calls, NEW i \in Ids, Allocate(c, i)
      PROVE  AloneInv'
  BY <1>4, <1>h DEF Allocate, Goto, ghosts, AloneInv, InProgress, Over, CallTypes, NoWriter
<1>5. ASSUME NEW i \in Ids, WritePrepare(i)
      PROVE  AloneInv'
  BY <1>5, <1>h DEF WritePrepare, calls, ghosts, AloneInv, InProgress, Over, CallTypes,
      NoWriter
<1>6. CASE UNCHANGED vars
  BY <1>6, <1>u DEF vars, calls, ghosts
<1> QED
  BY <1>1, <1>2, <1>3, <1>4, <1>5, <1>6 DEF Next, Work

\* An id that was given back stays so.
LEMMA FreedStays ==
  ASSUME IInv, [Next]_vars
  PROVE  \A i : Freed(i) => Freed(i)'
<1>h. CallTypes /\ GhostTypes /\ AloneInv
  BY DEF IInv, Types
<1>1. freed \subseteq freed' /\ \A d \in freed : id'[d] = id[d]
  <2>1. ASSUME NEW c \in Calls, CallStep(c)
        PROVE  freed \subseteq freed' /\ id' = id
    BY <2>1 DEF CallStep, Reject, Register, OpenFails, Open, Begin, StoreProcess, Evict,
        SettleFailed, Settle, Refresh, FinishLate, Release, calls, shelf, process, tasks,
        approvals, proxy, ghosts
  <2>2. ASSUME NEW c \in Calls, TaskStep(c) \/ TerminateNext(c) \/ Abort(c) \/ Exits(c) \/ Blame(c) \/ RecordDenial(c)
        PROVE  freed \subseteq freed' /\ id' = id
    BY <2>2 DEF TaskStep, ExitSeen, StreamEnds, WatcherEnds, GuardKills, GuardGivesUp,
        TerminateNext, Abort, Exits, Blame, RecordDenial, calls, shelf, process, tasks,
        approvals, proxy, ghosts
  <2>3. ASSUME WriteStep \/ WriteFails \/ WriteAbort \/ TerminateAll
        PROVE  freed \subseteq freed' /\ id' = id
    BY <2>3 DEF WriteStep, WriteSettle, WriteRefresh, WriteFinishLate, WriteRelease,
        WriteFails, WriteAbort, TerminateAll, calls, shelf, process, tasks, approvals,
        proxy, ghosts
  <2>4. ASSUME NEW c \in Calls, NEW i \in Ids, Allocate(c, i)
        PROVE  freed' = freed /\ \A d \in freed : id'[d] = id[d]
    BY <2>4, <1>h DEF Allocate, ghosts, AloneInv, CallTypes, GhostTypes
  <2>5. ASSUME NEW i \in Ids, WritePrepare(i)
        PROVE  freed' = freed /\ id' = id
    BY <2>5 DEF WritePrepare, ghosts, calls
  <2>6. CASE UNCHANGED vars
    BY <2>6 DEF vars, ghosts, calls
  <2> QED
    BY <2>1, <2>2, <2>3, <2>4, <2>5, <2>6 DEF Next, Work
<1> QED
  BY <1>1 DEF Freed

\* An id stays with one call until somebody gives it back.
LEMMA IdStep ==
  ASSUME IInv, [Next]_vars
  PROVE  IdInv'
<1>h. CallTypes /\ ShelfTypes /\ PhaseInv /\ EntryInv /\ UseInv /\ AloneInv /\ IdInv
  BY DEF IInv, Types
<1>m. \A i : Freed(i) => Freed(i)'
  BY FreedStays
<1>u. UNCHANGED <<store, id, reserved, pc, early, freed>> => IdInv'
  BY <1>h DEF IdInv, Holders, InProgress, Late, Freed
<1>1. ASSUME NEW c \in Calls, CallStep(c)
      PROVE  IdInv'
  <2>1. CASE Reject(c)
    BY <2>1, <1>h, <1>m DEF Reject, RemoveEntry, Goto, shelf, ghosts, IdInv, Holders,
        InProgress, Late, Over, CallTypes, ShelfTypes, PhaseInv
  <2>2. CASE Register(c)
    BY <2>2, <1>h, <1>m DEF Register, Goto, shelf, ghosts, IdInv, Holders, InProgress, Late,
        Over, CallTypes, ShelfTypes, PhaseInv
  <2>3. CASE OpenFails(c)
    BY <2>3, <1>h, <1>m DEF OpenFails, Goto, shelf, ghosts, IdInv, Holders, InProgress,
        Late, Over, CallTypes, ShelfTypes, PhaseInv
  <2>4. CASE Open(c)
    BY <2>4, <1>h, <1>m DEF Open, Goto, shelf, ghosts, IdInv, Holders, InProgress, Late,
        Over, CallTypes, ShelfTypes, PhaseInv
  <2>5. CASE Begin(c)
    BY <2>5, <1>h, <1>m DEF Begin, NextAfterBegin, Goto, ghosts, IdInv, Holders, InProgress,
        Late, Over, CallTypes, ShelfTypes, PhaseInv
  <2>6. CASE StoreProcess(c)
    <3>1. /\ c \in Holders /\ id[c] \in Ids /\ Holders' = Holders /\ id' = id /\ early' = early
          /\ \A d \in Calls \ {c} : pc'[d] = pc[d]
      BY <2>6, <1>h DEF StoreProcess, Goto, Holders, InProgress, Late, Over, CallTypes, PhaseInv
    <3>2. Pruned # NoCall => Pruned \in Calls /\ id[Pruned] \in Ids /\ store[id[Pruned]] = Pruned
      BY <1>h, PrunedIsStored, StoredAreCalls, Constants DEF EntryInv
    <3>3. ASSUME NEW d \in Holders, Pruned # NoCall, id[d] = id[Pruned]
          PROVE  Freed(id[d])'
      <4>1. CASE d = Pruned
        <5>1. d \in freed'
          BY <2>6, <4>1 DEF StoreProcess, Holders
        <5> QED
          BY <5>1, <3>1 DEF Freed
      <4>2. CASE d # Pruned
        BY <3>1, <3>2, <3>3, <4>2, <1>h, <1>m DEF IdInv
      <4> QED
        BY <4>1, <4>2
    <3>4. \A d \in Holders \ {c} : id[d] = id[c] => Freed(id[d])'
      BY <3>1, <1>h, <1>m DEF IdInv
    <3>5. \A i \in Ids : store'[i] = IF i = id[c] THEN c ELSE IF store[i] = Pruned THEN NoCall ELSE store[i]
      BY <2>6 DEF StoreProcess
    <3>6. reserved' = IF Pruned = NoCall THEN reserved ELSE reserved \ {id[Pruned]}
      BY <2>6 DEF StoreProcess
    <3>7. \A d \in Holders : id[d] \in reserved' \/ Freed(id[d])'
      BY <3>1, <3>3, <3>6, <1>h, <1>m DEF IdInv
    <3>8. \A i \in Ids : store'[i] # NoCall => i \in reserved' \/ Freed(i)'
      BY <3>1, <3>2, <3>5, <3>6, <3>7, <1>h, <1>m DEF IdInv
    <3>9. \A d, e \in Holders : d # e /\ id[d] = id[e] => Freed(id[d])'
      BY <3>1, <1>h, <1>m DEF IdInv
    <3>10. \A d \in Holders : id[d] \in Ids
      BY <1>h DEF Holders, InProgress, PhaseInv
    <3>11. \A d \in Holders : store'[id[d]] \in {d, NoCall} \/ Freed(id[d])'
      BY <3>1, <3>4, <3>5, <3>10, <1>h, <1>m DEF IdInv
    <3>12. ASSUME NEW d \in Holders \cap early, pc'[d] # "store"
           PROVE  store'[id[d]] = d \/ Freed(id[d])'
      <4>1. CASE d = c
        BY <3>1, <3>5, <4>1
      <4>2. CASE d # c /\ d = Pruned
        BY <3>3, <4>2, Constants DEF Holders, InProgress
      <4>3. CASE d # c /\ d # Pruned
        <5>1. d \in Calls /\ (store[id[d]] = d \/ Freed(id[d])')
          BY <3>1, <3>12, <4>3, <1>h, <1>m DEF IdInv, Holders, InProgress
        <5> QED
          BY <3>4, <3>5, <3>10, <3>12, <4>3, <5>1
      <4> QED
        BY <4>1, <4>2, <4>3
    <3> QED
      BY <3>1, <3>7, <3>8, <3>9, <3>11, <3>12 DEF IdInv
  <2>7. CASE Evict(c)
    BY <2>7, <1>h, <1>m DEF Evict, Goto, shelf, ghosts, IdInv, Holders, InProgress, Late,
        Over, CallTypes, ShelfTypes, PhaseInv
  <2>8. CASE SettleFailed(c)
    BY <2>8, <1>h, <1>m DEF SettleFailed, Goto, shelf, ghosts, IdInv, Holders, InProgress,
        Late, Over, CallTypes, ShelfTypes, PhaseInv
  <2>9. CASE Settle(c)
    BY <2>9, <1>h, <1>m DEF Settle, Goto, shelf, ghosts, IdInv, Holders, InProgress, Late,
        Over, CallTypes, ShelfTypes, PhaseInv
  <2>10. CASE Refresh(c)
    BY <2>10, <1>h, <1>m DEF Refresh, RemoveEntry, Goto, shelf, ghosts, IdInv, Holders,
        InProgress, Late, Over, CallTypes, ShelfTypes, PhaseInv
  <2>11. CASE FinishLate(c)
    BY <2>11, <1>h, <1>m DEF FinishLate, Goto, shelf, ghosts, IdInv, Holders, InProgress,
        Late, Over, CallTypes, ShelfTypes, PhaseInv
  <2>12. CASE Release(c)
    BY <2>12, <1>h, <1>m DEF Release, RemoveEntry, Goto, ghosts, IdInv, Holders, InProgress,
        Late, Over, CallTypes, ShelfTypes, PhaseInv
  <2> QED
    BY <1>1, <2>1, <2>2, <2>3, <2>4, <2>5, <2>6, <2>7, <2>8, <2>9, <2>10, <2>11, <2>12 DEF
        CallStep
<1>2. ASSUME NEW c \in Calls, TaskStep(c) \/ TerminateNext(c) \/ Abort(c) \/ Exits(c)
               \/ Blame(c) \/ RecordDenial(c)
      PROVE  IdInv'
  <2>1. CASE Abort(c)
    BY <2>1, <1>h, <1>m DEF Abort, Goto, shelf, IdInv, Holders, InProgress, Late, Over,
        CallTypes, ShelfTypes, PhaseInv
  <2>2. CASE ExitSeen(c) \/ StreamEnds(c) \/ WatcherEnds(c) \/ GuardKills(c)
               \/ GuardGivesUp(c) \/ TerminateNext(c) \/ Exits(c) \/ Blame(c)
               \/ RecordDenial(c)
    BY <2>2, <1>u DEF ExitSeen, StreamEnds, WatcherEnds, GuardKills, GuardGivesUp,
        TerminateNext, Exits, Blame, RecordDenial, calls, shelf, ghosts
  <2> QED
    BY <1>2, <2>1, <2>2 DEF TaskStep
<1>3. ASSUME WriteStep \/ WriteFails \/ WriteAbort \/ TerminateAll
      PROVE  IdInv'
  <2>1. CASE WriteRefresh
    BY <2>1, <1>h, <1>m DEF WriteRefresh, RemoveEntry, calls, shelf, ghosts, IdInv, Holders,
        InProgress, Late, Over, CallTypes, ShelfTypes, PhaseInv, AloneInv, NoWriter
  <2>2. CASE WriteRelease
    BY <2>2, <1>h, <1>m DEF WriteRelease, RemoveEntry, calls, ghosts, IdInv, Holders,
        InProgress, Late, Over, CallTypes, ShelfTypes, PhaseInv, AloneInv, NoWriter
  <2>3. CASE WriteFails
    BY <2>3, <1>h, <1>m DEF WriteFails, RemoveEntry, calls, shelf, ghosts, IdInv, Holders,
        InProgress, Late, Over, CallTypes, ShelfTypes, PhaseInv, AloneInv, NoWriter
  <2>4. CASE TerminateAll
    <3>1. \A c \in InProgress : Freed(id[c])'
      BY <2>4 DEF TerminateAll, Freed, calls
    <3>2. Holders' = Holders /\ Holders \subseteq InProgress /\ id' = id
      BY <2>4 DEF TerminateAll, Holders, InProgress, Late, calls
    <3>3. \A i \in Ids : store'[i] = NoCall
      BY <2>4 DEF TerminateAll
    <3> QED
      BY <3>1, <3>2, <3>3 DEF IdInv
  <2>5. CASE WriteSettle \/ WriteFinishLate \/ WriteAbort
    BY <2>5, <1>u DEF WriteSettle, WriteFinishLate, WriteAbort, calls, shelf, ghosts
  <2> QED
    BY <1>3, <2>1, <2>2, <2>3, <2>4, <2>5 DEF WriteStep
<1>4. ASSUME NEW c \in Calls, NEW i \in Ids, Allocate(c, i)
      PROVE  IdInv'
  <2>1. i \notin reserved /\ pc[c] = "idle" /\ c \notin Holders /\ c \notin early
    BY <1>4, <1>h DEF Allocate, FreeIds, Holders, InProgress, PhaseInv, Unopened
  <2>2. /\ Holders' = Holders \cup {c} /\ id'[c] = i /\ \A d \in Calls \ {c} : id'[d] = id[d] /\ pc'[d] = pc[d]
        /\ store' = store /\ early' = early /\ reserved' = reserved \cup {i}
    BY <1>4, <1>h DEF Allocate, Goto, Holders, InProgress, Late, Over, CallTypes
  <2>3. Holders \subseteq Calls \ {c} /\ \A d \in Holders : id[d] = i => Freed(i)'
    BY <2>1, <1>h, <1>m DEF IdInv, Holders, InProgress
  <2>4. store[i] = NoCall \/ Freed(i)'
    BY <2>1, <1>h, <1>m DEF IdInv
  <2>5. /\ \A j \in Ids : store'[j] # NoCall => j \in reserved' \/ Freed(j)'
        /\ \A d \in Holders' : id'[d] \in reserved' \/ Freed(id[d])'
        /\ \A d, e \in Holders' : d # e /\ id'[d] = id'[e] => Freed(id[d])'
    BY <2>2, <2>3, <1>h, <1>m DEF IdInv
  <2>6. \A d \in Holders' : store'[id'[d]] \in {d, NoCall} \/ Freed(id[d])'
    BY <2>2, <2>3, <2>4, <1>h, <1>m DEF IdInv
  <2>7. \A d \in Holders' \cap early' : pc'[d] # "store" => store'[id'[d]] = d \/ Freed(id[d])'
    BY <2>1, <2>2, <2>3, <1>h, <1>m DEF IdInv
  <2> QED
    BY <2>5, <2>6, <2>7 DEF IdInv
<1>5. ASSUME NEW i \in Ids, WritePrepare(i)
      PROVE  IdInv'
  BY <1>5, <1>u DEF WritePrepare, calls, ghosts
<1>6. CASE UNCHANGED vars
  BY <1>6, <1>u DEF vars, calls, shelf, ghosts
<1> QED
  BY <1>1, <1>2, <1>3, <1>4, <1>5, <1>6 DEF Next, Work

\* What leaves the store belongs to a call that is over, or to nobody in particular.
LEMMA TakenStep ==
  ASSUME IInv, [Next]_vars
  PROVE  TakenInv'
<1>h. CallTypes /\ ShelfTypes /\ ProcessTypes /\ PhaseInv /\ ProcessInv /\ EntryInv /\ IdInv /\ TakenInv
  BY DEF IInv, Types
<1>m. \A i : Freed(i) => Freed(i)'
  BY FreedStays
<1>u. UNCHANGED <<doomed, pc, early, id, taken, freed>> => TakenInv'
  BY <1>h DEF TakenInv, InProgress, Late, Freed
<1>1. ASSUME NEW c \in Calls, CallStep(c)
      PROVE  TakenInv'
  <2>1. CASE Reject(c)
    BY <2>1, <1>h, <1>m DEF Reject, Goto, ghosts, TakenInv, InProgress, Late, Over,
        CallTypes
  <2>2. CASE Register(c)
    BY <2>2, <1>h, <1>m DEF Register, Goto, ghosts, TakenInv, InProgress, Late, Over,
        CallTypes
  <2>3. CASE OpenFails(c)
    BY <2>3, <1>h, <1>m DEF OpenFails, Goto, ghosts, TakenInv, InProgress, Late, Over,
        CallTypes
  <2>4. CASE Open(c)
    BY <2>4, <1>h, <1>m DEF Open, Goto, ghosts, TakenInv, InProgress, Late, Over, CallTypes
  <2>5. CASE Begin(c)
    BY <2>5, <1>h, <1>m DEF Begin, NextAfterBegin, Goto, ghosts, TakenInv, InProgress, Late,
        Over, CallTypes
  <2>6. CASE StoreProcess(c)
    <3> PICK p : p = Pruned
      OBVIOUS
    <3>1. /\ id' = id /\ early' = early /\ doomed' = doomed /\ InProgress' \subseteq InProgress
          /\ \A d \in Calls \ {c} : pc'[d] = pc[d] /\ taken'[d] = taken[d]
          /\ pc'[c] # "late" /\ taken'[c] = p
      BY <2>6, <1>h DEF StoreProcess, Goto, InProgress, Over, CallTypes
    <3>2. p \in InProgress' => Freed(id[p])'
      BY <2>6, <3>1 DEF StoreProcess, Freed
    <3> QED
      BY <3>1, <3>2, <1>h, <1>m DEF TakenInv, Late
  <2>7. CASE Evict(c)
    BY <2>7, <1>h, <1>m DEF Evict, Goto, ghosts, TakenInv, InProgress, Late, Over, CallTypes
  <2>8. CASE SettleFailed(c)
    BY <2>8, <1>h, <1>m DEF SettleFailed, Goto, ghosts, TakenInv, InProgress, Late, Over,
        CallTypes
  <2>9. CASE Settle(c)
    BY <2>9, <1>h, <1>m DEF Settle, Goto, ghosts, TakenInv, InProgress, Late, Over,
        CallTypes
  <2>10. CASE Refresh(c)
    <3>1. /\ id' = id /\ early' = early /\ doomed' = doomed /\ InProgress' \subseteq InProgress
          /\ \A d \in Calls \ {c} : pc'[d] = pc[d] /\ taken'[d] = taken[d]
          /\ pc'[c] # "evict"
          /\ pc'[c] = "late" => store[id[c]] \in exited /\ taken'[c] = store[id[c]]
      BY <2>10, <1>h DEF Refresh, Goto, InProgress, Over, CallTypes
    <3>2. c \in Holders /\ id[c] \in Ids
      BY <2>10, <1>h DEF Refresh, Holders, Late, InProgress, Over, PhaseInv
    <3>3. pc'[c] = "late" => id[taken'[c]] = id[c] /\ (taken'[c] = c \/ Freed(id[c])')
      BY <3>1, <3>2, <1>h, <1>m, Constants DEF EntryInv, IdInv, ProcessTypes
    <3> QED
      BY <3>1, <3>3, <1>h, <1>m DEF TakenInv, Late
  <2>11. CASE FinishLate(c)
    BY <2>11, <1>h, <1>m DEF FinishLate, Goto, ghosts, TakenInv, InProgress, Late, Over,
        CallTypes
  <2>12. CASE Release(c)
    BY <2>12, <1>h, <1>m DEF Release, Goto, ghosts, TakenInv, InProgress, Late, Over,
        CallTypes
  <2> QED
    BY <1>1, <2>1, <2>2, <2>3, <2>4, <2>5, <2>6, <2>7, <2>8, <2>9, <2>10, <2>11, <2>12 DEF
        CallStep
<1>2. ASSUME NEW c \in Calls, TaskStep(c) \/ TerminateNext(c) \/ Abort(c) \/ Exits(c)
               \/ Blame(c) \/ RecordDenial(c)
      PROVE  TakenInv'
  <2>1. CASE TerminateNext(c)
    BY <2>1, <1>h, <1>m DEF TerminateNext, calls, ghosts, TakenInv, InProgress, Late, Over,
        CallTypes
  <2>2. CASE Abort(c)
    BY <2>2, <1>h, <1>m DEF Abort, Goto, TakenInv, InProgress, Late, Over, CallTypes
  <2>3. CASE ExitSeen(c) \/ StreamEnds(c) \/ WatcherEnds(c) \/ GuardKills(c)
               \/ GuardGivesUp(c) \/ Exits(c) \/ Blame(c) \/ RecordDenial(c)
    BY <2>3, <1>u DEF ExitSeen, StreamEnds, WatcherEnds, GuardKills, GuardGivesUp, Exits,
        Blame, RecordDenial, calls, ghosts
  <2> QED
    BY <1>2, <2>1, <2>2, <2>3 DEF TaskStep
<1>3. ASSUME WriteStep \/ WriteFails \/ WriteAbort \/ TerminateAll
      PROVE  TakenInv'
  <2>1. CASE TerminateAll
    <3>1. \A c \in InProgress : Freed(id[c])'
      BY <2>1 DEF TerminateAll, Freed, calls
    <3> QED
      BY <2>1, <3>1, <1>h, <1>m DEF TerminateAll, TakenInv, InProgress, Late, calls
  <2>2. CASE WriteSettle \/ WriteRefresh \/ WriteFinishLate \/ WriteRelease \/ WriteFails
               \/ WriteAbort
    BY <2>2, <1>u DEF WriteSettle, WriteRefresh, WriteFinishLate, WriteRelease, WriteFails,
        WriteAbort, calls, ghosts
  <2> QED
    BY <1>3, <2>1, <2>2 DEF WriteStep
<1>4. ASSUME NEW c \in Calls, NEW i \in Ids, Allocate(c, i)
      PROVE  TakenInv'
  BY <1>4, <1>h, <1>m DEF Allocate, Goto, ghosts, TakenInv, InProgress, Late, Over,
      CallTypes, ProcessInv, PhaseInv, Unopened
<1>5. ASSUME NEW i \in Ids, WritePrepare(i)
      PROVE  TakenInv'
  BY <1>5, <1>u DEF WritePrepare, calls, ghosts
<1>6. CASE UNCHANGED vars
  BY <1>6, <1>u DEF vars, calls, ghosts
<1> QED
  BY <1>1, <1>2, <1>3, <1>4, <1>5, <1>6 DEF Next, Work

\* A denial is not lost before the call that it is about has been told.
LEMMA DenialStep ==
  ASSUME IInv, [Next]_vars
  PROVE  DenialInv'
<1>h. CallTypes /\ NetTypes /\ PhaseInv /\ EntryInv /\ AloneInv /\ IdInv /\ TakenInv /\ DenialInv
  BY DEF IInv, Types
<1>m. \A i : Freed(i) => Freed(i)'
  BY FreedStays
<1>e. \A c \in Holders : store[id[c]] \notin {c, NoCall} => Freed(id[store[id[c]]])
  BY <1>h DEF IdInv, EntryInv, PhaseInv, Holders, InProgress
<1>u. UNCHANGED <<active, cell, denied, pc, outcomes, id, freed>> => DenialInv'
  BY <1>h DEF DenialInv, InProgress, Freed
<1>1. ASSUME NEW c \in Calls, CallStep(c)
      PROVE  DenialInv'
  <2>1. CASE Reject(c)
    <3>1. PICK x : x = store[id[c]]
      OBVIOUS
    <3>2. cell' = cell /\ active' \subseteq active /\ outcomes \ {x} \subseteq outcomes'
      BY <2>1, <3>1 DEF Reject, Unregister, approvals
    <3>3. x # c /\ x \in Calls => Freed(id[x])'
      BY <2>1, <3>1, <1>e, <1>h, <1>m, Constants DEF Reject, Holders, Late, InProgress, Over,
          PhaseInv
    <3>4. \A d \in Calls : pc'[d] = pc[d] \/ d = c
      BY <2>1, <1>h DEF Reject, Goto, CallTypes
    <3>5. denied' = denied /\ id' = id /\ pc'[c] = "failed"
      BY <2>1, <1>h DEF Reject, proxy, Goto, CallTypes, Over, InProgress
    <3>6. ASSUME NEW d \in Calls, d # c
          PROVE  d \in denied' /\ (d \in InProgress' \/ pc'[d] = "exited") =>
                   cell'[d] = "denied" \/ (cell'[d] = "unset" /\ d \in outcomes') \/ Freed(id[d])'
      BY <3>2, <3>3, <3>4, <3>5, <3>6, <1>h, <1>m DEF DenialInv, InProgress
    <3> QED
      BY <2>1, <3>2, <3>4, <3>5, <3>6, <1>h, <1>m DEF DenialInv, InProgress, Over, Reject
  <2>2. CASE Register(c)
    BY <2>2, <1>h, <1>m DEF Register, Goto, proxy, ghosts, DenialInv, InProgress, Over,
        CallTypes, NetTypes
  <2>3. CASE OpenFails(c)
    BY <2>3, <1>h, <1>m DEF OpenFails, Finish, Goto, approvals, proxy, ghosts, DenialInv,
        InProgress, Over, CallTypes, NetTypes
  <2>4. CASE Open(c)
    BY <2>4, <1>h, <1>m DEF Open, Goto, approvals, proxy, ghosts, DenialInv, InProgress,
        Over, CallTypes, NetTypes
  <2>5. CASE Begin(c)
    BY <2>5, <1>h, <1>m DEF Begin, NextAfterBegin, Goto, approvals, proxy, ghosts,
        DenialInv, InProgress, Over, CallTypes, NetTypes
  <2>6. CASE StoreProcess(c)
    BY <2>6, <1>h, <1>m DEF StoreProcess, Goto, approvals, proxy, DenialInv, InProgress,
        Over, CallTypes, NetTypes
  <2>7. CASE Evict(c)
    BY <2>7, <1>h, <1>m DEF Evict, Unregister, Goto, proxy, ghosts, DenialInv, InProgress,
        Over, CallTypes, NetTypes, TakenInv
  <2>8. CASE SettleFailed(c)
    BY <2>8, <1>h, <1>m DEF SettleFailed, Finish, Goto, approvals, proxy, ghosts, DenialInv,
        InProgress, Over, CallTypes, NetTypes
  <2>9. CASE Settle(c)
    BY <2>9, <1>h, <1>m DEF Settle, Goto, approvals, proxy, ghosts, DenialInv, InProgress,
        Over, CallTypes, NetTypes
  <2>10. CASE Refresh(c)
    BY <2>10, <1>h, <1>m DEF Refresh, Goto, approvals, proxy, ghosts, DenialInv, InProgress,
        Over, CallTypes, NetTypes
  <2>11. CASE FinishLate(c)
    BY <2>11, <1>h, <1>m DEF FinishLate, Finish, Goto, approvals, proxy, ghosts, DenialInv,
        InProgress, Over, CallTypes, NetTypes
  <2>12. CASE Release(c)
    <3>1. PICK x : x = store[id[c]]
      OBVIOUS
    <3>2. cell' = cell /\ active' \subseteq active /\ outcomes \ {x} \subseteq outcomes'
      BY <2>12, <3>1 DEF Release, Unregister, approvals
    <3>3. x # c /\ x \in Calls => Freed(id[x])'
      BY <2>12, <3>1, <1>e, <1>h, <1>m, Constants DEF Release, Holders, Late, InProgress, Over,
          PhaseInv
    <3>4. \A d \in Calls : pc'[d] = pc[d] \/ d = c
      BY <2>12, <1>h DEF Release, Goto, CallTypes
    <3>5. denied' = denied /\ id' = id /\ pc'[c] = IF pc[c] = "release_exited" THEN "exited" ELSE "failed"
      BY <2>12, <1>h DEF Release, proxy, Goto, CallTypes, Over, InProgress
    <3>6. ASSUME NEW d \in Calls, d # c
          PROVE  d \in denied' /\ (d \in InProgress' \/ pc'[d] = "exited") =>
                   cell'[d] = "denied" \/ (cell'[d] = "unset" /\ d \in outcomes') \/ Freed(id[d])'
      BY <3>2, <3>3, <3>4, <3>5, <3>6, <1>h, <1>m DEF DenialInv, InProgress
    <3> QED
      BY <2>12, <3>2, <3>4, <3>5, <3>6, <1>h, <1>m DEF DenialInv, InProgress, Over, Release
  <2> QED
    BY <1>1, <2>1, <2>2, <2>3, <2>4, <2>5, <2>6, <2>7, <2>8, <2>9, <2>10, <2>11, <2>12 DEF
        CallStep
<1>2. ASSUME NEW c \in Calls, TaskStep(c) \/ TerminateNext(c) \/ Abort(c) \/ Exits(c)
               \/ Blame(c) \/ RecordDenial(c)
      PROVE  DenialInv'
  <2>1. CASE GuardKills(c)
    BY <2>1, <1>h, <1>m DEF GuardKills, Finish, calls, approvals, proxy, ghosts, DenialInv,
        InProgress, Over, CallTypes, NetTypes
  <2>2. CASE TerminateNext(c)
    BY <2>2, <1>h, <1>m DEF TerminateNext, Unregister, calls, proxy, ghosts, DenialInv,
        InProgress, Over, CallTypes, NetTypes, TakenInv
  <2>3. CASE Abort(c)
    BY <2>3, <1>h, <1>m DEF Abort, Goto, approvals, proxy, DenialInv, InProgress, Over,
        CallTypes, NetTypes
  <2>4. CASE RecordDenial(c)
    BY <2>4, <1>h, <1>m DEF RecordDenial, calls, ghosts, DenialInv, InProgress, Over,
        CallTypes, NetTypes
  <2>5. CASE ExitSeen(c) \/ StreamEnds(c) \/ WatcherEnds(c) \/ GuardGivesUp(c) \/ Exits(c)
               \/ Blame(c)
    BY <2>5, <1>u DEF ExitSeen, StreamEnds, WatcherEnds, GuardGivesUp, Exits, Blame, calls,
        approvals, proxy, ghosts
  <2> QED
    BY <1>2, <2>1, <2>2, <2>3, <2>4, <2>5 DEF TaskStep
<1>3. ASSUME WriteStep \/ WriteFails \/ WriteAbort \/ TerminateAll
      PROVE  DenialInv'
  <2>1. CASE WriteSettle
    BY <2>1, <1>h, <1>m DEF WriteSettle, Finish, calls, approvals, proxy, ghosts, DenialInv,
        InProgress, Over, CallTypes, NetTypes
  <2>2. CASE WriteFinishLate
    BY <2>2, <1>h, <1>m DEF WriteFinishLate, Finish, calls, approvals, proxy, ghosts,
        DenialInv, InProgress, Over, CallTypes, NetTypes
  <2>3. CASE WriteRelease
    BY <2>3, <1>h, <1>m DEF WriteRelease, Unregister, calls, proxy, ghosts, DenialInv,
        InProgress, Over, CallTypes, NetTypes, AloneInv, NoWriter
  <2>4. CASE TerminateAll
    BY <2>4, <1>h, <1>m DEF TerminateAll, calls, approvals, proxy, DenialInv, InProgress,
        Over, CallTypes, NetTypes
  <2>5. CASE WriteRefresh \/ WriteFails \/ WriteAbort
    BY <2>5, <1>u DEF WriteRefresh, WriteFails, WriteAbort, calls, approvals, proxy, ghosts
  <2> QED
    BY <1>3, <2>1, <2>2, <2>3, <2>4, <2>5 DEF WriteStep
<1>4. ASSUME NEW c \in Calls, NEW i \in Ids, Allocate(c, i)
      PROVE  DenialInv'
  BY <1>4, <1>h, <1>m DEF Allocate, Goto, approvals, proxy, ghosts, DenialInv, InProgress,
      Over, CallTypes, NetTypes
<1>5. ASSUME NEW i \in Ids, WritePrepare(i)
      PROVE  DenialInv'
  BY <1>5, <1>u DEF WritePrepare, calls, approvals, proxy, ghosts
<1>6. CASE UNCHANGED vars
  BY <1>6, <1>u DEF vars, calls, approvals, proxy, ghosts
<1> QED
  BY <1>1, <1>2, <1>3, <1>4, <1>5, <1>6 DEF Next, Work

\* write_stdin works on the entry it prepared.
LEMMA WriterStep ==
  ASSUME IInv, [Next]_vars
  PROVE  WriterInv'
<1>h. ShelfTypes /\ ProcessTypes /\ NetTypes /\ WriterTypes /\ AloneInv /\ DenialInv /\ WriterInv
  BY DEF IInv, Types
<1>w. \A c \in InProgress : writer = NoWriter
  BY <1>h DEF AloneInv
<1>u. UNCHANGED <<writer, store, exited, cell, doomed, running, active>> => WriterInv'
  BY <1>h DEF WriterInv, WriterTypes, NoWriter, ShelfTypes, ProcessTypes, NetTypes
<1>1. ASSUME NEW c \in Calls, CallStep(c)
      PROVE  WriterInv'
  <2>1. CASE Reject(c)
    <3>1. c \in InProgress /\ writer' = writer
      BY <2>1 DEF Reject, InProgress, Over
    <3> QED
      BY <3>1, <1>w DEF WriterInv
  <2>2. CASE Register(c)
    <3>1. c \in InProgress /\ writer' = writer
      BY <2>2 DEF Register, InProgress, Over
    <3> QED
      BY <3>1, <1>w DEF WriterInv
  <2>3. CASE OpenFails(c)
    <3>1. c \in InProgress /\ writer' = writer
      BY <2>3 DEF OpenFails, InProgress, Over
    <3> QED
      BY <3>1, <1>w DEF WriterInv
  <2>4. CASE Open(c)
    <3>1. c \in InProgress /\ writer' = writer
      BY <2>4 DEF Open, InProgress, Over
    <3> QED
      BY <3>1, <1>w DEF WriterInv
  <2>5. CASE StoreProcess(c)
    <3>1. c \in InProgress /\ writer' = writer
      BY <2>5 DEF StoreProcess, InProgress, Over
    <3> QED
      BY <3>1, <1>w DEF WriterInv
  <2>6. CASE Evict(c)
    <3>1. c \in InProgress /\ writer' = writer
      BY <2>6 DEF Evict, InProgress, Over
    <3> QED
      BY <3>1, <1>w DEF WriterInv
  <2>7. CASE SettleFailed(c)
    <3>1. c \in InProgress /\ writer' = writer
      BY <2>7 DEF SettleFailed, InProgress, Over
    <3> QED
      BY <3>1, <1>w DEF WriterInv
  <2>8. CASE Refresh(c)
    <3>1. c \in InProgress /\ writer' = writer
      BY <2>8 DEF Refresh, InProgress, Over
    <3> QED
      BY <3>1, <1>w DEF WriterInv
  <2>9. CASE FinishLate(c)
    <3>1. c \in InProgress /\ writer' = writer
      BY <2>9 DEF FinishLate, InProgress, Over
    <3> QED
      BY <3>1, <1>w DEF WriterInv
  <2>10. CASE Release(c)
    <3>1. c \in InProgress /\ writer' = writer
      BY <2>10 DEF Release, InProgress, Over
    <3> QED
      BY <3>1, <1>w DEF WriterInv
  <2>11. CASE Begin(c) \/ Settle(c)
    BY <2>11, <1>u DEF Begin, Settle, shelf, process, approvals
  <2> QED
    BY <1>1, <2>1, <2>2, <2>3, <2>4, <2>5, <2>6, <2>7, <2>8, <2>9, <2>10, <2>11 DEF CallStep
<1>2. ASSUME NEW c \in Calls, TaskStep(c) \/ TerminateNext(c) \/ Abort(c) \/ Exits(c)
               \/ Blame(c) \/ RecordDenial(c)
      PROVE  WriterInv'
  <2>1. CASE ExitSeen(c)
    BY <2>1, <1>h DEF ExitSeen, shelf, approvals, WriterInv, WriterTypes, NoWriter,
        ShelfTypes, ProcessTypes, NetTypes
  <2>2. CASE GuardKills(c)
    BY <2>2, <1>h DEF GuardKills, Finish, FailAndTerminate, shelf, approvals, WriterInv,
        WriterTypes, NoWriter, ShelfTypes, ProcessTypes, NetTypes
  <2>3. CASE TerminateNext(c)
    BY <2>3, <1>h DEF TerminateNext, Unregister, Terminate, shelf, WriterInv, WriterTypes,
        NoWriter, ShelfTypes, ProcessTypes, NetTypes
  <2>4. CASE Abort(c)
    <3>1. c \in InProgress /\ writer' = writer
      BY <2>4 DEF Abort, InProgress, Over
    <3> QED
      BY <3>1, <1>w DEF WriterInv
  <2>5. CASE Exits(c)
    BY <2>5, <1>h DEF Exits, shelf, approvals, WriterInv, WriterTypes, NoWriter, ShelfTypes,
        ProcessTypes, NetTypes
  <2>6. CASE StreamEnds(c) \/ WatcherEnds(c) \/ GuardGivesUp(c) \/ Blame(c)
               \/ RecordDenial(c)
    BY <2>6, <1>u DEF StreamEnds, WatcherEnds, GuardGivesUp, Blame, RecordDenial, shelf,
        process, approvals
  <2> QED
    BY <1>2, <2>1, <2>2, <2>3, <2>4, <2>5, <2>6 DEF TaskStep
<1>3. ASSUME WriteStep \/ WriteFails \/ WriteAbort \/ TerminateAll
      PROVE  WriterInv'
  <2>1. CASE WriteSettle
    BY <2>1, <1>h DEF WriteSettle, Finish, shelf, process, approvals, WriterInv,
        WriterTypes, NoWriter, ShelfTypes, ProcessTypes, NetTypes
  <2>2. CASE WriteRefresh
    <3>1. CASE store[writer.id] \in exited
      <4>1. writer' = [pc |-> "late", id |-> writer.id, call |-> store[writer.id]] /\ writer.id \in Ids
        BY <2>2, <3>1, <1>h, EntryTaken
      <4>2. store'[writer.id] = NoCall /\ exited' = exited
        BY <2>2, <3>1, <4>1, <1>h DEF WriteRefresh, RemoveEntry, ShelfTypes, process
      <4> QED
        BY <3>1, <4>1, <4>2 DEF WriterInv
    <3> QED
      BY <2>2, <3>1 DEF WriteRefresh, WriterInv
  <2>3. CASE WriteFinishLate
    BY <2>3, <1>h DEF WriteFinishLate, Finish, FailAndTerminate, shelf, process, approvals,
        WriterInv, WriterTypes, NoWriter, ShelfTypes, ProcessTypes, NetTypes
  <2>4. CASE WriteRelease
    BY <2>4, <1>h DEF WriteRelease, RemoveEntry, Unregister, FailAndTerminate, WriterInv,
        WriterTypes, NoWriter, ShelfTypes, ProcessTypes, NetTypes
  <2>5. CASE WriteFails
    <3>w. writer # NoWriter /\ writer.pc = "collect"
      BY <2>5 DEF WriteFails, NoWriter
    <3>1. CASE store[writer.id] \in exited
      <4>1. writer' = [writer EXCEPT !.pc = "gone"] /\ RemoveEntry(writer.id) /\ exited' = exited
        BY <2>5, <3>1 DEF WriteFails, process
      <4>2. writer'.pc = "gone" /\ writer'.id = writer.id /\ writer'.call = writer.call
        BY <3>w, <4>1, <1>h, WriterMoves
      <4>3. store'[writer.id] = NoCall /\ store[writer.id] = writer.call
        BY <3>w, <3>1, <4>1, <1>h, WriterFields, Constants DEF RemoveEntry, ShelfTypes,
            ProcessTypes, WriterInv
      <4> QED
        BY <3>1, <4>1, <4>2, <4>3 DEF WriterInv
    <3> QED
      BY <2>5, <3>1 DEF WriteFails, WriterInv
  <2>6. CASE WriteAbort
    BY <2>6, <1>h DEF WriteAbort, Terminate, shelf, approvals, WriterInv, WriterTypes,
        NoWriter, ShelfTypes, ProcessTypes, NetTypes
  <2>7. CASE TerminateAll
    <3>1. /\ writer' = writer /\ exited' = exited /\ cell' = cell /\ running' = running /\ active' = active
          /\ doomed = {} /\ doomed' = Stored /\ \A i \in Ids : store'[i] = NoCall
      BY <2>7 DEF TerminateAll, process, approvals
    <3>2. writer # NoWriter /\ store[writer.id] = writer.call => writer.call \in Stored
      BY <1>h, WriterFields, StoredAreCalls, Constants
    <3> QED
      BY <3>1, <3>2, <1>h, WriterFields DEF WriterInv
  <2> QED
    BY <1>3, <2>1, <2>2, <2>3, <2>4, <2>5, <2>6, <2>7 DEF WriteStep
<1>4. ASSUME NEW c \in Calls, NEW i \in Ids, Allocate(c, i)
      PROVE  WriterInv'
  BY <1>4, <1>u DEF Allocate, process, approvals
<1>5. ASSUME NEW i \in Ids, WritePrepare(i)
      PROVE  WriterInv'
  BY <1>5, <1>h DEF WritePrepare, process, approvals, WriterInv, WriterTypes, NoWriter,
      ShelfTypes, ProcessTypes, NetTypes
<1>6. CASE UNCHANGED vars
  BY <1>6, <1>u DEF vars, shelf, process, approvals
<1> QED
  BY <1>1, <1>2, <1>3, <1>4, <1>5, <1>6 DEF Next, Work

\* Whoever lets go of a process or of a registration leaves it to another or ends it.
LEMMA TrackedStep ==
  ASSUME IInv, [Next]_vars
  PROVE  Tracked'
<1>h. CallTypes /\ ShelfTypes /\ ProcessTypes /\ NetTypes /\ WriterTypes /\ PhaseInv /\ ProcessInv
      /\ EntryInv /\ IdInv /\ TakenInv /\ DenialInv /\ WriterInv /\ Tracked
  BY DEF IInv, Types
<1>m. \A i : Freed(i) => Freed(i)'
  BY FreedStays
<1>e. \A c \in Holders : store[id[c]] \notin {c, NoCall} => Freed(id[store[id[c]]])
  BY <1>h DEF IdInv, EntryInv, PhaseInv, Holders, InProgress
<1>l. writer.pc \in {"collect", "refresh"} =>
        writer.call \in Stored \cup doomed \/ writer.call \notin running \cup active
  BY <1>h, WriterFields, StoredAreCalls, Constants DEF WriterInv, NoWriter
<1>u. UNCHANGED <<running, active, pc, store, doomed, writer, taken, unstored, id, freed>> => Tracked'
  BY <1>h DEF Tracked, InHands, InProgress, Stored, Freed
<1>1. ASSUME NEW c \in Calls, CallStep(c)
      PROVE  Tracked'
  <2>1. CASE Reject(c)
    <3>1. /\ id' = id /\ doomed' = doomed /\ writer' = writer /\ unstored' = unstored
          /\ running' \subseteq running /\ active' \subseteq active
          /\ \A d \in Calls \ {c} : pc'[d] = pc[d] /\ taken'[d] = taken[d]
          /\ taken' = taken /\ pc[c] = "reserved"
      BY <2>1, <1>h DEF Reject, Unregister, process, approvals, ghosts, Goto, CallTypes
    <3>2. c \notin running \cup active
      BY <3>1, <1>h DEF ProcessInv, DenialInv, Unopened
    <3>3. c \in Holders /\ id[c] \in Ids
      BY <3>1, <1>h DEF Holders, Late, InProgress, Over, PhaseInv
    <3>4. \A x \in Stored : x \in Stored' \/ x = c \/ Freed(id[x])
      <4>1. CASE RemoveEntry(id[c])
        BY <3>3, <4>1, <1>h, <1>e, OthersStay, StoredAreCalls, Constants
      <4>2. CASE UNCHANGED shelf
        BY <4>2 DEF shelf, Stored
      <4> QED
        BY <2>1, <4>1, <4>2 DEF Reject
    <3> QED
      BY <3>1, <3>2, <3>4, <1>h, <1>m DEF Tracked, InHands, InProgress
  <2>2. CASE Register(c)
    BY <2>2, <1>h, <1>m DEF Register, Goto, shelf, process, ghosts, Tracked, InHands,
        InProgress, Stored, Over, CallTypes, ShelfTypes
  <2>3. CASE OpenFails(c)
    BY <2>3, <1>h, <1>m DEF OpenFails, Finish, Goto, shelf, process, approvals, ghosts,
        Tracked, InHands, InProgress, Stored, Over, CallTypes, ShelfTypes
  <2>4. CASE Open(c)
    BY <2>4, <1>h, <1>m DEF Open, Goto, shelf, approvals, ghosts, Tracked, InHands,
        InProgress, Stored, Over, CallTypes, ShelfTypes
  <2>5. CASE Begin(c)
    BY <2>5, <1>h, <1>m DEF Begin, NextAfterBegin, Goto, process, approvals, ghosts,
        Tracked, InHands, InProgress, Stored, Over, CallTypes, ShelfTypes
  <2>6. CASE StoreProcess(c)
    <3> PICK p : p = Pruned
      OBVIOUS
    <3>1. /\ id' = id /\ doomed' = doomed /\ writer' = writer /\ unstored' = unstored
          /\ running' \subseteq running /\ active' \subseteq active
          /\ \A d \in Calls \ {c} : pc'[d] = pc[d] /\ taken'[d] = taken[d]
          /\ taken[c] = NoCall /\ taken'[c] = p /\ pc[c] = "store" /\ pc'[c] \in {"collect", "evict"}
      BY <2>6, <1>h DEF StoreProcess, Terminate, approvals, Goto, CallTypes, PhaseInv, Late
    <3>2. c \in Holders /\ id[c] \in Ids
      BY <3>1, <1>h DEF Holders, Late, InProgress, Over, PhaseInv
    <3>3. \A x \in Stored : x \in Stored' \/ x = c \/ x = p \/ Freed(id[x])
      <4>1. ASSUME NEW x \in Stored, x # c, x # p
            PROVE  x \in Stored' \/ Freed(id[x])
        <5>1. PICK j \in Ids : store[j] = x /\ x # NoCall
          BY <1>h, StoredAreCalls
        <5>2. CASE j = id[c]
          BY <3>2, <4>1, <5>1, <5>2, <1>e
        <5>3. CASE j # id[c]
          BY <2>6, <4>1, <5>1, <5>3 DEF StoreProcess, Stored
        <5> QED
          BY <5>2, <5>3
      <4> QED
        BY <4>1
    <3> QED
      BY <3>1, <3>3, <1>h, <1>m, Constants DEF Tracked, InHands, InProgress, Over,
          ProcessTypes, NetTypes
  <2>7. CASE Evict(c)
    BY <2>7, <1>h, <1>m DEF Evict, Unregister, Terminate, Goto, shelf, ghosts, Tracked,
        InHands, InProgress, Stored, Over, CallTypes, ShelfTypes
  <2>8. CASE SettleFailed(c)
    BY <2>8, <1>h, <1>m DEF SettleFailed, Finish, Goto, shelf, process, approvals, ghosts,
        Tracked, InHands, InProgress, Stored, Over, CallTypes, ShelfTypes
  <2>9. CASE Settle(c)
    BY <2>9, <1>h, <1>m DEF Settle, Goto, shelf, process, approvals, ghosts, Tracked,
        InHands, InProgress, Stored, Over, CallTypes, ShelfTypes
  <2>10. CASE Refresh(c)
    <3>1. /\ id' = id /\ doomed' = doomed /\ writer' = writer /\ unstored' = unstored
          /\ running' \subseteq running /\ active' \subseteq active
          /\ \A d \in Calls \ {c} : pc'[d] = pc[d] /\ taken'[d] = taken[d]
          /\ taken[c] = NoCall /\ pc[c] = "refresh" /\ c \in early
      BY <2>10, <1>h DEF Refresh, process, approvals, tasks, ghosts, Goto, CallTypes, PhaseInv,
          Late
    <3>2. c \in Holders /\ id[c] \in Ids
      BY <3>1, <1>h DEF Holders, Late, InProgress, Over, PhaseInv
    <3>3. CASE store[id[c]] \in exited
      <4>1. pc'[c] = "late" /\ taken'[c] = store[id[c]] /\ RemoveEntry(id[c])
        BY <2>10, <3>3, <1>h DEF Refresh, Goto, CallTypes
      <4>2. \A x \in Stored : x \in Stored' \/ x = taken'[c]
        BY <3>2, <4>1, <1>h, OthersStay
      <4> QED
        BY <3>1, <4>1, <4>2, <1>h, <1>m, Constants DEF Tracked, InHands, InProgress, Over,
            ProcessTypes, NetTypes
    <3>4. CASE store[id[c]] \notin exited
      <4>1. taken' = taken /\ Stored' = Stored
        BY <2>10, <3>4 DEF Refresh, shelf, Stored
      <4>2. c \in Stored \/ Freed(id[c])
        BY <3>1, <3>2, <1>h, StoredAreCalls, Constants DEF IdInv
      <4> QED
        BY <3>1, <4>1, <4>2, <1>h, <1>m DEF Tracked, InHands, InProgress
    <3> QED
      BY <3>3, <3>4
  <2>11. CASE FinishLate(c)
    <3>1. /\ id' = id /\ doomed' = doomed /\ writer' = writer /\ unstored' = unstored
          /\ running' \subseteq running /\ active' \subseteq active
          /\ \A d \in Calls \ {c} : pc'[d] = pc[d] /\ taken'[d] = taken[d]
          /\ Stored' = Stored /\ pc[c] = "late" /\ taken'[c] = NoCall /\ c \notin active'
      BY <2>11, <1>h DEF FinishLate, Finish, FailAndTerminate, process, approvals, ghosts,
          Goto, CallTypes, shelf, Stored, DenialInv
    <3>2. CASE c \in early
      <4>1. /\ taken[c] \notin running'
            /\ id[taken[c]] = id[c] /\ (taken[c] = c \/ Freed(id[c]))
        BY <3>1, <3>2, <1>h DEF PhaseInv, ProcessInv, TakenInv, Late
      <4> QED
        BY <3>1, <4>1, <1>h, <1>m, Constants DEF Tracked, InHands, InProgress, ProcessTypes,
            NetTypes
    <3>3. CASE c \notin early
      <4>1. taken[c] = NoCall /\ pc'[c] \in {"release_killed", "release_exited"}
        BY <2>11, <3>1, <3>3, <1>h DEF FinishLate, PhaseInv, Late, Goto, CallTypes
      <4> QED
        BY <3>1, <4>1, <1>h, <1>m, Constants DEF Tracked, InHands, InProgress, Over,
            ProcessTypes, NetTypes
    <3> QED
      BY <3>2, <3>3
  <2>12. CASE Release(c)
    <3>1. /\ id' = id /\ doomed' = doomed /\ writer' = writer /\ unstored' = unstored
          /\ running' \subseteq running /\ active' \subseteq active
          /\ \A d \in Calls \ {c} : pc'[d] = pc[d] /\ taken'[d] = taken[d]
          /\ taken' = taken /\ RemoveEntry(id[c])
      BY <2>12, <1>h DEF Release, Unregister, FailAndTerminate, process, ghosts, Goto, CallTypes
    <3>2. c \notin running' \cup active'
      <4>1. cell[c] # "unset" /\ c \notin active
        BY <2>12, <1>h DEF Release, DenialInv
      <4>2. CASE pc[c] = "release_killed"
        BY <2>12, <3>1, <4>1, <4>2 DEF Release, FailAndTerminate
      <4>3. CASE pc[c] # "release_killed"
        BY <2>12, <3>1, <4>1, <4>3, <1>h DEF Release, ProcessInv, PhaseInv, Unopened
      <4> QED
        BY <4>2, <4>3
    <3>3. c \in Holders /\ id[c] \in Ids
      BY <2>12, <1>h DEF Release, Holders, Late, InProgress, Over, PhaseInv
    <3>4. \A x \in Stored : x \in Stored' \/ x = c \/ Freed(id[x])
      BY <3>1, <3>3, <1>h, <1>e, OthersStay, StoredAreCalls, Constants
    <3> QED
      BY <3>1, <3>2, <3>4, <1>h, <1>m DEF Tracked, InHands, InProgress
  <2> QED
    BY <1>1, <2>1, <2>2, <2>3, <2>4, <2>5, <2>6, <2>7, <2>8, <2>9, <2>10, <2>11, <2>12 DEF
        CallStep
<1>2. ASSUME NEW c \in Calls, TaskStep(c) \/ TerminateNext(c) \/ Abort(c) \/ Exits(c)
               \/ Blame(c) \/ RecordDenial(c)
      PROVE  Tracked'
  <2>1. CASE GuardKills(c)
    BY <2>1, <1>h, <1>m DEF GuardKills, Finish, FailAndTerminate, calls, shelf, approvals,
        ghosts, Tracked, InHands, InProgress, Stored, Over, CallTypes, ShelfTypes
  <2>2. CASE TerminateNext(c)
    BY <2>2, <1>h, <1>m DEF TerminateNext, Unregister, Terminate, calls, shelf, ghosts,
        Tracked, InHands, InProgress, Stored, Over, CallTypes, ShelfTypes
  <2>3. CASE Abort(c)
    BY <2>3, <1>h, <1>m DEF Abort, Terminate, Goto, shelf, approvals, Tracked, InHands,
        InProgress, Stored, Over, CallTypes, ShelfTypes
  <2>4. CASE Exits(c)
    BY <2>4, <1>h, <1>m DEF Exits, calls, shelf, approvals, ghosts, Tracked, InHands,
        InProgress, Stored, Over, CallTypes, ShelfTypes
  <2>5. CASE ExitSeen(c) \/ StreamEnds(c) \/ WatcherEnds(c) \/ GuardGivesUp(c) \/ Blame(c)
               \/ RecordDenial(c)
    BY <2>5, <1>u DEF ExitSeen, StreamEnds, WatcherEnds, GuardGivesUp, Blame, RecordDenial,
        calls, shelf, process, approvals, ghosts
  <2> QED
    BY <1>2, <2>1, <2>2, <2>3, <2>4, <2>5 DEF TaskStep
<1>3. ASSUME WriteStep \/ WriteFails \/ WriteAbort \/ TerminateAll
      PROVE  Tracked'
  <2>1. CASE WriteSettle
    <3>w. writer # NoWriter /\ writer.pc \in {"collect", "gone"}
      BY <2>1 DEF WriteSettle, NoWriter
    <3>1. /\ UNCHANGED <<pc, id, taken, doomed, unstored>> /\ running' \subseteq running /\ active' \subseteq active
      BY <2>1 DEF WriteSettle, calls, process, approvals, ghosts, Finish
    <3>2. writer'.call = writer.call /\ Stored' = Stored
      <4>1. \E l : writer' = [writer EXCEPT !.pc = l]
        BY <2>1 DEF WriteSettle
      <4> QED
        BY <2>1, <3>w, <4>1, <1>h, WriterMoves DEF WriteSettle, shelf, Stored
    <3> QED
      BY <3>1, <3>2, <1>h, <1>m DEF Tracked, InHands, InProgress
  <2>2. CASE WriteRefresh
    <3>w. writer # NoWriter /\ writer.pc = "refresh"
      BY <2>2 DEF WriteRefresh, NoWriter
    <3>1. /\ UNCHANGED <<pc, id, taken, doomed, unstored>> /\ running' \subseteq running /\ active' \subseteq active
      BY <2>2 DEF WriteRefresh, calls, process, approvals, ghosts
    <3>2. CASE store[writer.id] \in exited
      <4>1. writer'.call = store[writer.id] /\ writer.id \in Ids /\ RemoveEntry(writer.id)
        BY <2>2, <3>2, <1>h, EntryTaken DEF WriteRefresh
      <4>2. store[writer.id] = writer.call
        BY <3>w, <3>2, <1>h, Constants DEF WriterInv, ProcessTypes
      <4>3. \A x \in Stored : x \in Stored' \/ x = writer'.call
        BY <4>1, <1>h, OthersStay
      <4> QED
        BY <3>1, <4>1, <4>2, <4>3, <1>h, <1>m DEF Tracked, InHands, InProgress
    <3>3. CASE store[writer.id] \notin exited
      BY <2>2, <3>w, <3>1, <3>3, <1>l, <1>h, <1>m DEF WriteRefresh, shelf, Stored, Tracked,
          InHands, InProgress
    <3> QED
      BY <3>2, <3>3
  <2>3. CASE WriteFinishLate
    <3>w. writer # NoWriter /\ writer.pc = "late"
      BY <2>3 DEF WriteFinishLate, NoWriter
    <3>1. /\ UNCHANGED <<pc, id, taken, doomed, unstored>> /\ running' \subseteq running /\ active' \subseteq active
      BY <2>3 DEF WriteFinishLate, calls, process, approvals, ghosts, Finish, FailAndTerminate
    <3>2. writer.call \in Calls /\ writer.call \notin running \cup active'
      BY <2>3, <3>w, <1>h, WriterFields DEF WriteFinishLate, Finish, approvals, WriterInv,
          ProcessInv, DenialInv
    <3>3. Stored' = Stored
      BY <2>3 DEF WriteFinishLate, shelf, Stored
    <3> QED
      BY <3>1, <3>2, <3>3, <1>h, <1>m DEF Tracked, InHands, InProgress
  <2>4. CASE WriteRelease
    <3>w. writer # NoWriter /\ writer.pc = "release"
      BY <2>4 DEF WriteRelease, NoWriter
    <3>1. /\ UNCHANGED <<pc, id, taken, doomed, unstored>> /\ running' \subseteq running /\ active' \subseteq active
      BY <2>4 DEF WriteRelease, calls, process, approvals, ghosts, Unregister, FailAndTerminate
    <3>2. writer.call \notin running' \cup active'
      BY <2>4, <3>w, <3>1, <1>h, WriterFields DEF WriteRelease, FailAndTerminate, WriterInv,
          DenialInv
    <3>3. \A x \in Stored : x \in Stored' \/ x = writer.call
      BY <2>4, <3>w, <1>h, OthersStay, WriterFields, StoredAreCalls DEF WriteRelease, WriterInv
    <3> QED
      BY <3>1, <3>2, <3>3, <1>h, <1>m DEF Tracked, InHands, InProgress
  <2>5. CASE WriteFails
    <3>w. writer # NoWriter /\ writer.pc = "collect"
      BY <2>5 DEF WriteFails, NoWriter
    <3>1. /\ UNCHANGED <<pc, id, taken, doomed, unstored>> /\ running' \subseteq running /\ active' \subseteq active
      BY <2>5 DEF WriteFails, calls, process, approvals, ghosts
    <3>2. CASE store[writer.id] \in exited
      <4>1. writer' = [writer EXCEPT !.pc = "gone"] /\ RemoveEntry(writer.id)
        BY <2>5, <3>2 DEF WriteFails
      <4>2. writer'.call = writer.call /\ store[writer.id] = writer.call
        BY <3>w, <3>2, <4>1, <1>h, Constants, WriterMoves DEF WriterInv, ProcessTypes
      <4>3. \A x \in Stored : x \in Stored' \/ x = writer'.call
        BY <3>w, <4>1, <4>2, <1>h, OthersStay, WriterFields
      <4> QED
        BY <3>1, <4>2, <4>3, <1>h, <1>m DEF Tracked, InHands, InProgress
    <3>3. CASE store[writer.id] \notin exited
      BY <2>5, <3>w, <3>1, <3>3, <1>l, <1>h, <1>m DEF WriteFails, shelf, Stored, Tracked,
          InHands, InProgress
    <3> QED
      BY <3>2, <3>3
  <2>6. CASE WriteAbort
    BY <2>6, <1>h, <1>m DEF WriteAbort, Terminate, calls, shelf, approvals, Tracked,
        InHands, InProgress, Stored, Over, CallTypes, ShelfTypes
  <2>7. CASE TerminateAll
    BY <2>7, <1>h, <1>m DEF TerminateAll, calls, process, approvals, Tracked, InHands,
        InProgress, Stored, Over, CallTypes, ShelfTypes
  <2> QED
    BY <1>3, <2>1, <2>2, <2>3, <2>4, <2>5, <2>6, <2>7 DEF WriteStep
<1>4. ASSUME NEW c \in Calls, NEW i \in Ids, Allocate(c, i)
      PROVE  Tracked'
  BY <1>4, <1>h, <1>m DEF Allocate, Goto, process, approvals, ghosts, Tracked, InHands,
      InProgress, Stored, Over, CallTypes, ShelfTypes
<1>5. ASSUME NEW i \in Ids, WritePrepare(i)
      PROVE  Tracked'
  BY <1>5, <1>h, <1>m, WriterFields, Constants DEF WritePrepare, calls, process, approvals,
      ghosts, Tracked, InHands, InProgress, Stored, Over, CallTypes, ShelfTypes,
      ProcessTypes, NetTypes, NoWriter
<1>6. CASE UNCHANGED vars
  BY <1>6, <1>u DEF vars, calls, shelf, process, approvals, ghosts
<1> QED
  BY <1>1, <1>2, <1>3, <1>4, <1>5, <1>6 DEF Next, Work

\* Nothing has happened to begin with.
LEMMA InitHolds ==
  ASSUME Init
  PROVE  IInv
<1>1. Types
  BY Constants DEF Init, Types, CallTypes, ShelfTypes, ProcessTypes, TaskTypes, NetTypes,
      WriterTypes,
     GhostTypes, Labels, Over
<1>2. Stored = {} /\ Entries = {}
  BY DEF Init, Stored, Entries
<1>3. WithinLimit
  BY <1>2, Constants, FS_EmptySet DEF WithinLimit
<1>4. InProgress = {} /\ Holders = {}
  BY DEF Init, InProgress, Holders
<1>5. PhaseInv /\ ProcessInv /\ EntryInv /\ EndInv
  BY DEF Init, PhaseInv, Late, ProcessInv, EntryInv, EndInv, Unopened
<1>6. UseInv
  BY <1>2 DEF UseInv
<1>7. AloneInv /\ IdInv /\ TakenInv
  BY <1>4 DEF Init, AloneInv, IdInv, TakenInv, Late
<1>8. DenialInv /\ WriterInv /\ Tracked
  BY DEF Init, DenialInv, WriterInv, Tracked
<1> QED
  BY <1>1, <1>3, <1>5, <1>6, <1>7, <1>8 DEF IInv

\* Every step of a call, of write_stdin, of the clearing loop and of the tasks
\* beside them preserves the inductive invariant.
LEMMA StepHolds ==
  ASSUME IInv, [Next]_vars
  PROVE  IInv'
<1>1. Types'
  BY CallTypesStep, ShelfTypesStep, ProcessTypesStep, TaskTypesStep, NetTypesStep,
      WriterTypesStep,
     GhostTypesStep DEF Types
<1>2. WithinLimit' /\ PhaseInv' /\ ProcessInv' /\ EntryInv' /\ UseInv' /\ EndInv'
  BY LimitStep, PhaseStep, ProcessStep, EntryStep, UseStep, EndStep
<1>3. AloneInv' /\ IdInv' /\ TakenInv' /\ DenialInv' /\ WriterInv' /\ Tracked'
  BY AloneStep, IdStep, TakenStep, DenialStep, WriterStep, TrackedStep
<1> QED
  BY <1>1, <1>2, <1>3 DEF IInv

\* The inductive invariant holds of every reachable state.
LEMMA InvariantHolds == Spec => []IInv
<1>1. Init => IInv
  BY InitHolds
<1>2. IInv /\ [Next]_vars => IInv'
  BY StepHolds
<1> QED
  BY <1>1, <1>2, PTL DEF Spec

\* The invariant says of every call what the properties promise.
LEMMA InvariantMeans ==
  ASSUME IInv
  PROVE  StoreInv /\ OneEnd /\ Tracked /\ DeniedIsNotSuccess
<1>1. TypeOK
  BY DEF IInv, TypeOK
<1>2. OwnEntry
  BY DEF IInv, IdInv, Holders, Late, OwnEntry
<1>3. OneEnd
  BY DEF IInv, Types, TaskTypes, EndInv, OneEnd
<1>4. DeniedIsNotSuccess
  BY DEF IInv, DenialInv, DeniedIsNotSuccess
<1> QED
  BY <1>1, <1>2, <1>3, <1>4 DEF IInv, StoreInv

\* store_process never lets the store grow beyond MAX_UNIFIED_EXEC_PROCESSES,
\* and the entry a call refreshes, removes or releases under its id is its own
\* unless the id was given back by somebody else while the call was in flight.
THEOREM StoreStaysSound == Spec => []StoreInv
<1>1. IInv => StoreInv
  BY InvariantMeans
<1> QED
  BY <1>1, InvariantHolds, PTL

\* A call of exec_command has at most one End event: its watcher and the paths
\* that end an unstored process never both emit it.
THEOREM AtMostOneEnd == Spec => []OneEnd
<1>1. IInv => OneEnd
  BY InvariantMeans
<1> QED
  BY <1>1, InvariantHolds, PTL

\* A running process and a registration with the network approvals are in
\* somebody's hands, apart from what an interrupt or a freed id let go of.
THEOREM ProcessesAreTracked == Spec => []Tracked
<1>1. IInv => Tracked
  BY InvariantMeans
<1> QED
  BY <1>1, InvariantHolds, PTL

\* A command whose network access was denied is not answered as one that exited
\* by itself: DeferredNetworkApproval::finish keeps the first outcome for all.
THEOREM DenialIsReported == Spec => []DeniedIsNotSuccess
<1>1. IInv => DeniedIsNotSuccess
  BY InvariantMeans
<1> QED
  BY <1>1, InvariantHolds, PTL

\* An interrupt while exec_command waits for output does not kill the process,
\* because the store holds it by then, unless the id was given back.
THEOREM InterruptSparesProcess == Spec => InterruptKeepsProcess
<1> DEFINE Spared ==
             \A c \in early : pc[c] \in {"evict", "collect", "refresh"} /\ pc'[c] = "aborted"
               => (c \in running => c \in running' \/ Freed(id[c]))
<1>1. ASSUME IInv, [Next]_vars, NEW c \in early, pc[c] \in {"evict", "collect", "refresh"},
             pc'[c] = "aborted", c \in running
      PROVE  c \in running' \/ Freed(id[c])
  <2>1. CallTypes /\ ShelfTypes /\ IdInv /\ PhaseInv /\ c \in Calls
    BY <1>1 DEF IInv, Types, CallTypes
  <2>2. c \in Stored \/ Freed(id[c])
    BY <1>1, <2>1, StoredAreCalls, Constants DEF IdInv, Holders, Late, InProgress, Over, PhaseInv
  <2>3. Abort(c)
    <3>1. ASSUME NEW d \in Calls, CallStep(d)
          PROVE  FALSE
      BY <1>1, <2>1, <3>1 DEF CallStep, Reject, Register, OpenFails, Open, Begin,
          StoreProcess, Evict, SettleFailed, Settle, Refresh, FinishLate, Release, Goto,
          CallTypes, NextAfterBegin
    <3>2. ASSUME NEW d \in Calls, Abort(d)
          PROVE  d = c
      BY <1>1, <2>1, <3>2 DEF Abort, Goto, CallTypes
    <3>3. ASSUME NEW d \in Calls, NEW i \in Ids, Allocate(d, i)
          PROVE  FALSE
      BY <1>1, <2>1, <3>3 DEF Allocate, Goto, CallTypes
    <3>4. ASSUME NEW d \in Calls, TaskStep(d) \/ TerminateNext(d) \/ Exits(d) \/ Blame(d) \/ RecordDenial(d)
          PROVE  FALSE
      BY <1>1, <3>4 DEF TaskStep, ExitSeen, StreamEnds, WatcherEnds, GuardKills,
          GuardGivesUp, TerminateNext, Exits, Blame, RecordDenial, calls
    <3>5. ASSUME WriteStep \/ WriteFails \/ WriteAbort \/ TerminateAll
          PROVE  FALSE
      BY <1>1, <3>5 DEF WriteStep, WriteSettle, WriteRefresh, WriteFinishLate, WriteRelease,
          WriteFails, WriteAbort, TerminateAll, calls
    <3>6. ASSUME NEW i \in Ids, WritePrepare(i)
          PROVE  FALSE
      BY <1>1, <3>6 DEF WritePrepare, calls
    <3>7. ASSUME UNCHANGED vars
          PROVE  FALSE
      BY <1>1, <3>7 DEF vars, calls
    <3> QED
      BY <1>1, <3>1, <3>2, <3>3, <3>4, <3>5, <3>6, <3>7 DEF Next, Work
  <2>4. running' = running \ {x \in ({c, taken[c]} \ {NoCall}) \cap running : x \notin Stored /\ ~ KeptBy(c, x)}
    BY <2>3 DEF Abort, Terminate
  <2> QED
    BY <1>1, <2>2, <2>4
<1>2. IInv /\ [Next]_vars => [Spared]_vars
  BY <1>1
<1> QED
  BY <1>2, InvariantHolds, PTL DEF Spec, InterruptKeepsProcess
=============================================================================
