----------------------- MODULE RolloutRecorderProofs -----------------------
(* Proofs about RolloutRecorder, for any number of clients and items and     *)
(* any bound on faults, crashes and the channel: its types; and, as long as  *)
(* no write is cut short within a line, that what a barrier acknowledged is  *)
(* in the file, that the file can be resumed, and that the recorder          *)
(* implements DurableLog.                                                    *)
EXTENDS MCRolloutRecorder, TLAPS

(* A sequence is its head and its tail.                                     *)
LEMMA HeadAndTail ==
  ASSUME NEW S, NEW s \in Seq(S), s # <<>>
  PROVE  /\ Head(s) \in S /\ Head(s) = s[1] /\ Tail(s) \in Seq(S)
         /\ Len(s) \in Nat /\ Len(s) >= 1 /\ Len(Tail(s)) = Len(s) - 1
         /\ \A n \in 1 .. Len(Tail(s)) : Tail(s)[n] = s[n + 1]
         /\ ToSet(s) = {Head(s)} \cup ToSet(Tail(s))
<1>1. /\ Head(s) \in S /\ Head(s) = s[1] /\ Tail(s) \in Seq(S)
      /\ Len(s) \in Nat /\ Len(s) >= 1 /\ Len(Tail(s)) = Len(s) - 1
      /\ \A n \in 1 .. Len(Tail(s)) : Tail(s)[n] = s[n + 1]
  OBVIOUS
<1>2. DOMAIN s = 1 .. Len(s) /\ DOMAIN Tail(s) = 1 .. Len(Tail(s))
  BY <1>1
<1>3. ASSUME NEW x \in ToSet(s) PROVE x \in {Head(s)} \cup ToSet(Tail(s))
  <2>1. PICK n \in 1 .. Len(s) : x = s[n]
    BY <1>2, <1>3 DEF ToSet
  <2>2. CASE n = 1
    BY <2>1, <2>2, <1>1
  <2>3. CASE n # 1
    <3>1. n - 1 \in 1 .. Len(Tail(s)) /\ Tail(s)[n - 1] = s[(n - 1) + 1] /\ (n - 1) + 1 = n
      BY <2>1, <2>3, <1>1
    <3> QED
      BY <2>1, <3>1, <1>2 DEF ToSet
  <2> QED
    BY <2>2, <2>3
<1>4. ASSUME NEW x \in ToSet(Tail(s)) PROVE x \in ToSet(s)
  <2>1. PICK n \in 1 .. Len(Tail(s)) : x = Tail(s)[n]
    BY <1>2, <1>4 DEF ToSet
  <2>2. n + 1 \in 1 .. Len(s) /\ x = s[n + 1]
    BY <2>1, <1>1
  <2> QED
    BY <2>2, <1>2 DEF ToSet
<1>5. Head(s) \in ToSet(s)
  BY <1>1, <1>2 DEF ToSet
<1> QED
  BY <1>1, <1>3, <1>4, <1>5

(* Appending adds one element at the end.                                   *)
LEMMA Appended ==
  ASSUME NEW S, NEW s \in Seq(S), NEW x
  PROVE  /\ Len(s) \in Nat /\ Len(Append(s, x)) = Len(s) + 1
         /\ Append(s, x)[Len(s) + 1] = x
         /\ \A n \in 1 .. Len(s) : Append(s, x)[n] = s[n]
         /\ ToSet(Append(s, x)) = ToSet(s) \cup {x}
         /\ x \in S => Append(s, x) \in Seq(S)
<1>1. /\ Len(s) \in Nat /\ Len(Append(s, x)) = Len(s) + 1
      /\ Append(s, x)[Len(s) + 1] = x
      /\ \A n \in 1 .. Len(s) : Append(s, x)[n] = s[n]
      /\ x \in S => Append(s, x) \in Seq(S)
  OBVIOUS
<1>2. DOMAIN s = 1 .. Len(s) /\ DOMAIN Append(s, x) = 1 .. (Len(s) + 1)
  OBVIOUS
<1>3. \A y \in ToSet(Append(s, x)) : y \in ToSet(s) \cup {x}
  BY <1>1, <1>2 DEF ToSet
<1>4. \A y \in ToSet(s) : y \in ToSet(Append(s, x))
  BY <1>1, <1>2 DEF ToSet
<1>5. x \in ToSet(Append(s, x))
  BY <1>1, <1>2 DEF ToSet
<1> QED
  BY <1>1, <1>3, <1>4, <1>5

(* The commands.                                                            *)
LEMMA Commands ==
  /\ \A cmd \in Cmd : /\ cmd # Idle
                      /\ \/ cmd.op = "AddItems" /\ cmd.item \in Items
                         \/ cmd.op \in Barriers /\ cmd.from \in Clients
  /\ \A i \in Items : [op |-> "AddItems", item |-> i] \in Cmd
  /\ \A c \in Clients, op \in Barriers : [op |-> op, from |-> c] \in Cmd
  /\ Idle.op \notin Barriers /\ "AddItems" \notin Barriers
BY DEF Cmd, Idle, Barriers

-----------------------------------------------------------------------------
(* How the channel changes.                                                 *)
LEMMA Sent ==
  ASSUME TypeOK, NEW cmd \in Cmd, queue' = Append(queue, cmd)
  PROVE  LET k == Len(queue) + 1 IN
         /\ k \in Nat /\ queue' \in Seq(Cmd) /\ Len(queue') = k /\ queue'[k] = cmd
         /\ Adds \subseteq 1 .. (k - 1) /\ Asks \subseteq 1 .. (k - 1)
         /\ \A n \in 1 .. (k - 1) : queue'[n] = queue[n]
         /\ cmd.op = "AddItems" => Adds' = Adds \cup {k} /\ Asks' = Asks
         /\ cmd.op # "AddItems" => Adds' = Adds /\ Asks' = Asks \cup {k}
<1>1. /\ Len(queue) \in Nat /\ Len(queue') = Len(queue) + 1 /\ queue'[Len(queue) + 1] = cmd
      /\ \A n \in 1 .. Len(queue) : queue'[n] = queue[n]
      /\ queue' \in Seq(Cmd)
  BY Appended DEF TypeOK
<1> QED
  BY <1>1 DEF Adds, Asks

(* What TakeCommand does with the command at the front of the channel.      *)
LEMMA Taken ==
  ASSUME TypeOK, queue # <<>>, queue' = Tail(queue)
  PROVE  /\ Head(queue) \in Cmd /\ Head(queue) = queue[1]
         /\ queue' \in Seq(Cmd) /\ Len(queue) \in Nat /\ Len(queue') = Len(queue) - 1
         /\ Head(queue).op = "AddItems" => 1 \in Adds
         /\ Head(queue).op # "AddItems" => 1 \in Asks
         /\ \A n \in Adds' : n \in Nat /\ n + 1 \in Adds /\ queue'[n] = queue[n + 1] /\ n + 1 # 1
         /\ \A n \in Asks' : n \in Nat /\ n + 1 \in Asks /\ queue'[n] = queue[n + 1] /\ n + 1 # 1
         /\ \A n \in Adds : n = 1 \/ (n - 1 \in Adds' /\ queue'[n - 1] = queue[n])
<1>1. /\ Head(queue) \in Cmd /\ Head(queue) = queue[1] /\ Len(queue) \in Nat /\ Len(queue) >= 1
      /\ queue' \in Seq(Cmd) /\ Len(queue') = Len(queue) - 1
      /\ \A n \in 1 .. Len(queue') : queue'[n] = queue[n + 1]
  BY HeadAndTail DEF TypeOK
<1>2. /\ Head(queue).op = "AddItems" => 1 \in Adds
      /\ Head(queue).op # "AddItems" => 1 \in Asks
  BY <1>1 DEF Adds, Asks
<1>3. /\ \A n \in Adds' : n \in Nat /\ n + 1 \in Adds /\ queue'[n] = queue[n + 1] /\ n + 1 # 1
      /\ \A n \in Asks' : n \in Nat /\ n + 1 \in Asks /\ queue'[n] = queue[n + 1] /\ n + 1 # 1
  BY <1>1 DEF Adds, Asks
<1>4. ASSUME NEW n \in Adds, n # 1 PROVE n - 1 \in Adds' /\ queue'[n - 1] = queue[n]
  <2>1. n - 1 \in 1 .. Len(queue') /\ (n - 1) + 1 = n /\ queue[n].op = "AddItems"
    BY <1>1, <1>4 DEF Adds
  <2>2. queue'[n - 1] = queue[n]
    BY <1>1, <2>1
  <2> QED
    BY <2>1, <2>2 DEF Adds
<1> QED
  BY <1>1, <1>2, <1>3, <1>4

(* What each entry of the channel is.                                       *)
LEMMA Entries ==
  ASSUME TypeOK
  PROVE  /\ Len(queue) \in Nat /\ Adds \cap Asks = {} /\ Adds \cup Asks = 1 .. Len(queue)
         /\ \A n \in Adds : queue[n] \in Cmd /\ queue[n].item \in Items
         /\ \A n \in Asks : queue[n] \in Cmd /\ queue[n].op \in Barriers /\ queue[n].from \in Clients
<1>1. Len(queue) \in Nat /\ \A n \in 1 .. Len(queue) : queue[n] \in Cmd
  BY DEF TypeOK
<1>2. Adds \subseteq 1 .. Len(queue) /\ Asks \subseteq 1 .. Len(queue)
      /\ (\A n \in Adds : queue[n].op = "AddItems") /\ (\A n \in Asks : queue[n].op # "AddItems")
      /\ Adds \cap Asks = {} /\ Adds \cup Asks = 1 .. Len(queue)
  BY DEF Adds, Asks
<1> QED
  BY <1>1, <1>2, Commands

(* An empty channel.                                                        *)
LEMMA NoEntries == queue = <<>> => Adds = {} /\ Asks = {}
BY DEF Adds, Asks

-----------------------------------------------------------------------------
LEMMA EmptySequences == /\ <<>> \in Seq(Cmd) /\ <<>> \in Seq(Items)
                        /\ <<>> \in Seq(Items \cup {Meta, Junk})
OBVIOUS

(* Types, and who waits.                                                    *)
LEMMA RecorderInit == Init => RecorderInv
<1> SUFFICES ASSUME Init PROVE RecorderInv
  OBVIOUS
<1>1. TypeOK
  <2>1. 0 \in 0 .. MaxItems /\ 0 \in 0 .. MaxFaults /\ 0 \in 0 .. MaxCrashes /\ 0 \in 0 .. MaxPatches
    BY RecorderAssumption
  <2>2. queue \in Seq(Cmd) /\ Len(queue) <= QueueSize
    BY RecorderAssumption DEF Init
  <2> QED
    BY <2>1, <2>2, EmptySequences DEF Init, TypeOK, Quiet
<1>2. Waiting /\ Emptied
  BY NoEntries, Commands DEF Init, Waiting, Emptied
<1> QED
  BY <1>1, <1>2 DEF RecorderInv

(* An answer sets a client free that waited, and covers what it asked.      *)
LEMMA Answers ==
  ASSUME RecorderInv, NEW cmd \in Cmd, NEW q, q \in Seq(Cmd), Len(q) <= QueueSize,
         cmd.op # "AddItems" => asked[cmd.from] # NotAsking, Succeed(cmd, q)
  PROVE  /\ recorder' \in {"running", "stopped", "down"}
         /\ queue' \in Seq(Cmd) /\ Len(queue') <= QueueSize
         /\ cur' = Idle /\ phase' = "open" /\ attempt' = 1
         /\ asked' \in [Clients -> {NotAsking} \cup SUBSET Items] /\ promised' \subseteq Items
<1>1. asked \in [Clients -> {NotAsking} \cup SUBSET Items] /\ promised \subseteq Items
      /\ recorder \in {"running", "stopped", "down"}
  BY DEF RecorderInv, TypeOK
<1>2. cur' = Idle /\ phase' = "open" /\ attempt' = 1
  BY DEF Succeed, BackToLoop
<1>3. CASE cmd.op = "AddItems" /\ queue' = q /\ UNCHANGED <<recorder, clients>>
  BY <1>1, <1>2, <1>3 DEF clients
<1>4. CASE cmd.op # "AddItems"
  <2>1. cmd.from \in Clients /\ asked[cmd.from] \subseteq Items
    BY <1>1, <1>4, Commands
  <2>2. Len(<<>>) <= QueueSize /\ <<>> \in Seq(Cmd)
    BY RecorderAssumption
  <2>3. Quiet \in [Clients -> {NotAsking} \cup SUBSET Items]
    BY DEF Quiet
  <2> QED
    BY <1>1, <1>2, <1>4, <2>1, <2>2, <2>3 DEF Succeed
<1> QED
  BY <1>3, <1>4 DEF Succeed

(* Every step of the clients, the writer and the crash keeps them.          *)
LEMMA RecorderStep == RecorderInv /\ [Next]_vars => RecorderInv'
<1> SUFFICES ASSUME RecorderInv, [Next]_vars PROVE RecorderInv'
  OBVIOUS
<1> USE DEF RecorderInv
<1>a. /\ QueueSize \in Nat /\ MaxItems \in Nat /\ MaxFaults \in Nat /\ MaxCrashes \in Nat
      /\ MaxPatches \in Nat
  BY RecorderAssumption
<1>q. Quiet \in [Clients -> {NotAsking} \cup SUBSET Items]
  BY DEF Quiet
<1>w. ASSUME NEW line \in Items \cup {Meta}, WriteLine(line)
      PROVE  file' \in Seq(Items \cup {Meta, Junk}) /\ torn' \in BOOLEAN
  BY <1>w, Appended DEF WriteLine, TypeOK
(* The writer is at work on a command.                                      *)
<1>c. \A p : Working(p) => cur \in Cmd /\ (cur.op # "AddItems" => cur.op \in Barriers)
  BY Commands DEF Working, TypeOK
(* Steps that leave the channel, the clients and the command alone.         *)
<1>s. ASSUME UNCHANGED <<queue, asked, cur>>, recorder' = "running" \/ UNCHANGED <<recorder, pending>>
      PROVE  Waiting' /\ Emptied'
  BY <1>s DEF Waiting, Emptied, Asks, Adds
(* A client that gets its answer waits no longer.                           *)
<1>r. ASSUME NEW cmd \in Cmd, cmd.op # "AddItems", cur' = Idle, Asks' \subseteq Asks,
             \A n \in Asks' : queue'[n] = queue[n] /\ queue[n].from # cmd.from,
             asked' = [asked EXCEPT ![cmd.from] = NotAsking]
      PROVE  Waiting'
  <2>1. \A n \in Asks' : asked'[queue'[n].from] = asked[queue[n].from]
    BY <1>r, Entries DEF TypeOK
  <2> QED
    BY <1>r, <2>1, Commands DEF Waiting
<1>1. CASE RecordItem
  <2>1. recorded + 1 \in Items /\ recorded' \in 0 .. MaxItems
    BY <1>1, <1>a DEF RecordItem, TypeOK, Items
  <2> DEFINE cmd == [op |-> "AddItems", item |-> recorded + 1]
  <2>2. cmd \in Cmd /\ cmd.op = "AddItems" /\ queue' = Append(queue, cmd)
    BY <1>1, <2>1, Commands DEF RecordItem
  <2> HIDE DEF cmd
  <2>3. queue' \in Seq(Cmd) /\ Len(queue') <= QueueSize /\ Asks' = Asks
        /\ \A n \in Asks : queue'[n] = queue[n]
    BY <1>1, <1>a, <2>2, Sent DEF RecordItem, CanSend
  <2>4. TypeOK'
    BY <1>1, <2>1, <2>3 DEF RecordItem, TypeOK, work, writer, store, clients, counts
  <2>5. recorder' = "running" /\ asked' = asked /\ cur' = cur
    BY <1>1 DEF RecordItem, CanSend, work, clients
  <2>6. Waiting' /\ Emptied'
    BY <2>3, <2>5 DEF Waiting, Emptied
  <2> QED
    BY <2>4, <2>6
<1>2. ASSUME NEW c \in Clients, NEW op \in Barriers, AskBarrier(c, op) PROVE RecorderInv'
  <2> DEFINE cmd == [op |-> op, from |-> c]
             k   == Len(queue) + 1
  <2>1. cmd \in Cmd /\ cmd.op # "AddItems" /\ cmd.from = c /\ queue' = Append(queue, cmd)
    BY <1>2, Commands DEF AskBarrier
  <2> HIDE DEF cmd
  <2>2. /\ queue' \in Seq(Cmd) /\ Len(queue') <= QueueSize /\ Asks' = Asks \cup {k}
        /\ queue'[k] = cmd /\ k \notin Asks
        /\ \A n \in Asks : queue'[n] = queue[n]
    BY <1>2, <1>a, <2>1, Sent DEF AskBarrier, CanSend
  <2> HIDE DEF k
  <2>3. TypeOK'
    BY <1>2, <2>2 DEF AskBarrier, TypeOK, work, writer, store, counts
  <2>4. asked'[c] = life /\ life # NotAsking /\ \A d \in Clients \ {c} : asked'[d] = asked[d]
    BY <1>2, RecorderAssumption DEF AskBarrier, TypeOK
  <2>5. \A n \in Asks : queue[n].from \in Clients \ {c}
    BY <1>2, Entries DEF AskBarrier, Waiting
  <2>6. cur.op \in Barriers => cur.from \in Clients \ {c}
    BY <1>2, Commands DEF AskBarrier, Waiting, TypeOK
  <2>7. Waiting'
    <3>1. cur' = cur
      BY <1>2 DEF AskBarrier, work
    <3>2. \A n \in Asks' : asked'[queue'[n].from] # NotAsking
      BY <2>1, <2>2, <2>4, <2>5 DEF Waiting
    <3>3. ASSUME NEW m \in Asks', NEW n \in Asks', queue'[m].from = queue'[n].from PROVE m = n
      <4>0. queue'[k].from = c /\ \A j \in Asks : queue'[j].from # c
        BY <2>1, <2>2, <2>5
      <4>1. CASE m \in Asks /\ n \in Asks
        <5>1. queue'[m] = queue[m] /\ queue'[n] = queue[n]
          BY <2>2, <4>1
        <5> QED
          BY <3>3, <4>1, <5>1 DEF Waiting
      <4>2. CASE m = k
        BY <2>2, <3>3, <4>0, <4>2
      <4>3. CASE n = k
        BY <2>2, <3>3, <4>0, <4>3
      <4> QED
        BY <2>2, <4>1, <4>2, <4>3
    <3>4. cur.op \in Barriers => /\ asked'[cur.from] # NotAsking
                                 /\ \A n \in Asks' : queue'[n].from # cur.from
      BY <2>1, <2>2, <2>4, <2>6 DEF Waiting
    <3> QED
      BY <3>1, <3>2, <3>3, <3>4 DEF Waiting
  <2>8. Emptied'
    BY <1>2 DEF AskBarrier, CanSend, Emptied
  <2> QED
    BY <2>3, <2>7, <2>8
<1>3. CASE TakeCommand
  <2> DEFINE cmd == Head(queue)
             pend == IF cmd.op = "AddItems" THEN Append(pending, cmd.item) ELSE pending
  <2>1. cmd \in Cmd /\ Tail(queue) \in Seq(Cmd) /\ Len(Tail(queue)) <= QueueSize
        /\ cmd = queue[1] /\ (cmd.op # "AddItems" => 1 \in Asks)
    BY <1>3, <1>a, HeadAndTail DEF TakeCommand, TypeOK, Asks, Adds
  <2>2. pend \in Seq(Items)
    BY <2>1, Commands, Appended DEF TypeOK
  <2>3. cmd.op # "AddItems" => asked[cmd.from] # NotAsking
    BY <2>1 DEF Waiting
  <2>4. pending' = pend /\ UNCHANGED <<open, deferred, meta, store, recorded, life, counts>>
        /\ recorder = "running" /\ cur = Idle /\ queue # <<>>
    BY <1>3 DEF TakeCommand
  <2> HIDE DEF pend
  <2>6. CASE Succeed(cmd, Tail(queue))
    <3>1. /\ recorder' \in {"running", "stopped", "down"}
          /\ queue' \in Seq(Cmd) /\ Len(queue') <= QueueSize
          /\ cur' = Idle /\ phase' = "open" /\ attempt' = 1
          /\ asked' \in [Clients -> {NotAsking} \cup SUBSET Items] /\ promised' \subseteq Items
      BY <2>1, <2>3, <2>6, Answers
    <3>2. TypeOK'
      BY <2>2, <2>4, <3>1 DEF TypeOK, store, counts
    <3>3. CASE cmd.op = "AddItems"
      <4>1. queue' = Tail(queue) /\ UNCHANGED <<recorder, asked>>
        BY <2>6, <3>3 DEF Succeed, clients
      <4>2. \A n \in Asks' : n \in Nat /\ n + 1 \in Asks /\ queue'[n] = queue[n + 1]
        BY <2>4, <4>1, Taken
      <4>3. \A m, n \in Asks' : queue'[m].from = queue'[n].from => m = n
        BY <4>2 DEF Waiting
      <4>a. \A n \in Asks' : asked'[queue'[n].from] # NotAsking
        BY <4>1, <4>2 DEF Waiting
      <4>4. Waiting'
        BY <3>1, <4>a, <4>3, Commands DEF Waiting
      <4> QED
        BY <2>4, <3>2, <4>1, <4>4 DEF Emptied
    <3>4. CASE cmd.op \in {"Persist", "Flush"}
      <4>1. queue' = Tail(queue) /\ UNCHANGED recorder /\ asked' = [asked EXCEPT ![cmd.from] = NotAsking]
        BY <2>6, <3>4 DEF Succeed
      <4>2. \A n \in Asks' : n \in Nat /\ n + 1 \in Asks /\ queue'[n] = queue[n + 1]
              /\ n + 1 # 1
        BY <2>4, <4>1, Taken
      <4>3. \A n \in Asks' : queue'[n].from # cmd.from /\ queue'[n].from \in Clients
        BY <2>1, <3>4, <4>2, Entries DEF Waiting
      <4>4. \A n \in Asks' : asked'[queue'[n].from] = asked[queue[n + 1].from]
        BY <4>1, <4>2, <4>3 DEF TypeOK
      <4>5. Waiting'
        BY <3>1, <4>2, <4>4, Commands DEF Waiting
      <4> QED
        BY <2>4, <3>2, <4>1, <4>5 DEF Emptied
    <3>5. CASE cmd.op = "Shutdown"
      <4>1. queue' = <<>> /\ asked' = Quiet /\ pend = <<>>
        BY <1>3, <2>6, <3>5, <2>4 DEF Succeed, TakeCommand, NothingToWrite, pend
      <4>2. Waiting'
        BY <3>1, <4>1, Commands DEF Waiting, Asks
      <4> QED
        BY <2>4, <3>1, <3>2, <4>1, <4>2 DEF Emptied
    <3> QED
      BY <2>6, <3>3, <3>4, <3>5 DEF Succeed
  <2>7. CASE cur' = cmd /\ queue' = Tail(queue) /\ UNCHANGED <<recorder, phase, attempt, clients>>
    <3>1. TypeOK'
      BY <2>1, <2>2, <2>4, <2>7 DEF TypeOK, store, counts, clients
    <3>2. \A n \in Asks' : n \in Nat /\ n + 1 \in Asks /\ queue'[n] = queue[n + 1] /\ n + 1 # 1
      BY <2>4, <2>7, Taken
    <3>3. cmd.op # "AddItems" => 1 \in Asks /\ \A n \in Asks' : queue'[n].from # cmd.from
      BY <2>1, <3>2 DEF Waiting
    <3>4. asked' = asked
      BY <2>7 DEF clients
    <3>5. \A m, n \in Asks' : queue'[m].from = queue'[n].from => m = n
      BY <3>2 DEF Waiting
    <3>6. Waiting'
      BY <2>1, <2>3, <2>7, <3>2, <3>3, <3>4, <3>5, Commands DEF Waiting
    <3> QED
      BY <2>4, <2>7, <3>1, <3>6 DEF Emptied
  <2> QED
    BY <1>3, <2>6, <2>7 DEF TakeCommand, pend
<1>4. CASE OpenFile
  BY <1>4, <1>s DEF OpenFile, TypeOK, store, counts, clients
<1>5. CASE WriteMeta
  <2>1. TypeOK'
    BY <1>5, <1>w DEF WriteMeta, TypeOK, work, counts, clients
  <2> QED
    BY <1>5, <2>1, <1>s DEF WriteMeta, work, clients
<1>6. CASE WriteItem
  <2>1. Head(pending) \in Items /\ Tail(pending) \in Seq(Items)
    BY <1>6, HeadAndTail DEF WriteItem, TypeOK
  <2>2. TypeOK'
    BY <1>6, <2>1, <1>w DEF WriteItem, TypeOK, work, counts, clients
  <2> QED
    BY <1>6, <2>2, <1>s DEF WriteItem, Working, work, clients
<1>7. CASE FinishCommand
  <2>1. /\ recorder' \in {"running", "stopped", "down"}
        /\ queue' \in Seq(Cmd) /\ Len(queue') <= QueueSize
        /\ cur' = Idle /\ phase' = "open" /\ attempt' = 1
        /\ asked' \in [Clients -> {NotAsking} \cup SUBSET Items] /\ promised' \subseteq Items
    BY <1>7, <1>c, Answers DEF FinishCommand, Waiting, TypeOK
  <2>2. TypeOK'
    BY <1>7, <2>1 DEF FinishCommand, TypeOK, writer, store, counts
  <2>3. CASE cur.op = "AddItems"
    BY <1>7, <2>1, <2>2, <2>3, Commands DEF FinishCommand, Working, Succeed, clients, Waiting, Emptied, Asks, Adds
  <2>4. CASE cur.op \in {"Persist", "Flush"}
    <3>1. queue' = queue /\ UNCHANGED recorder /\ asked' = [asked EXCEPT ![cur.from] = NotAsking]
      BY <1>7, <2>4 DEF FinishCommand, Succeed
    <3>2. Asks' = Asks /\ \A n \in Asks : queue[n].from # cur.from
      BY <3>1, <2>4 DEF Asks, Adds, Waiting, Barriers
    <3>3. cur \in Cmd
      BY <1>7, <1>c DEF FinishCommand
    <3> QED
      BY <1>7, <2>1, <2>2, <2>4, <3>1, <3>2, <3>3, <1>r DEF FinishCommand, Working, Emptied
  <2>5. CASE cur.op = "Shutdown"
    <3>1. queue' = <<>> /\ asked' = Quiet /\ pending' = <<>>
      BY <1>7, <2>5 DEF FinishCommand, Succeed, writer
    <3> QED
      BY <2>1, <2>2, <3>1, Commands DEF Waiting, Asks, Emptied
  <2> QED
    BY <1>7, <2>3, <2>4, <2>5 DEF FinishCommand, Succeed
<1>8. ASSUME NEW p, Working(p), EnterRecovery, file' = file, torn' \in BOOLEAN PROVE RecorderInv'
  <2>1. cur \in Cmd /\ recorder = "running" /\ (cur.op # "AddItems" => cur.op \in Barriers /\ cur.from \in Clients)
    BY <1>8, <1>c, Commands DEF Working
  <2>2. faults' \in 0 .. MaxFaults
    BY <1>8, <1>a DEF EnterRecovery, Recover, TypeOK
  <2>3. CASE UNCHANGED <<cur, asked>> /\ attempt' = 2 /\ phase' = "open"
    <3>1. TypeOK'
      BY <1>8, <2>2, <2>3 DEF EnterRecovery, Recover, TypeOK
    <3> QED
      BY <1>8, <2>1, <2>3, <3>1, <1>s DEF EnterRecovery, Recover
  <2>4. CASE GiveUp(cur)
    <3>1. cur' = Idle /\ phase' = "open" /\ attempt' = 1
      BY <2>4 DEF GiveUp, BackToLoop
    <3>2. asked' \in [Clients -> {NotAsking} \cup SUBSET Items]
      BY <2>1, <2>4 DEF GiveUp, TypeOK
    <3>3. TypeOK'
      BY <1>8, <2>2, <3>1, <3>2 DEF EnterRecovery, Recover, TypeOK
    <3>4. queue' = queue /\ recorder' = recorder /\ Asks' = Asks
      BY <1>8 DEF EnterRecovery, Recover, Asks, Adds
    <3>5. Waiting'
      <4>1. CASE cur.op = "AddItems"
        BY <2>4, <3>1, <3>4, <4>1, Commands DEF GiveUp, Waiting
      <4>2. CASE cur.op # "AddItems"
        BY <2>1, <2>4, <3>1, <3>4, <4>2, <1>r DEF GiveUp, Waiting
      <4> QED
        BY <4>1, <4>2
    <3> QED
      BY <2>1, <3>3, <3>4, <3>5 DEF Emptied
  <2> QED
    BY <1>8, <2>3, <2>4 DEF EnterRecovery, Recover
<1>t. CutShort => file' = file /\ torn' \in BOOLEAN
  BY DEF CutShort, TypeOK
<1>9. CASE OpenFails \/ WriteFails
  BY <1>9, <1>8, <1>t DEF OpenFails, WriteFails, store, TypeOK
<1>10. CASE PatchMetadata
  <2>1. TypeOK'
    BY <1>10, <1>a, <1>w DEF PatchMetadata, TypeOK, work, writer, clients
  <2> QED
    BY <1>10, <2>1, <1>s DEF PatchMetadata, work, writer, clients
<1>11. CASE Crash
  <2>1. crashes' \in 0 .. MaxCrashes /\ Len(<<>>) <= QueueSize
    BY <1>11, <1>a DEF Crash, TypeOK
  <2>2. TypeOK'
    BY <1>11, <2>1, <1>t, <1>q, EmptySequences DEF Crash, TypeOK
  <2>3. Asks' = {}
    BY <1>11 DEF Crash, Asks
  <2> QED
    BY <1>11, <2>2, <2>3, Commands DEF Crash, Waiting, Emptied
<1>12. CASE Resume
  <2>1. TypeOK'
    BY <1>12, EmptySequences DEF Resume, TypeOK, work, store, clients, counts
  <2> QED
    BY <1>12, <2>1, <1>s DEF Resume, work, clients
<1>13. CASE UNCHANGED vars
  <2>1. TypeOK'
    BY <1>13 DEF vars, work, writer, store, clients, counts, TypeOK
  <2> QED
    BY <1>13, <2>1, <1>s DEF vars, work, writer, clients
<1> QED
  BY <1>1, <1>2, <1>3, <1>4, <1>5, <1>6, <1>7, <1>9, <1>10, <1>11, <1>12, <1>13 DEF Next, WriterStep

(* The channel never holds more than its capacity, and an acknowledgement    *)
(* always names items: a barrier in the channel or at work has a client that *)
(* waits for it, whatever fails, crashes or is resumed.                      *)
THEOREM RecorderTypes == Spec => []TypeOK
<1>1. RecorderInv => TypeOK
  BY DEF RecorderInv
<1> QED
  BY <1>1, RecorderInit, RecorderStep, PTL DEF Spec

-----------------------------------------------------------------------------
(* The file, as long as no write is cut short.                              *)
Whole == Leftovers = {"nothing"}

(* A line that is written is the file's last, and it is the line meant.     *)
LEMMA Written ==
  ASSUME LogInv, NEW line \in Items \cup {Meta}, WriteLine(line), line = Meta \/ HasMeta(file)
  PROVE  /\ file' = Append(file, line) /\ ToSet(file') = ToSet(file) \cup {line} /\ ~torn'
         /\ MetaFirst'
<1>1. /\ file \in Seq(Items \cup {Meta, Junk}) /\ file' = Append(file, line) /\ ~torn'
  BY DEF LogInv, RecorderInv, TypeOK, WriteLine
<1>2. /\ Len(file) \in Nat /\ Len(file') = Len(file) + 1 /\ file'[Len(file) + 1] = line
      /\ \A n \in 1 .. Len(file) : file'[n] = file[n]
      /\ ToSet(file') = ToSet(file) \cup {line}
  BY <1>1, Appended
<1>3. ASSUME NEW n \in 1 .. Len(file'), IsItem(file'[n])
      PROVE  \E k \in 1 .. (n - 1) : file'[k] = Meta
  <2>1. CASE n \in 1 .. Len(file)
    <3>1. PICK k \in 1 .. (n - 1) : file[k] = Meta
      BY <1>2, <1>3, <2>1 DEF LogInv, MetaFirst
    <3> QED
      BY <1>2, <2>1, <3>1
  <2>2. CASE n = Len(file) + 1
    <3>1. line # Meta
      BY <1>2, <1>3, <2>2, RecorderAssumption DEF IsItem, Items
    <3>2. PICK k \in DOMAIN file : file[k] = Meta
      BY <3>1 DEF HasMeta, ToSet
    <3>3. k \in 1 .. (n - 1) /\ file'[k] = Meta
      BY <1>1, <1>2, <2>2, <3>2
    <3> QED
      BY <3>3
  <2> QED
    BY <1>2, <2>1, <2>2
<1> QED
  BY <1>1, <1>2, <1>3 DEF MetaFirst

(* No step touches the lines that are there; what a step writes is the meta *)
(* or the first pending item.                                               *)
LEMMA FileStep ==
  ASSUME LogInv, Whole, [Next]_vars
  PROVE  /\ MetaFirst' /\ ~torn' /\ (meta' \/ HasMeta(file)')
         /\ WriteItem => /\ file' = Append(file, Head(pending))
                         /\ ToSet(file') = ToSet(file) \cup {Head(pending)}
         /\ ~WriteItem => \/ file' = file
                          \/ file' = Append(file, Meta) /\ ToSet(file') = ToSet(file) \cup {Meta}
<1>0. torn = FALSE /\ file \in Seq(Items \cup {Meta, Junk}) /\ pending \in Seq(Items)
  BY DEF LogInv, RecorderInv, TypeOK
<1>n. ASSUME WriteItem PROVE file' # file
  <2>1. \E line : file' = Append(file, line)
    BY <1>n DEF WriteItem, WriteLine
  <2>2. \A line : Append(file, line) # file
    BY <1>0, Appended
  <2> QED
    BY <2>1, <2>2
<1>s. ASSUME file' = file, torn' = torn, meta' = meta \/ HasMeta(file)
      PROVE  MetaFirst' /\ ~torn' /\ (meta' \/ HasMeta(file)')
  BY <1>s DEF LogInv, MetaFirst, HasMeta
<1>c. CutShort => file' = file /\ torn' = torn
  BY <1>0 DEF CutShort, Whole
<1>1. CASE RecordItem \/ (\E c \in Clients, op \in Barriers : AskBarrier(c, op)) \/ TakeCommand
             \/ OpenFile \/ FinishCommand \/ OpenFails
  BY <1>1, <1>s, <1>n DEF RecordItem, AskBarrier, TakeCommand, OpenFile, FinishCommand, OpenFails,
                    EnterRecovery, Recover, store, writer
<1>2. CASE WriteFails \/ Crash
  BY <1>2, <1>s, <1>c, <1>n DEF WriteFails, EnterRecovery, Recover, Crash
<1>3. CASE Resume
  BY <1>3, <1>s, <1>n DEF Resume, store
<1>4. CASE WriteMeta
  <2>1. ~WriteItem
    BY <1>4 DEF WriteMeta, WriteItem
  <2> QED
    BY <1>4, <2>1, Written DEF WriteMeta, HasMeta
<1>5. CASE WriteItem
  <2>1. Head(pending) \in Items /\ HasMeta(file) /\ meta' = meta /\ WriteLine(Head(pending))
    BY <1>0, <1>5, HeadAndTail DEF WriteItem, LogInv
  <2> QED
    BY <1>5, <2>1, Written DEF HasMeta
<1>6. CASE PatchMetadata
  <2>1. patches \in Nat /\ patches' = patches + 1
    BY <1>6, RecorderAssumption DEF PatchMetadata, LogInv, RecorderInv, TypeOK
  <2>2. ~WriteItem
    BY <2>1 DEF WriteItem, counts
  <2> QED
    BY <1>6, <2>2, Written DEF PatchMetadata, HasMeta, writer, LogInv
<1>7. CASE UNCHANGED vars
  BY <1>7, <1>s, <1>n DEF vars, store, writer
<1> QED
  BY <1>1, <1>2, <1>3, <1>4, <1>5, <1>6, <1>7 DEF Next, WriterStep

(* Taking a command out of the channel moves an item, if it is one, to the  *)
(* end of the pending ones, and changes nothing about the items in flight.  *)
LEMMA TakenInOrder ==
  ASSUME LogInv, queue # <<>>, queue' = Tail(queue),
         pending' = IF Head(queue).op = "AddItems" THEN Append(pending, Head(queue).item) ELSE pending
  PROVE  /\ InFlight' = InFlight /\ ToSet(pending) \subseteq ToSet(pending')
         /\ Head(queue).op = "AddItems" => Head(queue).item \in ToSet(pending')
         /\ \A m, n \in 1 .. Len(pending') : m < n => pending'[m] < pending'[n]
         /\ \A m, n \in Adds' : m < n => queue'[m].item < queue'[n].item
         /\ \A m \in 1 .. Len(pending'), n \in Adds' : pending'[m] < queue'[n].item
<1>t. /\ TypeOK /\ pending \in Seq(Items) /\ Len(pending) \in Nat /\ InOrder
      /\ \A n \in Adds : n \in Nat /\ n >= 1
  BY Entries DEF LogInv, RecorderInv, TypeOK
<1>1. /\ Head(queue) \in Cmd /\ Head(queue) = queue[1]
      /\ Head(queue).op = "AddItems" => 1 \in Adds
      /\ Head(queue).op # "AddItems" => 1 \in Asks
      /\ \A n \in Adds' : n \in Nat /\ n + 1 \in Adds /\ queue'[n] = queue[n + 1] /\ n + 1 # 1
      /\ \A n \in Adds : n = 1 \/ (n - 1 \in Adds' /\ queue'[n - 1] = queue[n])
  BY <1>t, Taken
<1>2. ASSUME NEW m \in Adds', NEW n \in Adds', m < n PROVE queue'[m].item < queue'[n].item
  <2>1. m + 1 \in Adds /\ n + 1 \in Adds /\ m + 1 < n + 1
    BY <1>1, <1>2
  <2>2. queue[m + 1].item < queue[n + 1].item
    BY <1>t, <2>1 DEF InOrder
  <2> QED
    BY <1>1, <2>2
<1>3. CASE Head(queue).op = "AddItems"
  <2> DEFINE i == queue[1].item
  <2>1. pending' = Append(pending, i) /\ 1 \in Adds
    BY <1>1, <1>3
  <2>2. /\ Len(pending') = Len(pending) + 1 /\ pending'[Len(pending) + 1] = i
        /\ \A n \in 1 .. Len(pending) : pending'[n] = pending[n]
        /\ ToSet(pending') = ToSet(pending) \cup {i}
    BY <1>t, <2>1, Appended
  <2>3. \A m \in 1 .. Len(pending) : pending[m] < i
    BY <1>t, <2>1 DEF InOrder
  <2>4. ASSUME NEW n \in Adds'
        PROVE  i < queue'[n].item /\ \A m \in 1 .. Len(pending) : pending[m] < queue'[n].item
    <3>0. n \in Nat /\ n + 1 \in Adds /\ n + 1 # 1 /\ queue'[n] = queue[n + 1]
      BY <1>1
    <3>a. \A k \in Nat : k + 1 # 1 => 1 < k + 1
      OBVIOUS
    <3>1. n + 1 \in Adds /\ 1 < n + 1 /\ queue'[n] = queue[n + 1]
      BY <3>0, <3>a
    <3>2. i < queue[n + 1].item
      BY <1>t, <2>1, <3>1 DEF InOrder
    <3>3. \A m \in 1 .. Len(pending) : pending[m] < queue[n + 1].item
      BY <1>t, <3>1 DEF InOrder
    <3> QED
      BY <3>1, <3>2, <3>3
  <2>5. \A m, n \in 1 .. Len(pending') : m < n => pending'[m] < pending'[n]
    BY <1>t, <2>2, <2>3 DEF InOrder
  <2>6. ASSUME NEW m \in 1 .. Len(pending'), NEW n \in Adds' PROVE pending'[m] < queue'[n].item
    <3>1. CASE m \in 1 .. Len(pending)
      BY <2>2, <2>4, <3>1
    <3>2. CASE m = Len(pending) + 1
      BY <2>2, <2>4, <3>2
    <3>3. \A k \in Nat : \A j \in 1 .. (k + 1) : j \in 1 .. k \/ j = k + 1
      OBVIOUS
    <3>4. m \in 1 .. (Len(pending) + 1) /\ Len(pending) \in Nat
      BY <1>t, <2>2
    <3> QED
      BY <3>1, <3>2, <3>3, <3>4
  <2> DEFINE A == {queue[n].item : n \in Adds}
             B == {queue'[n].item : n \in Adds'}
  <2>7. A = B \cup {i}
    <3>1. ASSUME NEW x \in B PROVE x \in A
      <4>1. PICK n \in Adds' : x = queue'[n].item
        BY <3>1
      <4>2. n + 1 \in Adds /\ x = queue[n + 1].item
        BY <1>1, <4>1
      <4> QED
        BY <4>2
    <3>2. ASSUME NEW x \in A PROVE x \in B \cup {i}
      <4>1. PICK n \in Adds : x = queue[n].item
        BY <3>2
      <4>2. n = 1 \/ (n - 1 \in Adds' /\ queue'[n - 1] = queue[n])
        BY <1>1
      <4> QED
        BY <4>1, <4>2
    <3>3. i \in A
      BY <2>1
    <3> QED
      BY <3>1, <3>2, <3>3
  <2>8. InFlight = ToSet(pending) \cup A /\ InFlight' = ToSet(pending') \cup B
    BY DEF InFlight
  <2> HIDE DEF A, B
  <2> QED
    BY <1>1, <1>2, <2>2, <2>5, <2>6, <2>7, <2>8
<1>4. CASE Head(queue).op # "AddItems"
  <2>1. pending' = pending /\ 1 \notin Adds
    BY <1>1, <1>4 DEF Asks
  <2>2. ASSUME NEW m \in 1 .. Len(pending'), NEW n \in Adds' PROVE pending'[m] < queue'[n].item
    <3>1. n + 1 \in Adds /\ queue'[n] = queue[n + 1]
      BY <1>1
    <3> QED
      BY <1>t, <2>1, <3>1 DEF InOrder
  <2>3. \A m, n \in 1 .. Len(pending') : m < n => pending'[m] < pending'[n]
    BY <1>t, <2>1 DEF InOrder
  <2>4. \A n \in Adds : n - 1 \in Adds' /\ queue'[n - 1] = queue[n]
    BY <1>1, <2>1
  <2>5. {queue[n].item : n \in Adds} = {queue'[n].item : n \in Adds'}
    <3>1. ASSUME NEW x \in {queue'[n].item : n \in Adds'} PROVE x \in {queue[n].item : n \in Adds}
      <4>1. PICK n \in Adds' : x = queue'[n].item
        BY <3>1
      <4>2. n + 1 \in Adds /\ x = queue[n + 1].item
        BY <1>1, <4>1
      <4> QED
        BY <4>2
    <3>2. ASSUME NEW x \in {queue[n].item : n \in Adds} PROVE x \in {queue'[n].item : n \in Adds'}
      <4>1. PICK n \in Adds : x = queue[n].item
        BY <3>2
      <4> QED
        BY <4>1, <2>4
    <3> QED
      BY <3>1, <3>2
  <2>6. InFlight' = InFlight
    BY <2>1, <2>5 DEF InFlight
  <2> QED
    BY <1>2, <1>4, <2>1, <2>2, <2>3, <2>6
<1> QED
  BY <1>3, <1>4

(* The items that wait are written in the order of their numbers.           *)
LEMMA OrderStep ==
  ASSUME LogInv, Whole, [Next]_vars
  PROVE  InOrder'
<1>t. /\ TypeOK /\ InOrder /\ pending \in Seq(Items) /\ Len(pending) \in Nat
      /\ recorded \in Nat /\ life \subseteq 1 .. recorded /\ InFlight \subseteq 1 .. recorded
      /\ Readable(file) \subseteq 1 .. recorded
  BY RecorderAssumption DEF LogInv, RecorderInv, TypeOK, InOrder
<1>m. Meta \notin Items
  BY RecorderAssumption DEF Items
<1>f. ASSUME ~WriteItem PROVE Readable(file)' = Readable(file) /\ ToSet(file) \subseteq ToSet(file')
  BY <1>f, <1>m, FileStep DEF Readable, IsItem
(* Steps that move no item.                                                 *)
<1>n. WriteItem => pending' # pending
  BY <1>t, HeadAndTail DEF WriteItem
<1>s. ASSUME UNCHANGED <<pending, queue, recorded>>,
             life' = {} \/ (life' = life /\ (recorder' = "running" => recorder = "running"))
      PROVE  InOrder'
  <2>1. InFlight' = InFlight /\ Adds' = Adds
    BY <1>s DEF InFlight, Adds
  <2> QED
    BY <1>s, <2>1, <1>t, <1>f, <1>n DEF InOrder
(* Steps that leave nothing in flight.                                      *)
<1>e. ASSUME pending' = <<>>, queue' = <<>>, recorder' # "running", ~WriteItem, UNCHANGED <<life, recorded>>
      PROVE  InOrder'
  <2>1. InFlight' = {} /\ Adds' = {} /\ Len(pending') = 0
    BY <1>e DEF InFlight, Adds, ToSet
  <2> QED
    BY <1>e, <2>1, <1>t, <1>f DEF InOrder
<1>1. CASE RecordItem
  <2> DEFINE cmd == [op |-> "AddItems", item |-> recorded + 1]
             k == Len(queue) + 1
  <2>1. recorded + 1 \in Items /\ recorded' = recorded + 1 /\ ~WriteItem
        /\ life' = life \cup {recorded + 1} /\ pending' = pending
    BY <1>1, <1>t, RecorderAssumption DEF RecordItem, TypeOK, Items, writer, WriteItem
  <2>2. cmd \in Cmd /\ cmd.op = "AddItems" /\ cmd.item = recorded + 1 /\ queue' = Append(queue, cmd)
    BY <1>1, <2>1, Commands DEF RecordItem
  <2> HIDE DEF cmd
  <2>3. /\ k \in Nat /\ Adds' = Adds \cup {k} /\ Adds \subseteq 1 .. (k - 1) /\ queue'[k] = cmd
        /\ \A n \in Adds : queue'[n] = queue[n]
    BY <1>t, <2>2, Sent
  <2> HIDE DEF k
  <2>4. InFlight' = InFlight \cup {recorded + 1}
    BY <2>1, <2>2, <2>3 DEF InFlight
  <2>5. \A n \in Adds : queue[n].item \in 1 .. recorded
    BY <1>t DEF InFlight
  <2>6. \A n \in 1 .. Len(pending) : pending[n] \in 1 .. recorded
    BY <1>t DEF InFlight, ToSet
  <2>7. InFlight' \cup life' \cup Readable(file)' \subseteq 1 .. recorded'
    <3>1. 1 .. recorded \subseteq 1 .. recorded' /\ recorded + 1 \in 1 .. recorded'
      BY <1>t, <2>1
    <3>2. Readable(file)' = Readable(file)
      BY <1>f, <2>1
    <3> QED
      BY <1>t, <2>1, <2>4, <3>1, <3>2
  <2>8. ASSUME NEW m \in Adds', NEW n \in Adds', m < n PROVE queue'[m].item < queue'[n].item
    <3>1. m \in Adds
      BY <2>3, <2>8
    <3>2. CASE n \in Adds
      BY <1>t, <2>3, <2>8, <3>1, <3>2 DEF InOrder
    <3>3. CASE n = k
      <4>1. queue'[n].item = recorded + 1 /\ queue'[m].item = queue[m].item /\ queue[m].item \in 1 .. recorded
        BY <2>2, <2>3, <2>5, <3>1, <3>3
      <4> QED
        BY <1>t, <4>1
    <3> QED
      BY <2>3, <3>2, <3>3
  <2>9. ASSUME NEW m \in 1 .. Len(pending), NEW n \in Adds' PROVE pending[m] < queue'[n].item
    <3>1. CASE n \in Adds
      BY <1>t, <2>3, <3>1 DEF InOrder
    <3>2. CASE n = k
      <4>1. queue'[n].item = recorded + 1 /\ pending[m] \in 1 .. recorded
        BY <2>2, <2>3, <2>6, <3>2
      <4> QED
        BY <1>t, <4>1
    <3> QED
      BY <2>3, <3>1, <3>2
  <2>10. recorder = "running" /\ recorder' = "running"
    BY <1>1 DEF RecordItem, CanSend
  <2>11. life' \subseteq ToSet(file') \cup InFlight'
    BY <1>t, <1>f, <2>1, <2>4, <2>10 DEF InOrder
  <2> QED
    BY <1>t, <2>1, <2>7, <2>8, <2>9, <2>11 DEF InOrder
<1>2. ASSUME NEW c \in Clients, NEW op \in Barriers, AskBarrier(c, op) PROVE InOrder'
  <2> DEFINE cmd == [op |-> op, from |-> c]
  <2>1. cmd \in Cmd /\ cmd.op # "AddItems" /\ queue' = Append(queue, cmd)
    BY <1>2, Commands DEF AskBarrier
  <2> HIDE DEF cmd
  <2>2. Adds' = Adds /\ \A n \in Adds : queue'[n] = queue[n]
    BY <1>t, <2>1, Sent
  <2>3. UNCHANGED <<pending, recorded, life, recorder>> /\ ~WriteItem
    BY <1>2, <1>t, <2>1, Sent DEF AskBarrier, writer, WriteItem
  <2>4. InFlight' = InFlight
    BY <2>2, <2>3 DEF InFlight
  <2> QED
    BY <2>2, <2>3, <2>4, <1>t, <1>f DEF InOrder
<1>3. CASE TakeCommand
  <2> DEFINE pend == IF Head(queue).op = "AddItems" THEN Append(pending, Head(queue).item) ELSE pending
  <2>1. pending' = pend /\ queue # <<>> /\ UNCHANGED <<life, recorded>> /\ recorder = "running" /\ ~WriteItem
    BY <1>3 DEF TakeCommand, WriteItem, Working
  <2>2. CASE queue' = Tail(queue)
    BY <2>1, <2>2, <1>t, <1>f, TakenInOrder DEF InOrder
  <2>3. CASE queue' = <<>> /\ pend = <<>> /\ recorder' = "stopped"
    BY <2>1, <2>3, <1>e
  <2> QED
    BY <1>3, <2>2, <2>3 DEF TakeCommand, Succeed, NothingToWrite
<1>4. CASE OpenFile \/ WriteMeta \/ OpenFails \/ WriteFails \/ PatchMetadata
  BY <1>4, <1>s DEF OpenFile, WriteMeta, OpenFails, WriteFails, EnterRecovery, Recover, PatchMetadata, writer
<1>5. CASE WriteItem
  <2>1. /\ UNCHANGED <<queue, recorded, life, recorder>> /\ pending' = Tail(pending) /\ pending # <<>>
    BY <1>5 DEF WriteItem
  <2>2. ToSet(file') = ToSet(file) \cup {Head(pending)}
    BY <1>5, FileStep
  <2>3. /\ Head(pending) = pending[1] /\ Len(pending) >= 1 /\ Len(pending') = Len(pending) - 1
        /\ \A n \in 1 .. Len(pending') : pending'[n] = pending[n + 1]
        /\ ToSet(pending) = {Head(pending)} \cup ToSet(pending')
    BY <1>t, <2>1, HeadAndTail
  <2>4. Adds' = Adds /\ InFlight = InFlight' \cup {Head(pending)}
    BY <2>1, <2>3 DEF Adds, InFlight
  <2>5. InFlight' \cup life' \cup Readable(file)' \subseteq 1 .. recorded'
    BY <1>t, <2>1, <2>2, <2>4 DEF Readable
  <2>6. \A m, n \in 1 .. Len(pending') : m < n => pending'[m] < pending'[n]
    BY <1>t, <2>3 DEF InOrder
  <2>7. \A m \in 1 .. Len(pending'), n \in Adds' : pending'[m] < queue'[n].item
    BY <1>t, <2>1, <2>3, <2>4 DEF InOrder
  <2> QED
    BY <1>t, <2>1, <2>2, <2>4, <2>5, <2>6, <2>7 DEF InOrder
<1>6. CASE FinishCommand
  <2>1. pending = <<>> /\ UNCHANGED <<pending, recorded, life>> /\ recorder = "running" /\ ~WriteItem
    BY <1>6 DEF FinishCommand, writer, Working, WriteItem
  <2> QED
    BY <1>6, <2>1, <1>s, <1>e DEF FinishCommand, Succeed
<1>7. CASE Crash
  BY <1>7, <1>e DEF Crash, WriteItem, Working
<1>8. CASE Resume
  <2>1. pending' = pending
    BY <1>8 DEF Resume, LogInv, RecorderInv, Emptied
  <2> QED
    BY <1>8, <2>1, <1>s DEF Resume, WriteItem, Working
<1>9. CASE UNCHANGED vars
  BY <1>9, <1>s DEF vars, writer
<1> QED
  BY <1>1, <1>2, <1>3, <1>4, <1>5, <1>6, <1>7, <1>8, <1>9 DEF Next, WriterStep

(* What a barrier waits for is written, or pending, or ahead of it.         *)
LEMMA BehindIs ==
  ASSUME NEW n, NEW x
  PROVE  x \in Behind(n) <=> \/ x \in ToSet(file) \/ x \in ToSet(pending)
                             \/ \E m \in Adds : m \in 1 .. (n - 1) /\ x = queue[m].item
BY DEF Behind

(* A barrier that reaches the writer waits for what is pending, and has     *)
(* nothing to wait for once that is written.                                *)
LEMMA BehindFirst ==
  /\ Behind(1) = ToSet(file) \cup ToSet(pending)
  /\ pending = <<>> => Behind(1) = ToSet(file)
<1>1. 1 .. (1 - 1) = {}
  OBVIOUS
<1>2. Behind(1) = ToSet(file) \cup ToSet(pending)
  BY <1>1 DEF Behind
<1>3. pending = <<>> => ToSet(pending) = {}
  BY DEF ToSet
<1> QED
  BY <1>2, <1>3

(* No barrier is answered before what it covers is in the file, and none is *)
(* overtaken by it.                                                         *)
LEMMA BarrierStep ==
  ASSUME LogInv, Whole, [Next]_vars
  PROVE  Barred' /\ AckedIsReadable'
<1>t. /\ TypeOK /\ Waiting /\ InOrder /\ Barred /\ pending \in Seq(Items) /\ Len(queue) \in Nat
      /\ promised \subseteq Items /\ promised \subseteq ToSet(file)
      /\ asked \in [Clients -> {NotAsking} \cup SUBSET Items]
      /\ torn = FALSE
  BY Entries DEF LogInv, RecorderInv, TypeOK, AckedIsReadable, Readable
<1>f. ToSet(file) \subseteq ToSet(file') /\ ToSet(file) \cup ToSet(pending) \subseteq ToSet(file') \cup ToSet(pending)
  BY FileStep
<1>n. ~(Idle.op \in Barriers)
  BY Commands
<1>a. ASSUME promised' = promised PROVE AckedIsReadable'
  BY <1>a, <1>f DEF AckedIsReadable, Readable, LogInv
(* Steps by which what a barrier waits for does not move away from it.      *)
<1>s. ASSUME Asks' \subseteq Asks, Adds' = Adds,
             \A n \in Asks' : queue'[n] = queue[n] /\ asked'[queue[n].from] = asked[queue[n].from],
             \A n \in Adds : queue'[n].item = queue[n].item,
             ToSet(pending) \subseteq ToSet(file') \cup ToSet(pending'),
             cur'.op \in Barriers => cur' = cur /\ asked'[cur.from] = asked[cur.from]
      PROVE  Barred'
  <2>1. \A n, x : x \in Behind(n) => x \in Behind(n)'
    <3> SUFFICES ASSUME NEW n, NEW x, x \in Behind(n) PROVE x \in Behind(n)'
      OBVIOUS
    <3>1. \/ x \in ToSet(file) \/ x \in ToSet(pending)
          \/ \E m \in Adds : m \in 1 .. (n - 1) /\ x = queue[m].item
      BY BehindIs
    <3>2. \/ x \in ToSet(file') \/ x \in ToSet(pending')
          \/ \E m \in Adds' : m \in 1 .. (n - 1) /\ x = queue'[m].item
      BY <3>1, <1>f, <1>s
    <3> QED
      BY <3>2 DEF Behind
  <2> QED
    BY <1>s, <2>1, <1>t DEF Barred
(* A channel that nobody waits in.                                          *)
<1>e. ASSUME queue' = <<>>, cur' = Idle PROVE Barred'
  <2>1. Asks' = {}
    BY <1>e DEF Asks
  <2> QED
    BY <1>e, <2>1, <1>n DEF Barred
<1>u. ASSUME UNCHANGED <<queue, asked, cur>>, ToSet(pending) \subseteq ToSet(file') \cup ToSet(pending')
      PROVE  Barred'
  BY <1>u, <1>s DEF Asks, Adds
(* A command that succeeds when nothing is pending.                         *)
<1>w. ASSUME NEW cmd, NEW q, Succeed(cmd, q), pending = <<>>,
             cmd.op \in Barriers => asked[cmd.from] # NotAsking /\ asked[cmd.from] \subseteq Behind(1) /\ cmd.from \in Clients
      PROVE  AckedIsReadable'
  <2>1. CASE promised' = promised
    BY <2>1, <1>a
  <2>2. CASE cmd.op \in Barriers /\ promised' = promised \cup asked[cmd.from]
    <3>1. asked[cmd.from] \subseteq Items /\ asked[cmd.from] \subseteq ToSet(file)
      BY <1>w, <1>t, <2>2, BehindFirst
    <3> QED
      BY <1>t, <1>f, <2>2, <3>1 DEF AckedIsReadable, Readable, IsItem
  <2> QED
    BY <1>w, <2>1, <2>2 DEF Succeed, Barriers, clients
<1>1. CASE RecordItem
  <2> DEFINE cmd == [op |-> "AddItems", item |-> recorded + 1]
             k == Len(queue) + 1
  <2>0. recorded + 1 \in Items
    BY <1>1, <1>t, RecorderAssumption DEF RecordItem, TypeOK, Items
  <2>1. cmd \in Cmd /\ cmd.op = "AddItems" /\ queue' = Append(queue, cmd)
    BY <1>1, <2>0, Commands DEF RecordItem
  <2>2. UNCHANGED <<asked, promised, cur, pending, file>>
    BY <1>1 DEF RecordItem, clients, work, writer, store
  <2> HIDE DEF cmd
  <2>3. /\ k \in Nat /\ Adds' = Adds \cup {k} /\ Asks' = Asks
        /\ \A n \in Adds \cup Asks : queue'[n] = queue[n]
    BY <1>t, <2>1, Sent
  <2> HIDE DEF k
  <2>4. \A n, x : x \in Behind(n) => x \in Behind(n)'
    <3> SUFFICES ASSUME NEW n, NEW x, x \in Behind(n) PROVE x \in Behind(n)'
      OBVIOUS
    <3>1. \/ x \in ToSet(file) \/ x \in ToSet(pending)
          \/ \E m \in Adds : m \in 1 .. (n - 1) /\ x = queue[m].item
      BY BehindIs
    <3>2. \/ x \in ToSet(file') \/ x \in ToSet(pending')
          \/ \E m \in Adds' : m \in 1 .. (n - 1) /\ x = queue'[m].item
      BY <3>1, <2>2, <2>3
    <3> QED
      BY <3>2 DEF Behind
  <2>5. Barred'
    BY <1>t, <2>2, <2>3, <2>4 DEF Barred
  <2> QED
    BY <2>2, <2>5, <1>a
<1>2. ASSUME NEW c \in Clients, NEW op \in Barriers, AskBarrier(c, op) PROVE Barred' /\ AckedIsReadable'
  <2> DEFINE cmd == [op |-> op, from |-> c]
             k == Len(queue) + 1
  <2>1. cmd \in Cmd /\ cmd.op # "AddItems" /\ cmd.from = c /\ queue' = Append(queue, cmd)
    BY <1>2, Commands DEF AskBarrier
  <2>2. UNCHANGED <<promised, cur, pending, file>> /\ recorder = "running" /\ asked[c] = NotAsking
        /\ asked' = [asked EXCEPT ![c] = life]
    BY <1>2 DEF AskBarrier, CanSend, work, writer, store
  <2> HIDE DEF cmd
  <2>3. /\ k \in Nat /\ Adds' = Adds /\ Asks' = Asks \cup {k} /\ queue'[k] = cmd
        /\ Adds \subseteq 1 .. (k - 1)
        /\ \A n \in Adds \cup Asks : queue'[n] = queue[n]
    BY <1>t, <2>1, Sent
  <2> HIDE DEF k
  <2>4. \A n : Behind(n)' = Behind(n)
    BY <2>2, <2>3 DEF Behind
  <2>5. asked'[c] = life /\ \A d \in Clients \ {c} : asked'[d] = asked[d]
    BY <1>t, <2>2
  <2>6. \A n \in Asks : queue[n].from \in Clients \ {c}
    BY <1>t, <2>2, Entries DEF Waiting
  <2>7. cur.op \in Barriers => cur.from \in Clients \ {c}
    BY <1>t, <2>2, Commands DEF Waiting, TypeOK
  <2>8. life \subseteq Behind(k)
    <3>1. life \subseteq ToSet(file) \cup InFlight
      BY <1>t, <2>2 DEF InOrder
    <3>2. \A x \in InFlight : x \in ToSet(pending) \/ \E m \in Adds : x = queue[m].item
      BY DEF InFlight
    <3> QED
      BY <2>3, <3>1, <3>2, BehindIs
  <2>9. \A n \in Asks' : asked'[queue'[n].from] \subseteq Behind(n)
    <3> SUFFICES ASSUME NEW n \in Asks' PROVE asked'[queue'[n].from] \subseteq Behind(n)
      OBVIOUS
    <3>1. CASE n \in Asks
      BY <1>t, <2>3, <2>5, <2>6, <3>1 DEF Barred
    <3>2. CASE n = k
      BY <2>1, <2>3, <2>5, <2>8, <3>2
    <3> QED
      BY <2>3, <3>1, <3>2
  <2>10. cur'.op \in Barriers => asked'[cur'.from] \subseteq Behind(1)
    BY <1>t, <2>2, <2>5, <2>7 DEF Barred
  <2>11. Barred'
    BY <2>4, <2>9, <2>10 DEF Barred
  <2> QED
    BY <2>2, <2>11, <1>a
<1>3. CASE TakeCommand
  <2> DEFINE cmd == Head(queue)
             pend == IF cmd.op = "AddItems" THEN Append(pending, cmd.item) ELSE pending
  <2>1. pending' = pend /\ queue # <<>> /\ cur = Idle /\ file' = file
    BY <1>3 DEF TakeCommand, store
  <2>2. /\ cmd \in Cmd /\ cmd = queue[1] /\ (cmd.op # "AddItems" => 1 \in Asks)
        /\ (cmd.op = "AddItems" => 1 \in Adds)
    BY <1>t, <2>1, HeadAndTail DEF TypeOK, Asks, Adds
  <2>3. cmd.op \in Barriers => /\ asked[cmd.from] # NotAsking /\ asked[cmd.from] \subseteq Behind(1)
                               /\ cmd.from \in Clients /\ pend = pending
    BY <1>t, <2>2, Commands DEF Waiting, Barred
  (* Whoever still waits in the channel waits for no more than before.       *)
  <2>4. ASSUME queue' = Tail(queue)
        PROVE  \A n \in Asks' : /\ n + 1 \in Asks /\ queue'[n] = queue[n + 1] /\ n + 1 # 1
                                /\ asked[queue[n + 1].from] \subseteq Behind(n)'
    <3> SUFFICES ASSUME NEW n \in Asks'
                 PROVE  /\ n + 1 \in Asks /\ queue'[n] = queue[n + 1] /\ n + 1 # 1
                        /\ asked[queue[n + 1].from] \subseteq Behind(n)'
      OBVIOUS
    <3>1. n \in Nat /\ n + 1 \in Asks /\ queue'[n] = queue[n + 1] /\ n + 1 # 1
      BY <1>t, <2>1, <2>4, Taken
    <3>2. \A m \in Adds : m \in Nat /\ (m = 1 \/ (m - 1 \in Adds' /\ queue'[m - 1] = queue[m]))
      BY <1>t, <2>1, <2>4, Taken, Entries
    <3>3. /\ ToSet(pending) \subseteq ToSet(pending')
          /\ cmd.op = "AddItems" => cmd.item \in ToSet(pending')
      BY <2>1, <2>4, TakenInOrder
    <3>4. ASSUME NEW x \in asked[queue[n + 1].from] PROVE x \in Behind(n)'
      <4>1. x \in Behind(n + 1)
        BY <1>t, <3>1, <3>4 DEF Barred
      <4>2. CASE x \in ToSet(file) \/ x \in ToSet(pending)
        BY <2>1, <3>3, <4>2 DEF Behind
      <4>3. ASSUME NEW m \in Adds, m \in 1 .. ((n + 1) - 1), x = queue[m].item PROVE x \in Behind(n)'
        <5>1. CASE m = 1
          <6>1. cmd.op = "AddItems" /\ x = cmd.item
            BY <2>2, <4>3, <5>1 DEF Adds
          <6> QED
            BY <3>3, <6>1 DEF Behind
        <5>2. CASE m # 1
          <6>1. m - 1 \in Adds' /\ x = queue'[m - 1].item
            BY <3>2, <4>3, <5>2
          <6>2. m - 1 \in 1 .. (n - 1)
            BY <3>1, <3>2, <4>3, <5>2
          <6> QED
            BY <6>1, <6>2 DEF Behind
        <5> QED
          BY <5>1, <5>2
      <4> QED
        BY <4>1, <4>2, <4>3, BehindIs
    <3> QED
      BY <3>1, <3>4
  <2>5. CASE Succeed(cmd, Tail(queue)) /\ NothingToWrite(cmd, pend)
    <3>1. cur' = Idle
      BY <2>5 DEF Succeed, BackToLoop
    <3>2. CASE cmd.op = "AddItems"
      <4>1. queue' = Tail(queue) /\ asked' = asked /\ promised' = promised
        BY <2>5, <3>2 DEF Succeed, clients
      <4> QED
        BY <3>1, <4>1, <2>4, <1>n, <1>a DEF Barred
    <3>3. CASE cmd.op \in {"Flush", "Shutdown"} /\ pend = <<>>
      <4>1. cmd.op \in Barriers /\ pending = <<>>
        BY <2>3, <3>3 DEF Barriers
      <4>2. AckedIsReadable'
        BY <2>3, <2>5, <4>1, <1>w
      <4>3. CASE queue' = <<>>
        BY <3>1, <4>2, <4>3, <1>e
      <4>4. CASE queue' = Tail(queue) /\ asked' = [asked EXCEPT ![cmd.from] = NotAsking]
        <5>1. \A n \in Asks' : queue[n + 1].from # cmd.from /\ queue[n + 1].from \in Clients
          BY <1>t, <2>2, <2>4, <3>3, <4>4, Entries DEF Waiting
        <5>2. \A n \in Asks' : asked'[queue'[n].from] = asked[queue[n + 1].from]
          BY <1>t, <2>4, <4>4, <5>1
        <5>3. \A n \in Asks' : asked'[queue'[n].from] \subseteq Behind(n)'
          BY <2>4, <4>4, <5>2
        <5>4. Barred'
          BY <3>1, <5>3, <1>n DEF Barred
        <5> QED
          BY <4>2, <5>4
      <4> QED
        BY <2>5, <3>3, <4>2, <4>3, <4>4 DEF Succeed
    <3> QED
      BY <2>5, <3>2, <3>3 DEF NothingToWrite
  <2>6. CASE cur' = cmd /\ queue' = Tail(queue) /\ UNCHANGED <<asked, promised>>
    <3>1. cmd.op \in Barriers => asked[cmd.from] \subseteq Behind(1)'
      BY <2>1, <2>3, BehindFirst DEF Behind
    <3>2. \A n \in Asks' : asked'[queue'[n].from] \subseteq Behind(n)'
      BY <2>4, <2>6
    <3>3. Barred'
      BY <2>6, <3>1, <3>2 DEF Barred
    <3> QED
      BY <2>6, <3>3, <1>a
  <2> QED
    BY <1>3, <2>5, <2>6 DEF TakeCommand, clients
<1>4. CASE OpenFile \/ WriteMeta \/ PatchMetadata
  BY <1>4, <1>u, <1>a DEF OpenFile, WriteMeta, PatchMetadata, writer, work, clients
<1>5. CASE WriteItem
  <2>1. UNCHANGED <<queue, asked, cur, promised>> /\ pending # <<>> /\ pending' = Tail(pending)
    BY <1>5 DEF WriteItem, work, clients
  <2>2. ToSet(file') = ToSet(file) \cup {Head(pending)} /\ ToSet(pending) = {Head(pending)} \cup ToSet(pending')
    BY <1>5, <1>t, <2>1, FileStep, HeadAndTail
  <2> QED
    BY <2>1, <2>2, <1>u, <1>a
<1>6. CASE FinishCommand
  <2>1. /\ cur \in Cmd /\ pending = <<>> /\ pending' = pending /\ Succeed(cur, queue) /\ cur' = Idle
    BY <1>6, <1>t DEF FinishCommand, Working, TypeOK, writer, Succeed, BackToLoop
  <2>2. cur.op \in Barriers => /\ asked[cur.from] # NotAsking /\ asked[cur.from] \subseteq Behind(1)
                               /\ cur.from \in Clients /\ \A n \in Asks : queue[n].from # cur.from
    BY <1>t, <2>1, Commands DEF Waiting, Barred
  <2>3. AckedIsReadable'
    BY <2>1, <2>2, <1>w
  <2>4. CASE queue' = <<>>
    BY <2>1, <2>3, <2>4, <1>e
  <2>5. CASE queue' = queue /\ asked' = asked
    <3>1. Barred'
      BY <2>1, <2>5, <1>s, <1>n DEF Asks, Adds
    <3> QED
      BY <2>3, <3>1
  <2>6. CASE cur.op \in Barriers /\ queue' = queue /\ asked' = [asked EXCEPT ![cur.from] = NotAsking]
    <3>1. Asks' = Asks /\ Adds' = Adds
      BY <2>6 DEF Asks, Adds
    <3>2. \A n \in Asks : asked'[queue[n].from] = asked[queue[n].from]
      BY <1>t, <2>2, <2>6, Entries
    <3>3. Barred'
      BY <2>1, <2>6, <3>1, <3>2, <1>s, <1>n
    <3> QED
      BY <2>3, <3>3
  <2> QED
    BY <2>1, <2>4, <2>5, <2>6 DEF Succeed, Barriers, clients
<1>7. CASE OpenFails \/ WriteFails
  <2>1. /\ UNCHANGED <<queue, pending, promised>> /\ cur \in Cmd
        /\ \/ UNCHANGED <<cur, asked>>
           \/ GiveUp(cur)
    BY <1>7, <1>t DEF OpenFails, WriteFails, EnterRecovery, Recover, Working, TypeOK
  <2>2. CASE UNCHANGED <<cur, asked>>
    BY <2>1, <2>2, <1>u, <1>a
  <2>3. CASE GiveUp(cur)
    <3>1. cur' = Idle /\ Asks' = Asks /\ Adds' = Adds
      BY <2>1, <2>3 DEF GiveUp, BackToLoop, Asks, Adds
    <3>2. \A n \in Asks : asked'[queue[n].from] = asked[queue[n].from]
      BY <1>t, <2>1, <2>3, Entries, Commands DEF GiveUp, Waiting
    <3>3. Barred'
      BY <2>1, <3>1, <3>2, <1>s, <1>n
    <3> QED
      BY <2>1, <3>3, <1>a
  <2> QED
    BY <2>1, <2>2, <2>3
<1>8. CASE Crash
  BY <1>8, <1>e, <1>a DEF Crash
<1>9. CASE Resume
  <2>1. queue' = <<>> /\ cur' = Idle /\ promised' = promised
    BY <1>9 DEF Resume, LogInv, RecorderInv, Emptied, work, clients
  <2> QED
    BY <2>1, <1>e, <1>a
<1>10. CASE UNCHANGED vars
  BY <1>10, <1>u, <1>a DEF vars, work, writer, clients
<1> QED
  BY <1>1, <1>2, <1>3, <1>4, <1>5, <1>6, <1>7, <1>8, <1>9, <1>10 DEF Next, WriterStep

(* LogInv is inductive while no write is cut short.                         *)
LEMMA LogInit == Init => LogInv
<1> SUFFICES ASSUME Init PROVE LogInv
  OBVIOUS
<1>1. Adds = {} /\ Asks = {} /\ ToSet(pending) = {} /\ ToSet(file) = {} /\ Len(pending) = 0 /\ Len(file) = 0
  BY NoEntries DEF Init, ToSet
<1>2. InOrder
  BY <1>1 DEF Init, InOrder, InFlight, Readable
<1>3. MetaFirst /\ AckedIsReadable /\ ~torn /\ meta
  BY <1>1 DEF Init, MetaFirst, AckedIsReadable
<1>4. Barred
  BY <1>1, Commands DEF Init, Barred
<1> QED
  BY <1>2, <1>3, <1>4, RecorderInit DEF LogInv

(* When no write is cut short, every step keeps the log's invariant.        *)
LEMMA LogStep == Whole /\ LogInv /\ [Next]_vars => LogInv'
<1> SUFFICES ASSUME Whole, LogInv, [Next]_vars PROVE LogInv'
  OBVIOUS
<1>1. RecorderInv'
  BY RecorderStep DEF LogInv
<1>2. MetaFirst' /\ ~torn' /\ (meta' \/ HasMeta(file)')
  BY FileStep
<1>3. InOrder'
  BY OrderStep
<1>4. Barred' /\ AckedIsReadable'
  BY BarrierStep
<1> QED
  BY <1>1, <1>2, <1>3, <1>4 DEF LogInv

(* The doc of flush holds as long as no write is cut short within a line:   *)
(* whatever a persist, flush or shutdown answered Ok for stays readable,    *)
(* through failed attempts, crashes and resumes (the run rollout_torn shows *)
(* the other case).                                                         *)
THEOREM AcknowledgedStaysReadable == Whole /\ Spec => []AckedIsReadable
<1>1. Whole /\ Init => Whole /\ LogInv
  BY LogInit
<1>2. (Whole /\ LogInv) /\ [Next]_vars => (Whole /\ LogInv)'
  BY LogStep DEF Whole
<1>3. LogInv => AckedIsReadable
  BY DEF LogInv
<1> QED
  BY <1>1, <1>2, <1>3, PTL DEF Spec

(* Under the same condition the channel stays within its capacity and the   *)
(* session meta comes before every item, so that the file can be resumed    *)
(* after any failure or crash.                                              *)
THEOREM FileStaysResumable == Whole /\ Spec => []FileInv
<1>1. Whole /\ Init => Whole /\ LogInv
  BY LogInit
<1>2. (Whole /\ LogInv) /\ [Next]_vars => (Whole /\ LogInv)'
  BY LogStep DEF Whole
<1>3. LogInv => FileInv
  BY DEF LogInv, RecorderInv, FileInv
<1> QED
  BY <1>1, <1>2, <1>3, PTL DEF Spec

-----------------------------------------------------------------------------
(* The recorder implements DurableLog.                                      *)

(* The recorder's modes are the log's.                                      *)
LEMMA Modes ==
  ASSUME TypeOK
  PROVE  /\ Mode = "open" <=> recorder = "running"
         /\ Mode = "closed" <=> recorder = "stopped"
         /\ Mode = "crashed" <=> recorder = "down"
BY DEF Mode, TypeOK

(* A command that succeeds with nothing pending is an answer that covers    *)
(* its items, or the one that closes the log, or nothing at all.            *)
LEMMA SuccessImplements ==
  ASSUME LogInv, TypeOK', NEW cmd, NEW q, Succeed(cmd, q), pending = <<>>, recorder = "running",
         cmd.op \in Barriers => /\ cmd.from \in Clients /\ asked[cmd.from] # NotAsking
                                /\ asked[cmd.from] \subseteq Behind(1),
         pending' = <<>>, queue' = q => InFlight' = InFlight, UNCHANGED <<file, life>>
  PROVE  Promise!Next \/ UNCHANGED Promise!vars
<1>t. TypeOK /\ asked \in [Clients -> {NotAsking} \cup SUBSET Items]
  BY DEF LogInv, RecorderInv, TypeOK
<1>1. CASE cmd.op = "AddItems" /\ queue' = q /\ UNCHANGED <<recorder, clients>>
  <2>1. Mode' = Mode
    BY <1>1 DEF Mode
  <2> QED
    BY <1>1, <2>1 DEF Promise!vars, clients
<1>2. CASE /\ cmd.op \in {"Persist", "Flush"} /\ queue' = q /\ UNCHANGED recorder
           /\ asked' = [asked EXCEPT ![cmd.from] = NotAsking]
           /\ promised' = promised \cup asked[cmd.from]
  <2>1. cmd.op \in Barriers
    BY <1>2 DEF Barriers
  <2>2. Mode' = Mode
    BY <1>2 DEF Mode
  <2>a. InFlight' = InFlight /\ asked[cmd.from] # NotAsking /\ asked[cmd.from] \subseteq ToSet(file)
    BY <1>2, <2>1, BehindFirst
  <2>3. Promise!Answer(cmd.from)
    BY <1>2, <2>2, <2>a DEF Promise!Answer, Promise!Covered, Promise!ToSet, ToSet
  <2> QED
    BY <2>1, <2>3 DEF Promise!Next
<1>3. CASE /\ cmd.op = "Shutdown" /\ recorder' = "stopped" /\ queue' = <<>> /\ asked' = Quiet
           /\ promised' = promised \cup asked[cmd.from]
  <2>1. cmd.op \in Barriers
    BY <1>3 DEF Barriers
  <2>2. Mode = "open" /\ Mode' = "closed"
    BY <1>3, <1>t, Modes DEF Mode
  <2>3. InFlight' = {}
    BY <1>3 DEF InFlight, Adds, ToSet
  <2>a. asked[cmd.from] # NotAsking /\ asked[cmd.from] \subseteq ToSet(file)
    BY <2>1, BehindFirst
  <2>4. Promise!Close(cmd.from)
    BY <1>3, <2>2, <2>3, <2>a DEF Promise!Close, Promise!Covered, Promise!ToSet, ToSet, Promise!Quiet, Quiet
  <2> QED
    BY <2>1, <2>4 DEF Promise!Next
<1> QED
  BY <1>1, <1>2, <1>3 DEF Succeed

(* Every step of the recorder is a step of the log, or none.                *)
LEMMA LogImplements ==
  ASSUME LogInv, LogInv', Whole, [Next]_vars
  PROVE  [Promise!Next]_(Promise!vars)
<1>t. /\ TypeOK /\ TypeOK' /\ pending \in Seq(Items) /\ ~torn /\ InOrder /\ recorded \in Nat
      /\ asked \in [Clients -> {NotAsking} \cup SUBSET Items]
      /\ file \in Seq(Items \cup {Meta, Junk})
  <2>1. TypeOK /\ TypeOK' /\ ~torn /\ InOrder
    BY DEF LogInv, RecorderInv
  <2>2. recorded \in Nat
    BY <2>1, RecorderAssumption DEF TypeOK
  <2> QED
    BY <2>1, <2>2 DEF TypeOK
<1>s. ASSUME UNCHANGED <<file, queue, pending, life, asked, promised, recorder>>
      PROVE  UNCHANGED Promise!vars
  <2>1. InFlight' = InFlight /\ Mode' = Mode
    BY <1>s DEF InFlight, Adds, Mode
  <2> QED
    BY <1>s, <2>1 DEF Promise!vars
<1>1. CASE RecordItem
  <2> DEFINE i == recorded + 1
             cmd == [op |-> "AddItems", item |-> i]
  <2>0. i \in Items
    BY <1>1, <1>t, RecorderAssumption DEF RecordItem, TypeOK, Items
  <2>1. cmd \in Cmd /\ cmd.op = "AddItems" /\ cmd.item = i /\ queue' = Append(queue, cmd)
    BY <1>1, <2>0, Commands DEF RecordItem
  <2>2. UNCHANGED <<file, asked, promised, recorder, pending>> /\ life' = life \cup {i} /\ recorder = "running"
    BY <1>1 DEF RecordItem, CanSend, store, clients, writer
  <2> HIDE DEF cmd
  <2>3. Adds' = Adds \cup {Len(queue) + 1} /\ queue'[Len(queue) + 1] = cmd
        /\ \A n \in Adds : queue'[n] = queue[n]
    BY <1>t, <2>1, Sent
  <2>4. InFlight' = InFlight \cup {i}
    BY <2>1, <2>2, <2>3 DEF InFlight
  <2>5. Mode = "open" /\ Mode' = Mode
    BY <1>t, <2>2, Modes DEF Mode
  <2>6. \A j \in Items \cap (InFlight \cup life \cup ToSet(file)) : j < i
    <3>1. \A j \in Items \cap (InFlight \cup life \cup ToSet(file)) : j \in 1 .. recorded
      BY <1>t DEF InOrder, Readable, IsItem
    <3> QED
      BY <1>t, <3>1
  <2> HIDE DEF i
  <2>7. Promise!Accept(i)
    BY <2>2, <2>4, <2>5, <2>6 DEF Promise!Accept, Promise!ToSet, ToSet
  <2> QED
    BY <2>0, <2>7 DEF Promise!Next
<1>2. ASSUME NEW c \in Clients, NEW op \in Barriers, AskBarrier(c, op) PROVE Promise!Next
  <2> DEFINE cmd == [op |-> op, from |-> c]
  <2>1. cmd \in Cmd /\ cmd.op # "AddItems" /\ queue' = Append(queue, cmd)
    BY <1>2, Commands DEF AskBarrier
  <2> HIDE DEF cmd
  <2>2. Adds' = Adds /\ \A n \in Adds : queue'[n] = queue[n]
    BY <1>t, <2>1, Sent
  <2>3. UNCHANGED <<file, promised, recorder, pending, life>> /\ recorder = "running"
        /\ asked[c] = NotAsking /\ asked' = [asked EXCEPT ![c] = life]
    BY <1>2 DEF AskBarrier, CanSend, store, writer
  <2>4. InFlight' = InFlight /\ Mode' = Mode /\ Mode = "open"
    BY <1>t, <2>2, <2>3, Modes DEF InFlight, Mode
  <2>5. Promise!Ask(c)
    BY <2>3, <2>4 DEF Promise!Ask
  <2> QED
    BY <2>5 DEF Promise!Next
<1>3. CASE TakeCommand
  <2> DEFINE cmd == Head(queue)
             pend == IF cmd.op = "AddItems" THEN Append(pending, cmd.item) ELSE pending
  <2>1. pending' = pend /\ queue # <<>> /\ cur = Idle /\ file' = file /\ life' = life /\ recorder = "running"
    BY <1>3 DEF TakeCommand, store
  <2>2. cmd \in Cmd /\ cmd = queue[1] /\ (cmd.op # "AddItems" => 1 \in Asks)
    BY <1>t, <2>1, HeadAndTail DEF TypeOK, Asks, Adds
  <2>3. cmd.op \in Barriers => /\ cmd.from \in Clients /\ asked[cmd.from] # NotAsking
                               /\ asked[cmd.from] \subseteq Behind(1) /\ pend = pending
    BY <2>2, Commands DEF LogInv, RecorderInv, Waiting, Barred
  <2>4. queue' = Tail(queue) => InFlight' = InFlight
    BY <2>1, TakenInOrder
  <2>5. CASE queue' = Tail(queue) /\ UNCHANGED <<recorder, asked, promised>>
    <3>1. Mode' = Mode
      BY <2>5 DEF Mode
    <3> QED
      BY <2>1, <2>4, <2>5, <3>1 DEF Promise!vars
  <2>6. CASE Succeed(cmd, Tail(queue)) /\ cmd.op \in {"Flush", "Shutdown"} /\ pend = <<>>
    <3>1. cmd.op \in Barriers /\ pending = <<>> /\ pending' = <<>>
      BY <2>1, <2>3, <2>6 DEF Barriers
    <3> QED
      BY <1>t, <2>1, <2>3, <2>4, <2>6, <3>1, SuccessImplements
  <2>7. CASE Succeed(cmd, Tail(queue)) /\ cmd.op = "AddItems"
    BY <2>5, <2>7 DEF Succeed, clients
  <2> QED
    BY <1>3, <2>5, <2>6, <2>7 DEF TakeCommand, NothingToWrite, clients
<1>4. CASE OpenFile
  BY <1>4, <1>s DEF OpenFile, store, clients
<1>5. CASE WriteMeta \/ PatchMetadata
  <2>1. file' = Append(file, Meta)
    BY <1>5, Written DEF WriteMeta, PatchMetadata
  <2>2. UNCHANGED <<queue, pending, life, asked, promised, recorder>>
    BY <1>5 DEF WriteMeta, PatchMetadata, clients, writer
  <2>3. InFlight' = InFlight /\ Mode' = Mode
    BY <2>2 DEF InFlight, Adds, Mode
  <2>4. Promise!Note(Meta)
    BY <2>1, <2>2, <2>3 DEF Promise!Note
  <2> QED
    BY <2>4 DEF Promise!Next
<1>6. CASE WriteItem
  <2>1. /\ UNCHANGED <<queue, life, asked, promised, recorder>> /\ pending # <<>> /\ pending' = Tail(pending)
        /\ recorder = "running"
    BY <1>6 DEF WriteItem, Working, clients
  <2>2. file' = Append(file, Head(pending))
    BY <1>6, FileStep
  <2>3. /\ Head(pending) \in Items /\ Head(pending) = pending[1] /\ Len(pending) >= 1 /\ Len(pending) \in Nat
        /\ Len(pending') = Len(pending) - 1
        /\ \A n \in 1 .. Len(pending') : pending'[n] = pending[n + 1]
        /\ ToSet(pending) = {Head(pending)} \cup ToSet(pending')
    BY <1>t, <2>1, HeadAndTail
  <2> DEFINE i == Head(pending)
  <2>4. Adds' = Adds /\ InFlight = InFlight' \cup {i}
    BY <2>1, <2>3 DEF Adds, InFlight
  <2>5. \A n \in Adds : i < queue[n].item
    BY <1>t, <2>3 DEF InOrder
  <2>6. \A n \in 1 .. Len(pending') : i < pending'[n]
    <3> SUFFICES ASSUME NEW n \in 1 .. Len(pending') PROVE i < pending'[n]
      OBVIOUS
    <3>1. n + 1 \in 1 .. Len(pending) /\ 1 \in 1 .. Len(pending) /\ 1 < n + 1
      BY <2>3
    <3>2. pending[1] < pending[n + 1]
      BY <1>t, <3>1 DEF InOrder
    <3> QED
      BY <2>3, <3>2
  <2>7. \A j \in InFlight' : i < j
    <3>1. \A j \in ToSet(pending') : \E n \in 1 .. Len(pending') : j = pending'[n]
      <4>1. DOMAIN pending' = 1 .. Len(pending')
        BY <1>t DEF TypeOK
      <4> QED
        BY <4>1 DEF ToSet
    <3>2. \A j \in InFlight' : j \in ToSet(pending') \/ \E n \in Adds : j = queue[n].item
      BY <2>1, <2>4 DEF InFlight
    <3> QED
      BY <2>5, <2>6, <3>1, <3>2
  <2>8. i \in Nat /\ InFlight \subseteq Nat
    BY <1>t, <2>3 DEF InOrder, Items
  <2>9. InFlight' = InFlight \ {i} /\ \A j \in InFlight : i <= j
    <3>1. \A j \in InFlight' : j \in Nat /\ i < j
      BY <2>4, <2>7, <2>8
    <3>2. i \notin InFlight'
      BY <2>8, <3>1
    <3>3. \A j \in Nat : i < j => i <= j
      BY <2>8
    <3> QED
      BY <2>4, <2>8, <3>1, <3>2, <3>3
  <2>10. Mode' = Mode /\ Mode = "open"
    BY <1>t, <2>1, Modes DEF Mode
  <2>11. Promise!Commit(i)
    BY <2>1, <2>2, <2>4, <2>9, <2>10 DEF Promise!Commit
  <2> QED
    BY <2>3, <2>11 DEF Promise!Next
<1>7. CASE FinishCommand
  <2>1. /\ cur \in Cmd /\ pending = <<>> /\ pending' = <<>> /\ Succeed(cur, queue) /\ recorder = "running"
        /\ UNCHANGED <<file, life>>
    BY <1>7, <1>t DEF FinishCommand, Working, TypeOK, writer, store
  <2>2. cur.op \in Barriers => /\ cur.from \in Clients /\ asked[cur.from] # NotAsking
                               /\ asked[cur.from] \subseteq Behind(1)
    BY <2>1, Commands DEF LogInv, RecorderInv, Waiting, Barred
  <2>3. queue' = queue => InFlight' = InFlight
    BY <2>1 DEF InFlight, Adds
  <2> QED
    BY <1>t, <2>1, <2>2, <2>3, SuccessImplements
<1>8. CASE OpenFails \/ WriteFails
  <2>1. /\ UNCHANGED <<queue, pending, promised, recorder, life>> /\ cur \in Cmd
        /\ UNCHANGED <<cur, asked>> \/ GiveUp(cur)
    BY <1>8, <1>t DEF OpenFails, WriteFails, EnterRecovery, Recover, Working, TypeOK
  <2>2. file' = file
    BY <1>8 DEF OpenFails, WriteFails, store, CutShort
  <2>3. CASE UNCHANGED asked
    BY <2>1, <2>2, <2>3, <1>s
  <2>4. CASE cur.op # "AddItems" /\ GiveUp(cur)
    <3>1. cur.from \in Clients /\ asked[cur.from] # NotAsking
      BY <2>1, <2>4, Commands DEF LogInv, RecorderInv, Waiting
    <3>2. asked' = [asked EXCEPT ![cur.from] = NotAsking]
      BY <2>4 DEF GiveUp
    <3>3. InFlight' = InFlight /\ Mode' = Mode
      BY <2>1 DEF InFlight, Adds, Mode
    <3>4. Promise!Answer(cur.from)
      BY <2>1, <2>2, <3>1, <3>2, <3>3 DEF Promise!Answer
    <3> QED
      BY <3>1, <3>4 DEF Promise!Next
  <2> QED
    BY <2>1, <2>3, <2>4 DEF GiveUp
<1>9. CASE Crash
  <2>1. UNCHANGED <<file, life, promised>> /\ asked' = Quiet /\ queue' = <<>> /\ pending' = <<>>
        /\ recorder' = "down"
    BY <1>9 DEF Crash, CutShort
  <2>2. InFlight' = {} /\ Mode' = "crashed"
    BY <2>1 DEF InFlight, Adds, ToSet, Mode
  <2>3. Promise!Crash
    BY <2>1, <2>2 DEF Promise!Crash, Promise!Quiet, Quiet
  <2> QED
    BY <2>3 DEF Promise!Next
<1>10. CASE Resume
  <2>1. UNCHANGED <<file, promised, asked, queue>> /\ pending = <<>> /\ pending' = <<>> /\ life' = {}
        /\ recorder' = "running" /\ recorder # "running"
    BY <1>10 DEF Resume, LogInv, RecorderInv, Emptied, store, clients
  <2>2. InFlight' = InFlight /\ Mode' = "open" /\ Mode # "open"
    BY <1>t, <2>1, Modes DEF InFlight, Adds, Mode
  <2>3. Promise!Reopen
    BY <2>1, <2>2 DEF Promise!Reopen
  <2> QED
    BY <2>3 DEF Promise!Next
<1>11. CASE UNCHANGED vars
  BY <1>11, <1>s DEF vars, store, writer, clients
<1> QED
  BY <1>1, <1>2, <1>3, <1>4, <1>5, <1>6, <1>7, <1>8, <1>9, <1>10, <1>11 DEF Next, WriterStep

(* As long as no write is cut short within a line, the channel, the writer   *)
(* task, its retries, crashes and resumes implement DurableLog: items reach  *)
(* the file once, in order and without gaps, a barrier is answered Ok only   *)
(* when what it covers is in the file, and only a crash or a shutdown that   *)
(* succeeded drops what is in flight.                                        *)
THEOREM RecorderKeepsLog == Whole /\ Spec => KeepsLog
<1>1. Whole /\ Init => Whole /\ LogInv
  BY LogInit
<1>2. (Whole /\ LogInv) /\ [Next]_vars => (Whole /\ LogInv)'
  BY LogStep DEF Whole
<1>3. Init => Promise!Init
  <2> SUFFICES ASSUME Init PROVE Promise!Init
    OBVIOUS
  <2>1. InFlight = {} /\ Mode = "open"
    BY DEF Init, InFlight, Adds, ToSet, Mode
  <2> QED
    BY <2>1 DEF Init, Promise!Init, Promise!Quiet, Quiet
<1>4. (Whole /\ LogInv) /\ (Whole /\ LogInv)' /\ [Next]_vars => [Promise!Next]_(Promise!vars)
  BY LogImplements
<1> QED
  BY <1>1, <1>2, <1>3, <1>4, PTL DEF Spec, KeepsLog, Promise!Spec
=============================================================================
