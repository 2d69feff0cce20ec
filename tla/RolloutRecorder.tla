--------------------------- MODULE RolloutRecorder ---------------------------
(***************************************************************************)
(* The rollout recorder: sessions queue items and barriers (persist,       *)
(* flush, shutdown) on a bounded channel; one writer task owns the file    *)
(* handle, defers creating the file until a barrier needs it, writes one   *)
(* JSON line per item, reopens the file and retries once when an attempt   *)
(* fails, and answers barriers.  The process may crash at any step and the *)
(* session be resumed from the file.                                       *)
(*                                                                         *)
(* A call of record_canonical_items carries one item; items are numbered   *)
(* in the order they enter the channel.  A file is the sequence of its     *)
(* complete lines: an item, the session meta, or Junk, a line no reader    *)
(* can parse.                                                              *)
(***************************************************************************)
EXTENDS Naturals, Sequences, SequencesExt

CONSTANTS
  Clients,      \* tasks of the process that hold the recorder
  Meta, Junk,   \* the lines that are no items
  NotAsking,    \* a client that waits for no barrier
  Leftovers,    \* what a write cut short may leave of its line
  QueueSize,    \* bound: capacity of the command channel
  MaxItems,     \* bound: items recorded in a behaviour
  MaxFaults,    \* bound: failing file operations
  MaxCrashes,   \* bound: crashes of the process
  MaxPatches    \* bound: metadata lines appended beside the recorder

Items    == 1 .. MaxItems
Barriers == {"Persist", "Flush", "Shutdown"}
Cmd      == [op : {"AddItems"}, item : Items] \cup [op : Barriers, from : Clients]
Idle     == [op |-> "Idle"]

ASSUME RecorderAssumption ==
  /\ "nothing" \in Leftovers /\ Leftovers \subseteq {"nothing", "part"}
  /\ {QueueSize, MaxItems, MaxFaults, MaxCrashes, MaxPatches} \subseteq Nat
  /\ Meta \notin Nat /\ Junk \notin Nat /\ Meta # Junk
  /\ \A S \in SUBSET Items : NotAsking # S

VARIABLES
  recorder,   \* "running", "stopped" (shut down) or "down" (crashed)
  queue,      \* the command channel
  cur,        \* the command the writer task is working on, or Idle
  phase,      \* "open": ensure_writer_open is next, "write": a line is next
  attempt,    \* which of the two attempts of write_pending_with_recovery
  open,       \* RolloutWriterState.writer is some
  deferred,   \* RolloutWriterState.deferred_log_file_info is some
  meta,       \* RolloutWriterState.meta is some
  pending,    \* RolloutWriterState.pending_items
  file,       \* the complete lines of the file
  torn,       \* the file ends in an incomplete line
  recorded,   \* the items recorded so far
  life,       \* the items recorded since the recorder was created
  asked,      \* client -> the items its barrier covers, or NotAsking
  promised,   \* the items a barrier has answered Ok for
  faults, crashes, patches

store   == <<file, torn>>
writer  == <<open, deferred, meta, pending>>
work    == <<cur, phase, attempt>>
clients == <<asked, promised>>
counts  == <<faults, crashes, patches>>
vars == <<recorder, queue, work, writer, store, recorded, life, clients, counts>>

Quiet == [c \in Clients |-> NotAsking]

IsItem(line)   == line \in Items
Readable(f)    == {line \in ToSet(f) : IsItem(line)}
HasMeta(f)     == Meta \in ToSet(f)
is_deferred    == ~open /\ deferred

\* RolloutRecorder::new with Create: nothing on disk, meta still to be written.
Init ==
  /\ recorder = "running"
  /\ queue = <<>> /\ cur = Idle /\ phase = "open" /\ attempt = 1
  /\ open = FALSE /\ deferred = TRUE /\ meta = TRUE /\ pending = <<>>
  /\ file = <<>> /\ torn = FALSE
  /\ recorded = 0 /\ life = {} /\ asked = Quiet /\ promised = {}
  /\ faults = 0 /\ crashes = 0 /\ patches = 0
-----------------------------------------------------------------------------
(* The callers' side: a send waits for room in the channel.                *)

CanSend == recorder = "running" /\ Len(queue) < QueueSize

RecordItem ==
  /\ CanSend
  /\ recorded < MaxItems
  /\ recorded' = recorded + 1
  /\ queue' = Append(queue, [op |-> "AddItems", item |-> recorded + 1])
  /\ life' = life \cup {recorded + 1}
  /\ UNCHANGED <<recorder, work, writer, store, clients, counts>>

AskBarrier(c, op) ==
  /\ CanSend
  /\ asked[c] = NotAsking
  /\ queue' = Append(queue, [op |-> op, from |-> c])
  /\ asked' = [asked EXCEPT ![c] = life]
  /\ UNCHANGED <<recorder, work, writer, store, recorded, life, promised, counts>>
-----------------------------------------------------------------------------
(* The writer task.                                                        *)

\* Append one line: a complete line ends whatever incomplete line is there.
WriteLine(line) ==
  /\ file' = Append(file, IF torn THEN Junk ELSE line)
  /\ torn' = FALSE

BackToLoop == cur' = Idle /\ phase' = "open" /\ attempt' = 1

\* A command succeeds with the channel q behind it.  A shutdown that succeeds
\* ends the loop and drops the channel: the commands behind it are never
\* processed and their waiters get an error.
Succeed(cmd, q) ==
  /\ BackToLoop
  /\ \/ /\ cmd.op = "AddItems"
        /\ queue' = q
        /\ UNCHANGED <<recorder, clients>>
     \/ /\ cmd.op \in {"Persist", "Flush"}
        /\ queue' = q
        /\ asked' = [asked EXCEPT ![cmd.from] = NotAsking]
        /\ promised' = promised \cup asked[cmd.from]
        /\ UNCHANGED recorder
     \/ /\ cmd.op = "Shutdown"
        /\ recorder' = "stopped"
        /\ queue' = <<>>
        /\ asked' = Quiet
        /\ promised' = promised \cup asked[cmd.from]

\* Mutant: the failure is logged and not sent to the waiter.
GiveUpSilently(cmd) == BackToLoop /\ UNCHANGED asked

\* A command fails: a barrier's waiter is told, the writer stays alive.
GiveUp(cmd) ==
  /\ BackToLoop
  /\ asked' = IF cmd.op = "AddItems" THEN asked ELSE [asked EXCEPT ![cmd.from] = NotAsking]

\* Mutant: a deferred recorder answers every flush at once.
NothingWhileDeferred(cmd, pend) == cmd.op # "Persist" /\ is_deferred

\* The commands that end without touching the file.
NothingToWrite(cmd, pend) ==
  \/ cmd.op = "AddItems" /\ is_deferred
  \/ cmd.op \in {"Flush", "Shutdown"} /\ is_deferred /\ pend = <<>>

TakeCommand ==
  /\ recorder = "running" /\ cur = Idle /\ queue # <<>>
  /\ LET cmd  == Head(queue)
         pend == IF cmd.op = "AddItems" THEN Append(pending, cmd.item) ELSE pending
     IN /\ pending' = pend
        /\ \/ /\ NothingToWrite(cmd, pend)
              /\ Succeed(cmd, Tail(queue))
           \/ /\ ~NothingToWrite(cmd, pend)
              /\ cur' = cmd
              /\ queue' = Tail(queue)
              /\ UNCHANGED <<recorder, phase, attempt, clients>>
  /\ UNCHANGED <<open, deferred, meta, store, recorded, life, counts>>

Working(p) == recorder = "running" /\ cur # Idle /\ phase = p

OpenFile ==
  /\ Working("open")
  /\ open' = TRUE
  /\ deferred' = IF open THEN deferred ELSE FALSE
  /\ phase' = "write"
  /\ UNCHANGED <<recorder, queue, cur, attempt, meta, pending, store, recorded, life, clients, counts>>

WriteMeta ==
  /\ Working("write") /\ meta
  /\ WriteLine(Meta)
  /\ meta' = FALSE
  /\ UNCHANGED <<recorder, queue, work, open, deferred, pending, recorded, life, clients, counts>>

WriteItem ==
  /\ Working("write") /\ ~meta /\ pending # <<>>
  /\ WriteLine(Head(pending))
  /\ pending' = Tail(pending)
  /\ UNCHANGED <<recorder, queue, work, open, deferred, meta, recorded, life, clients, counts>>

FinishCommand ==
  /\ Working("write") /\ ~meta /\ pending = <<>>
  /\ Succeed(cur, queue)
  /\ UNCHANGED <<writer, store, recorded, life, counts>>

\* An attempt fails: the handle is dropped; the first failure is retried, the
\* second is the command's result.  The session meta and the items that were
\* not written stay for the next attempt.
Recover(keptMeta, keptItems) ==
  /\ faults < MaxFaults
  /\ faults' = faults + 1
  /\ open' = FALSE
  /\ meta' = keptMeta
  /\ pending' = keptItems
  /\ \/ /\ attempt = 1
        /\ attempt' = 2 /\ phase' = "open"
        /\ UNCHANGED <<cur, asked>>
     \/ /\ attempt = 2
        /\ GiveUp(cur)
  /\ UNCHANGED <<recorder, queue, promised, deferred, recorded, life, crashes, patches>>

\* Mutant: the session meta is taken before it is written.
RecoveryForgetsMeta == Recover(FALSE, pending)

\* Mutant: the item whose write failed is drained with the written ones.
RecoverySkipsItem == Recover(meta, IF pending = <<>> THEN <<>> ELSE Tail(pending))

EnterRecovery == Recover(meta, pending)

OpenFails  == Working("open") /\ ~open /\ EnterRecovery /\ UNCHANGED store

\* A write in progress is cut short; without one nothing happens to the file.
CutShort ==
  /\ \E left \in Leftovers :
       torn' = (torn \/ (left = "part" /\ Working("write") /\ (meta \/ pending # <<>>)))
  /\ UNCHANGED file

\* A line, or the flush that ends an attempt, fails.
WriteFails == Working("write") /\ EnterRecovery /\ CutShort

WriterStep == \/ TakeCommand \/ OpenFile \/ WriteMeta \/ WriteItem \/ FinishCommand
              \/ OpenFails \/ WriteFails
-----------------------------------------------------------------------------
(* Around the recorder.                                                    *)

\* append_rollout_item_to_path: a metadata update through a handle of its own.
PatchMetadata ==
  /\ patches < MaxPatches
  /\ patches' = patches + 1
  /\ HasMeta(file)
  /\ WriteLine(Meta)
  /\ UNCHANGED <<recorder, queue, work, writer, recorded, life, clients, faults, crashes>>

\* The process dies, possibly within a write.
Crash ==
  /\ recorder # "down"
  /\ crashes < MaxCrashes
  /\ crashes' = crashes + 1
  /\ recorder' = "down"
  /\ queue' = <<>> /\ cur' = Idle /\ phase' = "open" /\ attempt' = 1
  /\ pending' = <<>> /\ open' = FALSE
  /\ asked' = Quiet
  /\ CutShort
  /\ UNCHANGED <<deferred, meta, recorded, life, promised, faults, patches>>

\* RolloutRecorder::new with Resume: the history needs a readable session meta.
Resume ==
  /\ recorder # "running"
  /\ HasMeta(file)
  /\ recorder' = "running"
  /\ open' = TRUE /\ deferred' = FALSE /\ meta' = FALSE /\ pending' = <<>>
  /\ life' = {}
  /\ UNCHANGED <<queue, work, store, recorded, clients, counts>>

Next == \/ RecordItem
        \/ \E c \in Clients, op \in Barriers : AskBarrier(c, op)
        \/ WriterStep
        \/ PatchMetadata \/ Crash \/ Resume

Spec == Init /\ [][Next]_vars

\* The runtime polls the writer task; nobody is obliged to record or to ask.
FairSpec == Spec /\ WF_vars(WriterStep)
-----------------------------------------------------------------------------
(* Types; the command channel never holds more than its capacity.           *)
TypeOK ==
  /\ recorder \in {"running", "stopped", "down"}
  /\ queue \in Seq(Cmd) /\ Len(queue) <= QueueSize
  /\ cur \in Cmd \cup {Idle} /\ phase \in {"open", "write"} /\ attempt \in {1, 2}
  /\ {open, deferred, meta, torn} \subseteq BOOLEAN
  /\ pending \in Seq(Items) /\ file \in Seq(Items \cup {Meta, Junk})
  /\ recorded \in 0 .. MaxItems /\ life \subseteq Items
  /\ asked \in [Clients -> {NotAsking} \cup SUBSET Items] /\ promised \subseteq Items
  /\ faults \in 0 .. MaxFaults /\ crashes \in 0 .. MaxCrashes /\ patches \in 0 .. MaxPatches

(* The doc of flush, "wait until they are committed by the writer task":    *)
(* every item recorded before a persist, flush or shutdown that returned Ok *)
(* is found by load_rollout_items, whatever fails or crashes afterwards.    *)
AckedIsReadable == promised \subseteq Readable(file)

(* The first line a reader can parse is the session meta, so a file that    *)
(* holds an item can be resumed (get_rollout_history needs the thread id).  *)
MetaFirst ==
  \A n \in 1 .. Len(file) : IsItem(file[n]) => \E k \in 1 .. (n - 1) : file[k] = Meta

(* The channel stays within its capacity and the file can be resumed.       *)
FileInv == TypeOK /\ MetaFirst

(* The items on their way to the file, in the channel and in the writer.    *)
Adds     == {n \in 1 .. Len(queue) : queue[n].op = "AddItems"}
Asks     == (1 .. Len(queue)) \ Adds
InFlight == ToSet(pending) \cup {queue[n].item : n \in Adds}

(* Where an item in flight or asked about can be.                           *)
Behind(n) == ToSet(file) \cup ToSet(pending) \cup {queue[m].item : m \in Adds \cap (1 .. (n - 1))}

(* Items travel in the order of their numbers, and none is lost.            *)
InOrder ==
  /\ InFlight \cup life \cup Readable(file) \subseteq 1 .. recorded
  /\ \A m, n \in 1 .. Len(pending) : m < n => pending[m] < pending[n]
  /\ \A m, n \in Adds : m < n => queue[m].item < queue[n].item
  /\ \A m \in 1 .. Len(pending), n \in Adds : pending[m] < queue[n].item
  /\ recorder = "running" => life \subseteq ToSet(file) \cup InFlight

(* A barrier in the channel, or in the writer's hands, is the only one of a *)
(* client that waits for it ...                                             *)
Waiting ==
  /\ \A n \in Asks : asked[queue[n].from] # NotAsking
  /\ \A m, n \in Asks : queue[m].from = queue[n].from => m = n
  /\ cur.op \in Barriers => /\ asked[cur.from] # NotAsking
                            /\ \A n \in Asks : queue[n].from # cur.from

(* ... and the items it covers are written or ahead of it.                  *)
Barred ==
  /\ \A n \in Asks : asked[queue[n].from] \subseteq Behind(n)
  /\ cur.op \in Barriers => asked[cur.from] \subseteq Behind(1)

(* Nothing is left of a recorder that stopped.                              *)
Emptied ==
  recorder # "running" => queue = <<>> /\ cur = Idle /\ pending = <<>> /\ asked = Quiet

RecorderInv == TypeOK /\ Waiting /\ Emptied

(* What makes AckedIsReadable inductive while no write is cut short.        *)
LogInv ==
  /\ RecorderInv /\ MetaFirst /\ AckedIsReadable
  /\ ~torn /\ (meta \/ HasMeta(file))
  /\ InOrder /\ Barred

(* Every persist, flush or shutdown returns, however often writes fail.     *)
BarriersReturn == \A c \in Clients : asked[c] # NotAsking ~> asked[c] = NotAsking
=============================================================================
