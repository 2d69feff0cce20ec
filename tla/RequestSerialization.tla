------------------------ MODULE RequestSerialization ------------------------
(***************************************************************************)
(* The scheduling of initialized client requests in the app server:        *)
(* RequestSerializationQueues (one FIFO queue and one drain task per       *)
(* serialization key) and ConnectionRpcGate (the per-connection gate every *)
(* handler passes before it runs, and that a closing connection shuts).    *)
(*                                                                         *)
(* Requests are numbered in the order they are dispatched, so i < j says   *)
(* that i was enqueued before j.  A drain task is named by the request     *)
(* whose enqueue spawned it.                                               *)
(***************************************************************************)
EXTENDS Naturals, Sequences

CONSTANTS
  Conns,          \* connection ids
  Scopes,         \* serialization scopes a request may have: [kind, name]
  NoScope,        \* the scope of a request that is not serialized
  AnyConn,        \* the connection part of a key shared by all connections
  MaxRequests,    \* bound: requests dispatched in a behaviour
  MaxPanics       \* bound: handlers that unwind in a behaviour

ScopeKinds == {"Global", "GlobalSharedRead", "Thread", "ThreadPath",
               "CommandExecProcess", "Process", "FuzzyFileSearchSession",
               "FsWatch", "McpOauth"}

ASSUME BoundsAssumption == MaxRequests \in Nat /\ MaxPanics \in Nat
ASSUME ScopesAssumption == /\ \A s \in Scopes : s.kind \in ScopeKinds
                           /\ NoScope \notin Scopes
                           /\ AnyConn \notin Conns

VARIABLES
  reqs,       \* Seq([conn, scope]): the requests dispatched so far
  status,     \* request -> where it is
  mapped,     \* the keys present in the queue map
  queues,     \* key -> queued requests (empty for a key that is absent)
  drain,      \* request -> state of the drain task its enqueue spawned
  batch,      \* drain task -> the requests it is joining
  accepting,  \* connection -> ConnectionRpcGate.accepting
  gate,       \* connection -> progress of ConnectionRpcGate::shutdown
  panics      \* handlers that have unwound

vars == <<reqs, status, mapped, queues, drain, batch, accepting, gate, panics>>

Ids == 1 .. MaxRequests

(* from_scope: the kinds whose names are chosen by one client are keyed by  *)
(* its connection too; one kind shares its queue's turns between readers.   *)
PerConnection == {"CommandExecProcess", "Process", "FsWatch"}

FromScope(c, s) ==
  [key    |-> <<IF s.kind = "GlobalSharedRead" THEN "Global" ELSE s.kind,
                s.name,
                IF s.kind \in PerConnection THEN c ELSE AnyConn>>,
   access |-> IF s.kind = "GlobalSharedRead" THEN "SharedRead" ELSE "Exclusive"]

Request == [conn : Conns, scope : Scopes \cup {NoScope}]

Keys == {FromScope(c, s).key : c \in Conns, s \in Scopes}

Dispatched == 1 .. Len(reqs)
Conn(i)    == reqs[i].conn
Scoped(i)  == reqs[i].scope # NoScope
Key(i)     == FromScope(reqs[i].conn, reqs[i].scope).key
Access(i)  == FromScope(reqs[i].conn, reqs[i].scope).access

\* A request that will not run (again): its future completed or was dropped.
Finished(i) == status[i] \in {"done", "skipped", "dropped"}

\* The tokens a gate's TaskTracker holds: one per handler past the gate.
InFlight(c) == {i \in Dispatched : Conn(i) = c /\ status[i] = "running"}

TypeOK ==
  /\ reqs \in Seq(Request)
  /\ Len(reqs) <= MaxRequests
  /\ status \in [Ids -> {"new", "queued", "popped", "running",
                         "done", "skipped", "dropped"}]
  /\ mapped \subseteq Keys
  /\ queues \in [Keys -> Seq(Ids)]
  /\ drain \in [Ids -> {"none", "ready", "joining", "exited", "unwound"}]
  /\ batch \in [Ids -> SUBSET Ids]
  /\ accepting \in [Conns -> BOOLEAN]
  /\ gate \in [Conns -> {"open", "waiting", "shut"}]
  /\ panics \in 0 .. MaxPanics

Init ==
  /\ reqs = <<>>
  /\ status = [i \in Ids |-> "new"]
  /\ mapped = {}
  /\ queues = [k \in Keys |-> <<>>]
  /\ drain = [i \in Ids |-> "none"]
  /\ batch = [i \in Ids |-> {}]
  /\ accepting = [c \in Conns |-> TRUE]
  /\ gate = [c \in Conns |-> "open"]
  /\ panics = 0

-----------------------------------------------------------------------------
\* Mutant: enqueue spawns a drain task even when the key has one.
EnqueueAlwaysSpawns(i, k) ==
  /\ queues' = [queues EXCEPT ![k] = Append(@, i)]
  /\ mapped' = mapped \cup {k}
  /\ drain' = [drain EXCEPT ![i] = "ready"]

(* enqueue, under the map's lock: a present key only grows its queue, an    *)
(* absent one is inserted and a drain task for it is spawned.               *)
Enqueue(i, k) ==
  /\ queues' = [queues EXCEPT ![k] = Append(@, i)]
  /\ mapped' = mapped \cup {k}
  /\ drain' = IF k \in mapped THEN drain ELSE [drain EXCEPT ![i] = "ready"]

(* dispatch_initialized_client_request: a request with a serialization      *)
(* scope is enqueued under its key, any other is spawned as a task that     *)
(* goes straight to its connection's gate.                                  *)
Dispatch(c, s) ==
  LET i == Len(reqs) + 1 IN
  /\ Len(reqs) < MaxRequests
  /\ reqs' = Append(reqs, [conn |-> c, scope |-> s])
  /\ IF s = NoScope
       THEN /\ status' = [status EXCEPT ![i] = "popped"]
            /\ UNCHANGED <<mapped, queues, drain>>
       ELSE /\ status' = [status EXCEPT ![i] = "queued"]
            /\ Enqueue(i, FromScope(c, s).key)
  /\ UNCHANGED <<batch, accepting, gate, panics>>

\* Mutant: the run of shared reads takes the request that ends it.
IsBatchOneTooMany(q, n) ==
  IF Access(q[1]) = "Exclusive" THEN n = 1
  ELSE /\ \A m \in 1 .. (n - 1) : Access(q[m]) = "SharedRead"
       /\ n < Len(q) => Access(q[n]) # "SharedRead"

\* The first n requests of q are what drain pops at once: an exclusive head
\* alone, or the longest run of shared reads at the front.
IsBatch(q, n) ==
  IF Access(q[1]) = "Exclusive"
    THEN n = 1
    ELSE /\ \A m \in 1 .. n : Access(q[m]) = "SharedRead"
         /\ n < Len(q) => Access(q[n + 1]) # "SharedRead"

(* One lock section of drain that finds requests: pop them and join them.   *)
DrainPop(d) ==
  LET k == Key(d)
      q == queues[k]
  IN /\ drain[d] = "ready"
     /\ k \in mapped
     /\ \E n \in 1 .. Len(q) :
          LET popped == {q[m] : m \in 1 .. n} IN
          /\ IsBatch(q, n)
          /\ queues' = [queues EXCEPT ![k] = SubSeq(q, n + 1, Len(q))]
          /\ batch' = [batch EXCEPT ![d] = popped]
          /\ status' = [i \in Ids |-> IF i \in popped THEN "popped" ELSE status[i]]
     /\ drain' = [drain EXCEPT ![d] = "joining"]
     /\ UNCHANGED <<reqs, mapped, accepting, gate, panics>>

\* Mutant: the drain task returns without removing its key.
DrainExitKeepsKey(d) ==
  /\ drain[d] = "ready"
  /\ Key(d) \notin mapped \/ queues[Key(d)] = <<>>
  /\ drain' = [drain EXCEPT ![d] = "exited"]
  /\ UNCHANGED <<reqs, status, mapped, queues, batch, accepting, gate, panics>>

(* The lock section of drain that finds the queue empty removes the key; one *)
(* that finds no queue just returns.                                        *)
DrainExit(d) ==
  /\ drain[d] = "ready"
  /\ Key(d) \notin mapped \/ queues[Key(d)] = <<>>
  /\ mapped' = mapped \ {Key(d)}
  /\ drain' = [drain EXCEPT ![d] = "exited"]
  /\ UNCHANGED <<reqs, status, queues, batch, accepting, gate, panics>>

(* join_all returns when every request it was given has completed.          *)
DrainJoined(d) ==
  /\ drain[d] = "joining"
  /\ \A i \in batch[d] : Finished(i)
  /\ drain' = [drain EXCEPT ![d] = "ready"]
  /\ batch' = [batch EXCEPT ![d] = {}]
  /\ UNCHANGED <<reqs, status, mapped, queues, accepting, gate, panics>>

\* Mutant: run takes its token without looking at accepting.
GateEnterUnchecked(i) ==
  /\ status[i] = "popped"
  /\ status' = [status EXCEPT ![i] = "running"]
  /\ UNCHANGED <<reqs, mapped, queues, drain, batch, accepting, gate, panics>>

(* ConnectionRpcGate::run takes a token under the gate's lock, or returns   *)
(* without polling the handler when the gate no longer accepts.             *)
GateEnter(i) ==
  /\ status[i] = "popped"
  /\ status' = [status EXCEPT ![i] = IF accepting[Conn(i)] THEN "running" ELSE "skipped"]
  /\ UNCHANGED <<reqs, mapped, queues, drain, batch, accepting, gate, panics>>

(* The handler's future completes and run drops its token.                  *)
HandlerDone(i) ==
  /\ status[i] = "running"
  /\ status' = [status EXCEPT ![i] = "done"]
  /\ UNCHANGED <<reqs, mapped, queues, drain, batch, accepting, gate, panics>>

(* A handler panics.  The tokio task that polls it unwinds: for a           *)
(* serialized request that is the drain task, with every future it joins,   *)
(* whose tokens are dropped; the map keeps the key.                         *)
HandlerPanic(i) ==
  /\ status[i] = "running"
  /\ panics < MaxPanics
  /\ panics' = panics + 1
  /\ LET owners == {d \in Ids : drain[d] = "joining" /\ i \in batch[d]}
         lost   == {i} \cup UNION {{j \in batch[d] : ~Finished(j)} : d \in owners}
     IN /\ status' = [j \in Ids |-> IF j \in lost THEN "dropped" ELSE status[j]]
        /\ drain' = [d \in Ids |-> IF d \in owners THEN "unwound" ELSE drain[d]]
        /\ batch' = [d \in Ids |-> IF d \in owners THEN {} ELSE batch[d]]
  /\ UNCHANGED <<reqs, mapped, queues, accepting, gate>>

(* ConnectionRpcGate::shutdown: stop accepting and close the tracker in one *)
(* lock section, then wait until every token is dropped.                    *)
GateClose(c) ==
  /\ gate[c] = "open"
  /\ accepting' = [accepting EXCEPT ![c] = FALSE]
  /\ gate' = [gate EXCEPT ![c] = "waiting"]
  /\ UNCHANGED <<reqs, status, mapped, queues, drain, batch, panics>>

\* Mutant: shutdown waits until every handler past the gate, or still
\* before it, is over, with the tokens of skipped requests never dropped.
GateDrainedAll(c) ==
  /\ gate[c] = "waiting"
  /\ \A i \in Dispatched : Conn(i) = c => status[i] = "done"
  /\ gate' = [gate EXCEPT ![c] = "shut"]
  /\ UNCHANGED <<reqs, status, mapped, queues, drain, batch, accepting, panics>>

GateDrained(c) ==
  /\ gate[c] = "waiting"
  /\ InFlight(c) = {}
  /\ gate' = [gate EXCEPT ![c] = "shut"]
  /\ UNCHANGED <<reqs, status, mapped, queues, drain, batch, accepting, panics>>

-----------------------------------------------------------------------------
DrainStep(d) == DrainPop(d) \/ DrainExit(d) \/ DrainJoined(d)

\* A request is dispatched from a connection the event loop still lists;
\* a gate is shut only after its connection left that list.
Next ==
  \/ \E c \in Conns, s \in Scopes \cup {NoScope} : gate[c] = "open" /\ Dispatch(c, s)
  \/ \E i \in Dispatched : GateEnter(i) \/ HandlerDone(i) \/ HandlerPanic(i)
  \/ \E d \in Dispatched : Scoped(d) /\ DrainStep(d)
  \/ \E c \in Conns : GateClose(c) \/ GateDrained(c)

Spec == Init /\ [][Next]_vars

(* tokio polls every task that is ready, and a handler is taken to finish;  *)
(* nothing obliges a client to send a request or to disconnect, or a        *)
(* handler to panic.                                                        *)
Fairness ==
  /\ \A i \in Ids : /\ WF_vars(i \in Dispatched /\ GateEnter(i))
                    /\ WF_vars(i \in Dispatched /\ HandlerDone(i))
                    /\ WF_vars(i \in Dispatched /\ Scoped(i) /\ DrainStep(i))
  /\ \A c \in Conns : WF_vars(GateDrained(c))

FairSpec == Spec /\ Fairness

-----------------------------------------------------------------------------
\* Two requests must not overlap: same key, and not both shared reads.
Conflict(i, j) ==
  /\ Scoped(i) /\ Scoped(j)
  /\ Key(i) = Key(j)
  /\ ~(Access(i) = "SharedRead" /\ Access(j) = "SharedRead")

(* Requests of one key take effect in arrival order: once a request has     *)
(* left its queue, every earlier request that conflicts with it is over.    *)
(* In particular an exclusive handler never overlaps another handler of     *)
(* its key (drain's one-batch-at-a-time join).                              *)
ArrivalOrder ==
  \A i, j \in Dispatched :
    (i < j /\ Conflict(i, j) /\ status[j] # "queued") => Finished(i)

(* enqueue spawns a drain task exactly when none serves the key: a key in   *)
(* the map has one task (or the one that unwound), an absent key has none   *)
(* and nothing is stranded in its queue.                                    *)
OneDrainPerKey ==
  \A k \in Keys :
    LET tasks == {d \in Dispatched : /\ Scoped(d)
                                     /\ Key(d) = k
                                     /\ drain[d] \in {"ready", "joining", "unwound"}}
    IN IF k \in mapped THEN \E d \in tasks : tasks = {d}
                       ELSE tasks = {} /\ queues[k] = <<>>

(* Every dispatched request is eventually over, except behind a handler     *)
(* whose panic unwound the only drain task of its key: then the key stays   *)
(* mapped and nothing serves its queue again.                               *)
RequestsFinish ==
  \A i \in Ids :
    i \in Dispatched ~>
      \/ Finished(i)
      \/ \E d \in Dispatched : /\ drain[d] = "unwound"
                               /\ i \in Dispatched /\ Scoped(i)
                               /\ Key(d) = Key(i)

(* A closing connection never waits forever for its handlers.               *)
ShutdownReturns == \A c \in Conns : gate[c] = "waiting" ~> gate[c] = "shut"

-----------------------------------------------------------------------------
(* The inductive invariant behind ArrivalOrder and OneDrainPerKey.          *)

\* A drain task that still stands for its key in the map.
Serving(d) == drain[d] \in {"ready", "joining", "unwound"}

\* What has not been dispatched has no trace; what has been has a status.
UndispatchedIsNew ==
  /\ \A i \in Ids : (status[i] = "new") <=> (i \notin Dispatched)
  /\ \A i \in Ids : drain[i] # "none" => i \in Dispatched /\ Scoped(i)

\* The queues hold exactly the queued requests, each under its key, in order.
QueuesHoldQueued ==
  /\ \A k \in Keys : \A m \in DOMAIN queues[k] :
       /\ queues[k][m] \in Dispatched
       /\ Scoped(queues[k][m])
       /\ Key(queues[k][m]) = k
       /\ status[queues[k][m]] = "queued"
  /\ \A k \in Keys : \A m, n \in DOMAIN queues[k] :
       m < n => queues[k][m] < queues[k][n]
  /\ \A i \in Dispatched : status[i] = "queued" =>
       Scoped(i) /\ \E m \in DOMAIN queues[Key(i)] : queues[Key(i)][m] = i

\* Requests leave a queue from its front.
FrontLeavesFirst ==
  \A i, j \in Dispatched :
    (/\ Scoped(i) /\ Scoped(j) /\ Key(i) = Key(j)
     /\ status[i] = "queued" /\ status[j] # "queued") => j < i

\* A serialized request past its queue and not over is in the batch of the
\* task that serves its key, and a batch is one request or shared reads.
BatchesHoldPopped ==
  /\ \A i \in Dispatched :
       (Scoped(i) /\ status[i] \in {"popped", "running"}) =>
         \E d \in Dispatched : /\ Scoped(d) /\ Key(d) = Key(i)
                               /\ drain[d] = "joining" /\ i \in batch[d]
  /\ \A d \in Ids : \A i \in batch[d] :
       /\ drain[d] = "joining" /\ i \in Dispatched /\ Scoped(i) /\ Key(i) = Key(d)
       /\ status[i] # "queued"
       /\ \A j \in batch[d] : i # j => Access(i) = "SharedRead"

\* The map and the drain tasks agree.
MapMatchesTasks ==
  /\ \A d \in Dispatched : Scoped(d) /\ Serving(d) => Key(d) \in mapped
  /\ \A d, e \in Dispatched :
       (Scoped(d) /\ Scoped(e) /\ Serving(d) /\ Serving(e) /\ Key(d) = Key(e)) => d = e
  /\ \A k \in mapped : \E d \in Dispatched : Scoped(d) /\ Serving(d) /\ Key(d) = k
  /\ \A k \in Keys \ mapped : queues[k] = <<>>

\* A gate accepts until its shutdown starts.
GateMatches == \A c \in Conns : accepting[c] <=> gate[c] = "open"

IInv ==
  /\ TypeOK
  /\ UndispatchedIsNew
  /\ QueuesHoldQueued
  /\ FrontLeavesFirst
  /\ BatchesHoldPopped
  /\ MapMatchesTasks
  /\ ArrivalOrder
=============================================================================
