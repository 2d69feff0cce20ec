------------------------ MODULE ThreadSubscriptions ------------------------
(***************************************************************************)
(* One thread id of the app server: who is subscribed to it, the listener  *)
(* task that turns the core thread's events into notifications and server  *)
(* requests, the callbacks those requests wait on, and the ways a thread   *)
(* leaves memory (unload after 30 idle minutes, archive, replacement by a  *)
(* resume with other settings).                                            *)
(*                                                                         *)
(* Requests about a thread are serialized by its id (RequestSerialization),*)
(* so one handler runs at a time (op); a closing connection, the listener  *)
(* tasks, the tasks that wait for answers and the core threads run beside  *)
(* it.  An action is what happens between two awaits that matter; the 30   *)
(* minutes may pass whenever the thread has no subscriber and no turn.     *)
(* Core threads, listeners and ThreadState objects are numbered in the     *)
(* order they are made; 0 stands for none.                                 *)
(***************************************************************************)
EXTENDS Naturals, Sequences, FiniteSets, FiniteSetsExt

CONSTANTS
  Conns, Starter,   \* connections; the one that started the thread
  Reqs,             \* approvals the core thread may ask for
  None,
  MaxLoads,         \* bound: core threads made for the id
  MaxObjects,       \* bound: ThreadState objects
  MaxTurns,         \* bound: turns of a core thread
  MaxCalls, Cost    \* bound: client requests and timeouts, and what each takes of it

Kinds == {"resume", "replace", "unsubscribe", "archive", "close", "timeout"}

\* The events of a core thread that are not approvals.
Words == {"started", "ended", "shutdown"}

\* The steps of finalize_thread_teardown, each behind an await.
TeardownSteps == {"unmark", "cancel", "remove", "unwatch"}

\* A request handler at work; 0 for no core thread and no ThreadState.
OpRecs ==
  [kind : {"resume", "replace", "unsubscribe", "archive"}, conn : Conns, conv : Nat,
   obj : 0 .. MaxObjects, watch : 0 .. MaxObjects,
   pc : {"lookup", "differs", "stopping", "rejoin", "listen", "set", "enqueue", "load",
         "attach", "attached", "serve", "archive"} \cup TeardownSteps]

ASSUME SubscriptionAssumption ==
  /\ Starter \in Conns /\ None \notin Conns /\ None \notin OpRecs
  /\ IsFiniteSet(Reqs) /\ None \notin Reqs /\ Reqs \cap Words = {}
  /\ {MaxLoads, MaxObjects} \subseteq Nat \ {0} /\ MaxTurns \in Nat
  /\ MaxCalls \in Nat /\ Cost \in [Kinds -> Nat \ {0}]

VARIABLES
  live,       \* ThreadStateManager.live_connections
  subs,       \* connection_ids of the thread's entry
  entry,      \* the ThreadState of the thread's entry
  made,       \* ThreadState objects made so far
  peopled,    \* removed entries whose has_connections_watcher last said TRUE
  tx,         \* ThreadState -> listener that holds its command channel
  listeners,  \* the listener tasks
  convs,      \* the core threads (CodexThread)
  loaded,     \* the core thread in the thread manager
  unloading,  \* pending_thread_unloads contains the thread
  unloaders,  \* core threads whose unload task waits for their shutdown
  status,     \* ThreadWatchManager's RuntimeFacts of the thread
  req,        \* the approvals and their waiting tasks
  asked,      \* request -> subscribers it was sent to since they subscribed
  told,       \* request -> subscribers told that it is resolved
  op,         \* the request handler at work
  closing,    \* a closed connection was the last subscriber: what is left to do
  archived,
  turns,      \* turns the core thread loaded last has started
  spent       \* how much of MaxCalls is used up

book   == <<subs, entry, made, peopled, tx>>
core   == <<convs, loaded, turns>>
unload == <<unloading, unloaders>>
asks   == <<req, asked, told>>
tasks  == <<op, closing>>
rest   == <<archived, spent>>
vars   == <<live, book, listeners, core, unload, status, asks, tasks, rest>>

Objects   == 1 .. MaxObjects
NewConv   == [st |-> "up", turn |-> FALSE, events |-> <<>>]
NewListener(obj, conv, watch) ==
  [obj |-> obj, conv |-> conv, watch |-> watch, pc |-> "loop", cmds |-> <<>>,
   cancelled |-> FALSE, who |-> None, hand |-> None, to |-> {}, pending |-> {}]
NotLoaded == [known |-> FALSE, running |-> FALSE, count |-> 0]
Idle      == [NotLoaded EXCEPT !.known = TRUE]
NewReq    == [st |-> "new", conv |-> 0, lis |-> 0, by |-> 0, blocks |-> FALSE]

Init ==
  /\ live = Conns /\ subs = {Starter} /\ entry = 1 /\ made = 1 /\ peopled = {}
  /\ tx = [o \in Objects |-> IF o = 1 THEN 1 ELSE 0]
  /\ listeners = <<NewListener(1, 1, 1)>>
  /\ convs = <<NewConv>> /\ loaded = 1
  /\ unloading = FALSE /\ unloaders = {} /\ status = Idle
  /\ req = [r \in Reqs |-> NewReq]
  /\ asked = [r \in Reqs |-> {}] /\ told = [r \in Reqs |-> {}]
  /\ op = None /\ closing = None
  /\ archived = FALSE /\ turns = 0 /\ spent = 0

Spend(k) == spent + Cost[k] <= MaxCalls /\ spent' = spent + Cost[k]

-----------------------------------------------------------------------------
(* What several operations share.                                          *)

Open == {r \in Reqs : req[r].st = "open"}

\* cancel_requests_for_thread: the callbacks leave the map, with the error of a
\* turn transition when a turn of the core thread n ends the requests (by = n).
Settled(rs, n) ==
  [r \in Reqs |-> IF r \in rs THEN [req[r] EXCEPT !.st = "settled", !.by = n] ELSE req[r]]

\* clear_listener of the ThreadState o: its listener is told to stop.
Cancelled(o) == IF o # 0 /\ tx[o] # 0 THEN [listeners EXCEPT ![tx[o]].cancelled = TRUE]
                                      ELSE listeners
\* The command channels without that of o and those of the listener l.
Without(o, l) == [x \in Objects |-> IF x = o \/ tx[x] = l THEN 0 ELSE tx[x]]

\* remove_thread_state; by the listener l itself when l # 0.  Who subscribed to
\* the entry's watcher goes on seeing its last value.
RemoveState(l) ==
  /\ subs' = {} /\ entry' = 0 /\ tx' = Without(entry, l) /\ UNCHANGED made
  /\ peopled' = IF subs = {} THEN peopled ELSE peopled \cup {entry}
  /\ asked' = [r \in Reqs |-> {}] /\ UNCHANGED told

\* Mutant: requests of a thread that is torn down end like those of a past turn.
CancelAsTransition ==
  req' = [r \in Reqs |-> IF r \in Open THEN [req[r] EXCEPT !.st = "settled", !.by = req[r].conv]
                                       ELSE req[r]]

CancelRequests == req' = Settled(Open, 0)

\* finalize_thread_teardown, one step of it.
Teardown(p) ==
  \/ /\ p = "unmark" /\ unloading' = FALSE
     /\ UNCHANGED <<book, listeners, unloaders, status, asks>>
  \/ /\ p = "cancel" /\ CancelRequests
     /\ UNCHANGED <<book, listeners, unload, status, asked, told>>
  \/ /\ p = "remove" /\ RemoveState(0) /\ listeners' = Cancelled(entry)
     /\ UNCHANGED <<unload, status, req>>
  \/ /\ p = "unwatch" /\ status' = NotLoaded
     /\ UNCHANGED <<book, listeners, unload, asks>>

After(p) == CASE p = "unmark" -> "cancel" [] p = "cancel" -> "remove" [] p = "remove" -> "unwatch"

\* thread_state, or an entry made by a subscription.
HasEntry == /\ IF entry = 0 THEN made < MaxObjects /\ entry' = made + 1 /\ made' = made + 1
                            ELSE UNCHANGED <<entry, made>>
            /\ UNCHANGED <<peopled, tx>>

Drop(c) == [r \in Reqs |-> asked[r] \ {c}]

Stopping(n) == IF n # 0 /\ convs[n].st = "up" THEN [convs EXCEPT ![n].st = "stopping"] ELSE convs
-----------------------------------------------------------------------------
(* Requests about the thread, one at a time.                               *)

Begin(kind, c, p, n) == op' = [kind |-> kind, conn |-> c, pc |-> p, conv |-> n, obj |-> 0, watch |-> 0]
At(p) == op # None /\ op.pc = p

\* thread_resume_inner; other settings make it a replacement.
Resume(c, kind) ==
  /\ Spend(kind)
  /\ op = None /\ c \in live
  /\ IF unloading THEN UNCHANGED op ELSE Begin(kind, c, "lookup", 0)
  /\ UNCHANGED <<live, book, listeners, core, unload, status, asks, closing, archived>>

\* resume_running_thread
Lookup ==
  /\ At("lookup")
  /\ op' = [op EXCEPT !.conv = loaded,
                      !.pc = IF loaded = 0 THEN "load"
                             ELSE IF op.kind = "replace" THEN "differs" ELSE "rejoin"]
  /\ UNCHANGED <<live, book, listeners, core, unload, status, asks, closing, rest>>

\* "A loaded idle thread is only a cache entry."
Differs ==
  /\ At("differs")
  /\ IF subs = {} /\ status = Idle /\ ~convs[op.conv].turn
     THEN /\ convs' = Stopping(op.conv)
          /\ op' = [op EXCEPT !.pc = "stopping"]
     ELSE op' = [op EXCEPT !.pc = "rejoin"] /\ UNCHANGED convs
  /\ UNCHANGED <<live, book, listeners, loaded, turns, unload, status, asks, closing,
                 rest>>

Replace ==
  /\ At("stopping") /\ convs[op.conv].st = "down"
  /\ loaded' = 0
  /\ op' = [op EXCEPT !.pc = "unmark"]
  /\ UNCHANGED <<live, book, listeners, convs, turns, unload, status, asks, closing,
                 rest>>

\* wait_for_thread_shutdown times out: the thread is rejoined as it is.
ReplaceTimesOut ==
  /\ Spend("timeout")
  /\ At("stopping") /\ convs[op.conv].st # "down"
  /\ op' = [op EXCEPT !.pc = "rejoin"]
  /\ UNCHANGED <<live, book, listeners, core, unload, status, asks, closing, archived>>

Rejoin ==
  /\ At("rejoin")
  /\ HasEntry /\ UNCHANGED subs
  /\ op' = [op EXCEPT !.obj = entry', !.pc = "listen"]
  /\ UNCHANGED <<live, listeners, core, unload, status, asks, closing, rest>>

\* ensure_listener_task_running subscribes to the watcher of the thread's entry,
\* and, several awaits later, makes the ThreadState it was given a listener.
Matches(o, n) == tx[o] # 0 /\ listeners[tx[o]].conv = n

SetListener ==
  IF Matches(op.obj, op.conv) THEN UNCHANGED <<tx, listeners>>
  ELSE /\ listeners' = Append(Cancelled(op.obj), NewListener(op.obj, op.conv, op.watch))
       /\ tx' = [tx EXCEPT ![op.obj] = Len(listeners) + 1]

Listen ==
  /\ At("listen")
  /\ op' = IF entry = 0 THEN None ELSE [op EXCEPT !.watch = entry, !.pc = "set"]
  /\ UNCHANGED <<live, book, listeners, core, unload, status, asks, closing, rest>>

ListenSet ==
  /\ At("set")
  /\ SetListener
  /\ op' = [op EXCEPT !.pc = "enqueue"]
  /\ UNCHANGED <<live, subs, entry, made, peopled, core, unload, status, asks, closing,
                 rest>>

\* The running-thread resume goes through the listener's command channel.
Enqueue ==
  /\ At("enqueue") /\ op' = None
  /\ listeners' = IF tx[op.obj] = 0 THEN listeners
                  ELSE [listeners EXCEPT ![tx[op.obj]].cmds = Append(@, <<"resume", op.conn>>)]
  /\ UNCHANGED <<live, book, core, unload, status, asks, closing, rest>>

\* resume_thread_with_history: a new core thread, unless the id is taken.
Load ==
  /\ At("load")
  /\ IF loaded = 0 /\ ~archived /\ Len(convs) < MaxLoads
     THEN /\ convs' = Append(convs, NewConv) /\ loaded' = Len(convs) + 1
          /\ op' = [op EXCEPT !.conv = Len(convs) + 1, !.pc = "attach"] /\ turns' = 0
     ELSE op' = None /\ UNCHANGED core
  /\ UNCHANGED <<live, book, listeners, unload, status, asks, closing, rest>>

\* ensure_conversation_listener: subscribe under the lock of pending unloads.
Attach ==
  /\ At("attach")
  /\ IF loaded # 0 /\ ~unloading /\ op.conn \in live
     THEN /\ HasEntry /\ subs' = subs \cup {op.conn}
          /\ op' = [op EXCEPT !.obj = entry', !.pc = "attached"]
          /\ UNCHANGED status
     ELSE /\ op' = None /\ status' = [status EXCEPT !.known = TRUE]
          /\ UNCHANGED book
  /\ UNCHANGED <<live, listeners, core, unload, asks, closing, rest>>

Attached ==
  /\ At("attached")
  /\ IF entry = 0 THEN op' = None /\ status' = [status EXCEPT !.known = TRUE]
     ELSE op' = [op EXCEPT !.watch = entry, !.pc = "serve"] /\ UNCHANGED status
  /\ UNCHANGED <<live, book, listeners, core, unload, asks, closing, rest>>

AttachedSet ==
  /\ At("serve") /\ op' = None
  /\ SetListener
  /\ status' = [status EXCEPT !.known = TRUE]
  /\ UNCHANGED <<live, subs, entry, made, peopled, core, unload, asks, closing, rest>>

\* thread_unsubscribe_response_inner; a thread that is not loaded is torn down.
Unsubscribe(c) ==
  /\ Spend("unsubscribe")
  /\ op = None /\ c \in live /\ (c \in subs \/ loaded = 0)
  /\ IF loaded = 0
     THEN Begin("unsubscribe", c, "unmark", 0) /\ UNCHANGED <<subs, asked>>
     ELSE subs' = subs \ {c} /\ asked' = Drop(c) /\ UNCHANGED op
  /\ UNCHANGED <<live, entry, made, peopled, tx, listeners, core, unload, status, req, told,
                 closing, archived>>

\* prepare_thread_for_archive
Archive(c) ==
  /\ Spend("archive")
  /\ op = None /\ c \in live
  /\ loaded' = 0 /\ convs' = Stopping(loaded) /\ archived' = TRUE
  /\ Begin("archive", c, "archive", loaded)
  /\ UNCHANGED <<live, book, listeners, turns, unload, status, asks, closing>>

Gone(n) == n # 0 => convs[n].st = "down"

\* When the shutdown times out, the archive goes on all the same.
Archived ==
  /\ At("archive")
  /\ IF Gone(op.conv) THEN UNCHANGED spent ELSE Spend("timeout")
  /\ op' = [op EXCEPT !.pc = "unmark"]
  /\ UNCHANGED <<live, book, listeners, core, unload, status, asks, closing, archived>>

\* A handler tears the thread down; a replacing resume then loads it again.
HandlerTeardown ==
  /\ op # None /\ Teardown(op.pc)
  /\ op' = IF op.pc # "unwatch" THEN [op EXCEPT !.pc = After(op.pc)]
           ELSE IF op.kind = "replace" THEN [op EXCEPT !.pc = "load"] ELSE None
  /\ UNCHANGED <<live, core, closing, rest>>
-----------------------------------------------------------------------------
(* A connection goes away, once its own handlers are over.                 *)

Close(c) ==
  /\ Spend("close")
  /\ closing = None /\ c \in live /\ (op # None => op.conn # c)
  /\ live' = live \ {c} /\ subs' = subs \ {c} /\ asked' = Drop(c)
  /\ closing' = IF subs = {c} THEN "check" ELSE None
  /\ UNCHANGED <<entry, made, peopled, tx, listeners, core, unload, status, req, told, op, archived>>

CloseCheck ==
  /\ closing = "check"
  /\ closing' = IF loaded = 0 THEN "unmark" ELSE None
  /\ UNCHANGED <<live, book, listeners, core, unload, status, asks, op, rest>>

CloseTeardown ==
  /\ closing # None /\ Teardown(closing)
  /\ closing' = IF closing = "unwatch" THEN None ELSE After(closing)
  /\ UNCHANGED <<live, core, op, rest>>
-----------------------------------------------------------------------------
(* The listener task; its select is biased: cancel, command, event, unload. *)

Ready(l)      == listeners[l].pc = "loop" /\ ~listeners[l].cancelled
Quiet(l)      == Ready(l) /\ listeners[l].cmds = <<>>
HasEvent(l)   == convs[listeners[l].conv].events # <<>>
Set(l, rec)   == listeners' = [listeners EXCEPT ![l] = rec]
ConvOf(l)     == listeners[l].conv

\* Out of the loop: "if thread_state.listener_generation == listener_generation".
Leaves(l) ==
  /\ Set(l, [listeners[l] EXCEPT !.pc = "ended", !.cmds = <<>>, !.cancelled = TRUE])
  /\ tx' = Without(0, l)

\* Cancelled, or the entry that its watchers belong to is gone.
Stop(l) ==
  /\ listeners[l].pc = "loop"
  /\ listeners[l].cancelled \/ (Quiet(l) /\ ~HasEvent(l) /\ listeners[l].watch # entry)
  /\ Leaves(l)
  /\ UNCHANGED <<live, subs, entry, made, peopled, core, unload, status, asks, tasks, rest>>

\* handle_pending_thread_resume_request, up to the subscription.
ResumeCommand(l) ==
  LET me == [listeners[l] EXCEPT !.cmds = Tail(@)]
      c  == Head(listeners[l].cmds)[2]
  IN /\ Ready(l) /\ ~Quiet(l) /\ Head(listeners[l].cmds)[1] = "resume"
     /\ IF unloading \/ c \notin live
        THEN Set(l, me) /\ UNCHANGED book
        ELSE /\ HasEntry /\ subs' = subs \cup {c}
             /\ Set(l, [me EXCEPT !.pc = "respond", !.who = c])
     /\ UNCHANGED <<live, core, unload, status, asks, tasks, rest>>

\* Mutant: the pending requests are not replayed to a client that rejoins.
RespondWithoutReplay(l) ==
  /\ listeners[l].pc = "respond"
  /\ Set(l, [listeners[l] EXCEPT !.pc = "replay", !.pending = {}])
  /\ UNCHANGED <<live, book, core, unload, status, asks, tasks, rest>>

\* The response, and replay_requests_to_connection_for_thread.
Respond(l) ==
  /\ listeners[l].pc = "respond"
  /\ Set(l, [listeners[l] EXCEPT !.pc = "replay", !.pending = Open])
  /\ UNCHANGED <<live, book, core, unload, status, asks, tasks, rest>>

Replay(l) ==
  LET me == listeners[l] IN
  /\ me.pc = "replay"
  /\ asked' = [r \in Reqs |-> IF r \in me.pending /\ me.who \in subs
                              THEN asked[r] \cup {me.who} ELSE asked[r]]
  /\ Set(l, [me EXCEPT !.pc = "loop", !.pending = {}, !.who = None])
  /\ UNCHANGED <<live, book, core, unload, status, req, told, tasks, rest>>

\* resolve_pending_server_request
ResolveCommand(l) ==
  LET r == Head(listeners[l].cmds)[2] IN
  /\ Ready(l) /\ ~Quiet(l) /\ Head(listeners[l].cmds)[1] = "resolve"
  /\ told' = [told EXCEPT ![r] = @ \cup subs]
  /\ req' = [req EXCEPT ![r].st = "resolved"]
  /\ Set(l, [listeners[l] EXCEPT !.cmds = Tail(@)])
  /\ UNCHANGED <<live, book, core, unload, status, asked, tasks, rest>>

\* apply_bespoke_event_handling of TurnStarted, TurnComplete, TurnAborted and
\* ShutdownComplete; an approval is taken in hand with its addressees.
StatusAfter(e) ==
  CASE e = "started"  -> [status EXCEPT !.known = TRUE, !.running = TRUE]
    [] e = "ended"    -> Idle
    [] e = "shutdown" -> NotLoaded

TakeEvent(l) ==
  LET n == ConvOf(l)
      e == Head(convs[n].events)
  IN /\ Quiet(l) /\ HasEvent(l)
     /\ convs' = [convs EXCEPT ![n].events = Tail(@)]
     /\ IF e \in Reqs
        THEN /\ Set(l, [listeners[l] EXCEPT !.pc = "ask", !.hand = e, !.to = subs])
             /\ UNCHANGED <<req, status>>
        ELSE /\ req' = IF e = "shutdown" THEN req ELSE Settled(Open, n)
             /\ status' = StatusAfter(e)
             /\ UNCHANGED listeners
     /\ UNCHANGED <<live, book, loaded, turns, unload, asked, told, tasks, rest>>

\* note_permission_requested, then send_request_to_connections.
Ask(l) ==
  LET me == listeners[l] IN
  /\ me.pc = "ask"
  /\ status' = [status EXCEPT !.known = TRUE, !.count = @ + 1]
  /\ req' = [req EXCEPT ![me.hand].st = "open", ![me.hand].lis = l]
  /\ asked' = [asked EXCEPT ![me.hand] = me.to \cap subs]
  /\ Set(l, [me EXCEPT !.pc = "loop", !.hand = None, !.to = {}])
  /\ UNCHANGED <<live, book, core, unload, told, tasks, rest>>

Active == status.running \/ status.count > 0

\* What a receiver of the watcher of entry o sees: its last value when o is gone.
SeenSubs(o) == IF o = entry THEN subs # {} ELSE o \in peopled

\* wait_for_unloading_trigger, and the agent_status of the core thread.
UnloadTrigger(l) ==
  /\ Quiet(l) /\ ~HasEvent(l)
  /\ ~SeenSubs(listeners[l].watch) /\ ~Active /\ ~convs[ConvOf(l)].turn
  /\ Set(l, [listeners[l] EXCEPT !.pc = "check"])
  /\ UNCHANGED <<live, book, core, unload, status, asks, tasks, rest>>

\* Mutant: the listener trusts what it saw before it took the lock.
ShouldUnloadUnchecked(l) == ~unloading

\* should_unload_now borrows the watchers, whatever has become of the entry.
ShouldUnload(l) == ~unloading /\ ~SeenSubs(listeners[l].watch) /\ ~Active

\* Under the lock of pending_thread_unloads: check again, then mark.
MarkUnload(l) ==
  /\ listeners[l].pc = "check"
  /\ unloading' = (unloading \/ ShouldUnload(l))
  /\ Set(l, [listeners[l] EXCEPT !.pc = IF ShouldUnload(l) THEN "unload" ELSE "loop"])
  /\ UNCHANGED <<live, book, core, unloaders, status, asks, tasks, rest>>

\* unload_thread_without_subscribers, and the listener is over.
Unload(l) ==
  /\ listeners[l].pc = "unload"
  /\ CancelRequests
  /\ RemoveState(l)
  /\ listeners' = [Cancelled(entry) EXCEPT ![l].pc = "ended", ![l].cmds = <<>>, ![l].cancelled = TRUE]
  /\ unloaders' = unloaders \cup {ConvOf(l)} /\ convs' = Stopping(ConvOf(l))
  /\ UNCHANGED <<live, loaded, turns, unloading, status, tasks, rest>>

Unloaded(n) ==
  /\ n \in unloaders /\ unloaders' = unloaders \ {n} /\ unloading' = FALSE
  /\ \/ convs[n].st = "down" /\ loaded' = 0 /\ status' = NotLoaded /\ UNCHANGED spent
     \/ convs[n].st # "down" /\ Spend("timeout") /\ UNCHANGED <<loaded, status>>
  /\ UNCHANGED <<live, book, listeners, convs, turns, asks, tasks, archived>>
-----------------------------------------------------------------------------
(* Answers, and the task that waits for one.                                *)

\* notify_client_response: whoever answers first takes the callback.
Answer(c, r) ==
  /\ c \in live /\ r \in Open
  /\ req' = Settled({r}, 0)
  /\ UNCHANGED <<live, book, listeners, core, unload, status, asked, told, tasks, rest>>

\* Mutant: the answer is enough, nobody is told that the prompt is over.
ResolveUnheard(r) ==
  /\ req[r].st = "settled"
  /\ req' = [req EXCEPT ![r].st = "resolved"]
  /\ UNCHANGED <<live, book, listeners, core, unload, status, asked, told, tasks, rest>>

\* Mutant: the waiting task tells the subscribers itself, beside the listener.
ResolveBesideListener(r) ==
  /\ req[r].st = "settled"
  /\ req' = [req EXCEPT ![r].st = "resolved"] /\ told' = [told EXCEPT ![r] = @ \cup subs]
  /\ UNCHANGED <<live, book, listeners, core, unload, status, asked, tasks, rest>>

\* resolve_server_request_on_thread_listener
Resolve(r) ==
  LET l == tx[listeners[req[r].lis].obj] IN
  /\ req[r].st = "settled"
  /\ IF l = 0
     THEN req' = [req EXCEPT ![r].st = "resolved"] /\ UNCHANGED listeners
     ELSE /\ req' = [req EXCEPT ![r].st = "resolving", ![r].lis = l]
          /\ listeners' = [listeners EXCEPT ![l].cmds = Append(@, <<"resolve", r>>)]
  /\ UNCHANGED <<live, book, core, unload, status, asked, told, tasks, rest>>

\* Mutant: the waiting task does not notice that the listener is gone.
ResolveWaitsOn(r) == FALSE /\ UNCHANGED vars

\* The listener ended without looking at the command.
ResolveLost(r) ==
  /\ req[r].st = "resolving" /\ listeners[req[r].lis].pc = "ended"
  /\ req' = [req EXCEPT ![r].st = "resolved"]
  /\ UNCHANGED <<live, book, listeners, core, unload, status, asked, told, tasks, rest>>

\* The guard is dropped and, unless the turn has moved on, the decision sent.
Decide(r) ==
  /\ req[r].st = "resolved"
  /\ req' = [req EXCEPT ![r].st = "done", ![r].blocks = @ /\ req[r].by # 0]
  /\ status' = [status EXCEPT !.known = TRUE, !.count = IF @ = 0 THEN 0 ELSE @ - 1]
  /\ UNCHANGED <<live, book, listeners, core, unload, asked, told, tasks, rest>>
-----------------------------------------------------------------------------
(* The core threads, as far as the app server sees them.                    *)

Emit(n, e)  == [convs EXCEPT ![n].events = Append(@, e)]
Released(n) == [r \in Reqs |-> IF req[r].conv = n THEN [req[r] EXCEPT !.blocks = FALSE] ELSE req[r]]

\* turn/start
StartTurn ==
  /\ op = None /\ loaded # 0 /\ turns < MaxTurns
  /\ convs[loaded].st = "up" /\ ~convs[loaded].turn
  /\ convs' = [Emit(loaded, "started") EXCEPT ![loaded].turn = TRUE]
  /\ turns' = turns + 1
  /\ UNCHANGED <<live, book, listeners, loaded, unload, status, asks, tasks, rest>>

AskApproval(n, r) ==
  /\ convs[n].turn /\ convs[n].st = "up" /\ req[r].st = "new"
  /\ convs' = Emit(n, r)
  /\ req' = [req EXCEPT ![r].st = "queued", ![r].conv = n, ![r].blocks = TRUE]
  /\ UNCHANGED <<live, book, listeners, loaded, turns, unload, status, asked, told, tasks,
                 rest>>

\* A turn completes, or is interrupted whatever it waits for.
EndTurn(n) ==
  /\ convs[n].turn /\ convs[n].st = "up"
  /\ convs' = [Emit(n, "ended") EXCEPT ![n].turn = FALSE]
  /\ req' = Released(n)
  /\ UNCHANGED <<live, book, listeners, loaded, turns, unload, status, asked, told, tasks,
                 rest>>

\* Op::Shutdown: the turn is aborted, the events are the last.
Shutdown(n) ==
  /\ convs[n].st = "stopping"
  /\ convs' = [convs EXCEPT ![n] = [st |-> "down", turn |-> FALSE, events |->
                 @.events \o (IF @.turn THEN <<"ended">> ELSE <<>>) \o <<"shutdown">>]]
  /\ req' = Released(n)
  /\ UNCHANGED <<live, book, listeners, loaded, turns, unload, status, asked, told, tasks,
                 rest>>
-----------------------------------------------------------------------------
Handler     == \/ Lookup \/ Differs \/ Replace \/ Rejoin \/ Listen \/ ListenSet \/ Enqueue
               \/ Load \/ Attach \/ Attached \/ AttachedSet \/ Archived \/ HandlerTeardown
               \/ CloseCheck \/ CloseTeardown
Listener(l) == \/ Stop(l) \/ ResumeCommand(l) \/ Respond(l) \/ Replay(l) \/ ResolveCommand(l)
               \/ TakeEvent(l) \/ Ask(l) \/ MarkUnload(l) \/ Unload(l)
Waiter(r)   == Resolve(r) \/ ResolveLost(r) \/ Decide(r)
Thread(n)   == EndTurn(n) \/ Shutdown(n) \/ Unloaded(n) \/ \E r \in Reqs : AskApproval(n, r)

Next ==
  \/ \E c \in Conns : \/ Resume(c, "resume") \/ Resume(c, "replace") \/ Unsubscribe(c)
                      \/ Archive(c) \/ Close(c) \/ \E r \in Reqs : Answer(c, r)
  \/ Handler \/ ReplaceTimesOut
  \/ \E l \in DOMAIN listeners : Listener(l) \/ UnloadTrigger(l)
  \/ \E r \in Reqs : Waiter(r)
  \/ \E n \in DOMAIN convs : Thread(n)
  \/ StartTurn

Spec == Init /\ [][Next]_vars

\* The tasks of the server run; clients, models and clocks owe nothing.  A request
\* starts at most one listener.
FairSpec == /\ Spec
            /\ \A l \in 1 .. MaxCalls + 1 : WF_vars(l \in DOMAIN listeners /\ Listener(l))
            /\ \A r \in Reqs : WF_vars(Waiter(r))
-----------------------------------------------------------------------------
Commands == ({"resume"} \X Conns) \cup ({"resolve"} \X Reqs)

ListenerRecs ==
  [obj : Objects, conv : Nat, watch : 0 .. MaxObjects,
   pc : {"loop", "respond", "replay", "ask", "check", "unload", "ended"},
   cmds : Seq(Commands), cancelled : BOOLEAN, who : Conns \cup {None},
   hand : Reqs \cup {None}, to : SUBSET Conns, pending : SUBSET Reqs]

ConvRecs == [st : {"up", "stopping", "down"}, turn : BOOLEAN, events : Seq(Reqs \cup Words)]

ReqRecs ==
  [st : {"new", "queued", "open", "settled", "resolving", "resolved", "done"},
   conv : Nat, lis : Nat, by : Nat, blocks : BOOLEAN]

ConnTypes ==
  /\ live \subseteq Conns
  /\ entry \in 0 .. made /\ made \in Objects /\ peopled \subseteq Objects
  /\ closing \in {None, "check"} \cup TeardownSteps

\* Connections are listed only under a thread that has an entry, and only
\* subscribers hold prompts.
SubscriberTypes ==
  /\ subs \subseteq Conns /\ (entry = 0 => subs = {})
  /\ asked \in [Reqs -> SUBSET subs]

ListenerTypes ==
  /\ listeners \in Seq(ListenerRecs) /\ \A l \in DOMAIN listeners : ConvOf(l) \in DOMAIN convs
  /\ tx \in [Objects -> 0 .. Len(listeners)]

CoreTypes ==
  /\ convs \in Seq(ConvRecs) /\ loaded \in 0 .. Len(convs) /\ unloaders \subseteq DOMAIN convs
  /\ unloading \in BOOLEAN /\ archived \in BOOLEAN
  /\ turns \in 0 .. MaxTurns /\ spent \in Nat

ReqTypes ==
  /\ req \in [Reqs -> ReqRecs] /\ told \in [Reqs -> SUBSET Conns]
  /\ \A r \in Reqs : /\ req[r].st \notin {"new", "queued"} => req[r].lis \in DOMAIN listeners
                     /\ req[r].st # "new" => req[r].conv \in DOMAIN convs

\* A handler that works on a core thread or a ThreadState knows it.
OpTypes ==
  op # None =>
    /\ op \in OpRecs /\ op.conv \in 0 .. Len(convs) /\ op.obj \in 0 .. made
    /\ op.pc \in {"differs", "stopping", "rejoin", "listen", "set", "enqueue", "attach",
                  "attached", "serve"} => op.conv # 0
    /\ op.pc \in {"listen", "set", "enqueue", "attached", "serve"} => op.obj # 0

\* The count of open approvals in the thread's status never exceeds the
\* approvals there are (no guard is counted twice).
StatusTypes ==
  status \in [known : BOOLEAN, running : BOOLEAN, count : 0 .. Cardinality(Reqs)]

\* The types of the subscriptions, listeners, core threads and approvals.
TypeOK ==
  /\ ConnTypes /\ SubscriberTypes /\ ListenerTypes /\ CoreTypes /\ ReqTypes /\ OpTypes
  /\ StatusTypes

\* The thread still has the ThreadState it was started with.
FirstState == made = 1

\* Every subscriber has every open approval in front of it whenever the
\* listener is between two pieces of work: one that rejoins while an approval
\* is pending is sent it again (replay_requests_to_connection_for_thread), and
\* one that rejoins while the approval is being sent is not missed.
SubscribersAsked ==
  (FirstState /\ entry = 1 /\ tx[1] # 0 /\ Ready(tx[1])) => \A r \in Open : subs \subseteq asked[r]

\* When a decision reaches the core thread, every client that shows the prompt
\* has been told that it is over (ServerRequestResolved), whoever answered.
PromptsRetired ==
  FirstState => \A r \in Reqs : req[r].st = "done" => asked[r] \subseteq told[r]

\* While a thread is marked for unloading nobody is subscribed to it: the
\* listener checks again under the lock of pending_thread_unloads, and both ways
\* to subscribe look at the mark under the same lock.  Known exception: the
\* listener of an entry that was removed meanwhile reads that entry's watcher,
\* and marks and removes a thread that a replacing resume has just loaded.
MarkedHasNoSubscriber ==
  unloading /\ subs # {} =>
    \E l \in DOMAIN listeners : listeners[l].pc = "unload" /\ listeners[l].watch # entry

\* A thread without a state has no subscribers, and a marked one only by the
\* hand of a listener that was left over.
UnloadInv == TypeOK /\ MarkedHasNoSubscriber

\* An answer the server withholds, because the turn has moved on, is one the
\* core thread no longer waits for: its own turn events and the teardowns of the
\* thread never withhold one it needs.  Known exception: the requests of a thread
\* are given up by id, so the turn events of another core thread under the same
\* id do, one that was left behind or one that took its place.
WithheldIsUnneeded ==
  \A r \in Reqs : req[r].st = "done" /\ req[r].blocks => req[r].by # req[r].conv

\* A prompt is never shown to a client after the client was told that it is
\* resolved: replays and resolutions go through the one listener task.
NoPromptAfterResolved ==
  [][FirstState => \A r \in Reqs : (asked'[r] \ asked[r]) \cap told[r] = {}]_vars

\* The task that waits for an answer always comes to an end, whatever becomes
\* of the listener it hands the resolution to.
DecisionsReturn == \A r \in Reqs : req[r].st = "settled" ~> req[r].st = "done"
-----------------------------------------------------------------------------
(* What the properties rest on: the parts of the inductive invariants.     *)

Events(n) == convs[n].events

\* An approval travels once: in the core thread's events, then in the hand of
\* one listener, and it is opened only from there.
AskInv ==
  /\ \A n \in DOMAIN convs : \A i \in DOMAIN Events(n) :
       Events(n)[i] \in Reqs =>
         /\ req[Events(n)[i]].st = "queued" /\ req[Events(n)[i]].conv = n
         /\ \A j \in DOMAIN Events(n) : Events(n)[i] = Events(n)[j] => i = j
  /\ \A l \in DOMAIN listeners : listeners[l].pc = "ask" =>
       LET r == listeners[l].hand IN
       /\ r \in Reqs /\ req[r].st = "queued" /\ req[r].conv = ConvOf(l)
       /\ \A i \in DOMAIN Events(ConvOf(l)) : Events(ConvOf(l))[i] # r
       /\ \A k \in DOMAIN listeners : k # l /\ listeners[k].pc = "ask" => listeners[k].hand # r

\* A listener that has ended is in no command channel and has no commands.
ChannelInv ==
  /\ \A l \in DOMAIN listeners : listeners[l].pc = "ended" => listeners[l].cmds = <<>>
  /\ \A o \in Objects : tx[o] # 0 => listeners[tx[o]].pc # "ended"

\* A resolution waits in the channel of the listener the request names, once.
CommandInv ==
  \A l \in DOMAIN listeners : \A i \in DOMAIN listeners[l].cmds :
    LET cmd == listeners[l].cmds[i] IN
    cmd[1] = "resolve" =>
      /\ req[cmd[2]].st = "resolving" /\ req[cmd[2]].lis = l
      /\ \A j \in DOMAIN listeners[l].cmds : listeners[l].cmds[j] = cmd => i = j

\* The approvals that hold a guard of the thread's status.
Guarded == {r \in Reqs : req[r].st \in {"open", "settled", "resolving", "resolved"}}

GuardInv == status.count <= Cardinality(Guarded)

\* As long as the thread keeps its first entry it has one core thread and one
\* listener, which nobody has told to stop.
FirstListener ==
  /\ made = 1 /\ Len(listeners) = 1 /\ tx[1] = 1
  /\ listeners[1].obj = 1 /\ listeners[1].conv = 1 /\ listeners[1].watch = 1
  /\ ~listeners[1].cancelled /\ listeners[1].pc # "ended"

FirstCore ==
  /\ Len(convs) = 1 /\ unloaders = {}
  /\ IF loaded = 0 THEN At("archive") \/ At("unmark") \/ At("cancel") \/ At("remove")
     ELSE op # None =>
            op.pc \notin {"load", "attach", "attached", "serve", "archive"} \cup TeardownSteps

FirstInv == entry = 1 => FirstListener /\ FirstCore

\* ... and that listener has sent the open approvals to everybody except the
\* client whose resume it is answering.
Replayed ==
  LET me == listeners[1] IN
  /\ me.pc = "ask" => subs \subseteq me.to
  /\ me.pc # "replay" => me.pending = {}
  /\ \A r \in Open :
       /\ subs \subseteq asked[r] \cup (IF me.pc \in {"respond", "replay"} THEN {me.who} ELSE {})
       /\ me.pc = "replay" => r \in me.pending

ReplayInv == entry = 1 => Replayed

\* A client is told that an approval is over only when it will not be shown it
\* again ...
Over(r) == req[r].st \in {"resolved", "done"}

ToldInv == \A r \in Reqs : told[r] # {} => Over(r)

\* ... and everybody who shows it is told.
Retired == \A r \in Reqs : Over(r) => asked[r] \subseteq told[r] /\ r \notin listeners[1].pending

RetiredInv == entry = 1 => Retired

\* What an approval came to: one that was given up for another turn and is still
\* waited for was given up for a turn of another core thread.
ResultInv ==
  \A r \in Reqs : /\ req[r].st \in {"new", "queued", "open"} => req[r].by = 0
                  /\ req[r].blocks => req[r].by # req[r].conv

\* A core thread waits for an approval only within the turn that asked for it:
\* no turn starts or ends in its events behind the approval.
Waits(r, n) ==
  /\ convs[n].turn
  /\ \A j \in DOMAIN Events(n) : Events(n)[j] \in {"started", "ended"} =>
       \E i \in DOMAIN Events(n) : i > j /\ Events(n)[i] = r

BlocksInv == \A r \in Reqs : req[r].blocks => req[r].st # "new" /\ Waits(r, req[r].conv)

\* The inductive invariant.
IInv ==
  /\ TypeOK /\ MarkedHasNoSubscriber /\ AskInv /\ ChannelInv /\ CommandInv /\ GuardInv
  /\ FirstInv /\ ReplayInv /\ ToldInv /\ RetiredInv /\ ResultInv /\ BlocksInv
=============================================================================
