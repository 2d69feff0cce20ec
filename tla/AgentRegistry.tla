--------------------------- MODULE AgentRegistry ---------------------------
(***************************************************************************)
(* The registry of sub-agents that all agents of a user session share      *)
(* (codex-core agent/registry.rs), with the calls of AgentControl that use *)
(* it: spawn_agent and resume_agent_from_rollout reserve a slot, a path    *)
(* and a nickname, start the thread and commit; shutdown_live_agent ends a *)
(* thread, takes it out of the thread manager and then releases its slot.  *)
(* A step is one section under the registry's or the thread manager's      *)
(* lock, or one atomic operation on total_count.                           *)
(***************************************************************************)
EXTENDS Naturals, FiniteSets

CONSTANTS
  Workers,      \* concurrent spawn_agent / resume_agent calls
  Closers,      \* concurrent shutdown_live_agent calls
  Threads,      \* thread ids of sub-agents
  Root,         \* the root thread's id, and the key of its entry
  Paths,        \* agent paths a spawn may ask for
  Names,        \* the nickname candidates
  None,         \* no path, no thread, no nickname
  MaxThreads,   \* config.agent_max_threads
  MaxResets,    \* bound: nickname pool resets
  Resumable     \* threads of an earlier session

ASSUME RegistryAssumption ==
  /\ MaxThreads \in Nat /\ MaxResets \in Nat
  /\ IsFiniteSet(Workers) /\ IsFiniteSet(Closers) /\ IsFiniteSet(Paths) /\ IsFiniteSet(Threads)
  /\ Resumable \subseteq Threads
  /\ None \notin Threads \cup Paths \cup {Root}
  /\ Root \notin Threads \cup Paths
  /\ Threads \cap Paths = {}

\* An entry of agent_tree is stored under its path, or under its thread's id.
Keys == Paths \cup Threads \cup {Root}
KeyOf(path, id) == IF path = None THEN id ELSE path

Nicknames == Names \X (0 .. MaxResets)

VARIABLES
  count,    \* total_count
  tree,     \* agent_tree: key -> agent_id, None for a path reserved only
  keys,     \* the keys present in agent_tree
  nicks,    \* nickname of a registered key
  used,     \* used_agent_nicknames
  resets,   \* nickname_reset_count
  live,     \* the thread manager's threads
  dead,     \* the ones whose loop has ended: is_running is false
  born,     \* thread ids that exist: started now or in an earlier session
  call,     \* worker -> its spawn or resume
  closing,  \* closer -> [id, pc]
  resumed,  \* history: threads a resume was begun for
  leaked    \* history: commits that replaced an agent's entry by another

registry == <<count, tree, keys, nicks, used, resets>>
threads == <<live, dead, born>>
history == <<resumed, leaked>>
vars == <<registry, threads, call, closing, history>>

Idle == [pc |-> "idle", seen |-> 0, id |-> None, path |-> None, nick |-> None]

(* A SpawnReservation that has been neither committed nor dropped.          *)
Reserved(w) ==
  call[w].pc \in {"reserved", "named", "starting", "started", "resumed", "dropped"}

(* ... that has reserved the path it was asked for.                         *)
Named(w) == call[w].pc \in {"named", "starting", "started", "resumed"}

Calls == [pc : {"idle", "counting", "reserved", "named", "starting", "started",
                "resumed", "dropped"},
          seen : 0 .. MaxThreads, id : Threads \cup {None},
          path : Paths \cup {None}, nick : Nicknames \cup {None}]

TypeOK ==
  /\ count \in 0 .. MaxThreads
  /\ tree \in [Keys -> Threads \cup {None, Root}]
  /\ keys \subseteq Keys
  /\ nicks \in [Keys -> Nicknames \cup {None}]
  /\ used \subseteq Nicknames
  /\ resets \in 0 .. MaxResets
  /\ live \subseteq Threads \cup {Root}
  /\ dead \subseteq live
  /\ born \subseteq Threads
  /\ call \in [Workers -> Calls]
  /\ closing \in [Closers -> [pc : {"idle", "ended", "removed", "released"},
                             id : Threads \cup {Root, None}]]
  /\ resumed \subseteq Threads
  /\ leaked \in Nat

\* register_session_root has indexed the root thread.
Init ==
  /\ count = 0
  /\ tree = [k \in Keys |-> IF k = Root THEN Root ELSE None]
  /\ keys = {Root}
  /\ nicks = [k \in Keys |-> None]
  /\ used = {} /\ resets = 0
  /\ live = {Root} /\ dead = {} /\ born = Resumable
  /\ call = [w \in Workers |-> Idle]
  /\ closing = [c \in Closers |-> [pc |-> "idle", id |-> None]]
  /\ resumed = {} /\ leaked = 0

-----------------------------------------------------------------------------
Unregistered == <<tree, keys, nicks, used, resets>>

(* spawn_agent (no id yet), or the resume of an agent that the thread       *)
(* manager does not know: try_increment_spawned loads the count.            *)
BeginCall(w, id, path) ==
  /\ call[w].pc = "idle"
  /\ id # None => id \in born \ live
  /\ call' = [call EXCEPT ![w] = [Idle EXCEPT !.pc = "counting", !.seen = count,
                                              !.id = id, !.path = path]]
  /\ resumed' = resumed \cup ({id} \ {None})
  /\ UNCHANGED <<registry, threads, closing, leaked>>

\* Mutant: the limit is checked on the loaded count, then the count is added to.
ReserveSlotUnsynchronised(w) ==
  /\ call[w].pc = "counting"
  /\ \/ /\ call[w].seen >= MaxThreads
        /\ call' = [call EXCEPT ![w] = Idle]
        /\ UNCHANGED count
     \/ /\ call[w].seen < MaxThreads
        /\ count' = count + 1
        /\ call' = [call EXCEPT ![w].pc = "reserved", ![w].seen = 0]
  /\ UNCHANGED <<Unregistered, threads, closing, history>>

(* ... and compares and exchanges it until it wins or the limit is reached. *)
ReserveSlot(w) ==
  /\ call[w].pc = "counting"
  /\ \/ /\ call[w].seen >= MaxThreads
        /\ call' = [call EXCEPT ![w] = Idle]
        /\ UNCHANGED count
     \/ /\ call[w].seen < MaxThreads /\ call[w].seen = count
        /\ count' = count + 1
        /\ call' = [call EXCEPT ![w].pc = "reserved", ![w].seen = 0]
     \/ /\ call[w].seen < MaxThreads /\ call[w].seen # count
        /\ call' = [call EXCEPT ![w].seen = count]
        /\ UNCHANGED count
  /\ UNCHANGED <<Unregistered, threads, closing, history>>

(* The reservation is dropped: its path is released, if no thread was       *)
(* registered under it, and then its slot (ReturnSlot).                     *)
Drop(w) ==
  /\ keys' = IF Named(w) /\ call[w].path \in keys /\ tree[call[w].path] = None
             THEN keys \ {call[w].path} ELSE keys
  /\ call' = [call EXCEPT ![w] = [Idle EXCEPT !.pc = "dropped"]]

ReturnSlot(w) ==
  /\ call[w].pc = "dropped"
  /\ count' = count - 1
  /\ call' = [call EXCEPT ![w] = Idle]
  /\ UNCHANGED <<Unregistered, threads, closing, history>>

(* prepare_thread_spawn: index the root of a first-level agent, reserve the *)
(* path, pick a nickname.  A taken path is an error.                        *)
PathTaken(w) ==
  /\ call[w].pc = "reserved" /\ call[w].path \in keys
  /\ \E topLevel \in BOOLEAN :
       /\ keys' = IF topLevel THEN keys \cup {Root} ELSE keys
       /\ tree' = IF topLevel THEN [tree EXCEPT ![Root] = Root] ELSE tree
  /\ call' = [call EXCEPT ![w] = [Idle EXCEPT !.pc = "dropped"]]
  /\ UNCHANGED <<count, nicks, used, resets, threads, closing, history>>

\* Mutant: a pool reset forgets to start new ordinals.
PickNicknameNoOrdinal(n, hadOne) ==
  LET free == {x \in Names : <<x, resets>> \notin used} IN
  /\ n \in Names \X {resets}
  /\ free # {} => n \notin used
  /\ used' = IF free = {} THEN {n} ELSE used \cup {n}
  /\ UNCHANGED resets

\* reserve_agent_nickname: the one a resumed thread had, an unused candidate,
\* or any candidate after a pool reset.
PickNickname(n, hadOne) ==
  LET free == {x \in Names : <<x, resets>> \notin used} IN
  \/ /\ hadOne
     /\ used' = used \cup {n}
     /\ UNCHANGED resets
  \/ /\ free # {}
     /\ n \in free \X {resets}
     /\ used' = used \cup {n}
     /\ UNCHANGED resets
  \/ /\ free = {} /\ resets < MaxResets
     /\ resets' = resets + 1
     /\ n \in Names \X {resets + 1}
     /\ used' = {n}

\* Mutant: a path is free unless a thread is registered under it.
PrepareIgnoresReservations(w) ==
  /\ call[w].pc = "reserved" /\ (call[w].path \in keys => tree[call[w].path] = None)
  /\ keys' = keys \cup ({call[w].path} \ {None})
  /\ \E n \in Nicknames :
       /\ PickNickname(n, call[w].id # None)
       /\ call' = [call EXCEPT ![w].pc = "named", ![w].nick = n]
  /\ UNCHANGED <<count, tree, nicks, threads, closing, history>>

\* The path is free: reserve it, and a nickname.
Prepare(w) ==
  /\ call[w].pc = "reserved" /\ call[w].path \notin keys
  /\ \E topLevel \in BOOLEAN :
       /\ keys' = keys \cup (IF topLevel THEN {Root} ELSE {}) \cup ({call[w].path} \ {None})
       /\ tree' = IF topLevel THEN [tree EXCEPT ![Root] = Root] ELSE tree
  /\ \E n \in Nicknames :
       /\ PickNickname(n, call[w].id # None)
       /\ call' = [call EXCEPT ![w].pc = "named", ![w].nick = n]
  /\ UNCHANGED <<count, nicks, threads, closing, history>>

(* spawn_thread_with_source, for a resume: a thread that has ended is taken *)
(* out of the manager; one that runs is returned as if it had been started. *)
ResumeChecks(w) ==
  /\ call[w].pc = "named" /\ call[w].id # None
  /\ LET t == call[w].id
         runs == t \in live \ dead IN
       /\ live' = IF runs THEN live ELSE live \ {t}
       /\ dead' = dead \ {t}
       /\ call' = [call EXCEPT ![w].pc = IF runs THEN "started" ELSE "starting"]
  /\ UNCHANGED <<registry, born, closing, history>>

(* finalize_thread_spawn adds the new thread to the thread manager, unless  *)
(* the manager has a thread of that id (GiveUp).  A resumed one awaits more *)
(* before its reservation is committed.                                     *)
StartThread(w) ==
  /\ \E t \in Threads :
       /\ \/ /\ call[w].pc = "named" /\ call[w].id = None /\ t \notin born
             /\ call' = [call EXCEPT ![w].pc = "started", ![w].id = t]
          \/ /\ call[w].pc = "starting" /\ t = call[w].id /\ t \notin live
             /\ call' = [call EXCEPT ![w].pc = "resumed"]
       /\ live' = live \cup {t} /\ born' = born \cup {t}
  /\ UNCHANGED <<registry, dead, closing, history>>

(* An error returns early (the thread does not start, or runs already), or  *)
(* the tool call is abandoned at an await: the reservation is dropped, the  *)
(* nickname stays used, a thread in the manager stays there.                *)
GiveUp(w) ==
  /\ call[w].pc \in {"reserved", "named", "starting", "resumed"}
  /\ Drop(w)
  /\ UNCHANGED <<count, tree, nicks, used, resets, threads, closing, history>>

\* Mutant: the reservation is dropped as well after it was committed.
CommitAndDrop(w) ==
  /\ call[w].pc \in {"started", "resumed"}
  /\ LET k == KeyOf(call[w].path, call[w].id) IN
       /\ leaked' = IF tree[k] = None THEN leaked ELSE leaked + 1
       /\ tree' = [tree EXCEPT ![k] = call[w].id]
       /\ keys' = keys \cup {k}
       /\ nicks' = [nicks EXCEPT ![k] = call[w].nick]
  /\ used' = used \cup {call[w].nick}
  /\ call' = [call EXCEPT ![w] = [Idle EXCEPT !.pc = "dropped"]]
  /\ UNCHANGED <<count, resets, threads, closing, resumed>>

(* commit: register_spawned_thread puts the agent into the tree.  An entry  *)
(* that was there is overwritten, and no one will return its slot.          *)
Commit(w) ==
  /\ call[w].pc \in {"started", "resumed"}
  /\ LET k == KeyOf(call[w].path, call[w].id) IN
       /\ leaked' = IF tree[k] = None THEN leaked ELSE leaked + 1
       /\ tree' = [tree EXCEPT ![k] = call[w].id]
       /\ keys' = keys \cup {k}
       /\ nicks' = [nicks EXCEPT ![k] = call[w].nick]
  /\ used' = used \cup {call[w].nick}
  /\ call' = [call EXCEPT ![w] = Idle]
  /\ UNCHANGED <<count, resets, threads, closing, resumed>>

(* shutdown_live_agent waits until the thread, if there is one, has ended;  *)
(* or a request finds that the agent died.                                  *)
ShutdownThread(c, t) ==
  /\ closing[c].pc = "idle"
  /\ dead' = dead \cup ({t} \cap live)
  /\ closing' = [closing EXCEPT ![c] = [pc |-> "ended", id |-> t]]
  /\ UNCHANGED <<registry, live, born, call, history>>

(* The call is abandoned while it waits: the ended thread stays.            *)
AbandonClose(c) ==
  /\ closing[c].pc = "ended"
  /\ closing' = [closing EXCEPT ![c] = [pc |-> "idle", id |-> None]]
  /\ UNCHANGED <<registry, threads, call, history>>

\* Mutant: the entry is released before the thread is removed.
RemoveThreadLast(c) ==
  /\ closing[c].pc = "ended"
  /\ closing' = [closing EXCEPT ![c].pc = "removed"]
  /\ UNCHANGED <<registry, threads, call, history>>

(* remove_thread takes out whatever thread has the id by now.               *)
RemoveThread(c) ==
  /\ closing[c].pc = "ended"
  /\ live' = live \ {closing[c].id} /\ dead' = dead \ {closing[c].id}
  /\ closing' = [closing EXCEPT ![c].pc = "removed"]
  /\ UNCHANGED <<registry, born, call, history>>

(* release_spawned_thread: an entry of the thread is taken out of the tree, *)
(* and then, if it was not the root's, its slot is given back.              *)
ReleaseThread(c) ==
  /\ closing[c].pc = "removed"
  /\ \/ \E k \in keys :
          /\ tree[k] = closing[c].id
          /\ keys' = keys \ {k}
          /\ tree' = [tree EXCEPT ![k] = None]
          /\ nicks' = [nicks EXCEPT ![k] = None]
          /\ closing' = [closing EXCEPT ![c] =
                IF k = Root THEN [pc |-> "idle", id |-> None]
                            ELSE [pc |-> "released", id |-> None]]
     \/ /\ \A k \in keys : tree[k] # closing[c].id
        /\ closing' = [closing EXCEPT ![c] = [pc |-> "idle", id |-> None]]
        /\ UNCHANGED <<keys, tree, nicks>>
  /\ UNCHANGED <<count, used, resets, threads, call, history>>

ReleaseSlot(c) ==
  /\ closing[c].pc = "released"
  /\ count' = count - 1
  /\ closing' = [closing EXCEPT ![c] = [pc |-> "idle", id |-> None]]
  /\ UNCHANGED <<Unregistered, threads, call, history>>

WorkerStep(w) ==
  \/ \E path \in Paths \cup {None} : BeginCall(w, None, path)
  \/ \E id \in Threads : BeginCall(w, id, None)
  \/ ReserveSlot(w) \/ PathTaken(w) \/ Prepare(w)
  \/ ResumeChecks(w) \/ StartThread(w) \/ Commit(w)
  \/ GiveUp(w) \/ ReturnSlot(w)

CloserStep(c) ==
  \/ \E t \in born \cup {Root} : ShutdownThread(c, t)
  \/ AbandonClose(c) \/ RemoveThread(c) \/ ReleaseThread(c) \/ ReleaseSlot(c)

Next ==
  \/ \E w \in Workers : WorkerStep(w)
  \/ \E c \in Closers : CloserStep(c)

Spec == Init /\ [][Next]_vars

-----------------------------------------------------------------------------
(* What the registry promises.                                               *)

(* Registered sub-agents, whose slots release_spawned_thread will return.   *)
Counted == {k \in keys \ {Root} : tree[k] # None}

Holders == {w \in Workers : Reserved(w)}

(* Closes that took an agent out of the tree and still owe its slot.        *)
Owing == {c \in Closers : closing[c].pc = "released"}

(* Every slot that is taken has one owner that will return it: an open      *)
(* reservation, a registered agent, or a close about to do so.  So no       *)
(* fetch_sub wraps total_count below zero, and a slot is lost only when a   *)
(* commit overwrites the entry of an agent, which takes a resume.           *)
SlotsAccounted ==
  /\ count = Cardinality(Holders) + Cardinality(Counted) + Cardinality(Owing) + leaked
  /\ leaked > 0 => resumed # {}

(* A path an open reservation holds is held by no other one, and no thread  *)
(* is registered under it.                                                  *)
PathsExclusive ==
  \A w \in Workers : Named(w) /\ call[w].path # None =>
    /\ call[w].path \in keys /\ tree[call[w].path] = None
    /\ \A v \in Workers : Named(v) /\ call[v].path = call[w].path => v = w

(* No two agents spawned in this session have the same nickname while both  *)
(* are registered (a resumed agent keeps the one it had).                   *)
NicknamesUnique ==
  \A j, k \in Counted :
    {tree[j], tree[k]} \cap resumed = {} /\ nicks[j] = nicks[k] => j = k

(* "limits: Total number of sub-agents": a thread that no one has begun to  *)
(* resume runs only while an entry, or the call that started it, holds a    *)
(* slot for it (a resumed one may be released by the close of its old self, *)
(* or lose its reservation when its resume is abandoned).                   *)
LiveIsCounted ==
  \A t \in live \ ({Root} \cup resumed) :
    \/ \E k \in Counted : tree[k] = t
    \/ \E w \in Workers : call[w].pc = "started" /\ call[w].id = t

(* What makes SlotsAccounted inductive: keys that are not in the tree name no *)
(* thread, and a call or a close knows its thread once it acts on it.       *)
CleanTree == \A k \in Keys \ keys : tree[k] = None

CallsKnow ==
  \A w \in Workers :
    /\ Named(w) => call[w].nick \in Nicknames
    /\ call[w].pc \in {"starting", "started", "resumed"} => call[w].id # None

ClosersKnow ==
  \A c \in Closers : closing[c].pc \in {"ended", "removed"} => closing[c].id # None

Accounts == count = Cardinality(Holders) + Cardinality(Counted) + Cardinality(Owing) + leaked

IInv == TypeOK /\ Accounts /\ CleanTree /\ CallsKnow /\ ClosersKnow

(* What makes LiveIsCounted inductive: a thread that runs or has an entry   *)
(* exists, an entry stored under a thread's id names that thread, the       *)
(* thread a close has removed runs again only if it is resumed, and a call  *)
(* that knows its thread before it started it resumes one.                  *)
ThreadsKnown ==
  /\ live \subseteq born \cup {Root} /\ resumed \subseteq born
  /\ tree[Root] \in {Root, None}
  /\ \A k \in Keys \ {Root} : tree[k] \in born \cup {None}
  /\ \A k \in Threads : tree[k] \in {k, None}
  /\ \A c \in Closers : closing[c].pc \in {"ended", "removed"} =>
       closing[c].id \in born \cup {Root}
  /\ \A c \in Closers : closing[c].pc = "removed" =>
       closing[c].id \notin live \ ({Root} \cup resumed)
  /\ \A w \in Workers : call[w].id \in born \cup {None}
  /\ \A w \in Workers : call[w].pc \notin {"idle", "started"} =>
       call[w].id \in resumed \cup {None}

(* What makes the second part of SlotsAccounted inductive: a thread no one  *)
(* has begun to resume is started by one call, and not registered before it.*)
StartedOnce ==
  /\ \A w \in Workers : call[w].pc = "started" /\ call[w].id \notin resumed =>
       /\ \A k \in Keys : tree[k] # call[w].id
       /\ \A v \in Workers : call[v].id = call[w].id => v = w
  /\ leaked > 0 => resumed # {}

LiveInv == IInv /\ PathsExclusive /\ ThreadsKnown /\ LiveIsCounted /\ StartedOnce

(* What makes NicknamesUnique inductive: nicknames given out in this session *)
(* are of the current pool generation only if the pool remembers them, and   *)
(* calls in flight count like the entries they will make.                    *)
GivenOut(n) == /\ n \in Nicknames /\ n[2] <= resets
               /\ n[2] = resets => n \in used

Own == {k \in Counted : tree[k] \notin resumed}
Spawning == {w \in Workers : Named(w) /\ call[w].id \notin resumed}

NicknamesApart ==
  /\ \A k \in Own : GivenOut(nicks[k])
  /\ \A w \in Spawning : GivenOut(call[w].nick)
  /\ \A j, k \in Own : nicks[j] = nicks[k] => j = k
  /\ \A v, w \in Spawning : call[v].nick = call[w].nick => v = w
  /\ \A w \in Spawning, k \in Own : call[w].nick # nicks[k]

NameInv == IInv /\ ThreadsKnown /\ NicknamesApart
=============================================================================
