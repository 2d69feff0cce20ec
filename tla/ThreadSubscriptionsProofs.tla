--------------------- MODULE ThreadSubscriptionsProofs ---------------------
(* Proofs about ThreadSubscriptions, for any connections, approvals, turns,  *)
(* reloads and client requests: its types, who may be subscribed to a thread *)
(* that is marked for unloading, who is shown an approval and who is told of *)
(* its end, and which answers are withheld.                                  *)
EXTENDS ThreadSubscriptions, FiniteSetTheorems, TLAPS

(* What the constants are.                                                   *)
LEMMA Constants ==
  /\ MaxObjects \in Nat /\ MaxObjects >= 1 /\ MaxLoads \in Nat /\ MaxLoads >= 1
  /\ MaxTurns \in Nat /\ IsFiniteSet(Reqs) /\ Cardinality(Reqs) \in Nat
  /\ Starter \in Conns /\ None \notin Conns /\ None \notin Reqs /\ Reqs \cap Words = {}
  /\ None \notin OpRecs
BY SubscriptionAssumption, FS_CardinalityType

(* Replacing one element of a sequence.                                      *)
LEMMA Updated ==
  ASSUME NEW S, NEW s \in Seq(S), NEW i \in DOMAIN s, NEW v \in S
  PROVE  /\ [s EXCEPT ![i] = v] \in Seq(S) /\ DOMAIN [s EXCEPT ![i] = v] = DOMAIN s
         /\ Len([s EXCEPT ![i] = v]) = Len(s) /\ [s EXCEPT ![i] = v][i] = v
         /\ \A j \in DOMAIN s : j # i => [s EXCEPT ![i] = v][j] = s[j]
<1>1. Len(s) \in Nat /\ DOMAIN s = 1 .. Len(s) /\ s \in [1 .. Len(s) -> S]
  OBVIOUS
<1>2. [s EXCEPT ![i] = v] \in [1 .. Len(s) -> S]
  BY <1>1
<1>3. [s EXCEPT ![i] = v] \in Seq(S)
  BY <1>1, <1>2
<1>4. Len([s EXCEPT ![i] = v]) = Len(s)
  BY <1>1, <1>2, <1>3
<1> QED
  BY <1>1, <1>2, <1>3, <1>4

(* Appending an element to a sequence.                                       *)
LEMMA Appended ==
  ASSUME NEW S, NEW s \in Seq(S), NEW v \in S
  PROVE  /\ Append(s, v) \in Seq(S) /\ Len(s) \in Nat /\ Len(Append(s, v)) = Len(s) + 1
         /\ DOMAIN s = 1 .. Len(s) /\ DOMAIN Append(s, v) = 1 .. (Len(s) + 1)
         /\ Append(s, v)[Len(s) + 1] = v
         /\ \A j \in DOMAIN s : Append(s, v)[j] = s[j]
  OBVIOUS

(* Taking the first element off a sequence.                                  *)
LEMMA HeadOff ==
  ASSUME NEW S, NEW s \in Seq(S), s # <<>>
  PROVE  /\ Head(s) \in S /\ Head(s) = s[1] /\ 1 \in DOMAIN s /\ Tail(s) \in Seq(S)
         /\ \A j \in DOMAIN Tail(s) : j + 1 \in DOMAIN s /\ Tail(s)[j] = s[j + 1]
         /\ \A j \in DOMAIN s : j # 1 => j - 1 \in DOMAIN Tail(s) /\ Tail(s)[j - 1] = s[j]
         /\ DOMAIN s \subseteq Nat /\ DOMAIN Tail(s) \subseteq Nat
  OBVIOUS

(* A listener and its fields.                                                *)
LEMMA ListenerFields ==
  ASSUME ListenerTypes, NEW l \in DOMAIN listeners
  PROVE  /\ listeners[l] \in ListenerRecs /\ listeners[l].obj \in Objects
         /\ listeners[l].cmds \in Seq(Commands) /\ listeners[l].cancelled \in BOOLEAN
         /\ listeners[l].who \in Conns \cup {None} /\ listeners[l].hand \in Reqs \cup {None}
         /\ listeners[l].to \subseteq Conns /\ listeners[l].pending \subseteq Reqs
         /\ ConvOf(l) \in DOMAIN convs /\ ConvOf(l) \in Nat /\ l \in 1 .. Len(listeners) /\ Len(listeners) \in Nat
<1>1. listeners[l] \in ListenerRecs /\ l \in 1 .. Len(listeners) /\ Len(listeners) \in Nat
  BY DEF ListenerTypes
<1> QED
  BY <1>1 DEF ListenerTypes, ListenerRecs, ConvOf

(* One listener moves on to another step, the others are as they were.      *)
Becomes(l, p) ==
  /\ listeners' \in Seq(ListenerRecs) /\ DOMAIN listeners' = DOMAIN listeners
  /\ Len(listeners') = Len(listeners)
  /\ listeners'[l].pc = p
  /\ listeners'[l].obj = listeners[l].obj /\ listeners'[l].conv = listeners[l].conv
  /\ listeners'[l].watch = listeners[l].watch
  /\ p # "ended" => listeners'[l].cancelled = listeners[l].cancelled
  /\ \A k \in DOMAIN listeners : k # l => listeners'[k] = listeners[k]

(* The fields that a listener sets.                                          *)
Holds(l, cmds, who, hand, to, pending) ==
  /\ listeners'[l].cmds = cmds /\ listeners'[l].who = who /\ listeners'[l].hand = hand
  /\ listeners'[l].to = to /\ listeners'[l].pending = pending

(* Set moves one listener on.                                                *)
LEMMA SetOne ==
  ASSUME ListenerTypes, NEW l \in DOMAIN listeners, NEW rec \in ListenerRecs, Set(l, rec),
         rec.obj = listeners[l].obj, rec.conv = listeners[l].conv,
         rec.watch = listeners[l].watch,
         rec.pc # "ended" => rec.cancelled = listeners[l].cancelled
  PROVE  Becomes(l, rec.pc) /\ Holds(l, rec.cmds, rec.who, rec.hand, rec.to, rec.pending)
<1>1. listeners \in Seq(ListenerRecs) /\ listeners' = [listeners EXCEPT ![l] = rec]
  BY DEF ListenerTypes, Set
<1> QED
  BY <1>1, Updated DEF Becomes, Holds

(* What each step of a listener does to it.                                  *)
LEMMA StopSets ==
  ASSUME ListenerTypes, NEW l \in DOMAIN listeners, Stop(l)
  PROVE  LET me == listeners[l] IN
         Becomes(l, "ended") /\ Holds(l, <<>>, me.who, me.hand, me.to, me.pending)
<1> DEFINE rec == [listeners[l] EXCEPT !.pc = "ended", !.cmds = <<>>, !.cancelled = TRUE]
<1>1. Set(l, rec)
  BY DEF Stop, Leaves
<1>2. <<>> \in Seq(Commands)
  OBVIOUS
<1>3. /\ rec \in ListenerRecs /\ rec.obj = listeners[l].obj /\ rec.conv = listeners[l].conv
      /\ rec.watch = listeners[l].watch
      /\ rec.pc = "ended" /\ rec.cmds = <<>> /\ rec.who = listeners[l].who
      /\ rec.hand = listeners[l].hand /\ rec.to = listeners[l].to
      /\ rec.pending = listeners[l].pending
  BY <1>2, ListenerFields DEF ListenerRecs
<1> HIDE DEF rec
<1> QED
  BY <1>1, <1>3, SetOne

(* The commands of a listener.                                               *)
LEMMA FirstCommand ==
  ASSUME ListenerTypes, NEW l \in DOMAIN listeners, Ready(l), ~ Quiet(l)
  PROVE  /\ listeners[l].cmds # <<>> /\ Head(listeners[l].cmds) = listeners[l].cmds[1]
         /\ Tail(listeners[l].cmds) \in Seq(Commands)
         /\ Head(listeners[l].cmds) \in Commands
         /\ Head(listeners[l].cmds)[1] = "resume" => Head(listeners[l].cmds)[2] \in Conns
         /\ Head(listeners[l].cmds)[1] = "resolve" => Head(listeners[l].cmds)[2] \in Reqs
<1>1. listeners[l].cmds # <<>>
  BY DEF Quiet
<1>2. Head(listeners[l].cmds) \in Commands /\ Head(listeners[l].cmds) = listeners[l].cmds[1]
      /\ Tail(listeners[l].cmds) \in Seq(Commands)
  BY <1>1, HeadOff, ListenerFields
<1>3. ASSUME NEW cmd \in Commands
      PROVE  /\ cmd[1] = "resume" => cmd[2] \in Conns
             /\ cmd[1] = "resolve" => cmd[2] \in Reqs
  BY DEF Commands
<1> QED
  BY <1>1, <1>2, <1>3

(* A resume taken from the channel: refused, or the listener answers it.     *)
LEMMA ResumeCommandSets ==
  ASSUME ListenerTypes, NEW l \in DOMAIN listeners, ResumeCommand(l)
  PROVE  LET me == listeners[l]
             c  == Head(me.cmds)[2]
         IN /\ c \in Conns
            /\ IF unloading \/ c \notin live
               THEN Becomes(l, "loop") /\ Holds(l, Tail(me.cmds), me.who, me.hand, me.to, me.pending)
               ELSE Becomes(l, "respond") /\ Holds(l, Tail(me.cmds), c, me.hand, me.to, me.pending)
<1> DEFINE c    == Head(listeners[l].cmds)[2]
           rec  == [listeners[l] EXCEPT !.cmds = Tail(@)]
           rec2 == [rec EXCEPT !.pc = "respond", !.who = c]
<1>1. c \in Conns /\ Tail(listeners[l].cmds) \in Seq(Commands) /\ listeners[l].pc = "loop"
  BY FirstCommand DEF ResumeCommand, Ready
<1>2. /\ rec \in ListenerRecs /\ rec.obj = listeners[l].obj /\ rec.conv = listeners[l].conv
      /\ rec.watch = listeners[l].watch /\ rec.cancelled = listeners[l].cancelled
      /\ rec.pc = "loop" /\ rec.cmds = Tail(listeners[l].cmds) /\ rec.who = listeners[l].who
      /\ rec.hand = listeners[l].hand /\ rec.to = listeners[l].to
      /\ rec.pending = listeners[l].pending
  BY <1>1, ListenerFields DEF ListenerRecs
<1>3. /\ rec2 \in ListenerRecs /\ rec2.obj = listeners[l].obj /\ rec2.conv = listeners[l].conv
      /\ rec2.watch = listeners[l].watch /\ rec2.cancelled = listeners[l].cancelled
      /\ rec2.pc = "respond" /\ rec2.cmds = Tail(listeners[l].cmds) /\ rec2.who = c
      /\ rec2.hand = listeners[l].hand /\ rec2.to = listeners[l].to
      /\ rec2.pending = listeners[l].pending
  BY <1>1, ListenerFields DEF ListenerRecs
<1>4. IF unloading \/ c \notin live THEN Set(l, rec) ELSE Set(l, rec2)
  BY DEF ResumeCommand
<1> HIDE DEF rec, rec2
<1>5. CASE unloading \/ c \notin live
  BY <1>1, <1>2, <1>4, <1>5, SetOne
<1>6. CASE ~ (unloading \/ c \notin live)
  BY <1>1, <1>3, <1>4, <1>6, SetOne
<1> QED
  BY <1>1, <1>5, <1>6

(* The listener answers and notes what it will replay.                       *)
LEMMA RespondSets ==
  ASSUME ListenerTypes, NEW l \in DOMAIN listeners, Respond(l)
  PROVE  LET me == listeners[l] IN
         Becomes(l, "replay") /\ Holds(l, me.cmds, me.who, me.hand, me.to, Open)
<1> DEFINE rec == [listeners[l] EXCEPT !.pc = "replay", !.pending = Open]
<1>1. Set(l, rec)
  BY DEF Respond
<1>2. Open \subseteq Reqs
  BY DEF Open
<1>3. /\ rec \in ListenerRecs /\ rec.obj = listeners[l].obj /\ rec.conv = listeners[l].conv
      /\ rec.watch = listeners[l].watch /\ rec.cancelled = listeners[l].cancelled
      /\ rec.pc = "replay" /\ rec.cmds = listeners[l].cmds /\ rec.who = listeners[l].who
      /\ rec.hand = listeners[l].hand /\ rec.to = listeners[l].to /\ rec.pending = Open
  BY <1>2, ListenerFields DEF ListenerRecs
<1> HIDE DEF rec
<1> QED
  BY <1>1, <1>3, SetOne

(* The listener has replayed what it noted.                                  *)
LEMMA ReplaySets ==
  ASSUME ListenerTypes, NEW l \in DOMAIN listeners, Replay(l)
  PROVE  LET me == listeners[l] IN
         Becomes(l, "loop") /\ Holds(l, me.cmds, None, me.hand, me.to, {})
<1> DEFINE rec == [listeners[l] EXCEPT !.pc = "loop", !.pending = {}, !.who = None]
<1>1. Set(l, rec)
  BY DEF Replay
<1>2. None \in Conns \cup {None} /\ {} \subseteq Reqs
  OBVIOUS
<1>3. /\ rec \in ListenerRecs /\ rec.obj = listeners[l].obj /\ rec.conv = listeners[l].conv
      /\ rec.watch = listeners[l].watch /\ rec.cancelled = listeners[l].cancelled
      /\ rec.pc = "loop" /\ rec.cmds = listeners[l].cmds /\ rec.who = None
      /\ rec.hand = listeners[l].hand /\ rec.to = listeners[l].to /\ rec.pending = {}
  BY <1>2, ListenerFields DEF ListenerRecs
<1> HIDE DEF rec
<1> QED
  BY <1>1, <1>3, SetOne

(* A resolution taken from the channel.                                      *)
LEMMA ResolveCommandSets ==
  ASSUME ListenerTypes, NEW l \in DOMAIN listeners, ResolveCommand(l)
  PROVE  LET me == listeners[l] IN
         Becomes(l, "loop") /\ Holds(l, Tail(me.cmds), me.who, me.hand, me.to, me.pending)
<1> DEFINE rec == [listeners[l] EXCEPT !.cmds = Tail(@)]
<1>1. Set(l, rec)
  BY DEF ResolveCommand
<1>2. Tail(listeners[l].cmds) \in Seq(Commands) /\ listeners[l].pc = "loop"
  BY FirstCommand DEF ResolveCommand, Ready
<1>3. /\ rec \in ListenerRecs /\ rec.obj = listeners[l].obj /\ rec.conv = listeners[l].conv
      /\ rec.watch = listeners[l].watch /\ rec.cancelled = listeners[l].cancelled
      /\ rec.pc = "loop" /\ rec.cmds = Tail(listeners[l].cmds) /\ rec.who = listeners[l].who
      /\ rec.hand = listeners[l].hand /\ rec.to = listeners[l].to /\ rec.pending = listeners[l].pending
  BY <1>2, ListenerFields DEF ListenerRecs
<1> HIDE DEF rec
<1> QED
  BY <1>1, <1>3, SetOne

(* The listener has sent the approval it had in hand.                        *)
LEMMA AskSets ==
  ASSUME ListenerTypes, NEW l \in DOMAIN listeners, Ask(l)
  PROVE  LET me == listeners[l] IN
         Becomes(l, "loop") /\ Holds(l, me.cmds, me.who, None, {}, me.pending)
<1> DEFINE rec == [listeners[l] EXCEPT !.pc = "loop", !.hand = None, !.to = {}]
<1>1. Set(l, rec)
  BY DEF Ask
<1>2. None \in Reqs \cup {None} /\ {} \subseteq Conns
  OBVIOUS
<1>3. /\ rec \in ListenerRecs /\ rec.obj = listeners[l].obj /\ rec.conv = listeners[l].conv
      /\ rec.watch = listeners[l].watch /\ rec.cancelled = listeners[l].cancelled
      /\ rec.pc = "loop" /\ rec.cmds = listeners[l].cmds /\ rec.who = listeners[l].who
      /\ rec.hand = None /\ rec.to = {} /\ rec.pending = listeners[l].pending
  BY <1>2, ListenerFields DEF ListenerRecs
<1> HIDE DEF rec
<1> QED
  BY <1>1, <1>3, SetOne

(* The listener goes to look whether the thread may be unloaded.             *)
LEMMA UnloadTriggerSets ==
  ASSUME ListenerTypes, NEW l \in DOMAIN listeners, UnloadTrigger(l)
  PROVE  LET me == listeners[l] IN
         Becomes(l, "check") /\ Holds(l, me.cmds, me.who, me.hand, me.to, me.pending)
<1> DEFINE rec == [listeners[l] EXCEPT !.pc = "check"]
<1>1. Set(l, rec)
  BY DEF UnloadTrigger
<1>3. /\ rec \in ListenerRecs /\ rec.obj = listeners[l].obj /\ rec.conv = listeners[l].conv
      /\ rec.watch = listeners[l].watch /\ rec.cancelled = listeners[l].cancelled
      /\ rec.pc = "check" /\ rec.cmds = listeners[l].cmds /\ rec.who = listeners[l].who
      /\ rec.hand = listeners[l].hand /\ rec.to = listeners[l].to /\ rec.pending = listeners[l].pending
  BY ListenerFields DEF ListenerRecs
<1> HIDE DEF rec
<1> QED
  BY <1>1, <1>3, SetOne

(* It marks the thread, or goes on.                                          *)
LEMMA MarkUnloadSets ==
  ASSUME ListenerTypes, NEW l \in DOMAIN listeners, MarkUnload(l)
  PROVE  LET me == listeners[l] IN
         /\ Becomes(l, IF ShouldUnload(l) THEN "unload" ELSE "loop")
         /\ Holds(l, me.cmds, me.who, me.hand, me.to, me.pending)
<1> DEFINE p   == IF ShouldUnload(l) THEN "unload" ELSE "loop"
           rec == [listeners[l] EXCEPT !.pc = p]
<1>1. Set(l, rec)
  BY DEF MarkUnload
<1>2. p \in {"unload", "loop"}
  OBVIOUS
<1> HIDE DEF p
<1>3. /\ rec \in ListenerRecs /\ rec.obj = listeners[l].obj /\ rec.conv = listeners[l].conv
      /\ rec.watch = listeners[l].watch /\ rec.cancelled = listeners[l].cancelled
      /\ rec.pc = p /\ rec.cmds = listeners[l].cmds /\ rec.who = listeners[l].who
      /\ rec.hand = listeners[l].hand /\ rec.to = listeners[l].to
      /\ rec.pending = listeners[l].pending
  BY <1>2, ListenerFields DEF ListenerRecs
<1> HIDE DEF rec
<1>4. Becomes(l, p) /\ Holds(l, listeners[l].cmds, listeners[l].who, listeners[l].hand,
                              listeners[l].to, listeners[l].pending)
  BY <1>1, <1>3, SetOne
<1> QED
  BY <1>4 DEF p

(* The event a listener takes.                                               *)
LEMMA NextEvent ==
  ASSUME ListenerTypes, CoreTypes, NEW l \in DOMAIN listeners, HasEvent(l)
  PROVE  /\ ConvOf(l) \in DOMAIN convs /\ convs[ConvOf(l)] \in ConvRecs
         /\ Events(ConvOf(l)) \in Seq(Reqs \cup Words) /\ Events(ConvOf(l)) # <<>>
         /\ Head(Events(ConvOf(l))) \in Reqs \cup Words
         /\ Tail(Events(ConvOf(l))) \in Seq(Reqs \cup Words)
<1>1. ConvOf(l) \in DOMAIN convs /\ convs[ConvOf(l)] \in ConvRecs
  BY ListenerFields DEF CoreTypes
<1>2. Events(ConvOf(l)) \in Seq(Reqs \cup Words) /\ Events(ConvOf(l)) # <<>>
  BY <1>1 DEF ConvRecs, HasEvent, ConvOf, Events
<1> QED
  BY <1>1, <1>2, HeadOff

(* An approval is taken in hand, another event leaves the listener as it is. *)
LEMMA TakeEventSets ==
  ASSUME ListenerTypes, CoreTypes, SubscriberTypes, NEW l \in DOMAIN listeners, TakeEvent(l)
  PROVE  LET me == listeners[l]
             e  == Head(Events(ConvOf(l)))
         IN IF e \in Reqs
            THEN Becomes(l, "ask") /\ Holds(l, me.cmds, me.who, e, subs, me.pending)
            ELSE listeners' = listeners
<1> DEFINE e   == Head(Events(ConvOf(l)))
           rec == [listeners[l] EXCEPT !.pc = "ask", !.hand = e, !.to = subs]
<1>1. IF e \in Reqs THEN Set(l, rec) ELSE listeners' = listeners
  BY DEF TakeEvent, Events
<1>2. CASE e \in Reqs
  <2>1. subs \subseteq Conns
    BY DEF SubscriberTypes
  <2>2. e \in Reqs
    BY <1>2
  <2> HIDE DEF e
  <2>3. /\ rec \in ListenerRecs /\ rec.obj = listeners[l].obj /\ rec.conv = listeners[l].conv
        /\ rec.watch = listeners[l].watch /\ rec.cancelled = listeners[l].cancelled
        /\ rec.pc = "ask" /\ rec.cmds = listeners[l].cmds /\ rec.who = listeners[l].who
        /\ rec.hand = e /\ rec.to = subs /\ rec.pending = listeners[l].pending
    BY <2>1, <2>2, ListenerFields DEF ListenerRecs
  <2> HIDE DEF rec
  <2>4. Becomes(l, "ask") /\ Holds(l, listeners[l].cmds, listeners[l].who, e, subs,
                                   listeners[l].pending)
    BY <1>1, <2>2, <2>3, SetOne
  <2> QED
    BY <1>2, <2>4 DEF e
<1> QED
  BY <1>1, <1>2

(* Listeners may be told to stop; they are otherwise as they were.          *)
Told(ls) ==
  /\ ls \in Seq(ListenerRecs) /\ DOMAIN ls = DOMAIN listeners /\ Len(ls) = Len(listeners)
  /\ \A l \in DOMAIN listeners :
       /\ ls[l].obj = listeners[l].obj /\ ls[l].conv = listeners[l].conv
       /\ ls[l].watch = listeners[l].watch /\ ls[l].pc = listeners[l].pc
       /\ ls[l].cmds = listeners[l].cmds /\ ls[l].who = listeners[l].who
       /\ ls[l].hand = listeners[l].hand /\ ls[l].to = listeners[l].to
       /\ ls[l].pending = listeners[l].pending
       /\ listeners[l].cancelled => ls[l].cancelled

(* clear_listener tells the listener of an entry to stop, and nobody else.   *)
LEMMA CancelledTells ==
  ASSUME ListenerTypes, NEW o \in 0 .. MaxObjects
  PROVE  /\ Told(Cancelled(o))
         /\ \A l \in DOMAIN listeners : Cancelled(o)[l].cancelled <=>
              listeners[l].cancelled \/ (o # 0 /\ tx[o] = l)
<1>0. listeners \in Seq(ListenerRecs) /\ DOMAIN listeners = 1 .. Len(listeners)
      /\ Len(listeners) \in Nat /\ tx \in [Objects -> 0 .. Len(listeners)]
  BY DEF ListenerTypes
<1>1. CASE o # 0 /\ tx[o] # 0
  <2> DEFINE rec == [listeners[tx[o]] EXCEPT !.cancelled = TRUE]
  <2>1. o \in Objects /\ tx[o] \in DOMAIN listeners
    BY <1>0, <1>1, Constants DEF Objects
  <2>2. Cancelled(o) = [listeners EXCEPT ![tx[o]] = rec]
    BY <1>0, <1>1, <2>1 DEF Cancelled
  <2>3. /\ rec \in ListenerRecs /\ rec.cancelled /\ rec.obj = listeners[tx[o]].obj
        /\ rec.conv = listeners[tx[o]].conv /\ rec.watch = listeners[tx[o]].watch
        /\ rec.pc = listeners[tx[o]].pc /\ rec.cmds = listeners[tx[o]].cmds
        /\ rec.who = listeners[tx[o]].who /\ rec.hand = listeners[tx[o]].hand
        /\ rec.to = listeners[tx[o]].to /\ rec.pending = listeners[tx[o]].pending
    BY <2>1, ListenerFields DEF ListenerRecs
  <2> HIDE DEF rec
  <2> QED
    BY <1>0, <1>1, <2>1, <2>2, <2>3, Updated DEF Told
<1>2. CASE ~ (o # 0 /\ tx[o] # 0)
  <2>1. Cancelled(o) = listeners
    BY <1>2 DEF Cancelled
  <2>2. \A l \in DOMAIN listeners : listeners[l].cancelled \in BOOLEAN /\ l # 0
    BY <1>0, ListenerFields
  <2> QED
    BY <1>0, <1>2, <2>1, <2>2 DEF Told
<1> QED
  BY <1>1, <1>2

(* A command is put into a listener's channel.                               *)
LEMMA CommandSets ==
  ASSUME ListenerTypes, NEW l \in DOMAIN listeners, NEW cmd \in Commands,
         listeners' = [listeners EXCEPT ![l].cmds = Append(listeners[l].cmds, cmd)]
  PROVE  LET me == listeners[l] IN
         /\ Becomes(l, me.pc)
         /\ Holds(l, Append(me.cmds, cmd), me.who, me.hand, me.to, me.pending)
<1> DEFINE cmds == Append(listeners[l].cmds, cmd)
           rec  == [listeners[l] EXCEPT !.cmds = cmds]
<1>1. Set(l, rec)
  BY DEF Set
<1>2. cmds \in Seq(Commands)
  BY Appended, ListenerFields
<1> HIDE DEF cmds
<1>3. /\ rec \in ListenerRecs /\ rec.obj = listeners[l].obj /\ rec.conv = listeners[l].conv
      /\ rec.watch = listeners[l].watch /\ rec.cancelled = listeners[l].cancelled
      /\ rec.pc = listeners[l].pc /\ rec.cmds = cmds /\ rec.who = listeners[l].who
      /\ rec.hand = listeners[l].hand /\ rec.to = listeners[l].to
      /\ rec.pending = listeners[l].pending
  BY <1>2, ListenerFields DEF ListenerRecs
<1> HIDE DEF rec
<1>4. /\ Becomes(l, listeners[l].pc)
      /\ Holds(l, cmds, listeners[l].who, listeners[l].hand, listeners[l].to,
               listeners[l].pending)
  BY <1>1, <1>3, SetOne
<1> QED
  BY <1>4 DEF cmds

(* The listener that unloads the thread ends, after the one of the entry was *)
(* told to stop.                                                             *)
LEMMA UnloadSets ==
  ASSUME ListenerTypes, ConnTypes, NEW l \in DOMAIN listeners, Unload(l)
  PROVE  LET ls == Cancelled(entry) IN
         /\ Told(ls)
         /\ listeners' \in Seq(ListenerRecs) /\ DOMAIN listeners' = DOMAIN listeners
         /\ Len(listeners') = Len(listeners)
         /\ listeners'[l].pc = "ended" /\ Holds(l, <<>>, ls[l].who, ls[l].hand, ls[l].to, ls[l].pending)
         /\ listeners'[l].obj = ls[l].obj /\ listeners'[l].conv = ls[l].conv
         /\ listeners'[l].watch = ls[l].watch
         /\ \A k \in DOMAIN listeners : k # l => listeners'[k] = ls[k]
<1> DEFINE ls  == Cancelled(entry)
           rec == [ls[l] EXCEPT !.pc = "ended", !.cmds = <<>>, !.cancelled = TRUE]
<1>1. entry \in 0 .. MaxObjects
  BY Constants DEF ConnTypes, Objects
<1>2. Told(ls)
  BY <1>1, CancelledTells
<1>3. ls \in Seq(ListenerRecs) /\ DOMAIN ls = DOMAIN listeners /\ Len(ls) = Len(listeners)
  BY <1>2 DEF Told
<1>4. listeners' = [ls EXCEPT ![l].pc = "ended", ![l].cmds = <<>>, ![l].cancelled = TRUE]
  BY DEF Unload
<1> HIDE DEF ls
<1>5. ls[l] \in ListenerRecs /\ <<>> \in Seq(Commands)
  BY <1>3
<1>6. /\ rec \in ListenerRecs /\ rec.obj = ls[l].obj /\ rec.conv = ls[l].conv
      /\ rec.watch = ls[l].watch
      /\ rec.pc = "ended" /\ rec.cmds = <<>> /\ rec.who = ls[l].who
      /\ rec.hand = ls[l].hand /\ rec.to = ls[l].to /\ rec.pending = ls[l].pending
  BY <1>5 DEF ListenerRecs
<1>7. listeners' = [ls EXCEPT ![l] = rec]
  BY <1>3, <1>4, <1>5 DEF ListenerRecs
<1> HIDE DEF rec
<1>8. /\ listeners' \in Seq(ListenerRecs) /\ DOMAIN listeners' = DOMAIN listeners
      /\ Len(listeners') = Len(listeners) /\ listeners'[l] = rec
      /\ \A k \in DOMAIN listeners : k # l => listeners'[k] = ls[k]
  BY <1>3, <1>6, <1>7, Updated
<1> QED
  BY <1>2, <1>6, <1>8 DEF Holds, ls

(* ensure_listener_task_running starts a listener and stops the one before,  *)
(* or finds that it is not needed.                                           *)
LEMMA EnsureSets ==
  ASSUME ListenerTypes, SetListener,
         op.obj \in Objects, op.watch \in 0 .. MaxObjects, op.conv \in Nat, ~ Matches(op.obj, op.conv)
  PROVE  LET n  == Len(listeners) + 1
             ls == Cancelled(op.obj)
         IN /\ Told(ls)
            /\ listeners' \in Seq(ListenerRecs) /\ Len(listeners') = n
            /\ DOMAIN listeners' = 1 .. n /\ DOMAIN listeners = 1 .. Len(listeners)
            /\ Len(listeners) \in Nat
            /\ listeners'[n] = NewListener(op.obj, op.conv, op.watch)
            /\ \A l \in DOMAIN listeners : listeners'[l] = ls[l]
            /\ tx' = [tx EXCEPT ![op.obj] = n]
<1> DEFINE ls  == Cancelled(op.obj)
           new == NewListener(op.obj, op.conv, op.watch)
<1>1. op.obj \in 0 .. MaxObjects
  BY Constants DEF Objects
<1>2. Told(ls)
  BY <1>1, CancelledTells
<1>3. ls \in Seq(ListenerRecs) /\ DOMAIN ls = DOMAIN listeners /\ Len(ls) = Len(listeners)
  BY <1>2 DEF Told
<1>4. <<>> \in Seq(Commands)
  OBVIOUS
<1>5. new \in ListenerRecs
  BY <1>1, <1>4 DEF NewListener, ListenerRecs
<1>6. listeners' = Append(ls, new) /\ tx' = [tx EXCEPT ![op.obj] = Len(listeners) + 1]
  BY DEF SetListener
<1>7. DOMAIN listeners = 1 .. Len(listeners) /\ Len(listeners) \in Nat
  BY DEF ListenerTypes
<1> HIDE DEF ls, new
<1>8. /\ listeners' \in Seq(ListenerRecs) /\ Len(listeners') = Len(listeners) + 1
      /\ DOMAIN listeners' = 1 .. (Len(listeners) + 1)
      /\ listeners'[Len(listeners) + 1] = new
      /\ \A l \in DOMAIN listeners : listeners'[l] = ls[l]
  BY <1>3, <1>5, <1>6, Appended
<1> QED
  BY <1>2, <1>6, <1>7, <1>8 DEF ls, new

(* A core thread and its fields.                                             *)
LEMMA ConvFields ==
  ASSUME CoreTypes, NEW n \in DOMAIN convs
  PROVE  /\ convs[n] \in ConvRecs /\ convs[n].turn \in BOOLEAN
         /\ Events(n) \in Seq(Reqs \cup Words) /\ convs[n].events = Events(n)
         /\ n \in 1 .. Len(convs) /\ Len(convs) \in Nat
<1>1. convs[n] \in ConvRecs /\ n \in 1 .. Len(convs) /\ Len(convs) \in Nat
  BY DEF CoreTypes
<1> QED
  BY <1>1 DEF ConvRecs, Events

(* One core thread changes, the others are as they were.                    *)
CoreMoves(n, st, turn, events) ==
  /\ convs' \in Seq(ConvRecs) /\ DOMAIN convs' = DOMAIN convs /\ Len(convs') = Len(convs)
  /\ convs'[n].st = st /\ convs'[n].turn = turn /\ Events(n)' = events
  /\ \A m \in DOMAIN convs : m # n => convs'[m] = convs[m] /\ Events(m)' = Events(m)

(* Replacing one core thread.                                                *)
LEMMA SetConv ==
  ASSUME CoreTypes, NEW n \in DOMAIN convs, NEW rec \in ConvRecs,
         convs' = [convs EXCEPT ![n] = rec]
  PROVE  CoreMoves(n, rec.st, rec.turn, rec.events)
<1>1. convs \in Seq(ConvRecs)
  BY DEF CoreTypes
<1> QED
  BY <1>1, Updated DEF CoreMoves, Events

(* A core thread emits an event.                                             *)
LEMMA EmitSets ==
  ASSUME CoreTypes, NEW n \in DOMAIN convs, NEW e \in Reqs \cup Words, NEW turn \in BOOLEAN,
         \/ convs' = [Emit(n, e) EXCEPT ![n].turn = turn]
         \/ turn = convs[n].turn /\ convs' = Emit(n, e)
  PROVE  CoreMoves(n, convs[n].st, turn, Append(Events(n), e))
<1> DEFINE new == Append(convs[n].events, e)
           rec == [convs[n] EXCEPT !.events = new, !.turn = turn]
<1>1. new \in Seq(Reqs \cup Words)
  BY ConvFields, Appended
<1>2. new = Append(Events(n), e)
  BY DEF Events
<1>3. convs' = [convs EXCEPT ![n] = [convs[n] EXCEPT !.events = new, !.turn = turn]]
  <2>1. convs \in [1 .. Len(convs) -> ConvRecs] /\ n \in 1 .. Len(convs)
    BY ConvFields DEF CoreTypes
  <2>2. Emit(n, e) = [convs EXCEPT ![n] = [convs[n] EXCEPT !.events = new]]
    BY <2>1 DEF Emit
  <2> HIDE DEF new
  <2>3. convs' = [convs EXCEPT ![n] = [convs[n] EXCEPT !.events = new]]
        \/ convs' = [[convs EXCEPT ![n] = [convs[n] EXCEPT !.events = new]] EXCEPT ![n].turn = turn]
    BY <2>2
  <2>4. CASE convs' = [convs EXCEPT ![n] = [convs[n] EXCEPT !.events = new]] /\ turn = convs[n].turn
    <3>1. [convs[n] EXCEPT !.events = new, !.turn = turn] = [convs[n] EXCEPT !.events = new]
      BY <2>1, <2>4, <1>1 DEF ConvRecs
    <3> QED
      BY <2>4, <3>1
  <2>5. CASE convs' = [[convs EXCEPT ![n] = [convs[n] EXCEPT !.events = new]] EXCEPT ![n].turn = turn]
    BY <2>1, <2>5, <1>1 DEF ConvRecs
  <2> QED
    BY <2>2, <2>4, <2>5
<1> HIDE DEF new
<1>4. /\ rec \in ConvRecs /\ rec.st = convs[n].st /\ rec.turn = turn /\ rec.events = new
  BY <1>1, ConvFields DEF ConvRecs
<1> HIDE DEF rec
<1>5. convs' = [convs EXCEPT ![n] = rec]
  BY <1>3 DEF rec
<1> QED
  BY <1>2, <1>4, <1>5, SetConv

(* The first event leaves its core thread.                                   *)
LEMMA TakeEventTakes ==
  ASSUME ListenerTypes, CoreTypes, NEW l \in DOMAIN listeners, TakeEvent(l)
  PROVE  LET n == ConvOf(l) IN
         CoreMoves(n, convs[n].st, convs[n].turn, Tail(Events(n)))
<1> DEFINE n   == ConvOf(l)
           new == Tail(Events(n))
           rec == [convs[n] EXCEPT !.events = new]
<1>1. n \in DOMAIN convs /\ convs[n] \in ConvRecs /\ new \in Seq(Reqs \cup Words)
  BY NextEvent DEF TakeEvent
<1>2. convs' = [convs EXCEPT ![n] = rec]
  BY DEF TakeEvent, Events
<1> HIDE DEF new
<1>3. rec \in ConvRecs /\ rec.st = convs[n].st /\ rec.turn = convs[n].turn /\ rec.events = new
  BY <1>1 DEF ConvRecs
<1> HIDE DEF rec
<1>4. CoreMoves(n, convs[n].st, convs[n].turn, new)
  BY <1>1, <1>2, <1>3, SetConv
<1> QED
  BY <1>4 DEF new

(* Two pieces put behind a sequence.                                         *)
LEMMA Lengthened ==
  ASSUME NEW S, NEW T, NEW s \in Seq(S \cup T), NEW t \in Seq(T), NEW u \in Seq(T)
  PROVE  /\ (s \o t) \o u \in Seq(S \cup T)
         /\ \A j \in DOMAIN s : j \in DOMAIN ((s \o t) \o u) /\ ((s \o t) \o u)[j] = s[j]
         /\ \A j \in DOMAIN ((s \o t) \o u) : j \notin DOMAIN s => ((s \o t) \o u)[j] \in T
<1>1. ASSUME NEW v \in Seq(S \cup T), NEW w \in Seq(T)
      PROVE  /\ v \o w \in Seq(S \cup T)
             /\ \A j \in DOMAIN v : j \in DOMAIN (v \o w) /\ (v \o w)[j] = v[j]
             /\ \A j \in DOMAIN (v \o w) : j \notin DOMAIN v => (v \o w)[j] \in T
  <2>1. w \in Seq(S \cup T) /\ Len(v) \in Nat /\ Len(w) \in Nat
    OBVIOUS
  <2>2. v \o w \in Seq(S \cup T) /\ Len(v \o w) = Len(v) + Len(w)
    BY <2>1
  <2>3. DOMAIN v = 1 .. Len(v) /\ DOMAIN w = 1 .. Len(w) /\ DOMAIN (v \o w) = 1 .. (Len(v) + Len(w))
    BY <2>1, <2>2
  <2>4. \A j \in 1 .. (Len(v) + Len(w)) : (v \o w)[j] = IF j <= Len(v) THEN v[j] ELSE w[j - Len(v)]
    BY <2>1
  <2>5. \A j \in 1 .. Len(w) : w[j] \in T
    OBVIOUS
  <2> QED
    BY <2>1, <2>2, <2>3, <2>4, <2>5
<1>2. /\ s \o t \in Seq(S \cup T)
      /\ \A j \in DOMAIN s : j \in DOMAIN (s \o t) /\ (s \o t)[j] = s[j]
      /\ \A j \in DOMAIN (s \o t) : j \notin DOMAIN s => (s \o t)[j] \in T
  BY <1>1
<1> DEFINE st == s \o t
<1>3. st \in Seq(S \cup T)
  BY <1>2
<1> HIDE DEF st
<1>4. /\ st \o u \in Seq(S \cup T)
      /\ \A j \in DOMAIN st : j \in DOMAIN (st \o u) /\ (st \o u)[j] = st[j]
      /\ \A j \in DOMAIN (st \o u) : j \notin DOMAIN st => (st \o u)[j] \in T
  BY <1>1, <1>3
<1> QED
  BY <1>2, <1>4 DEF st

(* The last events of a core thread come behind the others.                 *)
LEMMA ShutdownSets ==
  ASSUME CoreTypes, NEW n \in DOMAIN convs, Shutdown(n)
  PROVE  /\ CoreMoves(n, "down", FALSE, Events(n)')
         /\ \A j \in DOMAIN Events(n) : j \in DOMAIN Events(n)' /\ Events(n)'[j] = Events(n)[j]
         /\ \A j \in DOMAIN Events(n)' : j \notin DOMAIN Events(n) => Events(n)'[j] \in Words
<1> DEFINE last == (IF convs[n].turn THEN <<"ended">> ELSE <<>>)
           new  == (convs[n].events \o last) \o <<"shutdown">>
           rec  == [st |-> "down", turn |-> FALSE, events |-> new]
<1>1. convs' = [convs EXCEPT ![n] = rec]
  BY DEF Shutdown
<1>2. convs[n].events \in Seq(Reqs \cup Words)
  BY ConvFields
<1>3. /\ new \in Seq(Reqs \cup Words)
      /\ \A j \in DOMAIN convs[n].events : j \in DOMAIN new /\ new[j] = convs[n].events[j]
      /\ \A j \in DOMAIN new : j \notin DOMAIN convs[n].events => new[j] \in Words
  <2>0. "ended" \in Words /\ "shutdown" \in Words
    BY DEF Words
  <2>1. last \in Seq(Words) /\ <<"shutdown">> \in Seq(Words)
    BY <2>0
  <2> HIDE DEF last
  <2> QED
    BY <1>2, <2>1, Lengthened
<1> HIDE DEF new
<1>4. rec \in ConvRecs /\ rec.st = "down" /\ rec.turn = FALSE /\ rec.events = new
  BY <1>3 DEF ConvRecs
<1> HIDE DEF rec
<1>5. CoreMoves(n, "down", FALSE, new)
  BY <1>1, <1>4, SetConv
<1>6. Events(n)' = new /\ Events(n) = convs[n].events
  BY <1>5 DEF CoreMoves, Events
<1> QED
  BY <1>3, <1>5, <1>6

(* A core thread is told to shut down.                                       *)
Halts ==
  /\ convs' \in Seq(ConvRecs) /\ DOMAIN convs' = DOMAIN convs /\ Len(convs') = Len(convs)
  /\ \A m \in DOMAIN convs :
       /\ convs'[m].turn = convs[m].turn /\ Events(m)' = Events(m)
       /\ convs'[m].st = "down" <=> convs[m].st = "down"

(* A shutdown request leaves turns and events as they are.                   *)
LEMMA StoppingHalts ==
  ASSUME CoreTypes, NEW n \in 0 .. Len(convs), convs' = Stopping(n)
  PROVE  Halts
<1>0. convs \in Seq(ConvRecs) /\ DOMAIN convs = 1 .. Len(convs) /\ Len(convs) \in Nat
  BY DEF CoreTypes
<1>1. CASE n # 0 /\ convs[n].st = "up"
  <2> DEFINE rec == [convs[n] EXCEPT !.st = "stopping"]
  <2>1. n \in DOMAIN convs
    BY <1>0, <1>1
  <2>2. convs' = [convs EXCEPT ![n] = rec]
    BY <1>1 DEF Stopping
  <2>3. /\ rec \in ConvRecs /\ rec.st = "stopping" /\ rec.turn = convs[n].turn
        /\ rec.events = Events(n)
    BY <2>1, ConvFields DEF ConvRecs
  <2> HIDE DEF rec
  <2>4. CoreMoves(n, "stopping", convs[n].turn, Events(n))
    BY <2>1, <2>2, <2>3, SetConv
  <2> QED
    BY <1>1, <2>1, <2>4 DEF CoreMoves, Halts
<1>2. CASE ~ (n # 0 /\ convs[n].st = "up")
  <2>1. convs' = convs
    BY <1>2 DEF Stopping
  <2> QED
    BY <1>0, <2>1 DEF Halts, Events
<1> QED
  BY <1>1, <1>2

(* A core thread is loaded.                                                  *)
LEMMA LoadSets ==
  ASSUME CoreTypes, convs' = Append(convs, NewConv)
  PROVE  /\ convs' \in Seq(ConvRecs) /\ Len(convs') = Len(convs) + 1 /\ Len(convs) \in Nat
         /\ DOMAIN convs = 1 .. Len(convs) /\ DOMAIN convs' = 1 .. (Len(convs) + 1)
         /\ convs'[Len(convs) + 1] = NewConv
         /\ \A n \in DOMAIN convs : convs'[n] = convs[n] /\ Events(n)' = Events(n)
<1>1. convs \in Seq(ConvRecs) /\ <<>> \in Seq(Reqs \cup Words)
  BY DEF CoreTypes
<1>2. NewConv \in ConvRecs
  BY <1>1 DEF NewConv, ConvRecs
<1> QED
  BY <1>1, <1>2, Appended DEF Events

(* The connections and the entry of the thread keep their types.             *)
LEMMA ConnTypesStep ==
  ASSUME ConnTypes, SubscriberTypes, [Next]_vars
  PROVE  ConnTypes'
<1>u. UNCHANGED <<live, entry, made, peopled, closing>> => ConnTypes'
  BY ConnTypes DEF ConnTypes, Objects
<1>r. ASSUME NEW l, RemoveState(l), live' = live, closing' \in {None, "check"} \cup TeardownSteps
      PROVE  ConnTypes'
  <2>1. peopled' \subseteq Objects
    BY <1>r, ConnTypes, SubscriberTypes, Constants DEF RemoveState, ConnTypes, SubscriberTypes, Objects
  <2> QED
    BY <1>r, <2>1, ConnTypes DEF RemoveState, ConnTypes, Objects
<1>t. ASSUME NEW p, Teardown(p), live' = live, closing' \in {None, "check"} \cup TeardownSteps
      PROVE  ConnTypes'
  <2>1. CASE p = "remove"
    BY <1>t, <2>1, <1>r DEF Teardown
  <2>2. CASE p # "remove"
    BY <1>t, <2>2, ConnTypes DEF Teardown, book, ConnTypes, Objects
  <2> QED
    BY <2>1, <2>2
<1>1. ASSUME NEW c \in Conns, Resume(c, "resume") \/ Resume(c, "replace") \/ Unsubscribe(c)
                              \/ Archive(c) \/ \E r \in Reqs : Answer(c, r)
      PROVE  ConnTypes'
  BY <1>1, <1>u DEF Resume, Unsubscribe, Archive, Answer, book, tasks
<1>2. ASSUME NEW c \in Conns, Close(c) PROVE ConnTypes'
  BY <1>2, ConnTypes DEF Close, ConnTypes, Objects
<1>3. CASE Handler \/ ReplaceTimesOut
  <2>1. CASE Rejoin
    BY <2>1, ConnTypes, Constants DEF Rejoin, HasEntry, ConnTypes, Objects
  <2>2. CASE Attach
    BY <2>2, ConnTypes, Constants DEF Attach, HasEntry, book, ConnTypes, Objects
  <2>3. CASE HandlerTeardown
    BY <2>3, <1>t, ConnTypes DEF HandlerTeardown, ConnTypes
  <2>4. CASE CloseCheck
    BY <2>4, ConnTypes DEF CloseCheck, book, ConnTypes, Objects, TeardownSteps
  <2>5. CASE CloseTeardown
    <3>1. closing' \in {None, "check"} \cup TeardownSteps
      BY <2>5, ConnTypes DEF CloseTeardown, Teardown, After, ConnTypes, TeardownSteps
    <3> QED
      BY <2>5, <1>t, <3>1 DEF CloseTeardown
  <2>6. CASE Lookup \/ Differs \/ Replace \/ Listen \/ ListenSet \/ Enqueue \/ Load \/ Attached
             \/ AttachedSet \/ Archived \/ ReplaceTimesOut
    BY <2>6, <1>u DEF Lookup, Differs, Replace, Listen, ListenSet, Enqueue, Load, Attached,
       AttachedSet, Archived, ReplaceTimesOut, book
  <2> QED
    BY <1>3, <2>1, <2>2, <2>3, <2>4, <2>5, <2>6 DEF Handler
<1>4. ASSUME NEW l \in DOMAIN listeners, Listener(l) \/ UnloadTrigger(l) PROVE ConnTypes'
  <2>1. CASE ResumeCommand(l)
    BY <2>1, ConnTypes, Constants DEF ResumeCommand, HasEntry, book, tasks, ConnTypes, Objects
  <2>2. CASE Unload(l)
    BY <2>2, <1>r, ConnTypes DEF Unload, tasks, ConnTypes
  <2>3. CASE Stop(l) \/ Respond(l) \/ Replay(l) \/ ResolveCommand(l) \/ TakeEvent(l) \/ Ask(l)
             \/ MarkUnload(l) \/ UnloadTrigger(l)
    BY <2>3, <1>u DEF Stop, Respond, Replay, ResolveCommand, TakeEvent, Ask, MarkUnload,
       UnloadTrigger, book, tasks
  <2> QED
    BY <1>4, <2>1, <2>2, <2>3 DEF Listener
<1>5. ASSUME NEW r \in Reqs, Waiter(r) PROVE ConnTypes'
  BY <1>5, <1>u DEF Waiter, Resolve, ResolveLost, Decide, book, tasks
<1>6. ASSUME NEW n \in DOMAIN convs, Thread(n) PROVE ConnTypes'
  BY <1>6, <1>u DEF Thread, EndTurn, Shutdown, Unloaded, AskApproval, book, tasks
<1>7. CASE StartTurn
  BY <1>7, <1>u DEF StartTurn, book, tasks
<1>8. CASE UNCHANGED vars
  BY <1>8, <1>u DEF vars, book, tasks
<1> QED
  BY <1>1, <1>2, <1>3, <1>4, <1>5, <1>6, <1>7, <1>8 DEF Next

(* Only connections subscribe, and only subscribers hold prompts.            *)
LEMMA SubscriberTypesStep ==
  ASSUME ConnTypes, SubscriberTypes, [Next]_vars
  PROVE  SubscriberTypes'
<1>u. UNCHANGED <<subs, entry, asked>> => SubscriberTypes'
  BY SubscriberTypes DEF SubscriberTypes
<1>t. ASSUME NEW p, Teardown(p) PROVE SubscriberTypes'
  BY <1>t, SubscriberTypes DEF Teardown, RemoveState, book, asks, SubscriberTypes
<1>1. ASSUME NEW c \in Conns, Unsubscribe(c) PROVE SubscriberTypes'
  BY <1>1, SubscriberTypes, ConnTypes, Constants DEF Unsubscribe,
     SubscriberTypes, ConnTypes, Objects, Drop
<1>2. ASSUME NEW c \in Conns, Close(c) PROVE SubscriberTypes'
  BY <1>2, SubscriberTypes, ConnTypes, Constants DEF Close, SubscriberTypes, ConnTypes, Objects,
     Drop
<1>3. ASSUME NEW c \in Conns, Resume(c, "resume") \/ Resume(c, "replace") \/ Archive(c)
                              \/ \E r \in Reqs : Answer(c, r)
      PROVE  SubscriberTypes'
  BY <1>3, <1>u DEF Resume, Archive, Answer, book, asks
<1>4. CASE Handler \/ ReplaceTimesOut
  <2>1. CASE HandlerTeardown \/ CloseTeardown
    BY <2>1, <1>t DEF HandlerTeardown, CloseTeardown
  <2>2. CASE Rejoin
    BY <2>2, SubscriberTypes, ConnTypes, Constants DEF Rejoin, HasEntry, asks, SubscriberTypes,
       ConnTypes, Objects, Drop
  <2>3. CASE Attach
    BY <2>3, SubscriberTypes, ConnTypes, Constants DEF Attach, HasEntry, book, asks,
       SubscriberTypes, ConnTypes, Objects, Drop
  <2>4. CASE Lookup \/ Differs \/ Replace \/ Listen \/ ListenSet \/ Enqueue \/ Load \/ Attached
             \/ AttachedSet \/ Archived \/ CloseCheck \/ ReplaceTimesOut
    BY <2>4, <1>u DEF Lookup, Differs, Replace, Listen, ListenSet, Enqueue, Load, Attached,
       AttachedSet, Archived, CloseCheck, ReplaceTimesOut, book, asks
  <2> QED
    BY <1>4, <2>1, <2>2, <2>3, <2>4 DEF Handler
<1>5. ASSUME NEW l \in DOMAIN listeners, Listener(l) \/ UnloadTrigger(l) PROVE SubscriberTypes'
  <2>1. CASE ResumeCommand(l)
    BY <2>1, SubscriberTypes, ConnTypes, Constants DEF ResumeCommand, HasEntry, book, asks,
       SubscriberTypes, ConnTypes, Objects, Drop
  <2>2. CASE Replay(l)
    BY <2>2, SubscriberTypes, ConnTypes, Constants DEF Replay, book, SubscriberTypes
  <2>3. CASE Ask(l)
    BY <2>3, SubscriberTypes, ConnTypes, Constants DEF Ask, book, SubscriberTypes
  <2>4. CASE Unload(l)
    BY <2>4, SubscriberTypes, ConnTypes, Constants DEF Unload, RemoveState, SubscriberTypes
  <2>5. CASE Stop(l) \/ Respond(l) \/ ResolveCommand(l) \/ TakeEvent(l) \/ MarkUnload(l)
             \/ UnloadTrigger(l)
    BY <2>5, <1>u DEF Stop, Respond, ResolveCommand, TakeEvent, MarkUnload, UnloadTrigger, book,
       asks
  <2> QED
    BY <1>5, <2>1, <2>2, <2>3, <2>4, <2>5 DEF Listener
<1>6. ASSUME NEW r \in Reqs, Waiter(r) PROVE SubscriberTypes'
  BY <1>6, <1>u DEF Waiter, Resolve, ResolveLost, Decide, book
<1>7. ASSUME NEW n \in DOMAIN convs, Thread(n) PROVE SubscriberTypes'
  BY <1>7, <1>u DEF Thread, EndTurn, Shutdown, Unloaded, AskApproval, book, asks
<1>8. CASE StartTurn
  BY <1>8, <1>u DEF StartTurn, book, asks
<1>9. CASE UNCHANGED vars
  BY <1>9, <1>u DEF vars, book, asks
<1> QED
  BY <1>1, <1>2, <1>3, <1>4, <1>5, <1>6, <1>7, <1>8, <1>9 DEF Next

(* The core threads keep their types, and none is forgotten.                 *)
LEMMA CoreTypesStep ==
  ASSUME ListenerTypes, CoreTypes, OpTypes, [Next]_vars
  PROVE  CoreTypes' /\ DOMAIN convs \subseteq DOMAIN convs' /\ Len(convs') >= Len(convs)
<1>h. ListenerTypes /\ CoreTypes /\ OpTypes
  OBVIOUS
<1>k. ASSUME NEW k \in Kinds, Spend(k) PROVE spent' \in Nat
  BY <1>k, <1>h, SubscriptionAssumption DEF Spend, CoreTypes
<1>u. UNCHANGED <<convs, loaded, unloaders, unloading, archived, turns, spent>> =>
        CoreTypes' /\ DOMAIN convs \subseteq DOMAIN convs' /\ Len(convs') >= Len(convs)
  BY <1>h DEF CoreTypes
<1>1. ASSUME NEW c \in Conns, NEW k \in {"resume", "replace"}, Resume(c, k)
      PROVE  CoreTypes' /\ DOMAIN convs \subseteq DOMAIN convs' /\ Len(convs') >= Len(convs)
  BY <1>1, <1>h, <1>k DEF Resume, core, unload, CoreTypes, Kinds
<1>2. ASSUME NEW c \in Conns, Unsubscribe(c)
      PROVE  CoreTypes' /\ DOMAIN convs \subseteq DOMAIN convs' /\ Len(convs') >= Len(convs)
  BY <1>2, <1>h, <1>k DEF Unsubscribe, core, unload, CoreTypes, Kinds
<1>3. ASSUME NEW c \in Conns, Archive(c)
      PROVE  CoreTypes' /\ DOMAIN convs \subseteq DOMAIN convs' /\ Len(convs') >= Len(convs)
  <2>1. convs' = Stopping(loaded) /\ loaded \in 0 .. Len(convs)
    BY <1>3, <1>h DEF Archive, CoreTypes, OpTypes, At, OpRecs
  <2>2. Halts
    BY <1>h, <2>1, StoppingHalts
  <2> QED
    BY <1>3, <1>h, <1>k, <2>2 DEF Archive, Halts, CoreTypes, unload, rest, Kinds
<1>4. ASSUME NEW c \in Conns, Close(c)
      PROVE  CoreTypes' /\ DOMAIN convs \subseteq DOMAIN convs' /\ Len(convs') >= Len(convs)
  BY <1>4, <1>h, <1>k DEF Close, core, unload, CoreTypes, Kinds
<1>5. ASSUME NEW c \in Conns, \E r \in Reqs : Answer(c, r)
      PROVE  CoreTypes' /\ DOMAIN convs \subseteq DOMAIN convs' /\ Len(convs') >= Len(convs)
  BY <1>5, <1>u DEF Answer, core, unload, rest
<1>6. CASE Handler \/ ReplaceTimesOut
  <2>1. CASE Differs
    <3>0. CASE convs' = convs
      BY <2>1, <3>0, <1>h DEF Differs, CoreTypes, unload, rest
    <3>1. ASSUME convs' # convs PROVE convs' = Stopping(op.conv) /\ op.conv \in 0 .. Len(convs)
      BY <2>1, <3>1, <1>h DEF Differs, CoreTypes, OpTypes, At, OpRecs
    <3>2. ASSUME convs' # convs PROVE Halts
      BY <1>h, <3>2, <3>1, StoppingHalts
    <3> QED
      BY <2>1, <1>h, <3>0, <3>2 DEF Differs, Halts, CoreTypes, unload, rest
  <2>2. CASE Replace
    BY <2>2, <1>h DEF Replace, CoreTypes, unload, rest
  <2>3. CASE Load
    <3>1. CASE UNCHANGED core
      BY <2>3, <1>h, <3>1 DEF Load, CoreTypes, core, unload, rest
    <3>2. CASE convs' = Append(convs, NewConv) /\ loaded' = Len(convs) + 1 /\ turns' = 0
      BY <2>3, <1>h, <3>2, LoadSets, Constants DEF Load, CoreTypes, unload, rest
    <3> QED
      BY <2>3, <3>1, <3>2 DEF Load
  <2>4. CASE Archived
    BY <2>4, <1>h, <1>k DEF Archived, core, unload, CoreTypes, Kinds
  <2>5. CASE HandlerTeardown \/ CloseTeardown
    <3>1. unloading' \in BOOLEAN /\ unloaders' = unloaders
      BY <2>5, <1>h DEF HandlerTeardown, CloseTeardown, Teardown, CoreTypes, unload
    <3> QED
      BY <2>5, <1>h, <3>1 DEF HandlerTeardown, CloseTeardown, CoreTypes, core, rest
  <2>6. CASE ReplaceTimesOut
    BY <2>6, <1>h, <1>k DEF ReplaceTimesOut, core, unload, CoreTypes, Kinds
  <2>7. CASE Lookup \/ Rejoin \/ Listen \/ ListenSet \/ Enqueue \/ Attach \/ Attached
             \/ AttachedSet \/ CloseCheck
    BY <2>7, <1>u DEF Lookup, Rejoin, Listen, ListenSet, Enqueue, Attach, Attached, AttachedSet,
       CloseCheck, core, unload, rest
  <2> QED
    BY <1>6, <2>1, <2>2, <2>3, <2>4, <2>5, <2>6, <2>7 DEF Handler
<1>7. ASSUME NEW l \in DOMAIN listeners, Listener(l) \/ UnloadTrigger(l)
      PROVE  CoreTypes' /\ DOMAIN convs \subseteq DOMAIN convs' /\ Len(convs') >= Len(convs)
  <2>1. CASE TakeEvent(l)
    <3>1. CoreMoves(ConvOf(l), convs[ConvOf(l)].st, convs[ConvOf(l)].turn, Tail(Events(ConvOf(l))))
      BY <2>1, <1>h, TakeEventTakes
    <3> QED
      BY <2>1, <1>h, <3>1 DEF TakeEvent, CoreMoves, CoreTypes, unload, rest
  <2>2. CASE MarkUnload(l)
    BY <2>2, <1>h DEF MarkUnload, core, unload, rest, CoreTypes
  <2>3. CASE Unload(l)
    <3>1. convs' = Stopping(ConvOf(l)) /\ ConvOf(l) \in 0 .. Len(convs) /\ ConvOf(l) \in DOMAIN convs
      BY <2>3, <1>h, ListenerFields DEF Unload, CoreTypes
    <3>2. Halts
      BY <1>h, <3>1, StoppingHalts
    <3> QED
      BY <2>3, <1>h, <3>1, <3>2 DEF Unload, Halts, CoreTypes, rest
  <2>4. CASE Stop(l) \/ ResumeCommand(l) \/ Respond(l) \/ Replay(l) \/ ResolveCommand(l)
             \/ Ask(l) \/ UnloadTrigger(l)
    BY <2>4, <1>u DEF Stop, ResumeCommand, Respond, Replay, ResolveCommand, Ask, UnloadTrigger,
       core, unload, rest
  <2> QED
    BY <1>7, <2>1, <2>2, <2>3, <2>4 DEF Listener
<1>8. ASSUME NEW r \in Reqs, Waiter(r)
      PROVE  CoreTypes' /\ DOMAIN convs \subseteq DOMAIN convs' /\ Len(convs') >= Len(convs)
  BY <1>8, <1>u DEF Waiter, Resolve, ResolveLost, Decide, core, unload, rest
<1>9. ASSUME NEW n \in DOMAIN convs, Thread(n)
      PROVE  CoreTypes' /\ DOMAIN convs \subseteq DOMAIN convs' /\ Len(convs') >= Len(convs)
  <2>1. CASE EndTurn(n)
    <3>1. CoreMoves(n, convs[n].st, FALSE, Append(Events(n), "ended"))
      BY <2>1, <1>h, EmitSets DEF EndTurn, Words
    <3> QED
      BY <2>1, <1>h, <3>1 DEF EndTurn, CoreMoves, CoreTypes, unload, rest
  <2>2. CASE Shutdown(n)
    <3>1. CoreMoves(n, "down", FALSE, Events(n)')
      BY <2>2, <1>h, ShutdownSets
    <3> QED
      BY <2>2, <1>h, <3>1 DEF Shutdown, CoreMoves, CoreTypes, unload, rest
  <2>3. CASE Unloaded(n)
    <3>1. /\ convs' = convs /\ loaded' \in {0, loaded} /\ unloaders' \subseteq unloaders
          /\ archived' = archived /\ turns' = turns /\ spent' \in Nat /\ unloading' \in BOOLEAN
      BY <2>3, <1>h, <1>k DEF Unloaded, CoreTypes, Kinds
    <3> QED
      BY <1>h, <3>1 DEF CoreTypes
  <2>4. ASSUME NEW r \in Reqs, AskApproval(n, r)
        PROVE  CoreTypes' /\ DOMAIN convs \subseteq DOMAIN convs' /\ Len(convs') >= Len(convs)
    <3>1. CoreMoves(n, convs[n].st, convs[n].turn, Append(Events(n), r))
      BY <2>4, <1>h, EmitSets, ConvFields DEF AskApproval
    <3> QED
      BY <2>4, <1>h, <3>1 DEF AskApproval, CoreMoves, CoreTypes, unload, rest
  <2> QED
    BY <1>9, <2>1, <2>2, <2>3, <2>4 DEF Thread
<1>10. CASE StartTurn
  <2>0. loaded \in DOMAIN convs
    BY <1>10, <1>h DEF StartTurn, CoreTypes
  <2>1. CoreMoves(loaded, convs[loaded].st, TRUE, Append(Events(loaded), "started"))
    BY <1>10, <2>0, <1>h, EmitSets DEF StartTurn, Words
  <2> QED
    BY <1>10, <1>h, <2>1, Constants DEF StartTurn, CoreMoves, CoreTypes, unload, rest
<1>11. CASE UNCHANGED vars
  BY <1>11, <1>u DEF vars, core, unload, rest
<1> QED
  BY <1>1, <1>2, <1>3, <1>4, <1>5, <1>6, <1>7, <1>8, <1>9, <1>10, <1>11 DEF Next

(* Listeners keep their ThreadState and their core thread.                   *)
ListenersKept ==
  /\ DOMAIN listeners \subseteq DOMAIN listeners'
  /\ \A l \in DOMAIN listeners :
       listeners'[l].obj = listeners[l].obj /\ listeners'[l].conv = listeners[l].conv

(* Command channels that are cleared have their type.                        *)
LEMMA WithoutType ==
  ASSUME ListenerTypes, NEW o, NEW l
  PROVE  Without(o, l) \in [Objects -> 0 .. Len(listeners)]
<1>1. tx \in [Objects -> 0 .. Len(listeners)] /\ Len(listeners) \in Nat
  BY DEF ListenerTypes
<1> QED
  BY <1>1 DEF Without

(* A listener that moves on keeps the types ...                              *)
LEMMA BecomesKeeps ==
  ASSUME ListenerTypes, NEW l \in DOMAIN listeners, NEW p, Becomes(l, p),
         DOMAIN convs \subseteq DOMAIN convs',
         tx' \in [Objects -> 0 .. Len(listeners)]
  PROVE  ListenerTypes' /\ ListenersKept
BY DEF ListenerTypes, ListenersKept, Becomes, ConvOf

(* ... and so do listeners that are told to stop.                            *)
LEMMA ToldKeeps ==
  ASSUME ListenerTypes, Told(listeners'), DOMAIN convs \subseteq DOMAIN convs',
         tx' \in [Objects -> 0 .. Len(listeners)]
  PROVE  ListenerTypes' /\ ListenersKept
BY DEF ListenerTypes, ListenersKept, Told, ConvOf

(* A teardown tells the listener of the entry to stop.                       *)
LEMMA TeardownTells ==
  ASSUME ListenerTypes, ConnTypes, NEW p, Teardown(p)
  PROVE  Told(listeners') /\ tx' \in [Objects -> 0 .. Len(listeners)]
<1>1. entry \in 0 .. MaxObjects
  BY Constants DEF ConnTypes, Objects
<1>2. CASE p = "remove"
  <2>1. listeners' = Cancelled(entry) /\ tx' = Without(entry, 0)
    BY <1>2 DEF Teardown, RemoveState
  <2> QED
    BY <1>1, <2>1, CancelledTells, WithoutType
<1>3. CASE p # "remove"
  <2>1. UNCHANGED <<listeners, tx>>
    BY <1>3 DEF Teardown, book
  <2>2. listeners \in Seq(ListenerRecs) /\ tx \in [Objects -> 0 .. Len(listeners)]
    BY DEF ListenerTypes
  <2> QED
    BY <2>1, <2>2 DEF Told
<1> QED
  BY <1>2, <1>3

(* Starting a listener keeps the types.                                      *)
LEMMA EnsureKeeps ==
  ASSUME ListenerTypes, SetListener, op.obj \in Objects, op.watch \in 0 .. MaxObjects,
         op.conv \in DOMAIN convs, op.conv \in Nat, DOMAIN convs \subseteq DOMAIN convs'
  PROVE  ListenerTypes' /\ ListenersKept
<1>1. CASE Matches(op.obj, op.conv)
  <2>1. UNCHANGED <<tx, listeners>>
    BY <1>1 DEF SetListener
  <2> QED
    BY <2>1 DEF ListenerTypes, ListenersKept, ConvOf
<1>2. CASE ~ Matches(op.obj, op.conv)
  <2> DEFINE n  == Len(listeners) + 1
             ls == Cancelled(op.obj)
  <2>1. /\ Told(ls) /\ listeners' \in Seq(ListenerRecs) /\ Len(listeners') = n
        /\ DOMAIN listeners' = 1 .. n /\ DOMAIN listeners = 1 .. Len(listeners)
        /\ Len(listeners) \in Nat
        /\ listeners'[n] = NewListener(op.obj, op.conv, op.watch)
        /\ \A l \in DOMAIN listeners : listeners'[l] = ls[l]
        /\ tx' = [tx EXCEPT ![op.obj] = n]
    BY <1>2, EnsureSets
  <2>2. listeners'[n].conv = op.conv
    BY <2>1 DEF NewListener
  <2>3. \A l \in DOMAIN listeners' : l \in DOMAIN listeners \/ l = n
    BY <2>1
  <2>4. ListenersKept
    BY <2>1 DEF ListenersKept, Told
  <2>5. tx' \in [Objects -> 0 .. n]
    BY <2>1 DEF ListenerTypes
  <2> HIDE DEF n, ls
  <2> QED
    BY <2>1, <2>2, <2>3, <2>4, <2>5 DEF ListenerTypes, ListenersKept, ConvOf
<1> QED
  BY <1>1, <1>2

(* The handler that starts a listener knows for what.                        *)
LEMMA SetsListener ==
  ASSUME CoreTypes, OpTypes, ListenSet \/ AttachedSet
  PROVE  /\ SetListener /\ op.obj \in Objects /\ op.watch \in 0 .. MaxObjects
         /\ op.conv \in DOMAIN convs /\ op.conv \in Nat
<1>1. op \in OpRecs /\ op.conv \in 0 .. Len(convs) /\ op.conv # 0 /\ op.obj # 0 /\ SetListener
  BY DEF ListenSet, AttachedSet, At, OpTypes
<1>2. Len(convs) \in Nat /\ DOMAIN convs = 1 .. Len(convs)
  BY DEF CoreTypes
<1>3. op.obj \in 0 .. MaxObjects /\ op.watch \in 0 .. MaxObjects
  BY <1>1 DEF OpRecs
<1> QED
  BY <1>1, <1>2, <1>3, Constants DEF Objects

(* The listeners keep their types, and none is forgotten.                    *)
LEMMA ListenerTypesStep ==
  ASSUME TypeOK, [Next]_vars
  PROVE  ListenerTypes' /\ ListenersKept
<1>h. /\ ConnTypes /\ SubscriberTypes /\ ListenerTypes /\ CoreTypes /\ ReqTypes /\ OpTypes
  BY DEF TypeOK
<1>g. DOMAIN convs \subseteq DOMAIN convs'
  BY <1>h, CoreTypesStep
<1>u. UNCHANGED <<listeners, tx>> => ListenerTypes' /\ ListenersKept
  BY <1>h, <1>g DEF ListenerTypes, ListenersKept, ConvOf
<1>1. ASSUME NEW p, Teardown(p) PROVE ListenerTypes' /\ ListenersKept
  BY <1>1, <1>h, <1>g, TeardownTells, ToldKeeps
<1>2. ASSUME NEW c \in Conns, Resume(c, "resume") \/ Resume(c, "replace") \/ Unsubscribe(c)
                              \/ Archive(c) \/ Close(c) \/ \E r \in Reqs : Answer(c, r)
      PROVE  ListenerTypes' /\ ListenersKept
  BY <1>2, <1>u DEF Resume, Unsubscribe, Archive, Close, Answer, book
<1>3. CASE Handler \/ ReplaceTimesOut
  <2>1. CASE HandlerTeardown \/ CloseTeardown
    BY <1>1, <2>1 DEF HandlerTeardown, CloseTeardown
  <2>2. CASE ListenSet \/ AttachedSet
    BY <2>2, <1>h, <1>g, SetsListener, EnsureKeeps
  <2>3. CASE Enqueue
    <3>1. CASE tx[op.obj] = 0
      BY <2>3, <1>u, <3>1 DEF Enqueue, book
    <3>2. CASE tx[op.obj] # 0
      <4>1. tx[op.obj] \in DOMAIN listeners /\ <<"resume", op.conn>> \in Commands
        BY <2>3, <1>h, <3>2, Constants
           DEF Enqueue, At, OpTypes, OpRecs, Objects, ListenerTypes, Commands
      <4>2. Becomes(tx[op.obj], listeners[tx[op.obj]].pc)
        BY <2>3, <1>h, <3>2, <4>1, CommandSets DEF Enqueue
      <4>3. tx' = tx
        BY <2>3 DEF Enqueue, book
      <4> QED
        BY <1>h, <1>g, <4>1, <4>2, <4>3, BecomesKeeps DEF ListenerTypes
    <3> QED
      BY <3>1, <3>2
  <2>4. CASE Lookup \/ Differs \/ Replace \/ Rejoin \/ Listen \/ Load \/ Attach \/ Attached
             \/ Archived \/ CloseCheck \/ ReplaceTimesOut
    BY <2>4, <1>u DEF Lookup, Differs, Replace, Rejoin, Listen, Load, Attach, Attached, Archived,
       CloseCheck, ReplaceTimesOut, HasEntry, book
  <2> QED
    BY <1>3, <2>1, <2>2, <2>3, <2>4 DEF Handler
<1>4. ASSUME NEW l \in DOMAIN listeners, Listener(l) \/ UnloadTrigger(l)
      PROVE  ListenerTypes' /\ ListenersKept
  <2>1. CASE Stop(l)
    <3>1. Becomes(l, "ended") /\ tx' = Without(0, l)
      BY <2>1, <1>h, StopSets DEF Stop, Leaves
    <3> QED
      BY <1>h, <1>g, <3>1, BecomesKeeps, WithoutType
  <2>2. CASE ResumeCommand(l)
    <3>1. (Becomes(l, "loop") \/ Becomes(l, "respond")) /\ tx' = tx
      BY <2>2, <1>h, ResumeCommandSets DEF ResumeCommand, HasEntry, book
    <3> QED
      BY <1>h, <1>g, <3>1, BecomesKeeps DEF ListenerTypes
  <2>3. CASE Respond(l)
    <3>1. Becomes(l, "replay") /\ tx' = tx
      BY <2>3, <1>h, RespondSets DEF Respond, book
    <3> QED
      BY <1>h, <1>g, <3>1, BecomesKeeps DEF ListenerTypes
  <2>4. CASE Replay(l)
    <3>1. Becomes(l, "loop") /\ tx' = tx
      BY <2>4, <1>h, ReplaySets DEF Replay, book
    <3> QED
      BY <1>h, <1>g, <3>1, BecomesKeeps DEF ListenerTypes
  <2>5. CASE ResolveCommand(l)
    <3>1. Becomes(l, "loop") /\ tx' = tx
      BY <2>5, <1>h, ResolveCommandSets DEF ResolveCommand, book
    <3> QED
      BY <1>h, <1>g, <3>1, BecomesKeeps DEF ListenerTypes
  <2>6. CASE TakeEvent(l)
    <3>1. (Becomes(l, "ask") \/ listeners' = listeners) /\ tx' = tx
      BY <2>6, <1>h, TakeEventSets DEF TakeEvent, book
    <3> QED
      BY <1>h, <1>g, <1>u, <3>1, BecomesKeeps DEF ListenerTypes
  <2>7. CASE Ask(l)
    <3>1. Becomes(l, "loop") /\ tx' = tx
      BY <2>7, <1>h, AskSets DEF Ask, book
    <3> QED
      BY <1>h, <1>g, <3>1, BecomesKeeps DEF ListenerTypes
  <2>8. CASE MarkUnload(l)
    <3>1. (Becomes(l, "unload") \/ Becomes(l, "loop")) /\ tx' = tx
      BY <2>8, <1>h, MarkUnloadSets DEF MarkUnload, book
    <3> QED
      BY <1>h, <1>g, <3>1, BecomesKeeps DEF ListenerTypes
  <2>9. CASE Unload(l)
    <3> DEFINE ls == Cancelled(entry)
    <3>1. /\ Told(ls) /\ listeners' \in Seq(ListenerRecs) /\ DOMAIN listeners' = DOMAIN listeners
          /\ Len(listeners') = Len(listeners)
          /\ listeners'[l].obj = ls[l].obj /\ listeners'[l].conv = ls[l].conv
          /\ \A k \in DOMAIN listeners : k # l => listeners'[k] = ls[k]
      BY <2>9, <1>h, UnloadSets
    <3>2. tx' \in [Objects -> 0 .. Len(listeners)]
      BY <2>9, <1>h, WithoutType DEF Unload, RemoveState
    <3> HIDE DEF ls
    <3>3. ListenersKept
      BY <3>1 DEF Told, ListenersKept
    <3> QED
      BY <1>h, <1>g, <3>1, <3>2, <3>3 DEF ListenerTypes, ListenersKept, ConvOf
  <2>10. CASE UnloadTrigger(l)
    <3>1. Becomes(l, "check") /\ tx' = tx
      BY <2>10, <1>h, UnloadTriggerSets DEF UnloadTrigger, book
    <3> QED
      BY <1>h, <1>g, <3>1, BecomesKeeps DEF ListenerTypes
  <2> QED
    BY <1>4, <2>1, <2>2, <2>3, <2>4, <2>5, <2>6, <2>7, <2>8, <2>9, <2>10 DEF Listener
<1>5. ASSUME NEW r \in Reqs, Waiter(r) PROVE ListenerTypes' /\ ListenersKept
  <2>1. CASE Resolve(r)
    <3>d. PICK d : d = tx[listeners[req[r].lis].obj]
      OBVIOUS
    <3> DEFINE cmd == <<"resolve", r>>
    <3>0. /\ d # 0 => listeners' = [listeners EXCEPT ![d].cmds = Append(listeners[d].cmds, cmd)]
          /\ d = 0 => listeners' = listeners
          /\ tx' = tx
      BY <2>1, <3>d DEF Resolve, book
    <3>1. CASE d = 0
      BY <1>u, <3>0, <3>1
    <3>2. CASE d # 0
      <4>0. req[r].lis \in DOMAIN listeners
        BY <2>1, <1>h DEF Resolve, ReqTypes
      <4>1. d \in DOMAIN listeners /\ cmd \in Commands
        BY <1>h, <3>d, <3>2, <4>0, ListenerFields DEF ListenerTypes, Commands
      <4> HIDE DEF cmd
      <4>2. listeners' = [listeners EXCEPT ![d].cmds = Append(listeners[d].cmds, cmd)]
        BY <3>0, <3>2
      <4>3. ListenerTypes
        BY <1>h
      <4>4. Becomes(d, listeners[d].pc)
        BY <4>1, <4>2, <4>3, CommandSets
      <4> QED
        BY <1>h, <1>g, <3>0, <4>1, <4>4, BecomesKeeps DEF ListenerTypes
    <3> QED
      BY <3>1, <3>2
  <2>2. CASE ResolveLost(r) \/ Decide(r)
    BY <2>2, <1>u DEF ResolveLost, Decide, book
  <2> QED
    BY <1>5, <2>1, <2>2 DEF Waiter
<1>6. ASSUME NEW n \in DOMAIN convs, Thread(n) PROVE ListenerTypes' /\ ListenersKept
  BY <1>6, <1>u DEF Thread, EndTurn, Shutdown, Unloaded, AskApproval, book
<1>7. CASE StartTurn
  BY <1>7, <1>u DEF StartTurn, book
<1>8. CASE UNCHANGED vars
  BY <1>8, <1>u DEF vars, book
<1> QED
  BY <1>2, <1>3, <1>4, <1>5, <1>6, <1>7, <1>8 DEF Next

(* ThreadStates are made, never unmade.                                      *)
LEMMA MadeGrows ==
  ASSUME ConnTypes, [Next]_vars
  PROVE  made \in Nat /\ made' \in Nat /\ made' >= made
<1>0. made \in Nat
  BY DEF ConnTypes, Objects
<1>1. ASSUME NEW c \in Conns, Resume(c, "resume") \/ Resume(c, "replace") \/ Unsubscribe(c)
                              \/ Archive(c) \/ Close(c) \/ \E r \in Reqs : Answer(c, r)
      PROVE  made' = made
  BY <1>1 DEF Resume, Unsubscribe, Archive, Close, Answer, book
<1>2. CASE Handler \/ ReplaceTimesOut
  <2>1. CASE Rejoin \/ Attach
    BY <2>1, <1>0 DEF Rejoin, Attach, HasEntry, book
  <2>2. CASE HandlerTeardown \/ CloseTeardown
    BY <2>2, <1>0 DEF HandlerTeardown, CloseTeardown, Teardown, RemoveState, book
  <2>3. CASE Lookup \/ Differs \/ Replace \/ Listen \/ ListenSet \/ Enqueue \/ Load \/ Attached
             \/ AttachedSet \/ Archived \/ CloseCheck \/ ReplaceTimesOut
    BY <2>3, <1>0 DEF Lookup, Differs, Replace, Listen, ListenSet, Enqueue, Load, Attached,
       AttachedSet, Archived, CloseCheck, ReplaceTimesOut, book
  <2> QED
    BY <1>2, <2>1, <2>2, <2>3 DEF Handler
<1>3. ASSUME NEW l \in DOMAIN listeners, Listener(l) \/ UnloadTrigger(l)
      PROVE  made' \in Nat /\ made' >= made
  BY <1>0, <1>3 DEF Listener, Stop, ResumeCommand, Respond, Replay, ResolveCommand, TakeEvent,
     Ask, MarkUnload, Unload, UnloadTrigger, HasEntry, RemoveState, book
<1>4. ASSUME NEW r \in Reqs, Waiter(r) PROVE made' = made
  BY <1>4 DEF Waiter, Resolve, ResolveLost, Decide, book
<1>5. ASSUME NEW n \in DOMAIN convs, Thread(n) PROVE made' = made
  BY <1>5 DEF Thread, EndTurn, Shutdown, Unloaded, AskApproval, book
<1>6. CASE StartTurn \/ UNCHANGED vars
  BY <1>6, <1>0 DEF StartTurn, vars, book
<1> QED
  BY <1>0, <1>1, <1>2, <1>3, <1>4, <1>5, <1>6 DEF Next

(* The request handler knows what it works on.                               *)
LEMMA OpTypesStep ==
  ASSUME ConnTypes, ListenerTypes, CoreTypes, OpTypes, [Next]_vars
  PROVE  OpTypes'
<1>h. ConnTypes /\ CoreTypes /\ OpTypes
  OBVIOUS
<1>g. /\ Len(convs') >= Len(convs) /\ Len(convs) \in Nat /\ Len(convs') \in Nat
      /\ made \in Nat /\ made' \in Nat /\ made' >= made
  BY <1>h, CoreTypesStep, MadeGrows DEF CoreTypes
<1>u. UNCHANGED op => OpTypes'
  BY <1>h, <1>g DEF OpTypes, OpRecs
<1>n. op' = None => OpTypes'
  BY DEF OpTypes
<1>b. ASSUME NEW c \in Conns, NEW k \in {"resume", "replace", "unsubscribe", "archive"},
             NEW p \in {"lookup", "unmark", "archive"}, NEW n \in 0 .. Len(convs), Begin(k, c, p, n)
      PROVE  OpTypes'
  <2>1. /\ op' = [kind |-> k, conn |-> c, pc |-> p, conv |-> n, obj |-> 0, watch |-> 0]
        /\ n \in Nat /\ p \in {"lookup", "archive"} \cup TeardownSteps
    BY <1>b, <1>g DEF Begin, TeardownSteps
  <2>2. op' \in OpRecs /\ op'.conv = n /\ op'.pc = p /\ op'.obj = 0
    BY <2>1, Constants DEF OpRecs
  <2> QED
    BY <1>g, <2>2 DEF OpTypes
<1>p. ASSUME NEW p \in {"rejoin", "stopping", "enqueue", "unmark", "cancel", "remove", "unwatch", "load"},
             op' = [op EXCEPT !.pc = p], op # None,
             p \in {"rejoin", "stopping", "enqueue"} => op.conv # 0, p = "enqueue" => op.obj # 0
      PROVE  OpTypes'
  <2>1. op \in OpRecs /\ op.conv \in 0 .. Len(convs) /\ op.obj \in 0 .. made
    BY <1>h, <1>p DEF OpTypes
  <2>2. p \in {"rejoin", "stopping", "enqueue", "load"} \cup TeardownSteps
    BY DEF TeardownSteps
  <2>3. op' \in OpRecs /\ op'.conv = op.conv /\ op'.pc = p /\ op'.obj = op.obj
    BY <1>p, <2>1, <2>2 DEF OpRecs
  <2> QED
    BY <1>p, <1>g, <2>1, <2>3 DEF OpTypes
<1>w. ASSUME NEW p \in {"set", "serve"}, op # None, op.conv # 0, op.obj # 0,
             op' = [op EXCEPT !.watch = entry, !.pc = p]
      PROVE  OpTypes'
  <2>1. op \in OpRecs /\ op.conv \in 0 .. Len(convs) /\ op.obj \in 0 .. made
    BY <1>h, <1>w DEF OpTypes
  <2>2. entry \in 0 .. MaxObjects
    BY <1>h, Constants DEF ConnTypes, Objects
  <2>3. op' \in OpRecs /\ op'.conv = op.conv /\ op'.pc = p /\ op'.obj = op.obj
    BY <1>w, <2>1, <2>2 DEF OpRecs
  <2> QED
    BY <1>w, <1>g, <2>1, <2>3 DEF OpTypes
<1>e. ASSUME NEW p \in {"listen", "attached"}, op # None, op.conv # 0, HasEntry,
             op' = [op EXCEPT !.obj = entry', !.pc = p]
      PROVE  OpTypes'
  <2>1. op \in OpRecs /\ op.conv \in 0 .. Len(convs)
    BY <1>h, <1>e DEF OpTypes
  <2>2. entry' \in 1 .. made' /\ entry' \in 0 .. MaxObjects
    BY <1>e, <1>h, Constants DEF HasEntry, ConnTypes, Objects
  <2>e. PICK e \in 0 .. MaxObjects : e = entry'
    BY <2>2
  <2>3. op' \in OpRecs /\ op'.conv = op.conv /\ op'.pc = p /\ op'.obj = e
    BY <1>e, <2>1, <2>e DEF OpRecs
  <2> QED
    BY <1>e, <1>g, <2>1, <2>2, <2>e, <2>3 DEF OpTypes
<1>1. ASSUME NEW c \in Conns, Resume(c, "resume") \/ Resume(c, "replace") PROVE OpTypes'
  BY <1>1, <1>u, <1>b, <1>g DEF Resume
<1>2. ASSUME NEW c \in Conns, Archive(c) PROVE OpTypes'
  BY <1>2, <1>b, <1>h DEF Archive, CoreTypes
<1>3. ASSUME NEW c \in Conns, Unsubscribe(c) PROVE OpTypes'
  BY <1>3, <1>u, <1>b, <1>g DEF Unsubscribe
<1>10. ASSUME NEW c \in Conns, Close(c) \/ \E r \in Reqs : Answer(c, r) PROVE OpTypes'
  BY <1>10, <1>u DEF Close, Answer, tasks
<1>4. CASE Handler \/ ReplaceTimesOut
  <2>1. CASE Lookup
    <3>1. loaded \in 0 .. Len(convs') /\ op \in OpRecs /\ loaded \in Nat /\ op.obj \in 0 .. made
      BY <2>1, <1>h, <1>g DEF Lookup, At, OpTypes, CoreTypes
    <3>2. PICK p \in {"load", "differs", "rejoin"} :
            op' = [op EXCEPT !.conv = loaded, !.pc = p] /\ (p # "load" => loaded # 0)
      <4>1. CASE loaded = 0
        BY <2>1, <4>1 DEF Lookup
      <4>2. CASE loaded # 0 /\ op.kind = "replace"
        BY <2>1, <4>2 DEF Lookup
      <4>3. CASE loaded # 0 /\ op.kind # "replace"
        BY <2>1, <4>3 DEF Lookup
      <4> QED
        BY <4>1, <4>2, <4>3
    <3>3. op' \in OpRecs /\ op'.conv = loaded /\ op'.pc = p /\ op'.obj = op.obj
      BY <3>1, <3>2 DEF OpRecs
    <3> QED
      BY <3>1, <3>2, <3>3, <1>g DEF OpTypes
  <2>2. CASE Differs
    BY <2>2, <1>h, <1>p DEF Differs, OpTypes, At
  <2>3. CASE Replace
    BY <2>3, <1>p DEF Replace, At
  <2>4. CASE Rejoin
    BY <2>4, <1>h, <1>e DEF Rejoin, OpTypes, At
  <2>5. CASE Listen
    BY <2>5, <1>h, <1>n, <1>w DEF Listen, OpTypes, At
  <2>6. CASE ListenSet
    BY <2>6, <1>h, <1>p DEF ListenSet, OpTypes, At
  <2>7. CASE Load
    <3>1. CASE op' = [op EXCEPT !.conv = Len(convs) + 1, !.pc = "attach"] /\ convs' = Append(convs, NewConv)
      <4>1. Len(convs') = Len(convs) + 1
        BY <1>h, <3>1, LoadSets
      <4>2. op \in OpRecs /\ op.obj \in 0 .. made
        BY <2>7, <1>h DEF Load, At, OpTypes
      <4>n. PICK n \in Nat : n = Len(convs) + 1
        BY <1>g
      <4>3. op' \in OpRecs /\ op'.conv = n /\ op'.pc = "attach" /\ op'.obj = op.obj
        BY <4>n, <4>2, <3>1 DEF OpRecs
      <4> QED
        BY <1>g, <4>1, <4>2, <4>n, <4>3 DEF OpTypes
    <3> QED
      BY <2>7, <1>n, <3>1 DEF Load
  <2>8. CASE Attach
    BY <2>8, <1>h, <1>n, <1>e DEF Attach, OpTypes, At
  <2>9. CASE Attached
    BY <2>9, <1>h, <1>n, <1>w DEF Attached, OpTypes, At
  <2>10. CASE Archived
    BY <2>10, <1>p DEF Archived, At
  <2>11. CASE ReplaceTimesOut
    BY <2>11, <1>h, <1>p DEF ReplaceTimesOut, OpTypes, At
  <2>12. CASE HandlerTeardown
    <3>1. op.pc \in TeardownSteps /\ op # None
      BY <2>12 DEF HandlerTeardown, Teardown, TeardownSteps
    <3>2. CASE op.pc = "unwatch"
      BY <2>12, <3>1, <3>2, <1>n, <1>p DEF HandlerTeardown
    <3>3. CASE op.pc # "unwatch"
      <4>1. After(op.pc) \in {"cancel", "remove", "unwatch"}
        BY <3>1, <3>3 DEF TeardownSteps, After
      <4> QED
        BY <2>12, <3>1, <3>3, <4>1, <1>p DEF HandlerTeardown
    <3> QED
      BY <3>2, <3>3
  <2>13. CASE Enqueue \/ AttachedSet
    BY <2>13, <1>n DEF Enqueue, AttachedSet
  <2>14. CASE CloseCheck \/ CloseTeardown
    BY <2>14, <1>u DEF CloseCheck, CloseTeardown
  <2> QED
    BY <1>4, <2>1, <2>2, <2>3, <2>4, <2>5, <2>6, <2>7, <2>8, <2>9, <2>10, <2>11, <2>12, <2>13,
       <2>14 DEF Handler
<1>5. ASSUME NEW l \in DOMAIN listeners, Listener(l) \/ UnloadTrigger(l) PROVE OpTypes'
  BY <1>5, <1>u DEF Listener, Stop, ResumeCommand, Respond, Replay, ResolveCommand, TakeEvent,
     Ask, MarkUnload, Unload, UnloadTrigger, tasks
<1>6. ASSUME NEW r \in Reqs, Waiter(r) PROVE OpTypes'
  BY <1>6, <1>u DEF Waiter, Resolve, ResolveLost, Decide, tasks
<1>7. ASSUME NEW n \in DOMAIN convs, Thread(n) PROVE OpTypes'
  BY <1>7, <1>u DEF Thread, EndTurn, Shutdown, Unloaded, AskApproval, tasks
<1>8. CASE StartTurn
  BY <1>8, <1>u DEF StartTurn, tasks
<1>9. CASE UNCHANGED vars
  BY <1>9, <1>u DEF vars, tasks
<1> QED
  BY <1>1, <1>2, <1>3, <1>10, <1>4, <1>5, <1>6, <1>7, <1>8, <1>9 DEF Next

(* Approvals that leave the callback map.                                   *)
LEMMA SettledIs ==
  ASSUME ReqTypes, NEW rs \in SUBSET Reqs, NEW res \in Nat
  PROVE  /\ Settled(rs, res) \in [Reqs -> ReqRecs]
         /\ \A r \in Reqs : /\ Settled(rs, res)[r].conv = req[r].conv
                            /\ Settled(rs, res)[r].lis = req[r].lis
                            /\ Settled(rs, res)[r].blocks = req[r].blocks
         /\ \A r \in Reqs \ rs : Settled(rs, res)[r] = req[r]
         /\ \A r \in rs : Settled(rs, res)[r].st = "settled" /\ Settled(rs, res)[r].by = res
<1>1. req \in [Reqs -> ReqRecs]
  BY DEF ReqTypes
<1>2. ASSUME NEW r \in Reqs
      PROVE  LET new == [req[r] EXCEPT !.st = "settled", !.by = res] IN
             /\ new \in ReqRecs /\ new.conv = req[r].conv /\ new.lis = req[r].lis
             /\ new.blocks = req[r].blocks /\ new.st = "settled" /\ new.by = res
  BY <1>1 DEF ReqRecs
<1> QED
  BY <1>1, <1>2 DEF Settled

(* The approvals a core thread no longer waits for.                         *)
LEMMA ReleasedIs ==
  ASSUME ReqTypes, NEW n
  PROVE  /\ Released(n) \in [Reqs -> ReqRecs]
         /\ \A r \in Reqs : /\ Released(n)[r].conv = req[r].conv /\ Released(n)[r].st = req[r].st
                            /\ Released(n)[r].lis = req[r].lis
                            /\ Released(n)[r].by = req[r].by
                            /\ Released(n)[r].blocks => req[r].blocks /\ req[r].conv # n
<1>1. req \in [Reqs -> ReqRecs]
  BY DEF ReqTypes
<1>2. ASSUME NEW r \in Reqs
      PROVE  LET new == [req[r] EXCEPT !.blocks = FALSE] IN
             /\ new \in ReqRecs /\ new.conv = req[r].conv /\ new.lis = req[r].lis
             /\ new.st = req[r].st /\ new.by = req[r].by /\ ~ new.blocks
  BY <1>1 DEF ReqRecs
<1> QED
  BY <1>1, <1>2 DEF Released

(* One approval moves on.                                                   *)
ReqMoves(r, st) ==
  /\ req' \in [Reqs -> ReqRecs] /\ req'[r].st = st /\ req'[r].by = req[r].by
  /\ \A q \in Reqs : q # r => req'[q] = req[q]

(* The steps of one approval: its resolution is over, ...                    *)
LEMMA ReqResolves ==
  ASSUME ReqTypes, NEW r \in Reqs, req' = [req EXCEPT ![r].st = "resolved"]
  PROVE  /\ ReqMoves(r, "resolved") /\ req'[r].lis = req[r].lis
         /\ req'[r].conv = req[r].conv /\ req'[r].blocks = req[r].blocks
<1>1. req \in [Reqs -> ReqRecs] /\ req[r] \in ReqRecs
  BY DEF ReqTypes
<1> QED
  BY <1>1 DEF ReqRecs, ReqMoves

(* ... it is sent, or its resolution is handed to a listener, ...            *)
LEMMA ReqGoesTo ==
  ASSUME ReqTypes, NEW r \in Reqs, NEW st \in {"open", "resolving"}, NEW l \in Nat,
         req' = [req EXCEPT ![r].st = st, ![r].lis = l]
  PROVE  /\ ReqMoves(r, st) /\ req'[r].lis = l
         /\ req'[r].conv = req[r].conv /\ req'[r].blocks = req[r].blocks
<1>1. req \in [Reqs -> ReqRecs] /\ req[r] \in ReqRecs
  BY DEF ReqTypes
<1> QED
  BY <1>1 DEF ReqRecs, ReqMoves

(* ... it is asked for, ...                                                  *)
LEMMA AskApprovalMoves ==
  ASSUME ReqTypes, NEW r \in Reqs, NEW n \in Nat, AskApproval(n, r)
  PROVE  ReqMoves(r, "queued") /\ req'[r].conv = n /\ req'[r].blocks
<1>1. req \in [Reqs -> ReqRecs] /\ req[r] \in ReqRecs
  BY DEF ReqTypes
<1> QED
  BY <1>1 DEF ReqRecs, ReqMoves, AskApproval

(* ... it is decided.                                                        *)
LEMMA DecideMoves ==
  ASSUME ReqTypes, NEW r \in Reqs, Decide(r)
  PROVE  /\ ReqMoves(r, "done") /\ req'[r].lis = req[r].lis /\ req'[r].conv = req[r].conv
         /\ req'[r].blocks <=> req[r].blocks /\ req[r].by # 0
<1>1. req \in [Reqs -> ReqRecs] /\ req[r] \in ReqRecs
  BY DEF ReqTypes
<1> DEFINE b == req[r].blocks /\ req[r].by # 0
<1>2. req' = [req EXCEPT ![r].st = "done", ![r].blocks = b]
  BY DEF Decide
<1>3. b \in BOOLEAN
  OBVIOUS
<1> HIDE DEF b
<1>4. /\ ReqMoves(r, "done") /\ req'[r].lis = req[r].lis /\ req'[r].conv = req[r].conv
      /\ req'[r].blocks = b
  BY <1>1, <1>2, <1>3 DEF ReqRecs, ReqMoves
<1> QED
  BY <1>4 DEF b

(* What growth of the lists leaves of the types of the approvals.           *)
Grown == DOMAIN listeners \subseteq DOMAIN listeners' /\ DOMAIN convs \subseteq DOMAIN convs'

(* The types of the approvals survive settling them, ...                     *)
LEMMA SettleKeeps ==
  ASSUME ReqTypes, Grown, NEW rs \in SUBSET Open, NEW res \in Nat,
         req' = Settled(rs, res), told' = told
  PROVE  ReqTypes'
<1>1. rs \subseteq Reqs /\ \A r \in rs : req[r].st = "open"
  BY DEF Open
<1>2. /\ req' \in [Reqs -> ReqRecs]
      /\ \A r \in Reqs : req'[r].conv = req[r].conv /\ req'[r].lis = req[r].lis
      /\ \A r \in Reqs \ rs : req'[r] = req[r]
  BY <1>1, SettledIs
<1> QED
  BY <1>1, <1>2 DEF ReqTypes, Grown

(* ... the end of their turn ...                                             *)
LEMMA ReleaseKeeps ==
  ASSUME ReqTypes, Grown, NEW n, req' = Released(n), told' = told
  PROVE  ReqTypes'
<1>1. /\ req' \in [Reqs -> ReqRecs]
      /\ \A r \in Reqs : /\ req'[r].conv = req[r].conv /\ req'[r].lis = req[r].lis
                         /\ req'[r].st = req[r].st
  BY ReleasedIs
<1> QED
  BY <1>1 DEF ReqTypes, Grown

(* ... and the steps of one of them.                                         *)
LEMMA MoveKeeps ==
  ASSUME ReqTypes, Grown, NEW r \in Reqs, NEW st, ReqMoves(r, st),
         st \notin {"new", "queued"} => req'[r].lis \in DOMAIN listeners,
         req'[r].conv \in DOMAIN convs, told' \in [Reqs -> SUBSET Conns]
  PROVE  ReqTypes'
BY DEF ReqTypes, Grown, ReqMoves

(* A teardown gives up the open approvals, in one of its steps.              *)
LEMMA TeardownSettles ==
  ASSUME NEW p, Teardown(p)
  PROVE  told' = told /\ (req' = req \/ req' = Settled(Open, 0))
BY DEF Teardown, CancelRequests, RemoveState, asks

(* The resolution a listener takes from its channel is of a request that     *)
(* waits for it.                                                             *)
LEMMA ResolvingFirst ==
  ASSUME ListenerTypes, CommandInv, NEW l \in DOMAIN listeners, ResolveCommand(l)
  PROVE  LET r == Head(listeners[l].cmds)[2] IN
         r \in Reqs /\ req[r].st = "resolving" /\ req[r].lis = l
<1>1. /\ listeners[l].cmds # <<>> /\ Head(listeners[l].cmds) = listeners[l].cmds[1]
      /\ Head(listeners[l].cmds)[1] = "resolve" /\ Head(listeners[l].cmds)[2] \in Reqs
  BY FirstCommand DEF ResolveCommand
<1>2. 1 \in DOMAIN listeners[l].cmds
  BY <1>1, HeadOff, ListenerFields
<1> QED
  BY <1>1, <1>2 DEF CommandInv

(* The approvals keep their types.                                           *)
LEMMA ReqTypesStep ==
  ASSUME TypeOK, AskInv, CommandInv, [Next]_vars
  PROVE  ReqTypes'
<1>h. /\ ConnTypes /\ SubscriberTypes /\ ListenerTypes /\ CoreTypes /\ ReqTypes /\ OpTypes
      /\ AskInv /\ CommandInv
  BY DEF TypeOK
<1>g. Grown
  BY <1>h, CoreTypesStep, ListenerTypesStep DEF ListenersKept, Grown
<1>u. UNCHANGED <<req, told>> => ReqTypes'
  BY <1>h, <1>g DEF ReqTypes, Grown
<1>1. ASSUME NEW p, Teardown(p) PROVE ReqTypes'
  BY <1>1, <1>h, <1>g, <1>u, TeardownSettles, SettleKeeps
<1>2. ASSUME NEW c \in Conns, NEW r \in Reqs, Answer(c, r) PROVE ReqTypes'
  <2>1. {r} \in SUBSET Open /\ req' = Settled({r}, 0) /\ told' = told
    BY <1>2 DEF Answer
  <2> QED
    BY <1>h, <1>g, <2>1, SettleKeeps
<1>3. ASSUME NEW c \in Conns, Resume(c, "resume") \/ Resume(c, "replace") \/ Archive(c)
                              \/ Unsubscribe(c) \/ Close(c)
      PROVE  ReqTypes'
  BY <1>3, <1>u DEF Resume, Archive, Unsubscribe, Close, asks
<1>4. CASE Handler \/ ReplaceTimesOut
  <2>1. CASE HandlerTeardown \/ CloseTeardown
    BY <1>1, <2>1 DEF HandlerTeardown, CloseTeardown
  <2>2. CASE Lookup \/ Differs \/ Replace \/ Rejoin \/ Listen \/ ListenSet \/ Enqueue \/ Load
             \/ Attach \/ Attached \/ AttachedSet \/ Archived \/ CloseCheck \/ ReplaceTimesOut
    BY <2>2, <1>u DEF Lookup, Differs, Replace, Rejoin, Listen, ListenSet, Enqueue, Load, Attach,
       Attached, AttachedSet, Archived, CloseCheck, ReplaceTimesOut, asks
  <2> QED
    BY <1>4, <2>1, <2>2 DEF Handler
<1>5. ASSUME NEW l \in DOMAIN listeners, Listener(l) \/ UnloadTrigger(l) PROVE ReqTypes'
  <2>1. CASE ResolveCommand(l)
    <3>d. PICK r : r = Head(listeners[l].cmds)[2]
      OBVIOUS
    <3>1. r \in Reqs /\ req[r].st = "resolving"
      BY <2>1, <3>d, <1>h, ResolvingFirst
    <3>2. req' = [req EXCEPT ![r].st = "resolved"] /\ told' = [told EXCEPT ![r] = told[r] \cup subs]
      BY <2>1, <3>d DEF ResolveCommand
    <3>3. ReqMoves(r, "resolved") /\ req'[r].lis = req[r].lis /\ req'[r].conv = req[r].conv
      BY <1>h, <3>1, <3>2, ReqResolves
    <3>4. told' \in [Reqs -> SUBSET Conns]
      BY <1>h, <3>1, <3>2 DEF ReqTypes, SubscriberTypes
    <3>5. req[r].lis \in DOMAIN listeners /\ req[r].conv \in DOMAIN convs
      BY <1>h, <3>1 DEF ReqTypes
    <3> QED
      BY <1>h, <1>g, <3>1, <3>3, <3>4, <3>5, MoveKeeps
  <2>2. CASE TakeEvent(l)
    <3>1. told' = told /\ (req' = req \/ req' = Settled(Open, ConvOf(l)))
      BY <2>2 DEF TakeEvent
    <3>2. ConvOf(l) \in Nat
      BY <1>h, ListenerFields
    <3> QED
      BY <1>h, <1>g, <1>u, <3>1, <3>2, SettleKeeps
  <2>3. CASE Ask(l)
    <3>d. PICK r : r = listeners[l].hand
      OBVIOUS
    <3>1. r \in Reqs /\ req[r].st = "queued" /\ l \in Nat
      BY <2>3, <3>d, <1>h, ListenerFields DEF Ask, AskInv
    <3>2. req' = [req EXCEPT ![r].st = "open", ![r].lis = l] /\ told' = told
      BY <2>3, <3>d DEF Ask
    <3>3. ReqMoves(r, "open") /\ req'[r].lis = l /\ req'[r].conv = req[r].conv
      BY <1>h, <3>1, <3>2, ReqGoesTo
    <3>5. req[r].conv \in DOMAIN convs /\ told' \in [Reqs -> SUBSET Conns]
      BY <1>h, <3>1, <3>2 DEF ReqTypes
    <3> QED
      BY <1>h, <1>g, <3>1, <3>3, <3>5, MoveKeeps
  <2>4. CASE Unload(l)
    <3>1. req' = Settled(Open, 0) /\ told' = told
      BY <2>4 DEF Unload, CancelRequests, RemoveState
    <3> QED
      BY <1>h, <1>g, <3>1, SettleKeeps
  <2>5. CASE Stop(l) \/ ResumeCommand(l) \/ Respond(l) \/ Replay(l) \/ MarkUnload(l)
             \/ UnloadTrigger(l)
    BY <2>5, <1>u DEF Stop, ResumeCommand, Respond, Replay, MarkUnload, UnloadTrigger, asks
  <2> QED
    BY <1>5, <2>1, <2>2, <2>3, <2>4, <2>5 DEF Listener
<1>6. ASSUME NEW r \in Reqs, Waiter(r) PROVE ReqTypes'
  <2>1. CASE Resolve(r)
    <3>d. PICK d : d = tx[listeners[req[r].lis].obj]
      OBVIOUS
    <3>1. req[r].lis \in DOMAIN listeners /\ req[r].conv \in DOMAIN convs /\ told' \in [Reqs -> SUBSET Conns]
      BY <2>1, <1>h DEF Resolve, ReqTypes
    <3>2. CASE d = 0
      <4>1. req' = [req EXCEPT ![r].st = "resolved"]
        BY <2>1, <3>d, <3>2 DEF Resolve
      <4>2. ReqMoves(r, "resolved") /\ req'[r].lis = req[r].lis /\ req'[r].conv = req[r].conv
        BY <1>h, <4>1, ReqResolves
      <4> QED
        BY <1>h, <1>g, <3>1, <4>2, MoveKeeps
    <3>3. CASE d # 0
      <4>1. req' = [req EXCEPT ![r].st = "resolving", ![r].lis = d]
        BY <2>1, <3>d, <3>3 DEF Resolve
      <4>2. d \in DOMAIN listeners /\ d \in Nat
        BY <1>h, <3>1, <3>3, <3>d, ListenerFields DEF ListenerTypes
      <4>3. ReqMoves(r, "resolving") /\ req'[r].lis = d /\ req'[r].conv = req[r].conv
        BY <1>h, <4>1, <4>2, ReqGoesTo
      <4> QED
        BY <1>h, <1>g, <3>1, <4>2, <4>3, MoveKeeps
    <3> QED
      BY <3>2, <3>3
  <2>2. CASE ResolveLost(r)
    <3>1. req' = [req EXCEPT ![r].st = "resolved"] /\ told' = told /\ req[r].st = "resolving"
      BY <2>2 DEF ResolveLost
    <3>2. ReqMoves(r, "resolved") /\ req'[r].lis = req[r].lis /\ req'[r].conv = req[r].conv
      BY <1>h, <3>1, ReqResolves
    <3>3. req[r].lis \in DOMAIN listeners /\ req[r].conv \in DOMAIN convs /\ told' \in [Reqs -> SUBSET Conns]
      BY <3>1, <1>h DEF ReqTypes
    <3> QED
      BY <1>h, <1>g, <3>2, <3>3, MoveKeeps
  <2>3. CASE Decide(r)
    <3>1. ReqMoves(r, "done") /\ req'[r].lis = req[r].lis /\ req'[r].conv = req[r].conv
      BY <2>3, <1>h, DecideMoves
    <3>2. req[r].lis \in DOMAIN listeners /\ req[r].conv \in DOMAIN convs /\ told' \in [Reqs -> SUBSET Conns]
      BY <2>3, <1>h DEF ReqTypes, Decide
    <3> QED
      BY <1>h, <1>g, <3>1, <3>2, MoveKeeps
  <2> QED
    BY <1>6, <2>1, <2>2, <2>3 DEF Waiter
<1>7. ASSUME NEW n \in DOMAIN convs, Thread(n) PROVE ReqTypes'
  <2>1. CASE EndTurn(n)
    <3>1. req' = Released(n) /\ told' = told
      BY <2>1 DEF EndTurn
    <3> QED
      BY <1>h, <1>g, <3>1, ReleaseKeeps
  <2>2. CASE Shutdown(n)
    <3>1. req' = Released(n) /\ told' = told
      BY <2>2 DEF Shutdown
    <3> QED
      BY <1>h, <1>g, <3>1, ReleaseKeeps
  <2>3. ASSUME NEW r \in Reqs, AskApproval(n, r) PROVE ReqTypes'
    <3>1. n \in Nat /\ n \in DOMAIN convs /\ told' \in [Reqs -> SUBSET Conns]
      BY <2>3, <1>h, ConvFields DEF AskApproval, ReqTypes
    <3>2. ReqMoves(r, "queued") /\ req'[r].conv = n
      BY <2>3, <1>h, <3>1, AskApprovalMoves
    <3> QED
      BY <1>h, <1>g, <3>1, <3>2, MoveKeeps
  <2>4. CASE Unloaded(n)
    BY <2>4, <1>u DEF Unloaded, asks
  <2> QED
    BY <1>7, <2>1, <2>2, <2>3, <2>4 DEF Thread
<1>8. CASE StartTurn
  BY <1>8, <1>u DEF StartTurn, asks
<1>9. CASE UNCHANGED vars
  BY <1>9, <1>u DEF vars, asks
<1> QED
  BY <1>2, <1>3, <1>4, <1>5, <1>6, <1>7, <1>8, <1>9 DEF Next

(* What most steps leave alone: the approvals in the events, the approvals   *)
(* that are queued, and what the listeners have in hand.                     *)
EventsKept ==
  \A n \in DOMAIN convs' : \A i \in DOMAIN Events(n)' :
    Events(n)'[i] \in Reqs =>
      n \in DOMAIN convs /\ i \in DOMAIN Events(n) /\ Events(n)'[i] = Events(n)[i]

QueuedKept ==
  \A r \in Reqs : req[r].st = "queued" => req'[r].st = "queued" /\ req'[r].conv = req[r].conv

HandsKept ==
  \A l \in DOMAIN listeners' : listeners'[l].pc = "ask" =>
    /\ l \in DOMAIN listeners /\ listeners[l].pc = "ask" /\ listeners'[l].hand = listeners[l].hand
    /\ listeners'[l].conv = listeners[l].conv

Takes     == \E l \in DOMAIN listeners : TakeEvent(l)
Approves  == \E n \in DOMAIN convs, r \in Reqs : AskApproval(n, r)

(* An event that is no approval leaves the queued approvals in place.        *)
LEMMA WordAppended ==
  ASSUME CoreTypes, NEW n \in DOMAIN convs, NEW w \in Words, NEW st, NEW turn,
         CoreMoves(n, st, turn, Append(Events(n), w))
  PROVE  EventsKept
<1>1. Events(n) \in Seq(Reqs \cup Words)
  BY ConvFields
<1>2. \A i \in DOMAIN Append(Events(n), w) :
        Append(Events(n), w)[i] \in Reqs =>
          i \in DOMAIN Events(n) /\ Append(Events(n), w)[i] = Events(n)[i]
  <2>1. w \in Reqs \cup Words /\ w \notin Reqs
    BY Constants
  <2> QED
    BY <1>1, <2>1, Appended
<1> QED
  BY <1>2 DEF CoreMoves, EventsKept

(* Approvals enter and leave the events of core threads only one way.        *)
LEMMA EventsStep ==
  ASSUME TypeOK, [Next]_vars
  PROVE  EventsKept \/ Takes \/ Approves
<1>h. /\ ConnTypes /\ SubscriberTypes /\ ListenerTypes /\ CoreTypes /\ ReqTypes /\ OpTypes
  BY DEF TypeOK
<1>u. UNCHANGED convs => EventsKept \/ Takes \/ Approves
  BY <1>h DEF EventsKept, Events
<1>1. ASSUME NEW c \in Conns, Archive(c) PROVE EventsKept \/ Takes \/ Approves
  <2>1. convs' = Stopping(loaded) /\ loaded \in 0 .. Len(convs)
    BY <1>1, <1>h, ListenerFields DEF Archive, CoreTypes, OpTypes, At, OpRecs
  <2>2. Halts
    BY <1>h, <2>1, StoppingHalts
  <2> QED
    BY <2>2 DEF Halts, EventsKept
<1>2. ASSUME NEW c \in Conns, Resume(c, "resume") \/ Resume(c, "replace") \/ Unsubscribe(c)
                              \/ Close(c) \/ \E r \in Reqs : Answer(c, r)
      PROVE  EventsKept \/ Takes \/ Approves
  BY <1>2, <1>u DEF Resume, Unsubscribe, Close, Answer, core
<1>3. CASE Handler \/ ReplaceTimesOut
  <2>1. CASE Differs
    <3>0. CASE convs' = convs
      BY <3>0 DEF EventsKept, Events
    <3>1. CASE convs' # convs
      <4>1. convs' = Stopping(op.conv) /\ op.conv \in 0 .. Len(convs)
        BY <2>1, <3>1, <1>h DEF Differs, OpTypes, At
      <4>2. Halts
        BY <1>h, <4>1, StoppingHalts
      <4> QED
        BY <4>2 DEF Halts, EventsKept
    <3> QED
      BY <3>0, <3>1
  <2>2. CASE Load
    <3>0. CASE convs' = convs
      BY <3>0 DEF EventsKept, Events
    <3>1. CASE convs' # convs
      <4>1. convs' = Append(convs, NewConv)
        BY <2>2, <3>1 DEF Load, core
      <4>2. /\ Len(convs) \in Nat /\ DOMAIN convs = 1 .. Len(convs)
            /\ DOMAIN convs' = 1 .. (Len(convs) + 1) /\ convs'[Len(convs) + 1] = NewConv
            /\ \A n \in DOMAIN convs : convs'[n] = convs[n] /\ Events(n)' = Events(n)
        BY <1>h, <4>1, LoadSets
      <4>3. convs'[Len(convs) + 1].events = <<>>
        BY <4>2 DEF NewConv
      <4>4. \A n \in DOMAIN convs' : n \in DOMAIN convs \/ convs'[n].events = <<>>
        BY <4>2, <4>3
      <4> QED
        BY <4>2, <4>4 DEF EventsKept, Events
    <3> QED
      BY <3>0, <3>1
  <2>3. CASE Lookup \/ Replace \/ Rejoin \/ Listen \/ ListenSet \/ Enqueue \/ Attach \/ Attached
             \/ AttachedSet \/ Archived \/ HandlerTeardown \/ CloseCheck \/ CloseTeardown
             \/ ReplaceTimesOut
    BY <2>3, <1>u DEF Lookup, Replace, Rejoin, Listen, ListenSet, Enqueue, Attach, Attached,
       AttachedSet, Archived, HandlerTeardown, CloseCheck, CloseTeardown, ReplaceTimesOut, core
  <2> QED
    BY <1>3, <2>1, <2>2, <2>3 DEF Handler
<1>4. ASSUME NEW l \in DOMAIN listeners, Listener(l) \/ UnloadTrigger(l)
      PROVE  EventsKept \/ Takes \/ Approves
  <2>1. CASE TakeEvent(l)
    BY <2>1 DEF Takes
  <2>2. CASE Unload(l)
    <3>1. convs' = Stopping(ConvOf(l)) /\ ConvOf(l) \in 0 .. Len(convs)
      BY <2>2, <1>h, ListenerFields DEF Unload, CoreTypes, OpTypes, At, OpRecs
    <3>2. Halts
      BY <1>h, <3>1, StoppingHalts
    <3> QED
      BY <3>2 DEF Halts, EventsKept
  <2>3. CASE Stop(l) \/ ResumeCommand(l) \/ Respond(l) \/ Replay(l) \/ ResolveCommand(l)
             \/ Ask(l) \/ MarkUnload(l) \/ UnloadTrigger(l)
    BY <2>3, <1>u DEF Stop, ResumeCommand, Respond, Replay, ResolveCommand, Ask, MarkUnload,
       UnloadTrigger, core
  <2> QED
    BY <1>4, <2>1, <2>2, <2>3 DEF Listener
<1>5. ASSUME NEW r \in Reqs, Waiter(r) PROVE EventsKept \/ Takes \/ Approves
  BY <1>5, <1>u DEF Waiter, Resolve, ResolveLost, Decide, core
<1>6. ASSUME NEW n \in DOMAIN convs, Thread(n) PROVE EventsKept \/ Takes \/ Approves
  <2>1. CASE EndTurn(n)
    <3>1. n \in DOMAIN convs /\ "ended" \in Words
      BY <2>1, <1>h DEF EndTurn, CoreTypes, Words
    <3>2. CoreMoves(n, convs[n].st, FALSE, Append(Events(n), "ended"))
      BY <2>1, <3>1, <1>h, EmitSets DEF EndTurn
    <3> QED
      BY <1>h, <3>1, <3>2, WordAppended
  <2>2. CASE Shutdown(n)
    <3>1. /\ CoreMoves(n, "down", FALSE, Events(n)')
          /\ \A j \in DOMAIN Events(n) : j \in DOMAIN Events(n)' /\ Events(n)'[j] = Events(n)[j]
          /\ \A j \in DOMAIN Events(n)' : j \notin DOMAIN Events(n) => Events(n)'[j] \in Words
      BY <2>2, <1>h, ShutdownSets
    <3> QED
      BY <3>1, Constants DEF CoreMoves, EventsKept
  <2>3. ASSUME NEW r \in Reqs, AskApproval(n, r) PROVE EventsKept \/ Takes \/ Approves
    BY <2>3 DEF Approves
  <2>4. CASE Unloaded(n)
    BY <2>4, <1>u DEF Unloaded
  <2> QED
    BY <1>6, <2>1, <2>2, <2>3, <2>4 DEF Thread
<1>7. CASE StartTurn
  <2>1. loaded \in DOMAIN convs /\ "started" \in Words
    BY <1>7, <1>h DEF StartTurn, CoreTypes, Words
  <2>2. CoreMoves(loaded, convs[loaded].st, TRUE, Append(Events(loaded), "started"))
    BY <1>7, <2>1, <1>h, EmitSets DEF StartTurn
  <2> QED
    BY <1>h, <2>1, <2>2, WordAppended
<1>8. CASE UNCHANGED vars
  BY <1>8, <1>u DEF vars, core
<1> QED
  BY <1>1, <1>2, <1>3, <1>4, <1>5, <1>6, <1>7, <1>8 DEF Next

(* Settling open approvals leaves the queued ones queued.                    *)
LEMMA SettleQueued ==
  ASSUME ReqTypes, NEW rs \in SUBSET Open, NEW res \in Nat,
         req' = Settled(rs, res)
  PROVE  QueuedKept
<1>1. rs \in SUBSET Reqs /\ \A r \in rs : req[r].st = "open"
  BY DEF Open
<1>2. \A r \in Reqs \ rs : req'[r] = req[r]
  BY DEF Settled
<1> QED
  BY <1>1, <1>2 DEF QueuedKept

Asks == \E l \in DOMAIN listeners : Ask(l)

(* Only the listener that asks takes an approval out of the queue.           *)
LEMMA QueuedStep ==
  ASSUME TypeOK, CommandInv, [Next]_vars
  PROVE  QueuedKept \/ Asks
<1>h. /\ ConnTypes /\ SubscriberTypes /\ ListenerTypes /\ CoreTypes /\ ReqTypes /\ OpTypes
      /\ CommandInv
  BY DEF TypeOK
<1>u. UNCHANGED req => QueuedKept \/ Asks
  BY <1>h DEF QueuedKept
<1>1. ASSUME NEW p, Teardown(p) PROVE QueuedKept \/ Asks
  BY <1>1, <1>h, <1>u, TeardownSettles, SettleQueued
<1>2. ASSUME NEW c \in Conns, NEW r \in Reqs, Answer(c, r) PROVE QueuedKept \/ Asks
  <2>1. {r} \in SUBSET Open /\ req' = Settled({r}, 0)
    BY <1>2 DEF Answer
  <2> QED
    BY <1>h, <2>1, SettleQueued
<1>3. ASSUME NEW c \in Conns, Resume(c, "resume") \/ Resume(c, "replace") \/ Archive(c)
                              \/ Unsubscribe(c) \/ Close(c)
      PROVE  QueuedKept \/ Asks
  BY <1>3, <1>u DEF Resume, Archive, Unsubscribe, Close, asks
<1>4. CASE Handler \/ ReplaceTimesOut
  <2>1. CASE HandlerTeardown \/ CloseTeardown
    BY <1>1, <2>1 DEF HandlerTeardown, CloseTeardown
  <2>2. CASE Lookup \/ Differs \/ Replace \/ Rejoin \/ Listen \/ ListenSet \/ Enqueue \/ Load
             \/ Attach \/ Attached \/ AttachedSet \/ Archived \/ CloseCheck \/ ReplaceTimesOut
    BY <2>2, <1>u DEF Lookup, Differs, Replace, Rejoin, Listen, ListenSet, Enqueue, Load, Attach,
       Attached, AttachedSet, Archived, CloseCheck, ReplaceTimesOut, asks
  <2> QED
    BY <1>4, <2>1, <2>2 DEF Handler
<1>5. ASSUME NEW l \in DOMAIN listeners, Listener(l) \/ UnloadTrigger(l) PROVE QueuedKept \/ Asks
  <2>1. CASE ResolveCommand(l)
    <3>d. PICK r : r = Head(listeners[l].cmds)[2]
      OBVIOUS
    <3>1. r \in Reqs /\ req[r].st = "resolving"
      BY <2>1, <3>d, <1>h, ResolvingFirst
    <3>2. req' = [req EXCEPT ![r].st = "resolved"]
      BY <2>1, <3>d DEF ResolveCommand
    <3> QED
      BY <1>h, <3>1, <3>2, ReqResolves DEF ReqMoves, QueuedKept
  <2>2. CASE TakeEvent(l)
    <3>1. req' = req \/ req' = Settled(Open, ConvOf(l))
      BY <2>2 DEF TakeEvent
    <3> QED
      BY <1>h, <1>u, <3>1, ListenerFields, SettleQueued
  <2>3. CASE Ask(l)
    BY <2>3 DEF Asks
  <2>4. CASE Unload(l)
    <3>1. req' = Settled(Open, 0)
      BY <2>4 DEF Unload, CancelRequests
    <3> QED
      BY <1>h, <3>1, SettleQueued
  <2>5. CASE Stop(l) \/ ResumeCommand(l) \/ Respond(l) \/ Replay(l) \/ MarkUnload(l)
             \/ UnloadTrigger(l)
    BY <2>5, <1>u DEF Stop, ResumeCommand, Respond, Replay, MarkUnload, UnloadTrigger, asks
  <2> QED
    BY <1>5, <2>1, <2>2, <2>3, <2>4, <2>5 DEF Listener
<1>6. ASSUME NEW r \in Reqs, Waiter(r) PROVE QueuedKept \/ Asks
  <2>1. CASE Resolve(r)
    <3>1. req[r].st = "settled" /\ \A q \in Reqs : q # r => req'[q] = req[q]
      BY <2>1, <1>h DEF Resolve, ReqTypes
    <3> QED
      BY <3>1 DEF QueuedKept
  <2>2. CASE ResolveLost(r)
    <3>1. req[r].st = "resolving" /\ \A q \in Reqs : q # r => req'[q] = req[q]
      BY <2>2, <1>h DEF ResolveLost, ReqTypes
    <3> QED
      BY <3>1 DEF QueuedKept
  <2>3. CASE Decide(r)
    <3>1. req[r].st = "resolved" /\ \A q \in Reqs : q # r => req'[q] = req[q]
      BY <2>3, <1>h DEF Decide, ReqTypes
    <3> QED
      BY <3>1 DEF QueuedKept
  <2> QED
    BY <1>6, <2>1, <2>2, <2>3 DEF Waiter
<1>7. ASSUME NEW n \in DOMAIN convs, Thread(n) PROVE QueuedKept \/ Asks
  <2>1. CASE EndTurn(n)
    <3>1. req' = Released(n)
      BY <2>1 DEF EndTurn
    <3> QED
      BY <1>h, <3>1, ReleasedIs DEF QueuedKept
  <2>2. CASE Shutdown(n)
    <3>1. req' = Released(n)
      BY <2>2 DEF Shutdown
    <3> QED
      BY <1>h, <3>1, ReleasedIs DEF QueuedKept
  <2>3. ASSUME NEW r \in Reqs, AskApproval(n, r) PROVE QueuedKept \/ Asks
    <3>1. req[r].st = "new" /\ \A q \in Reqs : q # r => req'[q] = req[q]
      BY <2>3, <1>h DEF AskApproval, ReqTypes
    <3> QED
      BY <3>1 DEF QueuedKept
  <2>4. CASE Unloaded(n)
    BY <2>4, <1>u DEF Unloaded, asks
  <2> QED
    BY <1>7, <2>1, <2>2, <2>3, <2>4 DEF Thread
<1>8. CASE StartTurn
  BY <1>8, <1>u DEF StartTurn, asks
<1>9. CASE UNCHANGED vars
  BY <1>9, <1>u DEF vars, asks
<1> QED
  BY <1>2, <1>3, <1>4, <1>5, <1>6, <1>7, <1>8, <1>9 DEF Next

(* A command is sent to the listener d.                                      *)
Sends(d, cmd) ==
  /\ Becomes(d, listeners[d].pc)
  /\ Holds(d, Append(listeners[d].cmds, cmd), listeners[d].who, listeners[d].hand,
           listeners[d].to, listeners[d].pending)

(* Enqueue hands a resume to the listener of the entry.                      *)
LEMMA EnqueueSends ==
  ASSUME ListenerTypes, OpTypes, Enqueue
  PROVE  /\ op.conn \in Conns /\ tx' = tx
         /\ \/ listeners' = listeners
            \/ /\ tx[op.obj] \in DOMAIN listeners /\ op.obj \in Objects
               /\ Sends(tx[op.obj], <<"resume", op.conn>>)
<1>0. op.conn \in Conns /\ tx' = tx /\ op.obj \in Objects
  BY Constants DEF Enqueue, At, OpTypes, OpRecs, book, Objects
<1>1. CASE tx[op.obj] = 0
  BY <1>0, <1>1 DEF Enqueue
<1>2. CASE tx[op.obj] # 0
  <2>1. tx[op.obj] \in DOMAIN listeners /\ <<"resume", op.conn>> \in Commands
    BY <1>0, <1>2 DEF ListenerTypes, Commands
  <2>2. Sends(tx[op.obj], <<"resume", op.conn>>)
    BY <1>2, <2>1, CommandSets DEF Enqueue, Sends
  <2> QED
    BY <1>0, <2>1, <2>2
<1> QED
  BY <1>1, <1>2

(* Resolve hands a resolution to the listener, unless there is none.         *)
LEMMA ResolveSends ==
  ASSUME ListenerTypes, ReqTypes, NEW r \in Reqs, Resolve(r)
  PROVE  /\ req[r].st = "settled" /\ tx' = tx
         /\ req'[r].conv = req[r].conv /\ req'[r].blocks = req[r].blocks
         /\ \/ listeners' = listeners /\ ReqMoves(r, "resolved")
               /\ tx[listeners[req[r].lis].obj] = 0 /\ req[r].lis \in DOMAIN listeners
            \/ \E d \in DOMAIN listeners :
                 /\ Sends(d, <<"resolve", r>>) /\ ReqMoves(r, "resolving") /\ req'[r].lis = d
                 /\ \E b \in Objects : tx[b] = d
<1> DEFINE cmd == <<"resolve", r>>
<1>d. PICK d : d = tx[listeners[req[r].lis].obj]
  OBVIOUS
<1>0. req[r].st = "settled" /\ tx' = tx /\ req[r].lis \in DOMAIN listeners
  BY DEF Resolve, book, ReqTypes
<1>1. CASE d = 0
  <2>1. req' = [req EXCEPT ![r].st = "resolved"] /\ listeners' = listeners
    BY <1>d, <1>1 DEF Resolve
  <2> QED
    BY <1>d, <1>1, <1>0, <2>1, ReqResolves
<1>2. CASE d # 0
  <2>1. d \in DOMAIN listeners /\ d \in Nat /\ \E b \in Objects : tx[b] = d
    BY <1>0, <1>d, <1>2, ListenerFields DEF ListenerTypes
  <2>2. /\ req' = [req EXCEPT ![r].st = "resolving", ![r].lis = d]
        /\ listeners' = [listeners EXCEPT ![d].cmds = Append(listeners[d].cmds, cmd)]
    BY <1>d, <1>2 DEF Resolve
  <2>3. cmd \in Commands
    BY DEF Commands
  <2>4. ReqMoves(r, "resolving") /\ req'[r].lis = d /\ req'[r].conv = req[r].conv
        /\ req'[r].blocks = req[r].blocks
    BY <2>1, <2>2, ReqGoesTo
  <2> HIDE DEF cmd
  <2>5. Sends(d, cmd)
    BY <2>1, <2>2, <2>3, CommandSets DEF Sends
  <2> QED
    BY <1>0, <2>1, <2>4, <2>5 DEF cmd
<1> QED
  BY <1>1, <1>2

(* A listener is started on the core thread of the handler; the one that was *)
(* in the channel is told to stop.                                           *)
Starts ==
  LET n == Len(listeners) + 1 IN
  /\ Len(listeners) \in Nat /\ DOMAIN listeners = 1 .. Len(listeners)
  /\ DOMAIN listeners' = 1 .. n /\ Len(listeners') = n
  /\ tx' = [tx EXCEPT ![op.obj] = n]
  /\ listeners'[n].obj = op.obj /\ listeners'[n].conv = op.conv /\ listeners'[n].watch = op.watch
  /\ listeners'[n].pc = "loop" /\ listeners'[n].cmds = <<>> /\ ~ listeners'[n].cancelled
  /\ \A l \in DOMAIN listeners :
       /\ listeners'[l].obj = listeners[l].obj /\ listeners'[l].conv = listeners[l].conv
       /\ listeners'[l].pc = listeners[l].pc /\ listeners'[l].cmds = listeners[l].cmds
       /\ listeners'[l].hand = listeners[l].hand /\ listeners'[l].watch = listeners[l].watch
       /\ listeners'[l].cancelled <=> listeners[l].cancelled \/ tx[op.obj] = l

(* SetListener finds the listener, or starts one.                            *)
LEMMA EnsureStarts ==
  ASSUME ListenerTypes, CoreTypes, OpTypes, ListenSet \/ AttachedSet
  PROVE  /\ op.obj \in Objects /\ op.conv \in DOMAIN convs
         /\ \/ Matches(op.obj, op.conv) /\ UNCHANGED <<tx, listeners>>
            \/ ~ Matches(op.obj, op.conv) /\ Starts
<1>1. /\ SetListener /\ op.obj \in Objects /\ op.conv \in DOMAIN convs /\ op.conv \in Nat
      /\ op.watch \in 0 .. MaxObjects
  BY SetsListener
<1>2. CASE Matches(op.obj, op.conv)
  BY <1>1, <1>2 DEF SetListener
<1>3. CASE ~ Matches(op.obj, op.conv)
  <2> DEFINE n  == Len(listeners) + 1
             ls == Cancelled(op.obj)
  <2>1. /\ Told(ls) /\ Len(listeners') = n
        /\ DOMAIN listeners' = 1 .. n /\ DOMAIN listeners = 1 .. Len(listeners)
        /\ Len(listeners) \in Nat
        /\ listeners'[n] = NewListener(op.obj, op.conv, op.watch)
        /\ \A l \in DOMAIN listeners : listeners'[l] = ls[l]
        /\ tx' = [tx EXCEPT ![op.obj] = n]
    BY <1>1, <1>3, EnsureSets
  <2>2. /\ listeners'[n].conv = op.conv /\ listeners'[n].obj = op.obj
        /\ listeners'[n].watch = op.watch /\ listeners'[n].pc = "loop"
        /\ listeners'[n].cmds = <<>> /\ ~ listeners'[n].cancelled
    BY <2>1 DEF NewListener
  <2>3. op.obj \in 0 .. MaxObjects /\ op.obj # 0
    BY <1>1, Constants DEF Objects
  <2>4. \A l \in DOMAIN listeners : ls[l].cancelled <=> listeners[l].cancelled \/ tx[op.obj] = l
    BY <2>3, CancelledTells
  <2> HIDE DEF ls
  <2>5. \A l \in DOMAIN listeners :
          /\ listeners'[l].obj = listeners[l].obj /\ listeners'[l].conv = listeners[l].conv
          /\ listeners'[l].pc = listeners[l].pc /\ listeners'[l].cmds = listeners[l].cmds
          /\ listeners'[l].hand = listeners[l].hand /\ listeners'[l].watch = listeners[l].watch
          /\ listeners'[l].cancelled <=> listeners[l].cancelled \/ tx[op.obj] = l
    BY <2>1, <2>4 DEF Told
  <2> QED
    BY <1>1, <1>3, <2>1, <2>2, <2>5 DEF Starts
<1> QED
  BY <1>2, <1>3

(* A listener has an approval in hand only when it took it from the events.  *)
LEMMA HandsStep ==
  ASSUME TypeOK, [Next]_vars
  PROVE  HandsKept \/ Takes
<1>h. /\ ConnTypes /\ SubscriberTypes /\ ListenerTypes /\ CoreTypes /\ ReqTypes /\ OpTypes
  BY DEF TypeOK
<1>u. UNCHANGED listeners => HandsKept \/ Takes
  BY <1>h DEF HandsKept
<1>1. ASSUME NEW p, Teardown(p) PROVE HandsKept \/ Takes
  <2>1. Told(listeners')
    BY <1>1, <1>h, TeardownTells
  <2> QED
    BY <2>1 DEF Told, HandsKept
<1>2. ASSUME NEW c \in Conns, Resume(c, "resume") \/ Resume(c, "replace") \/ Unsubscribe(c)
                              \/ Archive(c) \/ Close(c) \/ \E r \in Reqs : Answer(c, r)
      PROVE  HandsKept \/ Takes
  BY <1>2, <1>u DEF Resume, Unsubscribe, Archive, Close, Answer
<1>3. CASE Handler \/ ReplaceTimesOut
  <2>1. CASE HandlerTeardown \/ CloseTeardown
    BY <1>1, <2>1 DEF HandlerTeardown, CloseTeardown
  <2>2. CASE ListenSet \/ AttachedSet
    <3>1. listeners' = listeners \/ Starts
      BY <2>2, <1>h, EnsureStarts
    <3>2. CASE Starts
      <4>1. \A l \in DOMAIN listeners' : l \in DOMAIN listeners \/ listeners'[l].pc = "loop"
        BY <3>2 DEF Starts
      <4> QED
        BY <3>2, <4>1 DEF Starts, HandsKept
    <3> QED
      BY <1>u, <3>1, <3>2
  <2>3. CASE Enqueue
    <3>1. listeners' = listeners \/ Sends(tx[op.obj], <<"resume", op.conn>>)
      BY <2>3, <1>h, EnqueueSends
    <3> QED
      BY <1>u, <3>1 DEF Sends, Becomes, Holds, HandsKept
  <2>4. CASE Lookup \/ Differs \/ Replace \/ Rejoin \/ Listen \/ Load \/ Attach \/ Attached
             \/ Archived \/ CloseCheck \/ ReplaceTimesOut
    BY <2>4, <1>u DEF Lookup, Differs, Replace, Rejoin, Listen, Load, Attach, Attached, Archived,
       CloseCheck, ReplaceTimesOut
  <2> QED
    BY <1>3, <2>1, <2>2, <2>3, <2>4 DEF Handler
<1>4. ASSUME NEW l \in DOMAIN listeners, Listener(l) \/ UnloadTrigger(l) PROVE HandsKept \/ Takes
  <2>1. CASE Stop(l)
    <3>1. Becomes(l, "ended")
      BY <2>1, <1>h, StopSets
    <3> QED
      BY <3>1 DEF Becomes, HandsKept
  <2>2. CASE ResumeCommand(l)
    <3>1. Becomes(l, "loop") \/ Becomes(l, "respond")
      BY <2>2, <1>h, ResumeCommandSets
    <3> QED
      BY <3>1 DEF Becomes, HandsKept
  <2>3. CASE Respond(l)
    <3>1. Becomes(l, "replay")
      BY <2>3, <1>h, RespondSets
    <3> QED
      BY <3>1 DEF Becomes, HandsKept
  <2>4. CASE Replay(l)
    <3>1. Becomes(l, "loop")
      BY <2>4, <1>h, ReplaySets
    <3> QED
      BY <3>1 DEF Becomes, HandsKept
  <2>5. CASE ResolveCommand(l)
    <3>1. Becomes(l, "loop")
      BY <2>5, <1>h, ResolveCommandSets
    <3> QED
      BY <3>1 DEF Becomes, HandsKept
  <2>6. CASE TakeEvent(l)
    BY <2>6 DEF Takes
  <2>7. CASE Ask(l)
    <3>1. Becomes(l, "loop")
      BY <2>7, <1>h, AskSets
    <3> QED
      BY <3>1 DEF Becomes, HandsKept
  <2>8. CASE MarkUnload(l)
    <3>1. Becomes(l, "unload") \/ Becomes(l, "loop")
      BY <2>8, <1>h, MarkUnloadSets
    <3> QED
      BY <3>1 DEF Becomes, HandsKept
  <2>9. CASE Unload(l)
    <3> DEFINE ls == Cancelled(entry)
    <3>1. /\ Told(ls) /\ DOMAIN listeners' = DOMAIN listeners /\ listeners'[l].pc = "ended"
          /\ \A k \in DOMAIN listeners : k # l => listeners'[k] = ls[k]
      BY <2>9, <1>h, UnloadSets
    <3> HIDE DEF ls
    <3> QED
      BY <3>1 DEF Told, HandsKept
  <2>10. CASE UnloadTrigger(l)
    <3>1. Becomes(l, "check")
      BY <2>10, <1>h, UnloadTriggerSets
    <3> QED
      BY <3>1 DEF Becomes, HandsKept
  <2> QED
    BY <1>4, <2>1, <2>2, <2>3, <2>4, <2>5, <2>6, <2>7, <2>8, <2>9, <2>10 DEF Listener
<1>5. ASSUME NEW r \in Reqs, Waiter(r) PROVE HandsKept \/ Takes
  <2>1. CASE Resolve(r)
    <3>1. listeners' = listeners \/ \E d \in DOMAIN listeners : Sends(d, <<"resolve", r>>)
      BY <2>1, <1>h, ResolveSends
    <3> QED
      BY <1>u, <3>1 DEF Sends, Becomes, Holds, HandsKept
  <2>2. CASE ResolveLost(r) \/ Decide(r)
    BY <2>2, <1>u DEF ResolveLost, Decide
  <2> QED
    BY <1>5, <2>1, <2>2 DEF Waiter
<1>6. ASSUME NEW n \in DOMAIN convs, Thread(n) PROVE HandsKept \/ Takes
  BY <1>6, <1>u DEF Thread, EndTurn, Shutdown, Unloaded, AskApproval
<1>7. CASE StartTurn
  BY <1>7, <1>u DEF StartTurn
<1>8. CASE UNCHANGED vars
  BY <1>8, <1>u DEF vars
<1> QED
  BY <1>2, <1>3, <1>4, <1>5, <1>6, <1>7, <1>8 DEF Next

(* An approval travels once, whatever leaves the approvals alone.            *)
LEMMA AskSame ==
  ASSUME TypeOK, AskInv, [Next]_vars, EventsKept, QueuedKept, HandsKept
  PROVE  AskInv'
<1>0. ListenerTypes /\ DOMAIN convs \subseteq DOMAIN convs'
  BY CoreTypesStep DEF TypeOK
<1>1. ASSUME NEW n \in DOMAIN convs', NEW i \in DOMAIN Events(n)', Events(n)'[i] \in Reqs
      PROVE  /\ req'[Events(n)'[i]].st = "queued" /\ req'[Events(n)'[i]].conv = n
             /\ \A j \in DOMAIN Events(n)' : Events(n)'[i] = Events(n)'[j] => i = j
  <2>1. n \in DOMAIN convs /\ i \in DOMAIN Events(n) /\ Events(n)'[i] = Events(n)[i]
    BY <1>1 DEF EventsKept
  <2>2. \A j \in DOMAIN Events(n)' : Events(n)'[j] \in Reqs =>
          j \in DOMAIN Events(n) /\ Events(n)'[j] = Events(n)[j]
    BY DEF EventsKept
  <2>3. /\ req[Events(n)[i]].st = "queued" /\ req[Events(n)[i]].conv = n
        /\ \A j \in DOMAIN Events(n) : Events(n)[i] = Events(n)[j] => i = j
    BY <1>1, <2>1 DEF AskInv
  <2> QED
    BY <1>1, <2>1, <2>2, <2>3 DEF QueuedKept
<1>2. ASSUME NEW l \in DOMAIN listeners', listeners'[l].pc = "ask"
      PROVE  LET r == listeners'[l].hand IN
             /\ r \in Reqs /\ req'[r].st = "queued" /\ req'[r].conv = ConvOf(l)'
             /\ \A i \in DOMAIN Events(ConvOf(l))' : Events(ConvOf(l))'[i] # r
             /\ \A k \in DOMAIN listeners' : k # l /\ listeners'[k].pc = "ask" => listeners'[k].hand # r
  <2>r. PICK r : r = listeners[l].hand
    OBVIOUS
  <2>n. PICK n : n = ConvOf(l)
    OBVIOUS
  <2>1. /\ l \in DOMAIN listeners /\ listeners[l].pc = "ask" /\ listeners'[l].hand = r
        /\ ConvOf(l)' = n
    BY <1>2, <2>r, <2>n DEF HandsKept, ConvOf
  <2>2. /\ r \in Reqs /\ req[r].st = "queued" /\ req[r].conv = n
        /\ \A i \in DOMAIN Events(n) : Events(n)[i] # r
        /\ \A k \in DOMAIN listeners : k # l /\ listeners[k].pc = "ask" => listeners[k].hand # r
    BY <2>1, <2>r, <2>n DEF AskInv
  <2>3. n \in DOMAIN convs'
    BY <1>0, <2>1, <2>n, ListenerFields
  <2>4. \A i \in DOMAIN Events(n)' : Events(n)'[i] # r
    BY <2>2, <2>3 DEF EventsKept
  <2>5. \A i \in DOMAIN Events(ConvOf(l))' : Events(ConvOf(l))'[i] # r
    BY <2>1, <2>4 DEF Events
  <2>6. \A k \in DOMAIN listeners' : k # l /\ listeners'[k].pc = "ask" => listeners'[k].hand # r
    BY <2>2 DEF HandsKept
  <2>7. req'[r].st = "queued" /\ req'[r].conv = n
    BY <2>2 DEF QueuedKept
  <2> QED
    BY <2>1, <2>2, <2>5, <2>6, <2>7
<1> QED
  BY <1>1, <1>2 DEF AskInv

(* A listener takes the first event of its core thread.                     *)
LEMMA AskTakes ==
  ASSUME TypeOK, AskInv, NEW l \in DOMAIN listeners, TakeEvent(l)
  PROVE  AskInv'
<1>h. ListenerTypes /\ CoreTypes /\ SubscriberTypes /\ ReqTypes
  BY DEF TypeOK
<1>n. PICK n : n = ConvOf(l)
  OBVIOUS
<1>e. PICK e : e = Head(Events(n))
  OBVIOUS
<1>0. /\ n \in DOMAIN convs /\ Events(n) \in Seq(Reqs \cup Words) /\ Events(n) # <<>>
  BY <1>h, <1>n, NextEvent DEF TakeEvent
<1>1. CoreMoves(n, convs[n].st, convs[n].turn, Tail(Events(n)))
  BY <1>h, <1>n, TakeEventTakes
<1>2. e = Events(n)[1] /\ 1 \in DOMAIN Events(n)
      /\ \A i \in DOMAIN Tail(Events(n)) : /\ i + 1 \in DOMAIN Events(n) /\ i \in Nat
                                           /\ Tail(Events(n))[i] = Events(n)[i + 1]
  BY <1>0, <1>e, HeadOff
<1>3. QueuedKept
  <2>1. req' = req \/ req' = Settled(Open, ConvOf(l))
    BY DEF TakeEvent
  <2> QED
    BY <1>h, <2>1, ListenerFields, SettleQueued DEF QueuedKept
<1>4. /\ DOMAIN listeners' = DOMAIN listeners
      /\ \A k \in DOMAIN listeners : ConvOf(k)' = ConvOf(k)
      /\ \A k \in DOMAIN listeners : k # l =>
           listeners'[k].pc = listeners[k].pc /\ listeners'[k].hand = listeners[k].hand
  <2>1. IF e \in Reqs THEN Becomes(l, "ask") /\ listeners'[l].hand = e ELSE listeners' = listeners
    BY <1>h, <1>n, <1>e, TakeEventSets DEF Holds
  <2> QED
    BY <2>1 DEF Becomes, ConvOf
<1>i. /\ e \in Reqs => listeners'[l].hand = e
      /\ e \notin Reqs => listeners'[l].pc # "ask"
  <2>1. IF e \in Reqs THEN listeners'[l].hand = e ELSE listeners' = listeners
    BY <1>h, <1>n, <1>e, TakeEventSets DEF Holds
  <2>2. listeners[l].pc = "loop"
    BY DEF TakeEvent, Quiet, Ready
  <2> QED
    BY <2>1, <2>2
<1>5. ASSUME NEW m \in DOMAIN convs', NEW i \in DOMAIN Events(m)', Events(m)'[i] \in Reqs
      PROVE  /\ req'[Events(m)'[i]].st = "queued" /\ req'[Events(m)'[i]].conv = m
             /\ \A j \in DOMAIN Events(m)' : Events(m)'[i] = Events(m)'[j] => i = j
  <2>1. CASE m # n
    <3>1. m \in DOMAIN convs /\ Events(m)' = Events(m)
      BY <1>1, <2>1 DEF CoreMoves
    <3>2. /\ req[Events(m)[i]].st = "queued" /\ req[Events(m)[i]].conv = m
          /\ \A j \in DOMAIN Events(m) : Events(m)[i] = Events(m)[j] => i = j
      BY <1>5, <3>1 DEF AskInv
    <3> QED
      BY <1>3, <1>5, <3>1, <3>2 DEF QueuedKept
  <2>2. CASE m = n
    <3>1. Events(m)' = Tail(Events(n))
      BY <1>1, <2>2 DEF CoreMoves
    <3>2. /\ i + 1 \in DOMAIN Events(n) /\ i \in Nat /\ Events(m)'[i] = Events(n)[i + 1]
      BY <1>2, <3>1
    <3>3. /\ req[Events(n)[i + 1]].st = "queued" /\ req[Events(n)[i + 1]].conv = n
          /\ \A j \in DOMAIN Events(n) : Events(n)[i + 1] = Events(n)[j] => i + 1 = j
      BY <1>0, <1>5, <3>2 DEF AskInv
    <3>4. \A j \in DOMAIN Events(m)' : Events(m)'[i] = Events(m)'[j] => i + 1 = j + 1 /\ j \in Nat
      BY <1>2, <3>1, <3>2, <3>3
    <3> QED
      BY <1>3, <1>5, <2>2, <3>2, <3>3, <3>4 DEF QueuedKept
  <2> QED
    BY <2>1, <2>2
<1>6. ASSUME e \in Reqs
      PROVE  /\ req[e].st = "queued" /\ req[e].conv = n
             /\ \A i \in DOMAIN Tail(Events(n)) : Tail(Events(n))[i] # e
             /\ \A k \in DOMAIN listeners : listeners[k].pc = "ask" => listeners[k].hand # e
  <2>1. /\ req[e].st = "queued" /\ req[e].conv = n
        /\ \A j \in DOMAIN Events(n) : Events(n)[j] = e => j = 1
    BY <1>0, <1>2, <1>6 DEF AskInv
  <2>2. \A i \in DOMAIN Tail(Events(n)) : Tail(Events(n))[i] # e
    <3>1. ASSUME NEW i \in DOMAIN Tail(Events(n)), Tail(Events(n))[i] = e PROVE FALSE
      <4>1. i \in Nat /\ i + 1 = 1 /\ i + 1 \in DOMAIN Events(n)
        BY <1>2, <2>1, <3>1
      <4>2. i \in 1 .. Len(Tail(Events(n)))
        BY <1>0, <1>2, HeadOff
      <4> QED
        BY <4>1, <4>2
    <3> QED
      BY <3>1
  <2>3. ASSUME NEW k \in DOMAIN listeners, listeners[k].pc = "ask", listeners[k].hand = e
        PROVE  FALSE
    <3>1. req[e].conv = ConvOf(k) /\ \A i \in DOMAIN Events(ConvOf(k)) : Events(ConvOf(k))[i] # e
      BY <2>3 DEF AskInv
    <3> QED
      BY <1>2, <2>1, <3>1
  <2> QED
    BY <2>1, <2>2, <2>3
<1>7. ASSUME NEW k \in DOMAIN listeners', listeners'[k].pc = "ask"
      PROVE  LET r == listeners'[k].hand IN
             /\ r \in Reqs /\ req'[r].st = "queued" /\ req'[r].conv = ConvOf(k)'
             /\ \A i \in DOMAIN Events(ConvOf(k))' : Events(ConvOf(k))'[i] # r
             /\ \A j \in DOMAIN listeners' : j # k /\ listeners'[j].pc = "ask" => listeners'[j].hand # r
  <2>r. PICK r : r = listeners'[k].hand
    OBVIOUS
  <2>m. PICK m : m = ConvOf(k)
    OBVIOUS
  <2>0. ConvOf(k)' = m /\ k \in DOMAIN listeners /\ m \in DOMAIN convs
    BY <1>h, <1>4, <2>m, ListenerFields
  <2>1. CASE k = l
    <3>1. e \in Reqs /\ r = e /\ m = n
      <4>1. m = n
        BY <1>n, <2>1, <2>m DEF ConvOf
      <4>2. e \in Reqs
        BY <1>i, <1>7, <2>1
      <4> QED
        BY <1>i, <2>1, <2>r, <4>1, <4>2
    <3>2. Events(n)' = Tail(Events(n))
      BY <1>1 DEF CoreMoves
    <3>3. \A i \in DOMAIN Events(ConvOf(k))' : Events(ConvOf(k))'[i] # r
      BY <1>6, <2>0, <3>1, <3>2 DEF Events
    <3>4. \A j \in DOMAIN listeners' : j # k /\ listeners'[j].pc = "ask" => listeners'[j].hand # r
      BY <1>4, <1>6, <2>1, <3>1
    <3> QED
      BY <1>3, <1>6, <2>0, <2>r, <3>1, <3>3, <3>4 DEF QueuedKept
  <2>2. CASE k # l
    <3>1. listeners[k].pc = "ask" /\ listeners[k].hand = r
      BY <1>4, <1>7, <2>0, <2>2, <2>r
    <3>2. /\ r \in Reqs /\ req[r].st = "queued" /\ req[r].conv = m
          /\ \A i \in DOMAIN Events(m) : Events(m)[i] # r
          /\ \A j \in DOMAIN listeners : j # k /\ listeners[j].pc = "ask" => listeners[j].hand # r
      BY <2>0, <2>m, <3>1 DEF AskInv
    <3>3. \A i \in DOMAIN Events(m)' : Events(m)'[i] # r
      <4>1. CASE m = n
        BY <1>1, <1>2, <3>2, <4>1 DEF CoreMoves
      <4>2. CASE m # n
        BY <1>1, <2>0, <3>2, <4>2 DEF CoreMoves
      <4> QED
        BY <4>1, <4>2
    <3>4. \A i \in DOMAIN Events(ConvOf(k))' : Events(ConvOf(k))'[i] # r
      BY <2>0, <3>3 DEF Events
    <3>5. \A j \in DOMAIN listeners' : j # k /\ listeners'[j].pc = "ask" => listeners'[j].hand # r
      <4>1. CASE e \in Reqs
        BY <1>4, <1>6, <1>i, <3>1, <3>2, <4>1
      <4>2. CASE e \notin Reqs
        BY <1>4, <1>i, <3>2, <4>2
      <4> QED
        BY <4>1, <4>2
    <3> QED
      BY <1>3, <2>0, <2>r, <3>2, <3>4, <3>5 DEF QueuedKept
  <2> QED
    BY <2>1, <2>2
<1> QED
  BY <1>5, <1>7 DEF AskInv

(* A listener opens the approval it has in hand.                            *)
LEMMA AskAsks ==
  ASSUME TypeOK, AskInv, [Next]_vars, NEW l \in DOMAIN listeners, Ask(l)
  PROVE  AskInv'
<1>h. ListenerTypes /\ ReqTypes
  BY DEF TypeOK
<1>r. PICK r : r = listeners[l].hand
  OBVIOUS
<1>1. /\ r \in Reqs /\ req[r].st = "queued" /\ req[r].conv = ConvOf(l)
      /\ \A i \in DOMAIN Events(ConvOf(l)) : Events(ConvOf(l))[i] # r
      /\ \A k \in DOMAIN listeners : k # l /\ listeners[k].pc = "ask" => listeners[k].hand # r
  BY <1>r DEF Ask, AskInv
<1>2. convs' = convs /\ \A q \in Reqs : q # r => req'[q] = req[q]
  BY <1>r, <1>h DEF Ask, core, ReqTypes
<1>3. Becomes(l, "loop")
  BY <1>h, AskSets
<1>4. \A n \in DOMAIN convs : \A i \in DOMAIN Events(n) : Events(n)[i] # r
  BY <1>1 DEF AskInv
<1>5. \A k \in DOMAIN listeners' : listeners'[k].pc = "ask" =>
        k \in DOMAIN listeners /\ listeners'[k] = listeners[k] /\ k # l
  BY <1>3 DEF Becomes
<1>6. \A n \in DOMAIN convs : Events(n)' = Events(n)
  BY <1>2 DEF Events
<1>7. ASSUME NEW n \in DOMAIN convs', NEW i \in DOMAIN Events(n)', Events(n)'[i] \in Reqs
      PROVE  /\ req'[Events(n)'[i]].st = "queued" /\ req'[Events(n)'[i]].conv = n
             /\ \A j \in DOMAIN Events(n)' : Events(n)'[i] = Events(n)'[j] => i = j
  <2>1. n \in DOMAIN convs /\ i \in DOMAIN Events(n) /\ Events(n)' = Events(n) /\ Events(n)[i] # r
    BY <1>2, <1>4, <1>6
  <2>2. /\ req[Events(n)[i]].st = "queued" /\ req[Events(n)[i]].conv = n
        /\ \A j \in DOMAIN Events(n) : Events(n)[i] = Events(n)[j] => i = j
    BY <1>7, <2>1 DEF AskInv
  <2> QED
    BY <1>2, <1>7, <2>1, <2>2
<1>8. ASSUME NEW k \in DOMAIN listeners', listeners'[k].pc = "ask"
      PROVE  LET q == listeners'[k].hand IN
             /\ q \in Reqs /\ req'[q].st = "queued" /\ req'[q].conv = ConvOf(k)'
             /\ \A i \in DOMAIN Events(ConvOf(k))' : Events(ConvOf(k))'[i] # q
             /\ \A j \in DOMAIN listeners' : j # k /\ listeners'[j].pc = "ask" => listeners'[j].hand # q
  <2>q. PICK q : q = listeners[k].hand
    OBVIOUS
  <2>m. PICK m : m = ConvOf(k)
    OBVIOUS
  <2>1. /\ k \in DOMAIN listeners /\ listeners[k].pc = "ask" /\ listeners'[k].hand = q /\ q # r
        /\ ConvOf(k)' = m /\ m \in DOMAIN convs
    BY <1>h, <1>1, <1>5, <1>8, <2>q, <2>m, ListenerFields DEF ConvOf
  <2>2. /\ q \in Reqs /\ req[q].st = "queued" /\ req[q].conv = m
        /\ \A i \in DOMAIN Events(m) : Events(m)[i] # q
        /\ \A j \in DOMAIN listeners : j # k /\ listeners[j].pc = "ask" => listeners[j].hand # q
    BY <2>1, <2>q, <2>m DEF AskInv
  <2>3. \A i \in DOMAIN Events(ConvOf(k))' : Events(ConvOf(k))'[i] # q
    BY <1>2, <2>1, <2>2 DEF Events
  <2>4. \A j \in DOMAIN listeners' : j # k /\ listeners'[j].pc = "ask" => listeners'[j].hand # q
    BY <1>5, <2>2
  <2> QED
    BY <1>2, <2>1, <2>2, <2>3, <2>4
<1> QED
  BY <1>7, <1>8 DEF AskInv

(* A core thread asks for an approval.                                      *)
LEMMA AskApproved ==
  ASSUME TypeOK, AskInv, NEW n \in DOMAIN convs, NEW r \in Reqs, AskApproval(n, r)
  PROVE  AskInv'
<1>h. ListenerTypes /\ CoreTypes /\ ReqTypes
  BY DEF TypeOK
<1>1. req[r].st = "new" /\ ReqMoves(r, "queued") /\ req'[r].conv = n
  <2>1. n \in Nat
    BY <1>h, ConvFields
  <2> QED
    BY <1>h, <2>1, AskApprovalMoves DEF AskApproval
<1>2. CoreMoves(n, convs[n].st, convs[n].turn, Append(Events(n), r))
  <2>1. convs' = Emit(n, r) /\ convs[n].turn \in BOOLEAN
    BY <1>h, ConvFields DEF AskApproval
  <2> QED
    BY <1>h, <2>1, EmitSets
<1>3. \A m \in DOMAIN convs : \A i \in DOMAIN Events(m) : Events(m)[i] # r
  BY <1>1 DEF AskInv
<1>4. listeners' = listeners
  BY DEF AskApproval
<1>5. \A q \in Reqs : q # r => req'[q] = req[q]
  BY <1>1 DEF ReqMoves
<1>6. \A m \in DOMAIN convs : \A i \in DOMAIN Events(m)' :
        Events(m)'[i] = r \/ (i \in DOMAIN Events(m) /\ Events(m)'[i] = Events(m)[i])
  <2>1. Events(n) \in Seq(Reqs \cup Words)
    BY <1>h, ConvFields
  <2>2. \A i \in DOMAIN Append(Events(n), r) :
          Append(Events(n), r)[i] = r \/ (i \in DOMAIN Events(n) /\ Append(Events(n), r)[i] = Events(n)[i])
    BY <2>1, Appended
  <2> QED
    BY <1>2, <2>2 DEF CoreMoves
<1>7. ASSUME NEW m \in DOMAIN convs, NEW i \in DOMAIN Events(m)', Events(m)'[i] = r,
             NEW j \in DOMAIN Events(m)', Events(m)'[j] = r
      PROVE  m = n /\ i = j
  <2>1. m = n
    BY <1>2, <1>3, <1>7 DEF CoreMoves
  <2>2. Events(n) \in Seq(Reqs \cup Words) /\ Events(m)' = Append(Events(n), r)
    BY <1>h, <1>2, <2>1, ConvFields DEF CoreMoves
  <2>3. \A k \in DOMAIN Append(Events(n), r) : k \in DOMAIN Events(n) \/ k = Len(Events(n)) + 1
    BY <2>2, Appended
  <2>4. \A k \in DOMAIN Events(n) : Append(Events(n), r)[k] = Events(n)[k]
    BY <2>2, Appended
  <2> QED
    BY <1>3, <1>7, <2>1, <2>2, <2>3, <2>4
<1>8. ASSUME NEW m \in DOMAIN convs', NEW i \in DOMAIN Events(m)', Events(m)'[i] \in Reqs
      PROVE  /\ req'[Events(m)'[i]].st = "queued" /\ req'[Events(m)'[i]].conv = m
             /\ \A j \in DOMAIN Events(m)' : Events(m)'[i] = Events(m)'[j] => i = j
  <2>0. m \in DOMAIN convs
    BY <1>2 DEF CoreMoves
  <2>1. CASE Events(m)'[i] = r
    <3>1. m = n /\ \A j \in DOMAIN Events(m)' : Events(m)'[j] = r => i = j
      BY <1>7, <2>0, <2>1
    <3> QED
      BY <1>1, <2>1, <3>1 DEF ReqMoves
  <2>2. CASE Events(m)'[i] # r
    <3>1. i \in DOMAIN Events(m) /\ Events(m)'[i] = Events(m)[i]
      BY <1>6, <2>0, <2>2
    <3>2. /\ req[Events(m)[i]].st = "queued" /\ req[Events(m)[i]].conv = m
          /\ \A j \in DOMAIN Events(m) : Events(m)[i] = Events(m)[j] => i = j
      BY <1>8, <2>0, <3>1 DEF AskInv
    <3> QED
      BY <1>5, <1>6, <1>8, <2>0, <2>2, <3>1, <3>2
  <2> QED
    BY <2>1, <2>2
<1>9. ASSUME NEW k \in DOMAIN listeners', listeners'[k].pc = "ask"
      PROVE  LET q == listeners'[k].hand IN
             /\ q \in Reqs /\ req'[q].st = "queued" /\ req'[q].conv = ConvOf(k)'
             /\ \A i \in DOMAIN Events(ConvOf(k))' : Events(ConvOf(k))'[i] # q
             /\ \A j \in DOMAIN listeners' : j # k /\ listeners'[j].pc = "ask" => listeners'[j].hand # q
  <2>q. PICK q : q = listeners[k].hand
    OBVIOUS
  <2>m. PICK m : m = ConvOf(k)
    OBVIOUS
  <2>1. /\ k \in DOMAIN listeners /\ ConvOf(k)' = m /\ m \in DOMAIN convs
    BY <1>h, <1>4, <2>m, ListenerFields DEF ConvOf
  <2>2. /\ q \in Reqs /\ req[q].st = "queued" /\ req[q].conv = m
        /\ \A i \in DOMAIN Events(m) : Events(m)[i] # q
        /\ \A j \in DOMAIN listeners : j # k /\ listeners[j].pc = "ask" => listeners[j].hand # q
    BY <1>4, <1>9, <2>1, <2>q, <2>m DEF AskInv
  <2>3. q # r
    BY <1>1, <2>2
  <2>4. \A i \in DOMAIN Events(m)' : Events(m)'[i] # q
    BY <1>6, <2>1, <2>2, <2>3
  <2>5. \A i \in DOMAIN Events(ConvOf(k))' : Events(ConvOf(k))'[i] # q
    BY <2>1, <2>4 DEF Events
  <2> QED
    BY <1>4, <1>5, <2>1, <2>2, <2>3, <2>5, <2>q
<1> QED
  BY <1>8, <1>9 DEF AskInv

(* An approval travels once.                                                 *)
LEMMA AskInvStep ==
  ASSUME TypeOK, AskInv, CommandInv, [Next]_vars
  PROVE  AskInv'
<1>1. EventsKept \/ Takes \/ Approves
  BY EventsStep
<1>2. QueuedKept \/ Asks
  BY QueuedStep
<1>3. HandsKept \/ Takes
  BY HandsStep
<1>4. CASE Takes
  BY <1>4, AskTakes DEF Takes
<1>5. CASE Asks
  BY <1>5, AskAsks DEF Asks
<1>6. CASE Approves
  BY <1>6, AskApproved DEF Approves
<1>7. CASE EventsKept /\ QueuedKept /\ HandsKept
  BY <1>7, AskSame
<1> QED
  BY <1>1, <1>2, <1>3, <1>4, <1>5, <1>6, <1>7

(* What is left of the command channels.                                     *)
LEMMA WithoutIs ==
  ASSUME NEW b, NEW l, NEW x \in Objects, Without(b, l)[x] # 0
  PROVE  Without(b, l)[x] = tx[x] /\ x # b /\ tx[x] # l
BY DEF Without

(* A listener that goes on keeps its channel ...                             *)
LEMMA ChannelBecomes ==
  ASSUME ListenerTypes, ChannelInv, NEW l \in DOMAIN listeners, NEW p, Becomes(l, p),
         p # "ended", tx' = tx
  PROVE  ChannelInv'
<1>1. \A x \in Objects : tx[x] # 0 => tx[x] \in DOMAIN listeners
  BY DEF ListenerTypes
<1> QED
  BY <1>1 DEF ChannelInv, Becomes

(* ... and so does one that is told to stop.                                 *)
LEMMA ChannelTold ==
  ASSUME ListenerTypes, ChannelInv, Told(listeners'),
         \A x \in Objects : tx'[x] # 0 => tx'[x] = tx[x]
  PROVE  ChannelInv'
<1>1. \A x \in Objects : tx[x] # 0 => tx[x] \in DOMAIN listeners
  BY DEF ListenerTypes
<1> QED
  BY <1>1 DEF ChannelInv, Told

(* A listener that ended gets no commands any more.                          *)
LEMMA ChannelStep ==
  ASSUME TypeOK, ChannelInv, [Next]_vars
  PROVE  ChannelInv'
<1>h. /\ ConnTypes /\ SubscriberTypes /\ ListenerTypes /\ CoreTypes /\ ReqTypes /\ OpTypes
      /\ ChannelInv
  BY DEF TypeOK
<1>u. UNCHANGED <<listeners, tx>> => ChannelInv'
  BY <1>h DEF ChannelInv
<1>1. ASSUME NEW p, Teardown(p) PROVE ChannelInv'
  <2>1. CASE p = "remove"
    <3>1. Told(listeners') /\ tx' = Without(entry, 0)
      BY <1>1, <1>h, <2>1, TeardownTells DEF Teardown, RemoveState
    <3> QED
      BY <1>h, <3>1, WithoutIs, ChannelTold
  <2>2. CASE p # "remove"
    BY <1>1, <1>u, <2>2 DEF Teardown, book
  <2> QED
    BY <2>1, <2>2
<1>2. ASSUME NEW c \in Conns, Resume(c, "resume") \/ Resume(c, "replace") \/ Unsubscribe(c)
                              \/ Archive(c) \/ Close(c) \/ \E r \in Reqs : Answer(c, r)
      PROVE  ChannelInv'
  BY <1>2, <1>u DEF Resume, Unsubscribe, Archive, Close, Answer, book
<1>3. CASE Handler \/ ReplaceTimesOut
  <2>1. CASE HandlerTeardown \/ CloseTeardown
    BY <1>1, <2>1 DEF HandlerTeardown, CloseTeardown
  <2>2. CASE ListenSet \/ AttachedSet
    <3>1. UNCHANGED <<tx, listeners>> \/ (Starts /\ op.obj \in Objects)
      BY <2>2, <1>h, EnsureStarts
    <3>2. CASE Starts /\ op.obj \in Objects
      <4> DEFINE n == Len(listeners) + 1
      <4>1. /\ \A l \in DOMAIN listeners' : l \in DOMAIN listeners \/ l = n
            /\ listeners'[n].pc = "loop" /\ n # 0
            /\ \A x \in Objects : tx'[x] = IF x = op.obj THEN n ELSE tx[x]
            /\ \A l \in DOMAIN listeners : /\ listeners'[l].pc = listeners[l].pc
                                           /\ listeners'[l].cmds = listeners[l].cmds
        BY <1>h, <3>2 DEF Starts, ListenerTypes
      <4>2. \A x \in Objects : tx[x] # 0 => tx[x] \in DOMAIN listeners
        BY <1>h DEF ListenerTypes
      <4> HIDE DEF n
      <4> QED
        BY <1>h, <4>1, <4>2 DEF ChannelInv
    <3> QED
      BY <1>u, <3>1, <3>2
  <2>3. CASE Enqueue
    <3>1. /\ tx' = tx
          /\ \/ listeners' = listeners
             \/ /\ tx[op.obj] \in DOMAIN listeners /\ op.obj \in Objects
                /\ Sends(tx[op.obj], <<"resume", op.conn>>)
      BY <2>3, <1>h, EnqueueSends
    <3>2. CASE /\ tx[op.obj] \in DOMAIN listeners /\ op.obj \in Objects
               /\ Becomes(tx[op.obj], listeners[tx[op.obj]].pc)
      <4>1. tx[op.obj] # 0
        BY <1>h, <3>2, ListenerFields
      <4>2. listeners[tx[op.obj]].pc # "ended"
        BY <1>h, <3>2, <4>1 DEF ChannelInv
      <4> QED
        BY <1>h, <3>1, <3>2, <4>2, ChannelBecomes
    <3> QED
      BY <1>u, <3>1, <3>2 DEF Sends
  <2>4. CASE Lookup \/ Differs \/ Replace \/ Rejoin \/ Listen \/ Load \/ Attach \/ Attached
             \/ Archived \/ CloseCheck \/ ReplaceTimesOut
    BY <2>4, <1>u DEF Lookup, Differs, Replace, Rejoin, Listen, Load, Attach, Attached, Archived,
       CloseCheck, ReplaceTimesOut, HasEntry, book
  <2> QED
    BY <1>3, <2>1, <2>2, <2>3, <2>4 DEF Handler
<1>4. ASSUME NEW l \in DOMAIN listeners, Listener(l) \/ UnloadTrigger(l) PROVE ChannelInv'
  <2>1. CASE Stop(l)
    <3>1. Becomes(l, "ended") /\ listeners'[l].cmds = <<>>
      BY <2>1, <1>h, StopSets DEF Holds
    <3>2. tx' = Without(0, l)
      BY <2>1 DEF Stop, Leaves
    <3>3. \A x \in Objects : tx'[x] # 0 => tx'[x] = tx[x] /\ tx[x] # l /\ tx[x] \in DOMAIN listeners
      BY <1>h, <3>2, WithoutIs DEF ListenerTypes
    <3> QED
      BY <1>h, <3>1, <3>3 DEF ChannelInv, Becomes
  <2>2. CASE ResumeCommand(l)
    <3>1. tx' = tx
      BY <2>2 DEF ResumeCommand, HasEntry, book
    <3>2. Becomes(l, "loop") \/ Becomes(l, "respond")
      BY <2>2, <1>h, ResumeCommandSets
    <3> QED
      BY <1>h, <1>u, <3>1, <3>2, ChannelBecomes
  <2>3. CASE Respond(l)
    <3>1. tx' = tx
      BY <2>3 DEF Respond, book
    <3>2. Becomes(l, "replay")
      BY <2>3, <1>h, RespondSets
    <3> QED
      BY <1>h, <1>u, <3>1, <3>2, ChannelBecomes
  <2>4. CASE Replay(l)
    <3>1. tx' = tx
      BY <2>4 DEF Replay, book
    <3>2. Becomes(l, "loop")
      BY <2>4, <1>h, ReplaySets
    <3> QED
      BY <1>h, <1>u, <3>1, <3>2, ChannelBecomes
  <2>5. CASE ResolveCommand(l)
    <3>1. tx' = tx
      BY <2>5 DEF ResolveCommand, book
    <3>2. Becomes(l, "loop")
      BY <2>5, <1>h, ResolveCommandSets
    <3> QED
      BY <1>h, <1>u, <3>1, <3>2, ChannelBecomes
  <2>6. CASE TakeEvent(l)
    <3>1. tx' = tx
      BY <2>6 DEF TakeEvent, book
    <3>2. Becomes(l, "ask") \/ listeners' = listeners
      BY <2>6, <1>h, TakeEventSets
    <3> QED
      BY <1>h, <1>u, <3>1, <3>2, ChannelBecomes
  <2>7. CASE Ask(l)
    <3>1. tx' = tx
      BY <2>7 DEF Ask, book
    <3>2. Becomes(l, "loop")
      BY <2>7, <1>h, AskSets
    <3> QED
      BY <1>h, <1>u, <3>1, <3>2, ChannelBecomes
  <2>8. CASE MarkUnload(l)
    <3>1. tx' = tx
      BY <2>8 DEF MarkUnload, book
    <3>2. Becomes(l, "unload") \/ Becomes(l, "loop")
      BY <2>8, <1>h, MarkUnloadSets
    <3> QED
      BY <1>h, <1>u, <3>1, <3>2, ChannelBecomes
  <2>9. CASE Unload(l)
    <3> DEFINE ls == Cancelled(entry)
    <3>1. /\ Told(ls) /\ DOMAIN listeners' = DOMAIN listeners /\ listeners'[l].pc = "ended"
          /\ listeners'[l].cmds = <<>>
          /\ \A k \in DOMAIN listeners : k # l => listeners'[k] = ls[k]
      BY <2>9, <1>h, UnloadSets DEF Holds
    <3>2. tx' = Without(entry, l)
      BY <2>9 DEF Unload, RemoveState
    <3>3. \A x \in Objects : tx'[x] # 0 => tx'[x] = tx[x] /\ tx[x] # l /\ tx[x] \in DOMAIN listeners
      BY <1>h, <3>2, WithoutIs DEF ListenerTypes
    <3> HIDE DEF ls
    <3>4. \A k \in DOMAIN listeners : k # l => listeners'[k].pc = listeners[k].pc
                                              /\ listeners'[k].cmds = listeners[k].cmds
      BY <3>1 DEF Told
    <3> QED
      BY <1>h, <3>1, <3>3, <3>4 DEF ChannelInv
  <2>10. CASE UnloadTrigger(l)
    <3>1. tx' = tx
      BY <2>10 DEF UnloadTrigger, book
    <3>2. Becomes(l, "check")
      BY <2>10, <1>h, UnloadTriggerSets
    <3> QED
      BY <1>h, <1>u, <3>1, <3>2, ChannelBecomes
  <2> QED
    BY <1>4, <2>1, <2>2, <2>3, <2>4, <2>5, <2>6, <2>7, <2>8, <2>9, <2>10 DEF Listener
<1>5. ASSUME NEW r \in Reqs, Waiter(r) PROVE ChannelInv'
  <2>1. CASE Resolve(r)
    <3>1. /\ tx' = tx
          /\ \/ listeners' = listeners
             \/ \E d \in DOMAIN listeners : Sends(d, <<"resolve", r>>) /\ \E b \in Objects : tx[b] = d
      BY <2>1, <1>h, ResolveSends
    <3>2. ASSUME NEW d \in DOMAIN listeners, Becomes(d, listeners[d].pc), NEW b \in Objects, tx[b] = d
          PROVE  ChannelInv'
      <4>1. listeners[d].pc # "ended"
        BY <1>h, <3>2, ListenerFields DEF ChannelInv
      <4> QED
        BY <1>h, <3>1, <3>2, <4>1, ChannelBecomes
    <3> QED
      BY <1>u, <3>1, <3>2 DEF Sends
  <2>2. CASE ResolveLost(r) \/ Decide(r)
    BY <2>2, <1>u DEF ResolveLost, Decide, book
  <2> QED
    BY <1>5, <2>1, <2>2 DEF Waiter
<1>6. ASSUME NEW n \in DOMAIN convs, Thread(n) PROVE ChannelInv'
  BY <1>6, <1>u DEF Thread, EndTurn, Shutdown, Unloaded, AskApproval, book
<1>7. CASE StartTurn
  BY <1>7, <1>u DEF StartTurn, book
<1>8. CASE UNCHANGED vars
  BY <1>8, <1>u DEF vars, book
<1> QED
  BY <1>2, <1>3, <1>4, <1>5, <1>6, <1>7, <1>8 DEF Next

(* What most steps leave alone: the commands of the listeners, and the       *)
(* approvals whose resolution waits in a channel.                            *)
CmdsKept ==
  \A l \in DOMAIN listeners' : \/ listeners'[l].cmds = <<>>
                               \/ l \in DOMAIN listeners /\ listeners'[l].cmds = listeners[l].cmds

StillResolving(r) == req'[r].st = "resolving" /\ req'[r].lis = req[r].lis

ResolvingKept == \A r \in Reqs : req[r].st = "resolving" => StillResolving(r)

Channels  == \/ Enqueue \/ \E r \in Reqs : Resolve(r)
             \/ \E l \in DOMAIN listeners : ResumeCommand(l) \/ ResolveCommand(l)

Resolves == \/ \E r \in Reqs : ResolveLost(r)
            \/ \E l \in DOMAIN listeners : ResolveCommand(l)

(* Only requests and resolutions go through the channels.                    *)
LEMMA CmdsStep ==
  ASSUME TypeOK, [Next]_vars
  PROVE  CmdsKept \/ Channels
<1>h. /\ ConnTypes /\ SubscriberTypes /\ ListenerTypes /\ CoreTypes /\ ReqTypes /\ OpTypes
  BY DEF TypeOK
<1>u. UNCHANGED listeners => CmdsKept \/ Channels
  BY <1>h DEF CmdsKept
<1>1. ASSUME NEW p, Teardown(p) PROVE CmdsKept \/ Channels
  <2>1. Told(listeners')
    BY <1>1, <1>h, TeardownTells
  <2> QED
    BY <2>1 DEF Told, CmdsKept
<1>2. ASSUME NEW c \in Conns, Resume(c, "resume") \/ Resume(c, "replace") \/ Unsubscribe(c)
                              \/ Archive(c) \/ Close(c) \/ \E r \in Reqs : Answer(c, r)
      PROVE  CmdsKept \/ Channels
  BY <1>2, <1>u DEF Resume, Unsubscribe, Archive, Close, Answer
<1>3. CASE Handler \/ ReplaceTimesOut
  <2>1. CASE HandlerTeardown \/ CloseTeardown
    BY <1>1, <2>1 DEF HandlerTeardown, CloseTeardown
  <2>2. CASE ListenSet \/ AttachedSet
    <3>1. listeners' = listeners \/ Starts
      BY <2>2, <1>h, EnsureStarts
    <3>2. CASE Starts
      <4>1. \A l \in DOMAIN listeners' : l \in DOMAIN listeners \/ listeners'[l].cmds = <<>>
        BY <3>2 DEF Starts
      <4> QED
        BY <3>2, <4>1 DEF Starts, CmdsKept
    <3> QED
      BY <1>u, <3>1, <3>2
  <2>3. CASE Enqueue
    BY <2>3 DEF Channels
  <2>4. CASE Lookup \/ Differs \/ Replace \/ Rejoin \/ Listen \/ Load \/ Attach \/ Attached
             \/ Archived \/ CloseCheck \/ ReplaceTimesOut
    BY <2>4, <1>u DEF Lookup, Differs, Replace, Rejoin, Listen, Load, Attach, Attached, Archived,
       CloseCheck, ReplaceTimesOut
  <2> QED
    BY <1>3, <2>1, <2>2, <2>3, <2>4 DEF Handler
<1>4. ASSUME NEW l \in DOMAIN listeners, Listener(l) \/ UnloadTrigger(l) PROVE CmdsKept \/ Channels
  <2>1. CASE Stop(l)
    <3>1. Becomes(l, "ended") /\ listeners'[l].cmds = <<>>
      BY <2>1, <1>h, StopSets DEF Holds
    <3> QED
      BY <1>u, <3>1 DEF Becomes, CmdsKept
  <2>2. CASE ResumeCommand(l)
    BY <2>2 DEF Channels
  <2>3. CASE Respond(l)
    <3>1. Becomes(l, "replay") /\ listeners'[l].cmds = listeners[l].cmds
      BY <2>3, <1>h, RespondSets DEF Holds
    <3> QED
      BY <1>u, <3>1 DEF Becomes, CmdsKept
  <2>4. CASE Replay(l)
    <3>1. Becomes(l, "loop") /\ listeners'[l].cmds = listeners[l].cmds
      BY <2>4, <1>h, ReplaySets DEF Holds
    <3> QED
      BY <1>u, <3>1 DEF Becomes, CmdsKept
  <2>5. CASE ResolveCommand(l)
    BY <2>5 DEF Channels
  <2>6. CASE TakeEvent(l)
    <3>1. (Becomes(l, "ask") /\ listeners'[l].cmds = listeners[l].cmds) \/ listeners' = listeners
      BY <2>6, <1>h, TakeEventSets DEF Holds
    <3> QED
      BY <1>u, <3>1 DEF Becomes, CmdsKept
  <2>7. CASE Ask(l)
    <3>1. Becomes(l, "loop") /\ listeners'[l].cmds = listeners[l].cmds
      BY <2>7, <1>h, AskSets DEF Holds
    <3> QED
      BY <1>u, <3>1 DEF Becomes, CmdsKept
  <2>8. CASE MarkUnload(l)
    <3>1. (Becomes(l, "unload") \/ Becomes(l, "loop")) /\ listeners'[l].cmds = listeners[l].cmds
      BY <2>8, <1>h, MarkUnloadSets DEF Holds
    <3> QED
      BY <1>u, <3>1 DEF Becomes, CmdsKept
  <2>9. CASE Unload(l)
    <3> DEFINE ls == Cancelled(entry)
    <3>1. /\ Told(ls) /\ DOMAIN listeners' = DOMAIN listeners /\ listeners'[l].cmds = <<>>
          /\ \A k \in DOMAIN listeners : k # l => listeners'[k] = ls[k]
      BY <2>9, <1>h, UnloadSets DEF Holds
    <3> HIDE DEF ls
    <3> QED
      BY <3>1 DEF Told, CmdsKept
  <2>10. CASE UnloadTrigger(l)
    <3>1. Becomes(l, "check") /\ listeners'[l].cmds = listeners[l].cmds
      BY <2>10, <1>h, UnloadTriggerSets DEF Holds
    <3> QED
      BY <1>u, <3>1 DEF Becomes, CmdsKept
  <2> QED
    BY <1>4, <2>1, <2>2, <2>3, <2>4, <2>5, <2>6, <2>7, <2>8, <2>9, <2>10 DEF Listener
<1>5. ASSUME NEW r \in Reqs, Waiter(r) PROVE CmdsKept \/ Channels
  <2>1. CASE Resolve(r)
    BY <2>1 DEF Channels
  <2>2. CASE ResolveLost(r) \/ Decide(r)
    BY <2>2, <1>u DEF ResolveLost, Decide
  <2> QED
    BY <1>5, <2>1, <2>2 DEF Waiter
<1>6. ASSUME NEW n \in DOMAIN convs, Thread(n) PROVE CmdsKept \/ Channels
  BY <1>6, <1>u DEF Thread, EndTurn, Shutdown, Unloaded, AskApproval
<1>7. CASE StartTurn
  BY <1>7, <1>u DEF StartTurn
<1>8. CASE UNCHANGED vars
  BY <1>8, <1>u DEF vars
<1> QED
  BY <1>2, <1>3, <1>4, <1>5, <1>6, <1>7, <1>8 DEF Next

(* Settling leaves the resolutions under way alone.                          *)
LEMMA SettleResolving ==
  ASSUME ReqTypes, NEW rs \in SUBSET Open, NEW res \in Nat,
         req' = Settled(rs, res)
  PROVE  ResolvingKept
<1>1. rs \subseteq Reqs /\ \A r \in rs : req[r].st = "open"
  BY DEF Open
<1>2. \A r \in Reqs \ rs : req'[r] = req[r]
  BY DEF Settled
<1> QED
  BY <1>1, <1>2 DEF ResolvingKept, StillResolving

(* A request whose resolution waits stays so until a listener takes it.      *)
LEMMA ResolvingStep ==
  ASSUME TypeOK, AskInv, [Next]_vars
  PROVE  ResolvingKept \/ Resolves
<1>h. /\ ConnTypes /\ SubscriberTypes /\ ListenerTypes /\ CoreTypes /\ ReqTypes /\ OpTypes
      /\ AskInv
  BY DEF TypeOK
<1>u. UNCHANGED req => ResolvingKept \/ Resolves
  BY <1>h DEF ResolvingKept, StillResolving
<1>1. ASSUME NEW p, Teardown(p) PROVE ResolvingKept \/ Resolves
  BY <1>1, <1>h, <1>u, TeardownSettles, SettleResolving
<1>2. ASSUME NEW c \in Conns, NEW r \in Reqs, Answer(c, r) PROVE ResolvingKept \/ Resolves
  <2>1. {r} \in SUBSET Open /\ req' = Settled({r}, 0)
    BY <1>2 DEF Answer
  <2> QED
    BY <1>h, <2>1, SettleResolving
<1>3. ASSUME NEW c \in Conns, Resume(c, "resume") \/ Resume(c, "replace") \/ Archive(c)
                              \/ Unsubscribe(c) \/ Close(c)
      PROVE  ResolvingKept \/ Resolves
  BY <1>3, <1>u DEF Resume, Archive, Unsubscribe, Close, asks
<1>4. CASE Handler \/ ReplaceTimesOut
  <2>1. CASE HandlerTeardown \/ CloseTeardown
    BY <1>1, <2>1 DEF HandlerTeardown, CloseTeardown
  <2>2. CASE Lookup \/ Differs \/ Replace \/ Rejoin \/ Listen \/ ListenSet \/ Enqueue \/ Load
             \/ Attach \/ Attached \/ AttachedSet \/ Archived \/ CloseCheck \/ ReplaceTimesOut
    BY <2>2, <1>u DEF Lookup, Differs, Replace, Rejoin, Listen, ListenSet, Enqueue, Load, Attach,
       Attached, AttachedSet, Archived, CloseCheck, ReplaceTimesOut, asks
  <2> QED
    BY <1>4, <2>1, <2>2 DEF Handler
<1>5. ASSUME NEW l \in DOMAIN listeners, Listener(l) \/ UnloadTrigger(l)
      PROVE  ResolvingKept \/ Resolves
  <2>1. CASE ResolveCommand(l)
    BY <2>1 DEF Resolves
  <2>2. CASE TakeEvent(l)
    <3>1. req' = req \/ req' = Settled(Open, ConvOf(l))
      BY <2>2 DEF TakeEvent
    <3> QED
      BY <1>h, <1>u, <3>1, ListenerFields, SettleResolving
  <2>3. CASE Ask(l)
    <3>r. PICK r : r = listeners[l].hand
      OBVIOUS
    <3>1. req[r].st = "queued" /\ \A q \in Reqs : q # r => req'[q] = req[q]
      BY <2>3, <3>r, <1>h DEF Ask, ReqTypes, AskInv
    <3> QED
      BY <3>1 DEF ResolvingKept, StillResolving
  <2>4. CASE Unload(l)
    <3>1. req' = Settled(Open, 0)
      BY <2>4 DEF Unload, CancelRequests
    <3> QED
      BY <1>h, <3>1, SettleResolving
  <2>5. CASE Stop(l) \/ ResumeCommand(l) \/ Respond(l) \/ Replay(l) \/ MarkUnload(l)
             \/ UnloadTrigger(l)
    BY <2>5, <1>u DEF Stop, ResumeCommand, Respond, Replay, MarkUnload, UnloadTrigger, asks
  <2> QED
    BY <1>5, <2>1, <2>2, <2>3, <2>4, <2>5 DEF Listener
<1>6. ASSUME NEW r \in Reqs, Waiter(r) PROVE ResolvingKept \/ Resolves
  <2>1. CASE Resolve(r)
    <3>1. req[r].st = "settled" /\ \A q \in Reqs : q # r => req'[q] = req[q]
      BY <2>1, <1>h DEF Resolve, ReqTypes
    <3> QED
      BY <3>1 DEF ResolvingKept, StillResolving
  <2>2. CASE ResolveLost(r)
    BY <2>2 DEF Resolves
  <2>3. CASE Decide(r)
    <3>1. req[r].st = "resolved" /\ \A q \in Reqs : q # r => req'[q] = req[q]
      BY <2>3, <1>h DEF Decide, ReqTypes
    <3> QED
      BY <3>1 DEF ResolvingKept, StillResolving
  <2> QED
    BY <1>6, <2>1, <2>2, <2>3 DEF Waiter
<1>7. ASSUME NEW n \in DOMAIN convs, Thread(n) PROVE ResolvingKept \/ Resolves
  <2>1. CASE EndTurn(n)
    <3>1. req' = Released(n)
      BY <2>1 DEF EndTurn
    <3> QED
      BY <1>h, <3>1, ReleasedIs DEF ResolvingKept, StillResolving
  <2>2. CASE Shutdown(n)
    <3>1. req' = Released(n)
      BY <2>2 DEF Shutdown
    <3> QED
      BY <1>h, <3>1, ReleasedIs DEF ResolvingKept, StillResolving
  <2>3. ASSUME NEW r \in Reqs, AskApproval(n, r) PROVE ResolvingKept \/ Resolves
    <3>1. req[r].st = "new" /\ \A q \in Reqs : q # r => req'[q] = req[q]
      BY <2>3, <1>h DEF AskApproval, ReqTypes
    <3> QED
      BY <3>1 DEF ResolvingKept, StillResolving
  <2>4. CASE Unloaded(n)
    BY <2>4, <1>u DEF Unloaded, asks
  <2> QED
    BY <1>7, <2>1, <2>2, <2>3, <2>4 DEF Thread
<1>8. CASE StartTurn
  BY <1>8, <1>u DEF StartTurn, asks
<1>9. CASE UNCHANGED vars
  BY <1>9, <1>u DEF vars, asks
<1> QED
  BY <1>2, <1>3, <1>4, <1>5, <1>6, <1>7, <1>8, <1>9 DEF Next

(* Resolutions stay in their channels.                                       *)
LEMMA CmdsSame ==
  ASSUME ListenerTypes, CommandInv, CmdsKept, ResolvingKept
  PROVE  CommandInv'
<1> SUFFICES ASSUME NEW l \in DOMAIN listeners', NEW i \in DOMAIN listeners'[l].cmds,
                    listeners'[l].cmds[i][1] = "resolve"
             PROVE  LET cmd == listeners'[l].cmds[i] IN
                    /\ req'[cmd[2]].st = "resolving" /\ req'[cmd[2]].lis = l
                    /\ \A j \in DOMAIN listeners'[l].cmds : listeners'[l].cmds[j] = cmd => i = j
  BY DEF CommandInv
<1>1. l \in DOMAIN listeners /\ listeners'[l].cmds = listeners[l].cmds
  BY DEF CmdsKept
<1>2. LET cmd == listeners[l].cmds[i] IN
      /\ req[cmd[2]].st = "resolving" /\ req[cmd[2]].lis = l
      /\ \A j \in DOMAIN listeners[l].cmds : listeners[l].cmds[j] = cmd => i = j
  BY <1>1 DEF CommandInv
<1>3. listeners[l].cmds[i] \in Commands
  BY <1>1, ListenerFields
<1>4. listeners[l].cmds[i][2] \in Reqs
  BY <1>1, <1>3 DEF Commands
<1> QED
  BY <1>1, <1>2, <1>4 DEF ResolvingKept, StillResolving

(* A command is put behind the others.                                       *)
LEMMA SendKeeps ==
  ASSUME ListenerTypes, CommandInv, NEW d \in DOMAIN listeners, NEW cmd \in Commands,
         Sends(d, cmd), ResolvingKept,
         cmd[1] = "resolve" => /\ req'[cmd[2]].st = "resolving" /\ req'[cmd[2]].lis = d
                               /\ req[cmd[2]].st # "resolving"
  PROVE  CommandInv'
<1>0. /\ listeners[d].cmds \in Seq(Commands) /\ listeners'[d].cmds = Append(listeners[d].cmds, cmd)
      /\ DOMAIN listeners' = DOMAIN listeners
      /\ \A k \in DOMAIN listeners : k # d => listeners'[k] = listeners[k]
  BY ListenerFields DEF Sends, Becomes, Holds
<1> SUFFICES ASSUME NEW l \in DOMAIN listeners', NEW i \in DOMAIN listeners'[l].cmds,
                    listeners'[l].cmds[i][1] = "resolve"
             PROVE  LET me == listeners'[l].cmds[i] IN
                    /\ req'[me[2]].st = "resolving" /\ req'[me[2]].lis = l
                    /\ \A j \in DOMAIN listeners'[l].cmds : listeners'[l].cmds[j] = me => i = j
  BY DEF CommandInv
<1>1. ASSUME NEW k \in DOMAIN listeners, NEW x \in DOMAIN listeners[k].cmds,
             listeners[k].cmds[x][1] = "resolve"
      PROVE  LET me == listeners[k].cmds[x] IN
             /\ req[me[2]].st = "resolving" /\ req'[me[2]].st = "resolving" /\ req'[me[2]].lis = k
             /\ \A j \in DOMAIN listeners[k].cmds : listeners[k].cmds[j] = me => x = j
  <2>1. LET me == listeners[k].cmds[x] IN
        /\ req[me[2]].st = "resolving" /\ req[me[2]].lis = k
        /\ \A j \in DOMAIN listeners[k].cmds : listeners[k].cmds[j] = me => x = j
    BY <1>1 DEF CommandInv
  <2>2. listeners[k].cmds[x] \in Commands
    BY ListenerFields
  <2>3. listeners[k].cmds[x][2] \in Reqs
    BY <1>1, <2>2 DEF Commands
  <2> QED
    BY <2>1, <2>3 DEF ResolvingKept, StillResolving
<1>2. CASE l # d
  BY <1>0, <1>1, <1>2
<1>3. CASE l = d
  <2> DEFINE n == Len(listeners[d].cmds) + 1
  <2>1. /\ listeners'[d].cmds[n] = cmd /\ \A j \in DOMAIN listeners'[d].cmds : j \in DOMAIN listeners[d].cmds \/ j = n
        /\ \A j \in DOMAIN listeners[d].cmds : listeners'[d].cmds[j] = listeners[d].cmds[j]
    BY <1>0, Appended
  <2> HIDE DEF n
  <2>2. CASE i = n
    <3>1. \A j \in DOMAIN listeners[d].cmds : listeners[d].cmds[j] # cmd
      BY <1>1, <1>3, <2>1, <2>2
    <3> QED
      BY <1>3, <2>1, <2>2, <3>1
  <2>3. CASE i # n
    <3>1. i \in DOMAIN listeners[d].cmds /\ listeners'[d].cmds[i] = listeners[d].cmds[i]
      BY <1>3, <2>1, <2>3
    <3>2. listeners[d].cmds[i][1] = "resolve"
      BY <1>3, <3>1
    <3>3. listeners[d].cmds[i] # cmd
      BY <1>1, <3>1, <3>2
    <3> QED
      BY <1>1, <1>3, <2>1, <3>1, <3>2, <3>3
  <2> QED
    BY <2>2, <2>3
<1> QED
  BY <1>2, <1>3

(* The first command is taken.                                               *)
LEMMA TailKeeps ==
  ASSUME ListenerTypes, CommandInv, NEW l \in DOMAIN listeners, NEW p, Becomes(l, p),
         listeners[l].cmds # <<>>, listeners'[l].cmds = Tail(listeners[l].cmds),
         \A r \in Reqs : req[r].st = "resolving" /\ Head(listeners[l].cmds) # <<"resolve", r>>
                          => StillResolving(r)
  PROVE  CommandInv'
<1>0. /\ listeners[l].cmds \in Seq(Commands) /\ DOMAIN listeners' = DOMAIN listeners
      /\ \A k \in DOMAIN listeners : k # l => listeners'[k] = listeners[k]
  BY ListenerFields DEF Becomes
<1>1. /\ Head(listeners[l].cmds) = listeners[l].cmds[1] /\ 1 \in DOMAIN listeners[l].cmds
      /\ \A j \in DOMAIN Tail(listeners[l].cmds) :
           /\ j + 1 \in DOMAIN listeners[l].cmds /\ j \in Nat
           /\ Tail(listeners[l].cmds)[j] = listeners[l].cmds[j + 1]
  BY <1>0, HeadOff
<1>2. ASSUME NEW k \in DOMAIN listeners, NEW x \in DOMAIN listeners[k].cmds,
             listeners[k].cmds[x][1] = "resolve", k # l \/ x # 1
      PROVE  LET me == listeners[k].cmds[x] IN
             /\ req'[me[2]].st = "resolving" /\ req'[me[2]].lis = k
             /\ \A j \in DOMAIN listeners[k].cmds : listeners[k].cmds[j] = me => x = j
  <2>r. PICK r : r = listeners[k].cmds[x][2]
    OBVIOUS
  <2>1. /\ req[r].st = "resolving" /\ req[r].lis = k
        /\ \A j \in DOMAIN listeners[k].cmds : listeners[k].cmds[j] = listeners[k].cmds[x] => x = j
    BY <1>2, <2>r DEF CommandInv
  <2>2. listeners[k].cmds[x] \in Commands
    BY ListenerFields
  <2>3. r \in Reqs /\ listeners[k].cmds[x] = <<"resolve", r>>
    BY <1>2, <2>2, <2>r DEF Commands
  <2>4. Head(listeners[l].cmds) # <<"resolve", r>>
    <3>1. SUFFICES ASSUME listeners[l].cmds[1] = <<"resolve", r>> PROVE FALSE
      BY <1>1
    <3>2. listeners[l].cmds[1][1] = "resolve" /\ listeners[l].cmds[1][2] = r
      BY <3>1
    <3>3. req[r].lis = l
      BY <1>1, <3>2 DEF CommandInv
    <3>4. k = l
      BY <2>1, <3>3
    <3> QED
      BY <1>1, <1>2, <2>1, <2>3, <3>1, <3>4
  <2>5. StillResolving(r)
    BY <2>1, <2>3, <2>4
  <2> QED
    BY <2>1, <2>r, <2>5 DEF StillResolving
<1> SUFFICES ASSUME NEW k \in DOMAIN listeners', NEW i \in DOMAIN listeners'[k].cmds,
                    listeners'[k].cmds[i][1] = "resolve"
             PROVE  LET me == listeners'[k].cmds[i] IN
                    /\ req'[me[2]].st = "resolving" /\ req'[me[2]].lis = k
                    /\ \A j \in DOMAIN listeners'[k].cmds : listeners'[k].cmds[j] = me => i = j
  BY DEF CommandInv
<1>3. CASE k # l
  BY <1>0, <1>2, <1>3
<1>4. CASE k = l
  <2>0. listeners'[k].cmds = Tail(listeners[l].cmds) /\ Tail(listeners[l].cmds) \in Seq(Commands)
    BY <1>0, <1>4, HeadOff
  <2>1. /\ i + 1 \in DOMAIN listeners[l].cmds /\ i \in Nat /\ i >= 1
        /\ listeners'[k].cmds[i] = listeners[l].cmds[i + 1]
    <3>1. i \in DOMAIN Tail(listeners[l].cmds) /\ i \in 1 .. Len(Tail(listeners[l].cmds))
      BY <2>0
    <3> QED
      BY <1>1, <2>0, <3>1
  <2>2. i + 1 # 1
    BY <2>1
  <2>3. LET me == listeners[l].cmds[i + 1] IN
        /\ req'[me[2]].st = "resolving" /\ req'[me[2]].lis = l
        /\ \A j \in DOMAIN listeners[l].cmds : listeners[l].cmds[j] = me => i + 1 = j
    BY <1>2, <2>1, <2>2
  <2>4. \A j \in DOMAIN listeners'[k].cmds : listeners'[k].cmds[j] = listeners'[k].cmds[i] => i + 1 = j + 1 /\ j \in Nat
    BY <1>1, <2>0, <2>1, <2>3
  <2> QED
    BY <1>4, <2>1, <2>3, <2>4
<1> QED
  BY <1>3, <1>4

(* A resolution waits in one channel, once.                                  *)
LEMMA CommandInvStep ==
  ASSUME TypeOK, AskInv, ChannelInv, CommandInv, [Next]_vars
  PROVE  CommandInv'
<1>h. ListenerTypes /\ CoreTypes /\ ReqTypes /\ OpTypes
  BY DEF TypeOK
<1>1. CASE CmdsKept /\ ResolvingKept
  BY <1>h, <1>1, CmdsSame
<1>2. CASE Enqueue
  <2>1. /\ op.conn \in Conns
        /\ \/ listeners' = listeners
           \/ /\ tx[op.obj] \in DOMAIN listeners
              /\ Sends(tx[op.obj], <<"resume", op.conn>>)
    BY <1>2, <1>h, EnqueueSends
  <2>2. ResolvingKept
    BY <1>2 DEF Enqueue, asks, ResolvingKept, StillResolving
  <2>3. CASE listeners' = listeners
    BY <1>h, <2>2, <2>3, CmdsSame DEF CmdsKept
  <2>4. CASE tx[op.obj] \in DOMAIN listeners /\ Sends(tx[op.obj], <<"resume", op.conn>>)
    <3>c. PICK cmd : cmd = <<"resume", op.conn>>
      OBVIOUS
    <3>d. PICK d \in DOMAIN listeners : d = tx[op.obj]
      BY <2>4
    <3>1. cmd \in Commands /\ cmd[1] # "resolve"
      BY <2>1, <3>c DEF Commands
    <3>2. Sends(d, cmd)
      BY <2>4, <3>c, <3>d
    <3> QED
      BY <1>h, <2>2, <3>1, <3>2, SendKeeps
  <2> QED
    BY <2>1, <2>3, <2>4
<1>3. ASSUME NEW r \in Reqs, Resolve(r) PROVE CommandInv'
  <2>1. /\ req[r].st = "settled"
        /\ \/ listeners' = listeners /\ ReqMoves(r, "resolved")
           \/ \E d \in DOMAIN listeners :
                Sends(d, <<"resolve", r>>) /\ ReqMoves(r, "resolving") /\ req'[r].lis = d
    BY <1>3, <1>h, ResolveSends
  <2>2. ResolvingKept
    BY <2>1 DEF ReqMoves, ResolvingKept, StillResolving
  <2>3. CASE listeners' = listeners
    BY <1>h, <2>2, <2>3, CmdsSame DEF CmdsKept
  <2>4. ASSUME NEW d \in DOMAIN listeners, Sends(d, <<"resolve", r>>), ReqMoves(r, "resolving"),
               req'[r].lis = d
        PROVE  CommandInv'
    <3>c. PICK cmd : cmd = <<"resolve", r>>
      OBVIOUS
    <3>1. cmd \in Commands /\ cmd[2] = r
      BY <3>c DEF Commands
    <3>2. Sends(d, cmd)
      BY <2>4, <3>c
    <3>3. req'[r].st = "resolving"
      BY <2>4 DEF ReqMoves
    <3> QED
      BY <1>h, <2>1, <2>2, <2>4, <3>1, <3>2, <3>3, SendKeeps
  <2> QED
    BY <2>1, <2>3, <2>4
<1>4. ASSUME NEW l \in DOMAIN listeners, ResumeCommand(l) PROVE CommandInv'
  <2>1. /\ listeners[l].cmds # <<>> /\ Head(listeners[l].cmds)[1] = "resume"
    BY <1>4, <1>h, FirstCommand DEF ResumeCommand
  <2>2. /\ Becomes(l, "loop") \/ Becomes(l, "respond")
        /\ listeners'[l].cmds = Tail(listeners[l].cmds)
    BY <1>4, <1>h, ResumeCommandSets DEF Holds
  <2>3. req' = req
    BY <1>4 DEF ResumeCommand, asks
  <2>4. \A r \in Reqs : req[r].st = "resolving" => StillResolving(r)
    BY <2>3 DEF StillResolving
  <2> QED
    BY <1>h, <2>1, <2>2, <2>4, TailKeeps
<1>5. ASSUME NEW l \in DOMAIN listeners, ResolveCommand(l) PROVE CommandInv'
  <2>q. PICK q : q = Head(listeners[l].cmds)[2]
    OBVIOUS
  <2>1. /\ listeners[l].cmds # <<>> /\ Head(listeners[l].cmds) \in Commands /\ q \in Reqs
        /\ Head(listeners[l].cmds)[1] = "resolve"
    BY <1>5, <1>h, <2>q, FirstCommand DEF ResolveCommand
  <2>2. Becomes(l, "loop") /\ listeners'[l].cmds = Tail(listeners[l].cmds)
    BY <1>5, <1>h, ResolveCommandSets DEF Holds
  <2>3. Head(listeners[l].cmds) = <<"resolve", q>>
    BY <2>1, <2>q DEF Commands
  <2>4. req' = [req EXCEPT ![q].st = "resolved"]
    BY <1>5, <2>q DEF ResolveCommand
  <2>5. \A r \in Reqs : r # q => req'[r] = req[r]
    BY <1>h, <2>4 DEF ReqTypes
  <2>6. \A r \in Reqs : req[r].st = "resolving" /\ Head(listeners[l].cmds) # <<"resolve", r>>
                         => StillResolving(r)
    BY <2>3, <2>5 DEF StillResolving
  <2> QED
    BY <1>h, <2>1, <2>2, <2>6, TailKeeps
<1>6. ASSUME NEW r \in Reqs, ResolveLost(r) PROVE CommandInv'
  <2>1. /\ req[r].st = "resolving" /\ listeners[req[r].lis].pc = "ended" /\ listeners' = listeners
        /\ \A q \in Reqs : q # r => req'[q] = req[q]
    BY <1>6, <1>h DEF ResolveLost, ReqTypes
  <2>2. req[r].lis \in DOMAIN listeners
    BY <1>h, <2>1 DEF ReqTypes
  <2>3. listeners[req[r].lis].cmds = <<>>
    BY <2>1, <2>2 DEF ChannelInv
  <2>4. ASSUME NEW l \in DOMAIN listeners, NEW i \in DOMAIN listeners[l].cmds,
               listeners[l].cmds[i][1] = "resolve"
        PROVE  listeners[l].cmds[i][2] \in Reqs /\ listeners[l].cmds[i][2] # r
    <3>1. listeners[l].cmds[i] \in Commands
      BY <1>h, ListenerFields
    <3>2. listeners[l].cmds[i][2] \in Reqs
      BY <2>4, <3>1 DEF Commands
    <3>3. req[listeners[l].cmds[i][2]].lis = l
      BY <2>4 DEF CommandInv
    <3>4. listeners[l].cmds # <<>>
      OBVIOUS
    <3> QED
      BY <2>3, <3>2, <3>3, <3>4
  <2> QED
    BY <2>1, <2>4 DEF CommandInv
<1>7. CmdsKept \/ Channels
  BY CmdsStep
<1>8. ResolvingKept \/ Resolves
  BY ResolvingStep
<1> QED
  BY <1>1, <1>2, <1>3, <1>4, <1>5, <1>6, <1>7, <1>8 DEF Channels, Resolves

StatusRecs == [known : BOOLEAN, running : BOOLEAN, count : Nat]

(* The status after a turn and after an unload counts no approvals.          *)
LEMMA Resets == NotLoaded \in StatusRecs /\ Idle \in StatusRecs /\ NotLoaded.count = 0 /\ Idle.count = 0
BY DEF NotLoaded, Idle, StatusRecs

(* What an event that is not an approval does to the status.                *)
LEMMA StatusAfterIs ==
  ASSUME status \in StatusRecs, NEW e \in Words
  PROVE  StatusAfter(e) \in StatusRecs /\ StatusAfter(e).count \in {0, status.count}
<1>1. CASE e = "started"
  BY <1>1 DEF StatusAfter, StatusRecs
<1>2. CASE e = "ended"
  BY <1>2, Resets DEF StatusAfter
<1>3. CASE e = "shutdown"
  BY <1>3, Resets DEF StatusAfter
<1> QED
  BY <1>1, <1>2, <1>3 DEF Words

(* The status keeps its form.                                                *)
LEMMA StatusStep ==
  ASSUME TypeOK, [Next]_vars
  PROVE  status' \in StatusRecs
<1>h. /\ ConnTypes /\ SubscriberTypes /\ ListenerTypes /\ CoreTypes /\ ReqTypes /\ OpTypes
      /\ StatusTypes
  BY DEF TypeOK
<1>s. status \in StatusRecs
  BY <1>h, Constants DEF StatusTypes, StatusRecs
<1>u. UNCHANGED status => status' \in StatusRecs
  BY <1>s
<1>1. ASSUME NEW p, Teardown(p) PROVE status' \in StatusRecs
  BY <1>1, <1>u, Resets DEF Teardown
<1>2. ASSUME NEW c \in Conns, Resume(c, "resume") \/ Resume(c, "replace") \/ Unsubscribe(c)
                              \/ Archive(c) \/ Close(c) \/ \E r \in Reqs : Answer(c, r)
      PROVE  status' \in StatusRecs
  BY <1>2, <1>u DEF Resume, Unsubscribe, Archive, Close, Answer
<1>3. CASE Handler \/ ReplaceTimesOut
  <2>1. CASE HandlerTeardown \/ CloseTeardown
    BY <1>1, <2>1 DEF HandlerTeardown, CloseTeardown
  <2>2. CASE Attach \/ Attached \/ AttachedSet
    BY <2>2, <1>s DEF Attach, Attached, AttachedSet, StatusRecs
  <2>3. CASE Lookup \/ Differs \/ Replace \/ Rejoin \/ Listen \/ ListenSet \/ Enqueue \/ Load \/ Archived
             \/ CloseCheck \/ ReplaceTimesOut
    BY <2>3, <1>u DEF Lookup, Differs, Replace, Rejoin, Listen, ListenSet, Enqueue, Load, Archived,
       CloseCheck, ReplaceTimesOut
  <2> QED
    BY <1>3, <2>1, <2>2, <2>3 DEF Handler
<1>4. ASSUME NEW l \in DOMAIN listeners, Listener(l) \/ UnloadTrigger(l)
      PROVE  status' \in StatusRecs
  <2>1. CASE TakeEvent(l)
    <3>e. PICK e : e = Head(Events(ConvOf(l)))
      OBVIOUS
    <3>1. e \in Reqs \cup Words
      BY <2>1, <1>h, <3>e, NextEvent DEF TakeEvent
    <3>2. status' = status \/ (e \in Words /\ status' = StatusAfter(e))
      BY <2>1, <3>e, <3>1 DEF TakeEvent, Events
    <3> QED
      BY <1>s, <3>2, StatusAfterIs
  <2>2. CASE Ask(l)
    <3>c. PICK c \in Nat : c = status.count + 1
      BY <1>s DEF StatusRecs
    <3>1. status' = [status EXCEPT !.known = TRUE, !.count = c]
      BY <2>2, <3>c DEF Ask
    <3> QED
      BY <1>s, <3>1 DEF StatusRecs
  <2>3. CASE Stop(l) \/ ResumeCommand(l) \/ Respond(l) \/ Replay(l) \/ ResolveCommand(l)
             \/ MarkUnload(l) \/ Unload(l) \/ UnloadTrigger(l)
    BY <2>3, <1>u DEF Stop, ResumeCommand, Respond, Replay, ResolveCommand, MarkUnload, Unload,
       UnloadTrigger
  <2> QED
    BY <1>4, <2>1, <2>2, <2>3 DEF Listener
<1>5. ASSUME NEW r \in Reqs, Waiter(r) PROVE status' \in StatusRecs
  <2>1. CASE Decide(r)
    <3>c. PICK c \in Nat : c = IF status.count = 0 THEN 0 ELSE status.count - 1
      BY <1>s DEF StatusRecs
    <3>1. status' = [status EXCEPT !.known = TRUE, !.count = c]
      BY <2>1, <3>c DEF Decide
    <3> QED
      BY <1>s, <3>1 DEF StatusRecs
  <2>2. CASE Resolve(r) \/ ResolveLost(r)
    BY <2>2, <1>u DEF Resolve, ResolveLost
  <2> QED
    BY <1>5, <2>1, <2>2 DEF Waiter
<1>6. ASSUME NEW n \in DOMAIN convs, Thread(n) PROVE status' \in StatusRecs
  <2>1. CASE Unloaded(n)
    BY <2>1, <1>h, Resets, <1>s DEF Unloaded, StatusRecs
  <2>2. CASE EndTurn(n) \/ Shutdown(n) \/ \E r \in Reqs : AskApproval(n, r)
    BY <2>2, <1>u DEF EndTurn, Shutdown, AskApproval
  <2> QED
    BY <1>6, <2>1, <2>2 DEF Thread
<1>7. CASE StartTurn
  BY <1>7, <1>u DEF StartTurn
<1>8. CASE UNCHANGED vars
  BY <1>8, <1>u DEF vars
<1> QED
  BY <1>2, <1>3, <1>4, <1>5, <1>6, <1>7, <1>8 DEF Next

(* The guards are kept when no approval loses its own, and the count does    *)
(* not grow.                                                                 *)
LEMMA GuardsFinite ==
  /\ IsFiniteSet(Guarded) /\ Cardinality(Guarded) \in Nat /\ IsFiniteSet(Guarded')
  /\ Cardinality(Guarded)' \in Nat /\ Cardinality(Guarded') <= Cardinality(Reqs)
<1>1. Guarded \subseteq Reqs /\ Guarded' \subseteq Reqs
  BY DEF Guarded
<1> QED
  BY <1>1, Constants, FS_Subset, FS_CardinalityType

(* Guards that stay cover the count.                                         *)
LEMMA GuardsKept ==
  ASSUME status \in StatusRecs, GuardInv, Guarded \subseteq Guarded',
         status'.count \in {0, status.count}
  PROVE  GuardInv'
<1>1. Cardinality(Guarded) <= Cardinality(Guarded')
  BY GuardsFinite, FS_Subset
<1>2. status.count \in Nat /\ status.count <= Cardinality(Guarded)
  BY DEF StatusRecs, GuardInv
<1>3. status'.count <= Cardinality(Guarded')
  BY <1>1, <1>2, GuardsFinite
<1> QED
  BY <1>3 DEF GuardInv

(* An approval that is settled keeps its guard.                              *)
LEMMA SettleGuards ==
  ASSUME ReqTypes, NEW rs \in SUBSET Open, NEW res \in Nat,
         req' = Settled(rs, res)
  PROVE  Guarded \subseteq Guarded'
<1>1. rs \subseteq Reqs
  BY DEF Open
<1>2. /\ \A r \in Reqs \ rs : req'[r] = req[r]
      /\ \A r \in rs : req'[r].st = "settled"
  BY <1>1 DEF Settled, ReqTypes, ReqRecs
<1> QED
  BY <1>1, <1>2 DEF Guarded

(* The count of guards never exceeds the approvals that hold one.            *)
LEMMA GuardStep ==
  ASSUME TypeOK, AskInv, CommandInv, GuardInv, [Next]_vars
  PROVE  GuardInv'
<1>h. /\ ConnTypes /\ SubscriberTypes /\ ListenerTypes /\ CoreTypes /\ ReqTypes /\ OpTypes
      /\ StatusTypes
  BY DEF TypeOK
<1>s. status \in StatusRecs
  BY <1>h, Constants DEF StatusTypes, StatusRecs
<1>i. AskInv /\ CommandInv /\ GuardInv
  OBVIOUS
<1>u. UNCHANGED <<req, status>> => GuardInv'
  BY <1>i DEF GuardInv, Guarded
<1>1. ASSUME NEW p, Teardown(p) PROVE GuardInv'
  <2>1. (req' = Settled(Open, 0) \/ req' = req) /\ status'.count \in {0, status.count}
    BY <1>1, TeardownSettles, Resets DEF Teardown
  <2>2. Guarded \subseteq Guarded'
    BY <1>h, <2>1, SettleGuards DEF Guarded
  <2> QED
    BY <1>s, <1>i, <2>1, <2>2, GuardsKept
<1>2. ASSUME NEW c \in Conns, NEW r \in Reqs, Answer(c, r) PROVE GuardInv'
  <2>1. {r} \in SUBSET Open /\ req' = Settled({r}, 0) /\ status' = status
    BY <1>2 DEF Answer
  <2>2. Guarded \subseteq Guarded'
    BY <1>h, <2>1, SettleGuards
  <2> QED
    BY <1>s, <1>i, <2>1, <2>2, GuardsKept
<1>3. ASSUME NEW c \in Conns, Resume(c, "resume") \/ Resume(c, "replace") \/ Archive(c)
                              \/ Unsubscribe(c) \/ Close(c)
      PROVE  GuardInv'
  BY <1>3, <1>u DEF Resume, Archive, Unsubscribe, Close, asks
<1>4. CASE Handler \/ ReplaceTimesOut
  <2>1. CASE HandlerTeardown \/ CloseTeardown
    BY <1>1, <2>1 DEF HandlerTeardown, CloseTeardown
  <2>2. CASE Attach \/ Attached \/ AttachedSet
    <3>1. req' = req /\ status'.count \in {0, status.count}
      BY <2>2, <1>s, Resets DEF Attach, Attached, AttachedSet, asks, StatusRecs
    <3>2. Guarded \subseteq Guarded'
      BY <3>1 DEF Guarded
    <3> QED
      BY <1>s, <1>i, <3>1, <3>2, GuardsKept
  <2>3. CASE Lookup \/ Differs \/ Replace \/ Rejoin \/ Listen \/ ListenSet \/ Enqueue \/ Load \/ Archived
             \/ CloseCheck \/ ReplaceTimesOut
    BY <2>3, <1>u DEF Lookup, Differs, Replace, Rejoin, Listen, ListenSet, Enqueue, Load, Archived,
       CloseCheck, ReplaceTimesOut, asks
  <2> QED
    BY <1>4, <2>1, <2>2, <2>3 DEF Handler
<1>5. ASSUME NEW l \in DOMAIN listeners, Listener(l) \/ UnloadTrigger(l) PROVE GuardInv'
  <2>1. CASE ResolveCommand(l)
    <3>r. PICK r : r = Head(listeners[l].cmds)[2]
      OBVIOUS
    <3>1. req' = [req EXCEPT ![r].st = "resolved"] /\ status' = status /\ r \in Reqs
      BY <2>1, <3>r, <1>h, <1>i, ResolvingFirst DEF ResolveCommand
    <3>2. ReqMoves(r, "resolved")
      BY <1>h, <3>1, ReqResolves
    <3>3. Guarded \subseteq Guarded'
      BY <3>2 DEF Guarded, ReqMoves
    <3> QED
      BY <1>s, <1>i, <3>1, <3>3, GuardsKept
  <2>2. CASE TakeEvent(l)
    <3>e. PICK e : e = Head(Events(ConvOf(l)))
      OBVIOUS
    <3>1. e \in Reqs \cup Words
      BY <2>2, <1>h, <3>e, NextEvent DEF TakeEvent
    <3>2. status' = status \/ (e \in Words /\ status' = StatusAfter(e))
      BY <2>2, <3>e, <3>1 DEF TakeEvent, Events
    <3>3. status'.count \in {0, status.count}
      BY <1>s, <3>2, StatusAfterIs
    <3>4. req' = req \/ req' = Settled(Open, ConvOf(l))
      BY <2>2 DEF TakeEvent
    <3>5. Guarded \subseteq Guarded'
      BY <1>h, <3>4, ListenerFields, SettleGuards DEF Guarded
    <3> QED
      BY <1>s, <1>i, <3>3, <3>5, GuardsKept
  <2>3. CASE Ask(l)
    <3>r. PICK r : r = listeners[l].hand
      OBVIOUS
    <3>1. r \in Reqs /\ req[r].st = "queued" /\ l \in Nat
      BY <2>3, <1>h, <1>i, <3>r, ListenerFields DEF Ask, AskInv
    <3>2. req' = [req EXCEPT ![r].st = "open", ![r].lis = l] /\ status'.count = status.count + 1
      BY <2>3, <1>s, <3>r DEF Ask, StatusRecs
    <3>3. ReqMoves(r, "open")
      BY <1>h, <3>1, <3>2, ReqGoesTo
    <3>4. Guarded' = Guarded \cup {r} /\ r \notin Guarded
      BY <3>1, <3>3 DEF Guarded, ReqMoves
    <3>5. Cardinality(Guarded') = Cardinality(Guarded) + 1
      BY <3>4, GuardsFinite, FS_AddElement
    <3>6. status.count \in Nat /\ status.count <= Cardinality(Guarded)
      BY <1>s, <1>i DEF StatusRecs, GuardInv
    <3>7. status'.count <= Cardinality(Guarded')
      BY <3>2, <3>5, <3>6, GuardsFinite
    <3> QED
      BY <3>7 DEF GuardInv
  <2>4. CASE Unload(l)
    <3>1. req' = Settled(Open, 0) /\ status'.count \in {0, status.count}
      BY <2>4 DEF Unload, CancelRequests
    <3>2. Guarded \subseteq Guarded'
      BY <1>h, <3>1, SettleGuards
    <3> QED
      BY <1>s, <1>i, <3>1, <3>2, GuardsKept
  <2>5. CASE Stop(l) \/ ResumeCommand(l) \/ Respond(l) \/ Replay(l) \/ MarkUnload(l)
             \/ UnloadTrigger(l)
    BY <2>5, <1>u DEF Stop, ResumeCommand, Respond, Replay, MarkUnload, UnloadTrigger, asks
  <2> QED
    BY <1>5, <2>1, <2>2, <2>3, <2>4, <2>5 DEF Listener
<1>6. ASSUME NEW r \in Reqs, Waiter(r) PROVE GuardInv'
  <2>1. CASE Resolve(r)
    <3>1. ReqMoves(r, "resolved") \/ ReqMoves(r, "resolving")
      BY <2>1, <1>h, ResolveSends
    <3>2. Guarded \subseteq Guarded'
      BY <3>1 DEF Guarded, ReqMoves
    <3>3. status' = status
      BY <2>1 DEF Resolve
    <3> QED
      BY <1>s, <1>i, <3>2, <3>3, GuardsKept
  <2>2. CASE ResolveLost(r)
    <3>1. req' = [req EXCEPT ![r].st = "resolved"] /\ status' = status
      BY <2>2 DEF ResolveLost
    <3>2. ReqMoves(r, "resolved")
      BY <1>h, <3>1, ReqResolves
    <3>3. Guarded \subseteq Guarded'
      BY <3>2 DEF Guarded, ReqMoves
    <3> QED
      BY <1>s, <1>i, <3>1, <3>3, GuardsKept
  <2>3. CASE Decide(r)
    <3>1. req[r].st = "resolved" /\ ReqMoves(r, "done")
      BY <2>3, <1>h, DecideMoves DEF Decide
    <3>2. Guarded' = Guarded \ {r} /\ r \in Guarded
      BY <3>1 DEF Guarded, ReqMoves
    <3>3. Cardinality(Guarded') = Cardinality(Guarded) - 1
      BY <3>2, GuardsFinite, FS_RemoveElement
    <3>4. status.count \in Nat /\ status.count <= Cardinality(Guarded)
      BY <1>s, <1>i DEF StatusRecs, GuardInv
    <3>5. status'.count = IF status.count = 0 THEN 0 ELSE status.count - 1
      BY <2>3, <1>s DEF Decide, StatusRecs
    <3>6. status'.count <= Cardinality(Guarded')
      BY <3>3, <3>4, <3>5, GuardsFinite
    <3> QED
      BY <3>6 DEF GuardInv
  <2> QED
    BY <1>6, <2>1, <2>2, <2>3 DEF Waiter
<1>7. ASSUME NEW n \in DOMAIN convs, Thread(n) PROVE GuardInv'
  <2>1. CASE EndTurn(n)
    <3>1. req' = Released(n) /\ status' = status
      BY <2>1 DEF EndTurn
    <3>2. Guarded \subseteq Guarded'
      BY <1>h, <3>1, ReleasedIs DEF Guarded
    <3> QED
      BY <1>s, <1>i, <3>1, <3>2, GuardsKept
  <2>2. CASE Shutdown(n)
    <3>1. req' = Released(n) /\ status' = status
      BY <2>2 DEF Shutdown
    <3>2. Guarded \subseteq Guarded'
      BY <1>h, <3>1, ReleasedIs DEF Guarded
    <3> QED
      BY <1>s, <1>i, <3>1, <3>2, GuardsKept
  <2>3. CASE Unloaded(n)
    <3>1. req' = req /\ status'.count \in {0, status.count}
      BY <2>3, <1>s, Resets DEF Unloaded, asks, StatusRecs
    <3>2. Guarded \subseteq Guarded'
      BY <3>1 DEF Guarded
    <3> QED
      BY <1>s, <1>i, <3>1, <3>2, GuardsKept
  <2>4. ASSUME NEW r \in Reqs, AskApproval(n, r) PROVE GuardInv'
    <3>1. req[r].st = "new" /\ status' = status /\ \A q \in Reqs : q # r => req'[q] = req[q]
      BY <2>4, <1>h DEF AskApproval, ReqTypes
    <3>2. Guarded \subseteq Guarded'
      BY <3>1 DEF Guarded
    <3> QED
      BY <1>s, <1>i, <3>1, <3>2, GuardsKept
  <2> QED
    BY <1>7, <2>1, <2>2, <2>3, <2>4 DEF Thread
<1>8. CASE StartTurn
  BY <1>8, <1>u DEF StartTurn, asks
<1>9. CASE UNCHANGED vars
  BY <1>9, <1>u DEF vars, asks
<1> QED
  BY <1>2, <1>3, <1>4, <1>5, <1>6, <1>7, <1>8, <1>9 DEF Next

(* No guard is counted twice.                                                *)
LEMMA StatusTypesStep ==
  ASSUME TypeOK, AskInv, CommandInv, GuardInv, [Next]_vars
  PROVE  StatusTypes'
<1>1. status' \in StatusRecs /\ GuardInv'
  BY StatusStep, GuardStep
<1>2. status'.count <= Cardinality(Guarded') /\ Cardinality(Guarded') <= Cardinality(Reqs)
      /\ Cardinality(Guarded)' \in Nat /\ Cardinality(Reqs) \in Nat
  BY <1>1, GuardsFinite, Constants DEF GuardInv
<1>3. status'.count \in 0 .. Cardinality(Reqs)
  BY <1>1, <1>2 DEF StatusRecs
<1> QED
  BY <1>1, <1>3 DEF StatusTypes, StatusRecs

(* The listeners that are unloading the thread stay at it.                   *)
MarkStays ==
  \A l \in DOMAIN listeners : listeners[l].pc = "unload" =>
    l \in DOMAIN listeners' /\ listeners'[l].pc = "unload" /\ listeners'[l].watch = listeners[l].watch

Unloads == \E l \in DOMAIN listeners : Unload(l)

(* Only the unload itself ends it.                                           *)
LEMMA MarkStaysStep ==
  ASSUME TypeOK, [Next]_vars
  PROVE  MarkStays \/ Unloads
<1>h. /\ ConnTypes /\ SubscriberTypes /\ ListenerTypes /\ CoreTypes /\ ReqTypes /\ OpTypes
  BY DEF TypeOK
<1>u. UNCHANGED listeners => MarkStays
  BY DEF MarkStays
<1>b. ASSUME NEW l \in DOMAIN listeners, NEW p, Becomes(l, p),
             listeners[l].pc # "unload" \/ p = listeners[l].pc
      PROVE  MarkStays
  BY <1>b DEF Becomes, MarkStays
<1>1. ASSUME NEW p, Teardown(p) PROVE MarkStays
  <2>1. Told(listeners')
    BY <1>1, <1>h, TeardownTells
  <2> QED
    BY <2>1 DEF Told, MarkStays
<1>2. ASSUME NEW c \in Conns, Resume(c, "resume") \/ Resume(c, "replace") \/ Unsubscribe(c)
                              \/ Archive(c) \/ Close(c) \/ \E r \in Reqs : Answer(c, r)
      PROVE  MarkStays
  BY <1>2, <1>u DEF Resume, Unsubscribe, Archive, Close, Answer
<1>3. CASE Handler \/ ReplaceTimesOut
  <2>1. CASE HandlerTeardown \/ CloseTeardown
    BY <1>1, <2>1 DEF HandlerTeardown, CloseTeardown
  <2>2. CASE ListenSet \/ AttachedSet
    <3>1. listeners' = listeners \/ Starts
      BY <2>2, <1>h, EnsureStarts
    <3>2. CASE Starts
      <4>1. \A l \in DOMAIN listeners : l \in DOMAIN listeners'
        BY <3>2 DEF Starts
      <4> QED
        BY <3>2, <4>1 DEF Starts, MarkStays
    <3> QED
      BY <1>u, <3>1, <3>2
  <2>3. CASE Enqueue
    <3>1. listeners' = listeners \/ (tx[op.obj] \in DOMAIN listeners
                                     /\ Sends(tx[op.obj], <<"resume", op.conn>>))
      BY <2>3, <1>h, EnqueueSends
    <3> QED
      BY <1>u, <1>b, <3>1 DEF Sends
  <2>4. CASE Lookup \/ Differs \/ Replace \/ Rejoin \/ Listen \/ Load \/ Attach \/ Attached
             \/ Archived \/ CloseCheck \/ ReplaceTimesOut
    BY <2>4, <1>u DEF Lookup, Differs, Replace, Rejoin, Listen, Load, Attach, Attached, Archived,
       CloseCheck, ReplaceTimesOut
  <2> QED
    BY <1>3, <2>1, <2>2, <2>3, <2>4 DEF Handler
<1>4. ASSUME NEW l \in DOMAIN listeners, Listener(l) \/ UnloadTrigger(l)
      PROVE  MarkStays \/ Unloads
  <2>1. CASE Stop(l)
    <3>1. listeners[l].pc # "unload" /\ (Becomes(l, "ended"))
      BY <2>1, <1>h, StopSets DEF Stop
    <3> QED
      BY <3>1, <1>b
  <2>2. CASE ResumeCommand(l)
    <3>1. listeners[l].pc # "unload" /\ (Becomes(l, "loop") \/ Becomes(l, "respond"))
      BY <2>2, <1>h, ResumeCommandSets DEF ResumeCommand, Ready
    <3> QED
      BY <3>1, <1>b
  <2>3. CASE Respond(l)
    <3>1. listeners[l].pc # "unload" /\ (Becomes(l, "replay"))
      BY <2>3, <1>h, RespondSets DEF Respond
    <3> QED
      BY <3>1, <1>b
  <2>4. CASE Replay(l)
    <3>1. listeners[l].pc # "unload" /\ (Becomes(l, "loop"))
      BY <2>4, <1>h, ReplaySets DEF Replay
    <3> QED
      BY <3>1, <1>b
  <2>5. CASE ResolveCommand(l)
    <3>1. listeners[l].pc # "unload" /\ (Becomes(l, "loop"))
      BY <2>5, <1>h, ResolveCommandSets DEF ResolveCommand, Ready
    <3> QED
      BY <3>1, <1>b
  <2>6. CASE Ask(l)
    <3>1. listeners[l].pc # "unload" /\ (Becomes(l, "loop"))
      BY <2>6, <1>h, AskSets DEF Ask
    <3> QED
      BY <3>1, <1>b
  <2>7. CASE MarkUnload(l)
    <3>1. listeners[l].pc # "unload" /\ (Becomes(l, "unload") \/ Becomes(l, "loop"))
      BY <2>7, <1>h, MarkUnloadSets DEF MarkUnload
    <3> QED
      BY <3>1, <1>b
  <2>8. CASE UnloadTrigger(l)
    <3>1. listeners[l].pc # "unload" /\ (Becomes(l, "check"))
      BY <2>8, <1>h, UnloadTriggerSets DEF UnloadTrigger, Ready, Quiet
    <3> QED
      BY <3>1, <1>b
  <2>9. CASE TakeEvent(l)
    <3>1. listeners[l].pc # "unload" /\ (Becomes(l, "ask") \/ listeners' = listeners)
      BY <2>9, <1>h, TakeEventSets DEF TakeEvent, Quiet, Ready
    <3> QED
      BY <3>1, <1>b, <1>u
  <2>10. CASE Unload(l)
    BY <2>10 DEF Unloads
  <2> QED
    BY <1>4, <2>1, <2>2, <2>3, <2>4, <2>5, <2>6, <2>7, <2>8, <2>9, <2>10 DEF Listener
<1>5. ASSUME NEW r \in Reqs, Waiter(r) PROVE MarkStays
  <2>1. CASE Resolve(r)
    <3>1. listeners' = listeners \/ \E d \in DOMAIN listeners : Sends(d, <<"resolve", r>>)
      BY <2>1, <1>h, ResolveSends
    <3> QED
      BY <1>u, <1>b, <3>1 DEF Sends
  <2>2. CASE ResolveLost(r) \/ Decide(r)
    BY <2>2, <1>u DEF ResolveLost, Decide
  <2> QED
    BY <1>5, <2>1, <2>2 DEF Waiter
<1>6. ASSUME NEW n \in DOMAIN convs, Thread(n) PROVE MarkStays
  BY <1>6, <1>u DEF Thread, EndTurn, Shutdown, Unloaded, AskApproval
<1>7. CASE StartTurn
  BY <1>7, <1>u DEF StartTurn
<1>8. CASE UNCHANGED vars
  BY <1>8, <1>u DEF vars
<1> QED
  BY <1>2, <1>3, <1>4, <1>5, <1>6, <1>7, <1>8 DEF Next

(* Nobody joins a thread that is marked for unloading; only a listener whose *)
(* entry is gone marks one that has subscribers.                             *)
LEMMA MarkedStep ==
  ASSUME TypeOK, MarkedHasNoSubscriber, [Next]_vars
  PROVE  MarkedHasNoSubscriber'
<1>h. CoreTypes /\ SubscriberTypes /\ ListenerTypes /\ MarkedHasNoSubscriber
  BY DEF TypeOK
<1>b. unloading \in BOOLEAN /\ (entry = 0 => subs = {})
  BY <1>h DEF CoreTypes, SubscriberTypes
<1>e. subs' = {} \/ unloading' = FALSE => MarkedHasNoSubscriber'
  BY DEF MarkedHasNoSubscriber
<1>m. MarkStays \/ Unloads
  BY MarkStaysStep
<1>x. ASSUME Unloads PROVE MarkedHasNoSubscriber'
  BY <1>x, <1>e DEF Unloads, Unload, RemoveState
<1>u. ASSUME subs' \subseteq subs, unloading' => unloading, entry' = entry \/ entry = 0
      PROVE  MarkedHasNoSubscriber'
  <2>1. SUFFICES ASSUME unloading', subs' # {}, MarkStays PROVE MarkedHasNoSubscriber'
    BY <1>m, <1>x DEF MarkedHasNoSubscriber
  <2>2. unloading /\ subs # {} /\ entry' = entry
    BY <1>u, <1>b, <2>1
  <2>3. PICK l \in DOMAIN listeners : listeners[l].pc = "unload" /\ listeners[l].watch # entry
    BY <1>h, <2>2 DEF MarkedHasNoSubscriber
  <2>4. l \in DOMAIN listeners' /\ listeners'[l].pc = "unload" /\ listeners'[l].watch # entry'
    BY <2>1, <2>2, <2>3 DEF MarkStays
  <2> QED
    BY <2>4 DEF MarkedHasNoSubscriber
<1>v. UNCHANGED <<subs, unloading, entry>> => MarkedHasNoSubscriber'
  BY <1>u, <1>b
<1>1. ASSUME NEW p, Teardown(p) PROVE MarkedHasNoSubscriber'
  BY <1>1, <1>e, <1>v DEF Teardown, RemoveState, book, unload
<1>2. ASSUME NEW c \in Conns, Unsubscribe(c) \/ Close(c) PROVE MarkedHasNoSubscriber'
  <2>1. subs' \subseteq subs /\ UNCHANGED <<unloading, entry>>
    BY <1>2 DEF Unsubscribe, Close, unload
  <2> QED
    BY <2>1, <1>u, <1>b
<1>3. ASSUME NEW c \in Conns, Resume(c, "resume") \/ Resume(c, "replace") \/ Archive(c)
                              \/ \E r \in Reqs : Answer(c, r)
      PROVE  MarkedHasNoSubscriber'
  BY <1>3, <1>v DEF Resume, Archive, Answer, book, unload
<1>4. CASE Handler \/ ReplaceTimesOut
  <2>1. CASE HandlerTeardown \/ CloseTeardown
    BY <1>1, <2>1 DEF HandlerTeardown, CloseTeardown
  <2>2. CASE Attach
    <3>1. UNCHANGED <<subs, entry>> \/ ~ unloading
      BY <2>2 DEF Attach, book
    <3>2. unloading' = unloading
      BY <2>2 DEF Attach, unload
    <3> QED
      BY <3>1, <3>2, <1>v, <1>e, <1>b
  <2>3. CASE Rejoin
    <3>1. UNCHANGED <<subs, unloading>> /\ (entry' = entry \/ entry = 0)
      BY <2>3 DEF Rejoin, HasEntry, unload
    <3> QED
      BY <3>1, <1>u, <1>b
  <2>4. CASE Lookup \/ Differs \/ Replace \/ Listen \/ ListenSet \/ Enqueue \/ Load \/ Attached
             \/ AttachedSet \/ Archived \/ CloseCheck \/ ReplaceTimesOut
    BY <2>4, <1>v DEF Lookup, Differs, Replace, Listen, ListenSet, Enqueue, Load, Attached,
       AttachedSet, Archived, CloseCheck, ReplaceTimesOut, book, unload
  <2> QED
    BY <1>4, <2>1, <2>2, <2>3, <2>4 DEF Handler
<1>5. ASSUME NEW l \in DOMAIN listeners, Listener(l) \/ UnloadTrigger(l)
      PROVE  MarkedHasNoSubscriber'
  <2>1. CASE ResumeCommand(l)
    <3>1. UNCHANGED <<subs, entry>> \/ ~ unloading
      BY <2>1 DEF ResumeCommand, book
    <3>2. unloading' = unloading
      BY <2>1 DEF ResumeCommand, unload
    <3> QED
      BY <3>1, <3>2, <1>v, <1>e, <1>b
  <2>2. CASE MarkUnload(l)
    <3>1. UNCHANGED <<subs, entry>> /\ unloading' = (unloading \/ ShouldUnload(l))
      BY <2>2 DEF MarkUnload, book
    <3>2. CASE ~ ShouldUnload(l)
      BY <3>1, <3>2, <1>v, <1>b DEF ShouldUnload
    <3>3. CASE ShouldUnload(l) /\ listeners[l].watch = entry
      BY <3>1, <3>3, <1>e DEF ShouldUnload, SeenSubs
    <3>4. CASE ShouldUnload(l) /\ listeners[l].watch # entry
      <4>1. Becomes(l, "unload")
        BY <2>2, <3>4, <1>h, MarkUnloadSets
      <4>2. l \in DOMAIN listeners' /\ listeners'[l].pc = "unload" /\ listeners'[l].watch # entry'
        BY <3>1, <3>4, <4>1 DEF Becomes
      <4> QED
        BY <4>2 DEF MarkedHasNoSubscriber
    <3> QED
      BY <3>2, <3>3, <3>4
  <2>3. CASE Unload(l)
    BY <2>3, <1>x DEF Unloads
  <2>4. CASE Stop(l) \/ Respond(l) \/ Replay(l) \/ ResolveCommand(l) \/ TakeEvent(l) \/ Ask(l)
             \/ UnloadTrigger(l)
    BY <2>4, <1>v DEF Stop, Respond, Replay, ResolveCommand, TakeEvent, Ask, UnloadTrigger,
       book, unload
  <2> QED
    BY <1>5, <2>1, <2>2, <2>3, <2>4 DEF Listener
<1>6. ASSUME NEW r \in Reqs, Waiter(r) PROVE MarkedHasNoSubscriber'
  BY <1>6, <1>v DEF Waiter, Resolve, ResolveLost, Decide, book, unload
<1>7. ASSUME NEW n \in DOMAIN convs, Thread(n) PROVE MarkedHasNoSubscriber'
  <2>1. CASE Unloaded(n)
    BY <2>1, <1>e DEF Unloaded
  <2>2. CASE EndTurn(n) \/ Shutdown(n) \/ \E r \in Reqs : AskApproval(n, r)
    BY <2>2, <1>v DEF EndTurn, Shutdown, AskApproval, book, unload
  <2> QED
    BY <1>7, <2>1, <2>2 DEF Thread
<1>8. CASE StartTurn
  BY <1>8, <1>v DEF StartTurn, book, unload
<1>9. CASE UNCHANGED vars
  BY <1>9, <1>v DEF vars, book, unload
<1> QED
  BY <1>2, <1>3, <1>4, <1>5, <1>6, <1>7, <1>8, <1>9 DEF Next

(* The first listener goes on.                                               *)
LEMMA FirstBecomes ==
  ASSUME ListenerTypes, FirstListener, DOMAIN listeners = {1}, NEW l \in DOMAIN listeners, NEW p,
         Becomes(l, p), p # "ended", tx' = tx, made' = made
  PROVE  FirstListener'
BY DEF FirstListener, Becomes

(* The handler that looks for the listener of the first entry finds it.     *)
LEMMA FirstMatches ==
  ASSUME OpTypes, FirstListener, FirstCore, At("set")
  PROVE  Matches(op.obj, op.conv)
<1>1. op # None /\ op.obj = 1 /\ op.conv = 1
  BY DEF At, OpTypes, FirstListener, FirstCore
<1> QED
  BY <1>1 DEF Matches, FirstListener

(* The first entry keeps its listener.                                       *)
LEMMA FirstListenerStep ==
  ASSUME TypeOK, FirstInv, entry = 1, entry' = 1, [Next]_vars
  PROVE  FirstListener'
<1>h. /\ ConnTypes /\ SubscriberTypes /\ ListenerTypes /\ CoreTypes /\ ReqTypes /\ OpTypes
      /\ FirstListener /\ FirstCore /\ entry = 1 /\ entry' = 1
  BY DEF TypeOK, FirstInv
<1>o. DOMAIN listeners = {1}
  BY <1>h DEF ListenerTypes, FirstListener
<1>v. 1 \in Objects
  BY Constants DEF Objects
<1>u. UNCHANGED <<made, listeners, tx>> => FirstListener'
  BY <1>h DEF FirstListener
<1>1. ASSUME NEW p, Teardown(p) PROVE FirstListener'
  BY <1>1, <1>h, <1>u DEF Teardown, RemoveState, book
<1>2. ASSUME NEW c \in Conns, Resume(c, "resume") \/ Resume(c, "replace") \/ Unsubscribe(c)
                              \/ Archive(c) \/ Close(c) \/ \E r \in Reqs : Answer(c, r)
      PROVE  FirstListener'
  BY <1>2, <1>u DEF Resume, Unsubscribe, Archive, Close, Answer, book
<1>3. CASE Handler \/ ReplaceTimesOut
  <2>1. CASE HandlerTeardown \/ CloseTeardown
    BY <1>1, <2>1 DEF HandlerTeardown, CloseTeardown
  <2>2. CASE Rejoin
    BY <2>2, <1>h, <1>u DEF Rejoin, HasEntry
  <2>3. CASE ListenSet
    <3>1. Matches(op.obj, op.conv)
      BY <2>3, <1>h, FirstMatches DEF ListenSet
    <3>2. UNCHANGED <<made, listeners, tx>>
      BY <2>3, <1>h, <3>1 DEF ListenSet, SetListener
    <3> QED
      BY <1>u, <3>2
  <2>4. CASE Enqueue
    <3>1. made' = made
      BY <2>4 DEF Enqueue, book
    <3>2. /\ tx' = tx
          /\ \/ listeners' = listeners
             \/ /\ tx[op.obj] \in DOMAIN listeners
                /\ Becomes(tx[op.obj], listeners[tx[op.obj]].pc)
      BY <2>4, <1>h, EnqueueSends DEF Sends
    <3>3. CASE tx[op.obj] \in DOMAIN listeners /\ Becomes(tx[op.obj], listeners[tx[op.obj]].pc)
      <4>1. listeners[tx[op.obj]].pc # "ended"
        BY <1>h, <1>o, <3>3 DEF FirstListener
      <4> QED
        BY <1>h, <1>o, <3>1, <3>2, <3>3, <4>1, FirstBecomes
    <3> QED
      BY <1>u, <3>1, <3>2, <3>3
  <2>5. CASE Attach \/ Attached \/ AttachedSet
    <3>1. op # None /\ op.pc \in {"attach", "attached", "serve"}
      BY <2>5 DEF Attach, Attached, AttachedSet, At
    <3> QED
      BY <1>h, <3>1 DEF FirstCore, At
  <2>6. CASE Lookup \/ Differs \/ Replace \/ Listen \/ Load \/ Archived \/ CloseCheck
             \/ ReplaceTimesOut
    BY <2>6, <1>u DEF Lookup, Differs, Replace, Listen, Load, Archived, CloseCheck,
       ReplaceTimesOut, book
  <2> QED
    BY <1>3, <2>1, <2>2, <2>3, <2>4, <2>5, <2>6 DEF Handler
<1>4. ASSUME NEW l \in DOMAIN listeners, Listener(l) \/ UnloadTrigger(l) PROVE FirstListener'
  <2>1. CASE Stop(l)
    <3>1. listeners[l].cancelled \/ listeners[l].watch # entry
      BY <2>1 DEF Stop
    <3> QED
      BY <1>h, <1>o, <3>1 DEF FirstListener
  <2>2. CASE ResumeCommand(l)
    <3>1. tx' = tx /\ made' = made
      BY <2>2, <1>h DEF ResumeCommand, HasEntry, book
    <3>2. Becomes(l, "loop") \/ Becomes(l, "respond")
      BY <2>2, <1>h, ResumeCommandSets
    <3> QED
      BY <1>h, <1>o, <1>u, <3>1, <3>2, FirstBecomes
  <2>3. CASE Respond(l)
    <3>1. tx' = tx /\ made' = made
      BY <2>3, <1>h DEF Respond, book
    <3>2. Becomes(l, "replay")
      BY <2>3, <1>h, RespondSets
    <3> QED
      BY <1>h, <1>o, <1>u, <3>1, <3>2, FirstBecomes
  <2>4. CASE Replay(l)
    <3>1. tx' = tx /\ made' = made
      BY <2>4, <1>h DEF Replay, book
    <3>2. Becomes(l, "loop")
      BY <2>4, <1>h, ReplaySets
    <3> QED
      BY <1>h, <1>o, <1>u, <3>1, <3>2, FirstBecomes
  <2>5. CASE ResolveCommand(l)
    <3>1. tx' = tx /\ made' = made
      BY <2>5, <1>h DEF ResolveCommand, book
    <3>2. Becomes(l, "loop")
      BY <2>5, <1>h, ResolveCommandSets
    <3> QED
      BY <1>h, <1>o, <1>u, <3>1, <3>2, FirstBecomes
  <2>6. CASE TakeEvent(l)
    <3>1. tx' = tx /\ made' = made
      BY <2>6, <1>h DEF TakeEvent, book
    <3>2. Becomes(l, "ask") \/ listeners' = listeners
      BY <2>6, <1>h, TakeEventSets
    <3> QED
      BY <1>h, <1>o, <1>u, <3>1, <3>2, FirstBecomes
  <2>7. CASE Ask(l)
    <3>1. tx' = tx /\ made' = made
      BY <2>7, <1>h DEF Ask, book
    <3>2. Becomes(l, "loop")
      BY <2>7, <1>h, AskSets
    <3> QED
      BY <1>h, <1>o, <1>u, <3>1, <3>2, FirstBecomes
  <2>8. CASE MarkUnload(l)
    <3>1. tx' = tx /\ made' = made
      BY <2>8, <1>h DEF MarkUnload, book
    <3>2. Becomes(l, "unload") \/ Becomes(l, "loop")
      BY <2>8, <1>h, MarkUnloadSets
    <3> QED
      BY <1>h, <1>o, <1>u, <3>1, <3>2, FirstBecomes
  <2>9. CASE Unload(l)
    <3>1. entry' = 0
      BY <2>9 DEF Unload, RemoveState
    <3> QED
      BY <1>h, <3>1
  <2>10. CASE UnloadTrigger(l)
    <3>1. tx' = tx /\ made' = made
      BY <2>10, <1>h DEF UnloadTrigger, book
    <3>2. Becomes(l, "check")
      BY <2>10, <1>h, UnloadTriggerSets
    <3> QED
      BY <1>h, <1>o, <1>u, <3>1, <3>2, FirstBecomes
  <2> QED
    BY <1>4, <2>1, <2>2, <2>3, <2>4, <2>5, <2>6, <2>7, <2>8, <2>9, <2>10 DEF Listener
<1>5. ASSUME NEW r \in Reqs, Waiter(r) PROVE FirstListener'
  <2>1. CASE Resolve(r)
    <3>1. made' = made
      BY <2>1 DEF Resolve, book
    <3>2. /\ tx' = tx
          /\ \/ listeners' = listeners
             \/ \E d \in DOMAIN listeners : Becomes(d, listeners[d].pc)
      BY <2>1, <1>h, ResolveSends DEF Sends
    <3>3. ASSUME NEW d \in DOMAIN listeners, Becomes(d, listeners[d].pc) PROVE FirstListener'
      <4>1. listeners[d].pc # "ended"
        BY <1>h, <1>o DEF FirstListener
      <4> QED
        BY <1>h, <1>o, <3>1, <3>2, <3>3, <4>1, FirstBecomes
    <3> QED
      BY <1>u, <3>1, <3>2, <3>3
  <2>2. CASE ResolveLost(r) \/ Decide(r)
    BY <2>2, <1>u DEF ResolveLost, Decide, book
  <2> QED
    BY <1>5, <2>1, <2>2 DEF Waiter
<1>6. ASSUME NEW n \in DOMAIN convs, Thread(n) PROVE FirstListener'
  BY <1>6, <1>u DEF Thread, EndTurn, Shutdown, Unloaded, AskApproval, book
<1>7. CASE StartTurn
  BY <1>7, <1>u DEF StartTurn, book
<1>8. CASE UNCHANGED vars
  BY <1>8, <1>u DEF vars, book
<1> QED
  BY <1>2, <1>3, <1>4, <1>5, <1>6, <1>7, <1>8 DEF Next

(* The first entry keeps its core thread, until it is archived.              *)
LEMMA FirstCoreStep ==
  ASSUME TypeOK, FirstInv, entry = 1, entry' = 1, [Next]_vars
  PROVE  FirstCore'
<1>h. /\ ConnTypes /\ SubscriberTypes /\ ListenerTypes /\ CoreTypes /\ ReqTypes /\ OpTypes
      /\ FirstListener /\ FirstCore /\ entry = 1 /\ entry' = 1
  BY DEF TypeOK, FirstInv
<1>u. UNCHANGED <<convs, unloaders, loaded, op>> => FirstCore'
  BY <1>h DEF FirstCore, At
<1>1. ASSUME NEW c \in Conns, NEW k \in {"resume", "replace"}, Resume(c, k) PROVE FirstCore'
  <2>1. UNCHANGED <<convs, unloaders, loaded>> /\ (op' = op \/ op'.pc = "lookup")
    BY <1>1 DEF Resume, Begin, core, unload
  <2>2. op = None
    BY <1>1 DEF Resume
  <2>3. loaded # 0
    BY <1>h, <2>2 DEF FirstCore, At
  <2> QED
    BY <1>h, <2>1, <2>2, <2>3 DEF FirstCore, At, TeardownSteps
<1>2. ASSUME NEW c \in Conns, Archive(c) PROVE FirstCore'
  <2>1. convs' = Stopping(loaded) /\ loaded \in 0 .. Len(convs) /\ loaded' = 0 /\ unloaders' = unloaders
    BY <1>2, <1>h DEF Archive, CoreTypes, unload
  <2>2. Halts
    BY <1>h, <2>1, StoppingHalts
  <2>3. op' = [kind |-> "archive", conn |-> c, pc |-> "archive", conv |-> loaded, obj |-> 0,
             watch |-> 0]
    BY <1>2 DEF Archive, Begin
  <2>4. op' \in OpRecs /\ op'.pc = "archive"
    BY <1>h, <2>1, <2>3, Constants DEF OpRecs, CoreTypes
  <2>5. At("archive")'
    BY <2>4, Constants DEF At
  <2> QED
    BY <1>h, <2>1, <2>2, <2>5 DEF FirstCore, Halts
<1>3. ASSUME NEW c \in Conns, Unsubscribe(c) \/ Close(c) \/ \E r \in Reqs : Answer(c, r)
      PROVE  FirstCore'
  <2>1. op = None => loaded # 0
    BY <1>h DEF FirstCore, At
  <2> QED
    BY <1>3, <1>u, <2>1 DEF Unsubscribe, Close, Answer, core, unload, tasks
<1>4. CASE Handler \/ ReplaceTimesOut
  <2>1. CASE Lookup
    <3>1. op # None /\ op.pc = "lookup"
      BY <2>1 DEF Lookup, At
    <3>2. loaded # 0
      BY <1>h, <3>1 DEF FirstCore, At
    <3>3. UNCHANGED <<convs, unloaders, loaded>> /\ op \in OpRecs
      BY <2>1, <1>h, <3>1 DEF Lookup, core, unload, OpTypes
    <3>4. op'.pc \in {"differs", "rejoin"}
      BY <2>1, <3>2, <3>3 DEF Lookup, OpRecs
    <3> QED
      BY <1>h, <3>2, <3>3, <3>4 DEF FirstCore, TeardownSteps
  <2>2. CASE Differs
    <3>1. op # None /\ op.pc = "differs" /\ loaded' = loaded /\ unloaders' = unloaders
      BY <2>2 DEF Differs, At, unload
    <3>2. loaded # 0 /\ op \in OpRecs
      BY <1>h, <3>1 DEF FirstCore, At, OpTypes
    <3>3. op'.pc \in {"stopping", "rejoin"}
      BY <2>2, <3>2 DEF Differs, OpRecs
    <3>4. convs' = convs \/ (convs' = Stopping(op.conv) /\ op.conv \in 0 .. Len(convs))
      BY <2>2, <1>h DEF Differs, OpTypes, At
    <3>5. Len(convs') = Len(convs)
      BY <1>h, <3>4, StoppingHalts DEF Halts
    <3> QED
      BY <1>h, <3>1, <3>2, <3>3, <3>5 DEF FirstCore, TeardownSteps
  <2>3. CASE Replace
    <3>1. op # None /\ UNCHANGED <<convs, unloaders>> /\ loaded' = 0
      BY <2>3 DEF Replace, At, unload
    <3>2. op \in OpRecs
      BY <1>h, <3>1 DEF OpTypes
    <3>3. op' \in OpRecs /\ op'.pc = "unmark"
      BY <2>3, <3>2 DEF Replace, OpRecs, TeardownSteps
    <3>4. At("unmark")'
      BY <3>3, Constants DEF At
    <3> QED
      BY <1>h, <3>1, <3>4 DEF FirstCore
  <2>4. CASE Rejoin
    <3>1. op # None /\ UNCHANGED <<convs, unloaders, loaded>> /\ op.pc = "rejoin"
      BY <2>4 DEF Rejoin, At, core, unload
    <3>2. loaded # 0 /\ op \in OpRecs
      BY <1>h, <3>1 DEF FirstCore, At, OpTypes
    <3>3. op'.pc = "listen"
      BY <2>4, <3>2 DEF Rejoin, OpRecs
    <3> QED
      BY <1>h, <3>1, <3>2, <3>3 DEF FirstCore, TeardownSteps
  <2>5. CASE Listen \/ ListenSet
    <3>1. op # None /\ UNCHANGED <<convs, unloaders, loaded>> /\ op.pc \in {"listen", "set"}
      BY <2>5 DEF Listen, ListenSet, At, core, unload
    <3>2. loaded # 0 /\ op \in OpRecs
      BY <1>h, <3>1 DEF FirstCore, At, OpTypes
    <3>3. op' = None \/ op'.pc \in {"set", "enqueue"}
      BY <2>5, <3>2 DEF Listen, ListenSet, OpRecs
    <3> QED
      BY <1>h, <3>1, <3>2, <3>3 DEF FirstCore, TeardownSteps
  <2>6. CASE Enqueue
    <3>1. op # None /\ UNCHANGED <<convs, unloaders, loaded>> /\ op.pc = "enqueue" /\ op' = None
      BY <2>6 DEF Enqueue, At, core, unload
    <3>2. loaded # 0
      BY <1>h, <3>1 DEF FirstCore, At
    <3> QED
      BY <1>h, <3>1, <3>2 DEF FirstCore
  <2>7. CASE Load
    <3>1. op # None /\ op.pc = "load"
      BY <2>7 DEF Load, At
    <3> QED
      BY <1>h, <3>1 DEF FirstCore, At
  <2>8. CASE Attach \/ Attached \/ AttachedSet
    <3>1. op # None /\ op.pc \in {"attach", "attached", "serve"}
      BY <2>8 DEF Attach, Attached, AttachedSet, At
    <3> QED
      BY <1>h, <3>1 DEF FirstCore, At
  <2>9. CASE Archived
    <3>1. op # None /\ UNCHANGED <<convs, unloaders, loaded>> /\ op.pc = "archive"
      BY <2>9 DEF Archived, At, core, unload
    <3>2. loaded = 0 /\ op \in OpRecs
      BY <1>h, <3>1 DEF FirstCore, OpTypes
    <3>3. op' \in OpRecs /\ op'.pc = "unmark"
      BY <2>9, <3>2 DEF Archived, OpRecs, TeardownSteps
    <3>4. At("unmark")'
      BY <3>3, Constants DEF At
    <3> QED
      BY <1>h, <3>1, <3>2, <3>4 DEF FirstCore
  <2>10. CASE HandlerTeardown
    <3>1. op # None /\ UNCHANGED <<convs, loaded>> /\ op.pc \in TeardownSteps
      BY <2>10 DEF HandlerTeardown, Teardown, TeardownSteps, core
    <3>2. loaded = 0 /\ op.pc \in {"unmark", "cancel", "remove"} /\ op \in OpRecs
      BY <1>h, <3>1 DEF FirstCore, At, OpTypes, TeardownSteps
    <3>3. op.pc \in {"unmark", "cancel"} /\ unloaders' = unloaders
      BY <2>10, <1>h, <3>2 DEF HandlerTeardown, Teardown, RemoveState, unload
    <3>4. op' \in OpRecs /\ op'.pc \in {"cancel", "remove"}
      BY <2>10, <3>2, <3>3 DEF HandlerTeardown, After, OpRecs, TeardownSteps
    <3>5. At("cancel")' \/ At("remove")'
      BY <3>4, Constants DEF At
    <3> QED
      BY <1>h, <3>1, <3>2, <3>3, <3>5 DEF FirstCore
  <2>11. CASE ReplaceTimesOut
    <3>1. op # None /\ UNCHANGED <<convs, unloaders, loaded>> /\ op.pc = "stopping"
      BY <2>11 DEF ReplaceTimesOut, At, core, unload
    <3>2. loaded # 0 /\ op \in OpRecs
      BY <1>h, <3>1 DEF FirstCore, At, OpTypes
    <3>3. op'.pc = "rejoin"
      BY <2>11, <3>2 DEF ReplaceTimesOut, OpRecs
    <3> QED
      BY <1>h, <3>1, <3>2, <3>3 DEF FirstCore, TeardownSteps
  <2>12. CASE CloseCheck \/ CloseTeardown
    BY <2>12, <1>u DEF CloseCheck, CloseTeardown, Teardown, core, unload
  <2> QED
    BY <1>4, <2>1, <2>2, <2>3, <2>4, <2>5, <2>6, <2>7, <2>8, <2>9, <2>10, <2>11, <2>12 DEF
       Handler
<1>5. ASSUME NEW l \in DOMAIN listeners, Listener(l) \/ UnloadTrigger(l) PROVE FirstCore'
  <2>1. CASE TakeEvent(l)
    <3>1. Len(convs') = Len(convs)
      BY <2>1, <1>h, TakeEventTakes DEF CoreMoves
    <3>2. UNCHANGED <<unloaders, loaded, op>>
      BY <2>1 DEF TakeEvent, unload, core, tasks
    <3> QED
      BY <1>h, <3>1, <3>2 DEF FirstCore, At
  <2>2. CASE Unload(l)
    <3>1. entry' = 0
      BY <2>2 DEF Unload, RemoveState
    <3> QED
      BY <1>h, <3>1
  <2>3. CASE Stop(l) \/ ResumeCommand(l) \/ Respond(l) \/ Replay(l) \/ ResolveCommand(l)
             \/ Ask(l) \/ MarkUnload(l) \/ UnloadTrigger(l)
    BY <2>3, <1>u DEF Stop, ResumeCommand, Respond, Replay, ResolveCommand, Ask, MarkUnload,
       UnloadTrigger, core, unload, tasks
  <2> QED
    BY <1>5, <2>1, <2>2, <2>3 DEF Listener
<1>6. ASSUME NEW r \in Reqs, Waiter(r) PROVE FirstCore'
  BY <1>6, <1>u DEF Waiter, Resolve, ResolveLost, Decide, core, unload, tasks
<1>7. ASSUME NEW n \in DOMAIN convs, Thread(n) PROVE FirstCore'
  <2>1. CASE EndTurn(n)
    <3>1. Len(convs') = Len(convs)
      <4>1. n \in DOMAIN convs /\ "ended" \in Reqs \cup Words /\ convs[n].turn \in BOOLEAN
        BY <2>1, <1>h, ConvFields DEF EndTurn, CoreTypes, Words
      <4>2. CoreMoves(n, convs[n].st, FALSE, Append(Events(n), "ended"))
        BY <2>1, <1>h, <4>1, EmitSets DEF EndTurn
      <4> QED
        BY <4>2 DEF CoreMoves
    <3>2. UNCHANGED <<unloaders, loaded, op>>
      BY <2>1 DEF EndTurn, unload, core, tasks
    <3> QED
      BY <1>h, <3>1, <3>2 DEF FirstCore, At
  <2>2. CASE Shutdown(n)
    <3>1. Len(convs') = Len(convs)
      BY <2>2, <1>h, ShutdownSets DEF CoreMoves
    <3>2. UNCHANGED <<unloaders, loaded, op>>
      BY <2>2 DEF Shutdown, unload, core, tasks
    <3> QED
      BY <1>h, <3>1, <3>2 DEF FirstCore, At
  <2>3. CASE Unloaded(n)
    <3>1. unloaders # {}
      BY <2>3 DEF Unloaded
    <3> QED
      BY <1>h, <3>1 DEF FirstCore
  <2>4. ASSUME NEW r \in Reqs, AskApproval(n, r) PROVE FirstCore'
    <3>1. Len(convs') = Len(convs)
      <4>1. n \in DOMAIN convs /\ r \in Reqs \cup Words /\ convs[n].turn \in BOOLEAN
        BY <2>4, <1>h, ConvFields DEF AskApproval, CoreTypes, Words
      <4>2. CoreMoves(n, convs[n].st, convs[n].turn, Append(Events(n), r))
        BY <2>4, <1>h, <4>1, EmitSets DEF AskApproval
      <4> QED
        BY <4>2 DEF CoreMoves
    <3>2. UNCHANGED <<unloaders, loaded, op>>
      BY <2>4 DEF AskApproval, unload, core, tasks
    <3> QED
      BY <1>h, <3>1, <3>2 DEF FirstCore, At
  <2> QED
    BY <1>7, <2>1, <2>2, <2>3, <2>4 DEF Thread
<1>8. CASE StartTurn
  <2>1. Len(convs') = Len(convs)
    <4>1. loaded \in DOMAIN convs /\ "started" \in Reqs \cup Words /\ convs[loaded].turn \in BOOLEAN
      BY <1>8, <1>h, ConvFields DEF StartTurn, CoreTypes, Words
    <4>2. CoreMoves(loaded, convs[loaded].st, TRUE, Append(Events(loaded), "started"))
      BY <1>8, <1>h, <4>1, EmitSets DEF StartTurn
    <4> QED
      BY <4>2 DEF CoreMoves
  <2>2. UNCHANGED <<unloaders, loaded, op>>
    BY <1>8 DEF StartTurn, unload, core, tasks
  <2> QED
    BY <1>h, <2>1, <2>2 DEF FirstCore, At
<1>9. CASE UNCHANGED vars
  BY <1>9, <1>u DEF vars, core, unload, tasks
<1> QED
  BY <1>1, <1>2, <1>3, <1>4, <1>5, <1>6, <1>7, <1>8, <1>9 DEF Next

(* No later entry is the first one.                                          *)
LEMMA EntryStep ==
  ASSUME ConnTypes, [Next]_vars
  PROVE  (entry' = 1 => entry = 1)
<1>u. UNCHANGED entry => (entry' = 1 => entry = 1)
  BY ConnTypes DEF ConnTypes, Objects
<1>1. ASSUME NEW p, Teardown(p) PROVE (entry' = 1 => entry = 1)
  BY <1>1, <1>u DEF Teardown, RemoveState, book
<1>2. ASSUME NEW c \in Conns, Resume(c, "resume") \/ Resume(c, "replace") \/ Unsubscribe(c)
                              \/ Archive(c) \/ Close(c) \/ \E r \in Reqs : Answer(c, r)
      PROVE  (entry' = 1 => entry = 1)
  BY <1>2, <1>u DEF Resume, Unsubscribe, Archive, Close, Answer, book
<1>3. CASE Handler \/ ReplaceTimesOut
  <2>1. CASE HandlerTeardown \/ CloseTeardown
    BY <1>1, <2>1 DEF HandlerTeardown, CloseTeardown
  <2>2. CASE Rejoin
    BY <2>2, ConnTypes, Constants DEF Rejoin, HasEntry, ConnTypes, Objects
  <2>3. CASE Attach
    BY <2>3, ConnTypes, Constants DEF Attach, HasEntry, book, ConnTypes, Objects
  <2>4. CASE Lookup \/ Differs \/ Replace \/ Listen \/ ListenSet \/ Enqueue \/ Load \/ Attached
             \/ AttachedSet \/ Archived \/ CloseCheck \/ ReplaceTimesOut
    BY <2>4, <1>u DEF Lookup, Differs, Replace, Listen, ListenSet, Enqueue, Load, Attached,
       AttachedSet, Archived, CloseCheck, ReplaceTimesOut, book
  <2> QED
    BY <1>3, <2>1, <2>2, <2>3, <2>4 DEF Handler
<1>4. ASSUME NEW l \in DOMAIN listeners, Listener(l) \/ UnloadTrigger(l)
      PROVE  (entry' = 1 => entry = 1)
  <2>1. CASE ResumeCommand(l)
    BY <2>1, ConnTypes, Constants DEF ResumeCommand, HasEntry, book, ConnTypes, Objects
  <2>2. CASE Unload(l)
    BY <2>2, ConnTypes DEF Unload, RemoveState, ConnTypes, Objects
  <2>3. CASE Stop(l) \/ Respond(l) \/ Replay(l) \/ ResolveCommand(l) \/ TakeEvent(l) \/ Ask(l)
             \/ MarkUnload(l) \/ UnloadTrigger(l)
    BY <2>3, <1>u DEF Stop, Respond, Replay, ResolveCommand, TakeEvent, Ask, MarkUnload,
       UnloadTrigger, book
  <2> QED
    BY <1>4, <2>1, <2>2, <2>3 DEF Listener
<1>5. ASSUME NEW r \in Reqs, Waiter(r) PROVE (entry' = 1 => entry = 1)
  BY <1>5, <1>u DEF Waiter, Resolve, ResolveLost, Decide, book
<1>6. ASSUME NEW n \in DOMAIN convs, Thread(n) PROVE (entry' = 1 => entry = 1)
  BY <1>6, <1>u DEF Thread, EndTurn, Shutdown, Unloaded, AskApproval, book
<1>7. CASE StartTurn
  BY <1>7, <1>u DEF StartTurn, book
<1>8. CASE UNCHANGED vars
  BY <1>8, <1>u DEF vars, book
<1> QED
  BY <1>2, <1>3, <1>4, <1>5, <1>6, <1>7, <1>8 DEF Next

(* The first entry keeps its core thread and its listener.                   *)
LEMMA FirstStep ==
  ASSUME TypeOK, FirstInv, [Next]_vars
  PROVE  FirstInv'
BY EntryStep, FirstListenerStep, FirstCoreStep DEF FirstInv, TypeOK

(* What most steps leave of the first listener's work.                      *)
MeKept ==
  /\ listeners'[1].pending = listeners[1].pending
  /\ \/ /\ listeners'[1].pc = listeners[1].pc /\ listeners'[1].to = listeners[1].to
        /\ listeners'[1].who = listeners[1].who
     \/ /\ listeners'[1].pc \notin {"respond", "replay", "ask"}
        /\ listeners[1].pc \notin {"respond", "replay"}

(* A step that opens no approval and brings no subscriber leaves nobody out. *)
LEMMA ReplayKept ==
  ASSUME Replayed, MeKept, subs' \subseteq subs, Open' \subseteq Open,
         \A r \in Open : subs' \cap asked[r] \subseteq asked'[r]
  PROVE  Replayed'
<1>1. CASE /\ listeners'[1].pc = listeners[1].pc /\ listeners'[1].to = listeners[1].to
           /\ listeners'[1].who = listeners[1].who
  BY <1>1 DEF Replayed, MeKept
<1>2. CASE /\ listeners'[1].pc \notin {"respond", "replay", "ask"}
           /\ listeners[1].pc \notin {"respond", "replay"}
  BY <1>2 DEF Replayed, MeKept
<1> QED
  BY <1>1, <1>2 DEF MeKept

(* The approvals that stay open when some are settled ...                    *)
LEMMA OpenSettled ==
  ASSUME ReqTypes, NEW rs \in SUBSET Open, NEW res \in Nat,
         req' = Settled(rs, res)
  PROVE  Open' = Open \ rs
<1>1. rs \subseteq Reqs
  BY DEF Open
<1>2. /\ \A r \in Reqs \ rs : req'[r] = req[r]
      /\ \A r \in rs : req'[r].st = "settled"
  BY <1>1 DEF Settled, ReqTypes, ReqRecs
<1> QED
  BY <1>1, <1>2 DEF Open

(* ... and when one moves on.                                                *)
LEMMA OpenMoves ==
  ASSUME ReqTypes, NEW r \in Reqs, NEW st, ReqMoves(r, st), st # "open", req[r].st # "open"
  PROVE  Open' = Open
BY DEF Open, ReqMoves

(* The first listener leaves no subscriber out.                              *)
LEMMA ReplayedStep ==
  ASSUME TypeOK, AskInv, CommandInv, FirstInv, ReplayInv, entry = 1, entry' = 1, [Next]_vars
  PROVE  Replayed'
<1>h. /\ ConnTypes /\ SubscriberTypes /\ ListenerTypes /\ CoreTypes /\ ReqTypes /\ OpTypes
      /\ FirstListener /\ FirstCore /\ Replayed /\ entry = 1 /\ entry' = 1
      /\ AskInv /\ CommandInv
  BY DEF TypeOK, FirstInv, ReplayInv
<1>o. DOMAIN listeners = {1}
  BY <1>h DEF ListenerTypes, FirstListener
<1>u. UNCHANGED <<listeners, subs, req, asked>> => Replayed'
  BY <1>h DEF Replayed, Open
<1>1. ASSUME NEW c \in Conns, Unsubscribe(c) PROVE Replayed'
  <2>1. CASE loaded = 0
    BY <1>1, <1>u, <2>1 DEF Unsubscribe
  <2>2. CASE loaded # 0
    <3>1. subs' = subs \ {c} /\ asked' = Drop(c) /\ listeners' = listeners /\ req' = req
      BY <1>1, <2>2 DEF Unsubscribe
    <3>2. MeKept /\ Open' = Open
      BY <3>1 DEF MeKept, Open
    <3>3. \A r \in Open : subs' \cap asked[r] \subseteq asked'[r]
      BY <3>1 DEF Drop, Open
    <3> QED
      BY <1>h, <3>1, <3>2, <3>3, ReplayKept
  <2> QED
    BY <2>1, <2>2
<1>2. ASSUME NEW c \in Conns, Close(c) PROVE Replayed'
  <2>1. subs' = subs \ {c} /\ asked' = Drop(c) /\ listeners' = listeners /\ req' = req
    BY <1>2 DEF Close
  <2>2. MeKept /\ Open' = Open
    BY <2>1 DEF MeKept, Open
  <2>3. \A r \in Open : subs' \cap asked[r] \subseteq asked'[r]
    BY <2>1 DEF Drop, Open
  <2> QED
    BY <1>h, <2>1, <2>2, <2>3, ReplayKept
<1>3. ASSUME NEW c \in Conns, NEW r \in Reqs, Answer(c, r) PROVE Replayed'
  <2>1. {r} \in SUBSET Open /\ req' = Settled({r}, 0) /\ UNCHANGED <<listeners, subs, asked>>
    BY <1>3 DEF Answer, book
  <2>2. Open' \subseteq Open
    BY <1>h, <2>1, OpenSettled
  <2> QED
    BY <1>h, <2>1, <2>2, ReplayKept DEF MeKept
<1>4. ASSUME NEW c \in Conns, Resume(c, "resume") \/ Resume(c, "replace") \/ Archive(c)
      PROVE  Replayed'
  BY <1>4, <1>u DEF Resume, Archive, book, asks
<1>5. CASE Handler \/ ReplaceTimesOut
  <2>1. ASSUME NEW p, Teardown(p) PROVE Replayed'
    <3>1. p # "remove"
      BY <2>1, <1>h DEF Teardown, RemoveState
    <3>2. UNCHANGED <<listeners, subs, asked>> /\ Open' \subseteq Open
      <4>1. UNCHANGED <<listeners, subs, asked>> /\ (req' = req \/ req' = Settled(Open, 0))
        BY <2>1, <3>1, TeardownSettles DEF Teardown, book, asks
      <4> QED
        BY <1>h, <4>1, OpenSettled DEF Open
    <3> QED
      BY <1>h, <3>2, ReplayKept DEF MeKept
  <2>2. CASE HandlerTeardown \/ CloseTeardown
    BY <2>1, <2>2 DEF HandlerTeardown, CloseTeardown
  <2>3. CASE ListenSet
    <3>1. Matches(op.obj, op.conv)
      BY <2>3, <1>h, FirstMatches DEF ListenSet
    <3>2. UNCHANGED <<listeners, subs, req, asked>>
      BY <2>3, <1>h, <3>1 DEF ListenSet, SetListener, asks
    <3> QED
      BY <1>u, <3>2
  <2>4. CASE Enqueue
    <3>1. UNCHANGED <<subs, req, asked>>
      BY <2>4 DEF Enqueue, book, asks
    <3>2. \/ listeners' = listeners
          \/ tx[op.obj] \in DOMAIN listeners /\ Sends(tx[op.obj], <<"resume", op.conn>>)
      BY <2>4, <1>h, EnqueueSends
    <3>3. CASE tx[op.obj] \in DOMAIN listeners /\ Sends(tx[op.obj], <<"resume", op.conn>>)
      <4>1. MeKept
        BY <1>o, <3>3 DEF Sends, Becomes, Holds, MeKept
      <4> QED
        BY <1>h, <3>1, <4>1, ReplayKept DEF Open
    <3> QED
      BY <1>u, <3>1, <3>2, <3>3
  <2>5. CASE Attach \/ Attached \/ AttachedSet
    <3>1. op # None /\ op.pc \in {"attach", "attached", "serve"}
      BY <2>5 DEF Attach, Attached, AttachedSet, At
    <3> QED
      BY <1>h, <3>1 DEF FirstCore, At
  <2>6. CASE Lookup \/ Differs \/ Replace \/ Rejoin \/ Listen \/ Load \/ Archived \/ CloseCheck
             \/ ReplaceTimesOut
    BY <2>6, <1>u DEF Lookup, Differs, Replace, Rejoin, Listen, Load, Archived, CloseCheck,
       ReplaceTimesOut, book, asks
  <2> QED
    BY <1>5, <2>2, <2>3, <2>4, <2>5, <2>6 DEF Handler
<1>6. ASSUME NEW l \in DOMAIN listeners, Listener(l) \/ UnloadTrigger(l) PROVE Replayed'
  <2>1. CASE Stop(l)
    <3>1. listeners[l].cancelled \/ listeners[l].watch # entry
      BY <2>1 DEF Stop
    <3> QED
      BY <1>h, <1>o, <3>1 DEF FirstListener
  <2>2. CASE ResumeCommand(l)
    <3>c. PICK c : c = Head(listeners[l].cmds)[2]
      OBVIOUS
    <3>0. l = 1 /\ listeners[1].pc = "loop" /\ UNCHANGED <<req, asked>>
      BY <2>2, <1>o DEF ResumeCommand, Ready, asks
    <3>1. CASE unloading \/ c \notin live
      <4>1. Becomes(l, "loop") /\ listeners'[l].pending = listeners[l].pending /\ subs' = subs
        BY <2>2, <1>h, <3>c, <3>1, ResumeCommandSets DEF ResumeCommand, Holds, book
      <4>2. MeKept
        BY <3>0, <4>1 DEF MeKept, Becomes
      <4> QED
        BY <1>h, <3>0, <4>1, <4>2, ReplayKept DEF Open
    <3>2. CASE ~ (unloading \/ c \notin live)
      <4>1. /\ Becomes(l, "respond") /\ listeners'[l].pending = listeners[l].pending
            /\ listeners'[l].who = c /\ subs' = subs \cup {c}
        BY <2>2, <1>h, <3>c, <3>2, ResumeCommandSets DEF ResumeCommand, Holds
      <4>2. listeners'[1].pc = "respond" /\ listeners'[1].pending = {} /\ Open' = Open
        BY <1>h, <3>0, <4>1 DEF Becomes, Replayed, Open
      <4>3. \A r \in Open : subs \subseteq asked[r]
        BY <1>h, <3>0 DEF Replayed
      <4> QED
        BY <3>0, <4>1, <4>2, <4>3 DEF Replayed
    <3> QED
      BY <3>1, <3>2
  <2>3. CASE Respond(l)
    <3>0. l = 1 /\ listeners[1].pc = "respond" /\ UNCHANGED <<subs, req, asked>>
      BY <2>3, <1>o DEF Respond, asks, book
    <3>1. Becomes(l, "replay") /\ listeners'[l].pending = Open /\ listeners'[l].who = listeners[l].who
      BY <2>3, <1>h, RespondSets DEF Holds
    <3>2. listeners'[1].pc = "replay" /\ Open' = Open
      BY <3>0, <3>1 DEF Becomes, Open
    <3>3. \A r \in Open : subs \subseteq asked[r] \cup {listeners[1].who}
      BY <1>h, <3>0 DEF Replayed
    <3> QED
      BY <3>0, <3>1, <3>2, <3>3 DEF Replayed
  <2>4. CASE Replay(l)
    <3>0. l = 1 /\ listeners[1].pc = "replay" /\ UNCHANGED <<subs, req>>
      BY <2>4, <1>o DEF Replay, book
    <3>1. Becomes(l, "loop") /\ listeners'[l].pending = {}
      BY <2>4, <1>h, ReplaySets DEF Holds
    <3>2. listeners'[1].pc = "loop" /\ Open' = Open
      BY <3>0, <3>1 DEF Becomes, Open
    <3>3. \A r \in Open : subs \subseteq asked[r] \cup {listeners[1].who} /\ r \in listeners[1].pending
      BY <1>h, <3>0 DEF Replayed
    <3>4. \A r \in Reqs : asked'[r] = IF r \in listeners[1].pending /\ listeners[1].who \in subs
                                    THEN asked[r] \cup {listeners[1].who} ELSE asked[r]
      BY <2>4, <3>0 DEF Replay
    <3>5. \A r \in Open : subs' \subseteq asked'[r]
      BY <3>0, <3>3, <3>4 DEF Open
    <3> QED
      BY <3>0, <3>1, <3>2, <3>5 DEF Replayed
  <2>5. CASE ResolveCommand(l)
    <3>r. PICK r : r = Head(listeners[l].cmds)[2]
      OBVIOUS
    <3>0. l = 1 /\ listeners[1].pc = "loop" /\ UNCHANGED <<subs, asked>>
      BY <2>5, <1>o DEF ResolveCommand, Ready, book
    <3>1. Becomes(l, "loop") /\ listeners'[l].pending = listeners[l].pending
      BY <2>5, <1>h, ResolveCommandSets DEF Holds
    <3>2. MeKept
      BY <3>0, <3>1 DEF MeKept, Becomes
    <3>3. r \in Reqs /\ req[r].st = "resolving" /\ req' = [req EXCEPT ![r].st = "resolved"]
      BY <2>5, <1>h, <3>r, ResolvingFirst DEF ResolveCommand
    <3>4. Open' = Open
      BY <1>h, <3>3, ReqResolves, OpenMoves
    <3> QED
      BY <1>h, <3>0, <3>2, <3>4, ReplayKept
  <2>6. CASE TakeEvent(l)
    <3>e. PICK e : e = Head(Events(ConvOf(l)))
      OBVIOUS
    <3>0. l = 1 /\ listeners[1].pc = "loop" /\ UNCHANGED <<subs, asked>>
      BY <2>6, <1>o DEF TakeEvent, Quiet, Ready, book
    <3>1. CASE e \in Reqs
      <4>1. /\ Becomes(l, "ask") /\ listeners'[l].to = subs
            /\ listeners'[l].pending = listeners[l].pending
        BY <2>6, <1>h, <3>e, <3>1, TakeEventSets DEF Holds
      <4>2. req' = req
        BY <2>6, <3>e, <3>1 DEF TakeEvent, Events
      <4>3. listeners'[1].pc = "ask" /\ Open' = Open
        BY <3>0, <4>1, <4>2 DEF Becomes, Open
      <4>4. listeners[1].pending = {} /\ \A r \in Open : subs \subseteq asked[r]
        BY <1>h, <3>0 DEF Replayed
      <4> QED
        BY <3>0, <4>1, <4>3, <4>4 DEF Replayed
    <3>2. CASE e \notin Reqs
      <4>1. listeners' = listeners
        BY <2>6, <1>h, <3>e, <3>2, TakeEventSets
      <4>2. req' = req \/ req' = Settled(Open, ConvOf(l))
        BY <2>6 DEF TakeEvent
      <4>3. Open' \subseteq Open
        BY <1>h, <4>2, ListenerFields, OpenSettled DEF Open
      <4> QED
        BY <1>h, <3>0, <4>1, <4>3, ReplayKept DEF MeKept
    <3> QED
      BY <3>1, <3>2
  <2>7. CASE Ask(l)
    <3>r. PICK r : r = listeners[l].hand
      OBVIOUS
    <3>0. l = 1 /\ listeners[1].pc = "ask" /\ subs' = subs /\ l \in Nat
      BY <2>7, <1>o DEF Ask, book
    <3>1. r \in Reqs /\ req[r].st = "queued"
      BY <2>7, <1>h, <3>r DEF Ask, AskInv
    <3>2. Becomes(l, "loop") /\ listeners'[l].pending = listeners[l].pending
      BY <2>7, <1>h, AskSets DEF Holds
    <3>3. /\ req' = [req EXCEPT ![r].st = "open", ![r].lis = l]
          /\ asked' = [asked EXCEPT ![r] = listeners[1].to \cap subs]
      BY <2>7, <3>0, <3>r DEF Ask
    <3>4. ReqMoves(r, "open")
      BY <1>h, <3>0, <3>1, <3>3, ReqGoesTo
    <3>5. Open' = Open \cup {r}
      BY <3>1, <3>4 DEF ReqMoves, Open
    <3>6. subs \subseteq listeners[1].to /\ listeners[1].pending = {}
          /\ \A q \in Open : subs \subseteq asked[q]
      BY <1>h, <3>0 DEF Replayed
    <3>7. \A q \in Reqs : asked'[q] = IF q = r THEN listeners[1].to \cap subs ELSE asked[q]
      BY <1>h, <3>1, <3>3 DEF SubscriberTypes
    <3>8. \A q \in Open' : subs' \subseteq asked'[q]
      BY <3>0, <3>1, <3>5, <3>6, <3>7 DEF Open
    <3>9. listeners'[1].pc = "loop" /\ listeners'[1].pending = {}
      BY <3>0, <3>2, <3>6 DEF Becomes
    <3> QED
      BY <3>8, <3>9 DEF Replayed
  <2>8. CASE MarkUnload(l)
    <3>0. l = 1 /\ listeners[1].pc \in {"loop", "check"} /\ UNCHANGED <<subs, req, asked>>
      BY <2>8, <1>o DEF MarkUnload, Quiet, Ready, asks, book
    <3>1. (Becomes(l, "unload") \/ Becomes(l, "loop")) /\ listeners'[l].pending = listeners[l].pending
      BY <2>8, <1>h, MarkUnloadSets DEF Holds
    <3>2. MeKept
      BY <3>0, <3>1 DEF MeKept, Becomes
    <3> QED
      BY <1>h, <3>0, <3>2, ReplayKept DEF Open
  <2>9. CASE Unload(l)
    <3>1. entry' = 0
      BY <2>9 DEF Unload, RemoveState
    <3> QED
      BY <1>h, <3>1
  <2>10. CASE UnloadTrigger(l)
    <3>0. l = 1 /\ listeners[1].pc \in {"loop", "check"} /\ UNCHANGED <<subs, req, asked>>
      BY <2>10, <1>o DEF UnloadTrigger, Quiet, Ready, asks, book
    <3>1. (Becomes(l, "check")) /\ listeners'[l].pending = listeners[l].pending
      BY <2>10, <1>h, UnloadTriggerSets DEF Holds
    <3>2. MeKept
      BY <3>0, <3>1 DEF MeKept, Becomes
    <3> QED
      BY <1>h, <3>0, <3>2, ReplayKept DEF Open
  <2> QED
    BY <1>6, <2>1, <2>2, <2>3, <2>4, <2>5, <2>6, <2>7, <2>8, <2>9, <2>10 DEF Listener
<1>7. ASSUME NEW r \in Reqs, Waiter(r) PROVE Replayed'
  <2>1. CASE Resolve(r)
    <3>1. UNCHANGED <<subs, asked>>
      BY <2>1 DEF Resolve, book
    <3>2. /\ listeners' = listeners \/ \E d \in DOMAIN listeners : Sends(d, <<"resolve", r>>)
          /\ req[r].st = "settled" /\ (ReqMoves(r, "resolved") \/ ReqMoves(r, "resolving"))
      BY <2>1, <1>h, ResolveSends
    <3>3. MeKept
      BY <1>o, <3>2 DEF Sends, Becomes, Holds, MeKept
    <3>4. Open' = Open
      BY <1>h, <3>2, OpenMoves
    <3> QED
      BY <1>h, <3>1, <3>3, <3>4, ReplayKept
  <2>2. CASE ResolveLost(r)
    <3>1. req' = [req EXCEPT ![r].st = "resolved"] /\ req[r].st = "resolving"
          /\ UNCHANGED <<listeners, subs, asked>>
      BY <2>2 DEF ResolveLost, book
    <3>2. Open' = Open
      BY <1>h, <3>1, ReqResolves, OpenMoves
    <3> QED
      BY <1>h, <3>1, <3>2, ReplayKept DEF MeKept
  <2>3. CASE Decide(r)
    <3>1. ReqMoves(r, "done") /\ req[r].st = "resolved" /\ UNCHANGED <<listeners, subs, asked>>
      BY <2>3, <1>h, DecideMoves DEF Decide, book
    <3>2. Open' = Open
      BY <1>h, <3>1, OpenMoves
    <3> QED
      BY <1>h, <3>1, <3>2, ReplayKept DEF MeKept
  <2> QED
    BY <1>7, <2>1, <2>2, <2>3 DEF Waiter
<1>8. ASSUME NEW n \in DOMAIN convs, Thread(n) PROVE Replayed'
  <2>1. CASE EndTurn(n)
    <3>1. req' = Released(n) /\ UNCHANGED <<listeners, subs, asked>>
      BY <2>1 DEF EndTurn, book
    <3>2. Open' = Open
      BY <1>h, <3>1, ReleasedIs DEF Open
    <3> QED
      BY <1>h, <3>1, <3>2, ReplayKept DEF MeKept
  <2>2. CASE Shutdown(n)
    <3>1. req' = Released(n) /\ UNCHANGED <<listeners, subs, asked>>
      BY <2>2 DEF Shutdown, book
    <3>2. Open' = Open
      BY <1>h, <3>1, ReleasedIs DEF Open
    <3> QED
      BY <1>h, <3>1, <3>2, ReplayKept DEF MeKept
  <2>3. ASSUME NEW r \in Reqs, AskApproval(n, r) PROVE Replayed'
    <3>1. n \in Nat
      BY <1>h, ConvFields
    <3>2. ReqMoves(r, "queued") /\ req[r].st = "new" /\ UNCHANGED <<listeners, subs, asked>>
      BY <2>3, <1>h, <3>1, AskApprovalMoves DEF AskApproval, book
    <3>3. Open' = Open
      BY <1>h, <3>2, OpenMoves
    <3> QED
      BY <1>h, <3>2, <3>3, ReplayKept DEF MeKept
  <2>4. CASE Unloaded(n)
    BY <2>4, <1>u DEF Unloaded, book, asks
  <2> QED
    BY <1>8, <2>1, <2>2, <2>3, <2>4 DEF Thread
<1>9. CASE StartTurn
  BY <1>9, <1>u DEF StartTurn, book, asks
<1>10. CASE UNCHANGED vars
  BY <1>10, <1>u DEF vars, book, asks
<1> QED
  BY <1>1, <1>2, <1>3, <1>4, <1>5, <1>6, <1>7, <1>8, <1>9, <1>10 DEF Next

(* Nobody is left out.                                                       *)
LEMMA ReplayStep ==
  ASSUME TypeOK, AskInv, CommandInv, FirstInv, ReplayInv, [Next]_vars
  PROVE  ReplayInv'
BY EntryStep, ReplayedStep DEF ReplayInv, TypeOK

(* Most steps leave alone which approvals are over.                         *)
OverSame == \A r \in Reqs : Over(r)' <=> Over(r)

(* Settling ends no approval ...                                             *)
LEMMA OverSettled ==
  ASSUME ReqTypes, NEW rs \in SUBSET Open, NEW res \in Nat,
         req' = Settled(rs, res)
  PROVE  OverSame
<1>1. rs \subseteq Reqs /\ \A r \in rs : req[r].st = "open"
  BY DEF Open
<1>2. /\ \A r \in Reqs \ rs : req'[r] = req[r]
      /\ \A r \in rs : req'[r].st = "settled"
  BY <1>1 DEF Settled, ReqTypes, ReqRecs
<1> QED
  BY <1>1, <1>2 DEF OverSame, Over

(* ... and neither does a step that resolves none.                           *)
LEMMA OverMoves ==
  ASSUME ReqTypes, NEW r \in Reqs, NEW st, ReqMoves(r, st)
  PROVE  /\ \A q \in Reqs : q # r => (Over(q)' <=> Over(q))
         /\ Over(r)' <=> st \in {"resolved", "done"}
BY DEF Over, ReqMoves

Ends == \/ \E r \in Reqs : Resolve(r) \/ ResolveLost(r)
        \/ \E l \in DOMAIN listeners : ResolveCommand(l)

(* An approval is over only when its resolution has ended.                   *)
LEMMA OverStep ==
  ASSUME TypeOK, AskInv, [Next]_vars
  PROVE  OverSame \/ Ends
<1>h. ReqTypes /\ ListenerTypes /\ CoreTypes /\ AskInv
  BY DEF TypeOK
<1>u. UNCHANGED req => OverSame \/ Ends
  BY <1>h DEF OverSame, Over
<1>1. ASSUME NEW p, Teardown(p) PROVE OverSame \/ Ends
  BY <1>1, <1>h, <1>u, TeardownSettles, OverSettled
<1>2. ASSUME NEW c \in Conns, NEW r \in Reqs, Answer(c, r) PROVE OverSame \/ Ends
  <2>1. {r} \in SUBSET Open /\ req' = Settled({r}, 0)
    BY <1>2 DEF Answer
  <2> QED
    BY <1>h, <2>1, OverSettled
<1>3. ASSUME NEW c \in Conns, Resume(c, "resume") \/ Resume(c, "replace") \/ Archive(c)
                              \/ Unsubscribe(c) \/ Close(c)
      PROVE  OverSame \/ Ends
  BY <1>3, <1>u DEF Resume, Archive, Unsubscribe, Close, asks
<1>4. CASE Handler \/ ReplaceTimesOut
  <2>1. CASE HandlerTeardown \/ CloseTeardown
    BY <1>1, <2>1 DEF HandlerTeardown, CloseTeardown
  <2>2. CASE Lookup \/ Differs \/ Replace \/ Rejoin \/ Listen \/ ListenSet \/ Enqueue \/ Load
             \/ Attach \/ Attached \/ AttachedSet \/ Archived \/ CloseCheck \/ ReplaceTimesOut
    BY <2>2, <1>u DEF Lookup, Differs, Replace, Rejoin, Listen, ListenSet, Enqueue, Load, Attach,
       Attached, AttachedSet, Archived, CloseCheck, ReplaceTimesOut, asks
  <2> QED
    BY <1>4, <2>1, <2>2 DEF Handler
<1>5. ASSUME NEW l \in DOMAIN listeners, Listener(l) \/ UnloadTrigger(l) PROVE OverSame \/ Ends
  <2>1. CASE ResolveCommand(l)
    BY <2>1 DEF Ends
  <2>2. CASE TakeEvent(l)
    <3>1. req' = req \/ req' = Settled(Open, ConvOf(l))
      BY <2>2 DEF TakeEvent
    <3> QED
      BY <1>h, <1>u, <3>1, ListenerFields, OverSettled
  <2>3. CASE Ask(l)
    <3>r. PICK r : r = listeners[l].hand
      OBVIOUS
    <3>1. r \in Reqs /\ req[r].st = "queued" /\ l \in Nat
      BY <2>3, <3>r, <1>h, ListenerFields DEF Ask, AskInv
    <3>2. req' = [req EXCEPT ![r].st = "open", ![r].lis = l]
      BY <2>3, <3>r DEF Ask
    <3>3. ReqMoves(r, "open")
      BY <1>h, <3>1, <3>2, ReqGoesTo
    <3> QED
      BY <1>h, <3>1, <3>3, OverMoves DEF OverSame, Over
  <2>4. CASE Unload(l)
    <3>1. req' = Settled(Open, 0)
      BY <2>4 DEF Unload, CancelRequests
    <3> QED
      BY <1>h, <3>1, OverSettled
  <2>5. CASE Stop(l) \/ ResumeCommand(l) \/ Respond(l) \/ Replay(l) \/ MarkUnload(l)
             \/ UnloadTrigger(l)
    BY <2>5, <1>u DEF Stop, ResumeCommand, Respond, Replay, MarkUnload, UnloadTrigger, asks
  <2> QED
    BY <1>5, <2>1, <2>2, <2>3, <2>4, <2>5 DEF Listener
<1>6. ASSUME NEW r \in Reqs, Waiter(r) PROVE OverSame \/ Ends
  <2>1. CASE Resolve(r)
    BY <2>1 DEF Ends
  <2>2. CASE ResolveLost(r)
    BY <2>2 DEF Ends
  <2>3. CASE Decide(r)
    <3>1. req[r].st = "resolved" /\ ReqMoves(r, "done")
      BY <2>3, <1>h, DecideMoves DEF Decide
    <3> QED
      BY <1>h, <3>1, OverMoves DEF OverSame, Over
  <2> QED
    BY <1>6, <2>1, <2>2, <2>3 DEF Waiter
<1>7. ASSUME NEW n \in DOMAIN convs, Thread(n) PROVE OverSame \/ Ends
  <2>1. CASE EndTurn(n)
    <3>1. req' = Released(n)
      BY <2>1 DEF EndTurn
    <3> QED
      BY <1>h, <3>1, ReleasedIs DEF OverSame, Over
  <2>2. CASE Shutdown(n)
    <3>1. req' = Released(n)
      BY <2>2 DEF Shutdown
    <3> QED
      BY <1>h, <3>1, ReleasedIs DEF OverSame, Over
  <2>3. ASSUME NEW r \in Reqs, AskApproval(n, r) PROVE OverSame \/ Ends
    <3>1. n \in Nat
      BY <1>h, ConvFields
    <3>2. req[r].st = "new" /\ ReqMoves(r, "queued")
      BY <2>3, <1>h, <3>1, AskApprovalMoves DEF AskApproval
    <3> QED
      BY <1>h, <3>2, OverMoves DEF OverSame, Over
  <2>4. CASE Unloaded(n)
    BY <2>4, <1>u DEF Unloaded, asks
  <2> QED
    BY <1>7, <2>1, <2>2, <2>3, <2>4 DEF Thread
<1>8. CASE StartTurn
  BY <1>8, <1>u DEF StartTurn, asks
<1>9. CASE UNCHANGED vars
  BY <1>9, <1>u DEF vars, asks
<1> QED
  BY <1>2, <1>3, <1>4, <1>5, <1>6, <1>7, <1>8, <1>9 DEF Next

(* An approval whose resolution ended is over, and others stay as they are.  *)
LEMMA EndsKeep ==
  ASSUME TypeOK, CommandInv, Ends
  PROVE  \A r \in Reqs : Over(r) => Over(r)'
<1>h. ReqTypes /\ ListenerTypes
  BY DEF TypeOK
<1>1. ASSUME NEW r \in Reqs, Resolve(r) PROVE \A q \in Reqs : Over(q) => Over(q)'
  <2>1. req[r].st = "settled" /\ (ReqMoves(r, "resolved") \/ ReqMoves(r, "resolving"))
    BY <1>1, <1>h, ResolveSends
  <2> QED
    BY <1>h, <2>1, OverMoves DEF Over
<1>2. ASSUME NEW r \in Reqs, ResolveLost(r) PROVE \A q \in Reqs : Over(q) => Over(q)'
  <2>1. ReqMoves(r, "resolved")
    BY <1>2, <1>h, ReqResolves DEF ResolveLost
  <2> QED
    BY <1>h, <2>1, OverMoves
<1>3. ASSUME NEW l \in DOMAIN listeners, ResolveCommand(l)
      PROVE  \A q \in Reqs : Over(q) => Over(q)'
  <2>r. PICK r : r = Head(listeners[l].cmds)[2]
    OBVIOUS
  <2>1. r \in Reqs /\ req' = [req EXCEPT ![r].st = "resolved"]
    BY <1>3, <1>h, <2>r, ResolvingFirst DEF ResolveCommand
  <2>2. ReqMoves(r, "resolved")
    BY <1>h, <2>1, ReqResolves
  <2> QED
    BY <1>h, <2>1, <2>2, OverMoves
<1> QED
  BY <1>1, <1>2, <1>3 DEF Ends

(* An approval that is over stays so.                                        *)
LEMMA OverStays ==
  ASSUME TypeOK, AskInv, CommandInv, [Next]_vars
  PROVE  \A r \in Reqs : Over(r) => Over(r)'
BY OverStep, EndsKeep DEF OverSame

(* Nobody is told of the end of an approval that goes on.                    *)
LEMMA ToldStep ==
  ASSUME TypeOK, AskInv, CommandInv, ToldInv, [Next]_vars
  PROVE  ToldInv'
<1>h. ReqTypes /\ ListenerTypes /\ CommandInv /\ ToldInv
  BY DEF TypeOK
<1>g. \A r \in Reqs : Over(r) => Over(r)'
  BY OverStays
<1>u. UNCHANGED told => ToldInv'
  BY <1>h, <1>g DEF ToldInv
<1>1. ASSUME NEW c \in Conns, Resume(c, "resume") \/ Resume(c, "replace") \/ Unsubscribe(c)
                              \/ Archive(c) \/ Close(c) \/ \E r \in Reqs : Answer(c, r)
      PROVE  ToldInv'
  BY <1>1, <1>u DEF Resume, Unsubscribe, Archive, Close, Answer, asks
<1>2. CASE Handler \/ ReplaceTimesOut
  <2>1. CASE HandlerTeardown \/ CloseTeardown
    BY <2>1, <1>u, TeardownSettles DEF HandlerTeardown, CloseTeardown
  <2>2. CASE Lookup \/ Differs \/ Replace \/ Rejoin \/ Listen \/ ListenSet \/ Enqueue \/ Load
             \/ Attach \/ Attached \/ AttachedSet \/ Archived \/ CloseCheck \/ ReplaceTimesOut
    BY <2>2, <1>u DEF Lookup, Differs, Replace, Rejoin, Listen, ListenSet, Enqueue, Load, Attach,
       Attached, AttachedSet, Archived, CloseCheck, ReplaceTimesOut, asks
  <2> QED
    BY <1>2, <2>1, <2>2 DEF Handler
<1>3. ASSUME NEW l \in DOMAIN listeners, Listener(l) \/ UnloadTrigger(l) PROVE ToldInv'
  <2>1. CASE ResolveCommand(l)
    <3>r. PICK r : r = Head(listeners[l].cmds)[2]
      OBVIOUS
    <3>1. /\ r \in Reqs /\ req' = [req EXCEPT ![r].st = "resolved"]
          /\ told' = [told EXCEPT ![r] = told[r] \cup subs]
      BY <2>1, <1>h, <3>r, ResolvingFirst DEF ResolveCommand
    <3>2. Over(r)'
      BY <1>h, <3>1, ReqResolves DEF ReqMoves, Over
    <3>3. \A q \in Reqs : q # r => told'[q] = told[q]
      BY <1>h, <3>1 DEF ReqTypes
    <3> QED
      BY <1>h, <1>g, <3>2, <3>3 DEF ToldInv
  <2>2. CASE Stop(l) \/ ResumeCommand(l) \/ Respond(l) \/ Replay(l) \/ TakeEvent(l) \/ Ask(l)
             \/ MarkUnload(l) \/ Unload(l) \/ UnloadTrigger(l)
    BY <2>2, <1>u DEF Stop, ResumeCommand, Respond, Replay, TakeEvent, Ask, MarkUnload, Unload,
       UnloadTrigger, RemoveState, asks
  <2> QED
    BY <1>3, <2>1, <2>2 DEF Listener
<1>4. ASSUME NEW r \in Reqs, Waiter(r) PROVE ToldInv'
  BY <1>4, <1>u DEF Waiter, Resolve, ResolveLost, Decide
<1>5. ASSUME NEW n \in DOMAIN convs, Thread(n) PROVE ToldInv'
  BY <1>5, <1>u DEF Thread, EndTurn, Shutdown, Unloaded, AskApproval, asks
<1>6. CASE StartTurn
  BY <1>6, <1>u DEF StartTurn, asks
<1>7. CASE UNCHANGED vars
  BY <1>7, <1>u DEF vars, asks
<1> QED
  BY <1>1, <1>2, <1>3, <1>4, <1>5, <1>6, <1>7 DEF Next

(* A step that shows nobody anything and ends nothing.                       *)
LEMMA RetiredKept ==
  ASSUME Retired, OverSame, told' = told,
         listeners'[1].pending = listeners[1].pending,
         \A r \in Reqs : asked'[r] \subseteq asked[r]
  PROVE  Retired'
BY DEF Retired, OverSame

(* A command leaves what the listener replays alone.                         *)
LEMMA PendingKept ==
  ASSUME DOMAIN listeners = {1}, NEW l \in DOMAIN listeners, NEW cmd, Sends(l, cmd)
  PROVE  listeners'[1].pending = listeners[1].pending
BY DEF Sends, Holds

(* Everybody who shows an approval of the first listener is told of its end. *)
LEMMA RetiredHolds ==
  ASSUME TypeOK, AskInv, CommandInv, FirstInv, ReplayInv, RetiredInv, entry = 1, entry' = 1, [Next]_vars
  PROVE  Retired'
<1>h. /\ ConnTypes /\ SubscriberTypes /\ ListenerTypes /\ CoreTypes /\ ReqTypes /\ OpTypes
      /\ FirstListener /\ FirstCore /\ Replayed /\ entry = 1 /\ entry' = 1
      /\ AskInv /\ CommandInv /\ Retired
  BY DEF TypeOK, FirstInv, ReplayInv, RetiredInv
<1>o. DOMAIN listeners = {1}
  BY <1>h DEF ListenerTypes, FirstListener
<1>u. UNCHANGED <<listeners, req, asked, told>> => Retired'
  BY <1>h DEF Retired, Over
<1>1. ASSUME NEW c \in Conns, Unsubscribe(c) PROVE Retired'
  <2>1. CASE loaded = 0
    BY <1>1, <1>u, <2>1 DEF Unsubscribe
  <2>2. CASE loaded # 0
    <3>1. asked' = Drop(c) /\ UNCHANGED <<listeners, req, told>>
      BY <1>1, <2>2 DEF Unsubscribe
    <3>2. OverSame
      BY <3>1 DEF OverSame, Over
    <3>3. \A r \in Reqs : asked'[r] \subseteq asked[r]
      BY <3>1 DEF Drop
    <3> QED
      BY <1>h, <3>1, <3>2, <3>3, RetiredKept
  <2> QED
    BY <2>1, <2>2
<1>2. ASSUME NEW c \in Conns, Close(c) PROVE Retired'
  <2>1. asked' = Drop(c) /\ UNCHANGED <<listeners, req, told>>
    BY <1>2 DEF Close
  <2>2. OverSame
    BY <2>1 DEF OverSame, Over
  <2>3. \A r \in Reqs : asked'[r] \subseteq asked[r]
    BY <2>1 DEF Drop
  <2> QED
    BY <1>h, <2>1, <2>2, <2>3, RetiredKept
<1>3. ASSUME NEW c \in Conns, NEW r \in Reqs, Answer(c, r) PROVE Retired'
  <2>1. {r} \in SUBSET Open /\ req' = Settled({r}, 0) /\ UNCHANGED <<listeners, asked, told>>
    BY <1>3 DEF Answer
  <2>2. OverSame
    BY <1>h, <2>1, OverSettled
  <2> QED
    BY <1>h, <2>1, <2>2, RetiredKept
<1>4. ASSUME NEW c \in Conns, Resume(c, "resume") \/ Resume(c, "replace") \/ Archive(c)
      PROVE  Retired'
  BY <1>4, <1>u DEF Resume, Archive, asks
<1>5. CASE Handler \/ ReplaceTimesOut
  <2>1. ASSUME NEW p, Teardown(p) PROVE Retired'
    <3>1. p # "remove"
      BY <2>1, <1>h DEF Teardown, RemoveState
    <3>2. UNCHANGED <<listeners, asked, told>> /\ (req' = req \/ req' = Settled(Open, 0))
      BY <2>1, <3>1, TeardownSettles DEF Teardown, asks
    <3>3. OverSame
      BY <1>h, <3>2, OverSettled DEF OverSame, Over
    <3> QED
      BY <1>h, <3>2, <3>3, RetiredKept
  <2>2. CASE HandlerTeardown \/ CloseTeardown
    BY <2>1, <2>2 DEF HandlerTeardown, CloseTeardown
  <2>3. CASE ListenSet
    <3>1. Matches(op.obj, op.conv)
      BY <2>3, <1>h, FirstMatches DEF ListenSet
    <3>2. UNCHANGED <<listeners, req, asked, told>>
      BY <2>3, <1>h, <3>1 DEF ListenSet, SetListener, asks
    <3> QED
      BY <1>u, <3>2
  <2>4. CASE Enqueue
    <3>1. UNCHANGED <<req, asked, told>>
      BY <2>4 DEF Enqueue, asks
    <3>2. \/ listeners' = listeners
          \/ tx[op.obj] \in DOMAIN listeners /\ Sends(tx[op.obj], <<"resume", op.conn>>)
      BY <2>4, <1>h, EnqueueSends
    <3>3. OverSame /\ listeners'[1].pending = listeners[1].pending
      BY <1>o, <3>1, <3>2, PendingKept DEF OverSame, Over
    <3> QED
      BY <1>h, <3>1, <3>3, RetiredKept
  <2>5. CASE AttachedSet
    <3>1. op # None /\ op.pc = "serve"
      BY <2>5 DEF AttachedSet, At
    <3> QED
      BY <1>h, <3>1 DEF FirstCore, At
  <2>6. CASE Lookup \/ Differs \/ Replace \/ Rejoin \/ Listen \/ Load \/ Attach \/ Attached
             \/ Archived \/ CloseCheck \/ ReplaceTimesOut
    BY <2>6, <1>u DEF Lookup, Differs, Replace, Rejoin, Listen, Load, Attach, Attached, Archived,
       CloseCheck, ReplaceTimesOut, asks
  <2> QED
    BY <1>5, <2>2, <2>3, <2>4, <2>5, <2>6 DEF Handler
<1>6. ASSUME NEW l \in DOMAIN listeners, Listener(l) \/ UnloadTrigger(l) PROVE Retired'
  <2>1. CASE Stop(l)
    <3>1. listeners[l].cancelled \/ listeners[l].watch # entry
      BY <2>1 DEF Stop
    <3> QED
      BY <1>h, <1>o, <3>1 DEF FirstListener
  <2>2. CASE ResumeCommand(l)
    <3>1. UNCHANGED <<req, asked, told>>
      BY <2>2 DEF ResumeCommand, asks
    <3>2. l = 1 /\ listeners'[l].pending = listeners[l].pending
      BY <2>2, <1>h, <1>o, ResumeCommandSets DEF Holds
    <3>3. OverSame
      BY <3>1 DEF OverSame, Over
    <3> QED
      BY <1>h, <3>1, <3>2, <3>3, RetiredKept
  <2>3. CASE Respond(l)
    <3>1. UNCHANGED <<req, asked, told>>
      BY <2>3 DEF Respond, asks
    <3>2. l = 1 /\ listeners'[l].pending = Open
      BY <2>3, <1>h, <1>o, RespondSets DEF Holds
    <3>3. OverSame
      BY <3>1 DEF OverSame, Over
    <3>4. \A r \in Reqs : Over(r) => r \notin Open
      BY DEF Over, Open
    <3> QED
      BY <1>h, <3>1, <3>2, <3>3, <3>4 DEF Retired, OverSame
  <2>4. CASE Replay(l)
    <3>1. UNCHANGED <<req, told>>
      BY <2>4 DEF Replay
    <3>2. l = 1 /\ listeners'[l].pending = {}
      BY <2>4, <1>h, <1>o, ReplaySets DEF Holds
    <3>3. OverSame
      BY <3>1 DEF OverSame, Over
    <3>4. \A r \in Reqs : r \notin listeners[1].pending => asked'[r] = asked[r]
      BY <2>4, <3>2 DEF Replay
    <3> QED
      BY <1>h, <3>1, <3>2, <3>3, <3>4 DEF Retired, OverSame
  <2>5. CASE ResolveCommand(l)
    <3>r. PICK r : r = Head(listeners[l].cmds)[2]
      OBVIOUS
    <3>0. l = 1 /\ listeners[1].pc = "loop" /\ asked' = asked
      BY <2>5, <1>o DEF ResolveCommand, Ready
    <3>1. /\ r \in Reqs /\ req' = [req EXCEPT ![r].st = "resolved"]
          /\ told' = [told EXCEPT ![r] = told[r] \cup subs]
      BY <2>5, <1>h, <3>r, ResolvingFirst DEF ResolveCommand
    <3>2. ReqMoves(r, "resolved")
      BY <1>h, <3>1, ReqResolves
    <3>3. \A q \in Reqs : q # r => (Over(q)' <=> Over(q))
      BY <1>h, <3>1, <3>2, OverMoves
    <3>4. told'[r] = told[r] \cup subs /\ \A q \in Reqs : q # r => told'[q] = told[q]
      BY <1>h, <3>1 DEF ReqTypes
    <3>5. asked[r] \subseteq subs
      BY <1>h, <3>1 DEF SubscriberTypes
    <3>6. listeners'[1].pending = {}
      <4>1. listeners'[l].pending = listeners[l].pending
        BY <2>5, <1>h, ResolveCommandSets DEF Holds
      <4> QED
        BY <1>h, <3>0, <4>1 DEF Replayed
    <3> QED
      BY <1>h, <3>0, <3>3, <3>4, <3>5, <3>6 DEF Retired
  <2>6. CASE TakeEvent(l)
    <3>1. UNCHANGED <<asked, told>> /\ (req' = req \/ req' = Settled(Open, ConvOf(l)))
      BY <2>6 DEF TakeEvent
    <3>2. l = 1 /\ listeners'[l].pending = listeners[l].pending
      BY <2>6, <1>h, <1>o, TakeEventSets DEF Holds
    <3>3. OverSame
      BY <1>h, <3>1, ListenerFields, OverSettled DEF OverSame, Over
    <3> QED
      BY <1>h, <3>1, <3>2, <3>3, RetiredKept
  <2>7. CASE Ask(l)
    <3>r. PICK r : r = listeners[l].hand
      OBVIOUS
    <3>1. r \in Reqs /\ req[r].st = "queued" /\ l = 1 /\ told' = told
      BY <2>7, <3>r, <1>h, <1>o DEF Ask, AskInv
    <3>2. req' = [req EXCEPT ![r].st = "open", ![r].lis = l] /\ \A q \in Reqs : q # r => asked'[q] = asked[q]
      BY <2>7, <1>h, <3>r DEF Ask, SubscriberTypes
    <3>3. ReqMoves(r, "open")
      BY <1>h, <3>1, <3>2, ReqGoesTo
    <3>4. ~ Over(r)' /\ \A q \in Reqs : q # r => (Over(q)' <=> Over(q))
      BY <1>h, <3>1, <3>3, OverMoves
    <3>5. listeners'[l].pending = listeners[l].pending
      BY <2>7, <1>h, AskSets DEF Holds
    <3> QED
      BY <1>h, <3>1, <3>2, <3>4, <3>5 DEF Retired
  <2>8. CASE MarkUnload(l)
    <3>1. UNCHANGED <<req, asked, told>>
      BY <2>8 DEF MarkUnload, asks
    <3>2. l = 1 /\ listeners'[l].pending = listeners[l].pending
      BY <2>8, <1>h, <1>o, MarkUnloadSets DEF Holds
    <3>3. OverSame
      BY <3>1 DEF OverSame, Over
    <3> QED
      BY <1>h, <3>1, <3>2, <3>3, RetiredKept
  <2>9. CASE Unload(l)
    <3>1. entry' = 0
      BY <2>9 DEF Unload, RemoveState
    <3> QED
      BY <1>h, <3>1
  <2>10. CASE UnloadTrigger(l)
    <3>1. UNCHANGED <<req, asked, told>>
      BY <2>10 DEF UnloadTrigger, asks
    <3>2. l = 1 /\ listeners'[l].pending = listeners[l].pending
      BY <2>10, <1>h, <1>o, UnloadTriggerSets DEF Holds
    <3>3. OverSame
      BY <3>1 DEF OverSame, Over
    <3> QED
      BY <1>h, <3>1, <3>2, <3>3, RetiredKept
  <2> QED
    BY <1>6, <2>1, <2>2, <2>3, <2>4, <2>5, <2>6, <2>7, <2>8, <2>9, <2>10 DEF Listener
<1>7. ASSUME NEW r \in Reqs, Waiter(r) PROVE Retired'
  <2>1. CASE Resolve(r)
    <3>1. UNCHANGED <<asked, told>>
      BY <2>1 DEF Resolve
    <3>2. /\ req[r].st = "settled"
          /\ \/ tx[listeners[req[r].lis].obj] = 0 /\ req[r].lis \in DOMAIN listeners
             \/ ReqMoves(r, "resolving") /\ \E d \in DOMAIN listeners : Sends(d, <<"resolve", r>>)
      BY <2>1, <1>h, ResolveSends
    <3>3. ReqMoves(r, "resolving") /\ \E d \in DOMAIN listeners : Sends(d, <<"resolve", r>>)
      BY <1>h, <1>o, <3>2 DEF FirstListener
    <3>4. OverSame
      BY <1>h, <3>2, <3>3, OverMoves DEF OverSame, Over
    <3>5. listeners'[1].pending = listeners[1].pending
      BY <1>o, <3>3, PendingKept
    <3> QED
      BY <1>h, <3>1, <3>4, <3>5, RetiredKept
  <2>2. CASE ResolveLost(r)
    <3>1. req[r].st = "resolving" /\ listeners[req[r].lis].pc = "ended"
      BY <2>2 DEF ResolveLost
    <3>2. req[r].lis = 1
      BY <1>h, <1>o, <3>1 DEF ReqTypes
    <3> QED
      BY <1>h, <3>1, <3>2 DEF FirstListener
  <2>3. CASE Decide(r)
    <3>1. ReqMoves(r, "done") /\ req[r].st = "resolved" /\ UNCHANGED <<listeners, asked, told>>
      BY <2>3, <1>h, DecideMoves DEF Decide
    <3>2. OverSame
      BY <1>h, <3>1, OverMoves DEF OverSame, Over
    <3> QED
      BY <1>h, <3>1, <3>2, RetiredKept
  <2> QED
    BY <1>7, <2>1, <2>2, <2>3 DEF Waiter
<1>8. ASSUME NEW n \in DOMAIN convs, Thread(n) PROVE Retired'
  <2>1. CASE EndTurn(n)
    <3>1. req' = Released(n) /\ UNCHANGED <<listeners, asked, told>>
      BY <2>1 DEF EndTurn
    <3>2. OverSame
      BY <1>h, <3>1, ReleasedIs DEF OverSame, Over
    <3> QED
      BY <1>h, <3>1, <3>2, RetiredKept
  <2>2. CASE Shutdown(n)
    <3>1. req' = Released(n) /\ UNCHANGED <<listeners, asked, told>>
      BY <2>2 DEF Shutdown
    <3>2. OverSame
      BY <1>h, <3>1, ReleasedIs DEF OverSame, Over
    <3> QED
      BY <1>h, <3>1, <3>2, RetiredKept
  <2>3. ASSUME NEW r \in Reqs, AskApproval(n, r) PROVE Retired'
    <3>1. n \in Nat
      BY <1>h, ConvFields
    <3>2. ReqMoves(r, "queued") /\ req[r].st = "new" /\ UNCHANGED <<listeners, asked, told>>
      BY <2>3, <1>h, <3>1, AskApprovalMoves DEF AskApproval
    <3>3. OverSame
      BY <1>h, <3>2, OverMoves DEF OverSame, Over
    <3> QED
      BY <1>h, <3>2, <3>3, RetiredKept
  <2>4. CASE Unloaded(n)
    BY <2>4, <1>u DEF Unloaded, asks
  <2> QED
    BY <1>8, <2>1, <2>2, <2>3, <2>4 DEF Thread
<1>9. CASE StartTurn
  BY <1>9, <1>u DEF StartTurn, asks
<1>10. CASE UNCHANGED vars
  BY <1>10, <1>u DEF vars, asks
<1> QED
  BY <1>1, <1>2, <1>3, <1>4, <1>5, <1>6, <1>7, <1>8, <1>9, <1>10 DEF Next

(* Everybody who shows an approval is told of its end.                       *)
LEMMA RetiredStep ==
  ASSUME TypeOK, AskInv, CommandInv, FirstInv, ReplayInv, RetiredInv, [Next]_vars
  PROVE  RetiredInv'
BY EntryStep, RetiredHolds DEF RetiredInv, TypeOK

(* A listener that learns of a turn has no approval of that turn open: the   *)
(* approvals it gives up, if any is waited for, belong to other core threads. *)
LEMMA GivenUpIsOthers ==
  ASSUME TypeOK, AskInv, BlocksInv, NEW l \in DOMAIN listeners, TakeEvent(l),
         Head(Events(ConvOf(l))) \in {"started", "ended"}, NEW r \in Open, req[r].blocks
  PROVE  req[r].conv # ConvOf(l)
<1>h. ListenerTypes /\ CoreTypes /\ ReqTypes
  BY DEF TypeOK
<1>n. PICK n : n = ConvOf(l)
  OBVIOUS
<1>1. r \in Reqs /\ req[r].st = "open"
  BY DEF Open
<1>2. ASSUME req[r].conv = n PROVE FALSE
  <2>1. Events(n) \in Seq(Reqs \cup Words) /\ Events(n) # <<>> /\ n \in DOMAIN convs
    BY <1>h, <1>n, NextEvent DEF TakeEvent
  <2>2. Head(Events(n)) = Events(n)[1] /\ 1 \in DOMAIN Events(n)
    BY <2>1, HeadOff
  <2>3. PICK i \in DOMAIN Events(n) : Events(n)[i] = r
    BY <1>1, <1>2, <1>n, <2>2 DEF BlocksInv, Waits
  <2>4. req[r].st = "queued"
    BY <1>1, <2>1, <2>3 DEF AskInv
  <2> QED
    BY <1>1, <2>4
<1> QED
  BY <1>n, <1>2

(* A step that gives up no approval for a turn.                              *)
ResultsKept ==
  \A r \in Reqs :
    /\ req'[r].st \in {"new", "queued", "open"} =>
         req[r].st \in {"new", "queued", "open"} /\ req'[r].by = req[r].by
    /\ req'[r].blocks =>
         \/ req[r].blocks /\ req'[r].by = req[r].by /\ req'[r].conv = req[r].conv
         \/ req'[r].by = 0 /\ req'[r].conv # 0

(* Such a step keeps ResultInv.                                              *)
LEMMA ResultKept ==
  ASSUME ResultInv, ResultsKept
  PROVE  ResultInv'
<1> SUFFICES ASSUME NEW r \in Reqs
             PROVE  /\ req'[r].st \in {"new", "queued", "open"} => req'[r].by = 0
                    /\ req'[r].blocks => req'[r].by # req'[r].conv
  BY DEF ResultInv
<1>1. /\ req[r].st \in {"new", "queued", "open"} => req[r].by = 0
      /\ req[r].blocks => req[r].by # req[r].conv
  BY DEF ResultInv
<1> QED
  BY <1>1 DEF ResultsKept

(* Approvals that are answered or dropped are not given up for a turn ...    *)
LEMMA SettleResults ==
  ASSUME CoreTypes, ReqTypes, NEW rs \in SUBSET Open, req' = Settled(rs, 0)
  PROVE  ResultsKept
<1>1. rs \in SUBSET Reqs
  BY DEF Open
<1>2. /\ \A r \in Reqs : req'[r].conv = req[r].conv /\ req'[r].blocks = req[r].blocks
      /\ \A r \in Reqs \ rs : req'[r] = req[r]
      /\ \A r \in rs : req'[r].st = "settled" /\ req'[r].by = 0
  BY <1>1, SettledIs
<1>3. \A r \in rs : req[r].conv # 0
  <2>1. \A n \in DOMAIN convs : n # 0
    BY ConvFields
  <2> QED
    BY <1>1, <2>1 DEF Open, ReqTypes
<1> QED
  BY <1>2, <1>3 DEF ResultsKept

(* ... and neither is one that moves on.                                     *)
LEMMA MoveResults ==
  ASSUME NEW r \in Reqs, NEW st, ReqMoves(r, st), st # "new",
         st \in {"queued", "open"} => req[r].st \in {"new", "queued"},
         req'[r].blocks => \/ req[r].blocks /\ req'[r].conv = req[r].conv
                           \/ req[r].by = 0 /\ req'[r].conv # 0
  PROVE  ResultsKept
BY DEF ResultsKept, ReqMoves

(* No turn of its own withholds from a core thread what it waits for.        *)
LEMMA ResultStep ==
  ASSUME TypeOK, AskInv, CommandInv, BlocksInv, ResultInv, [Next]_vars
  PROVE  ResultInv'
<1>h. /\ ReqTypes /\ ListenerTypes /\ CoreTypes /\ AskInv /\ CommandInv /\ ResultInv
  BY DEF TypeOK
<1>u. UNCHANGED req => ResultInv'
  BY <1>h DEF ResultInv
<1>1. ASSUME NEW p, Teardown(p) PROVE ResultInv'
  BY <1>1, <1>h, <1>u, TeardownSettles, SettleResults, ResultKept
<1>2. ASSUME NEW c \in Conns, NEW r \in Reqs, Answer(c, r) PROVE ResultInv'
  <2>1. {r} \in SUBSET Open /\ req' = Settled({r}, 0)
    BY <1>2 DEF Answer, Open
  <2> QED
    BY <1>h, <2>1, SettleResults, ResultKept
<1>3. ASSUME NEW c \in Conns, Resume(c, "resume") \/ Resume(c, "replace") \/ Archive(c)
                              \/ Unsubscribe(c) \/ Close(c)
      PROVE  ResultInv'
  BY <1>3, <1>u DEF Resume, Archive, Unsubscribe, Close, asks
<1>4. CASE Handler \/ ReplaceTimesOut
  <2>1. CASE HandlerTeardown \/ CloseTeardown
    BY <1>1, <2>1 DEF HandlerTeardown, CloseTeardown
  <2>2. CASE Lookup \/ Differs \/ Replace \/ Rejoin \/ Listen \/ ListenSet \/ Enqueue \/ Load
             \/ Attach \/ Attached \/ AttachedSet \/ Archived \/ CloseCheck \/ ReplaceTimesOut
    BY <2>2, <1>u DEF Lookup, Differs, Replace, Rejoin, Listen, ListenSet, Enqueue, Load, Attach,
       Attached, AttachedSet, Archived, CloseCheck, ReplaceTimesOut, asks
  <2> QED
    BY <1>4, <2>1, <2>2 DEF Handler
<1>5. ASSUME NEW l \in DOMAIN listeners, Listener(l) \/ UnloadTrigger(l) PROVE ResultInv'
  <2>1. CASE ResolveCommand(l)
    <3>r. PICK r : r = Head(listeners[l].cmds)[2]
      OBVIOUS
    <3>1. r \in Reqs /\ req[r].st = "resolving" /\ req' = [req EXCEPT ![r].st = "resolved"]
      BY <2>1, <1>h, <3>r, ResolvingFirst DEF ResolveCommand
    <3>7. /\ r \in Reqs /\ req[r].st = "resolving" /\ ReqMoves(r, "resolved")
          /\ req'[r].conv = req[r].conv /\ req'[r].blocks = req[r].blocks
      BY <1>h, <3>1, ReqResolves
    <3>8. ResultsKept
      BY <1>h, <3>7, MoveResults
    <3> QED
      BY <1>h, <3>8, ResultKept
  <2>2. CASE TakeEvent(l)
    <3>e. PICK e : e = Head(Events(ConvOf(l)))
      OBVIOUS
    <3>0. e \in Reqs \cup Words
      BY <2>2, <1>h, <3>e, NextEvent DEF TakeEvent
    <3>1. CASE req' = req
      BY <1>u, <3>1
    <3>2. CASE req' = Settled(Open, ConvOf(l)) /\ e \in {"started", "ended"}
      <4>1. /\ \A r \in Reqs : req'[r].conv = req[r].conv /\ req'[r].blocks = req[r].blocks
            /\ \A r \in Reqs : r \notin Open => req'[r] = req[r]
            /\ \A r \in Open : req'[r].st = "settled" /\ req'[r].by = ConvOf(l)
        BY <1>h, <3>2 DEF Settled, Open, ReqTypes, ReqRecs
      <4>2. \A r \in Open : req[r].blocks => req[r].conv # ConvOf(l)
        BY <2>2, <3>2, <3>e, GivenUpIsOthers
      <4>3. ASSUME NEW r \in Reqs
            PROVE  /\ req'[r].st \in {"new", "queued", "open"} => req'[r].by = 0
                   /\ req'[r].blocks => req'[r].by # req'[r].conv
        <5>1. CASE r \in Open
          BY <4>1, <4>2, <5>1
        <5>2. CASE r \notin Open
          BY <1>h, <4>1, <5>2 DEF ResultInv
        <5> QED
          BY <5>1, <5>2
      <4> QED
        BY <4>3 DEF ResultInv
    <3> QED
      BY <2>2, <3>0, <3>1, <3>2, <3>e DEF TakeEvent, Events, Words
  <2>3. CASE Ask(l)
    <3>r. PICK r : r = listeners[l].hand
      OBVIOUS
    <3>1. r \in Reqs /\ req[r].st = "queued" /\ l \in Nat
      BY <2>3, <3>r, <1>h, ListenerFields DEF Ask, AskInv
    <3>2. req' = [req EXCEPT ![r].st = "open", ![r].lis = l]
      BY <2>3, <3>r DEF Ask
    <3>7. /\ r \in Reqs /\ req[r].st = "queued" /\ ReqMoves(r, "open")
          /\ req'[r].conv = req[r].conv /\ req'[r].blocks = req[r].blocks
      BY <1>h, <3>1, <3>2, ReqGoesTo
    <3>8. ResultsKept
      BY <1>h, <3>7, MoveResults
    <3> QED
      BY <1>h, <3>8, ResultKept
  <2>4. CASE Unload(l)
    <3>1. Open \in SUBSET Open /\ req' = Settled(Open, 0)
      BY <2>4 DEF Unload, CancelRequests
    <3> QED
      BY <1>h, <3>1, SettleResults, ResultKept
  <2>5. CASE Stop(l) \/ ResumeCommand(l) \/ Respond(l) \/ Replay(l) \/ MarkUnload(l)
             \/ UnloadTrigger(l)
    BY <2>5, <1>u DEF Stop, ResumeCommand, Respond, Replay, MarkUnload, UnloadTrigger, asks
  <2> QED
    BY <1>5, <2>1, <2>2, <2>3, <2>4, <2>5 DEF Listener
<1>6. ASSUME NEW r \in Reqs, Waiter(r) PROVE ResultInv'
  <2>1. CASE Resolve(r)
    <3>7. /\ req[r].st = "settled" /\ (ReqMoves(r, "resolved") \/ ReqMoves(r, "resolving"))
          /\ req'[r].conv = req[r].conv /\ req'[r].blocks = req[r].blocks
      BY <2>1, <1>h, ResolveSends
    <3>8. ResultsKept
      <4>1. CASE ReqMoves(r, "resolved")
        BY <1>h, <3>7, <4>1, MoveResults
      <4>2. CASE ReqMoves(r, "resolving")
        BY <1>h, <3>7, <4>2, MoveResults
      <4> QED
        BY <3>7, <4>1, <4>2
    <3> QED
      BY <1>h, <3>8, ResultKept
  <2>2. CASE ResolveLost(r)
    <3>7. /\ req[r].st = "resolving" /\ ReqMoves(r, "resolved")
          /\ req'[r].conv = req[r].conv /\ req'[r].blocks = req[r].blocks
      BY <2>2, <1>h, ReqResolves DEF ResolveLost
    <3>8. ResultsKept
      BY <1>h, <3>7, MoveResults
    <3> QED
      BY <1>h, <3>8, ResultKept
  <2>3. CASE Decide(r)
    <3>7. /\ req[r].st = "resolved" /\ ReqMoves(r, "done") /\ req'[r].conv = req[r].conv
          /\ req'[r].blocks <=> req[r].blocks /\ req[r].by # 0
      BY <2>3, <1>h, DecideMoves DEF Decide
    <3>8. ResultsKept
      BY <1>h, <3>7, MoveResults
    <3> QED
      BY <1>h, <3>8, ResultKept
  <2> QED
    BY <1>6, <2>1, <2>2, <2>3 DEF Waiter
<1>7. ASSUME NEW n \in DOMAIN convs, Thread(n) PROVE ResultInv'
  <2>1. CASE EndTurn(n)
    <3>1. req' = Released(n)
      BY <2>1 DEF EndTurn
    <3>2. \A r \in Reqs : /\ req'[r].conv = req[r].conv /\ req'[r].st = req[r].st
                          /\ req'[r].by = req[r].by /\ (req'[r].blocks => req[r].blocks)
      BY <1>h, <3>1, ReleasedIs
    <3> QED
      BY <1>h, <3>2, ResultKept DEF ResultsKept
  <2>2. CASE Shutdown(n)
    <3>1. req' = Released(n)
      BY <2>2 DEF Shutdown
    <3>2. \A r \in Reqs : /\ req'[r].conv = req[r].conv /\ req'[r].st = req[r].st
                          /\ req'[r].by = req[r].by /\ (req'[r].blocks => req[r].blocks)
      BY <1>h, <3>1, ReleasedIs
    <3> QED
      BY <1>h, <3>2, ResultKept DEF ResultsKept
  <2>3. ASSUME NEW r \in Reqs, AskApproval(n, r) PROVE ResultInv'
    <3>1. n \in Nat /\ n # 0
      BY <1>h, ConvFields
    <3>7. req[r].st = "new" /\ ReqMoves(r, "queued") /\ req'[r].conv = n /\ req[r].by = 0
      BY <2>3, <1>h, <3>1, AskApprovalMoves DEF AskApproval, ResultInv
    <3>8. ResultsKept
      BY <1>h, <3>1, <3>7, MoveResults
    <3> QED
      BY <1>h, <3>8, ResultKept
  <2>4. CASE Unloaded(n)
    BY <2>4, <1>u DEF Unloaded, asks
  <2> QED
    BY <1>7, <2>1, <2>2, <2>3, <2>4 DEF Thread
<1>8. CASE StartTurn
  BY <1>8, <1>u DEF StartTurn, asks
<1>9. CASE UNCHANGED vars
  BY <1>9, <1>u DEF vars, asks
<1> QED
  BY <1>2, <1>3, <1>4, <1>5, <1>6, <1>7, <1>8, <1>9 DEF Next

(* A step after which no other approvals are waited for than before.         *)
WaitsKept ==
  \A r \in Reqs : req'[r].blocks =>
    req[r].blocks /\ req'[r].conv = req[r].conv /\ (req'[r].st = "new" => req[r].st = "new")

CoresKept == \A n \in DOMAIN convs : convs'[n].turn = convs[n].turn /\ Events(n)' = Events(n)

(* BlocksInv holds when what is waited for keeps its place in its turn ...   *)
LEMMA BlocksKept ==
  ASSUME ReqTypes, BlocksInv, WaitsKept,
         \A r \in Reqs, n \in DOMAIN convs :
           req'[r].blocks /\ req[r].conv = n /\ Waits(r, n) => Waits(r, n)'
  PROVE  BlocksInv'
<1> SUFFICES ASSUME NEW r \in Reqs, req'[r].blocks, NEW n, n = req'[r].conv
             PROVE  req'[r].st # "new" /\ Waits(r, n)'
  BY DEF BlocksInv, Waits, Events
<1>1. req[r].blocks /\ req[r].conv = n /\ (req'[r].st = "new" => req[r].st = "new")
  BY DEF WaitsKept
<1>2. req[r].st # "new" /\ Waits(r, n)
  BY <1>1 DEF BlocksInv
<1>3. n \in DOMAIN convs
  BY <1>1, <1>2 DEF ReqTypes
<1> QED
  BY <1>1, <1>2, <1>3

(* ... for one, when the core threads stay as they are.                      *)
LEMMA BlocksSame ==
  ASSUME ReqTypes, BlocksInv, WaitsKept, CoresKept
  PROVE  BlocksInv'
<1>1. ASSUME NEW r \in Reqs, NEW n \in DOMAIN convs, Waits(r, n) PROVE Waits(r, n)'
  <2>1. convs'[n].turn = convs[n].turn /\ Events(n)' = Events(n)
    BY DEF CoresKept
  <2> QED
    BY <1>1, <2>1 DEF Waits
<1> QED
  BY <1>1, BlocksKept

(* A shutdown request changes no turn and no events.                         *)
LEMMA HaltsKeeps ==
  ASSUME Halts
  PROVE  CoresKept
BY DEF Halts, CoresKept

(* Settling approvals adds none that is waited for ...                       *)
LEMMA SettleWaits ==
  ASSUME ReqTypes, NEW rs \in SUBSET Open, NEW res \in Nat,
         req' = Settled(rs, res)
  PROVE  WaitsKept
<1>1. rs \in SUBSET Reqs
  BY DEF Open
<1>2. /\ \A r \in Reqs : req'[r].conv = req[r].conv /\ req'[r].blocks = req[r].blocks
      /\ \A r \in Reqs \ rs : req'[r] = req[r]
      /\ \A r \in rs : req'[r].st = "settled"
  BY <1>1 DEF Settled, ReqTypes, ReqRecs
<1> QED
  BY <1>2 DEF WaitsKept

(* ... nor does the step of one that was asked for before.                   *)
LEMMA MoveWaits ==
  ASSUME NEW r \in Reqs, NEW st, ReqMoves(r, st), st # "new", req'[r].conv = req[r].conv,
         req'[r].blocks => req[r].blocks
  PROVE  WaitsKept
BY DEF WaitsKept, ReqMoves

(* The turn of a core thread ends: nothing of it is waited for.              *)
LEMMA ReleaseBlocks ==
  ASSUME ReqTypes, BlocksInv, NEW n \in DOMAIN convs, req' = Released(n),
         NEW st, NEW turn, NEW events, CoreMoves(n, st, turn, events)
  PROVE  BlocksInv'
<1>1. \A r \in Reqs : /\ req'[r].conv = req[r].conv /\ req'[r].st = req[r].st
                      /\ req'[r].blocks => req[r].blocks /\ req[r].conv # n
  BY ReleasedIs
<1>2. WaitsKept
  BY <1>1 DEF WaitsKept
<1>3. ASSUME NEW r \in Reqs, NEW m \in DOMAIN convs, req'[r].blocks, req[r].conv = m, Waits(r, m)
      PROVE  Waits(r, m)'
  <2>1. convs'[m] = convs[m] /\ Events(m)' = Events(m)
    BY <1>1, <1>3 DEF CoreMoves
  <2> QED
    BY <1>3, <2>1 DEF Waits
<1> QED
  BY <1>2, <1>3, BlocksKept

(* A listener takes an event: the approvals behind it stay behind it.        *)
LEMMA TakeBlocks ==
  ASSUME TypeOK, BlocksInv, NEW l \in DOMAIN listeners, TakeEvent(l)
  PROVE  BlocksInv'
<1>h. ListenerTypes /\ CoreTypes /\ ReqTypes
  BY DEF TypeOK
<1>n. PICK n : n = ConvOf(l)
  OBVIOUS
<1>0. n \in DOMAIN convs /\ Events(n) \in Seq(Reqs \cup Words) /\ Events(n) # <<>>
  BY <1>h, <1>n, NextEvent DEF TakeEvent
<1>1. CoreMoves(n, convs[n].st, convs[n].turn, Tail(Events(n)))
  BY <1>h, <1>n, TakeEventTakes
<1>2. WaitsKept
  <2>1. (req' = req \/ req' = Settled(Open, ConvOf(l))) /\ ConvOf(l) \in Nat
    BY <1>h, ListenerFields DEF TakeEvent
  <2>2. req' = req => WaitsKept
    BY DEF WaitsKept
  <2> QED
    BY <1>h, <2>1, <2>2, SettleWaits
<1>3. ASSUME NEW r \in Reqs, NEW m \in DOMAIN convs, Waits(r, m)
      PROVE  Waits(r, m)'
  <2>1. CASE m # n
    <3>1. convs'[m] = convs[m] /\ Events(m)' = Events(m)
      BY <1>1, <2>1 DEF CoreMoves
    <3> QED
      BY <1>3, <3>1 DEF Waits
  <2>2. CASE m = n
    <3>1. convs'[m].turn = convs[m].turn /\ Events(m)' = Tail(Events(n))
      BY <1>1, <2>2 DEF CoreMoves
    <3>2. ASSUME NEW j \in DOMAIN Tail(Events(n)), Tail(Events(n))[j] \in {"started", "ended"}
          PROVE  \E i \in DOMAIN Tail(Events(n)) : i > j /\ Tail(Events(n))[i] = r
      <4>1. j + 1 \in DOMAIN Events(n) /\ Tail(Events(n))[j] = Events(n)[j + 1] /\ j \in Nat
        BY <1>0, HeadOff
      <4>2. PICK i \in DOMAIN Events(n) : i > j + 1 /\ Events(n)[i] = r
        BY <1>3, <2>2, <3>2, <4>1 DEF Waits
      <4>3. i \in Nat /\ i # 1 /\ i - 1 \in DOMAIN Tail(Events(n)) /\ Tail(Events(n))[i - 1] = Events(n)[i]
        BY <1>0, <4>1, <4>2, HeadOff
      <4>4. i - 1 > j
        BY <4>1, <4>2, <4>3
      <4> QED
        BY <4>2, <4>3, <4>4
    <3> QED
      BY <1>3, <2>2, <3>1, <3>2 DEF Waits
  <2> QED
    BY <2>1, <2>2
<1> QED
  BY <1>2, <1>3, <1>h, BlocksKept

(* A core thread asks for an approval, as the last thing of its turn.        *)
LEMMA ApproveBlocks ==
  ASSUME TypeOK, BlocksInv, NEW n \in DOMAIN convs, NEW q \in Reqs, AskApproval(n, q)
  PROVE  BlocksInv'
<1>h. CoreTypes /\ ReqTypes
  BY DEF TypeOK
<1>0. n \in Nat /\ Events(n) \in Seq(Reqs \cup Words) /\ convs[n].turn
  BY <1>h, ConvFields DEF AskApproval
<1>1. ReqMoves(q, "queued") /\ req'[q].conv = n
  BY <1>h, <1>0, AskApprovalMoves
<1>2. CoreMoves(n, convs[n].st, convs[n].turn, Append(Events(n), q))
  BY <1>h, EmitSets, ConvFields DEF AskApproval
<1>3. /\ convs'[n].turn /\ Events(n)' = Append(Events(n), q)
      /\ \A m \in DOMAIN convs : m # n => convs'[m] = convs[m] /\ Events(m)' = Events(m)
  BY <1>0, <1>2 DEF CoreMoves
<1>4. /\ Len(Events(n)) \in Nat /\ DOMAIN Events(n) = 1 .. Len(Events(n))
      /\ DOMAIN Append(Events(n), q) = 1 .. (Len(Events(n)) + 1)
      /\ Append(Events(n), q)[Len(Events(n)) + 1] = q
      /\ \A j \in DOMAIN Events(n) : Append(Events(n), q)[j] = Events(n)[j]
  BY <1>0, Appended
<1>5. q \notin {"started", "ended"}
  BY Constants DEF Words
<1>6. ASSUME NEW j \in DOMAIN Append(Events(n), q), Append(Events(n), q)[j] \in {"started", "ended"}
      PROVE  j \in DOMAIN Events(n) /\ Len(Events(n)) + 1 > j /\ Events(n)[j] \in {"started", "ended"}
  <2>1. j # Len(Events(n)) + 1
    BY <1>4, <1>5, <1>6
  <2>2. j \in DOMAIN Events(n) /\ Len(Events(n)) + 1 > j
    BY <1>4, <2>1
  <2> QED
    BY <1>4, <1>6, <2>2
<1>7. Waits(q, n)'
  <2>1. ASSUME NEW j \in DOMAIN Append(Events(n), q), Append(Events(n), q)[j] \in {"started", "ended"}
        PROVE  \E i \in DOMAIN Append(Events(n), q) : i > j /\ Append(Events(n), q)[i] = q
    <3>1. Len(Events(n)) + 1 > j /\ Len(Events(n)) + 1 \in DOMAIN Append(Events(n), q)
      BY <1>4, <1>6, <2>1
    <3> QED
      BY <1>4, <3>1
  <2> QED
    BY <1>3, <2>1 DEF Waits
<1>8. ASSUME NEW r \in Reqs, NEW m \in DOMAIN convs, Waits(r, m) PROVE Waits(r, m)'
  <2>1. CASE m # n
    BY <1>3, <1>8, <2>1 DEF Waits
  <2>2. CASE m = n
    <3>1. ASSUME NEW j \in DOMAIN Append(Events(n), q), Append(Events(n), q)[j] \in {"started", "ended"}
          PROVE  \E i \in DOMAIN Append(Events(n), q) : i > j /\ Append(Events(n), q)[i] = r
      <4>1. PICK i \in DOMAIN Events(n) : i > j /\ Events(n)[i] = r
        BY <1>6, <1>8, <2>2, <3>1 DEF Waits
      <4>2. i \in DOMAIN Append(Events(n), q) /\ Append(Events(n), q)[i] = r
        BY <1>4, <4>1
      <4> QED
        BY <4>1, <4>2
    <3> QED
      BY <1>3, <2>2, <3>1 DEF Waits
  <2> QED
    BY <2>1, <2>2
<1>9. ASSUME NEW r \in Reqs, req'[r].blocks, NEW m, m = req'[r].conv
      PROVE  req'[r].st # "new" /\ Waits(r, m)'
  <2>1. CASE r = q
    BY <1>1, <1>7, <1>9, <2>1 DEF ReqMoves
  <2>2. CASE r # q
    <3>1. req'[r] = req[r]
      BY <1>1, <2>2 DEF ReqMoves
    <3>2. req[r].st # "new" /\ Waits(r, m)
      BY <1>9, <3>1 DEF BlocksInv
    <3>3. m \in DOMAIN convs
      BY <1>h, <1>9, <3>1, <3>2 DEF ReqTypes
    <3> QED
      BY <1>8, <3>1, <3>2, <3>3
  <2> QED
    BY <2>1, <2>2
<1> QED
  BY <1>9 DEF BlocksInv, Waits, Events

(* A core thread waits for an approval only within its turn.                 *)
LEMMA BlocksStep ==
  ASSUME TypeOK, AskInv, CommandInv, BlocksInv, [Next]_vars
  PROVE  BlocksInv'
<1>h. /\ ReqTypes /\ ListenerTypes /\ CoreTypes /\ OpTypes /\ AskInv /\ CommandInv /\ BlocksInv
  BY DEF TypeOK
<1>c. convs' = convs => CoresKept
  BY DEF CoresKept, Events
<1>r. req' = req => WaitsKept
  BY DEF WaitsKept
<1>u. UNCHANGED <<convs, req>> => BlocksInv'
  BY <1>h DEF BlocksInv, Waits, Events
<1>1. ASSUME NEW p, Teardown(p), convs' = convs PROVE BlocksInv'
  BY <1>1, <1>h, <1>c, <1>r, TeardownSettles, SettleWaits, BlocksSame
<1>2. ASSUME NEW c \in Conns, Archive(c) PROVE BlocksInv'
  <2>1. req' = req /\ convs' = Stopping(loaded) /\ loaded \in 0 .. Len(convs)
    BY <1>2, <1>h DEF Archive, CoreTypes, asks
  <2> QED
    BY <1>h, <1>r, <2>1, StoppingHalts, HaltsKeeps, BlocksSame
<1>3. ASSUME NEW c \in Conns, NEW r \in Reqs, Answer(c, r) PROVE BlocksInv'
  <2>1. {r} \in SUBSET Open /\ req' = Settled({r}, 0) /\ convs' = convs
    BY <1>3 DEF Answer, Open, core
  <2> QED
    BY <1>h, <1>c, <2>1, SettleWaits, BlocksSame
<1>4. ASSUME NEW c \in Conns, Resume(c, "resume") \/ Resume(c, "replace")
                              \/ Unsubscribe(c) \/ Close(c)
      PROVE  BlocksInv'
  BY <1>4, <1>u DEF Resume, Unsubscribe, Close, core, asks
<1>5. CASE Handler \/ ReplaceTimesOut
  <2>1. CASE Differs
    <3>1. req' = req /\ (convs' = convs \/ (convs' = Stopping(op.conv) /\ op.conv \in 0 .. Len(convs)))
      BY <2>1, <1>h DEF Differs, OpTypes, At, asks
    <3> QED
      BY <1>h, <1>r, <1>c, <3>1, StoppingHalts, HaltsKeeps, BlocksSame
  <2>2. CASE HandlerTeardown \/ CloseTeardown
    BY <1>1, <2>2 DEF HandlerTeardown, CloseTeardown, core
  <2>3. CASE Load
    <3>1. req' = req /\ (convs' = convs \/ convs' = Append(convs, NewConv))
      BY <2>3 DEF Load, asks, core
    <3>2. convs' = Append(convs, NewConv) => CoresKept
      BY <1>h, LoadSets DEF CoresKept
    <3> QED
      BY <1>h, <1>c, <1>r, <3>1, <3>2, BlocksSame
  <2>4. CASE Lookup \/ Replace \/ Rejoin \/ Listen \/ ListenSet \/ Enqueue \/ Attach \/ Attached
             \/ AttachedSet \/ Archived \/ CloseCheck \/ ReplaceTimesOut
    BY <2>4, <1>u DEF Lookup, Replace, Rejoin, Listen, ListenSet, Enqueue, Attach, Attached,
       AttachedSet, Archived, CloseCheck, ReplaceTimesOut, core, asks
  <2> QED
    BY <1>5, <2>1, <2>2, <2>3, <2>4 DEF Handler
<1>6. ASSUME NEW l \in DOMAIN listeners, Listener(l) \/ UnloadTrigger(l) PROVE BlocksInv'
  <2>1. CASE ResolveCommand(l)
    <3>r. PICK r : r = Head(listeners[l].cmds)[2]
      OBVIOUS
    <3>1. r \in Reqs /\ req' = [req EXCEPT ![r].st = "resolved"]
      BY <2>1, <1>h, <3>r, ResolvingFirst DEF ResolveCommand
    <3>7. /\ r \in Reqs /\ ReqMoves(r, "resolved")
          /\ req'[r].conv = req[r].conv /\ req'[r].blocks = req[r].blocks
      BY <1>h, <3>1, ReqResolves
    <3>8. convs' = convs
      BY <2>1 DEF ResolveCommand, core
    <3> QED
      BY <1>h, <1>c, <3>7, <3>8, MoveWaits, BlocksSame
  <2>2. CASE TakeEvent(l)
    BY <2>2, <1>h, TakeBlocks
  <2>3. CASE Ask(l)
    <3>r. PICK r : r = listeners[l].hand
      OBVIOUS
    <3>1. r \in Reqs /\ l \in Nat
      BY <2>3, <3>r, <1>h, ListenerFields DEF Ask, AskInv
    <3>2. req' = [req EXCEPT ![r].st = "open", ![r].lis = l]
      BY <2>3, <3>r DEF Ask
    <3>7. /\ r \in Reqs /\ ReqMoves(r, "open")
          /\ req'[r].conv = req[r].conv /\ req'[r].blocks = req[r].blocks
      BY <1>h, <3>1, <3>2, ReqGoesTo
    <3>8. convs' = convs
      BY <2>3 DEF Ask, core
    <3> QED
      BY <1>h, <1>c, <3>7, <3>8, MoveWaits, BlocksSame
  <2>4. CASE Unload(l)
    <3>1. req' = Settled(Open, 0) /\ convs' = Stopping(ConvOf(l)) /\ ConvOf(l) \in 0 .. Len(convs)
      BY <2>4, <1>h, ListenerFields DEF Unload, CancelRequests, CoreTypes
    <3> QED
      BY <1>h, <3>1, SettleWaits, StoppingHalts, HaltsKeeps, BlocksSame
  <2>5. CASE Stop(l) \/ ResumeCommand(l) \/ Respond(l) \/ Replay(l) \/ MarkUnload(l)
             \/ UnloadTrigger(l)
    BY <2>5, <1>u DEF Stop, ResumeCommand, Respond, Replay, MarkUnload, UnloadTrigger, core,
       asks
  <2> QED
    BY <1>6, <2>1, <2>2, <2>3, <2>4, <2>5 DEF Listener
<1>7. ASSUME NEW r \in Reqs, Waiter(r) PROVE BlocksInv'
  <2>1. CASE Resolve(r)
    <3>7. /\ ReqMoves(r, "resolved") \/ ReqMoves(r, "resolving")
          /\ req'[r].conv = req[r].conv /\ req'[r].blocks = req[r].blocks
      BY <2>1, <1>h, ResolveSends
    <3>8. convs' = convs
      BY <2>1 DEF Resolve, core
    <3> QED
      BY <1>h, <1>c, <3>7, <3>8, MoveWaits, BlocksSame
  <2>2. CASE ResolveLost(r)
    <3>7. ReqMoves(r, "resolved") /\ req'[r].conv = req[r].conv /\ req'[r].blocks = req[r].blocks
      BY <2>2, <1>h, ReqResolves DEF ResolveLost
    <3>8. convs' = convs
      BY <2>2 DEF ResolveLost, core
    <3> QED
      BY <1>h, <1>c, <3>7, <3>8, MoveWaits, BlocksSame
  <2>3. CASE Decide(r)
    <3>7. ReqMoves(r, "done") /\ req'[r].conv = req[r].conv /\ (req'[r].blocks => req[r].blocks)
      BY <2>3, <1>h, DecideMoves
    <3>8. convs' = convs
      BY <2>3 DEF Decide, core
    <3> QED
      BY <1>h, <1>c, <3>7, <3>8, MoveWaits, BlocksSame
  <2> QED
    BY <1>7, <2>1, <2>2, <2>3 DEF Waiter
<1>8. ASSUME NEW n \in DOMAIN convs, Thread(n) PROVE BlocksInv'
  <2>1. CASE EndTurn(n)
    <3>1. CoreMoves(n, convs[n].st, FALSE, Append(Events(n), "ended")) /\ req' = Released(n)
      BY <2>1, <1>h, EmitSets DEF EndTurn, Words
    <3> QED
      BY <1>h, <3>1, ReleaseBlocks
  <2>2. CASE Shutdown(n)
    <3>e. PICK e : e = Events(n)'
      OBVIOUS
    <3>1. CoreMoves(n, "down", FALSE, e) /\ req' = Released(n)
      BY <2>2, <1>h, <3>e, ShutdownSets DEF Shutdown
    <3> QED
      BY <1>h, <3>1, ReleaseBlocks
  <2>3. ASSUME NEW r \in Reqs, AskApproval(n, r) PROVE BlocksInv'
    BY <2>3, <1>h, ApproveBlocks
  <2>4. CASE Unloaded(n)
    BY <2>4, <1>u DEF Unloaded, asks
  <2> QED
    BY <1>8, <2>1, <2>2, <2>3, <2>4 DEF Thread
<1>9. CASE StartTurn
  <2>n. PICK n : n = loaded
    OBVIOUS
  <2>1. n \in DOMAIN convs /\ ~ convs[n].turn /\ req' = req
    BY <1>9, <1>h, <2>n DEF StartTurn, CoreTypes, asks
  <2>2. CoreMoves(n, convs[n].st, TRUE, Append(Events(n), "started"))
    BY <1>9, <2>1, <2>n, <1>h, EmitSets DEF StartTurn, Words
  <2>3. ASSUME NEW r \in Reqs, NEW m \in DOMAIN convs, Waits(r, m) PROVE Waits(r, m)'
    <3>1. convs'[m] = convs[m] /\ Events(m)' = Events(m)
      BY <2>1, <2>2, <2>3 DEF CoreMoves, Waits
    <3> QED
      BY <2>3, <3>1 DEF Waits
  <2> QED
    BY <1>h, <1>r, <2>1, <2>3, BlocksKept
<1>10. CASE UNCHANGED vars
  BY <1>10, <1>u DEF vars, core, asks
<1> QED
  BY <1>2, <1>3, <1>4, <1>5, <1>6, <1>7, <1>8, <1>9, <1>10 DEF Next

-----------------------------------------------------------------------------
(* A thread that has just been started.                                      *)
LEMMA InitTypes ==
  ASSUME Init
  PROVE  TypeOK
<1> DEFINE first == NewListener(1, 1, 1)
<1>1. first \in ListenerRecs /\ first.conv = 1
  <2>1. <<>> \in Seq(Commands)
    OBVIOUS
  <2> QED
    BY <2>1, Constants DEF NewListener, ListenerRecs, Objects
<1>2. NewConv \in ConvRecs
  <2>1. <<>> \in Seq(Reqs \cup Words)
    OBVIOUS
  <2> QED
    BY <2>1 DEF NewConv, ConvRecs
<1>3. NewReq \in ReqRecs /\ NewReq.st = "new"
  BY DEF NewReq, ReqRecs
<1> HIDE DEF first
<1>4. convs = <<NewConv>> /\ convs \in Seq(ConvRecs) /\ Len(convs) = 1 /\ DOMAIN convs = 1 .. 1
  BY <1>2 DEF Init
<1>5. /\ listeners = <<first>> /\ listeners \in Seq(ListenerRecs) /\ Len(listeners) = 1
      /\ DOMAIN listeners = 1 .. 1 /\ listeners[1] = first
  BY <1>1 DEF Init, first
<1>6. ConnTypes
  BY Constants DEF Init, ConnTypes, Objects
<1>7. SubscriberTypes
  BY Constants DEF Init, SubscriberTypes
<1>8. ListenerTypes
  <2>1. tx \in [Objects -> 0 .. 1]
    BY DEF Init
  <2> QED
    BY <1>1, <1>4, <1>5, <2>1 DEF ListenerTypes, ConvOf
<1>9. CoreTypes
  <2>1. loaded = 1 /\ unloaders = {} /\ turns = 0 /\ spent = 0
    BY DEF Init
  <2>2. unloading \in BOOLEAN /\ archived \in BOOLEAN
    BY DEF Init
  <2> QED
    BY <1>4, <2>1, <2>2, Constants DEF CoreTypes
<1>10. ReqTypes
  <2>1. req = [r \in Reqs |-> NewReq] /\ told = [r \in Reqs |-> {}]
    BY DEF Init
  <2> HIDE DEF NewReq
  <2> QED
    BY <1>3, <2>1 DEF ReqTypes
<1>11. OpTypes
  BY DEF Init, OpTypes
<1>12. StatusTypes
  <2>1. Idle \in StatusRecs /\ Idle.count = 0
    BY Resets
  <2>2. \A s \in StatusRecs : s.count = 0 => s \in [known : BOOLEAN, running : BOOLEAN, count : 0 .. Cardinality(Reqs)]
    BY Constants DEF StatusRecs
  <2> QED
    BY <2>1, <2>2 DEF Init, StatusTypes
<1> QED
  BY <1>6, <1>7, <1>8, <1>9, <1>10, <1>11, <1>12 DEF TypeOK

(* The invariant holds at the start.                                         *)
LEMMA InitHolds ==
  ASSUME Init
  PROVE  IInv
<1>1. TypeOK
  BY InitTypes
<1>2. /\ Len(convs) = 1 /\ DOMAIN convs = 1 .. 1 /\ Events(1) = <<>> /\ ~ convs[1].turn /\ convs[1].st = "up"
  BY DEF Init, Events, NewConv
<1>3. /\ Len(listeners) = 1 /\ DOMAIN listeners = 1 .. 1
      /\ listeners[1].obj = 1 /\ listeners[1].conv = 1 /\ listeners[1].watch = 1
      /\ listeners[1].pc = "loop" /\ ~ listeners[1].cancelled
      /\ listeners[1].cmds = <<>> /\ listeners[1].pending = {}
  BY DEF Init, NewListener
<1>4. \A r \in Reqs : req[r].st = "new" /\ req[r].by = 0 /\ ~ req[r].blocks
                      /\ told[r] = {} /\ asked[r] = {}
  BY DEF Init, NewReq
<1>5. /\ entry = 1 /\ made = 1 /\ loaded = 1 /\ op = None /\ unloaders = {} /\ unloading = FALSE
      /\ tx[1] = 1 /\ \A o \in Objects : tx[o] \in {0, 1}
  BY Constants DEF Init, Objects
<1>6. MarkedHasNoSubscriber
  BY <1>5 DEF MarkedHasNoSubscriber
<1>7. AskInv
  BY <1>2, <1>3 DEF AskInv
<1>8. ChannelInv
  BY <1>3, <1>5 DEF ChannelInv
<1>9. CommandInv
  BY <1>3 DEF CommandInv
<1>10. GuardInv
  <2>1. Guarded = {}
    BY <1>4 DEF Guarded
  <2>2. status.count = 0
    BY DEF Init, Idle, NotLoaded
  <2> QED
    BY <2>1, <2>2, FS_EmptySet DEF GuardInv
<1>11. FirstInv
  BY <1>2, <1>3, <1>5 DEF FirstInv, FirstListener, FirstCore
<1>12. ReplayInv
  BY <1>3, <1>4 DEF ReplayInv, Replayed, Open
<1>13. ToldInv /\ RetiredInv
  BY <1>4 DEF ToldInv, RetiredInv, Retired, Over
<1>14. ResultInv /\ BlocksInv
  BY <1>4 DEF ResultInv, BlocksInv
<1> QED
  BY <1>1, <1>6, <1>7, <1>8, <1>9, <1>10, <1>11, <1>12, <1>13, <1>14 DEF IInv

(* Every step keeps the inductive invariant.                                 *)
LEMMA StepKeeps ==
  ASSUME IInv, [Next]_vars
  PROVE  IInv'
<1>1. /\ TypeOK /\ MarkedHasNoSubscriber /\ AskInv /\ ChannelInv /\ CommandInv /\ GuardInv
      /\ FirstInv /\ ReplayInv /\ ToldInv /\ RetiredInv /\ ResultInv /\ BlocksInv
  BY DEF IInv
<1>2. ConnTypes /\ SubscriberTypes /\ ListenerTypes /\ CoreTypes /\ ReqTypes /\ OpTypes
  BY <1>1 DEF TypeOK
<1>3. TypeOK'
  <2>1. ConnTypes'
    BY <1>2, ConnTypesStep
  <2>2. SubscriberTypes'
    BY <1>2, SubscriberTypesStep
  <2>3. ListenerTypes'
    BY <1>1, <1>2, ListenerTypesStep
  <2>4. CoreTypes'
    BY <1>2, CoreTypesStep
  <2>5. ReqTypes'
    BY <1>1, ReqTypesStep
  <2>6. OpTypes'
    BY <1>2, OpTypesStep
  <2>7. StatusTypes'
    BY <1>1, StatusTypesStep
  <2> QED
    BY <2>1, <2>2, <2>3, <2>4, <2>5, <2>6, <2>7 DEF TypeOK
<1>4. MarkedHasNoSubscriber'
  BY <1>1, MarkedStep
<1>5. AskInv' /\ ChannelInv' /\ CommandInv'
  BY <1>1, AskInvStep, ChannelStep, CommandInvStep
<1>6. GuardInv'
  BY <1>1, GuardStep
<1>7. FirstInv' /\ ReplayInv'
  BY <1>1, FirstStep, ReplayStep
<1>8. ToldInv' /\ RetiredInv'
  BY <1>1, ToldStep, RetiredStep
<1>9. ResultInv' /\ BlocksInv'
  BY <1>1, ResultStep, BlocksStep
<1> QED
  BY <1>3, <1>4, <1>5, <1>6, <1>7, <1>8, <1>9 DEF IInv

(* The inductive invariant holds for any number of connections, approvals,   *)
(* turns, reloads and client requests.                                       *)
THEOREM Invariant == Spec => []IInv
<1>1. Init => IInv
  BY InitHolds
<1>2. IInv /\ [Next]_vars => IInv'
  BY StepKeeps
<1> QED
  BY <1>1, <1>2, PTL DEF Spec

(* While a thread is marked for unloading nobody is subscribed to it, unless *)
(* a listener marked it that watches an entry removed before and is about to *)
(* unload; and the book-keeping of the thread keeps its types.  For the      *)
(* listener of the thread's own entry the check that is repeated under the   *)
(* lock of pending_thread_unloads is enough, whatever resumes, closes,       *)
(* archives and unloads come together.                                       *)
THEOREM UnloadSafe == Spec => []UnloadInv
<1>1. IInv => UnloadInv
  BY DEF IInv, UnloadInv
<1> QED
  BY <1>1, Invariant, PTL

(* Every subscriber is shown every open approval whenever the listener is    *)
(* between two pieces of work: a resume that comes while an approval is      *)
(* being sent, answered or replayed leaves nobody out.                       *)
THEOREM EveryoneAsked == Spec => []SubscribersAsked
<1>1. IInv => SubscribersAsked
  <2> SUFFICES ASSUME IInv, FirstState, entry = 1, tx[1] # 0, Ready(tx[1]), NEW r \in Open
               PROVE  subs \subseteq asked[r]
    BY DEF SubscribersAsked
  <2>1. FirstListener /\ Replayed
    BY DEF IInv, FirstInv, ReplayInv
  <2>2. listeners[1].pc = "loop"
    BY <2>1 DEF FirstListener, Ready
  <2> QED
    BY <2>1, <2>2 DEF Replayed
<1> QED
  BY <1>1, Invariant, PTL

(* When a decision reaches the core thread, every client that shows the      *)
(* prompt has been told that it is over, whoever answered and whenever the   *)
(* clients joined.                                                           *)
THEOREM EveryoneTold == Spec => []PromptsRetired
<1>1. IInv => PromptsRetired
  <2> SUFFICES ASSUME IInv, FirstState, NEW r \in Reqs, req[r].st = "done"
               PROVE  asked[r] \subseteq told[r]
    BY DEF PromptsRetired
  <2>0. SubscriberTypes /\ ConnTypes /\ RetiredInv
    BY DEF IInv, TypeOK
  <2>1. CASE entry = 1
    BY <2>0, <2>1 DEF RetiredInv, Retired, Over
  <2>2. CASE entry = 0
    BY <2>0, <2>2 DEF SubscriberTypes
  <2>3. entry \in {0, 1}
    BY <2>0 DEF ConnTypes, FirstState
  <2> QED
    BY <2>1, <2>2, <2>3
<1> QED
  BY <1>1, Invariant, PTL

(* An answer that the server withholds, and the core thread still waits for, *)
(* was given up for a turn of another core thread under the same id: neither *)
(* the turns of its own thread nor a teardown of the thread id do that.      *)
THEOREM WithheldSafe == Spec => []WithheldIsUnneeded
<1>1. IInv => WithheldIsUnneeded
  BY DEF IInv, ResultInv, WithheldIsUnneeded
<1> QED
  BY <1>1, Invariant, PTL

(* The approvals shown to a client, step by step.                            *)
LEMMA AskedGrows ==
  ASSUME IInv, [Next]_vars, FirstState, NEW r \in Reqs
  PROVE  (asked'[r] \ asked[r]) \cap told[r] = {}
<1>h. /\ SubscriberTypes /\ ConnTypes /\ ListenerTypes /\ ReqTypes /\ AskInv /\ ToldInv /\ FirstInv
      /\ RetiredInv /\ asked \in [Reqs -> SUBSET subs]
  BY DEF IInv, TypeOK, SubscriberTypes
<1>d. asked'[r] \subseteq asked[r] => (asked'[r] \ asked[r]) \cap told[r] = {}
  OBVIOUS
<1>1. ASSUME NEW c \in Conns, \/ Resume(c, "resume") \/ Resume(c, "replace") \/ Unsubscribe(c)
                              \/ Archive(c) \/ Close(c) \/ \E q \in Reqs : Answer(c, q)
      PROVE  asked'[r] \subseteq asked[r]
  BY <1>1, <1>h DEF Resume, Unsubscribe, Archive, Close, Answer, Drop, asks
<1>2. CASE Handler \/ ReplaceTimesOut
  <2>1. ASSUME NEW p, Teardown(p) PROVE asked'[r] \subseteq asked[r]
    BY <2>1, <1>h DEF Teardown, RemoveState, asks
  <2>2. CASE HandlerTeardown \/ CloseTeardown
    BY <1>d, <2>1, <2>2 DEF HandlerTeardown, CloseTeardown
  <2>3. CASE Lookup \/ Differs \/ Replace \/ Rejoin \/ Listen \/ ListenSet \/ Enqueue \/ Load
             \/ Attach \/ Attached \/ AttachedSet \/ Archived \/ CloseCheck \/ ReplaceTimesOut
    BY <2>3, <1>d DEF Lookup, Differs, Replace, Rejoin, Listen, ListenSet, Enqueue, Load, Attach,
       Attached, AttachedSet, Archived, CloseCheck, ReplaceTimesOut, asks
  <2> QED
    BY <1>2, <2>2, <2>3 DEF Handler
<1>3. ASSUME NEW l \in DOMAIN listeners, Listener(l) \/ UnloadTrigger(l)
      PROVE  (asked'[r] \ asked[r]) \cap told[r] = {}
  <2>1. CASE Ask(l)
    <3>1. listeners[l].hand \in Reqs /\ req[listeners[l].hand].st = "queued"
      BY <1>h, <2>1 DEF Ask, AskInv
    <3>2. told[listeners[l].hand] = {}
      BY <1>h, <3>1 DEF ToldInv, Over
    <3>3. r # listeners[l].hand => asked'[r] = asked[r]
      BY <1>h, <2>1 DEF Ask
    <3> QED
      BY <1>d, <3>2, <3>3
  <2>2. CASE Replay(l)
    <3>1. CASE asked'[r] = asked[r]
      BY <1>d, <3>1
    <3>2. CASE asked'[r] # asked[r]
      <4>1. r \in listeners[l].pending /\ listeners[l].who \in subs
        BY <1>h, <2>2, <3>2 DEF Replay
      <4>2. entry = 1
        BY <1>h, <4>1 DEF SubscriberTypes, ConnTypes, FirstState
      <4>3. l = 1
        BY <1>h, <4>2, ListenerFields DEF FirstInv, FirstListener
      <4>4. told[r] = {}
        BY <1>h, <4>1, <4>2, <4>3 DEF RetiredInv, Retired, ToldInv
      <4> QED
        BY <4>4
    <3> QED
      BY <3>1, <3>2
  <2>3. CASE Stop(l) \/ ResumeCommand(l) \/ Respond(l) \/ ResolveCommand(l) \/ TakeEvent(l)
             \/ MarkUnload(l) \/ UnloadTrigger(l) \/ Unload(l)
    <3>1. asked'[r] \subseteq asked[r]
      BY <2>3, <1>h DEF Stop, ResumeCommand, Respond, ResolveCommand, TakeEvent, MarkUnload,
         UnloadTrigger, Unload, RemoveState, asks
    <3> QED
      BY <1>d, <3>1
  <2> QED
    BY <1>3, <2>1, <2>2, <2>3 DEF Listener
<1>4. asked' = asked => asked'[r] \subseteq asked[r]
  OBVIOUS
<1>5. ASSUME NEW q \in Reqs, Waiter(q) PROVE asked' = asked
  BY <1>5 DEF Waiter, Resolve, ResolveLost, Decide
<1>6. ASSUME NEW n \in DOMAIN convs, Thread(n) PROVE asked' = asked
  BY <1>6 DEF Thread, EndTurn, Shutdown, Unloaded, AskApproval, asks
<1>7. StartTurn \/ UNCHANGED vars => asked' = asked
  BY DEF StartTurn, vars, asks
<1> QED
  BY <1>d, <1>1, <1>2, <1>3, <1>4, <1>5, <1>6, <1>7 DEF Next

(* A prompt is never shown to a client after the client was told that it is  *)
(* resolved: replays and resolutions go through the one listener task, and a *)
(* listener that replays has not seen the resolution yet.                    *)
THEOREM NoLatePrompt == Spec => NoPromptAfterResolved
<1>1. IInv /\ [Next]_vars =>
        [FirstState => \A r \in Reqs : (asked'[r] \ asked[r]) \cap told[r] = {}]_vars
  BY AskedGrows
<1> QED
  BY <1>1, Invariant, PTL DEF Spec, NoPromptAfterResolved
=============================================================================
