----------------------------- MODULE DurableLog -----------------------------
(***************************************************************************)
(* What the rollout recorder promises the sessions that record into it,    *)
(* without a channel, a writer task or retries: items, numbered as they    *)
(* are accepted, reach the log in that order, none twice and none skipped; *)
(* a barrier that is answered with success covers every item accepted      *)
(* before it was asked for; a recorder that closes owes the same to        *)
(* whoever closed it; a crash loses what is not in the log and nothing     *)
(* else.  Lines that are no items may be noted between them at any time.   *)
(***************************************************************************)
EXTENDS Naturals, Sequences, SequencesExt

CONSTANTS Clients, Items, Notes, NotAsking

VARIABLES log,      \* the lines a reader of the log finds, in order
          buffer,   \* the accepted items that are not in the log yet
          life,     \* the items accepted since the recorder was opened
          asked,    \* client -> the items its barrier covers, or NotAsking
          kept,     \* the items covered by a successful answer
          state     \* "open", "closed" or "crashed"

vars == <<log, buffer, life, asked, kept, state>>

Quiet == [c \in Clients |-> NotAsking]

Init ==
  /\ log = <<>> /\ buffer = {} /\ life = {} /\ kept = {}
  /\ asked = Quiet
  /\ state = "open"

Accept(i) ==
  /\ state = "open"
  /\ \A j \in Items \cap (buffer \cup life \cup ToSet(log)) : j < i
  /\ buffer' = buffer \cup {i}
  /\ life' = life \cup {i}
  /\ UNCHANGED <<log, asked, kept, state>>

Commit(i) ==
  /\ state = "open"
  /\ i \in buffer /\ \A j \in buffer : i <= j
  /\ log' = Append(log, i)
  /\ buffer' = buffer \ {i}
  /\ UNCHANGED <<life, asked, kept, state>>

Note(line) ==
  /\ log' = Append(log, line)
  /\ UNCHANGED <<buffer, life, asked, kept, state>>

Ask(c) ==
  /\ state = "open"
  /\ asked[c] = NotAsking
  /\ asked' = [asked EXCEPT ![c] = life]
  /\ UNCHANGED <<log, buffer, life, kept, state>>

\* The barrier of c succeeded.
Covered(c) ==
  /\ asked[c] # NotAsking
  /\ asked[c] \subseteq ToSet(log)
  /\ kept' = kept \cup asked[c]

Answer(c) ==
  /\ \/ Covered(c)
     \/ asked[c] # NotAsking /\ UNCHANGED kept
  /\ asked' = [asked EXCEPT ![c] = NotAsking]
  /\ UNCHANGED <<log, buffer, life, state>>

\* Only a barrier that succeeds closes the recorder; all others fail.
Close(c) ==
  /\ state = "open"
  /\ Covered(c)
  /\ asked' = Quiet
  /\ buffer' = {}
  /\ state' = "closed"
  /\ UNCHANGED <<log, life>>

Crash ==
  /\ state' = "crashed"
  /\ buffer' = {}
  /\ asked' = Quiet
  /\ UNCHANGED <<log, life, kept>>

Reopen ==
  /\ state # "open"
  /\ state' = "open"
  /\ life' = {}
  /\ UNCHANGED <<log, buffer, asked, kept>>

Next ==
  \/ \E i \in Items : Accept(i) \/ Commit(i)
  \/ \E line \in Notes : Note(line)
  \/ \E c \in Clients : Ask(c) \/ Answer(c) \/ Close(c)
  \/ Crash \/ Reopen

Spec == Init /\ [][Next]_vars
=============================================================================
