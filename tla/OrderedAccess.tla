---------------------------- MODULE OrderedAccess ----------------------------
(***************************************************************************)
(* What the app server promises the clients that share it, without queues, *)
(* drain tasks or locks: conflicting requests are served in the order they *)
(* arrived, shared reads may overlap, a closed connection starts nothing   *)
(* and is quiet once its shutdown has returned.                            *)
(***************************************************************************)
EXTENDS Naturals, Sequences

CONSTANTS Conns, Requests, MaxRequests, Conflicts(_, _), ConnOf(_)

VARIABLES arrived,    \* the requests in order of arrival
          phase,      \* arrival number -> "new", "waiting", "running", "over"
          closed,     \* connections that start no more handlers
          quiet       \* connections whose shutdown has returned

vars == <<arrived, phase, closed, quiet>>
Ids  == 1 .. MaxRequests

Init ==
  /\ arrived = <<>>
  /\ phase = [i \in Ids |-> "new"]
  /\ closed = {}
  /\ quiet = {}

Arrive(r) ==
  /\ Len(arrived) < MaxRequests
  /\ ConnOf(r) \notin closed
  /\ arrived' = Append(arrived, r)
  /\ phase' = [phase EXCEPT ![Len(arrived) + 1] = "waiting"]
  /\ UNCHANGED <<closed, quiet>>

\* Every earlier request that conflicts with i is over.
Turn(i) ==
  /\ phase[i] = "waiting"
  /\ \A j \in 1 .. (i - 1) : Conflicts(arrived[j], arrived[i]) => phase[j] = "over"

Start(i) ==
  /\ Turn(i)
  /\ ConnOf(arrived[i]) \notin closed
  /\ phase' = [phase EXCEPT ![i] = "running"]
  /\ UNCHANGED <<arrived, closed, quiet>>

\* Requests end together when one of them takes the others' task down.
End(S) ==
  /\ S # {}
  /\ \A i \in S : phase[i] = "running" \/ Turn(i)
  /\ phase' = [i \in Ids |-> IF i \in S THEN "over" ELSE phase[i]]
  /\ UNCHANGED <<arrived, closed, quiet>>

Close(c) ==
  /\ closed' = closed \cup {c}
  /\ UNCHANGED <<arrived, phase, quiet>>

Quiet(c) ==
  /\ c \in closed
  /\ \A i \in 1 .. Len(arrived) : ConnOf(arrived[i]) = c => phase[i] # "running"
  /\ quiet' = quiet \cup {c}
  /\ UNCHANGED <<arrived, phase, closed>>

Next ==
  \/ \E r \in Requests : Arrive(r)
  \/ \E i \in 1 .. Len(arrived) : Start(i)
  \/ \E S \in SUBSET (1 .. Len(arrived)) : End(S)
  \/ \E c \in Conns : Close(c) \/ Quiet(c)

Spec == Init /\ [][Next]_vars
=============================================================================
