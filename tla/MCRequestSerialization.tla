----------------------- MODULE MCRequestSerialization -----------------------
(* RequestSerialization on small instances, and the refinement mapping to  *)
(* what it promises (OrderedAccess).                                        *)
EXTENDS RequestSerialization

(* Requests that share one key: exclusive, shared, and without a scope.     *)
MCScopes == {[kind |-> "Global", name |-> "config"],
             [kind |-> "GlobalSharedRead", name |-> "config"]}

Phase(i) == CASE status[i] = "new"                 -> "new"
              [] status[i] \in {"queued", "popped"} -> "waiting"
              [] status[i] = "running"             -> "running"
              [] OTHER                             -> "over"

RequestConflict(r, q) ==
  /\ r.scope # NoScope /\ q.scope # NoScope
  /\ FromScope(r.conn, r.scope).key = FromScope(q.conn, q.scope).key
  /\ "Exclusive" \in {FromScope(r.conn, r.scope).access, FromScope(q.conn, q.scope).access}

RequestConn(r) == r.conn

\* What the promise shows of the state: how far each request is, which
\* connections accept nothing more, and which have returned from shutdown.
Phases      == [i \in Ids |-> Phase(i)]
ClosedConns == {c \in Conns : ~accepting[c]}
QuietConns  == {c \in Conns : gate[c] = "shut"}

Promise == INSTANCE OrderedAccess WITH
  Requests  <- Request,
  Conflicts <- RequestConflict,
  ConnOf    <- RequestConn,
  arrived   <- reqs,
  phase     <- Phases,
  closed    <- ClosedConns,
  quiet     <- QuietConns

(* The queues, drain tasks and gates implement the promise: every step of   *)
(* theirs is a step of OrderedAccess or changes nothing it shows.           *)
KeepsPromise == Promise!Spec
=============================================================================
