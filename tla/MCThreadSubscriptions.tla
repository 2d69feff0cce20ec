------------------------ MODULE MCThreadSubscriptions ------------------------
(* ThreadSubscriptions on a small instance: three client requests or timeouts  *)
(* of any kind, where a connection that closes counts twice.                   *)
EXTENDS ThreadSubscriptions

Costs == [[k \in Kinds |-> 1] EXCEPT !["close"] = 2]
=============================================================================
