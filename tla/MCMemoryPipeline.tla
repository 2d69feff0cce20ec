-------------------------- MODULE MCMemoryPipeline --------------------------
(* MemoryPipeline on small instances.                                       *)
EXTENDS MemoryPipeline, TLC

Trouble0 == [k \in Troubles |-> 0]

\* Everything that can go wrong.
AnyTrouble == [[k \in Troubles |-> 1] EXCEPT !["fail"] = 2]

\* A worker may fail or crash; nobody resets the memories or misses a heartbeat.
Orderly == [Trouble0 EXCEPT !["fail"] = 1, !["crash"] = 1, !["forget"] = 2]

Symmetry == Permutations(Workers) \cup Permutations(Threads)
=============================================================================
