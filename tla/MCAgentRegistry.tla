-------------------------- MODULE MCAgentRegistry --------------------------
(* Instances of AgentRegistry: interchangeable calls, threads and names.     *)
EXTENDS AgentRegistry, TLC

\* Threads of an earlier session differ from those made in this one.
RegistrySymmetry ==
  Permutations(Workers) \cup Permutations(Closers) \cup Permutations(Names)
  \cup Permutations(Paths) \cup Permutations(Threads \ Resumable)
=============================================================================
