---------------------------- MODULE MCUnifiedExec ----------------------------
(* UnifiedExec on small instances. *)
EXTENDS UnifiedExec

=============================================================================
