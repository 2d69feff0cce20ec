-------------------------- MODULE MCRolloutRecorder --------------------------
(* RolloutRecorder on small instances, and the refinement mapping to what  *)
(* it promises (DurableLog).                                                *)
EXTENDS RolloutRecorder

Mode == CASE recorder = "running" -> "open"
          [] recorder = "stopped" -> "closed"
          [] recorder = "down"    -> "crashed"

Promise == INSTANCE DurableLog WITH
  Notes  <- {Meta},
  log    <- file,
  buffer <- InFlight,
  kept   <- promised,
  state  <- Mode

(* The channel, the writer task and its retries implement the promise:     *)
(* items are committed once, in order and without gaps, no barrier is      *)
(* answered Ok too early, and only a crash or a shutdown that succeeded    *)
(* drops buffered items.                                                    *)
KeepsLog == Promise!Spec
=============================================================================
