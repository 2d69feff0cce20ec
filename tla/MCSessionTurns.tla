--------------------------- MODULE MCSessionTurns ---------------------------
(* Instances of SessionTurns: items of one kind are interchangeable.         *)
EXTENDS SessionTurns, TLC

MCSymmetry ==
  Permutations(UserInputs) \cup Permutations(Injections)
  \cup Permutations(Mails \ TriggerMails) \cup Permutations(TriggerMails)
=============================================================================
