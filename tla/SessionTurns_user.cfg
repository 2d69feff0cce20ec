SPECIFICATION Spec
CONSTANTS
  Loop = Loop
  Guard = Guard
  None = None
  m1 = m1
  u1 = u1
  u2 = u2
  UserInputs = {u1, u2}
  Mails = {m1}
  TriggerMails = {}
  Injections = {}
  Approvals = {}
  MaxTurns = 3
  MaxTurnStates = 3
  MaxInterrupts = 1
  MaxCompacts = 1
  MaxGuardAborts = 0
  MaxShutdowns = 1
SYMMETRY MCSymmetry
INVARIANT NoTaskInTheWay
INVARIANT OneOutcome
INVARIANT NothingVanishes
INVARIANT TurnInv
CHECK_DEADLOCK FALSE
