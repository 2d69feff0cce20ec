SPECIFICATION Spec
CONSTANTS
  Loop = Loop
  Guard = Guard
  None = None
  m1 = m1
  u1 = u1
  u2 = u2
  UserInputs = {u1, u2}
  Mails = {m1}
  TriggerMails = {m1}
  Injections = {}
  Approvals = {}
  MaxTurns = 4
  MaxTurnStates = 4
  MaxInterrupts = 0
  MaxCompacts = 0
  MaxGuardAborts = 0
  MaxShutdowns = 0
INVARIANT NoTaskInTheWay
CHECK_DEADLOCK FALSE
