SPECIFICATION CooperativeSpec
CONSTANTS
  Loop = Loop
  Guard = Guard
  None = None
  m1 = m1
  m2 = m2
  UserInputs = {}
  Mails = {m1, m2}
  TriggerMails = {m1, m2}
  Injections = {}
  Approvals = {}
  MaxTurns = 2
  MaxTurnStates = 2
  MaxInterrupts = 0
  MaxCompacts = 0
  MaxGuardAborts = 0
  MaxShutdowns = 0
PROPERTY TurnsEnd
PROPERTY MailStartsTurn
CHECK_DEADLOCK FALSE
