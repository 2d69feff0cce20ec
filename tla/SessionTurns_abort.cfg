SPECIFICATION FairSpec
CONSTANTS
  Loop = Loop
  Guard = Guard
  None = None
  u1 = u1
  i1 = i1
  a1 = a1
  UserInputs = {u1}
  Mails = {}
  TriggerMails = {}
  Injections = {i1}
  Approvals = {a1}
  MaxTurns = 4
  MaxTurnStates = 5
  MaxInterrupts = 1
  MaxCompacts = 0
  MaxGuardAborts = 1
  MaxShutdowns = 1
INVARIANT OneRunningTask
PROPERTY LoopReturns
CHECK_DEADLOCK FALSE
