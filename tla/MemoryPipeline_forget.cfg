SPECIFICATION FairSpec
CONSTANTS
  w1 = w1
  w2 = w2
  t1 = t1
  Workers = {w1, w2}
  Threads = {t1}
  None = None
  Lease = 1
  RetryDelay = 1
  Cooldown = 1
  Retries = 1
  MaxRunning = 1
  MaxUpdates = 1
  MaxStarts = None
  Limit <- Orderly
  MaxTrouble = 2
INVARIANT OneConsolidation
PROPERTIES SelectedWasConsumed ForgottenLeaves
