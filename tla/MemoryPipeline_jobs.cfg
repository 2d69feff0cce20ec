SPECIFICATION Spec
CONSTANTS
  w1 = w1
  w2 = w2
  t1 = t1
  t2 = t2
  Workers = {w1, w2}
  Threads = {t1, t2}
  None = None
  Lease = 1
  RetryDelay = 1
  Cooldown = 1
  Retries = 1
  MaxRunning = 1
  MaxUpdates = 1
  MaxStarts = 2
  Limit <- AnyTrouble
  MaxTrouble = 2
SYMMETRY Symmetry
INVARIANT JobsInv
PROPERTY SuccessIsEarned
