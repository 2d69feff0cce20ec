SPECIFICATION FairSpec
CONSTANTS
  c1 = c1
  c2 = c2
  Clients = {c1, c2}
  Meta = Meta
  Junk = Junk
  NotAsking = NotAsking
  Leftovers = {"nothing"}
  QueueSize = 2
  MaxItems = 3
  MaxFaults = 2
  MaxCrashes = 1
  MaxPatches = 1
INVARIANTS AckedIsReadable FileInv
PROPERTIES KeepsLog BarriersReturn
CHECK_DEADLOCK FALSE
