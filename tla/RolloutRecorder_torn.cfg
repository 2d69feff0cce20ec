SPECIFICATION Spec
CONSTANTS
  c1 = c1
  Clients = {c1}
  Meta = Meta
  Junk = Junk
  NotAsking = NotAsking
  Leftovers = {"nothing", "part"}
  QueueSize = 2
  MaxItems = 2
  MaxFaults = 1
  MaxCrashes = 1
  MaxPatches = 0
INVARIANT AckedIsReadable
CHECK_DEADLOCK FALSE
