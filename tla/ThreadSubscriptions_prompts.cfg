SPECIFICATION FairSpec
CONSTANTS
  c1 = c1
  c2 = c2
  r1 = r1
  Conns = {c1, c2}
  Starter = c1
  Reqs = {r1}
  None = None
  MaxLoads = 2
  MaxObjects = 3
  MaxTurns = 1
  MaxCalls = 3
  Cost <- Costs
INVARIANTS UnloadInv SubscribersAsked PromptsRetired 
PROPERTIES NoPromptAfterResolved DecisionsReturn
CHECK_DEADLOCK FALSE
