SPECIFICATION FairSpec
CONSTANTS
  Calls = {c1, c2}
  Managed = {c1}
  Ids = {i1, i2}
  NoCall = NoCall
  NoId = NoId
  MaxStored = 1
  Protected = 0
  MaxExtras = 2
INVARIANTS StoreInv OneEnd Tracked DeniedIsNotSuccess
PROPERTIES InterruptKeepsProcess EndComes DeniedDies
CHECK_DEADLOCK FALSE
