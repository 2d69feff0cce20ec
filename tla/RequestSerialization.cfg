SPECIFICATION FairSpec
CONSTANTS
  Conns = {c1, c2}
  Scopes <- MCScopes
  NoScope = NoScope
  AnyConn = AnyConn
  MaxRequests = 3
  MaxPanics = 1
INVARIANTS ArrivalOrder OneDrainPerKey
PROPERTIES KeepsPromise RequestsFinish ShutdownReturns
CHECK_DEADLOCK FALSE
