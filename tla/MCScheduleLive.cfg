CONSTANTS
  a = a
  b = b
  s = s
  Items = {a, b}
  Recurring = {}
  Gated = {b}
  Sessions = {s}
  Target <- OneChat
  NoSession = NoSession
  Guards = {}
  NoGuard = NoGuard
  Tick = Tick
  Callers = {}
  NoItem = NoItem
  Grace = 1
  Period = 2
  MaxWait = 1
  MaxTime = 3
  MaxRequests = 0
  MaxCrashes = 1
  MaxFailedWrites = 0
SPECIFICATION FairSpec
INVARIANTS
  NeighboursDoNotCollide
PROPERTIES
  DueIsDecided
CHECK_DEADLOCK FALSE
