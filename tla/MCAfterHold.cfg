SPECIFICATION FairSpec
CONSTANTS
  a = a
  b = b
  None = None
  p1 = p1
  Subs = {a, b}
  After <- Waiting
  Passes = {p1}
  MaxTroubles = 2
INVARIANTS
  StartsOnItsBase
  CardIsAboutHeld
  StartedOnce
  FinishedIsIdle
  RefusalIsHandled
PROPERTIES
  WaiterIsDecided
CHECK_DEADLOCK FALSE
