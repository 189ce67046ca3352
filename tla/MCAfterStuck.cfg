SPECIFICATION Spec
CONSTANTS
  a = a
  b = b
  None = None
  p1 = p1
  Subs = {a, b}
  After <- Waiting
  Passes = {p1}
  MaxTroubles = 2
INVARIANT UnresolvedIsHandled
CHECK_DEADLOCK FALSE
