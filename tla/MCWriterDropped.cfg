SPECIFICATION Spec
CONSTANTS
  s1 = s1
  g1 = g1
  None = None
  Subs = {s1, g1}
  Gates = {g1}
  MaxRestarts = 0
  MaxFaults = 0
  MaxTalks = 0
  MaxMerges = 0
INVARIANT QueuedStartsByItself
CHECK_DEADLOCK FALSE
