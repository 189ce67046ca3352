SPECIFICATION FairSpec
CONSTANTS
  s1 = s1
  g1 = g1
  None = None
  Subs = {s1, g1}
  Gates = {g1}
  MaxRestarts = 0
  MaxFaults = 1
  MaxTalks = 0
  MaxMerges = 1
PROPERTIES
  NobodyOvertakes
  GateStartsAfterMerges
  SlotMovesOn
  ReachedIsStarted
CHECK_DEADLOCK FALSE
