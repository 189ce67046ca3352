SPECIFICATION Spec
CONSTANTS
  s1 = s1
  g1 = g1
  None = None
  Subs = {s1, g1}
  Gates = {g1}
  MaxRestarts = 1
  MaxFaults = 1
  MaxTalks = 1
  MaxMerges = 0
INVARIANTS
  SlotIsDistinct
  RecipeIsReachable
  EndedStartsNothing
  OneEditor
  SlotLeavesTheDead
  
PROPERTIES
  DirtySlotStays
CHECK_DEADLOCK FALSE
