SPECIFICATION FairSpec
CONSTANTS
  Desks = {d1}
  Phones = {}
  Wakers = {w1}
  Closers = {}
  DryRuns = {}
  Skilled = {}
  Self = Self
  Old = Old
  Interrupt = Interrupt
  d1 = d1
  w1 = w1
  Status = {"working"}
  Verdicts = {"working"}
  PipeCap = 2
  MaxSpawns = 1
  MaxReplay = 0
  MaxCancels = 0
  MaxSelfTurns = 1
INVARIANT LatchesAreKnown
PROPERTY ShownWorkEnds
CHECK_DEADLOCK FALSE
