SPECIFICATION Spec
CONSTANTS
  Desks = {d1}
  Phones = {p1}
  Wakers = {}
  Closers = {d1}
  DryRuns = {d1}
  Skilled = {d1, p1}
  Self = Self
  Old = Old
  Interrupt = Interrupt
  d1 = d1
  p1 = p1
  Status = {"done"}
  Verdicts = {"idle", "working"}
  PipeCap = 2
  MaxSpawns = 1
  MaxReplay = 1
  MaxCancels = 1
  MaxSelfTurns = 0
INVARIANT LatchesAreKnown
INVARIANT OpenTurnIsShown
INVARIANT CloseIsSettled
PROPERTY ConfirmedCloseEnds
CHECK_DEADLOCK FALSE
