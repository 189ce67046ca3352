CONSTANTS
  a = a
  b = b
  s = s
  Items = {a}
  Recurring = {a}
  Gated = {}
  Sessions = {s}
  Target <- NewChats
  NoSession = NoSession
  Guards = {g}
  NoGuard = NoGuard
  Tick = Tick
  Callers = {c1, c2}
  NoItem = NoItem
  Grace = 1
  Period = 2
  MaxWait = 0
  MaxTime = 2
  MaxRequests = 2
  MaxCrashes = 1
  MaxFailedWrites = 1
SPECIFICATION Spec
INVARIANTS
  TypeOK
  SavedClaimSentOnce
  FiringHasOwner
  SkippedByOwnGuard
PROPERTIES
  OutcomeNeverResurrects
SYMMETRY Symmetry
CHECK_DEADLOCK FALSE
