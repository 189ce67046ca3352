CONSTANTS
  Cards = {q1, q2, q3}
  Workers = {w1, w2}
  MaxCrashes = 1
SYMMETRY Symmetry
SPECIFICATION Spec
INVARIANTS
  TypeOK
  PostedCardSurvives
  SettledCardStaysGone
  QuietFileIsCurrent
  SeqFollowsAskOrder
PROPERTY FileMovesForward
CHECK_DEADLOCK FALSE
