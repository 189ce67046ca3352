SPECIFICATION Spec
CONSTANTS
  Asked = {q1}
  Raised = {}
  Permissions = {p1}
  Exit = Exit
  Status = {"done", "question"}
  MaxTurns = 2
  MaxDeaths = 1
  MaxCancels = 1
INVARIANT BlockedIsAnswerable
INVARIANT HiddenCardsAreKnown
INVARIANT BareQuestionsAreKnown
CHECK_DEADLOCK FALSE
