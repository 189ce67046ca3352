SPECIFICATION FairSpec
CONSTANTS
  Asked = {}
  Raised = {}
  Permissions = {p1, p2}
  Exit = Exit
  Status = {"done"}
  MaxTurns = 1
  MaxDeaths = 1
  MaxCancels = 1
PROPERTY RequestsEnd
CHECK_DEADLOCK FALSE
