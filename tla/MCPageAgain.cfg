CONSTANTS
  Files = {"f", "g"}
  Ids = {1, 2}
  Users = {"u"}
  Timeout = 2
  Null = Null
SPECIFICATION PageSpec
INVARIANTS RunAgainIsNotRefused
CHECK_DEADLOCK FALSE
