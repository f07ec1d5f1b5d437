CONSTANTS
  Files = {"f", "g"}
  Ids = {1, 2}
  Users = {"u"}
  Timeout = 2
  Null = Null
SPECIFICATION PageSpec
INVARIANTS ComparesItsOwn
PROPERTIES RunEnds
CHECK_DEADLOCK FALSE
