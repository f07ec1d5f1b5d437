CONSTANTS
  Checks = {c1, c2}
  Inputs <- MCInputs
  Scores = {1, 2, 3, 4}
  Floor = 2
  Base = 3
  Ceiling = 4
  Rerank = TRUE
  RerankFrom = 2
  RerankTo = 3
  MaxPairs = 1
  None = None
SPECIFICATION Spec
INVARIANTS QuotesOneBeside NothingAssertedBelowLowest ClearUpToTriage
CHECK_DEADLOCK FALSE
