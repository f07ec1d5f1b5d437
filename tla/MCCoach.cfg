CONSTANTS
  c1 = c1
  c2 = c2
  c3 = c3
  Checks = {c1, c2, c3}
  FlagsOf <- MCFlagsOf
  Texts = {"P", "A", "B"}
  Workers = 2
  MaxCalls = 2
  CacheSize = 2
  CacheTTL = 2
  DayLength = 2
  MaxTime = 2
  None = None
SPECIFICATION Spec
INVARIANTS NothingCopiedShown CapUpToLateTakes PaidAgainForCause
PROPERTIES RefusedOnlyWhenSpent
CHECK_DEADLOCK FALSE
