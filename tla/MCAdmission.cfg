CONSTANTS
  Requests = {r1, r2, r3, r4}
  Users = {u1}
  Addresses = {a1, a2}
  QuotaChecks = 1
  QuotaWindow = 1
  RateLimit = 2
  RateWindow = 2
  SweepAt = 1
  LedgerMayFail = TRUE
  StartMayFail = FALSE
  MaxTime = 2
  None = None
SYMMETRY Symmetry
SPECIFICATION Spec
INVARIANTS NobodySeesAnothers QuotaUpToOverlap AcceptedIsCounted FewerThanTwice
PROPERTIES BucketsAreRecent
CHECK_DEADLOCK FALSE
