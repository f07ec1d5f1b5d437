CONSTANTS
  j1 = j1
  j2 = j2
  j3 = j3
  Jobs = {j1, j2, j3}
  RequestOf <- MCRequestOf
  MaxWorkers = 2
  MaxPending = 1
  StartMayFail = TRUE
  MaxJobs = 2
  TTL = 1
  Durable = FALSE
  CacheSize = 1
  CacheTTL = 1
  MaxTime = 2
  None = None
SPECIFICATION Spec
INVARIANTS ResultIsOwn
PROPERTIES ForgottenForCause
CHECK_DEADLOCK FALSE
