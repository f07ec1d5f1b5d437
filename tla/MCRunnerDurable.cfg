CONSTANTS
  j1 = j1
  j2 = j2
  j3 = j3
  Jobs = {j1, j3}
  RequestOf <- MCRequestOf
  MaxWorkers = 2
  MaxPending = 1
  StartMayFail = TRUE
  MaxJobs = 1
  TTL = 1
  Durable = TRUE
  CacheSize = 1
  CacheTTL = 1
  MaxTime = 3
  None = None
SPECIFICATION Spec
INVARIANTS OutcomeRecorded
PROPERTIES ImplementsLifecycle AcceptedSettles
CHECK_DEADLOCK FALSE
