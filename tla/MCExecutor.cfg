CONSTANTS
  Tasks = {t1, t2, t3, t4}
  MaxWorkers = 2
  MaxPending = 2
  StartMayFail = TRUE
SPECIFICATION Spec
INVARIANTS HardCapIfClean CountersExact
PROPERTIES AcceptedEnds BacklogDrains
CHECK_DEADLOCK FALSE
