SPECIFICATION Spec
CONSTANTS
  Threads = {t1}
  Works = {w1}
  Tasks = {k1, k2}
  MaxRuns = 1
  MaxBurst = 1
  MaxExclusive = 0
  None = None
INVARIANTS
  BusyUntilReconciled
CHECK_DEADLOCK FALSE
