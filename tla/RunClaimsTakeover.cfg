SPECIFICATION Spec
CONSTANTS
  Daemons = {d1, d2}
  Threads = {t1, t2}
  InitialThread = t1
  Orders = {1}
  Runs = {r1, r2}
  Operations = {x1}
  PageSize = 1
  MaxGeneration = 1
  Nobody = Nobody
SYMMETRY SafetySymmetry
CHECK_DEADLOCK FALSE
INVARIANTS
  NoLostWake
  OrphansRecovered
  RunningOnlyWhereAllowed
  FencedRunsAborted
PROPERTY StaleOwnerWritesNothing
