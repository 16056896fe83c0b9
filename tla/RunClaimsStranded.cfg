SPECIFICATION Spec
CONSTANTS
  Daemons = {d1}
  Threads = {t1}
  InitialThread = t1
  Orders = {1}
  Runs = {r1}
  Operations = {x1}
  PageSize = 1
  MaxGeneration = 1
  Nobody = Nobody
SYMMETRY SafetySymmetry
CHECK_DEADLOCK FALSE
INVARIANT CommittedClaimHasExecutor
