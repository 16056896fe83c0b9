SPECIFICATION Spec
CONSTANTS
  Daemons = {d1}
  Threads = {t1}
  InitialThread = t1
  Orders = {1, 2}
  Runs = {r1, r2}
  Operations = {}
  PageSize = 1
  MaxGeneration = 3
  Nobody = Nobody
SYMMETRY SafetySymmetry
CHECK_DEADLOCK FALSE
INVARIANTS
  TypeOK
  NoLostWake
  CompletedRunDrained
  AppliedInOrder
