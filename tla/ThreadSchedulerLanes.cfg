SPECIFICATION Spec
CONSTANTS
  Threads = {t1, t2}
  Works = {w1, w2, w3, w4}
  Tasks = {k1, k2}
  MaxRuns = 2
  MaxBurst = 1
  MaxExclusive = 1
  None = None
SYMMETRY Symmetry
INVARIANTS
  TypeOK
  OneExecutionPerThread
  QueueByPriority
  EveryWaitHasAWaker
  AmbiguousClaimIsKept
  HintsAreCovered
  NoForgottenPromise
CHECK_DEADLOCK FALSE
