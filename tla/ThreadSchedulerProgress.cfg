SPECIFICATION FairSpec
CONSTANTS
  Threads = {t1, t2}
  Works = {w1, w2, w3, w4}
  Tasks = {k1}
  MaxRuns = 1
  MaxBurst = 1
  MaxExclusive = 1
  None = None
PROPERTIES
  BacklogIsAdmitted
  ExclusivesAreAnswered
  HintsAreActedUpon
CHECK_DEADLOCK FALSE
