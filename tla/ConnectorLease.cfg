SPECIFICATION Spec
CONSTANTS
  Holders = {h1, h2}
  Nobody = Nobody
  TTL = 3
  RenewInterval = 1
  MaxTime = 4
SYMMETRY HolderSymmetry
CHECK_DEADLOCK FALSE
INVARIANTS
  TypeOK
  DeadlineHoldsUnlessCut
  OverlapIsBounded
