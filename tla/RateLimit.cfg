SPECIFICATION Spec
CONSTANTS
  IPs = {a, b, c, d, e}
  Window = 5
  MaxPerIP = 2
  MaxGlobal = 4
  MaxTracked = 2
  MaxTime = 10
SYMMETRY Symmetry
CHECK_DEADLOCK FALSE
INVARIANTS
  PerIPLimit
  GlobalLimit
  TrackedBounded
  RefusedOnlyIfFull
PROPERTY
  RefinesLimiter
