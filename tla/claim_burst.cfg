SPECIFICATION Spec
CONSTANTS
  Requests = {r1, r2}
  Limit = 2
  Window = 3
  MaxTime = 9
  MaxDelay = 0
INVARIANT NoBoundaryBurst
