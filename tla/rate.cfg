SPECIFICATION Spec
CONSTANTS
  Requests = {r1, r2}
  Limit = 2
  Window = 3
  MaxTime = 9
  MaxDelay = 3
SYMMETRY Symmetry
INVARIANT TypeOK
INVARIANT NothingThatCountsIsForgotten
INVARIANT LimitPerWindow
INVARIANT RetainedTwoWindows
INVARIANT RemainingIsNotNegative
PROPERTY NoFalseRefusal
INVARIANT IInv
