SPECIFICATION Spec
CONSTANTS
  Tasks = {t1, t2, t3}
  Writers = {w1, w2}
  Limit = 1
  MaxTime = 3
SYMMETRY Symmetry
INVARIANT TypeOK
INVARIANT QuietTasksAreListed
INVARIANT RepeatsAreWrites
