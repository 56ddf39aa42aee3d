SPECIFICATION MCSpec
CONSTANTS
  RoundsF = {0, 1, 2, 4, 8}
  RoundsP = {0, 1, 3, 56}
  Listed = {2, 4, 5, 6, 9, 11, 64}
INVARIANTS
  RightConstants
  ValuesReproduced
CHECK_DEADLOCK FALSE
