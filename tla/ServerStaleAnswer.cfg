SPECIFICATION Spec
CONSTANTS
  MaxCase = 2
  MaxFaults = 1
  MaxNoise = 0
  MaxSpawnFailures = 1
  MaxProcs = 3
INVARIANTS AnswersOwnCase
CHECK_DEADLOCK FALSE
