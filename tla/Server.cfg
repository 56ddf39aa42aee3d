SPECIFICATION Spec
CONSTANTS
  MaxCase = 3
  MaxFaults = 2
  MaxNoise = 1
  MaxSpawnFailures = 1
  MaxProcs = 5
INVARIANTS AnswersUnlessRaised IdleServerClean RetriesEarned
PROPERTIES ServiceSpec DroppedServersExit
CHECK_DEADLOCK FALSE
