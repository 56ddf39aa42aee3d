SPECIFICATION VerdictSpec
CONSTANTS
  NoState = NoState
  XdistWorkers = {w1, w2, w3}
  PairWorkers = {w1, w2}
  XdistMembers = 3
  XdistFailures = 1
  SerialWorker = w1
  SerialMembers = 4
  SerialFailures = 2
  LaterSessions = 3
  Trees <- MCTrees
  Limits = {0, 1, 2}
  ScriptEntries <- MCEntries
  MaxEntries <- MCMaxEntries
  VerdictCases <- MCCases
INVARIANTS
  BugAlwaysFails
CHECK_DEADLOCK FALSE
