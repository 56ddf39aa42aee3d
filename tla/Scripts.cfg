SPECIFICATION ScriptsSpec
CONSTANTS
  A = A
  B = B
  NoName = NoName
  NoState = NoState
  CitedNames = {A, B}
  CitedFile <- MCFile
  CitedAt <- MCCites
  Tags = {"v1", "v2"}
  Documents <- MCDocuments
  Names = {"CAP", "GRAPH", "PTC", "SLOT"}
  OurTiers <- MCOurs
  Revs = {1, 2}
  Reps = 1
  MaxFaults = 1
  MaxEdits = 2
  MaxRuns = 2
  Maintainers = {ann, bob}
  MaxCommits = 4
  MaxCrashes = 1
INVARIANTS
  CitationsExact
  TiersAsPinned
  BenchmarkHonest
  ReleasesNumbered
PROPERTIES
  NothingUndone
CHECK_DEADLOCK FALSE
