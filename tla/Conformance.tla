----------------------------- MODULE Conformance -----------------------------
(***************************************************************************)
(* The pytest side of the conformance suites, a part at a time: the vector *)
(* cache, the collection of cases, a fork_choice vector, and a case of the *)
(* other formats.                                                          *)
(***************************************************************************)
EXTENDS Parts, Naturals, Sequences

CONSTANTS
  XdistWorkers,     \* the workers of a pytest-xdist session
  PairWorkers,      \* two of them
  XdistMembers,     \* the members of the archive they extract
  XdistFailures,    \* bound: downloads cut off
  SerialWorker,     \* the worker of a session without xdist
  SerialMembers,    \* the members of the archive it extracts
  SerialFailures,   \* bound: downloads cut off
  LaterSessions,    \* bound: sessions after the first
  Trees,            \* the case directories of a suite
  Limits,           \* the values of --subset
  ScriptEntries,    \* the entries of fork_choice vectors
  MaxEntries,       \* bound: how many of them, by fork
  VerdictCases      \* the cases of the other formats

\* An archive has members, NoState stands for no tarball, and a session has workers.
ASSUME CacheAssumption ==
  /\ XdistWorkers # {}
  /\ XdistMembers \in Nat \ {0} /\ SerialMembers \in Nat \ {0}
  /\ XdistFailures \in Nat /\ SerialFailures \in Nat /\ LaterSessions \in Nat
  /\ \A S \in SUBSET (1 .. XdistMembers) : S # NoState
  /\ \A S \in SUBSET (1 .. SerialMembers) : S # NoState

CaseDirectory ==
  [fork : STRING, runner : STRING, handler : STRING, kind : STRING, name : STRING]

\* The directories of a suite differ; all of the generic one lie under ssz_generic.
ASSUME TreesAssumption ==
  /\ DOMAIN Trees \subseteq {"consensus", "generic"}
  /\ \A s \in DOMAIN Trees :
       /\ Trees[s] \in Seq(CaseDirectory)
       /\ \A i, j \in DOMAIN Trees[s] : i # j => Trees[s][i] # Trees[s][j]
       /\ s = "generic" => \A i \in DOMAIN Trees[s] : Trees[s][i].runner = "ssz_generic"
  /\ Limits \subseteq Nat

\* The subkeys of a check have names, and the checks whose value is one scalar have none.
ASSUME ScriptAssumption ==
  /\ \A f \in DOMAIN MaxEntries : MaxEntries[f] \in Nat
  /\ \A e \in ScriptEntries :
       /\ e.valid \in BOOLEAN
       /\ \A k \in DOMAIN e.checks : "" \notin e.checks[k]
       /\ \A k \in {"get_proposer_head", "proposer_boost_root", "time", "genesis_time"} :
            k \in DOMAIN e.checks => e.checks[k] = {}

VARIABLES
  pc, at, collected, outcome,                         \* of more than one part
  tarball, tree, next, sessions, failures,            \* of the vector cache
  suite, present, limit, seen, counts,                \* of the walk
  fork, vector, lines, steps, answers, error,         \* of a fork_choice vector
  case, request, decoded, answer, result              \* of a case of the other formats

cacheOnly == <<tarball, tree, next, sessions, failures>>
walkOnly == <<suite, present, limit, seen, counts>>
scriptOnly == <<fork, vector, lines, steps, answers, error>>
verdictOnly == <<case, request, decoded, answer, result>>
state == <<pc, at, collected, outcome, cacheOnly, walkOnly, scriptOnly, verdictOnly>>

NoCache ==
  /\ tarball = NoState /\ tree = NoState /\ next = NoState
  /\ sessions = NoState /\ failures = NoState
NoWalk ==
  /\ suite = NoState /\ present = NoState /\ limit = NoState
  /\ seen = NoState /\ counts = NoState
NoScript ==
  /\ fork = NoState /\ vector = NoState /\ lines = NoState
  /\ steps = NoState /\ answers = NoState /\ error = NoState
NoVerdict ==
  /\ case = NoState /\ request = NoState /\ decoded = NoState
  /\ answer = NoState /\ result = NoState

InCache == NoWalk /\ NoScript /\ NoVerdict /\ at = NoState /\ outcome = NoState
InWalk == NoCache /\ NoScript /\ NoVerdict /\ pc = NoState /\ outcome = NoState
InScript == NoCache /\ NoWalk /\ NoVerdict /\ collected = NoState
InVerdict == NoCache /\ NoWalk /\ NoScript /\ at = NoState /\ collected = NoState

notCache == <<part, walkOnly, scriptOnly, verdictOnly, at, outcome>>
notWalk == <<part, cacheOnly, scriptOnly, verdictOnly, pc, outcome>>
notScript == <<part, cacheOnly, walkOnly, verdictOnly, collected>>
notVerdict == <<part, cacheOnly, walkOnly, scriptOnly, at, collected>>

-----------------------------------------------------------------------------
(* The vector cache: the workers of a session at once with downloads that  *)
(* are cut off, and one worker over more sessions, some of them killed.    *)
Xdist == INSTANCE VectorArchive WITH
  Workers <- XdistWorkers, Members <- XdistMembers, MaxSessions <- 0,
  MaxFailures <- XdistFailures, MayCrash <- FALSE, None <- NoState

Serial == INSTANCE VectorArchive WITH
  Workers <- {SerialWorker}, Members <- SerialMembers, MaxSessions <- LaterSessions,
  MaxFailures <- SerialFailures, MayCrash <- TRUE, None <- NoState

Pair == INSTANCE VectorArchive WITH
  Workers <- PairWorkers, Members <- XdistMembers, MaxSessions <- 0,
  MaxFailures <- 0, MayCrash <- FALSE, None <- NoState

(* The walk over the cases, any part of them on disk.                      *)
Walk == INSTANCE CaseWalk

(* A fork_choice vector.                                                   *)
Script == INSTANCE FcScript WITH
  Entries <- ScriptEntries

(* A case of the other formats.                                            *)
Verdict == INSTANCE CaseVerdict WITH
  Cases <- VerdictCases

-----------------------------------------------------------------------------
ConformanceInit ==
  \/ part = "xdist" /\ Xdist!Init /\ InCache
  \/ part = "serial" /\ Serial!Init /\ InCache
  \/ part = "walk" /\ Walk!Init /\ InWalk
  \/ part = "script" /\ Script!Init /\ InScript
  \/ part = "verdict" /\ Verdict!Init /\ InVerdict

ConformanceNext ==
  \/ part = "xdist" /\ Xdist!Next /\ UNCHANGED notCache
  \/ part = "serial" /\ Serial!Next /\ UNCHANGED notCache
  \/ part = "walk" /\ Walk!Visit /\ UNCHANGED notWalk
  \/ part = "script" /\ Script!Next /\ UNCHANGED notScript
  \/ part = "verdict" /\ Verdict!Next /\ UNCHANGED notVerdict

ConformanceSpec == ConformanceInit /\ [][ConformanceNext]_<<part, state>>

\* Two workers that start together on an empty cache, and nothing fails.
PairSpec ==
  /\ part = "pair" /\ Pair!Init /\ InCache
  /\ [][Pair!Next /\ UNCHANGED notCache]_<<part, state>>

\* Only the cases of the other formats.
VerdictSpec ==
  /\ part = "verdict" /\ Verdict!Init /\ InVerdict
  /\ [][Verdict!Next /\ UNCHANGED notVerdict]_<<part, state>>

-----------------------------------------------------------------------------

\* ensure_archive: from an empty cache, a session none of whose workers reported
\* an error leaves the whole archive, however they got in each other's way.
CleanSessionLeavesAll ==
  /\ part = "xdist" => Xdist!TypeOK /\ Xdist!CleanSessionLeavesAll
  /\ part = "serial" => Serial!TypeOK /\ Serial!CleanSessionLeavesAll

\* ensure_archive: what is complete stays so, through failures, kills and later
\* sessions.
CompleteForGood == [][part = "serial" => Serial!CompleteForGood]_<<part, state>>

\* walk_cases: every group of cases is sampled up to the cap, and no case twice,
\* whichever directories the archive holds.
CasesSampled == part = "walk" => Walk!GroupsSampled /\ Walk!IdsDistinct

\* _build_fork_choice_request to test_case: a fork_choice vector passes only if
\* all it asks for was run and matched, is set aside only for something that is
\* not modelled, and fails on any mismatch; a step counts as matched only where the
\* reference goes on (checkStepValidity).
ScriptComplete ==
  part = "script" => /\ Script!TypeOK /\ Script!PassChecksAll /\ Script!XfailHasCause
                     /\ Script!MismatchFails /\ Script!MatchedAsReference

\* build_request to test_case: the server reads the case that was written, a
\* case passes exactly when the reference passes it, and only a deferral of our
\* own keeps one from failing.
VerdictAsReference ==
  part = "verdict" => /\ Verdict!TypeOK /\ Verdict!RequestRoundTrip
                      /\ Verdict!PassIffReference /\ Verdict!DeferralsVisible

\* ensure_archive, of two workers that start together: what it returned holds the
\* whole archive (harness.py:78-79: "Download + extract (idempotent).  Returns the
\* extracted root").
ReturnsWholeArchive == part = "pair" => Pair!ReturnsWholeArchive

\* test_case: `bug` is always a hard failure (test_pyspec.py:8-9).
BugAlwaysFails == part = "verdict" => Verdict!BugAlwaysFails
=============================================================================
