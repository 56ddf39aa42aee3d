------------------------------- MODULE Scripts -------------------------------
(***************************************************************************)
(* The maintenance scripts, a part at a time: the citations of proofs, the *)
(* tiers of constants, the comparative benchmark with its harnesses, and   *)
(* the releases of LeanSha256.                                             *)
(***************************************************************************)
EXTENDS Parts, Naturals, Sequences

CONSTANTS
  CitedNames, NoName, CitedFile, CitedAt,     \* a cited file and its citations
  Tags, Documents, Names, OurTiers,           \* the documents of the spec releases
  Revs, Reps, MaxFaults, MaxEdits, MaxRuns,   \* of a benchmark that is edited, and bounds
  Maintainers, MaxCommits, MaxCrashes         \* those who release, and bounds

ASSUME ReleaseAssumption == MaxCrashes \in Nat

ASSUME BenchAssumption == Reps \in Nat

VARIABLES
  commits, clone, origin, downstream, going, waiting, crashes,   \* of the releases
  s1, s2, s3, s4, s5, s6, s7, s8, s9, s10, s11   \* of each other part, as many as it has

slots == <<s1, s2, s3, s4, s5, s6, s7, s8, s9, s10, s11>>
from5 == <<s5, s6, s7, s8, s9, s10, s11>>
from8 == <<s8, s9, s10, s11>>
releases == <<commits, clone, origin, downstream, going, waiting, crashes>>

Unused8 == s8 = NoState /\ s9 = NoState /\ s10 = NoState /\ s11 = NoState
Unused5 == s5 = NoState /\ s6 = NoState /\ s7 = NoState /\ Unused8
Unused1 == s1 = NoState /\ s2 = NoState /\ s3 = NoState /\ s4 = NoState /\ Unused5
NoReleases ==
  /\ commits = NoState /\ clone = NoState /\ origin = NoState /\ downstream = NoState
  /\ going = NoState /\ waiting = NoState /\ crashes = NoState

-----------------------------------------------------------------------------
(* The citations of a file and its edits.                                  *)
Cite == INSTANCE Citations WITH
  Names <- CitedNames, File0 <- CitedFile, Cites0 <- CitedAt, MaxEdits <- 3, MaxLines <- 8,
  file <- s1, cites <- s2, status <- s3, edits <- s4

-----------------------------------------------------------------------------
(* The tiers of the names in the documents of releases.                    *)
Tier == INSTANCE ConstantTiers WITH
  Forks <- <<"fulu", "gloas">>, Accumulated <- {"fulu"}, Ours0 <- OurTiers,
  Untabled <- {}, MaxFailures <- 1, MaxMoves <- 2,
  pinned <- s1, ours <- s2, truth <- s3, pc <- s4, fetched <- s5, scan <- s6, status <- s7,
  basis <- s8, whole <- s9, failures <- s10, moves <- s11

-----------------------------------------------------------------------------
(* The driver of the comparative benchmark: harnesses that misbehave, and  *)
(* developers who edit under it; EditedBench has edits and no faults.      *)
FaultyBench == INSTANCE CompBench WITH
  Reps <- 2, MaxFaults <- 2, MaxEdits <- 0, MaxRuns <- 1,
  disk <- s1, run <- s2, rows <- s3, report <- s4, faults <- s5, edits <- s6, runs <- s7

MovingBench == INSTANCE CompBench WITH
  disk <- s1, run <- s2, rows <- s3, report <- s4, faults <- s5, edits <- s6, runs <- s7

EditedBench == INSTANCE CompBench WITH
  MaxFaults <- 0, disk <- s1, run <- s2, rows <- s3, report <- s4, faults <- s5,
  edits <- s6, runs <- s7

(* Its harnesses: all four, with a few writes, and one of either kind with *)
(* the 250 writes per shape of the code.                                   *)
Clauses == {"sizzlean-fast", "sizzlean-pure"}

AllImpls == INSTANCE CompScenario WITH
  Impls <- <<"sizzlean-fast", "sizzlean-pure", "libssz", "ssz-specs">>, ByClause <- Clauses,
  WRITES_PER_SHAPE <- 6, Length <- 8, Reps <- 2,
  at <- s1, phase <- s2, k <- s3, state <- s4, hoisted <- s5, root1 <- s6, rows <- s7

FullSize == INSTANCE CompScenario WITH
  Impls <- <<"sizzlean-fast", "ssz-specs">>, ByClause <- Clauses,
  WRITES_PER_SHAPE <- 250, Length <- 252, Reps <- 1,
  at <- s1, phase <- s2, k <- s3, state <- s4, hoisted <- s5, root1 <- s6, rows <- s7

-----------------------------------------------------------------------------
(* Maintainers release at once, and the script dies under them.            *)
Publish == INSTANCE Release

-----------------------------------------------------------------------------
ScriptsInit ==
  \/ part = "citations" /\ Cite!Init /\ Unused5 /\ NoReleases
  \/ part = "tiers" /\ Tier!Init /\ NoReleases
  \/ part = "faulty" /\ FaultyBench!Init /\ Unused8 /\ NoReleases
  \/ part = "moving" /\ MovingBench!Init /\ Unused8 /\ NoReleases
  \/ part = "all" /\ AllImpls!Init /\ Unused8 /\ NoReleases
  \/ part = "full" /\ FullSize!Init /\ Unused8 /\ NoReleases
  \/ part = "release" /\ Publish!Init /\ Unused1

ScriptsNext ==
  \/ part = "citations" /\ Cite!Next /\ UNCHANGED <<part, from5, releases>>
  \/ part = "tiers" /\ Tier!Next /\ UNCHANGED <<part, releases>>
  \/ part = "faulty" /\ FaultyBench!Next /\ UNCHANGED <<part, from8, releases>>
  \/ part = "moving" /\ MovingBench!Next /\ UNCHANGED <<part, from8, releases>>
  \/ part = "all" /\ AllImpls!Next /\ UNCHANGED <<part, from8, releases>>
  \/ part = "full" /\ FullSize!Next /\ UNCHANGED <<part, from8, releases>>
  \/ part = "release" /\ Publish!Next /\ UNCHANGED <<part, slots>>

ScriptsSpec == ScriptsInit /\ [][ScriptsNext]_<<part, slots, releases>>

\* Only the benchmark, its sources edited between and under its runs.
EditedSpec ==
  /\ part = "edited" /\ EditedBench!Init /\ Unused8 /\ NoReleases
  /\ [][EditedBench!Next /\ UNCHANGED <<part, from8, releases>>]_<<part, slots, releases>>

-----------------------------------------------------------------------------

\* check_citations: a --fix that reports success leaves nothing stale, and a clean
\* check means that every citation spans exactly the declaration it names.
CitationsExact ==
  part = "citations" => Cite!TypeOK /\ Cite!FixRepairs /\ Cite!CleanMeansExact

\* check_constant_tiers: with a ground truth built whole from the pinned release
\* a match is a match, and such a ground truth misses no name and takes every
\* attribution from a table where there is one.
TiersAsPinned ==
  part = "tiers" => /\ Tier!TypeOK /\ Tier!SoundMatchMeansMatch
                    /\ Tier!TableWins /\ Tier!TruthComplete

\* comparative_benchmark: a report stands on full tables of rows that agree, and
\* names what was built for it unless something was edited meanwhile; the rows of
\* the four harnesses agree when nothing fails, with a hoisted read as without.
BenchmarkHonest ==
  /\ part = "faulty" => FaultyBench!TablesFull /\ FaultyBench!ReportedRowsAgree
  /\ part = "moving" => MovingBench!BuiltNamesMeasured /\ MovingBench!ReportedRowsAgree
  /\ part = "all" => AllImpls!RowsAgree /\ AllImpls!HoistedCurrent
  /\ part = "full" => FullSize!ThousandWritesBite

\* bump_patch: a published tag names the version of its commit and is on main,
\* no version is skipped, and the mirror's tags point at the same commits.
ReleasesNumbered ==
  part = "release" => /\ Publish!TypeOK /\ Publish!BumpsByOne
                      /\ Publish!TagsNameReleases /\ Publish!MirrorTagsAgree

\* --fix leaves alone what was right, and the mirror's main never goes back.
NothingUndone ==
  [][/\ part = "citations" => Cite!FixKeepsAccurate
     /\ part = "release" => Publish!MirrorForward]_<<part, slots, releases>>

\* A report that says the tree has no changes names the SizzLean revision measured
\* (checkout_description, comparative_benchmark.py).
SizzLeanNamed == part = "edited" => EditedBench!SizzLeanNamed
=============================================================================
