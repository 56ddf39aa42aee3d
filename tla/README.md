# A TLA+ model of etheorem's consensus specs

etheorem writes the Ethereum consensus specification in Lean 4. The programs
under `packages/EthCLSpecs` are executable: a conformance runner feeds them
blocks, attestations and clock ticks. Around them stand Python programs: the
pytest side of the conformance suites, and the scripts that generate constants,
check the sources, benchmark and release. This directory models the parts where
*order* matters: which block is the head, what is final, what a handler that
fails half-way leaves behind, what a client of a crashing server is told, and
what a script reports about files that change under it. Data (SSZ, hashes,
signatures, text) is abstracted.

## 1. The system

| component | state it keeps | operations | talks to | what makes it correct |
|---|---|---|---|---|
| Fulu fork choice (`Fulu/ForkChoice.lean`) | the `Store`: clock, four checkpoints, boost, blocks and their states, timeliness, cached checkpoint states, latest messages, equivocators, unrealized justifications | `onTick`, `onBlock`, `onAttestation`, `onAttesterSlashing`, `getHead`, `getProposerHead` | runs the state transition on a nested machine; reads checkpoints and balances of stored states | checkpoints never out of order; the head exists, keeps to finality and follows the votes; a failing handler leaves a store that later calls can use |
| Fulu state transition (`Transition`, `EpochProcessing`, `Operations`, `Accessors`) | `BeaconState` | `processSlots`, `processBlock`, `stateTransition` | called by `onBlock`, `storeTargetCheckpointState`, the runner | finality is never reverted; the epoch boundary is crossed exactly once |
| Fulu registry (`RegistryUpdates`, `Deposits`, `Withdrawals`, `Operations`, `EpochProcessing`) | validators, balances, three pending queues, churn budgets | deposits, exits, slashings, consolidations, withdrawals, epoch updates | part of `BeaconState` | churn stays within its budget; no deposit is lost; no value appears |
| Fork-choice runner (`Fulu/Interface.lean`, `EthCLLib/PySpecTests`) | the store between steps | `fcInterpret`, `checkStepValidity` | calls the handlers in order, replays a block's attestations and slashings | a rejected step leaves the error-time store, an accepted one the new store |
| Gloas (`Gloas/*`) | Fulu's store plus payload states, payload-timeliness votes; builder payments | payload envelopes, payload attestations | overrides Fulu definitions | a head's payload status follows the votes and what arrived |
| Heze (`Heze/*`) | Gloas' store plus inclusion lists | `onInclusionList` | overrides Gloas | a payload that ignores a timely list is not extended |
| EthCLLib | - | monads, `fuelLoop`, checked arithmetic, nested machine, fork macros | everything above is written in it | a failure in the nested machine does not touch the outer store |
| SizzLean | cached hash tree and a map of pending writes | get, set, commit, root | backs `BeaconState` | a root covers exactly the writes before it |
| LeanRlp, LeanSha256, LeanPoseidon, hazmat | - | pure functions, foreign calls | used by the above | functional correctness (Lean proofs, test vectors) |
| Conformance servers and clients (`PySpecTests/harness.py`, `test_pyspec.py`, `PySpecTests/Server.lean`, `EthCLLib/PySpecTests`) | a server process per worker and its pipes; the vector cache on disk | `submit`, `close`, `serve`; `ensure_archive`, `walk_cases`; `build_request`, `buildRequest`, `runCase`, `test_case` | one request line per case, one result line back | every verdict is that of its own case, and what the reference would say |
| Citation checker (`scripts/check_citations.py`) | the citing files | check, `--fix` | reads the cited files | a clean check, or a successful fix, leaves every citation exact |
| Constant tiers (`scripts/check_constant_tiers.py`) | `constant_tiers.json` | `--refresh`, check | downloads the pinned specs | a match means that tiers and forks match |
| Comparative benchmark (`scripts/comparative_benchmark.py`, `scripts/compbench`, `SizzLeanBench`) | binaries, venvs, a report | build, run three harnesses, check, render | git, cargo, the harnesses' rows | a report compares like with like and names what was measured |
| Release (`LeanSha256/scripts/bump_patch.py`, the mirror workflow) | commits, tags, the downstream repository | bump, push, mirror | git and GitHub | tags name the version of their commit, the mirror follows |
| Generators (`gen_poseidon_params.py`, `gen_vectors.py`) | the array, or the words, being computed | flatten, emit; compress | the Lean code that reads the result | both sides compute the same positions and values |

Behaviours that are hard: handlers write at every statement boundary and may
raise between two writes; the head query reads seven maps and raises on the
first missing key; checkpoints of competing branches arrive in any order; clock
readings skip slots, or go back; the same vote arrives on the wire and in a
block; a block may be late. A server may die, garble a line or print noise
between any two steps of its client, and the restart may fail; pytest workers
share one cache; a download is cut off; developers edit files between two runs
of a script, and during one. `PROJECT.json` lists the hazards line by line.

## 2. Modules

| module | models |
|---|---|
| `BeaconChain` | pure operators over one beacon state: slots, votes, justification and finalization |
| `FuluForkChoice` | the store and its handlers, one action each |
| `FuluDriver` | composes the two: the runner, with the real state transition inside `onBlock` |
| `InductionLemmas` | induction, recursion, finite sums and lists put together from lists, for the modules of proofs |
| `FuluForkChoiceProofs` | theorems about `FuluForkChoice`, then about `FuluDriver` |
| `FuluRegistry` | the validator registry: churn, exits, slashings, withdrawals and the pending queues |
| `FuluRegistryProofs` | theorems about `FuluRegistry`: value, withdrawals and final exits, then delays, queues and churn |
| `CaseService` | what a pytest worker relies on: every submission ends in one verdict |
| `ServerClient`, `ServerClientProofs` | the client and its server processes, which implement `CaseService`; theorems |
| `VectorArchive`, `VectorArchiveProofs` | download, extraction and reuse of the vectors by concurrent workers; theorems |
| `CaseWalk` | the walk over the cases: scope, groups, caps, duplicates |
| `FcScript` | a fork-choice vector from its YAML through the request line, the decoder and the interpreter to the verdict |
| `CaseVerdict` | the same for the other formats |
| `Citations`, `ConstantTiers`, `CompBench`, `CompScenario`, `Release` | the scripts above |
| `Parts`, `Conformance`, `Scripts` | what shares no state, a part at a time: cache, walk and vectors; the scripts |
| `ConformanceProofs`, `ScriptsProofs` | theorems about these two |
| `PoseidonParams`, `PoseidonParamsProofs` | the layout of the round constants in the generator and in the permutation; theorems |
| `Blake2f` | the BLAKE2b compression function of the vector generator, on 64-bit words |
| `MCFuluForkChoice`, `MCFuluDriver`, `MCFuluRegistry`, `MCServerClient` | the small instances TLC checks |
| `MCConformance`, `MCScripts`, `MCGenerators` | small instances of `Conformance` and `Scripts`, and of the two generators |

### FuluForkChoice

Each variable is the field of `Store` of the same name. `genesis_time` is 0 and
`time` counts clock units, `SlotDuration` to the slot, so that a reading falls
before or after the attestation deadline. `checkpointStates` is the set of
cached keys and a block state is the four checkpoints fork choice ever reads
of it: the two of the post-state and the two of its pulled-up copy.

| code | action |
|---|---|
| `onTick` with its catch-up loop | `OnTick`: what the loop does at every slot start it passes is idempotent, so it matters only whether a slot, and an epoch, began |
| `onBlock` | `OnBlock`, and `OnBlockAborted` when a dependent-root walk raises after the block was inserted |
| `onAttestation` | `OnAttestation`, and `OnAttestationAborted` when the indexed attestation is invalid after the target state was cached |
| `onAttesterSlashing` | `OnAttesterSlashing` |
| `getForkchoiceStore` | `Init` |

A read that raises on a missing key is an explicit case: `Ancestor` answers
`NoRoot`, `VotingSource` answers `Missing`, and `HeadRaises` collects every
read that can stop `getHead`. `onBlock` takes the head *before* it inserts the
block, so `~HeadRaises` is one of its guards. A handler that rejects before its
first write leaves the store alone and has no action.

`FuluForkChoice` takes the post-state of a block from `PostStates`, a set that
only says what the transition promises: its checkpoints are its own chain's (or
its parent's), they are ordered, and within an epoch they do not move. The
property `PostStateContract` of `FuluDriver` shows that the real transition
keeps the promise.

### BeaconChain and FuluDriver

A beacon state is its slot, block roots, justification bits, three checkpoints
and the validators with the timely-target flag in each of two epochs. Every
validator is active and unslashed and effective balances are constants.
`ProcessSlots`, `ProcessAttestation` and
`WeighJustificationAndFinalization` follow the code, including the order of
justification before participation rotation and the checkpoint that the later of two
matching finalization rules overwrites.

`FuluDriver` is `fcInterpret`. After a block is accepted, its attestations are
`pending` and are replayed one by one before anything else happens. A replay
that rejects ends the run, so the model then stops; so does the exception of an
`OnBlock` that aborts. Such replays happen: `process_attestation` requires of a
vote its source and lets its head and target be anything, only leaving flags out,
while `on_attestation` rejects a head it does not know and a target that is not the
head's. `Inclusions` has both kinds: votes for the chain of the including state, and
*stray* votes, whose head or target is one of `StrayRoots`. After one that is
turned away the run is `Stopped` for good. A known block is accepted without effect and its
attestations are replayed once more.

### FuluRegistry

`state` holds the fields of `BeaconState` the registry consists of; `stage` is
how far the slot's block has come. `supply` and `exitLog` are history: what all
value should add up to, and the balance let out with each exit.

| code | here |
|---|---|
| `processSlots` | `NextSlot`, and `NextEpoch` when the slot ends an epoch |
| `processEpoch` | `EpochBalances`, then `EpochQueues`, operators that compose the steps in the code's order |
| `processWithdrawals`, first in a block | `BeginBlock` |
| `processOperations` | one action per operation; `Operation(kind)` keeps their order |
| `processAttesterSlashing`, `processProposerSlashing` | `ProcessSlashing`: a slashing of several validators is several steps |
| `processWithdrawalRequest` | `FullExitRequest`, `PartialWithdrawalRequest` |
| `processConsolidationRequest` | `ProcessSwitchToCompounding`, `ProcessConsolidationRequest` |

A state transformer of the code is an operator from state to state, its loop a
recursive function, and so is used by actions and by the epoch alike. A request
the code ignores leaves the state alone and has no step. Justification enters
as the finalized epoch it chose (the rule itself is `BeaconChain`), rewards and
penalties as a gain or loss of one validator per epoch. A validator is its index, and at
most one pubkey outside the registry has deposits queued at a time. The limits
on operations per block are left out: more orders, not fewer. Fork choice reads
only effective balances of this state, which is why the two are not composed.

### ServerClient and CaseService

`pc` is where `submit` or `close` is, `held` is `self.proc`; `server[p]` is a
process with its two pipes. Each client step ends at a system call, and between
any two of them a server may take a request, answer, print a line, or die.
`hits` and `handed` are history.

| code | action |
|---|---|
| `submit`: the check, the write, the read loop, the except clause | `Poll`, `Write`, `Read`, `Respawn` |
| `_spawn` in either place, when `Popen` raises | `SpawnFails` |
| `close` | `Close`, `Closed` |
| `serve` (Lean) | `Take`, `Answer`, `Exit` |
| crashes, undecodable lines, noise | `Crash`, `Garble`, `Chatter` |

`CaseService` has no processes: a submission returns the answer to its case, a
report that the server died, or an exception; only after an exception may an
answer be that of another case. `ServiceSpec` is the refinement, with
`current <- IF InFlight THEN case ELSE 0`: every retry, death and respawn is a
stutter, and every return one `Return`.

### The other Python modules

`VectorArchive`: `tarball` and `tree` are the two things on disk whose presence
stands for completeness, each worker a `pc` between two file operations; a
session may be killed. `CaseWalk`: `Visit` is one iteration of `walk_cases`.
`FcScript`: `Encode` is `_build_fork_choice_request`, `Decode` the token loop of
the server, `RunStep` an iteration of `fcInterpret` whose handlers answer
freely, `Report` the verdict; the reference is a history that says where the
vector's own step list goes on. `CaseVerdict` follows one case through
`build_request`, `buildRequest`, `runCase` and `test_case`; states are the
names of their files. `Citations`, `ConstantTiers` and `CompBench` have the
script's steps as actions and those of its users (`Insert`, `Delete`, `Repin`,
`MoveDeclaration`, `Edit`, `Interrupt`) beside them. `CompScenario` runs the
writes of all harnesses, where a root is the value it commits to. `Release` has
a clone per maintainer, `origin`, `downstream` and the two places of the
workflow's concurrency group. `PoseidonParams` has the generator's loop and
then the permutation's. `Blake2f` has a step per call of `g`, words as four
16-bit limbs.

## 3. Runs

A run with several scenarios, or parts, checks them side by side: a variable
that never changes says which. A property of the component itself is checked in all
of them; one that an MC module states names the scenarios it is about.

| run | scenario | asks | bounds |
|---|---|---|---|
| `store` | ticks | do checkpoints and boost stay consistent, for any post-states the contract allows? | genesis anchor, 2 more blocks, slots 1-4 (three epochs), clock readings in any order, one of them late in a slot: ticks skip an epoch start, and go back |
| | checkpoint | what can break `getHead`? | anchor at the start of epoch 2, 2 more blocks, epochs 2-4 |
| | wire | do votes stay usable, and equivocators silent? | one validator, 2 more blocks in different epochs, every target the store allows, any order of attestation, failing attestation and slashing |
| `driver` | finality | is finality safe and is every handler's read available, with the real transition? | 3 validators, 4 more blocks in epochs 2 and 3, the clock at the starts of epochs 2, 3 and 4, votes of all validators in blocks |
| | faulty | the same with a validator that votes for both branches, and votes in blocks that name other heads and targets | 3 more blocks; balances 31, 32, 33, of which the first is faulty: it and the third are just two thirds, it and the second one unit less; stray votes name any of the blocks, those not yet seen included, or none |
| | votes | does the head follow a majority? | 3 more blocks in slots 1-2, votes of one and of two validators on the wire, a slashing of two, the boost, the clock in slots 2 and 3 |
| `progress` | finality | is an unrealized justification realized? | as there with 3 more blocks, and stray votes that name no block |
| `registry` | exits | do exits, slashings and ejections that compete for churn keep their epochs and its budget? | 4 validators, epochs 0-3, one exit takes two epochs of churn or more |
| | consolidations | is a balance moved before the sweep pays it, and no value made? | 4 validators, one of them joining, epochs 0-5, two queued consolidations |
| | deposits | is every deposit applied, postponed or dropped exactly once? | 2 validators and a third pubkey, queue of 2, one deposit larger than a budget, epochs 0-5 |
| | partials | can what was requested earlier take the minimum stake later? | 2 validators, gains and losses, payloads of 3, epochs 0-4 |
| | sweep | does the withdrawal cursor skip anybody? | 4 validators, payloads of 2, sweeps of 3, slots 0-6 in epochs of two |
| `server` | - | is every submission answered once, for its own case, whatever fails? | 3 cases, 2 crashes or garbled lines, 1 line of noise, 1 spawn that fails, 5 processes |
| `conformance` | xdist | does a session without an error leave a whole archive? | 3 workers, 3 members, one download that is cut off |
| | serial | does what is complete stay so? | 1 worker, 4 members, 3 more sessions, 2 failures, kills |
| | consensus, generic | is every group of cases sampled up to the cap, no case twice? | any part of 8 case directories on disk, caps 0-2 |
| | fulu, gloas | does a fork-choice vector pass only if all of it was run and matched? | up to 3 entries (2 for Gloas) of 15, every answer of every handler |
| | verdict | does a case pass exactly when the reference passes it? | a case of every format, with every optional field, slot counts on both sides of a byte |
| `scripts` | citations | are citations exact after a clean check, or a fix? | 2 declarations, 4 citations, 3 edits, up to 8 lines |
| | tiers | does a match mean a match? | 2 releases of 4 documents, 1 failed download, 2 moves |
| | faulty, moving | what does a benchmark report stand on, and name? | 2 faults and 2 repetitions; 2 runs, 2 edits and 1 fault |
| | all, full | do the harnesses' rows agree, and do the thousand writes write? | 4 implementations, 24 writes, 2 repetitions; 2 implementations with the code's 1000 writes |
| | release | do tags name releases, and does the mirror follow? | 2 maintainers, 4 commits, 1 death of the script |
| `generators` | - | do both sides compute the same positions and values? | 0-8 full and 0-56 partial rounds, those of the data files among them; six published or committed BLAKE2b vectors |

Four more runs each show a statement of a comment violated (section 5):
`server_stale_answer`, `archive_xdist`, `case_bug_passes`, `compbench_stale`.

What each run checks, by name:

| run | properties |
|---|---|
| `conformance` | `CleanSessionLeavesAll`, `CasesSampled`, `ScriptComplete`, `VerdictAsReference`, `CompleteForGood` |
| `archive_xdist` | `ReturnsWholeArchive` (violated) |
| `case_bug_passes` | `BugAlwaysFails` (violated) |
| `driver` | `OnlyStrayVotesStop`, `HeadKeepsFinality`, `HeadFollowsMajority`, `PostStateContract`, `FinalityKept` |
| `generators` | `RightConstants`, `ValuesReproduced` |
| `progress` | `EventuallyRealized` |
| `registry` | `WithdrawableAfterDelay`, `ExitChurnBounded`, `ValueConserved`, `QueuesInOrder`, `WithdrawalsKeepStake`, `ExitsAreFinal`, `PenaltyTakenOnce`, `SweepGoesOn` |
| `scripts` | `CitationsExact`, `TiersAsPinned`, `BenchmarkHonest`, `ReleasesNumbered`, `NothingUndone` |
| `compbench_stale` | `SizzLeanNamed` (violated) |
| `server` | `AnswersUnlessRaised`, `IdleServerClean`, `RetriesEarned`, `ServiceSpec`, `DroppedServersExit` |
| `server_stale_answer` | `AnswersOwnCase` (violated) |
| `store` | `TypeOK`, `CheckpointsOrdered`, `PulledUpTipsRealized`, `BoostIsCurrent`, `HeadFailureExplained`, `VotesBacked`, `BoostGoesToFirst`, `AbortedLeafStopsBlocks`, `EquivocatorsSilenced` |

Why the bounds are enough. Two blocks are the least for a fork, and three
epochs the least for a checkpoint to be unrealized, realized and superseded.
Justification starts after epoch 1 by rule, so `finality` spans epochs 2 to 4,
where two consecutive justified epochs finalize. Two clock units per slot
separate timely from late. In the registry scenarios an increment is 4 units and the
limits keep the order of the mainnet preset's: one exit is larger than a churn
budget, a consolidation churn above the minimum stake, a payload smaller than a
sweep (in `sweep`), a sweep smaller than the registry. Only the vector of slashings is short
(4 epochs), so that its wrap, and the penalty half-way, happen within a run.
Numbers are natural numbers there: no 64-bit fault is modelled. Three cases let
a late answer pass one case over; two faults exhaust the two attempts of one
submission. Three workers are one that writes, one that reads and one that comes
late. Three steps are the least for a step after one that was rejected. Three
edits can move a declaration, shorten it and end its file. Two maintainers, one
crash and four commits let a version be committed twice. The mutants show that
each bound lets its property fail: a wrong version of a definition, kept in the
module under "Fault:" or "A variant of", makes that property fail within the run.

What each property says is stated beside it in the module. Those that took
several components to hold: `OnlyStrayVotesStop` (no read of the head query misses
once a block's replays are done, a vote the state transition includes fork choice
accepts if its head and target are those of the block's own chain, and `onBlock` runs
to its end; the replay of any other vote may end the run, and the model lets it),
`HeadKeepsFinality`, `FinalityKept`;
in the registry, `WithdrawalsKeepStake` (requests, penalties, queue and sweep),
`QueuesInOrder` (churn order, epoch order and withdrawals), `ExitChurnBounded`
(a bound on every span of epochs, over exits from four sources) and
`ValueConserved`; `ServiceSpec` and `RetriesEarned` of the client; and
`ScriptComplete`, which ties three lists of keys in two languages together.

Properties of the scripts carry the condition they need. `CitationsExact` is
about citations on lines of their own: `--fix` rewrites the first text of the
line that reads like the old one, so that of two citations on one line the wrong
one can be hit. `TiersAsPinned` is about a ground truth that was built from the
pinned tag without a failed download; the file does not record either.
`BenchmarkHonest` on names is about runs that build and that nobody edits under:
`--skip-build` measures what is there. `NothingUndone` says that the mirror
never goes back, not that every push reaches it: the concurrency group keeps one
waiting run and drops the one before. `ReleasesNumbered` is about the numbers and
commits of tags; that a tag lies on main is what its maintainer has to see to, since
the script only prints the two pushes, and `PushTag` assumes it: the tag of a commit
that main rejected is not caught. What these conditions exclude is listed in
`PROJECT.json` under hazards with no property and a note.

The scenario `checkpoint` of `store` shows a sharp edge of the code. When the anchor is not
genesis, the dependent-root walk of a block in the anchor's epoch or the next
leaves the store, and `onBlock` raises after it inserted the block
(`ForkChoice.lean:663`). The block stays known, so it is never processed
again, and it has no unrealized justification; when its epoch is over, the
head query fails on it, and with the head query every `onBlock`
(`AbortedLeafStopsBlocks`). `HeadFailureExplained` shows that nothing else, but
for an uncached justified state, stops the query. From genesis neither happens
(`finality`).

Deadlock is checked in `store` only. Everywhere else the system may stop: a script
or a session ends, the blocks and clock readings of an instance are used up, a stray
vote ends the run of `fcInterpret`.

### Fairness

`FairDriverSpec` assumes strong fairness of `Tick` and weak fairness of
`ReplayAttestation`. The replay loop is a plain `for` and cannot pause. Ticks
are fed from outside, interleaved with blocks and attestations: a tick is
disabled while replays are pending and enabled again after, hence strong
fairness. `Tick` in the driver moves the clock forward only; the handler alone
(`OnTick`) accepts any reading.

`ServerClient` assumes weak fairness of the client and of each server process:
the client is one thread that only ever waits for a server, and a handler of
the request loop ends on every line, with exceptions turned into result lines
(`Server.lean`). Crashes, noise and failing spawns get no fairness and are
bounded; neither does `Submit`, since pytest may stop. No other module has a
liveness property.

## 4. Proofs

Every theorem holds for every value of the constants that meets the named
assumptions. A line of this table is a property of section 3, or what else a
listed theorem says.

| module | theorems |
|---|---|
| `FuluForkChoiceProofs`, of the store | `TypeOK`, `CheckpointsOrdered`, `PulledUpTipsRealized`, `BoostIsCurrent`, `BoostGoesToFirst`, `EquivocatorsSilenced`, `AbortedLeafStopsBlocks`, `VotesBacked`, `HeadFailureExplained`, `HeadFollowsMajority` |
| of the driver | `OnlyStrayVotesStop`, `PostStateContract`, `FinalityKept`, `HeadKeepsFinality`, the refinement of `FuluForkChoice`, and by it `HeadFollowsMajority` |
| `FuluRegistryProofs` | `ExitsAreFinal`, `ValueConserved`, `WithdrawalsKeepStake`, `ExitChurnBounded`, `WithdrawableAfterDelay`, `QueuesInOrder`, `PenaltyAhead`, `SweepSkipsNobody`, the arithmetic of `reserveChurn` |
| `ServerClientProofs` | typing, `AnswersUnlessRaised`, `IdleServerClean`, `RetriesEarned`, the safety half of `ServiceSpec` |
| `VectorArchiveProofs` | typing, and of any archive what the next line says of the two |
| `ConformanceProofs` | `CleanSessionLeavesAll`, `CompleteForGood`, `CasesSampled`, `ScriptComplete` |
| `ScriptsProofs` | `ReleasesNumbered`, the half of `NothingUndone` about the mirror, the part of `BenchmarkHonest` about the benchmark that is edited under its runs |
| `PoseidonParamsProofs` | typing, `RightConstants`, no read past the array |

### Induction

The provers cannot instantiate the library's induction theorems, whose parameter is
an operator. `InductionLemmas` works around it: a set stands for the
predicate, a function for the operator. It starts from the library's fact that
strict inclusion is well founded on finite sets and derives from it that
a set of natural numbers has a least element (`LeastNumber`), induction and
recursion along a natural-valued rank (`RankInduction`, `RecursionExists`), the
same over `0..n` (`BoundedRecursion`), and the laws of the community modules'
`SumFunctionOnSet` (`SumInsert`, `SumParts`, `SumFibres`). What a recursive
function of the models does is then proved as an invariant of its recursion.
`FlattenSeq` is taken in the same way: the items of lists put together are
those of the lists (`ItemsFlat`, `ItemsOfBoth`). Out of reach stay operators that
take an operator, such as `SelectSeq` with an arbitrary test.

### Fork choice

`CheckpointsOrdered` and `PulledUpTipsRealized` are not inductive. A tick over an
epoch start realizes the unrealized checkpoint, so what past blocks justify is
realized only if the unrealized checkpoint already is the newest of them all.
`CheckpointInv` adds exactly this, `UnrealizedIsNewest`: no block has an
unrealized justification above the store's. The step lemmas go handler by
handler; `RealizeCheckpoints` is the interesting one: `CheckpointsOrdered` then
needs the order of the post-state's four checkpoints, which `PostStates` gives.
`BoostIsCurrent` needs only typing. `AbortedLeafStopsBlocks` follows from the
guard `~HeadRaises` and the reads of the leaf.

The other three need to know what walks along parent links return.
`AnchoredTree` says that the blocks are a tree that grows from the anchor and that
slots increase along it; slots are the rank along which `Ancestor` is defined,
so that it satisfies its recursion equation (`AncestorUnfolds`) and, once a walk
has ended, no later block changes what it returns. `VotesBacked` follows: a vote
is checked when it arrives, and nothing it was checked against changes.

`HeadFailureExplained` adds `CheckpointBlocksStored`: the blocks of the store's
checkpoints, and of those in block states, are stored unless they are older than
the anchor. It assumes `UsableAnchor`: the anchor is the first block of its
epoch, and its state's checkpoints are no newer. Without the first a walk to the
start of the anchor's epoch leaves the store at once; the second is what the
state transition ensures. Genesis is usable, and so is the anchor of the
scenario `checkpoint`.

`HeadFollowsMajority` is proved along the walk of `getHead`. A block's score
counts the votes below it (`SupportsTransitive`), so of two children at most one
can support the favoured block, and its score is at least the majority's; every
other child has at most the remaining votes and the boost. At each step the
walk therefore enters the child on the right branch, or has passed the block
already, whatever the tie-break.

### Driver

`DriverSpec => Spec`: the driver is one of the callers `FuluForkChoice` allows, so
whatever is proved of any caller holds of it. A tick, a vote or a slashing maps
to the action of the same name, a block seen before to a stutter, and a new block
to `BlockStep` if its post-state is among the `PostStates`. That is
`PostStateContract`, and it needs to know what every stored beacon state looks
like.

`Sound(state, store, tip, cached)` says so: the block roots the state remembers
are what the walks from `tip` return, its three checkpoints are genesis or
checkpoints of that chain and in order, votes are counted only for an epoch whose
first block root is in the history, and the targets they voted for, like the
checkpoint they justified, are among `cached`. Each operator of `BeaconChain`
has a lemma that it keeps this (`ProcessSlotSound`, `AdvanceSound`,
`ProcessSlotsSound` by recursion over the slots, `NewTipSound`,
`ProcessAttestationSound`); `SameRuleSameResult` says that slots and blocks
within an epoch change nothing in what justification would decide but for the votes
they add.

`OnlyStrayVotesStop` then rests on one idea: what a block's state has justified was
voted for in blocks of its chain, and the driver replays every one of these
votes, which caches the state of its target. In between that is not so, and hence
the invariant speaks of `Cached`, the states cached already and those that the
replays still owed will cache. The justified checkpoint is always `Cached`
(`JustifiedStored`), every block has its unrealized justification recorded
(`AllRecorded`), and by `HeadFailureExplained` nothing else can stop the head
query. Of an included vote the invariant keeps only what `process_attestation`
checked (`VoteDue`, `InclusionsInTime`). One whose head and target are those of the
chain is `Votable` (`VotesForChainVotable`): they were read from a history that
agrees with the walks of the store, and so its replay is never turned away. A
stray vote may be; then the run ends with that replay still owed, about which
the property, like the code, promises nothing. A stray vote whose replay is accepted
changes messages and cached targets, and the proof covers that. That no walk to a
dependent root leaves the store follows from the anchor's slot, zero.

The theorems assume `GenesisAnchor`, and `OnlyStrayVotesStop` also `ShortEpochs`: two
epochs are no longer than the history of block roots (32 slots and 8192 roots, 8
and 64 in the minimal preset), without which a justified epoch could have left
the history. `MCFuluDriver` asserts both of its instances. From an anchor later
than genesis `OnlyStrayVotesStop` is false: walks to a dependent slot before the
anchor raise, which is what `OnBlockAborted` is for.

### Finality

`FinalityKept` and `HeadKeepsFinality` say nothing of votes, and yet only votes
make them true. The proof has three layers.

The voting rule stands alone, on a set of votes and a tree. A `Link` is a pair of
checkpoints that two thirds voted for; `Justified` is the least set with genesis
in it that is closed under links, stated as membership in all such sets, which
gives induction where the provers have none; `Finalized` is what has a link to
the next justified epoch, or to the next but one with a justified checkpoint
between them (`Bridged`). `FairVotes` is what the votes satisfy: each is for a
stored chain, from an earlier checkpoint of that chain, and no two that share a
validator that is not `Faulty` are slashable. Two majorities share a third of the
stake (`MajoritiesMeet`, by `SumParts`), the faulty hold less, so somebody in
both is not faulty: two links of one target epoch are the same and none
surrounds another (`LinksAgree`). `FinalitySafe` follows: a justified checkpoint no earlier
than a finalized one is on its chain, since its link cannot jump over the
finalizing one.

`VotedFor` ties beacon states to that rule: who a state counts for an epoch has
voted in a stored block for the link from the checkpoint it held justified to
the target on its chain, every justification bit stands for a justified
checkpoint of the chain, and its finalized checkpoint is `Finalized`. It is kept
by all of justification, with its four rules (`JustificationByVotes`), by slots
(`ProcessSlotsByVotes`) and by blocks, which add their votes to the set
(`ProcessBlockByVotes`).

`VoteInv` lifts it to the store: the votes of all stored bodies that are for a stored
chain are fair (`CountedVotes`: a stray vote sets no target flag, so no state counts
it; one whose chain is stored later counts from then on), every
state is `VotedFor`, and the four checkpoints of the store, from whichever
branches they came, are justified or finalized by these votes. Finalized epochs
only grow (`FinalizedGrows`), hence `FinalityIsFinal`. For `HeadStaysFinal` the
justified block is on the finalized chain, and so is the leaf below the head,
which was filtered for it; no block between the two can be off it
(`BetweenOnChain`).

That votes of others than the faulty are not slashable with each other is the
model's environment (`Honest`, `FaultyAssumption`), about the votes in blocks; wire
votes move heads and never checkpoints. A set of two thirds is taken of all validators, active throughout
with constant balances, as in `BeaconChain`: the theorems do not cover a registry
that changes between the two majorities.

### Registry

`ExitsAreFinal` needs only the shape of the registry (`Shape`, a sequence of
records with an exit epoch). `Keeps(s, t)` says that no validator disappears and
no scheduled exit changes from `s` to `t`; it is transitive, every operator of
the epoch has a lemma that it keeps, and so the whole epoch does.
`ReserveChurnFits` is the arithmetic of `reserveChurn` for all natural numbers:
the budget returned covers the balance, grows by one epoch's churn per epoch
moved on, and less than one epoch's churn is left over when it moved on.

All the rest stands on `RegistryInv`: the state is `Sound` (typed, every index
in a queue that of a validator or of the next one to join, effective balances
whole increments under their maximum), `supply` is what it is worth, and a
deposit budget is left over only for a head it does not cover. Each operator of
the code has a lemma that says which fields it may change, that the result is
sound, and by how much its worth differs. For the loops that is an
invariant of their recursion: `ScanStates` for deposits, `SameSum` for
consolidations, `CoveredPayments` for withdrawals. A list of payments is covered
if for each validator *all of them together* leave it its floor, zero for
one that is withdrawable and the minimum stake for others. The scan of the
queue keeps this although an entry reads the balance less what earlier entries
take, and so does the sweep on top of it, hence `WithdrawalsKeepStake`.

The second half first states what a step may do to exits and to the two queues
(`StepRules`: an exit is scheduled at most at the epoch the churn has reached,
entries are appended at or after it and taken from the front), and proves it
action by action (`NextRules`). The invariants use the rules alone.
Partial withdrawals are due no later than the earliest exit epoch and the
delay, which never decreases, so the queue is sorted. The sources of
consolidations leave in the order of the queue (`LeaveInOrder`), so when the head
waits all do; a consolidation that does not wait was done at the epoch boundary
before the sweep can see its source, hence `ConsolidationsBeatSweep`.

These and `PenaltyStaysAhead` are stated for states with `EpochsInRange`: the
earliest exit and consolidation epochs are below `FarFutureEpoch`. The models'
numbers are unbounded, so churn could push an epoch up to the very number that
stands for "no exit", and a validator that leaves would look like one that
does not. In the code that number is 2^64 - 1; no run of it comes near. The
hypothesis is about the state itself, no bound on its length, and holds in every
state of the runs. `ExitChurnBounded`, `ValueConserved`,
`WithdrawalsKeepStake` and `ExitsAreFinal` do without.

`ExitChurnBounded` is not inductive: it speaks of what has been let out, and the
next exit is let out against a budget. `LogBounded` adds the budget: what left
after any entry of the log, and what is left of the current budget, fit the churn
limits from that entry's epoch to the earliest one. A reservation takes from the
budget what it adds to the log, moving on an epoch adds one limit to both sides,
and a limit never exceeds `MaxPerEpochActivationExitChurnLimit`. The ejections of
an epoch are a chain of reservations and entries in the order of the registry.

`SweepSkipsNobody` is about one payload. `SweptTo` is the invariant of the sweep's
recursion: the validators visited so far have nothing left, or the payload is full
and this holds up to the one it was full with. A payment appended later goes to
another validator or leaves less, so what is settled stays settled
(`NothingMoreLeft`). `CursorAdvances` and `AtSteps` relate the position the
cursor jumps to with the number of validators visited, around the end of the
registry.

### Client and server

The invariant follows a request through the pipes of the held server (`Pipes`):
before the write the server owes nothing; after it, the one thing it owes is the
answer to the case in flight, and that is in exactly one of the three places it
can be, unread, being served, or a line on stdout. It holds as long as no
submission raised, because every other way out of a failure replaces the server.
What an abandoned process does is of no consequence, since what it prints goes
to a pipe nobody holds. Once a submission has raised, `CaseService` allows late
answers and nothing more.

`RetriesEarned` needs two more parts (`RInv`). `HitsEarned` relates the failures
met to the iteration of the loop: the second attempt is made only after one. For
the bound on how often a case is run, an abandoned process that still has the
request in its pipe counts too: how often a case was taken up, and the
processes that may yet take it up (`Holders`), are together no more than the
times it was written (`Written`), which is at most the attempts. `InOrder` says
that no pipe holds a case twice.

### Cache

In the first session (`FirstSession`), until a worker fails, a truncated tarball
has a writer with all earlier members behind him, and a member that is not
extracted has a worker ahead of whom it lies; so when all have returned nothing
is missing. `CompleteForGood` assumes one worker, which is what it is about (two
workers break it: section 5). Both assume a release with at least one member
(`Sizes`). `ConformanceProofs` instantiates the module twice, for any number of
workers at once (`AtOnce`) and for one worker over any number of sessions
(`InTurn`), and carries the theorems over.

### Walk

`CasesSampled` looks at one group of cases and one position in the tree.
`WalkCounts` says of every group at every position: the counter is what the cap
leaves of the different cases met so far (`Capped`, `MetOfGroup`), as many cases of
the group were yielded, and each of these was met. A directory whose case was met
before leaves the set of cases met as it is (`NothingMoreMet`), another adds one
to its group alone (`OneMoreMet`), which a full group does not yield.

### Fork-choice vectors

A vector passes by an answer of the server, but what passed must be what
`steps.yaml` asked for, and between the two lie three lists of keys, in
`harness.py`, in the server's token loop and in the interpreter. The proof
compares them one by one. The `elif` chain of the encoder has one test for
each known key and one for a head's payload status, and each writes a token that
stands for that key and no other (`ChainIs`, `TestOk`, `TokenOf`). So the lines of
an entry are known (`EntrySet`), those of a script are those of its entries
(`ScriptLines`, by the lemmas on `FlattenSeq`), the server reads every one of
them back as the step it came from (`LineIsOk`), and what is asked for and what
is written are the same (`WrittenAsked`, `SupportedAsked`). The invariant does the
rest: the steps are the lines, the answers those of the steps before `at`, each
one the reference goes on after, and the interpreter stops at the end or where it
throws. A pass is at the end, hence everything was run (`PassRunsAll`); an
`xfail` points at the step that threw, and such a step is one of those that are
not modelled (`XfailCaused`).

### Releases

Commits form a tree, and the mirror a second history cut out of it. `Commits`
says that each commit but the first has an earlier parent and its version or the
next. The commits behind a commit form a chain, so of two of them one is behind
the other, and the newest of them to touch the package, the `Tip`, is what the
mirror makes of the commit; of commits one behind the other so are the tips.
The invariant then ties three places together. In a clone (`CloneOk`), what
the script is about to do next depends on the version of the head it began at: a
commit that raises it by one, then a tag that names it, and a script that dies
takes this promise with it but leaves a commit that is just as good. In the
published repository (`OriginOk`), a tag names a commit that introduced its
version and lies on main. In the mirror (`MirrorOk`), its main is behind the tip
of the published main and of every run still to come, and the run that goes is
for a commit behind that of the run that waits. Hence `MirrorNeverBack`: a
dropped run was for an older commit than the one that took its place.

### Benchmark

`BenchInv` says what the driver may rely on at each of its places in a run that
builds and that nobody edits under (`Measured`): its pins are those on disk, from
the build on the SizzLean binary is that of the tree, from the next on libssz that
of the pin, then the venv that of its pin, and after each harness ran the revision
it ran was that. An edit marks the run and releases it of all this; a run with
`--skip-build` never had it. A draft therefore names what was measured, of
SizzLean exactly when tree and commit agree, and a report is a draft. Rows are
rendered only when they agree (`CheckedRows`); that what a harness prints are rows,
with whatever it misprints, is proved of `FlattenSeq` and the rest
(`PrintedRows`, `MisprintedRows`).

### Poseidon parameters

The invariant says that all entries written so far stand where the permutation
will look for them (`Placed`) and that the next one will (`NextIsRead`);
`IndexAtOrder` (positions increase) and `IndexAtStep` (without a gap) are the two
facts about the index arithmetic behind it. That the number of full rounds is
even is not assumed: the generator's own assertion refuses the rest.

### Assumptions, and what is only model-checked

The assumptions are those the modules name. Fork choice: roots are not zero, an
epoch has at least two slots, a set of no votes is not a two-thirds majority, the
clock can hold the anchor's slot, the anchor's state is a block state; for the
driver also that it starts at genesis (`GenesisAnchor`, `ShortEpochs`). Registry:
limits are natural numbers and divisors positive, minimum and maximum balances
are whole increments in this order, a churn limit is at least one increment, and
at genesis there is a validator, nobody has left, and effective balances
are whole increments under their maximum. The faulty validators hold less than a
third of the stake (`FaultyAssumption`), which is what two-thirds majorities are
for. Archives have members and sessions workers (`CacheAssumption`), the
directories of a suite differ (`TreesAssumption`), the subkeys of a check have
names and a check of one scalar has none (`ScriptAssumption`), and crashes and
repetitions are natural numbers (`ReleaseAssumption`, `BenchAssumption`). TLC
evaluates all of them.

Only model-checked:
- liveness (`EventuallyRealized`, `DroppedServersExit`, the live half of
  `ServiceSpec`): `ENABLED` is out of the provers' reach;
- `SweepGoesOn` and `PenaltyTakenOnce` as they stand; `SweepSkipsNobody` and
  `PenaltyAhead` are what the proofs show of them;
- `VerdictAsReference`: slot counts are read, and files chosen, by `FoldLeft` and
  `SelectSeq` with operators as arguments;
- `CitationsExact`, with `FixKeepsAccurate`, and `TiersAsPinned`: the same over the
  citations of a file and the documents of a release;
- of `BenchmarkHonest`, that the tables are full (`SelectSeq` with a test) and the
  harnesses' rows, which are about the sizes the code has;
- what `Blake2f` computes, a computation on given words.

## 5. Where code and comments part

| run | what the run shows |
|---|---|
| `server_stale_answer` | after an undecodable line and a `Popen` that raises in the except clause, the desynced server stays, and the next submission reads the earlier case's answer; `harness.py:6-7` promises one result line per request |
| `archive_xdist` | a worker that finds `tests/` while another is still extracting returns part of the archive; `harness.py:78-79` calls the download idempotent and its result the extracted root |
| `case_bug_passes` | `render` tags a flagged result `bug!`, which `test_case` does not compare equal to `bug`; `test_pyspec.py:8-9` says that a bug is always a hard failure |
| `compbench_stale` | the SizzLean revision is read when the report is rendered; after a commit under the run, or with `--skip-build`, a clean report names a revision that was not measured, which `comparative_benchmark.py:498-499` calls worse than naming none |

## 6. Not modelled

- Data availability, signatures, committees: a block or vote that fails on them
  before any write is not delivered. A stray vote whose target state shuffles another
  committee may be rejected on replay for that alone; in the model it is replayed, or
  rejected for its head and target only.
- `getProposerHead` (no handler calls it), the replay of attester slashings in
  blocks.
- 64-bit faults of the time helpers: numbers are unbounded.
- The registry's 64-bit sums, pubkey lookup, and the lists parallel to the
  validators other than balances.
- Gloas and Heze fork choice: stores and handlers of their own, each the size of
  Fulu's; only the wire format of their vectors is in `FcScript`.
- SizzLean's cached tree: its equality with the plain value is proved in Lean.
- Of the Python programs: regular expressions and the spelling of names, timings,
  the prose of reports, the shape table of `ssz_generic`, the SSZ codec inside
  `ssz_specs_harness.py` (a root is the value it commits to), and the
  straight-line vector generators of SHA-256 and BN254.
- An override of the configuration that the fork cannot apply (`Server.lean:270-272`,
  `Interface.lean:90-99`), which only makes a case fail, and all but three of the
  `*_FORK_EPOCH` keys: `CaseVerdict` has neither.
- Two citations on one line in the run of `Citations`, a stale or incomplete ground
  truth in the property of `ConstantTiers`, tags pushed before their commit in `Release`
  (section 3).
- Codecs and cryptographic primitives other than those above: pure data.

## 7. Plan

1. *(done)* `FuluForkChoice`, `BeaconChain`, `FuluDriver`.
2. *(done)* `FuluRegistry`.
3. *(done)* `ServerClient` with `CaseService`; the cache, the walk, the two ends
   of the wire and the verdicts; the scripts and generators.
4. *(done)* Accountable safety: `FinalityKept` and `HeadKeepsFinality`.
5. `GloasForkChoice`, then `HezeForkChoice`; refinement of `FuluForkChoice` when
   every payload arrives in time.
6. `SszCache`: the tree with its overlay implements a plain value.
7. `getProposerHead`, and slashed validators in fork choice.
