----------------------------- MODULE FuluDriver -----------------------------
(***************************************************************************)
(* The fork-choice store driven as fcInterpret drives it: ticks, blocks    *)
(* run through the real state transition, the replay of every attestation  *)
(* of an accepted block, and attestations and slashings from the wire.     *)
(*                                                                         *)
(* The driver is sequential, so nothing comes between a block and the      *)
(* replays it owes (pending).  A replay that rejects, or an on_block that  *)
(* raises after writing, ends the run: there is then no next step.  The    *)
(* state transition takes votes that fork choice turns away, so this       *)
(* happens: such a vote stays pending for good (Stopped).                  *)
(*                                                                         *)
(* Environment: a block includes at most one attestation, and no validator *)
(* outside Faulty casts votes that are slashable with each other           *)
(* (isSlashableAttestationData).                                           *)
(***************************************************************************)
EXTENDS FuluForkChoice

CONSTANTS
  AnchorBeaconState,  \* the full state AnchorState summarizes
  InclusionDelay,     \* bound: a block includes votes at most this old
  StrayRoots,         \* bound: the roots off its own chain they may name
  Faulty              \* validators that cast slashable votes too

VARIABLES
  beaconStates,  \* root -> full post-state
  bodies,        \* root -> attestations of the block
  pending        \* attestations of the last block still to be replayed

driverVars == <<beaconStates, bodies, pending>>
allVars == <<vars, driverVars>>

\* What fork choice reads of a state, and of its pulled-up copy.
Summary(state) ==
  LET pulledUp == ProcessJustificationAndFinalization(state)
  IN [justified |-> state.currentJustified,
      finalized |-> state.finalized,
      pulledUpJustified |-> pulledUp.currentJustified,
      pulledUpFinalized |-> pulledUp.finalized]

ASSUME AnchorSummaryAssumption == AnchorState = Summary(AnchorBeaconState)

\* Their stake is below a third of all: what a protocol of two-thirds majorities
\* is designed for.
ASSUME FaultyAssumption ==
  /\ Faulty \subseteq Validator
  /\ 3 * SumFunctionOnSet(EffectiveBalance, Faulty) < TotalBalance(Validator)

ASSUME StrayAssumption == StrayRoots \subseteq RootOrNone

---------------------------------------------------------------------------
(* Votes. *)

IsSlashableAttestationData(a, b) ==
  LET data(x) == <<x.slot, x.root, x.source, x.target>>
  IN \/ data(a) # data(b) /\ a.target.epoch = b.target.epoch
     \/ a.source.epoch < b.source.epoch /\ b.target.epoch < a.target.epoch

CastVotes == UNION {Range(bodies[r]) : r \in DOMAIN bodies}

Honest(att) ==
  \A other \in CastVotes :
    (att.attesters \cap other.attesters) \ Faulty # {} =>
      /\ ~IsSlashableAttestationData(att, other)
      /\ ~IsSlashableAttestationData(other, att)

\* Votes of a slot: process_attestation requires this source, and takes any
\* head and any target root; one of the state's own chain only earns flags.
VotesOfSlot(state, slot) ==
  {[slot |-> slot,
    root |-> root,
    source |-> IF EpochOf(slot) = EpochOf(state.slot)
               THEN state.currentJustified ELSE state.previousJustified,
    target |-> [epoch |-> EpochOf(slot), root |-> targetRoot],
    attesters |-> attesters] :
     root \in {state.blockRoots[slot]} \cup StrayRoots,
     targetRoot \in {BlockRoot(state, EpochOf(slot))} \cup StrayRoots,
     attesters \in BodyAttesters}

\* The attestations a block on top of state (already at the block's slot) may
\* include.
Inclusions(state) ==
  LET slots == {s \in DOMAIN state.blockRoots : s + InclusionDelay >= state.slot}
  IN {att \in UNION {VotesOfSlot(state, s) : s \in slots} :
        IncludableAttestation(state, att) /\ Honest(att)}

Bodies(state) == {<<>>} \cup {<<att>> : att \in Inclusions(state)}

---------------------------------------------------------------------------
(* Steps. *)

Tick ==
  /\ pending = <<>>
  /\ \E t \in TickTimes : t > time /\ OnTick(t)
  /\ UNCHANGED driverVars

DeliverBlock(root, parent, slot) ==
  LET block == [parent |-> parent, slot |-> slot]
      advanced == ProcessSlots(beaconStates[parent], slot)
  IN /\ pending = <<>>
     /\ BlockAdmissible(root, block)
     /\ \E body \in Bodies(advanced) :
          LET state == ProcessBlock(advanced, root, body)
          IN /\ OnBlock(root, block, Summary(state))
             /\ beaconStates' = Put(beaconStates, root, state)
             /\ bodies' = Put(bodies, root, body)
             /\ pending' = body

\* on_block returns early, and the driver replays the attestations again.
DeliverKnownBlock(root) ==
  /\ pending = <<>>
  /\ pending' = bodies[root]
  /\ UNCHANGED <<vars, beaconStates, bodies>>

ReplayAttestation ==
  /\ pending # <<>>
  /\ OnAttestation(Head(pending), TRUE)
  /\ pending' = Tail(pending)
  /\ UNCHANGED <<beaconStates, bodies>>

\* The replay rejects: the driver gives up.
Stopped == pending # <<>> /\ ~ValidAttestation(Head(pending), TRUE)

WireAttestation ==
  /\ pending = <<>>
  /\ \E slot \in Slot, root \in DOMAIN blocks, attesters \in WireAttesters :
       LET att == AttestationOf(slot, root, attesters)
       IN OnAttestation(att, FALSE) \/ OnAttestationAborted(att, FALSE)
  /\ UNCHANGED driverVars

WireSlashing ==
  /\ pending = <<>>
  /\ \E slashable \in WireSlashings : OnAttesterSlashing(slashable)
  /\ UNCHANGED driverVars

DriverInit ==
  /\ Init
  /\ beaconStates = Put(<<>>, AnchorRoot, AnchorBeaconState)
  /\ bodies = Put(<<>>, AnchorRoot, <<>>)
  /\ pending = <<>>

DriverNext ==
  \/ Tick
  \/ \E root \in FreshRoots, parent \in DOMAIN blocks, slot \in BlockSlots :
       DeliverBlock(root, parent, slot)
  \/ \E root \in DOMAIN bodies : DeliverKnownBlock(root)
  \/ ReplayAttestation
  \/ WireAttestation
  \/ WireSlashing

DriverSpec == DriverInit /\ [][DriverNext]_allVars

\* A replay that is not turned away is made, and the clock is fed to the store
\* again and again: a step list, or a node, that delivers blocks without end
\* still has its ticks among them, so a tick enabled again and again is taken.
FairDriverSpec == DriverSpec /\ SF_allVars(Tick) /\ WF_allVars(ReplayAttestation)

---------------------------------------------------------------------------
(* Properties; FinalityExtends is of a step. *)

\* Once the replays a block owes are done, get_head answers: the state of the
\* justified checkpoint is cached, and every read of the walk finds its key,
\* so the next on_block cannot be turned away by its head query.
HeadAvailable == pending = <<>> => ~HeadRaises

\* A vote for the head and the target that the chain of state has at its slot:
\* what process_attestation calls matching.  Any other is a stray vote.
VotesForChain(state, att) ==
  /\ att.root = state.blockRoots[att.slot]
  /\ att.target = TargetOf(state, EpochOf(att.slot))

\* The replay of a vote for the chain of the block that includes it is never
\* turned away: what ends the run is a stray vote, which process_attestation
\* takes and on_attestation need not.
ReplayAccepted ==
  \A r \in DOMAIN bodies : \A att \in Range(bodies[r]) :
    VotesForChain(beaconStates[r], att) => ValidAttestation(att, TRUE)

\* on_block never stops after its first write: for every block it lets in the
\* shuffling dependent roots are within the store, and the pull-up reads no
\* block root that is not yet in the history.
BlocksRunToTheEnd ==
  /\ pending = <<>> =>
       \A root \in FreshRoots, parent \in DOMAIN blocks, slot \in BlockSlots :
         LET block == [parent |-> parent, slot |-> slot]
         IN BlockAdmissible(root, block) => DependentRootsKnown(GetHead, root, block)
  /\ \A r \in DOMAIN beaconStates : ~JustificationRejects(beaconStates[r])

\* Only a stray vote makes the run of fcInterpret stop half-way through a block it
\* accepted: once its replays are done get_head answers, a vote for the block's own
\* chain is never turned away, and on_block never raises after its first write.
OnlyStrayVotesStop == HeadAvailable /\ ReplayAccepted /\ BlocksRunToTheEnd

\* The state transition keeps what fork choice relies on.
PostStateContract ==
  [][\A root \in DOMAIN blocks' \ DOMAIN blocks :
       blockStates'[root] \in PostStates(root, blocks'[root])]_allVars

\* The head never leaves the finalized chain: justified and finalized are
\* chosen apart, possibly from different branches, and yet the head, found
\* below the justified block, has the finalized one among its ancestors.
HeadKeepsFinality ==
  ~HeadRaises =>
    CheckpointBlock(blocks, GetHead, finalizedCheckpoint.epoch)
      = finalizedCheckpoint.root

\* A newly finalized block descends from the one finalized before.
FinalityExtends ==
  CheckpointBlock(blocks', finalizedCheckpoint'.root, finalizedCheckpoint.epoch)
    = finalizedCheckpoint.root

\* Finality is final: no step finalizes a block off the finalized chain.
FinalityKept == [][FinalityExtends]_allVars

\* An unrealized justification is realized by the end of its epoch, unless a
\* stray vote ends the run before.
EventuallyRealized ==
  \A e \in 1..(EpochOf(SlotAt(MaxTime)) - 1) :
    unrealizedJustifiedCheckpoint.epoch = e
      ~> justifiedCheckpoint.epoch >= e \/ Stopped

---------------------------------------------------------------------------
(* Hypotheses of the theorems about this module. *)

\* The state of the genesis block.
GenesisState ==
  LET genesis == [epoch |-> 0, root |-> NoRoot]
  IN [slot |-> 0, blockRoots |-> <<>>, latestRoot |-> AnchorRoot,
      justificationBits |-> {}, previousJustified |-> genesis,
      currentJustified |-> genesis, finalized |-> genesis,
      previousParticipation |-> {}, currentParticipation |-> {}]

\* The store starts at genesis: no walk leaves it.
GenesisAnchor == AnchorSlot = 0 /\ AnchorBeaconState = GenesisState

\* A state remembers the block roots of its own and the previous epoch; in the
\* presets SLOTS_PER_HISTORICAL_ROOT is 64 and 8192, epochs have 8 and 32 slots.
ShortEpochs ==
  /\ SlotsPerHistoricalRoot \in Nat
  /\ 2 * SlotsPerEpoch <= SlotsPerHistoricalRoot

=============================================================================
