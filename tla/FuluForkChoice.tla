--------------------------- MODULE FuluForkChoice ---------------------------
(***************************************************************************)
(* The Fulu fork-choice store and its handlers: on_tick, on_block,         *)
(* on_attestation, on_attester_slashing, and the get_head query that       *)
(* on_block makes.                                                         *)
(*                                                                         *)
(* Each handler is one action.  A handler that rejects leaves the store as *)
(* it was, unless it had already written to it: those partial writes are   *)
(* actions of their own (the code commits at every statement boundary and  *)
(* the caller continues from the error-time store).                        *)
(*                                                                         *)
(* The state transition appears here only through what it promises about a *)
(* post-state (PostStates below); FuluDriver runs the real one and shows   *)
(* that it keeps the promise.  Simplifications:                            *)
(*   - a block state is its four checkpoints;                              *)
(*   - a checkpoint state is only its presence: its registry is constant;  *)
(*   - genesis_time is 0 and the clock counts units of SlotDuration;       *)
(*   - a block whose data is unavailable, or an attestation or slashing    *)
(*     that fails before any write, is not delivered.                      *)
(*                                                                         *)
(* A definition marked "Fault:" is not part of the model: it is a wrong    *)
(* version of the one after it, kept to show that a property notices.      *)
(***************************************************************************)
EXTENDS BeaconChain

CONSTANTS
  SlotDuration,        \* SLOT_DURATION_MS, in clock units
  AttestationDue,      \* the attestation deadline within a slot, likewise
  ProposerScoreBoost,  \* PROPOSER_SCORE_BOOST, a percentage
  AnchorRoot,          \* root of the anchor block
  AnchorSlot,          \* its slot
  AnchorState,         \* its post-state, as the checkpoints below
  MaxTime,             \* bound: the clock never passes it
  TickTimes,           \* bound: the readings on_tick is called with
  BlockSlots,          \* bound: the slots blocks are proposed in
  RootsInOrder,        \* bound: blocks get their roots in order of arrival
  WireAttesters,       \* bound: the attester sets of attestations on the wire
  BodyAttesters,       \* bound: those of attestations in blocks
  WireSlashings        \* bound: the index sets slashings prove equivocating

ASSUME SlotDurationAssumption == SlotDuration \in Nat \ {0}
ASSUME MaxTimeAssumption == MaxTime \in Nat
ASSUME BoostAssumption == ProposerScoreBoost \in Nat
ASSUME AnchorAssumption ==
  /\ AnchorRoot \in Root
  /\ AnchorSlot \in Nat
  /\ AnchorSlot * SlotDuration <= MaxTime

SlotAt(t) == t \div SlotDuration
Slot == 0..SlotAt(MaxTime)

\* The checkpoints of a block's post-state, and those it has after
\* process_justification_and_finalization ran on it (its pulled-up tip).
BlockState == [justified : Checkpoint, finalized : Checkpoint,
               pulledUpJustified : Checkpoint, pulledUpFinalized : Checkpoint]
Block == [parent : RootOrNone, slot : Slot]
LatestMessage == [epoch : Nat, root : Root]

ASSUME BoundsAssumption ==
  /\ TickTimes \subseteq 0..MaxTime
  /\ BlockSlots \subseteq Slot
  /\ RootsInOrder \in BOOLEAN
  /\ WireAttesters \cup BodyAttesters \subseteq (SUBSET Validator) \ {{}}
  /\ WireSlashings \subseteq SUBSET Validator

ASSUME AnchorStateAssumption == AnchorState \in BlockState

VARIABLES
  time,                           \* time_ms
  justifiedCheckpoint,
  finalizedCheckpoint,
  unrealizedJustifiedCheckpoint,
  unrealizedFinalizedCheckpoint,
  proposerBoostRoot,
  equivocatingIndices,
  blocks,                         \* root -> block
  blockStates,                    \* root -> post-state
  blockTimeliness,                \* root -> BOOLEAN
  checkpointStates,               \* the checkpoints whose state is cached
  latestMessages,                 \* validator -> latest message
  unrealizedJustifications        \* root -> checkpoint

checkpointVars == <<justifiedCheckpoint, finalizedCheckpoint>>
unrealizedVars == <<unrealizedJustifiedCheckpoint, unrealizedFinalizedCheckpoint,
                    unrealizedJustifications>>
blockVars == <<blocks, blockStates, blockTimeliness>>
voteVars == <<equivocatingIndices, checkpointStates, latestMessages>>
vars == <<time, checkpointVars, unrealizedVars, proposerBoostRoot, blockVars,
          voteVars>>

---------------------------------------------------------------------------
(* Time and chain walks. *)

CurrentSlot == SlotAt(time)
CurrentEpoch == EpochOf(CurrentSlot)

\* get_ancestor: from root down parent links to the first block at or below
\* slot.  NoRoot when the walk leaves the store, where the code raises.
Ancestor(store, root, slot) ==
  LET walk[r \in RootOrNone] ==
        IF r \notin DOMAIN store THEN NoRoot
        ELSE IF store[r].slot > slot THEN walk[store[r].parent]
        ELSE r
  IN walk[root]

CheckpointBlock(store, root, epoch) == Ancestor(store, root, StartSlot(epoch))

\* is_ancestor(store, root, node)
Supports(root, node) == Ancestor(blocks, root, blocks[node].slot) = node

\* get_shuffling_dependent_root: the block at the last slot before the epoch
\* preceding epoch, floored at slot 0.
DependentRoot(store, root, epoch) ==
  LET lookahead == StartSlot(Previous(epoch))
  IN Ancestor(store, root, IF lookahead = 0 THEN 0 ELSE lookahead - 1)

---------------------------------------------------------------------------
(* Weights and head. *)

\* Fault: the votes of equivocators count.
AttestationScoreOfAll(node) ==
  SumFunctionOnSet(EffectiveBalance,
    {v \in DOMAIN latestMessages : Supports(latestMessages[v].root, node)})

AttestationScore(node) ==
  SumFunctionOnSet(EffectiveBalance,
    {v \in DOMAIN latestMessages \ equivocatingIndices :
       Supports(latestMessages[v].root, node)})

ProposerScore ==
  ((TotalBalance(Validator) \div SlotsPerEpoch) * ProposerScoreBoost) \div 100

Weight(node) ==
  IF proposerBoostRoot # NoRoot /\ Supports(proposerBoostRoot, node)
  THEN AttestationScore(node) + ProposerScore
  ELSE AttestationScore(node)

Missing == [epoch |-> -1, root |-> NoRoot]

UnrealizedJustification(root) ==
  IF root \in DOMAIN unrealizedJustifications
  THEN unrealizedJustifications[root] ELSE Missing

\* Fault: the block's own epoch counts as past.
VotingSourceTooEarly(root) ==
  IF CurrentEpoch >= EpochOf(blocks[root].slot)
  THEN UnrealizedJustification(root)
  ELSE blockStates[root].justified

\* Fault: falls back on the block state when nothing was recorded.
VotingSourceWithDefault(root) ==
  IF /\ CurrentEpoch > EpochOf(blocks[root].slot)
     /\ root \in DOMAIN unrealizedJustifications
  THEN unrealizedJustifications[root]
  ELSE blockStates[root].justified

\* get_voting_source; Missing where the code raises
VotingSource(root) ==
  IF CurrentEpoch > EpochOf(blocks[root].slot)
  THEN UnrealizedJustification(root)
  ELSE blockStates[root].justified

Children(root) == {r \in DOMAIN blocks : blocks[r].parent = root}
Leaves(root) == {r \in DOMAIN blocks : Children(r) = {} /\ Supports(r, root)}

ViableLeaf(leaf) ==
  /\ \/ justifiedCheckpoint.epoch = 0
     \/ VotingSource(leaf).epoch = justifiedCheckpoint.epoch
     \/ VotingSource(leaf).epoch + 2 >= CurrentEpoch
  /\ \/ finalizedCheckpoint.epoch = 0
     \/ finalizedCheckpoint.root
          = CheckpointBlock(blocks, leaf, finalizedCheckpoint.epoch)

\* get_filtered_node_tree: the ancestors, down to the justified root, of the
\* viable leaves.
FilteredNodeTree ==
  LET viable == {l \in Leaves(justifiedCheckpoint.root) : ViableLeaf(l)}
  IN {n \in DOMAIN blocks : /\ Supports(n, justifiedCheckpoint.root)
                            /\ \E l \in viable : Supports(l, n)}

\* The reads of get_head that can raise.
FilterRaises ==
  \/ justifiedCheckpoint.root \notin DOMAIN blocks
  \/ \E l \in Leaves(justifiedCheckpoint.root) :
       \/ VotingSource(l) = Missing
       \/ CheckpointBlock(blocks, l, finalizedCheckpoint.epoch) = NoRoot

HeadRaises ==
  \/ FilterRaises
  \/ /\ justifiedCheckpoint \notin checkpointStates
     /\ Children(justifiedCheckpoint.root) \cap FilteredNodeTree # {}

Heaviest(nodes) ==
  CHOOSE a \in nodes : \A b \in nodes \ {a} :
    \/ Weight(a) > Weight(b)
    \/ Weight(a) = Weight(b) /\ a > b

\* get_head, where it does not raise
GetHead ==
  LET tree == FilteredNodeTree
      walk[r \in DOMAIN blocks] ==
        LET children == Children(r) \cap tree
        IN IF children = {} THEN r ELSE walk[Heaviest(children)]
  IN walk[justifiedCheckpoint.root]

---------------------------------------------------------------------------
(* Checkpoint updates. *)

\* update_checkpoints and update_unrealized_checkpoints replace a checkpoint
\* only by one of a later epoch.
\* Fault: an equal epoch replaces too.
LaterOrEqual(held, seen) == IF seen.epoch >= held.epoch THEN seen ELSE held

Later(held, seen) == IF seen.epoch > held.epoch THEN seen ELSE held

---------------------------------------------------------------------------
(* on_tick.  The catch-up loop runs on_tick_per_slot at every slot start it *)
(* passes.  The boost reset and the pull-up are idempotent, so what counts  *)
(* is whether a new slot, and a new epoch, began on the way.  Nothing stops *)
(* a tick from moving the clock back.                                       *)

\* Fault: only the slot the clock lands on is looked at, not those it skips.
LandsOnEpochStart(t) ==
  SlotAt(t) > CurrentSlot /\ SlotAt(t) % SlotsPerEpoch = 0

\* Fault: no epoch ever starts.
NeverPullsUp(t) == FALSE

PassesEpochStart(t) == EpochOf(SlotAt(t)) > CurrentEpoch

OnTick(t) ==
  /\ time' = t
  /\ proposerBoostRoot' =
       IF SlotAt(t) > CurrentSlot THEN NoRoot ELSE proposerBoostRoot
  /\ IF PassesEpochStart(t)
     THEN /\ justifiedCheckpoint' =
               Later(justifiedCheckpoint, unrealizedJustifiedCheckpoint)
          /\ finalizedCheckpoint' =
               Later(finalizedCheckpoint, unrealizedFinalizedCheckpoint)
     ELSE UNCHANGED checkpointVars
  /\ UNCHANGED <<unrealizedVars, blockVars, voteVars>>

---------------------------------------------------------------------------
(* on_block *)

BlockAdmissible(root, block) ==
  /\ root \notin DOMAIN blocks
  /\ block.parent \in DOMAIN blockStates
  /\ CurrentSlot >= block.slot
  /\ block.slot > StartSlot(finalizedCheckpoint.epoch)
  /\ finalizedCheckpoint.root =
       CheckpointBlock(blocks, block.parent, finalizedCheckpoint.epoch)
  /\ block.slot > blocks[block.parent].slot     \* process_slots asserts it
  /\ ~HeadRaises

\* Fault: a block of a past slot may be timely.
TimelyInAnySlot(block) == time % SlotDuration < AttestationDue

Timely(block) ==
  /\ CurrentSlot = block.slot
  /\ time % SlotDuration < AttestationDue

\* Fault: the post-state is not stored.
InsertWithoutState(root, block, post) ==
  /\ blocks' = Put(blocks, root, block)
  /\ blockTimeliness' = Put(blockTimeliness, root, Timely(block))
  /\ UNCHANGED blockStates

InsertBlock(root, block, post) ==
  /\ blocks' = Put(blocks, root, block)
  /\ blockStates' = Put(blockStates, root, post)
  /\ blockTimeliness' = Put(blockTimeliness, root, Timely(block))

\* update_proposer_boost_root raises when the store does not reach back to the
\* dependent slot.
DependentRootsKnown(head, root, block) ==
  LET store == Put(blocks, root, block)
  IN /\ DependentRoot(store, head, CurrentEpoch) # NoRoot
     /\ DependentRoot(store, root, CurrentEpoch) # NoRoot

\* Fault: a later block of the slot takes the boost over.
BoostEarnedAgain(head, root, block) == Timely(block)

BoostEarned(head, root, block) ==
  LET store == Put(blocks, root, block)
  IN /\ Timely(block)
     /\ proposerBoostRoot = NoRoot
     /\ DependentRoot(store, head, CurrentEpoch)
          = DependentRoot(store, root, CurrentEpoch)

\* Fault: a block of a past epoch is realized without being recorded.
RealizeWithoutRecording(root, block, post) ==
  LET past == EpochOf(block.slot) < CurrentEpoch
  IN /\ unrealizedJustifications' =
          Put(unrealizedJustifications, root, post.pulledUpJustified)
     /\ unrealizedJustifiedCheckpoint' =
          IF past THEN unrealizedJustifiedCheckpoint
          ELSE Later(unrealizedJustifiedCheckpoint, post.pulledUpJustified)
     /\ unrealizedFinalizedCheckpoint' =
          IF past THEN unrealizedFinalizedCheckpoint
          ELSE Later(unrealizedFinalizedCheckpoint, post.pulledUpFinalized)
     /\ justifiedCheckpoint' =
          Later(justifiedCheckpoint, IF past THEN post.pulledUpJustified ELSE post.justified)
     /\ finalizedCheckpoint' =
          Later(finalizedCheckpoint, IF past THEN post.pulledUpFinalized ELSE post.finalized)

\* update_checkpoints with the post-state, then compute_pulled_up_tip: record
\* the unrealized checkpoints, and realize them for a block of a past epoch.
RealizeCheckpoints(root, block, post) ==
  LET past == EpochOf(block.slot) < CurrentEpoch
      justified == Later(justifiedCheckpoint, post.justified)
      finalized == Later(finalizedCheckpoint, post.finalized)
  IN /\ unrealizedJustifications' =
          Put(unrealizedJustifications, root, post.pulledUpJustified)
     /\ unrealizedJustifiedCheckpoint' =
          Later(unrealizedJustifiedCheckpoint, post.pulledUpJustified)
     /\ unrealizedFinalizedCheckpoint' =
          Later(unrealizedFinalizedCheckpoint, post.pulledUpFinalized)
     /\ justifiedCheckpoint' =
          IF past THEN Later(justified, post.pulledUpJustified) ELSE justified
     /\ finalizedCheckpoint' =
          IF past THEN Later(finalized, post.pulledUpFinalized) ELSE finalized

OnBlock(root, block, post) ==
  /\ BlockAdmissible(root, block)
  /\ DependentRootsKnown(GetHead, root, block)
  /\ InsertBlock(root, block, post)
  /\ proposerBoostRoot' =
       IF BoostEarned(GetHead, root, block) THEN root ELSE proposerBoostRoot
  /\ RealizeCheckpoints(root, block, post)
  /\ UNCHANGED <<time, voteVars>>

\* on_block raises after the insertion: the block and its timeliness stay.
OnBlockAborted(root, block, post) ==
  /\ BlockAdmissible(root, block)
  /\ ~DependentRootsKnown(GetHead, root, block)
  /\ InsertBlock(root, block, post)
  /\ UNCHANGED <<time, checkpointVars, unrealizedVars, proposerBoostRoot, voteVars>>

---------------------------------------------------------------------------
(* on_attestation *)

\* Fault: an attestation of a block has to be recent too.
RecentTargetAlways(att, isFromBlock) ==
  att.target.epoch \in {CurrentEpoch, Previous(CurrentEpoch)}

\* validate_target_epoch_against_current_time
RecentTarget(att, isFromBlock) ==
  isFromBlock \/ att.target.epoch \in {CurrentEpoch, Previous(CurrentEpoch)}

ValidAttestation(att, isFromBlock) ==
  /\ RecentTarget(att, isFromBlock)
  /\ att.target.epoch = EpochOf(att.slot)
  /\ att.target.root \in DOMAIN blocks
  /\ att.root \in DOMAIN blocks
  /\ blocks[att.root].slot <= att.slot
  /\ att.target.root = CheckpointBlock(blocks, att.root, att.target.epoch)
  /\ CurrentSlot >= att.slot + 1

\* Fault: the cache is looked up by root alone.
StoreTargetStateByRoot(att) ==
  checkpointStates' =
    IF \E c \in checkpointStates : c.root = att.target.root
    THEN checkpointStates ELSE checkpointStates \cup {att.target}

StoreTargetCheckpointState(att) ==
  checkpointStates' = checkpointStates \cup {att.target}

NewerMessage(v, att) ==
  v \notin DOMAIN latestMessages
    \/ att.target.epoch > latestMessages[v].epoch

\* Fault: equivocators are not skipped.
MoversOfAll(att) == {v \in att.attesters : NewerMessage(v, att)}

Movers(att) == {v \in att.attesters \ equivocatingIndices : NewerMessage(v, att)}

UpdateLatestMessages(att) ==
  latestMessages' =
    [v \in Movers(att) \cup DOMAIN latestMessages |->
       IF v \in Movers(att) THEN [epoch |-> att.target.epoch, root |-> att.root]
       ELSE latestMessages[v]]

OnAttestation(att, isFromBlock) ==
  /\ ValidAttestation(att, isFromBlock)
  /\ StoreTargetCheckpointState(att)
  /\ UpdateLatestMessages(att)
  /\ UNCHANGED <<time, checkpointVars, unrealizedVars, proposerBoostRoot,
                 blockVars, equivocatingIndices>>

\* The indexed attestation is invalid (signature, indices): the checkpoint
\* state was cached before the check.
OnAttestationAborted(att, isFromBlock) ==
  /\ ValidAttestation(att, isFromBlock)
  /\ StoreTargetCheckpointState(att)
  /\ UNCHANGED <<time, checkpointVars, unrealizedVars, proposerBoostRoot,
                 blockVars, equivocatingIndices, latestMessages>>

---------------------------------------------------------------------------
(* on_attester_slashing: slashable is the intersection of the two indexed   *)
(* attestations.                                                            *)

OnAttesterSlashing(slashable) ==
  /\ justifiedCheckpoint.root \in DOMAIN blockStates
  /\ equivocatingIndices' = equivocatingIndices \cup slashable
  /\ UNCHANGED <<time, checkpointVars, unrealizedVars, proposerBoostRoot,
                 blockVars, checkpointStates, latestMessages>>

---------------------------------------------------------------------------
(* What the state transition promises about the post-state of a block.      *)

\* Checkpoints of the block's own chain, none later than the block's epoch.
OwnCheckpoints(root, block) ==
  LET store == Put(blocks, root, block)
  IN {c \in [epoch : 0..EpochOf(block.slot), root : DOMAIN store] :
        c.root = CheckpointBlock(store, root, c.epoch)}

PostStates(root, block) ==
  LET parent == blockStates[block.parent]
      checkpoints == OwnCheckpoints(root, block)
        \cup {parent.justified, parent.finalized,
              parent.pulledUpJustified, parent.pulledUpFinalized}
      newEpoch == EpochOf(block.slot) > EpochOf(blocks[block.parent].slot)
  IN {post \in [justified : checkpoints, finalized : checkpoints,
                pulledUpJustified : checkpoints, pulledUpFinalized : checkpoints] :
        /\ post.finalized.epoch <= post.justified.epoch
        /\ post.justified.epoch <= post.pulledUpJustified.epoch
        /\ post.finalized.epoch <= post.pulledUpFinalized.epoch
        /\ post.pulledUpFinalized.epoch <= post.pulledUpJustified.epoch
        /\ IF newEpoch
           THEN /\ post.justified.epoch >= parent.pulledUpJustified.epoch
                /\ post.finalized.epoch >= parent.pulledUpFinalized.epoch
           ELSE /\ post.justified = parent.justified
                /\ post.finalized = parent.finalized}

---------------------------------------------------------------------------
(* get_forkchoice_store *)

Init ==
  LET anchor == [epoch |-> EpochOf(AnchorSlot), root |-> AnchorRoot]
  IN /\ time = AnchorSlot * SlotDuration
     /\ justifiedCheckpoint = anchor
     /\ finalizedCheckpoint = anchor
     /\ unrealizedJustifiedCheckpoint = anchor
     /\ unrealizedFinalizedCheckpoint = anchor
     /\ proposerBoostRoot = NoRoot
     /\ equivocatingIndices = {}
     /\ blocks = Put(<<>>, AnchorRoot, [parent |-> NoRoot, slot |-> AnchorSlot])
     /\ blockStates = Put(<<>>, AnchorRoot, AnchorState)
     /\ blockTimeliness = <<>>
     /\ checkpointStates = {anchor}
     /\ latestMessages = <<>>
     /\ unrealizedJustifications = Put(<<>>, AnchorRoot, anchor)

---------------------------------------------------------------------------
(* Any caller: every handler, on any input, in any order. *)

FreshRoots ==
  LET fresh == Root \ DOMAIN blocks
  IN IF RootsInOrder THEN {r \in fresh : \A q \in fresh : r <= q} ELSE fresh

BlockStep ==
  \E root \in FreshRoots, parent \in DOMAIN blocks, slot \in BlockSlots :
    LET block == [parent |-> parent, slot |-> slot]
    IN /\ BlockAdmissible(root, block)
       /\ \E post \in PostStates(root, block) :
            OnBlock(root, block, post) \/ OnBlockAborted(root, block, post)

\* The target an attestation names is determined by its head vote: any other
\* fails validation.
AttestationOf(slot, root, attesters) ==
  [slot |-> slot, root |-> root, attesters |-> attesters,
   target |-> [epoch |-> EpochOf(slot),
               root |-> CheckpointBlock(blocks, root, EpochOf(slot))]]

AttestationStep ==
  \E slot \in Slot, root \in DOMAIN blocks, isFromBlock \in BOOLEAN :
    \E attesters \in IF isFromBlock THEN BodyAttesters ELSE WireAttesters :
      LET att == AttestationOf(slot, root, attesters)
      IN OnAttestation(att, isFromBlock) \/ OnAttestationAborted(att, isFromBlock)

Next ==
  \/ \E t \in TickTimes : OnTick(t)
  \/ \E slashable \in WireSlashings : OnAttesterSlashing(slashable)
  \/ AttestationStep
  \/ BlockStep

Spec == Init /\ [][Next]_vars

---------------------------------------------------------------------------
(* Properties. *)

\* Every store field has its type, and blocks and their states go together.
TypeOK ==
  /\ time \in 0..MaxTime
  /\ {justifiedCheckpoint, finalizedCheckpoint,
      unrealizedJustifiedCheckpoint, unrealizedFinalizedCheckpoint}
        \subseteq Checkpoint
  /\ proposerBoostRoot \in RootOrNone
  /\ equivocatingIndices \subseteq Validator
  /\ DOMAIN blocks \subseteq Root
  /\ blocks \in [DOMAIN blocks -> Block]
  /\ blockStates \in [DOMAIN blocks -> BlockState]
  /\ DOMAIN blockTimeliness \subseteq DOMAIN blocks
  /\ blockTimeliness \in [DOMAIN blockTimeliness -> BOOLEAN]
  /\ checkpointStates \subseteq Checkpoint
  /\ DOMAIN latestMessages \subseteq Validator
  /\ latestMessages \in [DOMAIN latestMessages -> LatestMessage]
  /\ DOMAIN unrealizedJustifications \subseteq DOMAIN blocks
  /\ unrealizedJustifications \in [DOMAIN unrealizedJustifications -> Checkpoint]

\* The four checkpoints never get out of step: nothing is finalized ahead of
\* what is justified, or realized ahead of what is unrealized, although each
\* is replaced on its own, by three different handlers, comparing epochs only.
CheckpointsOrdered ==
  /\ finalizedCheckpoint.epoch <= justifiedCheckpoint.epoch
  /\ finalizedCheckpoint.epoch <= unrealizedFinalizedCheckpoint.epoch
  /\ justifiedCheckpoint.epoch <= unrealizedJustifiedCheckpoint.epoch
  /\ unrealizedFinalizedCheckpoint.epoch <= unrealizedJustifiedCheckpoint.epoch

\* Once an epoch is over, what its blocks justify is realized: however ticks
\* skip slots or go back, and however late a block arrives, no block of an
\* earlier epoch has an unrealized justification above the store's.
PulledUpTipsRealized ==
  \A r \in DOMAIN unrealizedJustifications :
    EpochOf(blocks[r].slot) < CurrentEpoch =>
      unrealizedJustifications[r].epoch <= justifiedCheckpoint.epoch

\* The proposer boost is never left over from a past slot, and only a block
\* recorded as timely holds it.
BoostIsCurrent ==
  proposerBoostRoot # NoRoot =>
    /\ proposerBoostRoot \in DOMAIN blockTimeliness
    /\ blockTimeliness[proposerBoostRoot]
    /\ blocks[proposerBoostRoot].slot >= CurrentSlot

\* Among the blocks of a slot the first to earn the boost keeps it: it is lost
\* only to the start of a later slot.
BoostGoesToFirst ==
  [][proposerBoostRoot # NoRoot /\ proposerBoostRoot' # proposerBoostRoot =>
       proposerBoostRoot' = NoRoot /\ SlotAt(time') > SlotAt(time)]_vars

\* Why get_head can fail at all: on_block stopped half-way and left a block of
\* a past epoch without its unrealized justification, or the justified
\* checkpoint advanced before any attestation cached its state.  No other read
\* of the walk ever misses.
HeadFailureExplained ==
  HeadRaises =>
    \/ \E r \in DOMAIN blocks \ DOMAIN unrealizedJustifications :
         EpochOf(blocks[r].slot) < CurrentEpoch
    \/ justifiedCheckpoint \notin checkpointStates

\* The price of the first cause: on_block takes the head before it inserts, so
\* a leaf below the justified block that lost its unrealized justification
\* turns every later block away, its own children included.
AbortedLeafStopsBlocks ==
  [][(\E l \in Leaves(justifiedCheckpoint.root) :
        /\ l \notin DOMAIN unrealizedJustifications
        /\ EpochOf(blocks[l].slot) < CurrentEpoch)
     => DOMAIN blocks' = DOMAIN blocks]_vars

\* What a latest message votes for can be weighed: its block is stored, is not
\* later than the target epoch, and the state of its target is cached.
VotesBacked ==
  \A v \in DOMAIN latestMessages :
    LET message == latestMessages[v]
    IN /\ message.root \in DOMAIN blocks
       /\ EpochOf(blocks[message.root].slot) <= message.epoch
       /\ [epoch |-> message.epoch,
           root |-> CheckpointBlock(blocks, message.root, message.epoch)]
            \in checkpointStates

\* A validator once proved equivocating stays so, and no later attestation,
\* from the wire or from a block, changes the vote it had.
EquivocatorsSilenced ==
  [][\A v \in equivocatingIndices :
       /\ v \in equivocatingIndices'
       /\ v \in DOMAIN latestMessages' <=> v \in DOMAIN latestMessages
       /\ v \in DOMAIN latestMessages => latestMessages'[v] = latestMessages[v]]_vars

\* The head follows a majority: when the votes for a viable block outweigh all
\* other unequivocal votes and the boost together, the head is on its chain.
HeadFollowsMajority ==
  ~HeadRaises =>
    LET voters == DOMAIN latestMessages \ equivocatingIndices
        weight(vs) == SumFunctionOnSet(EffectiveBalance, vs)
    IN \A r \in FilteredNodeTree :
         LET for == {v \in voters : Supports(latestMessages[v].root, r)}
         IN weight(for) > weight(voters \ for) + ProposerScore =>
              Supports(GetHead, r)
=============================================================================
