------------------------ MODULE FuluForkChoiceProofs ------------------------
(***************************************************************************)
(* Proofs about FuluForkChoice and FuluDriver.                             *)
(*                                                                         *)
(* About the store, for every preset, registry, anchor and set of inputs:  *)
(* up to the votes nothing needs to know which block a chain walk ends at; *)
(* from there on Ancestor is unfolded, by induction over the slots of the  *)
(* blocks it passes.                                                       *)
(*                                                                         *)
(* About the driven store, for every preset with short epochs and every    *)
(* sequence of blocks, ticks and attestations from genesis on: the state   *)
(* transition keeps the promise the fork-choice store relies on, so the    *)
(* driven store is one of FuluForkChoice; the run never stops half-way;    *)
(* and finality is safe: as long as the validators that cast slashable     *)
(* votes hold less than a third of the stake, no finalized block is left   *)
(* again, by a later finalized one or by the head.                         *)
(***************************************************************************)
EXTENDS FuluDriver, InductionLemmas, TLAPS

---------------------------------------------------------------------------
(* Arithmetic and maps. *)

\* Slots and epochs of natural numbers are natural numbers.
LEMMA SlotAndEpochNat ==
  /\ \A t \in Nat : SlotAt(t) \in Nat
  /\ \A slot \in Nat : EpochOf(slot) \in Nat
<1>1. ASSUME NEW a \in Nat, NEW b \in Nat \ {0}
      PROVE  a \div b \in Nat
  OBVIOUS
<1> QED
  BY <1>1, SlotDurationAssumption, SlotsPerEpochAssumption DEF SlotAt, EpochOf

\* Slots are natural numbers.
LEMMA SlotsAreNat == Slot \subseteq Nat
  BY DEF Slot

\* A map of one entry.
LEMMA SingletonType ==
  ASSUME NEW T, NEW key, NEW value \in T
  PROVE  /\ Put(<<>>, key, value) \in [{key} -> T]
         /\ DOMAIN Put(<<>>, key, value) = {key}
         /\ Put(<<>>, key, value)[key] = value
<1>1. DOMAIN <<>> = {}
  OBVIOUS
<1> QED
  BY <1>1 DEF Put

---------------------------------------------------------------------------
(* What the handlers are given. *)

\* The later of two checkpoints is one of them, and no earlier than either.
LEMMA LaterType ==
  ASSUME NEW held \in Checkpoint, NEW seen \in Checkpoint
  PROVE  /\ Later(held, seen) \in Checkpoint
         /\ Later(held, seen).epoch \in Nat
         /\ Later(held, seen).epoch >= held.epoch
         /\ Later(held, seen).epoch >= seen.epoch
         /\ Later(held, seen).epoch \in {held.epoch, seen.epoch}
  BY DEF Later, Checkpoint

\* A post-state the state transition may return is well typed, and its
\* checkpoints are in order.
LEMMA PostStateType ==
  ASSUME TypeOK,
         NEW root \in Root, NEW parent \in DOMAIN blocks, NEW slot \in Slot,
         NEW post \in PostStates(root, [parent |-> parent, slot |-> slot])
  PROVE  /\ post \in BlockState
         /\ post.finalized.epoch <= post.justified.epoch
         /\ post.justified.epoch <= post.pulledUpJustified.epoch
         /\ post.finalized.epoch <= post.pulledUpFinalized.epoch
         /\ post.pulledUpFinalized.epoch <= post.pulledUpJustified.epoch
<1> DEFINE block == [parent |-> parent, slot |-> slot]
           before == {blockStates[parent].justified, blockStates[parent].finalized,
                      blockStates[parent].pulledUpJustified,
                      blockStates[parent].pulledUpFinalized}
<1>1. /\ DOMAIN Put(blocks, root, block) \subseteq Root
      /\ block.parent = parent
      /\ block.slot = slot
  BY DEF TypeOK, Put
<1>2. EpochOf(slot) \in Nat
  BY SlotAndEpochNat, SlotsAreNat
<1>3. OwnCheckpoints(root, block) \subseteq Checkpoint
  BY <1>1, <1>2 DEF OwnCheckpoints, Checkpoint, RootOrNone
<1>4. before \subseteq Checkpoint
  BY DEF TypeOK, BlockState
<1>5. post \in [justified : OwnCheckpoints(root, block) \cup before,
                finalized : OwnCheckpoints(root, block) \cup before,
                pulledUpJustified : OwnCheckpoints(root, block) \cup before,
                pulledUpFinalized : OwnCheckpoints(root, block) \cup before]
  BY <1>1 DEF PostStates
<1>6. post \in BlockState
  BY <1>3, <1>4, <1>5 DEF BlockState
<1> QED
  BY <1>6 DEF PostStates

---------------------------------------------------------------------------
(* Type correctness. *)

\* The anchor store is well typed.
LEMMA InitTypeOK == Init => TypeOK
<1> SUFFICES ASSUME Init PROVE TypeOK
  OBVIOUS
<1> DEFINE anchor == [epoch |-> EpochOf(AnchorSlot), root |-> AnchorRoot]
           anchorBlock == [parent |-> NoRoot, slot |-> AnchorSlot]
<1>1. /\ AnchorSlot * SlotDuration \in 0..MaxTime
      /\ AnchorSlot \in Slot
  <2>1. ASSUME NEW n \in Nat, NEW d \in Nat \ {0}, NEW m \in Nat, n * d <= m
        PROVE  n * d \in 0..m /\ n \in 0..(m \div d)
    <3>1. n * d \in Nat
      OBVIOUS
    <3>2. m \div d \in Nat /\ m < (m \div d + 1) * d
      OBVIOUS
    <3>3. ASSUME n >= m \div d + 1 PROVE FALSE
      <4>1. n * d >= (m \div d + 1) * d
        BY <3>2, <3>3
      <4> QED
        BY <4>1, <3>1, <3>2, <2>1
    <3> QED
      BY <3>1, <3>2, <3>3, <2>1
  <2> QED
    BY <2>1, AnchorAssumption, SlotDurationAssumption, MaxTimeAssumption
    DEF Slot, SlotAt
<1>2. anchor \in Checkpoint
  BY SlotAndEpochNat, AnchorAssumption DEF Checkpoint, RootOrNone
<1>3. anchorBlock \in Block
  BY <1>1 DEF Block, RootOrNone
<1>4. /\ blocks \in [{AnchorRoot} -> Block]
      /\ blockStates \in [{AnchorRoot} -> BlockState]
      /\ unrealizedJustifications \in [{AnchorRoot} -> Checkpoint]
  BY <1>2, <1>3, SingletonType, AnchorStateAssumption DEF Init
<1>5. /\ blockTimeliness = <<>> /\ latestMessages = <<>>
      /\ DOMAIN <<>> = {}
  BY DEF Init
<1> QED
  BY <1>1, <1>2, <1>4, <1>5, AnchorAssumption DEF Init, TypeOK, RootOrNone

\* on_tick keeps the types.
LEMMA TickTypeOK ==
  ASSUME TypeOK, NEW t \in TickTimes, OnTick(t)
  PROVE  TypeOK'
<1>1. time' \in 0..MaxTime
  BY BoundsAssumption DEF OnTick
<1>2. {justifiedCheckpoint', finalizedCheckpoint'} \subseteq Checkpoint
  BY LaterType DEF OnTick, TypeOK, checkpointVars
<1>3. proposerBoostRoot' \in RootOrNone
  BY DEF OnTick, TypeOK, RootOrNone
<1> QED
  BY <1>1, <1>2, <1>3
  DEF OnTick, TypeOK, unrealizedVars, blockVars, voteVars

\* The insertion of a block and of its post-state, which both outcomes of
\* on_block share.
LEMMA InsertBlockType ==
  ASSUME TypeOK,
         NEW root \in Root, NEW block \in Block, NEW post \in BlockState,
         InsertBlock(root, block, post)
  PROVE  /\ DOMAIN blocks' = DOMAIN blocks \cup {root}
         /\ blocks' \in [DOMAIN blocks' -> Block]
         /\ blockStates' \in [DOMAIN blocks' -> BlockState]
         /\ DOMAIN blockTimeliness' \subseteq DOMAIN blocks'
         /\ blockTimeliness' \in [DOMAIN blockTimeliness' -> BOOLEAN]
<1>1. Timely(block) \in BOOLEAN
  BY DEF Timely
<1>2. /\ blocks \in [DOMAIN blocks -> Block]
      /\ blockStates \in [DOMAIN blocks -> BlockState]
      /\ blockTimeliness \in [DOMAIN blockTimeliness -> BOOLEAN]
      /\ DOMAIN blockTimeliness \subseteq DOMAIN blocks
  BY DEF TypeOK
<1>3. /\ blocks' = Put(blocks, root, block)
      /\ blockStates' = Put(blockStates, root, post)
      /\ blockTimeliness' = Put(blockTimeliness, root, Timely(block))
  BY DEF InsertBlock
<1>4. /\ DOMAIN blocks' = DOMAIN blocks \cup {root}
      /\ blocks' \in [DOMAIN blocks \cup {root} -> Block]
  BY <1>2, <1>3 DEF Put
<1>5. blockStates' \in [DOMAIN blocks \cup {root} -> BlockState]
  BY <1>2, <1>3 DEF Put
<1>6. /\ DOMAIN blockTimeliness' = DOMAIN blockTimeliness \cup {root}
      /\ blockTimeliness' \in [DOMAIN blockTimeliness \cup {root} -> BOOLEAN]
  BY <1>1, <1>2, <1>3 DEF Put
<1> QED
  BY <1>2, <1>4, <1>5, <1>6

\* A block as it is delivered is well typed.
LEMMA BlockInput ==
  ASSUME TypeOK, NEW parent \in DOMAIN blocks, NEW slot \in BlockSlots
  PROVE  /\ [parent |-> parent, slot |-> slot] \in Block
         /\ slot \in Slot
  BY BoundsAssumption DEF TypeOK, Block, RootOrNone

\* So does on_block, with a post-state of the right type,
LEMMA OnBlockTypeOK ==
  ASSUME TypeOK,
         NEW root \in Root, NEW block \in Block, NEW post \in BlockState,
         OnBlock(root, block, post)
  PROVE  TypeOK'
<1>1. /\ DOMAIN blocks' = DOMAIN blocks \cup {root}
      /\ blocks' \in [DOMAIN blocks' -> Block]
      /\ blockStates' \in [DOMAIN blocks' -> BlockState]
      /\ DOMAIN blockTimeliness' \subseteq DOMAIN blocks'
      /\ blockTimeliness' \in [DOMAIN blockTimeliness' -> BOOLEAN]
  BY InsertBlockType DEF OnBlock
<1>2. /\ post.justified \in Checkpoint /\ post.finalized \in Checkpoint
      /\ post.pulledUpJustified \in Checkpoint
      /\ post.pulledUpFinalized \in Checkpoint
  BY DEF BlockState
<1>3. {justifiedCheckpoint', finalizedCheckpoint',
       unrealizedJustifiedCheckpoint', unrealizedFinalizedCheckpoint'}
         \subseteq Checkpoint
  BY <1>2, LaterType DEF OnBlock, RealizeCheckpoints, TypeOK
<1>4. /\ DOMAIN unrealizedJustifications' = DOMAIN unrealizedJustifications \cup {root}
      /\ unrealizedJustifications'
           \in [DOMAIN unrealizedJustifications' -> Checkpoint]
  <2>1. unrealizedJustifications \in [DOMAIN unrealizedJustifications -> Checkpoint]
    BY DEF TypeOK
  <2>2. unrealizedJustifications' =
          Put(unrealizedJustifications, root, post.pulledUpJustified)
    BY DEF OnBlock, RealizeCheckpoints
  <2> QED
    BY <1>2, <2>1, <2>2 DEF Put
<1>5. proposerBoostRoot' \in RootOrNone
  BY DEF OnBlock, TypeOK, RootOrNone
<1> QED
  BY <1>1, <1>3, <1>4, <1>5 DEF OnBlock, TypeOK, voteVars

\* also when it stops after the insertion,
LEMMA OnBlockAbortedTypeOK ==
  ASSUME TypeOK,
         NEW root \in Root, NEW block \in Block, NEW post \in BlockState,
         OnBlockAborted(root, block, post)
  PROVE  TypeOK'
<1>1. /\ DOMAIN blocks' = DOMAIN blocks \cup {root}
      /\ blocks' \in [DOMAIN blocks' -> Block]
      /\ blockStates' \in [DOMAIN blocks' -> BlockState]
      /\ DOMAIN blockTimeliness' \subseteq DOMAIN blocks'
      /\ blockTimeliness' \in [DOMAIN blockTimeliness' -> BOOLEAN]
  BY InsertBlockType DEF OnBlockAborted
<1> QED
  BY <1>1 DEF OnBlockAborted, TypeOK, checkpointVars, unrealizedVars, voteVars

\* on_attestation,
LEMMA AttestationTypeOK ==
  ASSUME TypeOK, NEW slot \in Slot, NEW root \in DOMAIN blocks,
         NEW attesters \in WireAttesters \cup BodyAttesters, NEW isFromBlock \in BOOLEAN,
         LET att == AttestationOf(slot, root, attesters)
         IN OnAttestation(att, isFromBlock) \/ OnAttestationAborted(att, isFromBlock)
  PROVE  TypeOK'
<1> DEFINE att == AttestationOf(slot, root, attesters)
<1>1. /\ att.target.root \in DOMAIN blocks
      /\ att.target.epoch = EpochOf(slot)
      /\ att.target = [epoch |-> att.target.epoch, root |-> att.target.root]
      /\ att.root = root
      /\ att.attesters = attesters
  BY DEF AttestationOf, OnAttestation, OnAttestationAborted, ValidAttestation
<1>2. att.target \in Checkpoint /\ att.target.epoch \in Nat
  BY <1>1, SlotAndEpochNat, SlotsAreNat DEF Checkpoint, RootOrNone, TypeOK
<1>3. checkpointStates' \subseteq Checkpoint
  BY <1>2 DEF OnAttestation, OnAttestationAborted, StoreTargetCheckpointState, TypeOK
<1>4. /\ DOMAIN latestMessages' \subseteq Validator
      /\ latestMessages' \in [DOMAIN latestMessages' -> LatestMessage]
  <2>1. CASE OnAttestation(att, isFromBlock)
    <3>1. Movers(att) \subseteq Validator
      BY <1>1, BoundsAssumption DEF Movers
    <3>2. [epoch |-> att.target.epoch, root |-> att.root] \in LatestMessage
      BY <1>1, <1>2 DEF LatestMessage, TypeOK
    <3> QED
      BY <2>1, <3>1, <3>2 DEF OnAttestation, UpdateLatestMessages, TypeOK
  <2>2. CASE OnAttestationAborted(att, isFromBlock)
    BY <2>2 DEF OnAttestationAborted, TypeOK
  <2> QED
    BY <2>1, <2>2
<1> QED
  BY <1>3, <1>4 DEF OnAttestation, OnAttestationAborted, TypeOK,
                    checkpointVars, unrealizedVars, blockVars

\* and on_attester_slashing.
LEMMA SlashingTypeOK ==
  ASSUME TypeOK, NEW slashable \in WireSlashings, OnAttesterSlashing(slashable)
  PROVE  TypeOK'
<1>1. equivocatingIndices' \subseteq Validator
  BY BoundsAssumption DEF OnAttesterSlashing, TypeOK
<1> QED
  BY <1>1 DEF OnAttesterSlashing, TypeOK, checkpointVars, unrealizedVars, blockVars

\* Every handler keeps the types.
LEMMA StepTypeOK == TypeOK /\ [Next]_vars => TypeOK'
<1> SUFFICES ASSUME TypeOK, [Next]_vars PROVE TypeOK'
  OBVIOUS
<1>1. ASSUME NEW t \in TickTimes, OnTick(t) PROVE TypeOK'
  BY <1>1, TickTypeOK
<1>2. ASSUME NEW slashable \in WireSlashings, OnAttesterSlashing(slashable)
      PROVE  TypeOK'
  BY <1>2, SlashingTypeOK
<1>3. CASE AttestationStep
  BY <1>3, AttestationTypeOK DEF AttestationStep
<1>4. CASE BlockStep
  <2>1. PICK root \in FreshRoots, parent \in DOMAIN blocks, slot \in BlockSlots :
          \E post \in PostStates(root, [parent |-> parent, slot |-> slot]) :
            \/ OnBlock(root, [parent |-> parent, slot |-> slot], post)
            \/ OnBlockAborted(root, [parent |-> parent, slot |-> slot], post)
    BY <1>4 DEF BlockStep
  <2> DEFINE block == [parent |-> parent, slot |-> slot]
  <2>2. PICK post \in PostStates(root, block) :
          OnBlock(root, block, post) \/ OnBlockAborted(root, block, post)
    BY <2>1
  <2>3. root \in Root /\ block \in Block /\ slot \in Slot
    BY BlockInput DEF FreshRoots
  <2>4. post \in BlockState
    BY <2>3, PostStateType
  <2> QED
    BY <2>2, <2>3, <2>4, OnBlockTypeOK, OnBlockAbortedTypeOK
<1>5. CASE UNCHANGED vars
  BY <1>5 DEF TypeOK, vars, checkpointVars, unrealizedVars, blockVars, voteVars
<1> QED
  BY <1>1, <1>2, <1>3, <1>4, <1>5 DEF Next

\* Every handler, whether it completes or raises after its first write, leaves
\* a well-typed store in which blocks and their post-states go together.
THEOREM TypeCorrect == Spec => []TypeOK
<1> QED
  BY InitTypeOK, StepTypeOK, PTL DEF Spec

---------------------------------------------------------------------------
(* The checkpoints stay in order, and what an epoch justified is realized   *)
(* when it is over.                                                         *)

\* Every recorded unrealized justification counts in the store's: what on_tick
\* pulls up is never behind any block.  Without it the invariant below is not
\* inductive, since on_tick reads only the store's checkpoint.
UnrealizedIsNewest ==
  \A r \in DOMAIN unrealizedJustifications :
    unrealizedJustifications[r].epoch <= unrealizedJustifiedCheckpoint.epoch

CheckpointInv == CheckpointsOrdered /\ UnrealizedIsNewest /\ PulledUpTipsRealized

\* The epochs compared are natural numbers, before and after the step.
LEMMA EpochsNat ==
  ASSUME TypeOK
  PROVE  /\ justifiedCheckpoint.epoch \in Nat
         /\ finalizedCheckpoint.epoch \in Nat
         /\ unrealizedJustifiedCheckpoint.epoch \in Nat
         /\ unrealizedFinalizedCheckpoint.epoch \in Nat
         /\ \A r \in DOMAIN unrealizedJustifications :
              unrealizedJustifications[r].epoch \in Nat
         /\ \A r \in DOMAIN blocks : EpochOf(blocks[r].slot) \in Nat
         /\ CurrentSlot \in Nat
         /\ CurrentEpoch \in Nat
<1>1. \A c \in Checkpoint : c.epoch \in Nat
  BY DEF Checkpoint
<1>2. \A r \in DOMAIN blocks : blocks[r].slot \in Nat
  BY SlotsAreNat DEF TypeOK, Block
<1>3. time \in Nat
  BY MaxTimeAssumption DEF TypeOK
<1> QED
  BY <1>1, <1>2, <1>3, SlotAndEpochNat DEF TypeOK, CurrentSlot, CurrentEpoch

\* The anchor is every checkpoint at first.
LEMMA InitCheckpointInv == Init => CheckpointInv
<1> SUFFICES ASSUME Init PROVE CheckpointInv
  OBVIOUS
<1> DEFINE anchor == [epoch |-> EpochOf(AnchorSlot), root |-> AnchorRoot]
<1>1. EpochOf(AnchorSlot) \in Nat
  BY SlotAndEpochNat, AnchorAssumption
<1>2. \A r \in DOMAIN unrealizedJustifications : unrealizedJustifications[r] = anchor
  <2>1. unrealizedJustifications = Put(<<>>, AnchorRoot, anchor)
    BY DEF Init
  <2>2. DOMAIN <<>> = {}
    OBVIOUS
  <2> QED
    BY <2>1, <2>2 DEF Put
<1>3. /\ justifiedCheckpoint = anchor /\ finalizedCheckpoint = anchor
      /\ unrealizedJustifiedCheckpoint = anchor
      /\ unrealizedFinalizedCheckpoint = anchor
  BY DEF Init
<1> QED
  BY <1>1, <1>2, <1>3
  DEF CheckpointInv, CheckpointsOrdered, UnrealizedIsNewest, PulledUpTipsRealized

\* on_tick: both held checkpoints are replaced, or neither.
LEMMA TickCheckpointInv ==
  ASSUME TypeOK, CheckpointInv, NEW t \in TickTimes, OnTick(t)
  PROVE  CheckpointInv'
<1> USE DEF CheckpointInv, CheckpointsOrdered, UnrealizedIsNewest
<1>1. /\ UNCHANGED <<unrealizedJustifiedCheckpoint, unrealizedFinalizedCheckpoint,
                     unrealizedJustifications, blocks>>
      /\ UnrealizedIsNewest'
  BY DEF OnTick, unrealizedVars, blockVars
<1>2. CurrentEpoch' = EpochOf(SlotAt(t)) /\ CurrentEpoch' \in Nat
  <2>1. t \in Nat
    BY BoundsAssumption, MaxTimeAssumption
  <2> QED
    BY <2>1, SlotAndEpochNat DEF OnTick, CurrentEpoch, CurrentSlot
<1>3. CASE PassesEpochStart(t)
  <2>1. /\ justifiedCheckpoint'.epoch = unrealizedJustifiedCheckpoint.epoch
        /\ finalizedCheckpoint'.epoch = unrealizedFinalizedCheckpoint.epoch
    BY <1>3, EpochsNat DEF OnTick, Later
  <2> QED
    BY <1>1, <2>1, EpochsNat DEF PulledUpTipsRealized
<1>4. CASE ~PassesEpochStart(t)
  <2>1. UNCHANGED <<justifiedCheckpoint, finalizedCheckpoint>>
    BY <1>4 DEF OnTick, checkpointVars
  <2>2. CurrentEpoch' <= CurrentEpoch
    BY <1>2, <1>4, EpochsNat DEF PassesEpochStart
  <2>3. PulledUpTipsRealized'
    <3> SUFFICES ASSUME NEW r \in DOMAIN unrealizedJustifications,
                        EpochOf(blocks[r].slot) < CurrentEpoch'
                 PROVE  unrealizedJustifications[r].epoch <= justifiedCheckpoint.epoch
      BY <1>1, <2>1 DEF PulledUpTipsRealized
    <3>1. EpochOf(blocks[r].slot) < CurrentEpoch
      BY <1>2, <2>2, EpochsNat DEF TypeOK
    <3> QED
      BY <3>1 DEF PulledUpTipsRealized
  <2> QED
    BY <1>1, <2>1, <2>3
<1> QED
  BY <1>3, <1>4

\* on_block: the post-state brings ordered checkpoints, and all are realized at
\* once when its epoch is past.
LEMMA OnBlockCheckpointInv ==
  ASSUME TypeOK, CheckpointInv,
         NEW root \in Root, NEW parent \in DOMAIN blocks, NEW slot \in Slot,
         NEW post \in PostStates(root, [parent |-> parent, slot |-> slot]),
         OnBlock(root, [parent |-> parent, slot |-> slot], post)
  PROVE  CheckpointInv'
<1> DEFINE block == [parent |-> parent, slot |-> slot]
           past == EpochOf(slot) < CurrentEpoch
<1>1. /\ post.justified.epoch \in Nat /\ post.finalized.epoch \in Nat
      /\ post.pulledUpJustified.epoch \in Nat
      /\ post.pulledUpFinalized.epoch \in Nat
  BY PostStateType DEF BlockState, Checkpoint
<1>2. /\ post.finalized.epoch <= post.justified.epoch
      /\ post.justified.epoch <= post.pulledUpJustified.epoch
      /\ post.finalized.epoch <= post.pulledUpFinalized.epoch
      /\ post.pulledUpFinalized.epoch <= post.pulledUpJustified.epoch
  BY PostStateType
<1>3. root \notin DOMAIN blocks
  BY DEF OnBlock, BlockAdmissible
<1>4. /\ blocks' = Put(blocks, root, block)
      /\ unrealizedJustifications' =
           Put(unrealizedJustifications, root, post.pulledUpJustified)
      /\ CurrentEpoch' = CurrentEpoch
  BY DEF OnBlock, InsertBlock, RealizeCheckpoints, CurrentEpoch, CurrentSlot
<1>5. /\ unrealizedJustifiedCheckpoint' =
           Later(unrealizedJustifiedCheckpoint, post.pulledUpJustified)
      /\ unrealizedFinalizedCheckpoint' =
           Later(unrealizedFinalizedCheckpoint, post.pulledUpFinalized)
      /\ justifiedCheckpoint' =
           IF past
           THEN Later(Later(justifiedCheckpoint, post.justified), post.pulledUpJustified)
           ELSE Later(justifiedCheckpoint, post.justified)
      /\ finalizedCheckpoint' =
           IF past
           THEN Later(Later(finalizedCheckpoint, post.finalized), post.pulledUpFinalized)
           ELSE Later(finalizedCheckpoint, post.finalized)
  BY DEF OnBlock, RealizeCheckpoints
<1>6. CheckpointsOrdered'
  BY <1>1, <1>2, <1>5, EpochsNat DEF CheckpointInv, CheckpointsOrdered, Later
<1>7. /\ unrealizedJustifiedCheckpoint'.epoch \in Nat
      /\ justifiedCheckpoint'.epoch \in Nat
      /\ unrealizedJustifiedCheckpoint'.epoch >= unrealizedJustifiedCheckpoint.epoch
      /\ unrealizedJustifiedCheckpoint'.epoch >= post.pulledUpJustified.epoch
      /\ justifiedCheckpoint'.epoch >= justifiedCheckpoint.epoch
      /\ past => justifiedCheckpoint'.epoch >= post.pulledUpJustified.epoch
  BY <1>1, <1>5, EpochsNat DEF Later
<1>8. ASSUME NEW r \in DOMAIN unrealizedJustifications'
      PROVE  /\ unrealizedJustifications'[r].epoch
                  <= unrealizedJustifiedCheckpoint'.epoch
             /\ EpochOf(blocks'[r].slot) < CurrentEpoch' =>
                  unrealizedJustifications'[r].epoch <= justifiedCheckpoint'.epoch
  <2>1. CASE r = root
    <3>1. unrealizedJustifications'[r] = post.pulledUpJustified
      BY <1>4, <2>1 DEF Put
    <3>2. blocks'[r].slot = slot
      BY <1>4, <2>1 DEF Put
    <3> QED
      BY <1>4, <1>7, <3>1, <3>2
  <2>2. CASE r # root
    <3>1. /\ r \in DOMAIN unrealizedJustifications
          /\ unrealizedJustifications'[r] = unrealizedJustifications[r]
      BY <1>4, <1>8, <2>2 DEF Put
    <3>2. r \in DOMAIN blocks /\ blocks'[r] = blocks[r]
      BY <1>4, <2>2, <3>1 DEF Put, TypeOK
    <3>3. /\ unrealizedJustifications[r].epoch <= unrealizedJustifiedCheckpoint.epoch
          /\ EpochOf(blocks[r].slot) < CurrentEpoch =>
               unrealizedJustifications[r].epoch <= justifiedCheckpoint.epoch
      BY <3>1 DEF CheckpointInv, UnrealizedIsNewest, PulledUpTipsRealized
    <3> QED
      BY <1>4, <1>7, <3>1, <3>2, <3>3, EpochsNat
  <2> QED
    BY <2>1, <2>2
<1> QED
  BY <1>6, <1>8 DEF CheckpointInv, UnrealizedIsNewest, PulledUpTipsRealized

\* A block without an unrealized justification promises nothing.
LEMMA OnBlockAbortedCheckpointInv ==
  ASSUME TypeOK, CheckpointInv, NEW root, NEW block, NEW post,
         OnBlockAborted(root, block, post)
  PROVE  CheckpointInv'
<1>1. UNCHANGED <<time, justifiedCheckpoint, finalizedCheckpoint,
                  unrealizedJustifiedCheckpoint, unrealizedFinalizedCheckpoint,
                  unrealizedJustifications>>
  BY DEF OnBlockAborted, checkpointVars, unrealizedVars
<1>2. \A r \in DOMAIN unrealizedJustifications : blocks'[r] = blocks[r]
  BY DEF OnBlockAborted, BlockAdmissible, InsertBlock, Put, TypeOK
<1> QED
  BY <1>1, <1>2 DEF CheckpointInv, CheckpointsOrdered, UnrealizedIsNewest,
                    PulledUpTipsRealized, CurrentEpoch, CurrentSlot

\* A step that leaves the clock, the checkpoints and the blocks alone.
LEMMA FrameCheckpointInv ==
  ASSUME CheckpointInv,
         UNCHANGED <<time, checkpointVars, unrealizedVars, blocks>>
  PROVE  CheckpointInv'
  BY DEF CheckpointInv, CheckpointsOrdered, UnrealizedIsNewest,
         PulledUpTipsRealized, CurrentEpoch, CurrentSlot, checkpointVars, unrealizedVars

\* Every handler keeps the checkpoints in order.
LEMMA StepCheckpointInv == TypeOK /\ CheckpointInv /\ [Next]_vars => CheckpointInv'
<1> SUFFICES ASSUME TypeOK, CheckpointInv, [Next]_vars PROVE CheckpointInv'
  OBVIOUS
<1>1. ASSUME NEW t \in TickTimes, OnTick(t) PROVE CheckpointInv'
  BY <1>1, TickCheckpointInv
<1>2. ASSUME NEW slashable \in WireSlashings, OnAttesterSlashing(slashable)
      PROVE  CheckpointInv'
  BY <1>2, FrameCheckpointInv DEF OnAttesterSlashing, blockVars
<1>3. CASE AttestationStep
  BY <1>3, FrameCheckpointInv
  DEF AttestationStep, OnAttestation, OnAttestationAborted, blockVars
<1>4. CASE BlockStep
  <2>1. PICK root \in FreshRoots, parent \in DOMAIN blocks, slot \in BlockSlots :
          \E post \in PostStates(root, [parent |-> parent, slot |-> slot]) :
            \/ OnBlock(root, [parent |-> parent, slot |-> slot], post)
            \/ OnBlockAborted(root, [parent |-> parent, slot |-> slot], post)
    BY <1>4 DEF BlockStep
  <2>2. root \in Root /\ slot \in Slot
    BY BlockInput DEF FreshRoots
  <2> QED
    BY <2>1, <2>2, OnBlockCheckpointInv, OnBlockAbortedCheckpointInv
<1>5. CASE UNCHANGED vars
  BY <1>5, FrameCheckpointInv DEF vars, blockVars
<1> QED
  BY <1>1, <1>2, <1>3, <1>4, <1>5 DEF Next

\* The inductive invariant behind the next two theorems.
LEMMA CheckpointInvariant == Spec => [](TypeOK /\ CheckpointInv)
<1> QED
  BY InitTypeOK, StepTypeOK, InitCheckpointInv, StepCheckpointInv, PTL DEF Spec

\* Nothing is finalized ahead of what is justified, nor realized ahead of what
\* is unrealized, whatever the order of ticks and blocks.
THEOREM CheckpointOrder == Spec => []CheckpointsOrdered
<1>1. CheckpointInv => CheckpointsOrdered
  BY DEF CheckpointInv
<1> QED
  BY <1>1, CheckpointInvariant, PTL

\* However ticks skip slots or go back and however late a block arrives, no
\* block of a past epoch is ahead of the store's justified checkpoint.
THEOREM PulledUpTips == Spec => []PulledUpTipsRealized
<1>1. CheckpointInv => PulledUpTipsRealized
  BY DEF CheckpointInv
<1> QED
  BY <1>1, CheckpointInvariant, PTL

---------------------------------------------------------------------------
(* The proposer boost. *)

\* No block has the boost at first.
LEMMA InitBoost == Init => BoostIsCurrent
  BY DEF Init, BoostIsCurrent

\* A new slot takes the boost away.
LEMMA TickBoost ==
  ASSUME TypeOK, BoostIsCurrent, NEW t \in TickTimes, OnTick(t)
  PROVE  BoostIsCurrent'
<1>1. UNCHANGED <<blocks, blockTimeliness>>
  BY DEF OnTick, blockVars
<1>2. CurrentSlot' = SlotAt(t) /\ SlotAt(t) \in Nat
  BY BoundsAssumption, MaxTimeAssumption, SlotAndEpochNat DEF OnTick, CurrentSlot
<1>3. CASE SlotAt(t) > CurrentSlot
  BY <1>3 DEF OnTick, BoostIsCurrent
<1>4. CASE ~(SlotAt(t) > CurrentSlot)
  <2> SUFFICES ASSUME proposerBoostRoot # NoRoot
               PROVE  /\ proposerBoostRoot \in DOMAIN blockTimeliness
                      /\ blockTimeliness[proposerBoostRoot]
                      /\ blocks[proposerBoostRoot].slot >= SlotAt(t)
    BY <1>1, <1>2, <1>4 DEF OnTick, BoostIsCurrent
  <2>1. blocks[proposerBoostRoot].slot \in Nat
    BY SlotsAreNat DEF BoostIsCurrent, TypeOK, Block
  <2> QED
    BY <1>2, <1>4, <2>1, EpochsNat DEF BoostIsCurrent
<1> QED
  BY <1>3, <1>4

\* The timeliness of the stored blocks outlives an insertion.
LEMMA InsertBoost ==
  ASSUME TypeOK, BoostIsCurrent, NEW root, NEW block, NEW post,
         root \notin DOMAIN blocks, InsertBlock(root, block, post),
         UNCHANGED <<time, proposerBoostRoot>>
  PROVE  BoostIsCurrent'
<1> SUFFICES ASSUME proposerBoostRoot # NoRoot
             PROVE  /\ proposerBoostRoot \in DOMAIN blockTimeliness'
                    /\ blockTimeliness'[proposerBoostRoot]
                    /\ blocks'[proposerBoostRoot].slot >= CurrentSlot
  BY DEF BoostIsCurrent, CurrentSlot
<1>1. /\ proposerBoostRoot \in DOMAIN blockTimeliness
      /\ proposerBoostRoot \in DOMAIN blocks
      /\ proposerBoostRoot # root
  BY DEF BoostIsCurrent, TypeOK
<1>2. /\ proposerBoostRoot \in DOMAIN blockTimeliness'
      /\ blockTimeliness'[proposerBoostRoot] = blockTimeliness[proposerBoostRoot]
      /\ blocks'[proposerBoostRoot] = blocks[proposerBoostRoot]
  BY <1>1 DEF InsertBlock, Put
<1> QED
  BY <1>2 DEF BoostIsCurrent

\* on_block gives it to a timely block of the current slot only.
LEMMA OnBlockBoost ==
  ASSUME TypeOK, BoostIsCurrent, NEW root, NEW block \in Block, NEW post,
         OnBlock(root, block, post)
  PROVE  BoostIsCurrent'
<1>1. CASE BoostEarned(GetHead, root, block)
  <2>1. Timely(block) /\ proposerBoostRoot' = root
    BY <1>1 DEF BoostEarned, OnBlock
  <2>2. /\ root \in DOMAIN blockTimeliness'
        /\ blockTimeliness'[root] = Timely(block)
        /\ blocks'[root] = block
    BY DEF OnBlock, InsertBlock, Put
  <2>3. blocks'[root].slot = CurrentSlot /\ CurrentSlot' = CurrentSlot
    BY <2>1, <2>2 DEF Timely, OnBlock, CurrentSlot
  <2> QED
    BY <2>1, <2>2, <2>3, EpochsNat DEF BoostIsCurrent
<1>2. CASE ~BoostEarned(GetHead, root, block)
  BY <1>2, InsertBoost DEF OnBlock, BlockAdmissible
<1> QED
  BY <1>1, <1>2

\* A step that leaves the clock, the boost and the blocks alone.
LEMMA FrameBoost ==
  ASSUME BoostIsCurrent, UNCHANGED <<time, proposerBoostRoot, blockVars>>
  PROVE  BoostIsCurrent'
  BY DEF BoostIsCurrent, CurrentSlot, blockVars

\* No handler leaves a boost behind.
LEMMA StepBoost == TypeOK /\ BoostIsCurrent /\ [Next]_vars => BoostIsCurrent'
<1> SUFFICES ASSUME TypeOK, BoostIsCurrent, [Next]_vars PROVE BoostIsCurrent'
  OBVIOUS
<1>1. ASSUME NEW t \in TickTimes, OnTick(t) PROVE BoostIsCurrent'
  BY <1>1, TickBoost
<1>2. ASSUME NEW slashable \in WireSlashings, OnAttesterSlashing(slashable)
      PROVE  BoostIsCurrent'
  BY <1>2, FrameBoost DEF OnAttesterSlashing
<1>3. CASE AttestationStep
  BY <1>3, FrameBoost DEF AttestationStep, OnAttestation, OnAttestationAborted
<1>4. CASE BlockStep
  <2>1. PICK root \in FreshRoots, parent \in DOMAIN blocks, slot \in BlockSlots :
          \E post \in PostStates(root, [parent |-> parent, slot |-> slot]) :
            \/ OnBlock(root, [parent |-> parent, slot |-> slot], post)
            \/ OnBlockAborted(root, [parent |-> parent, slot |-> slot], post)
    BY <1>4 DEF BlockStep
  <2>2. [parent |-> parent, slot |-> slot] \in Block
    BY BlockInput
  <2>3. ASSUME NEW post,
               OnBlockAborted(root, [parent |-> parent, slot |-> slot], post)
        PROVE  BoostIsCurrent'
    BY <2>3, InsertBoost DEF OnBlockAborted, BlockAdmissible
  <2> QED
    BY <2>1, <2>2, <2>3, OnBlockBoost
<1>5. CASE UNCHANGED vars
  BY <1>5, FrameBoost DEF vars
<1> QED
  BY <1>1, <1>2, <1>3, <1>4, <1>5 DEF Next

\* The boost is never left over from a past slot, and its holder was timely.
THEOREM BoostCurrent == Spec => []BoostIsCurrent
<1> QED
  BY InitTypeOK, StepTypeOK, InitBoost, StepBoost, PTL DEF Spec

\* The first block of a slot to earn the boost keeps it until a later slot.
THEOREM BoostToFirst == Spec => BoostGoesToFirst
<1> DEFINE Kept == proposerBoostRoot # NoRoot /\ proposerBoostRoot' # proposerBoostRoot
                     => proposerBoostRoot' = NoRoot /\ SlotAt(time') > SlotAt(time)
<1>1. ASSUME [Next]_vars PROVE [Kept]_vars
  <2>1. ASSUME NEW t \in TickTimes, OnTick(t) PROVE Kept
    BY <2>1 DEF OnTick, CurrentSlot
  <2>2. ASSUME NEW slashable \in WireSlashings, OnAttesterSlashing(slashable)
        PROVE  Kept
    BY <2>2 DEF OnAttesterSlashing
  <2>3. CASE AttestationStep
    BY <2>3 DEF AttestationStep, OnAttestation, OnAttestationAborted
  <2>4. CASE BlockStep
    BY <2>4 DEF BlockStep, OnBlock, OnBlockAborted, BoostEarned
  <2> QED
    BY <1>1, <2>1, <2>2, <2>3, <2>4 DEF Next
<1> QED
  BY <1>1, PTL DEF Spec, BoostGoesToFirst

---------------------------------------------------------------------------
(* Equivocators, and blocks left half-processed. *)

\* A validator proved equivocating stays so and its vote never changes again.
THEOREM EquivocatorsStaySilent == Spec => EquivocatorsSilenced
<1> DEFINE Silent ==
      \A v \in equivocatingIndices :
        /\ v \in equivocatingIndices'
        /\ v \in DOMAIN latestMessages' <=> v \in DOMAIN latestMessages
        /\ v \in DOMAIN latestMessages => latestMessages'[v] = latestMessages[v]
<1>1. ASSUME [Next]_vars PROVE [Silent]_vars
  <2>1. ASSUME NEW t \in TickTimes, OnTick(t) PROVE Silent
    BY <2>1 DEF OnTick, voteVars
  <2>2. ASSUME NEW slashable \in WireSlashings, OnAttesterSlashing(slashable)
        PROVE  Silent
    BY <2>2 DEF OnAttesterSlashing
  <2>3. ASSUME NEW att, NEW isFromBlock, OnAttestation(att, isFromBlock)
        PROVE  Silent
    <3> SUFFICES ASSUME NEW v \in equivocatingIndices
                 PROVE  /\ v \in equivocatingIndices'
                        /\ v \in DOMAIN latestMessages' <=> v \in DOMAIN latestMessages
                        /\ v \in DOMAIN latestMessages =>
                             latestMessages'[v] = latestMessages[v]
      OBVIOUS
    <3>1. v \notin Movers(att)
      BY DEF Movers
    <3> QED
      BY <2>3, <3>1 DEF OnAttestation, UpdateLatestMessages
  <2>4. ASSUME NEW att, NEW isFromBlock, OnAttestationAborted(att, isFromBlock)
        PROVE  Silent
    BY <2>4 DEF OnAttestationAborted
  <2>5. CASE AttestationStep
    BY <2>3, <2>4, <2>5 DEF AttestationStep
  <2>6. CASE BlockStep
    BY <2>6 DEF BlockStep, OnBlock, OnBlockAborted, voteVars
  <2> QED
    BY <1>1, <2>1, <2>2, <2>5, <2>6 DEF Next
<1> QED
  BY <1>1, PTL DEF Spec, EquivocatorsSilenced

\* A leaf without an unrealized justification makes the head query of on_block
\* raise once the leaf's epoch is past, so no block is ever added.
THEOREM AbortedLeafBlocks == Spec => AbortedLeafStopsBlocks
<1> DEFINE Stuck == \E l \in Leaves(justifiedCheckpoint.root) :
                      /\ l \notin DOMAIN unrealizedJustifications
                      /\ EpochOf(blocks[l].slot) < CurrentEpoch
           Stops == Stuck => DOMAIN blocks' = DOMAIN blocks
<1>1. ASSUME TypeOK, [Next]_vars PROVE [Stops]_vars
  <2>1. ASSUME Stuck PROVE HeadRaises
    <3>1. PICK l \in Leaves(justifiedCheckpoint.root) :
            /\ l \notin DOMAIN unrealizedJustifications
            /\ EpochOf(blocks[l].slot) < CurrentEpoch
      BY <2>1
    <3>2. l \in DOMAIN blocks
      BY DEF Leaves
    <3>3. CurrentEpoch > EpochOf(blocks[l].slot)
      BY <1>1, <3>1, <3>2, EpochsNat
    <3>4. VotingSource(l) = Missing
      BY <3>1, <3>3 DEF VotingSource, UnrealizedJustification
    <3> QED
      BY <3>4 DEF HeadRaises, FilterRaises
  <2>2. CASE BlockStep
    BY <2>1, <2>2 DEF BlockStep, BlockAdmissible
  <2>3. ASSUME NEW t \in TickTimes, OnTick(t) PROVE Stops
    BY <2>3 DEF OnTick, blockVars
  <2>4. ASSUME NEW slashable \in WireSlashings, OnAttesterSlashing(slashable)
        PROVE  Stops
    BY <2>4 DEF OnAttesterSlashing, blockVars
  <2>5. CASE AttestationStep
    BY <2>5 DEF AttestationStep, OnAttestation, OnAttestationAborted, blockVars
  <2> QED
    BY <1>1, <2>2, <2>3, <2>4, <2>5 DEF Next
<1> QED
  BY <1>1, TypeCorrect, PTL DEF Spec, AbortedLeafStopsBlocks

---------------------------------------------------------------------------
(* Chain walks.  Ancestor is a recursion down parent links; it is defined   *)
(* because slots decrease on the way.                                       *)

\* A tree of blocks: parents are stored, and come earlier, but for the anchor's.
BlockTree(store) ==
  /\ DOMAIN store \subseteq Root
  /\ \A r \in DOMAIN store :
       /\ store[r].slot \in Nat
       /\ store[r].parent \in DOMAIN store \cup {NoRoot}
       /\ store[r].parent # NoRoot => store[store[r].parent].slot < store[r].slot

\* The zero root is the root of no block.
LEMMA NoRootIsNoBlock ==
  ASSUME NEW store, BlockTree(store)
  PROVE  NoRoot \notin DOMAIN store
  BY RootAssumption DEF BlockTree, NoRoot

\* The recursion equation of the walk.
LEMMA AncestorUnfolds ==
  ASSUME NEW store, BlockTree(store), NEW slot, NEW root \in RootOrNone
  PROVE  Ancestor(store, root, slot) =
           IF root \notin DOMAIN store THEN NoRoot
           ELSE IF store[root].slot > slot THEN Ancestor(store, store[root].parent, slot)
           ELSE root
<1> DEFINE D == RootOrNone
           Z == RootOrNone
           rank == [r \in D |-> IF r \in DOMAIN store THEN store[r].slot + 1 ELSE 0]
           base == {r \in D : r \notin DOMAIN store \/ ~(store[r].slot > slot)}
           out == [r \in D |-> IF r \in DOMAIN store THEN r ELSE NoRoot]
           next == [r \in D |-> store[r].parent]
           combine == [p \in D \X Z |-> p[2]]
           IsWalk(w) == w = [r \in RootOrNone |->
                           IF r \notin DOMAIN store THEN NoRoot
                           ELSE IF store[r].slot > slot THEN w[store[r].parent]
                           ELSE r]
<1>1. rank \in [D -> Nat]
  BY DEF BlockTree
<1>2. \A d \in D \ base : next[d] \in D /\ rank[next[d]] < rank[d]
  <2> SUFFICES ASSUME NEW d \in D \ base
               PROVE  next[d] \in D /\ rank[next[d]] < rank[d]
    OBVIOUS
  <2>1. d \in DOMAIN store /\ next[d] = store[d].parent /\ rank[d] = store[d].slot + 1
    OBVIOUS
  <2>2. next[d] \in D
    BY <2>1 DEF BlockTree, RootOrNone
  <2>3. CASE next[d] = NoRoot
    BY <2>1, <2>2, <2>3, NoRootIsNoBlock DEF BlockTree
  <2>4. CASE next[d] # NoRoot
    BY <2>1, <2>2, <2>4 DEF BlockTree
  <2> QED
    BY <2>2, <2>3, <2>4
<1>3. \A d \in D \cap base : out[d] \in Z
  BY DEF RootOrNone
<1>4. \A d \in D, z \in Z : combine[<<d, z>>] \in Z
  OBVIOUS
<1>5. \E f \in [D -> Z] : Unfolds(f, D, base, out, next, combine)
  <2> HIDE DEF D, Z, rank, base, out, next, combine
  <2> QED
    BY <1>1, <1>2, <1>3, <1>4, RecursionExists
<1>6. PICK f \in [D -> Z] : Unfolds(f, D, base, out, next, combine)
  BY <1>5
<1>7. IsWalk(f)
  <2> DEFINE body == [r \in RootOrNone |->
                           IF r \notin DOMAIN store THEN NoRoot
                           ELSE IF store[r].slot > slot THEN f[store[r].parent]
                           ELSE r]
  <2>1. ASSUME NEW r \in RootOrNone
        PROVE  f[r] = body[r]
    <3>1. f[r] = IF r \in base THEN out[r] ELSE combine[<<r, f[next[r]]>>]
      BY <1>6 DEF Unfolds
    <3>2. r \notin base => combine[<<r, f[next[r]]>>] = f[store[r].parent]
      BY <1>2, <1>6
    <3> QED
      BY <3>1, <3>2
  <2> QED
    BY <2>1, <1>6
<1>8. PICK w : IsWalk(w) /\ \A r : Ancestor(store, r, slot) = w[r]
  <2> DEFINE w == CHOOSE v : IsWalk(v)
  <2>1. IsWalk(w)
    BY <1>7
  <2>2. \A r : Ancestor(store, r, slot) = w[r]
    BY DEF Ancestor
  <2> QED
    BY <2>1, <2>2
<1>9. w[root] = IF root \notin DOMAIN store THEN NoRoot
                ELSE IF store[root].slot > slot THEN w[store[root].parent]
                ELSE root
  BY <1>8
<1> QED
  BY <1>8, <1>9

\* The walk ends at a stored block at or below the slot, or leaves the store.
LEMMA AncestorType ==
  ASSUME NEW store, BlockTree(store), NEW slot, NEW root \in RootOrNone
  PROVE  LET a == Ancestor(store, root, slot)
         IN a = NoRoot \/ (a \in DOMAIN store /\ ~(store[a].slot > slot))
<1> DEFINE Good(r) == LET a == Ancestor(store, r, slot)
                      IN a = NoRoot \/ (a \in DOMAIN store /\ ~(store[a].slot > slot))
           D == DOMAIN store
           rank == [r \in D |-> store[r].slot]
           S == {r \in D : Good(r)}
<1>1. ASSUME NEW r \in RootOrNone, r \notin D PROVE Good(r)
  BY <1>1, AncestorUnfolds
<1>2. ASSUME NEW r \in D, \A e \in D : rank[e] < rank[r] => e \in S
      PROVE  r \in S
  <2>1. r \in RootOrNone
    BY DEF BlockTree, RootOrNone
  <2>2. CASE ~(store[r].slot > slot)
    BY <2>1, <2>2, AncestorUnfolds
  <2>3. CASE store[r].slot > slot
    <3>1. Ancestor(store, r, slot) = Ancestor(store, store[r].parent, slot)
      BY <2>1, <2>3, AncestorUnfolds
    <3>2. CASE store[r].parent \in D
      <4>1. store[r].parent # NoRoot /\ store[store[r].parent].slot < store[r].slot
        BY <3>2, NoRootIsNoBlock DEF BlockTree
      <4> QED
        BY <3>1, <3>2, <4>1, <1>2
    <3>3. CASE store[r].parent \notin D
      <4>1. store[r].parent = NoRoot
        BY <3>3 DEF BlockTree
      <4> QED
        BY <3>1, <3>3, <4>1, <1>1 DEF RootOrNone
    <3> QED
      BY <3>2, <3>3
  <2> QED
    BY <2>2, <2>3
<1>3. rank \in [D -> Nat] /\ S \in SUBSET D
  BY DEF BlockTree
<1>4. S = D
  <2> HIDE DEF S, rank, D
  <2> QED
    BY <1>2, <1>3, RankInduction
<1> QED
  BY <1>1, <1>4

\* A new block changes no walk from another root.
LEMMA AncestorKept ==
  ASSUME NEW store, BlockTree(store), NEW new \in Root \ DOMAIN store, NEW block,
         BlockTree(Put(store, new, block)),
         NEW slot, NEW root \in RootOrNone, root # new
  PROVE  Ancestor(Put(store, new, block), root, slot) = Ancestor(store, root, slot)
<1> DEFINE after == Put(store, new, block)
           D == DOMAIN store
           rank == [r \in D |-> store[r].slot]
           S == {r \in D : Ancestor(after, r, slot) = Ancestor(store, r, slot)}
<1>1. /\ DOMAIN after = D \cup {new}
      /\ \A r \in D : after[r] = store[r]
  BY DEF Put
<1> HIDE DEF after
<1>2. ASSUME NEW r \in RootOrNone, r \notin D, r # new
      PROVE  Ancestor(after, r, slot) = Ancestor(store, r, slot)
  BY <1>1, <1>2, AncestorUnfolds DEF after
<1>3. ASSUME NEW r \in D, \A e \in D : rank[e] < rank[r] => e \in S
      PROVE  r \in S
  <2>1. r \in RootOrNone /\ store[r].parent \in RootOrNone
    BY DEF BlockTree, RootOrNone
  <2>2. CASE ~(store[r].slot > slot)
    BY <1>1, <2>1, <2>2, AncestorUnfolds DEF after
  <2>3. CASE store[r].slot > slot
    <3>1. /\ Ancestor(store, r, slot) = Ancestor(store, store[r].parent, slot)
          /\ Ancestor(after, r, slot) = Ancestor(after, store[r].parent, slot)
      BY <1>1, <2>1, <2>3, AncestorUnfolds DEF after
    <3>2. CASE store[r].parent \in D
      <4>1. store[r].parent # NoRoot /\ store[store[r].parent].slot < store[r].slot
        BY <3>2, NoRootIsNoBlock DEF BlockTree
      <4> QED
        BY <3>1, <3>2, <4>1, <1>3
    <3>3. CASE store[r].parent \notin D
      <4>1. store[r].parent = NoRoot /\ NoRoot # new
        BY <3>3, RootAssumption DEF BlockTree, NoRoot
      <4> QED
        BY <3>1, <3>3, <4>1, <1>2 DEF RootOrNone
    <3> QED
      BY <3>2, <3>3
  <2> QED
    BY <2>2, <2>3
<1>4. rank \in [D -> Nat] /\ S \in SUBSET D
  BY DEF BlockTree
<1>5. S = D
  <2> HIDE DEF S, rank, D
  <2> QED
    BY <1>3, <1>4, RankInduction
<1> QED
  BY <1>2, <1>5 DEF after

---------------------------------------------------------------------------
(* The stored blocks are a tree that grows from the anchor.                 *)

RootedTree(store) ==
  /\ BlockTree(store)
  /\ AnchorRoot \in DOMAIN store
  /\ store[AnchorRoot].slot = AnchorSlot
  /\ \A r \in DOMAIN store \ {AnchorRoot} : store[r].parent \in DOMAIN store

AnchoredTree == RootedTree(blocks)

\* No walk to a slot at or above the anchor's leaves the store.
LEMMA WalkFound ==
  ASSUME NEW store, RootedTree(store),
         NEW slot \in Nat, slot >= AnchorSlot, NEW root \in DOMAIN store
  PROVE  /\ Ancestor(store, root, slot) \in DOMAIN store
         /\ store[Ancestor(store, root, slot)].slot <= slot
<1> DEFINE D == DOMAIN store
           rank == [r \in D |-> store[r].slot]
           S == {r \in D : Ancestor(store, r, slot) # NoRoot}
<1>1. ASSUME NEW r \in D, \A e \in D : rank[e] < rank[r] => e \in S
      PROVE  r \in S
  <2>1. r \in RootOrNone /\ r # NoRoot
    BY NoRootIsNoBlock DEF RootedTree, BlockTree, RootOrNone
  <2>2. CASE ~(store[r].slot > slot)
    BY <2>1, <2>2, AncestorUnfolds DEF RootedTree
  <2>3. CASE store[r].slot > slot
    <3>1. Ancestor(store, r, slot) = Ancestor(store, store[r].parent, slot)
      BY <2>1, <2>3, AncestorUnfolds DEF RootedTree
    <3>2. r # AnchorRoot
      BY <2>3, AnchorAssumption DEF RootedTree
    <3>3. store[r].parent \in D /\ store[r].parent # NoRoot
      BY <3>2, NoRootIsNoBlock DEF RootedTree
    <3>4. rank[store[r].parent] < rank[r]
      BY <3>3 DEF RootedTree, BlockTree
    <3> QED
      BY <1>1, <3>1, <3>3, <3>4
  <2> QED
    BY <2>2, <2>3
<1>2. rank \in [D -> Nat] /\ S \in SUBSET D
  BY DEF RootedTree, BlockTree
<1>3. S = D
  <2> HIDE DEF S, rank, D
  <2> QED
    BY <1>1, <1>2, RankInduction
<1>4. root \in RootOrNone /\ Ancestor(store, root, slot) # NoRoot
  BY <1>3 DEF RootedTree, BlockTree, RootOrNone
<1>5. LET a == Ancestor(store, root, slot)
      IN a \in DOMAIN store /\ ~(store[a].slot > slot)
  BY <1>4, AncestorType DEF RootedTree
<1> QED
  BY <1>5 DEF RootedTree, BlockTree

\* The same in the store.
LEMMA AncestorFound ==
  ASSUME AnchoredTree, NEW slot \in Nat, slot >= AnchorSlot, NEW root \in DOMAIN blocks
  PROVE  /\ Ancestor(blocks, root, slot) \in DOMAIN blocks
         /\ blocks[Ancestor(blocks, root, slot)].slot <= slot
  BY WalkFound DEF AnchoredTree

\* The anchor alone is such a tree.
LEMMA InitAnchoredTree == Init => AnchoredTree
<1> SUFFICES ASSUME Init PROVE AnchoredTree
  OBVIOUS
<1> DEFINE anchorBlock == [parent |-> NoRoot, slot |-> AnchorSlot]
<1>1. /\ DOMAIN blocks = {AnchorRoot}
      /\ blocks[AnchorRoot] = anchorBlock
  BY SingletonType DEF Init
<1> QED
  BY <1>1, AnchorAssumption DEF AnchoredTree, RootedTree, BlockTree

\* A block that on_block lets in is new, has a stored parent of an earlier slot,
\* and makes the tree grow.
LEMMA AdmissibleGrowsTree ==
  ASSUME TypeOK, AnchoredTree, NEW root \in Root, NEW block \in Block,
         BlockAdmissible(root, block)
  PROVE  /\ RootedTree(Put(blocks, root, block))
         /\ root \in Root \ DOMAIN blocks
         /\ block.parent \in DOMAIN blocks
         /\ block.slot \in Nat
         /\ blocks[block.parent].slot < block.slot
<1>1. /\ root \notin DOMAIN blocks
      /\ block.parent \in DOMAIN blocks
      /\ block.slot \in Nat
      /\ blocks[block.parent].slot < block.slot
  <2>1. DOMAIN blockStates = DOMAIN blocks
    BY DEF TypeOK
  <2>2. block.slot \in Nat
    BY SlotsAreNat DEF Block
  <2>3. blocks[block.parent].slot \in Nat
    BY <2>1 DEF BlockAdmissible, AnchoredTree, RootedTree, BlockTree
  <2> QED
    BY <2>1, <2>2, <2>3 DEF BlockAdmissible
<1>2. /\ DOMAIN Put(blocks, root, block) = DOMAIN blocks \cup {root}
      /\ \A r \in DOMAIN blocks : Put(blocks, root, block)[r] = blocks[r]
      /\ Put(blocks, root, block)[root] = block
  BY <1>1 DEF Put
<1>3. BlockTree(Put(blocks, root, block))
  <2> DEFINE after == Put(blocks, root, block)
  <2>1. DOMAIN after \subseteq Root
    BY <1>2 DEF AnchoredTree, RootedTree, BlockTree
  <2>2. ASSUME NEW r \in DOMAIN blocks
        PROVE  /\ after[r].slot \in Nat
               /\ after[r].parent \in DOMAIN after \cup {NoRoot}
               /\ after[r].parent # NoRoot => after[after[r].parent].slot < after[r].slot
    <3>1. after[r] = blocks[r]
      BY <1>2
    <3>2. blocks[r].parent \in DOMAIN blocks \cup {NoRoot}
      BY DEF AnchoredTree, RootedTree, BlockTree
    <3> HIDE DEF after
    <3>3. CASE blocks[r].parent \in DOMAIN blocks
      <4>1. after[blocks[r].parent] = blocks[blocks[r].parent]
        BY <1>2, <3>3 DEF after
      <4> QED
        BY <1>2, <3>1, <3>3, <4>1 DEF AnchoredTree, RootedTree, BlockTree, after
    <3>4. CASE blocks[r].parent = NoRoot
      BY <3>1, <3>4 DEF AnchoredTree, RootedTree, BlockTree
    <3> QED
      BY <3>2, <3>3, <3>4
  <2>3. /\ after[root].slot \in Nat
        /\ after[root].parent \in DOMAIN after \cup {NoRoot}
        /\ after[root].parent # NoRoot =>
             after[after[root].parent].slot < after[root].slot
    BY <1>1, <1>2
  <2> HIDE DEF after
  <2> QED
    BY <2>1, <2>2, <2>3, <1>2 DEF BlockTree, after
<1>4. RootedTree(Put(blocks, root, block))
  BY <1>1, <1>2, <1>3 DEF AnchoredTree, RootedTree
<1> QED
  BY <1>1, <1>4

\* What on_block inserts, whether it completes or aborts.
LEMMA InsertAnchoredTree ==
  ASSUME TypeOK, AnchoredTree, NEW root \in Root, NEW block \in Block, NEW post,
         BlockAdmissible(root, block), InsertBlock(root, block, post)
  PROVE  /\ AnchoredTree'
         /\ blocks' = Put(blocks, root, block)
         /\ BlockTree(Put(blocks, root, block))
         /\ root \in Root \ DOMAIN blocks
<1>1. RootedTree(Put(blocks, root, block)) /\ root \in Root \ DOMAIN blocks
  BY AdmissibleGrowsTree
<1>2. blocks' = Put(blocks, root, block)
  BY DEF InsertBlock
<1>3. AnchoredTree'
  BY <1>1, <1>2 DEF AnchoredTree, RootedTree, BlockTree
<1> QED
  BY <1>1, <1>2, <1>3 DEF RootedTree

\* A block step, taken apart once for the invariants below: either outcome of
\* on_block, on inputs of the right type.
LEMMA BlockStepCases ==
  ASSUME TypeOK, BlockStep
  PROVE  \E root \in Root, block \in Block, post \in BlockState :
           /\ block.parent \in DOMAIN blocks
           /\ post \in PostStates(root, block)
           /\ OnBlock(root, block, post) \/ OnBlockAborted(root, block, post)
<1>1. PICK root \in FreshRoots, parent \in DOMAIN blocks, slot \in BlockSlots :
        \E post \in PostStates(root, [parent |-> parent, slot |-> slot]) :
          \/ OnBlock(root, [parent |-> parent, slot |-> slot], post)
          \/ OnBlockAborted(root, [parent |-> parent, slot |-> slot], post)
  BY DEF BlockStep
<1> DEFINE block == [parent |-> parent, slot |-> slot]
<1>2. PICK post \in PostStates(root, block) :
        OnBlock(root, block, post) \/ OnBlockAborted(root, block, post)
  BY <1>1
<1>3. root \in Root /\ block \in Block /\ slot \in Slot /\ block.parent = parent
  BY BlockInput DEF FreshRoots
<1>4. post \in BlockState
  BY <1>3, PostStateType
<1> QED
  BY <1>2, <1>3, <1>4

\* The blocks stay a tree that hangs from the anchor.
LEMMA StepAnchoredTree == TypeOK /\ AnchoredTree /\ [Next]_vars => AnchoredTree'
<1> SUFFICES ASSUME TypeOK, AnchoredTree, [Next]_vars PROVE AnchoredTree'
  OBVIOUS
<1>1. CASE BlockStep
  BY <1>1, BlockStepCases, InsertAnchoredTree DEF OnBlock, OnBlockAborted
<1>2. ASSUME UNCHANGED blocks PROVE AnchoredTree'
  BY <1>2 DEF AnchoredTree, RootedTree, BlockTree
<1>3. BlockStep \/ UNCHANGED blocks
  BY DEF Next, OnTick, OnAttesterSlashing, AttestationStep, OnAttestation,
         OnAttestationAborted, vars, blockVars
<1> QED
  BY <1>1, <1>2, <1>3

---------------------------------------------------------------------------
(* The votes. *)

\* What VotesBacked says of one latest message.
Backed(message, store, states) ==
  /\ message.root \in DOMAIN store
  /\ EpochOf(store[message.root].slot) <= message.epoch
  /\ [epoch |-> message.epoch,
      root |-> CheckpointBlock(store, message.root, message.epoch)] \in states

\* VotesBacked, vote by vote.
LEMMA VotesBackedEach ==
  VotesBacked <=> \A v \in DOMAIN latestMessages :
                    Backed(latestMessages[v], blocks, checkpointStates)
  BY DEF VotesBacked, Backed

\* A later slot is in no earlier epoch.
LEMMA EpochMonotone ==
  ASSUME NEW a \in Nat, NEW b \in Nat, a <= b
  PROVE  EpochOf(a) <= EpochOf(b)
<1>1. ASSUME NEW d \in Nat \ {0} PROVE a \div d <= b \div d
  <2>1. /\ a \div d \in Nat /\ (a \div d) * d <= a
        /\ b \div d \in Nat /\ b < (b \div d + 1) * d
    OBVIOUS
  <2>2. ASSUME a \div d >= b \div d + 1 PROVE FALSE
    <3>1. (a \div d) * d >= (b \div d + 1) * d
      BY <2>1, <2>2
    <3> QED
      BY <2>1, <3>1
  <2> QED
    BY <2>1, <2>2
<1> QED
  BY <1>1, SlotsPerEpochAssumption DEF EpochOf

\* A new block changes no walk from a block already stored.
LEMMA BlockVotesBacked ==
  ASSUME TypeOK, AnchoredTree, VotesBacked, BlockStep
  PROVE  VotesBacked'
<1>1. PICK root \in Root, block \in Block, post \in BlockState :
        OnBlock(root, block, post) \/ OnBlockAborted(root, block, post)
  BY BlockStepCases
<1>2. /\ BlockAdmissible(root, block) /\ InsertBlock(root, block, post)
      /\ UNCHANGED <<checkpointStates, latestMessages>>
  BY <1>1 DEF OnBlock, OnBlockAborted, voteVars
<1>3. /\ blocks' = Put(blocks, root, block)
      /\ BlockTree(Put(blocks, root, block))
      /\ root \in Root \ DOMAIN blocks
  BY <1>2, InsertAnchoredTree
<1>4. ASSUME NEW v \in DOMAIN latestMessages
      PROVE  Backed(latestMessages[v], blocks', checkpointStates)
  <2> DEFINE r == latestMessages[v].root
  <2>1. r \in DOMAIN blocks /\ r # root /\ r \in RootOrNone
    BY <1>3 DEF VotesBacked, AnchoredTree, RootedTree, BlockTree, RootOrNone
  <2>2. \A slot : Ancestor(blocks', r, slot) = Ancestor(blocks, r, slot)
    <3> HIDE DEF r
    <3> QED
      BY <1>3, <2>1, AncestorKept DEF AnchoredTree, RootedTree
  <2>3. r \in DOMAIN blocks' /\ blocks'[r] = blocks[r]
    BY <1>3, <2>1 DEF Put
  <2> QED
    BY <2>1, <2>2, <2>3, VotesBackedEach DEF Backed, CheckpointBlock
<1> QED
  BY <1>2, <1>4 DEF VotesBacked, Backed

\* A new vote brings its target with it.
LEMMA AttestationVotesBacked ==
  ASSUME TypeOK, AnchoredTree, VotesBacked, AttestationStep
  PROVE  VotesBacked'
<1>1. PICK slot \in Slot, root \in DOMAIN blocks, isFromBlock \in BOOLEAN,
           attesters \in WireAttesters \cup BodyAttesters :
        LET att == AttestationOf(slot, root, attesters)
        IN OnAttestation(att, isFromBlock) \/ OnAttestationAborted(att, isFromBlock)
  BY DEF AttestationStep
<1> DEFINE att == AttestationOf(slot, root, attesters)
           voted == [epoch |-> att.target.epoch, root |-> att.root]
<1>2. /\ att.root = root
      /\ att.target = [epoch |-> EpochOf(slot),
                       root |-> CheckpointBlock(blocks, root, EpochOf(slot))]
      /\ blocks[root].slot <= slot
      /\ checkpointStates' = checkpointStates \cup {att.target}
      /\ UNCHANGED blocks
  BY <1>1 DEF AttestationOf, OnAttestation, OnAttestationAborted, ValidAttestation,
              StoreTargetCheckpointState, blockVars
<1>3. EpochOf(blocks[root].slot) <= EpochOf(slot)
  BY <1>2, EpochMonotone, SlotsAreNat DEF AnchoredTree, RootedTree, BlockTree
<1>4. Backed(voted, blocks, checkpointStates')
  BY <1>2, <1>3 DEF Backed
<1>5. ASSUME NEW v \in DOMAIN latestMessages 
      PROVE  Backed(latestMessages[v], blocks, checkpointStates')
  BY <1>2, VotesBackedEach DEF Backed
<1>6. ASSUME NEW v \in DOMAIN latestMessages'
      PROVE  \/ latestMessages'[v] = voted
             \/ v \in DOMAIN latestMessages /\ latestMessages'[v] = latestMessages[v]
  BY <1>1 DEF OnAttestation, OnAttestationAborted, UpdateLatestMessages
<1>7. UNCHANGED blocks
  BY <1>2
<1> HIDE DEF voted, att
<1>8. \A v \in DOMAIN latestMessages' : Backed(latestMessages'[v], blocks', checkpointStates')
  BY <1>4, <1>5, <1>6, <1>7
<1> QED
  BY <1>8 DEF VotesBacked, Backed

\* Votes stay backed.
LEMMA StepVotesBacked ==
  TypeOK /\ AnchoredTree /\ VotesBacked /\ [Next]_vars => VotesBacked'
<1> SUFFICES ASSUME TypeOK, AnchoredTree, VotesBacked, [Next]_vars PROVE VotesBacked'
  OBVIOUS
<1>1. ASSUME UNCHANGED <<blocks, checkpointStates, latestMessages>> PROVE VotesBacked'
  BY <1>1 DEF VotesBacked
<1>2. \/ BlockStep \/ AttestationStep
      \/ UNCHANGED <<blocks, checkpointStates, latestMessages>>
  BY DEF Next, OnTick, OnAttesterSlashing, vars, blockVars, voteVars
<1> QED
  BY <1>1, <1>2, BlockVotesBacked, AttestationVotesBacked

\* A latest message always votes for a stored block no later than its target
\* epoch, and the state of its target stays cached, whatever blocks come later.
THEOREM EveryVoteBacked == Spec => []VotesBacked
<1>1. Init => VotesBacked
  BY DEF Init, VotesBacked
<1> QED
  BY <1>1, InitTypeOK, StepTypeOK, InitAnchoredTree, StepAnchoredTree, StepVotesBacked,
     PTL DEF Spec

---------------------------------------------------------------------------
(* Why the head query can fail. *)

AnchorEpoch == EpochOf(AnchorSlot)

\* The anchors fork choice can start from: the first block of its epoch, since
\* a walk to the start of that epoch would else leave the store at once; and no
\* checkpoint of its state is of a later epoch, as the state transition ensures.
UsableAnchor ==
  /\ StartSlot(AnchorEpoch) = AnchorSlot
  /\ \A c \in {AnchorState.justified, AnchorState.finalized,
               AnchorState.pulledUpJustified, AnchorState.pulledUpFinalized} :
       c.epoch <= AnchorEpoch

\* A checkpoint the store holds: its block is stored.  One a block state holds
\* may be older than the anchor, and then its block is not stored.
Held(c, store) == c.epoch >= AnchorEpoch /\ c.root \in DOMAIN store
Known(c, store) == c.epoch > AnchorEpoch => c.root \in DOMAIN store
StateKnown(state, store) ==
  /\ Known(state.justified, store) /\ Known(state.finalized, store)
  /\ Known(state.pulledUpJustified, store) /\ Known(state.pulledUpFinalized, store)

CheckpointBlocksStored ==
  /\ Held(justifiedCheckpoint, blocks) /\ Held(finalizedCheckpoint, blocks)
  /\ Held(unrealizedJustifiedCheckpoint, blocks)
  /\ Held(unrealizedFinalizedCheckpoint, blocks)
  /\ \A r \in DOMAIN blocks : StateKnown(blockStates[r], blocks)

\* The anchor's epoch is a natural number.
LEMMA AnchorEpochNat == AnchorEpoch \in Nat
  BY SlotAndEpochNat, AnchorAssumption DEF AnchorEpoch

\* What replaces a held checkpoint is held too.
LEMMA LaterHeld ==
  ASSUME NEW store, NEW held \in Checkpoint, NEW seen \in Checkpoint,
         Held(held, store), Known(seen, store)
  PROVE  Held(Later(held, seen), store)
  BY AnchorEpochNat DEF Held, Known, Later, Checkpoint

\* What the store holds, it knows the block of.
LEMMA HeldIsKnown ==
  ASSUME NEW store, NEW c, Held(c, store)
  PROVE  Known(c, store)
  BY DEF Held, Known

\* A usable anchor is stored, and older checkpoints need not be.
LEMMA InitCheckpointBlocks ==
  ASSUME UsableAnchor, Init
  PROVE  CheckpointBlocksStored
<1> DEFINE anchor == [epoch |-> AnchorEpoch, root |-> AnchorRoot]
<1>1. /\ DOMAIN blocks = {AnchorRoot}
      /\ blockStates[AnchorRoot] = AnchorState
  BY SingletonType, AnchorStateAssumption DEF Init
<1>2. /\ justifiedCheckpoint = anchor /\ finalizedCheckpoint = anchor
      /\ unrealizedJustifiedCheckpoint = anchor
      /\ unrealizedFinalizedCheckpoint = anchor
  BY DEF Init, AnchorEpoch
<1>3. Held(anchor, blocks)
  BY <1>1, AnchorEpochNat DEF Held
<1>4. StateKnown(AnchorState, blocks)
  <2>1. ASSUME NEW c \in {AnchorState.justified, AnchorState.finalized,
                          AnchorState.pulledUpJustified, AnchorState.pulledUpFinalized}
        PROVE  Known(c, blocks)
    <3>1. c \in Checkpoint
      BY AnchorStateAssumption DEF BlockState
    <3>2. c.epoch \in Nat /\ c.epoch <= AnchorEpoch
      BY <3>1 DEF UsableAnchor, Checkpoint
    <3> QED
      BY <3>2, AnchorEpochNat DEF Known
  <2> QED
    BY <2>1 DEF StateKnown
<1> QED
  BY <1>1, <1>2, <1>3, <1>4 DEF CheckpointBlocksStored

\* Every checkpoint of a post-state has its block in the store that results.
LEMMA PostStateKnown ==
  ASSUME TypeOK, CheckpointBlocksStored, NEW root \in Root, NEW block,
         block.parent \in DOMAIN blocks, NEW post \in PostStates(root, block)
  PROVE  StateKnown(post, Put(blocks, root, block))
<1> DEFINE store == Put(blocks, root, block)
           parent == blockStates[block.parent]
           before == {parent.justified, parent.finalized,
                      parent.pulledUpJustified, parent.pulledUpFinalized}
<1>1. DOMAIN blocks \subseteq DOMAIN store
  BY DEF Put
<1>2. ASSUME NEW c \in before PROVE Known(c, store)
  BY <1>1 DEF CheckpointBlocksStored, StateKnown, Known
<1>3. ASSUME NEW c \in OwnCheckpoints(root, block) PROVE Known(c, store)
  BY DEF OwnCheckpoints, Known
<1>4. /\ post.justified \in OwnCheckpoints(root, block) \cup before
      /\ post.finalized \in OwnCheckpoints(root, block) \cup before
      /\ post.pulledUpJustified \in OwnCheckpoints(root, block) \cup before
      /\ post.pulledUpFinalized \in OwnCheckpoints(root, block) \cup before
  BY DEF PostStates
<1> HIDE DEF store, before
<1> QED
  BY <1>2, <1>3, <1>4 DEF StateKnown, store

\* on_block takes its checkpoints from the block's own chain or its parent.
LEMMA BlockCheckpointBlocks ==
  ASSUME TypeOK, AnchoredTree, CheckpointBlocksStored, BlockStep
  PROVE  CheckpointBlocksStored'
<1>1. PICK root \in Root, block \in Block, post \in BlockState :
        /\ block.parent \in DOMAIN blocks
        /\ post \in PostStates(root, block)
        /\ OnBlock(root, block, post) \/ OnBlockAborted(root, block, post)
  BY BlockStepCases
<1>2. /\ BlockAdmissible(root, block) /\ InsertBlock(root, block, post)
  BY <1>1 DEF OnBlock, OnBlockAborted
<1>3. /\ blocks' = Put(blocks, root, block)
      /\ root \notin DOMAIN blocks
      /\ DOMAIN blocks' = DOMAIN blocks \cup {root}
  BY <1>2, InsertAnchoredTree, InsertBlockType
<1>4. StateKnown(post, blocks')
  BY <1>1, <1>3, PostStateKnown
<1>5. /\ blockStates'[root] = post
      /\ \A r \in DOMAIN blocks : blockStates'[r] = blockStates[r]
  BY <1>2, <1>3 DEF InsertBlock, Put, TypeOK
<1>6. /\ \A c : Held(c, blocks) => Held(c, blocks')
      /\ \A c : Known(c, blocks) => Known(c, blocks')
  BY <1>3 DEF Held, Known
<1>7. \A r \in DOMAIN blocks' : StateKnown(blockStates'[r], blocks')
  <2>1. ASSUME NEW r \in DOMAIN blocks PROVE StateKnown(blockStates'[r], blocks')
    BY <1>5, <1>6 DEF CheckpointBlocksStored, StateKnown
  <2> QED
    BY <2>1, <1>3, <1>4, <1>5
<1>8. /\ Held(justifiedCheckpoint, blocks') /\ Held(finalizedCheckpoint, blocks')
      /\ Held(unrealizedJustifiedCheckpoint, blocks')
      /\ Held(unrealizedFinalizedCheckpoint, blocks')
  BY <1>6 DEF CheckpointBlocksStored
<1>9. /\ Held(justifiedCheckpoint', blocks') /\ Held(finalizedCheckpoint', blocks')
      /\ Held(unrealizedJustifiedCheckpoint', blocks')
      /\ Held(unrealizedFinalizedCheckpoint', blocks')
  <2>1. CASE OnBlock(root, block, post)
    <3>1. /\ post.justified \in Checkpoint /\ post.finalized \in Checkpoint
          /\ post.pulledUpJustified \in Checkpoint
          /\ post.pulledUpFinalized \in Checkpoint
      BY DEF BlockState
    <3>2. /\ justifiedCheckpoint \in Checkpoint /\ finalizedCheckpoint \in Checkpoint
          /\ unrealizedJustifiedCheckpoint \in Checkpoint
          /\ unrealizedFinalizedCheckpoint \in Checkpoint
      BY DEF TypeOK
    <3>3. /\ Known(post.justified, blocks') /\ Known(post.finalized, blocks')
          /\ Known(post.pulledUpJustified, blocks')
          /\ Known(post.pulledUpFinalized, blocks')
      BY <1>4 DEF StateKnown
    <3> DEFINE justified == Later(justifiedCheckpoint, post.justified)
               finalized == Later(finalizedCheckpoint, post.finalized)
    <3>4. /\ Held(justified, blocks') /\ Held(finalized, blocks')
          /\ justified \in Checkpoint /\ finalized \in Checkpoint
      BY <1>8, <3>1, <3>2, <3>3, LaterHeld, LaterType
    <3>5. /\ Held(Later(justified, post.pulledUpJustified), blocks')
          /\ Held(Later(finalized, post.pulledUpFinalized), blocks')
          /\ Held(Later(unrealizedJustifiedCheckpoint, post.pulledUpJustified), blocks')
          /\ Held(Later(unrealizedFinalizedCheckpoint, post.pulledUpFinalized), blocks')
      <4> HIDE DEF justified, finalized
      <4> QED
        BY <1>8, <3>1, <3>2, <3>3, <3>4, LaterHeld
    <3> QED
      BY <2>1, <3>4, <3>5 DEF OnBlock, RealizeCheckpoints
  <2>2. CASE OnBlockAborted(root, block, post)
    BY <2>2, <1>8 DEF OnBlockAborted, checkpointVars, unrealizedVars
  <2> QED
    BY <1>1, <2>1, <2>2
<1> QED
  BY <1>7, <1>9 DEF CheckpointBlocksStored

\* on_tick realizes what the store holds already.
LEMMA TickCheckpointBlocks ==
  ASSUME TypeOK, CheckpointBlocksStored, NEW t \in TickTimes, OnTick(t)
  PROVE  CheckpointBlocksStored'
<1>1. /\ UNCHANGED <<unrealizedVars, blockVars>>
  BY DEF OnTick
<1>2. /\ justifiedCheckpoint \in Checkpoint /\ finalizedCheckpoint \in Checkpoint
      /\ unrealizedJustifiedCheckpoint \in Checkpoint
      /\ unrealizedFinalizedCheckpoint \in Checkpoint
  BY DEF TypeOK
<1>3. /\ Held(Later(justifiedCheckpoint, unrealizedJustifiedCheckpoint), blocks)
      /\ Held(Later(finalizedCheckpoint, unrealizedFinalizedCheckpoint), blocks)
  BY <1>2, LaterHeld, HeldIsKnown DEF CheckpointBlocksStored
<1>4. Held(justifiedCheckpoint', blocks) /\ Held(finalizedCheckpoint', blocks)
  BY <1>3 DEF OnTick, CheckpointBlocksStored, checkpointVars
<1> QED
  BY <1>1, <1>4 DEF CheckpointBlocksStored, unrealizedVars, blockVars

\* The blocks of the held checkpoints stay in the store.
LEMMA StepCheckpointBlocks ==
  TypeOK /\ AnchoredTree /\ CheckpointBlocksStored /\ [Next]_vars => CheckpointBlocksStored'
<1> SUFFICES ASSUME TypeOK, AnchoredTree, CheckpointBlocksStored, [Next]_vars
             PROVE  CheckpointBlocksStored'
  OBVIOUS
<1>1. ASSUME UNCHANGED <<checkpointVars, unrealizedVars, blockVars>>
      PROVE  CheckpointBlocksStored'
  BY <1>1 DEF CheckpointBlocksStored, checkpointVars, unrealizedVars, blockVars
<1>2. \/ BlockStep \/ \E t \in TickTimes : OnTick(t)
      \/ UNCHANGED <<checkpointVars, unrealizedVars, blockVars>>
  BY DEF Next, OnAttesterSlashing, AttestationStep, OnAttestation,
         OnAttestationAborted, vars
<1> QED
  BY <1>1, <1>2, BlockCheckpointBlocks, TickCheckpointBlocks

\* What get_head reads, in a state where the checkpoint blocks are stored.
LEMMA HeadReads ==
  ASSUME UsableAnchor, TypeOK, AnchoredTree, CheckpointBlocksStored
  PROVE  HeadFailureExplained
<1> SUFFICES ASSUME HeadRaises, justifiedCheckpoint \in checkpointStates
             PROVE  \E r \in DOMAIN blocks \ DOMAIN unrealizedJustifications :
                      EpochOf(blocks[r].slot) < CurrentEpoch
  BY DEF HeadFailureExplained
<1>1. PICK l \in Leaves(justifiedCheckpoint.root) :
        \/ VotingSource(l) = Missing
        \/ CheckpointBlock(blocks, l, finalizedCheckpoint.epoch) = NoRoot
  BY DEF HeadRaises, FilterRaises, CheckpointBlocksStored, Held
<1>2. l \in DOMAIN blocks
  BY DEF Leaves
<1>3. CheckpointBlock(blocks, l, finalizedCheckpoint.epoch) # NoRoot
  <2> DEFINE slot == StartSlot(finalizedCheckpoint.epoch)
  <2>1. slot \in Nat /\ slot >= AnchorSlot
    <3>1. /\ finalizedCheckpoint.epoch \in Nat /\ finalizedCheckpoint.epoch >= AnchorEpoch
          /\ AnchorEpoch * SlotsPerEpoch = AnchorSlot
      BY EpochsNat DEF CheckpointBlocksStored, Held, UsableAnchor, StartSlot
    <3>2. ASSUME NEW e \in Nat, NEW a \in Nat, NEW n \in Nat, e >= a
          PROVE  e * n \in Nat /\ e * n >= a * n
      BY <3>2
    <3> QED
      BY <3>1, <3>2, AnchorEpochNat, SlotsPerEpochAssumption DEF StartSlot
  <2> HIDE DEF slot
  <2>2. Ancestor(blocks, l, slot) \in DOMAIN blocks
    BY <1>2, <2>1, AncestorFound
  <2> QED
    BY <2>2, NoRootIsNoBlock DEF CheckpointBlock, AnchoredTree, RootedTree, slot
<1>4. VotingSource(l) = Missing
  BY <1>1, <1>3
<1>5. Missing \notin Checkpoint
  BY DEF Missing, Checkpoint
<1>6. CASE CurrentEpoch > EpochOf(blocks[l].slot)
  <2>1. l \notin DOMAIN unrealizedJustifications
    BY <1>4, <1>5, <1>6 DEF VotingSource, UnrealizedJustification, TypeOK
  <2>2. EpochOf(blocks[l].slot) < CurrentEpoch
    BY <1>2, <1>6, EpochsNat
  <2> QED
    BY <1>2, <2>1, <2>2
<1>7. CASE ~(CurrentEpoch > EpochOf(blocks[l].slot))
  BY <1>2, <1>4, <1>5, <1>7 DEF VotingSource, TypeOK, BlockState
<1> QED
  BY <1>6, <1>7

\* From any usable anchor the head query fails for two reasons only: a block
\* of a past epoch that on_block left half-processed, or a justified checkpoint
\* whose state no attestation has cached yet.
THEOREM HeadFailuresExplained ==
  ASSUME UsableAnchor
  PROVE  Spec => []HeadFailureExplained
<1>1. Init => CheckpointBlocksStored
  BY InitCheckpointBlocks
<1>2. TypeOK /\ AnchoredTree /\ CheckpointBlocksStored => HeadFailureExplained
  BY HeadReads
<1> QED
  BY <1>1, <1>2, InitTypeOK, StepTypeOK, InitAnchoredTree, StepAnchoredTree,
     StepCheckpointBlocks, PTL DEF Spec

---------------------------------------------------------------------------
(* The head follows a majority.                                             *)

\* Two walks in a row are the walk to the lower slot.
LEMMA AncestorTwice ==
  ASSUME NEW store, BlockTree(store), NEW s \in Nat, NEW t \in Nat, t <= s,
         NEW root \in RootOrNone, Ancestor(store, root, s) \in DOMAIN store
  PROVE  Ancestor(store, Ancestor(store, root, s), t) = Ancestor(store, root, t)
<1> DEFINE D == DOMAIN store
           rank == [r \in D |-> store[r].slot]
           Twice(r) == Ancestor(store, Ancestor(store, r, s), t) = Ancestor(store, r, t)
           S == {r \in D : Ancestor(store, r, s) \in D => Twice(r)}
<1>1. ASSUME NEW r \in D, \A e \in D : rank[e] < rank[r] => e \in S
      PROVE  r \in S
  <2> SUFFICES ASSUME Ancestor(store, r, s) \in D PROVE Twice(r)
    OBVIOUS
  <2>1. r \in RootOrNone /\ store[r].slot \in Nat
    BY DEF BlockTree, RootOrNone
  <2>2. CASE ~(store[r].slot > s)
    BY <2>1, <2>2, AncestorUnfolds
  <2>3. CASE store[r].slot > s
    <3> DEFINE p == store[r].parent
    <3>1. /\ Ancestor(store, r, s) = Ancestor(store, p, s)
          /\ Ancestor(store, r, t) = Ancestor(store, p, t)
      BY <2>1, <2>3, AncestorUnfolds
    <3>2. p \in D
      <4>1. ASSUME p \notin D PROVE FALSE
        <5>1. p = NoRoot /\ p \in RootOrNone
          BY <4>1 DEF BlockTree, RootOrNone
        <5>2. Ancestor(store, p, s) = NoRoot
          BY <4>1, <5>1, AncestorUnfolds
        <5> QED
          BY <3>1, <5>2, NoRootIsNoBlock
      <4> QED
        BY <4>1
    <3>3. rank[p] < rank[r]
      BY <3>2, NoRootIsNoBlock DEF BlockTree
    <3>4. Twice(p)
      BY <1>1, <3>1, <3>2, <3>3
    <3> QED
      BY <3>1, <3>4
  <2> QED
    BY <2>2, <2>3
<1>2. rank \in [D -> Nat] /\ S \in SUBSET D
  BY DEF BlockTree
<1>3. S = D
  <2> HIDE DEF S, rank, D
  <2> QED
    BY <1>1, <1>2, RankInduction
<1>4. root \in D
  BY AncestorUnfolds, NoRootIsNoBlock
<1> QED
  BY <1>3, <1>4

\* What Supports says, one link at a time.
LEMMA SupportsItself ==
  ASSUME BlockTree(blocks), NEW n \in DOMAIN blocks
  PROVE  Supports(n, n)
  BY AncestorUnfolds DEF Supports, BlockTree, RootOrNone

\* A descendant is of a later slot.
LEMMA SupportsIsOrdered ==
  ASSUME BlockTree(blocks), NEW r \in DOMAIN blocks, NEW n \in DOMAIN blocks, Supports(r, n)
  PROVE  /\ blocks[n].slot <= blocks[r].slot
         /\ r # n => blocks[n].slot < blocks[r].slot
<1>1. r \in RootOrNone /\ blocks[r].slot \in Nat /\ blocks[n].slot \in Nat
  BY DEF BlockTree, RootOrNone
<1>2. ~(blocks[r].slot > blocks[n].slot) => r = n
  BY <1>1, AncestorUnfolds DEF Supports
<1> QED
  BY <1>1, <1>2

\* A descendant of a descendant is a descendant.
LEMMA SupportsTransitive ==
  ASSUME BlockTree(blocks), NEW r \in RootOrNone, NEW n \in DOMAIN blocks,
         NEW m \in DOMAIN blocks, Supports(r, n), Supports(n, m)
  PROVE  Supports(r, m)
<1>1. blocks[n].slot \in Nat /\ blocks[m].slot \in Nat /\ blocks[m].slot <= blocks[n].slot
  BY SupportsIsOrdered DEF BlockTree
<1> QED
  BY <1>1, AncestorTwice DEF Supports

\* Of two blocks that one vote supports, one supports the other.
LEMMA SupportedAreOrdered ==
  ASSUME BlockTree(blocks), NEW r \in RootOrNone, NEW n \in DOMAIN blocks,
         NEW m \in DOMAIN blocks, Supports(r, n), Supports(r, m),
         blocks[m].slot <= blocks[n].slot
  PROVE  Supports(n, m)
<1>1. blocks[n].slot \in Nat /\ blocks[m].slot \in Nat
  BY DEF BlockTree
<1> QED
  BY <1>1, AncestorTwice DEF Supports

\* A child supports whatever its parent does.
LEMMA ChildSupports ==
  ASSUME BlockTree(blocks), NEW n \in DOMAIN blocks, NEW c \in Children(n),
         NEW m \in DOMAIN blocks, Supports(n, m)
  PROVE  /\ c \in DOMAIN blocks /\ c # n
         /\ blocks[n].slot < blocks[c].slot
         /\ Supports(c, m)
<1>1. /\ c \in DOMAIN blocks /\ c \in RootOrNone /\ n # NoRoot
      /\ blocks[c].parent = n /\ blocks[n].slot < blocks[c].slot
  BY NoRootIsNoBlock DEF Children, BlockTree, RootOrNone
<1>2. blocks[c].slot > blocks[m].slot
  BY <1>1, SupportsIsOrdered DEF BlockTree
<1>3. Ancestor(blocks, c, blocks[m].slot) = Ancestor(blocks, n, blocks[m].slot)
  BY <1>1, <1>2, AncestorUnfolds
<1> QED
  BY <1>1, <1>3 DEF Supports, BlockTree

\* From a block's proper ancestor one child leads to the block.
LEMMA ChildTowards ==
  ASSUME BlockTree(blocks), NEW n \in DOMAIN blocks, NEW root \in DOMAIN blocks,
         root # n, Supports(root, n)
  PROVE  \E c \in Children(n) : Supports(root, c)
<1> DEFINE D == DOMAIN blocks
           rank == [r \in D |-> blocks[r].slot]
           Towards(r) == \E c \in Children(n) : Supports(r, c)
           S == {r \in D : r # n /\ Supports(r, n) => Towards(r)}
<1>1. ASSUME NEW r \in D, \A e \in D : rank[e] < rank[r] => e \in S
      PROVE  r \in S
  <2> SUFFICES ASSUME r # n, Supports(r, n) PROVE Towards(r)
    OBVIOUS
  <2> DEFINE p == blocks[r].parent
  <2>1. /\ r \in RootOrNone /\ blocks[r].slot \in Nat
        /\ blocks[n].slot \in Nat /\ blocks[n].slot < blocks[r].slot
    BY SupportsIsOrdered DEF BlockTree, RootOrNone
  <2>2. Ancestor(blocks, p, blocks[n].slot) = n
    BY <2>1, AncestorUnfolds DEF Supports
  <2>3. p \in D
    <3>1. ASSUME p \notin D PROVE FALSE
      <4>1. p = NoRoot /\ p \in RootOrNone
        BY <3>1 DEF BlockTree, RootOrNone
      <4>2. Ancestor(blocks, p, blocks[n].slot) = NoRoot
        BY <3>1, <4>1, AncestorUnfolds
      <4> QED
        BY <2>2, <4>2, NoRootIsNoBlock
    <3> QED
      BY <3>1
  <2>4. rank[p] < rank[r] /\ r \in Children(p)
    BY <2>3, NoRootIsNoBlock DEF BlockTree, Children
  <2>5. CASE p = n
    BY <2>4, <2>5, SupportsItself
  <2>6. CASE p # n
    <3>1. Supports(p, n)
      BY <2>2 DEF Supports
    <3>2. PICK c \in Children(n) : Supports(p, c)
      BY <1>1, <2>3, <2>4, <2>6, <3>1
    <3>3. c \in DOMAIN blocks
      BY DEF Children
    <3>4. Supports(r, c)
      BY <2>3, <2>4, <3>2, <3>3, ChildSupports
    <3> QED
      BY <3>4
  <2> QED
    BY <2>5, <2>6
<1>2. rank \in [D -> Nat] /\ S \in SUBSET D
  BY DEF BlockTree
<1>3. S = D
  <2> HIDE DEF S, rank, D
  <2> QED
    BY <1>1, <1>2, RankInduction
<1> QED
  BY <1>3

\* The heaviest of finitely many nodes exists, ties broken by root.
LEMMA HeaviestExists ==
  ASSUME NEW nodes, IsFiniteSet(nodes), nodes # {}, nodes \subseteq Nat,
         \A a \in nodes : Weight(a) \in Nat
  PROVE  /\ Heaviest(nodes) \in nodes
         /\ \A b \in nodes : Weight(b) <= Weight(Heaviest(nodes))
<1> DEFINE Beats(a, b) == Weight(a) > Weight(b) \/ (Weight(a) = Weight(b) /\ a > b)
           Above(a) == {b \in nodes : Beats(b, a)}
           T == {Above(a) : a \in nodes}
<1>1. T \subseteq SUBSET nodes /\ T # {}
  OBVIOUS
<1>2. PICK x \in T : \A y \in T : y \subseteq x => y = x
  <2>1. IsFiniteSet(nodes)
    OBVIOUS
  <2> HIDE DEF T
  <2> QED
    BY ONLY <1>1, <2>1, LeastSubset
<1>3. PICK top \in nodes : x = Above(top)
  BY <1>2
<1>4. ASSUME NEW b \in nodes \ {top} PROVE Beats(top, b)
  <2>1. ASSUME Beats(b, top) PROVE FALSE
    <3>0. ASSUME NEW c \in nodes, Beats(c, b) PROVE Beats(c, top)
      <4>1. /\ Weight(b) \in Nat /\ Weight(top) \in Nat /\ Weight(c) \in Nat
            /\ b \in Nat /\ top \in Nat /\ c \in Nat
        OBVIOUS
      <4> QED
        BY <2>1, <3>0, <4>1
    <3>1. Above(b) \subseteq Above(top) /\ Above(b) \in T
      <4> HIDE DEF Beats
      <4> QED
        BY <3>0
    <3>2. b \in Above(top) /\ b \notin Above(b)
      BY <2>1
    <3>3. Above(b) = Above(top)
      <4> HIDE DEF Above
      <4> QED
        BY <1>2, <1>3, <3>1
    <3> HIDE DEF Above
    <3> QED
      BY <3>2, <3>3
  <2>2. Weight(b) \in Nat /\ Weight(top) \in Nat /\ b \in Nat /\ top \in Nat /\ b # top
    BY <1>4
  <2> HIDE DEF Above, T
  <2> QED
    BY <2>1, <2>2
<1>5. /\ Heaviest(nodes) \in nodes
      /\ \A b \in nodes \ {Heaviest(nodes)} : Beats(Heaviest(nodes), b)
  BY <1>4 DEF Heaviest
<1>6. \A b \in nodes : Weight(b) <= Weight(Heaviest(nodes))
  <2> TAKE b \in nodes
  <2>1. Weight(b) \in Nat /\ Weight(Heaviest(nodes)) \in Nat
    BY <1>5
  <2> QED
    BY <1>5, <2>1
<1> QED
  BY <1>5, <1>6

\* Stored blocks are finitely many: one comes with each delivery.
BlocksFinite == IsFiniteSet(DOMAIN blocks)

\* There are finitely many blocks at any time.
LEMMA StepBlocksFinite == TypeOK /\ AnchoredTree /\ BlocksFinite /\ [Next]_vars => BlocksFinite'
<1> SUFFICES ASSUME TypeOK, AnchoredTree, BlocksFinite, [Next]_vars PROVE BlocksFinite'
  OBVIOUS
<1>1. CASE BlockStep
  <2>1. PICK root \in Root : blocks' = Put(blocks, root, blocks'[root])
    BY <1>1, BlockStepCases, InsertAnchoredTree, ZenonT(60)
       DEF OnBlock, OnBlockAborted, InsertBlock, Put
  <2>2. DOMAIN blocks' = DOMAIN blocks \cup {root}
    BY <2>1 DEF Put
  <2> QED
    BY <2>2, FS_AddElement DEF BlocksFinite
<1>2. CASE UNCHANGED blocks
  BY <1>2 DEF BlocksFinite
<1>3. BlockStep \/ UNCHANGED blocks
  BY DEF Next, OnTick, OnAttesterSlashing, AttestationStep, OnAttestation,
         OnAttestationAborted, vars, blockVars
<1> QED
  BY <1>1, <1>2, <1>3

\* The votes for a block, and what they weigh.
VotersFor(node) ==
  {v \in DOMAIN latestMessages \ equivocatingIndices :
     Supports(latestMessages[v].root, node)}

\* The balance of voters is a number, and grows with their set.
LEMMA BalancesAdd ==
  /\ \A vs \in SUBSET Validator : SumFunctionOnSet(EffectiveBalance, vs) \in Nat
  /\ \A vs \in SUBSET Validator : \A us \in SUBSET vs :
       SumFunctionOnSet(EffectiveBalance, us) <= SumFunctionOnSet(EffectiveBalance, vs)
<1>1. ASSUME NEW vs \in SUBSET Validator
      PROVE  /\ SumFunctionOnSet(EffectiveBalance, vs) \in Nat
             /\ \A us \in SUBSET vs :
                  SumFunctionOnSet(EffectiveBalance, us) <= SumFunctionOnSet(EffectiveBalance, vs)
  <2>1. IsFiniteSet(vs) /\ \A v \in vs : EffectiveBalance[v] \in Nat
    BY FS_Subset, BalanceAssumption
  <2> QED
    BY <2>1, SumNatural
<1> QED
  BY <1>1

\* A total balance is a natural number.
LEMMA TotalBalanceNat ==
  ASSUME NEW vs \in SUBSET Validator
  PROVE  TotalBalance(vs) \in Nat
<1> DEFINE a == EffectiveBalanceIncrement
           b == SumFunctionOnSet(EffectiveBalance, vs)
<1>1. a \in Nat /\ b \in Nat
  BY BalanceAssumption, BalancesAdd
<1>2. Max({a, b}) \in {a, b}
  <2> HIDE DEF a, b
  <2>1. \E m \in {a, b} : \A k \in {a, b} : k <= m
    BY <1>1
  <2> QED
    BY <2>1 DEF Max
<1> QED
  BY <1>1, <1>2 DEF TotalBalance

\* A weight is a number, at least that of the votes alone.
LEMMA WeightsAreNatural ==
  ASSUME TypeOK
  PROVE  /\ ProposerScore \in Nat
         /\ \A node :
              /\ AttestationScore(node)
                   = SumFunctionOnSet(EffectiveBalance, VotersFor(node))
              /\ VotersFor(node) \in SUBSET Validator
              /\ AttestationScore(node) \in Nat /\ Weight(node) \in Nat
              /\ AttestationScore(node) <= Weight(node)
              /\ Weight(node) <= AttestationScore(node) + ProposerScore
<1>1. ProposerScore \in Nat
  <2>1. TotalBalance(Validator) \in Nat
    BY TotalBalanceNat
  <2>2. ASSUME NEW a \in Nat, NEW b \in Nat \ {0} PROVE a \div b \in Nat
    OBVIOUS
  <2>3. (TotalBalance(Validator) \div SlotsPerEpoch) \in Nat
    BY <2>1, <2>2, SlotsPerEpochAssumption
  <2>4. (TotalBalance(Validator) \div SlotsPerEpoch) * ProposerScoreBoost \in Nat
    BY <2>3, BoostAssumption
  <2> QED
    BY <2>2, <2>4 DEF ProposerScore
<1>2. ASSUME NEW node
      PROVE  /\ AttestationScore(node) = SumFunctionOnSet(EffectiveBalance, VotersFor(node))
             /\ VotersFor(node) \in SUBSET Validator
             /\ AttestationScore(node) \in Nat /\ Weight(node) \in Nat
             /\ AttestationScore(node) <= Weight(node)
             /\ Weight(node) <= AttestationScore(node) + ProposerScore
  <2>1. AttestationScore(node) = SumFunctionOnSet(EffectiveBalance, VotersFor(node))
    BY DEF AttestationScore, VotersFor
  <2>2. VotersFor(node) \in SUBSET Validator
    BY DEF TypeOK, VotersFor
  <2>3. AttestationScore(node) \in Nat
    BY <2>1, <2>2, BalancesAdd
  <2>4. \/ Weight(node) = AttestationScore(node)
        \/ Weight(node) = AttestationScore(node) + ProposerScore
    BY DEF Weight
  <2> QED
    BY <1>1, <2>1, <2>2, <2>3, <2>4
<1> QED
  BY <1>1, <1>2

\* Siblings share no vote.
LEMMA SiblingsShareNoVote ==
  ASSUME BlockTree(blocks), NEW n \in DOMAIN blocks, NEW c \in Children(n),
         NEW d \in Children(n), c # d, NEW r \in RootOrNone, Supports(r, c)
  PROVE  ~Supports(r, d)
<1> SUFFICES ASSUME Supports(r, d) PROVE FALSE
  OBVIOUS
<1>1. /\ c \in DOMAIN blocks /\ d \in DOMAIN blocks
      /\ blocks[n].slot < blocks[c].slot /\ blocks[n].slot < blocks[d].slot
      /\ blocks[n].slot \in Nat /\ blocks[c].slot \in Nat /\ blocks[d].slot \in Nat
  BY SupportsItself, ChildSupports DEF BlockTree
<1>2. ASSUME NEW a \in Children(n), NEW b \in Children(n), a # b, Supports(a, b)
      PROVE  FALSE
  <2>1. /\ a \in RootOrNone /\ n \in RootOrNone
        /\ a \in DOMAIN blocks /\ b \in DOMAIN blocks /\ blocks[a].parent = n
    BY DEF Children, BlockTree, RootOrNone
  <2>2. blocks[a].slot > blocks[b].slot /\ blocks[b].slot > blocks[n].slot
    BY <1>2, <2>1, SupportsIsOrdered, SupportsItself, ChildSupports
  <2>3. Ancestor(blocks, n, blocks[b].slot) = b
    BY <1>2, <2>1, <2>2, AncestorUnfolds DEF Supports
  <2>4. Ancestor(blocks, n, blocks[b].slot) = n
    BY <2>1, <2>2, AncestorUnfolds DEF BlockTree
  <2> QED
    BY <2>2, <2>3, <2>4 DEF BlockTree
<1>3. Supports(c, d) \/ Supports(d, c)
  BY <1>1, SupportedAreOrdered
<1> QED
  BY <1>2, <1>3

\* A child on the chain of a block with a majority outweighs its siblings.
LEMMA MajorityChildHeaviest ==
  ASSUME TypeOK, BlockTree(blocks), NEW n \in DOMAIN blocks, NEW c \in Children(n),
         NEW r \in DOMAIN blocks, Supports(r, c),
         LET voters == DOMAIN latestMessages \ equivocatingIndices
         IN SumFunctionOnSet(EffectiveBalance, VotersFor(r))
              > SumFunctionOnSet(EffectiveBalance, voters \ VotersFor(r)) + ProposerScore,
         NEW d \in Children(n), d # c
  PROVE  Weight(d) < Weight(c)
<1> DEFINE voters == DOMAIN latestMessages \ equivocatingIndices
           W(vs) == SumFunctionOnSet(EffectiveBalance, vs)
<1>1. \A v \in voters : v \in Validator /\ latestMessages[v].root \in RootOrNone
  BY DEF TypeOK, LatestMessage, RootOrNone
<1>2. VotersFor(r) \subseteq VotersFor(c)
  BY <1>1, SupportsTransitive DEF VotersFor, Children
<1>3. VotersFor(d) \subseteq voters \ VotersFor(r)
  BY <1>1, <1>2, SiblingsShareNoVote DEF VotersFor
<1>4. voters \ VotersFor(r) \in SUBSET Validator
  BY <1>1
<1>5. /\ W(VotersFor(r)) <= Weight(c)
      /\ W(VotersFor(r)) \in Nat /\ Weight(c) \in Nat
  <2>1. W(VotersFor(r)) <= W(VotersFor(c))
    BY <1>2, WeightsAreNatural, BalancesAdd
  <2>2. W(VotersFor(r)) \in Nat
    BY WeightsAreNatural, BalancesAdd
  <2> QED
    BY <2>1, <2>2, WeightsAreNatural
<1>6. /\ Weight(d) <= W(voters \ VotersFor(r)) + ProposerScore
      /\ Weight(d) \in Nat /\ W(voters \ VotersFor(r)) \in Nat /\ ProposerScore \in Nat
  <2>1. W(VotersFor(d)) <= W(voters \ VotersFor(r))
    BY <1>3, <1>4, BalancesAdd
  <2>2. W(voters \ VotersFor(r)) \in Nat
    BY <1>4, BalancesAdd
  <2>3. W(VotersFor(d)) \in Nat
    BY WeightsAreNatural, BalancesAdd
  <2> QED
    BY <2>1, <2>2, <2>3, WeightsAreNatural
<1> QED
  BY <1>5, <1>6

\* The walk of get_head, and its recursion equation.
Below(r) == Children(r) \cap FilteredNodeTree

IsHeadWalk(walk) ==
  walk = [r \in DOMAIN blocks |-> IF Below(r) = {} THEN r ELSE walk[Heaviest(Below(r))]]

\* Among the viable children of a block one is heaviest.
LEMMA HeaviestBelow ==
  ASSUME TypeOK, AnchoredTree, BlocksFinite, NEW r \in DOMAIN blocks, Below(r) # {}
  PROVE  /\ Heaviest(Below(r)) \in Below(r)
         /\ \A b \in Below(r) : Weight(b) <= Weight(Heaviest(Below(r)))
<1>1. Below(r) \subseteq DOMAIN blocks
  BY DEF Below, Children
<1>2. IsFiniteSet(Below(r))
  BY <1>1, FS_Subset DEF BlocksFinite
<1>3. Below(r) \subseteq Nat
  BY <1>1, RootAssumption DEF AnchoredTree, RootedTree, BlockTree
<1>4. \A a \in Below(r) : Weight(a) \in Nat
  BY WeightsAreNatural
<1> HIDE DEF Below
<1> QED
  BY <1>2, <1>3, <1>4, HeaviestExists

\* The walk of get_head is defined: slots increase on the way.
LEMMA HeadWalkExists ==
  ASSUME TypeOK, AnchoredTree, BlocksFinite
  PROVE  \E walk : IsHeadWalk(walk) /\ GetHead = walk[justifiedCheckpoint.root]
<1> DEFINE D == DOMAIN blocks
           top == SlotAt(MaxTime)
           rank == [r \in D |-> top - blocks[r].slot]
           base == {r \in D : Below(r) = {}}
           out == [r \in D |-> r]
           next == [r \in D |-> Heaviest(Below(r))]
           combine == [p \in D \X D |-> p[2]]
<1>1. rank \in [D -> Nat]
  <2>1. top \in Nat
    BY SlotAndEpochNat, MaxTimeAssumption
  <2>2. \A r \in D : blocks[r].slot \in 0..top
    BY DEF TypeOK, Block, Slot
  <2> HIDE DEF top
  <2> QED
    BY <2>1, <2>2
<1>2. \A d \in D \ base : next[d] \in D /\ rank[next[d]] < rank[d]
  <2> SUFFICES ASSUME NEW d \in D \ base
               PROVE  next[d] \in D /\ rank[next[d]] < rank[d]
    OBVIOUS
  <2>1. next[d] \in Children(d)
    BY HeaviestBelow DEF Below
  <2>2. next[d] \in D /\ blocks[d].slot < blocks[next[d]].slot
    BY <2>1, NoRootIsNoBlock DEF Children, AnchoredTree, RootedTree, BlockTree
  <2>3. blocks[d].slot \in Nat /\ blocks[next[d]].slot \in Nat /\ top \in Nat
    BY <2>2, SlotAndEpochNat, MaxTimeAssumption DEF AnchoredTree, RootedTree, BlockTree
  <2> HIDE DEF next, top
  <2> QED
    BY <2>2, <2>3
<1>3. \A d \in D \cap base : out[d] \in D
  OBVIOUS
<1>4. \A d \in D, z \in D : combine[<<d, z>>] \in D
  OBVIOUS
<1>5. \E f \in [D -> D] : Unfolds(f, D, base, out, next, combine)
  <2> HIDE DEF D, rank, base, out, next, combine
  <2> QED
    BY <1>1, <1>2, <1>3, <1>4, RecursionExists
<1>6. PICK f \in [D -> D] : Unfolds(f, D, base, out, next, combine)
  BY <1>5
<1>7. IsHeadWalk(f)
  <2>1. ASSUME NEW r \in D
        PROVE  f[r] = IF Below(r) = {} THEN r ELSE f[Heaviest(Below(r))]
    <3>1. f[r] = IF r \in base THEN out[r] ELSE combine[<<r, f[next[r]]>>]
      BY <1>6 DEF Unfolds
    <3>2. r \notin base => combine[<<r, f[next[r]]>>] = f[Heaviest(Below(r))]
      BY <1>2, <1>6
    <3> QED
      BY <3>1, <3>2
  <2> QED
    BY <2>1, <1>6 DEF IsHeadWalk
<1> DEFINE walk == CHOOSE w : IsHeadWalk(w)
<1>8. IsHeadWalk(walk)
  BY <1>7
<1>9. GetHead = walk[justifiedCheckpoint.root]
  BY DEF GetHead, IsHeadWalk, Below
<1> QED
  BY <1>8, <1>9

\* The walk, once on the chain of a block with a majority, stays on it.
LEMMA WalkFollowsMajority ==
  ASSUME TypeOK, AnchoredTree, BlocksFinite, ~HeadRaises, NEW r \in FilteredNodeTree,
         LET voters == DOMAIN latestMessages \ equivocatingIndices
         IN SumFunctionOnSet(EffectiveBalance, VotersFor(r))
              > SumFunctionOnSet(EffectiveBalance, voters \ VotersFor(r)) + ProposerScore
  PROVE  Supports(GetHead, r)
<1> DEFINE D == DOMAIN blocks
           j == justifiedCheckpoint.root
           top == SlotAt(MaxTime)
           rank == [n \in D |-> top - blocks[n].slot]
<1>1. PICK walk : IsHeadWalk(walk) /\ GetHead = walk[j]
  BY HeadWalkExists
<1>2. BlockTree(blocks) /\ j \in D /\ r \in D /\ Supports(r, j)
  BY DEF AnchoredTree, RootedTree, HeadRaises, FilterRaises, FilteredNodeTree
<1> DEFINE OnChain(n) == Supports(n, j) /\ (Supports(r, n) \/ Supports(n, r))
           S == {n \in D : OnChain(n) => Supports(walk[n], r)}
<1>3. ASSUME NEW n \in D, \A e \in D : rank[e] < rank[n] => e \in S
      PROVE  n \in S
  <2> SUFFICES ASSUME OnChain(n) PROVE Supports(walk[n], r)
    OBVIOUS
  <2>1. walk[n] = IF Below(n) = {} THEN n ELSE walk[Heaviest(Below(n))]
    BY <1>1 DEF IsHeadWalk
  <2> DEFINE h == Heaviest(Below(n))
  <2>2. ASSUME Below(n) # {}, OnChain(h) PROVE Supports(walk[n], r)
    <3>1. h \in Children(n)
      BY <2>2, HeaviestBelow DEF Below
    <3>2. h \in D /\ blocks[n].slot < blocks[h].slot
      BY <1>2, <3>1, ChildSupports
    <3>3. rank[h] < rank[n]
      <4>1. blocks[n].slot \in Nat /\ blocks[h].slot \in Nat /\ top \in Nat
        BY <1>2, <3>2, SlotAndEpochNat, MaxTimeAssumption DEF BlockTree
      <4> HIDE DEF h, top
      <4> QED
        BY <3>2, <4>1
    <3> QED
      BY <1>3, <2>1, <2>2, <3>2, <3>3
  <2>3. CASE Supports(n, r)
    <3>1. ASSUME Below(n) # {} PROVE OnChain(h)
      <4>1. h \in Children(n)
        BY <3>1, HeaviestBelow DEF Below
      <4> QED
        BY <1>2, <2>3, <4>1, ChildSupports
    <3> QED
      BY <2>1, <2>2, <2>3, <3>1
  <2>4. CASE ~Supports(n, r)
    <3>1. Supports(r, n) /\ r # n
      BY <1>2, <2>4, SupportsItself
    <3>2. PICK c \in Children(n) : Supports(r, c)
      BY <1>2, <3>1, ChildTowards
    <3>3. c \in D /\ Supports(c, j)
      BY <1>2, ChildSupports
    <3>4. c \in Below(n)
      <4>1. PICK l \in {k \in Leaves(j) : ViableLeaf(k)} : Supports(l, r)
        BY DEF FilteredNodeTree
      <4>2. l \in RootOrNone
        BY <1>2 DEF Leaves, BlockTree, RootOrNone
      <4>3. Supports(l, c)
        BY <1>2, <3>2, <3>3, <4>1, <4>2, SupportsTransitive
      <4> QED
        BY <3>3, <4>1, <4>3 DEF Below, FilteredNodeTree
    <3>5. h = c
      <4>1. h \in Children(n) /\ Weight(c) <= Weight(h)
        BY <3>4, HeaviestBelow DEF Below
      <4>2. ASSUME h # c PROVE FALSE
        <5>1. Weight(h) < Weight(c)
          <6> HIDE DEF h
          <6> QED
            BY <1>2, <3>2, <4>1, <4>2, MajorityChildHeaviest
        <5>2. Weight(h) \in Nat /\ Weight(c) \in Nat
          BY WeightsAreNatural
        <5> QED
          BY <4>1, <5>1, <5>2
      <4> QED
        BY <4>2
    <3> QED
      BY <2>2, <3>2, <3>3, <3>4, <3>5
  <2> QED
    BY <2>3, <2>4
<1>4. rank \in [D -> Nat] /\ S \in SUBSET D
  <2>1. top \in Nat
    BY SlotAndEpochNat, MaxTimeAssumption
  <2>2. \A n \in D : blocks[n].slot \in 0..top
    BY DEF TypeOK, Block, Slot
  <2> HIDE DEF top
  <2> QED
    BY <2>1, <2>2
<1>5. S = D
  <2> HIDE DEF S, rank, D
  <2> QED
    BY <1>3, <1>4, RankInduction
<1>6. OnChain(j)
  BY <1>2, SupportsItself
<1> QED
  BY <1>1, <1>2, <1>5, <1>6

\* Whatever the tree, the boost and the order of arrival, a viable block whose
\* votes outweigh all other unequivocal votes and the boost has the head on its
\* chain.
THEOREM HeadGoesWithMajority == Spec => []HeadFollowsMajority
<1>1. Init => BlocksFinite
  <2> SUFFICES ASSUME Init PROVE BlocksFinite
    OBVIOUS
  <2>1. DOMAIN blocks = {AnchorRoot}
    BY SingletonType DEF Init
  <2> QED
    BY <2>1, FS_Singleton DEF BlocksFinite
<1>2. TypeOK /\ AnchoredTree /\ BlocksFinite => HeadFollowsMajority
  <2> SUFFICES ASSUME TypeOK, AnchoredTree, BlocksFinite PROVE HeadFollowsMajority
    OBVIOUS
  <2> QED
    BY WalkFollowsMajority DEF HeadFollowsMajority, VotersFor
<1> QED
  BY <1>1, <1>2, InitTypeOK, StepTypeOK, InitAnchoredTree, StepAnchoredTree,
     StepBlocksFinite, PTL DEF Spec

-----------------------------------------------------------------------------
(* The driven store. *)

-----------------------------------------------------------------------------
(* Slots and epochs. *)

\* A slot lies in its epoch.
LEMMA SlotInEpoch ==
  ASSUME NEW slot \in Nat
  PROVE  /\ EpochOf(slot) \in Nat
         /\ StartSlot(EpochOf(slot)) \in Nat
         /\ StartSlot(EpochOf(slot)) <= slot
         /\ slot < StartSlot(EpochOf(slot)) + SlotsPerEpoch
<1>1. ASSUME NEW d \in Nat \ {0}
      PROVE  /\ slot \div d \in Nat
             /\ (slot \div d) * d \in Nat
             /\ (slot \div d) * d <= slot
             /\ slot < (slot \div d) * d + d
  OBVIOUS
<1> QED
  BY <1>1, SlotsPerEpochAssumption DEF EpochOf, StartSlot

\* An earlier epoch ends before a later one starts.
LEMMA EpochsApart ==
  ASSUME NEW a \in Nat, NEW b \in Nat, a < b
  PROVE  /\ StartSlot(a) \in Nat /\ StartSlot(b) \in Nat
         /\ StartSlot(a) + SlotsPerEpoch <= StartSlot(b)
<1>1. ASSUME NEW d \in Nat, a + 1 <= b
      PROVE  /\ a * d \in Nat /\ b * d \in Nat
             /\ a * d + d <= b * d
  <2>1. (a + 1) * d <= b * d
    BY <1>1
  <2>2. (a + 1) * d = a * d + d /\ a * d \in Nat /\ b * d \in Nat
    OBVIOUS
  <2> QED
    BY <2>1, <2>2
<1>2. a + 1 <= b
  OBVIOUS
<1> QED
  BY <1>1, <1>2, SlotsPerEpochAssumption DEF StartSlot

\* The epoch whose start is at or before a slot and whose end is after it is
\* the slot's.
LEMMA EpochOfUnique ==
  ASSUME NEW slot \in Nat, NEW e \in Nat,
         StartSlot(e) <= slot, slot < StartSlot(e) + SlotsPerEpoch
  PROVE  EpochOf(slot) = e
<1>1. EpochOf(slot) \in Nat
  BY SlotInEpoch
<1>2. SlotsPerEpoch \in Nat /\ StartSlot(e) \in Nat
  <2>1. ASSUME NEW d \in Nat PROVE e * d \in Nat
    OBVIOUS
  <2> QED
    BY <2>1, SlotsPerEpochAssumption DEF StartSlot
<1>3. ASSUME EpochOf(slot) < e PROVE FALSE
  BY <1>1, <1>2, <1>3, EpochsApart, SlotInEpoch
<1>4. ASSUME e < EpochOf(slot) PROVE FALSE
  BY <1>1, <1>2, <1>4, EpochsApart, SlotInEpoch
<1> QED
  BY <1>1, <1>3, <1>4

\* The epoch changes at its first slot, and only there.
LEMMA NextSlotEpoch ==
  ASSUME NEW slot \in Nat
  PROVE  EpochOf(slot + 1) = IF StartsEpoch(slot + 1) THEN EpochOf(slot) + 1
                             ELSE EpochOf(slot)
<1> DEFINE e == EpochOf(slot)
           d == SlotsPerEpoch
<1>1. d \in Nat /\ d > 1 /\ e \in Nat /\ e + 1 \in Nat
  BY SlotInEpoch, SlotsPerEpochAssumption
<1>2. StartSlot(e) \in Nat /\ StartSlot(e) <= slot /\ slot < StartSlot(e) + d
  BY SlotInEpoch
<1>3. StartSlot(e + 1) = StartSlot(e) + d
  <2>1. ASSUME NEW n \in Nat, NEW k \in Nat PROVE (n + 1) * k = n * k + k
    OBVIOUS
  <2> HIDE DEF e, d
  <2> QED
    BY <1>1, <2>1 DEF StartSlot, d
<1>4. slot + 1 = StartSlot(e) + d <=> StartsEpoch(slot + 1)
  <2>1. ASSUME NEW k \in Nat, NEW n \in Nat \ {0}, NEW s \in Nat, k * n <= s, s < k * n + n
        PROVE  s + 1 = k * n + n <=> (s + 1) % n = 0
    <3>1. k * n \in Nat /\ (k + 1) * n = k * n + n
      OBVIOUS
    <3>2. ASSUME s + 1 = k * n + n PROVE (s + 1) % n = 0
      <4>1. ASSUME NEW q \in Nat PROVE (q * n) % n = 0
        OBVIOUS
      <4>2. k + 1 \in Nat /\ s + 1 = (k + 1) * n
        BY <3>1, <3>2
      <4>3. ((k + 1) * n) % n = 0
        BY <4>1, <4>2
      <4> QED
        BY <4>2, <4>3
    <3>3. ASSUME s + 1 # k * n + n PROVE (s + 1) % n # 0
      <4>1. ASSUME NEW r \in Nat, 0 < r, r < n PROVE (k * n + r) % n = r
        BY <4>1, <3>1
      <4>2. (s + 1) - k * n \in Nat /\ 0 < (s + 1) - k * n /\ (s + 1) - k * n < n
        BY <2>1, <3>1, <3>3
      <4>3. k * n + ((s + 1) - k * n) = s + 1
        BY <3>1
      <4>4. (k * n + ((s + 1) - k * n)) % n = (s + 1) - k * n
        BY <4>1, <4>2
      <4> QED
        BY <4>2, <4>3, <4>4
    <3> QED
      BY <3>2, <3>3
  <2>2. /\ e \in Nat /\ d \in Nat \ {0} /\ e * d = StartSlot(e)
        /\ e * d <= slot /\ slot < e * d + d
    BY <1>1, <1>2 DEF StartSlot
  <2>3. slot + 1 = e * d + d <=> (slot + 1) % d = 0
    <3> HIDE DEF e, d
    <3> QED
      BY <2>1, <2>2
  <2> QED
    BY <2>2, <2>3 DEF StartsEpoch
<1>5. CASE StartsEpoch(slot + 1)
  <2>1. StartSlot(e + 1) <= slot + 1 /\ slot + 1 < StartSlot(e + 1) + d
    BY <1>1, <1>2, <1>3, <1>4, <1>5
  <2> QED
    BY <1>1, <1>5, <2>1, EpochOfUnique
<1>6. CASE ~StartsEpoch(slot + 1)
  <2>1. StartSlot(e) <= slot + 1 /\ slot + 1 < StartSlot(e) + d
    BY <1>1, <1>2, <1>4, <1>6
  <2> QED
    BY <1>1, <1>6, <2>1, EpochOfUnique
<1> QED
  BY <1>5, <1>6

\* The previous epoch starts before a slot, if the epoch is not the first.
LEMMA PreviousEpoch ==
  ASSUME NEW e \in Nat
  PROVE  /\ Previous(e) \in Nat /\ Previous(e) <= e
         /\ e > 0 => Previous(e) = e - 1
         /\ Previous(e + 1) = e
  BY DEF Previous

-----------------------------------------------------------------------------
(* A beacon state and the chain it belongs to: the one that ends at tip.    *)

Genesis == [epoch |-> 0, root |-> NoRoot]

BlockRoots == UNION {[0..(n - 1) -> RootOrNone] : n \in Nat}

BeaconState ==
  [slot : Nat, blockRoots : BlockRoots, latestRoot : Root,
   justificationBits : SUBSET Nat, previousJustified : Checkpoint,
   currentJustified : Checkpoint, finalized : Checkpoint,
   previousParticipation : SUBSET Validator, currentParticipation : SUBSET Validator]

\* The checkpoint of an epoch on the chain.
OnChain(epoch, store, tip) ==
  [epoch |-> epoch, root |-> CheckpointBlock(store, tip, epoch)]

Chained(c, store, tip) ==
  c = Genesis \/ (c.epoch \in Nat \ {0} /\ c = OnChain(c.epoch, store, tip))

\* The block roots a state remembers are those of the chain.
History(state, store, tip, length) ==
  /\ state.latestRoot = tip
  /\ DOMAIN state.blockRoots = 0..(length - 1)
  /\ \A s \in 0..(length - 1) : state.blockRoots[s] = Ancestor(store, tip, s)

\* The checkpoints are of the chain, in order, and none is later than top.
CheckpointRules(state, store, tip, top) ==
  /\ Chained(state.previousJustified, store, tip)
  /\ Chained(state.currentJustified, store, tip)
  /\ Chained(state.finalized, store, tip)
  /\ state.finalized.epoch <= state.previousJustified.epoch
  /\ state.previousJustified.epoch <= state.currentJustified.epoch
  /\ state.currentJustified.epoch <= top

\* Votes are counted only for an epoch that has begun before the state's slot,
\* and the checkpoint they vote for is among cached.
Counted(votes, epoch, state, store, tip, cached) ==
  votes # {} => /\ StartSlot(epoch) < state.slot
                /\ OnChain(epoch, store, tip) \in cached

VoteRules(state, store, tip, cached) ==
  LET epoch == EpochOf(state.slot)
  IN /\ Counted(state.currentParticipation, epoch, state, store, tip, cached)
     /\ Counted(state.previousParticipation, Previous(epoch), state, store, tip, cached)

\* A justified checkpoint later than genesis is among cached.
JustifiedCached(state, cached) ==
  state.currentJustified = Genesis \/ state.currentJustified \in cached

Sound(state, store, tip, cached) ==
  /\ state \in BeaconState
  /\ store[tip].slot <= state.slot
  /\ History(state, store, tip, state.slot)
  /\ CheckpointRules(state, store, tip, Previous(EpochOf(state.slot)))
  /\ VoteRules(state, store, tip, cached)
  /\ JustifiedCached(state, cached)

\* No votes are no supermajority.
LEMMA SupermajorityNotEmpty ==
  ASSUME NEW votes, Supermajority(votes)
  PROVE  votes # {}
<1>1. TotalBalance({}) \in Nat /\ TotalBalance(Validator) \in Nat
  BY TotalBalanceNat
<1>2. ~(TotalBalance({}) * 3 >= TotalBalance(Validator) * 2)
  BY <1>1, StakeAssumption
<1> QED
  BY <1>2 DEF Supermajority

\* The checkpoint of an epoch that starts at or after the anchor.
LEMMA OnChainType ==
  ASSUME NEW store, RootedTree(store), AnchorSlot = 0, NEW tip \in DOMAIN store,
         NEW epoch \in Nat
  PROVE  /\ CheckpointBlock(store, tip, epoch) \in DOMAIN store
         /\ OnChain(epoch, store, tip) \in Checkpoint
<1>1. StartSlot(epoch) \in Nat /\ StartSlot(epoch) >= 0
  <2>1. ASSUME NEW d \in Nat PROVE epoch * d \in Nat
    OBVIOUS
  <2> QED
    BY <2>1, SlotsPerEpochAssumption DEF StartSlot
<1>2. CheckpointBlock(store, tip, epoch) \in DOMAIN store
  BY <1>1, WalkFound DEF CheckpointBlock
<1> QED
  BY <1>2 DEF OnChain, Checkpoint, RootedTree, BlockTree, RootOrNone

\* Justifying the target of votes that are counted.
LEMMA TargetIsOnChain ==
  ASSUME NEW store, NEW tip, NEW state, NEW length \in Nat, NEW epoch \in Nat,
         History(state, store, tip, length), state.slot <= length, state.slot \in Nat,
         StartSlot(epoch) < state.slot
  PROVE  TargetOf(state, epoch) = OnChain(epoch, store, tip)
<1>1. StartSlot(epoch) \in 0..(length - 1)
  <2>1. ASSUME NEW d \in Nat PROVE epoch * d \in Nat
    OBVIOUS
  <2>2. StartSlot(epoch) \in Nat
    BY <2>1, SlotsPerEpochAssumption DEF StartSlot
  <2> QED
    BY <2>2
<1> QED
  BY <1>1 DEF TargetOf, OnChain, BlockRoot, CheckpointBlock, History

\* process_justification_and_finalization on such a state: the checkpoints stay
\* on the chain, no epoch decreases, and what is justified is cached.
LEMMA JustificationSound ==
  ASSUME NEW store, RootedTree(store), AnchorSlot = 0, NEW tip \in DOMAIN store,
         NEW cached, NEW state \in BeaconState, NEW length \in Nat, state.slot <= length,
         History(state, store, tip, length),
         CheckpointRules(state, store, tip, Previous(EpochOf(state.slot))),
         VoteRules(state, store, tip, cached), JustifiedCached(state, cached)
  PROVE  LET pulledUp == ProcessJustificationAndFinalization(state)
         IN /\ pulledUp \in BeaconState
            /\ pulledUp.slot = state.slot
            /\ pulledUp.blockRoots = state.blockRoots
            /\ pulledUp.latestRoot = state.latestRoot
            /\ pulledUp.currentParticipation = state.currentParticipation
            /\ CheckpointRules(pulledUp, store, tip, EpochOf(state.slot))
            /\ JustifiedCached(pulledUp, cached)
            /\ state.currentJustified.epoch <= pulledUp.currentJustified.epoch
            /\ state.finalized.epoch <= pulledUp.finalized.epoch
<1> DEFINE epoch == EpochOf(state.slot)
           prev == Supermajority(state.previousParticipation)
           curr == Supermajority(state.currentParticipation)
           bits == ShiftBits(state.justificationBits)
                     \cup (IF prev THEN {1} ELSE {})
                     \cup (IF curr THEN {0} ELSE {})
           pulledUp == ProcessJustificationAndFinalization(state)
           justified == IF curr THEN TargetOf(state, epoch)
                        ELSE IF prev THEN TargetOf(state, Previous(epoch))
                        ELSE state.currentJustified
           final == FinalizedBy(state, bits, epoch)
<1>1. /\ state.slot \in Nat /\ epoch \in Nat
      /\ Previous(epoch) \in Nat /\ Previous(epoch) <= epoch
      /\ epoch > 0 => Previous(epoch) = epoch - 1
  BY SlotInEpoch, PreviousEpoch DEF BeaconState
<1>2. /\ state.previousJustified \in Checkpoint /\ state.currentJustified \in Checkpoint
      /\ state.finalized \in Checkpoint
      /\ state.previousJustified.epoch \in Nat /\ state.currentJustified.epoch \in Nat
      /\ state.finalized.epoch \in Nat
  BY DEF BeaconState, Checkpoint
<1>3. /\ state.finalized.epoch <= state.previousJustified.epoch
      /\ state.previousJustified.epoch <= state.currentJustified.epoch
      /\ state.currentJustified.epoch <= Previous(epoch)
  BY DEF CheckpointRules
<1>4. CASE epoch <= 1
  <2>1. pulledUp = state
    BY <1>4 DEF ProcessJustificationAndFinalization
  <2>2. state.currentJustified.epoch <= epoch
    BY <1>1, <1>2, <1>3
  <2>3. CheckpointRules(state, store, tip, epoch)
    BY <2>2 DEF CheckpointRules
  <2>4. /\ state.currentJustified.epoch <= state.currentJustified.epoch
        /\ state.finalized.epoch <= state.finalized.epoch
    BY <1>2
  <2> QED
    BY <2>1, <2>3, <2>4
<1>5. CASE ~(epoch <= 1)
  <2>1. epoch > 1 /\ epoch > 0 /\ Previous(epoch) > 0
    BY <1>1, <1>5
  <2>2. pulledUp = [state EXCEPT !.previousJustified = state.currentJustified,
                                 !.currentJustified = justified,
                                 !.justificationBits = bits,
                                 !.finalized = final]
    BY <1>5 DEF ProcessJustificationAndFinalization, WeighJustificationAndFinalization
  <2>3. curr => /\ TargetOf(state, epoch) = OnChain(epoch, store, tip)
                /\ OnChain(epoch, store, tip) \in cached
    <3> SUFFICES ASSUME curr
                 PROVE  /\ TargetOf(state, epoch) = OnChain(epoch, store, tip)
                        /\ OnChain(epoch, store, tip) \in cached
      OBVIOUS
    <3>1. state.currentParticipation # {}
      BY SupermajorityNotEmpty
    <3>2. StartSlot(epoch) < state.slot /\ OnChain(epoch, store, tip) \in cached
      BY <3>1 DEF VoteRules, Counted
    <3> QED
      BY <3>2, <1>1, TargetIsOnChain
  <2>4. prev => /\ TargetOf(state, Previous(epoch)) = OnChain(Previous(epoch), store, tip)
                /\ OnChain(Previous(epoch), store, tip) \in cached
    <3> SUFFICES ASSUME prev
                 PROVE  /\ TargetOf(state, Previous(epoch))
                             = OnChain(Previous(epoch), store, tip)
                        /\ OnChain(Previous(epoch), store, tip) \in cached
      OBVIOUS
    <3>1. state.previousParticipation # {}
      BY SupermajorityNotEmpty
    <3>2. /\ StartSlot(Previous(epoch)) < state.slot
          /\ OnChain(Previous(epoch), store, tip) \in cached
      BY <3>1 DEF VoteRules, Counted
    <3> QED
      BY <3>2, <1>1, TargetIsOnChain
  <2>5. /\ justified \in Checkpoint
        /\ Chained(justified, store, tip)
        /\ justified = Genesis \/ justified \in cached
        /\ state.currentJustified.epoch <= justified.epoch
        /\ justified.epoch <= epoch
    <3>1. ASSUME NEW e \in {epoch, Previous(epoch)}
          PROVE  /\ OnChain(e, store, tip) \in Checkpoint
                 /\ Chained(OnChain(e, store, tip), store, tip)
                 /\ OnChain(e, store, tip).epoch = e
      <4>1. e \in Nat \ {0}
        BY <1>1, <2>1
      <4> QED
        BY <4>1, OnChainType DEF Chained, OnChain
    <3>2. CASE curr
      <4>1. justified = OnChain(epoch, store, tip)
        BY <2>3, <3>2
      <4>2. justified.epoch = epoch
        BY <4>1, <3>1
      <4>3. state.currentJustified.epoch <= epoch
        BY <1>1, <1>2, <1>3
      <4> HIDE DEF justified, epoch
      <4> QED
        BY <4>1, <4>2, <4>3, <3>1, <2>3, <3>2, <1>1
    <3>3. CASE ~curr /\ prev
      <4>1. justified = OnChain(Previous(epoch), store, tip)
        BY <2>4, <3>3
      <4>2. justified.epoch = Previous(epoch)
        BY <4>1, <3>1
      <4> HIDE DEF justified, epoch
      <4> QED
        BY <4>1, <4>2, <3>1, <2>4, <3>3, <1>1, <1>3
    <3>4. CASE ~curr /\ ~prev
      <4>1. justified = state.currentJustified
        BY <3>4
      <4>2. state.currentJustified.epoch <= epoch
        BY <1>1, <1>2, <1>3
      <4> HIDE DEF justified, epoch
      <4> QED
        BY <4>1, <4>2, <1>2 DEF CheckpointRules, JustifiedCached
    <3> QED
      BY <3>2, <3>3, <3>4
  <2>6. /\ final \in Checkpoint
        /\ Chained(final, store, tip)
        /\ state.finalized.epoch <= final.epoch
        /\ final.epoch <= state.currentJustified.epoch
    <3>1. final \in {state.currentJustified, state.previousJustified, state.finalized}
      <4> HIDE DEF epoch, bits
      <4> QED
        BY DEF FinalizedBy
    <3> HIDE DEF final
    <3> QED
      BY <3>1, <1>2, <1>3 DEF CheckpointRules
  <2>7. bits \in SUBSET Nat
    BY DEF ShiftBits
  <2> HIDE DEF justified, final, bits, epoch
  <2>8. /\ pulledUp \in BeaconState
        /\ pulledUp.slot = state.slot
        /\ pulledUp.blockRoots = state.blockRoots
        /\ pulledUp.latestRoot = state.latestRoot
        /\ pulledUp.currentParticipation = state.currentParticipation
        /\ pulledUp.previousJustified = state.currentJustified
        /\ pulledUp.currentJustified = justified
        /\ pulledUp.finalized = final
    BY <2>2, <2>5, <2>6, <2>7, <1>2 DEF BeaconState
  <2> HIDE DEF pulledUp
  <2>9. CheckpointRules(pulledUp, store, tip, epoch)
    BY <2>5, <2>6, <2>8 DEF CheckpointRules
  <2>10. JustifiedCached(pulledUp, cached)
    BY <2>5, <2>8 DEF JustifiedCached
  <2> QED
    BY <2>5, <2>6, <2>8, <2>9, <2>10 DEF epoch, pulledUp
<1> QED
  BY <1>4, <1>5

\* The reads of process_justification_and_finalization never fail: a state
\* remembers the first slots of the two epochs it counts votes for.
LEMMA JustificationAccepted ==
  ASSUME ShortEpochs, NEW store, NEW tip, NEW cached, NEW state \in BeaconState,
         VoteRules(state, store, tip, cached)
  PROVE  ~JustificationRejects(state)
<1> DEFINE epoch == EpochOf(state.slot)
<1>1. /\ state.slot \in Nat /\ epoch \in Nat
      /\ Previous(epoch) \in Nat
      /\ epoch > 0 => Previous(epoch) = epoch - 1
  BY SlotInEpoch, PreviousEpoch DEF BeaconState
<1>2. /\ StartSlot(epoch) \in Nat /\ state.slot < StartSlot(epoch) + SlotsPerEpoch
      /\ SlotsPerEpoch \in Nat
  BY <1>1, SlotInEpoch, SlotsPerEpochAssumption
<1>3. ASSUME epoch > 1
      PROVE  /\ StartSlot(Previous(epoch)) \in Nat
             /\ StartSlot(epoch) = StartSlot(Previous(epoch)) + SlotsPerEpoch
  <2>1. Previous(epoch) = epoch - 1 /\ epoch - 1 \in Nat
    BY <1>1, <1>3
  <2>2. ASSUME NEW e \in Nat, NEW d \in Nat, e - 1 \in Nat
        PROVE  (e - 1) * d \in Nat /\ e * d = (e - 1) * d + d
    <3>1. ((e - 1) + 1) * d = (e - 1) * d + d /\ (e - 1) + 1 = e
      BY <2>2
    <3> QED
      BY <2>2, <3>1
  <2> HIDE DEF epoch
  <2> QED
    BY <1>1, <2>1, <2>2, SlotsPerEpochAssumption DEF StartSlot
<1>4. ASSUME Supermajority(state.currentParticipation) PROVE HasBlockRoot(state, epoch)
  <2>1. StartSlot(epoch) < state.slot
    BY <1>4, SupermajorityNotEmpty DEF VoteRules, Counted
  <2> HIDE DEF epoch
  <2> QED
    BY <2>1, <1>1, <1>2 DEF HasBlockRoot, ShortEpochs
<1>5. ASSUME Supermajority(state.previousParticipation), epoch > 1
      PROVE  HasBlockRoot(state, Previous(epoch))
  <2>1. StartSlot(Previous(epoch)) < state.slot
    BY <1>5, SupermajorityNotEmpty DEF VoteRules, Counted
  <2> HIDE DEF epoch
  <2> QED
    BY <2>1, <1>1, <1>2, <1>3, <1>5 DEF HasBlockRoot, ShortEpochs
<1> QED
  BY <1>4, <1>5 DEF JustificationRejects

-----------------------------------------------------------------------------
(* Slots without a block. *)

\* What justification depends on is the same in both states.
SameRule(a, b) ==
  /\ a.justificationBits = b.justificationBits
  /\ a.previousJustified = b.previousJustified
  /\ a.currentJustified = b.currentJustified
  /\ a.finalized = b.finalized
  /\ a.previousParticipation = b.previousParticipation
  /\ a.currentParticipation = b.currentParticipation

\* What justification yields depends on it, and on the epoch, only.
LEMMA SameRuleSameResult ==
  ASSUME NEW a \in BeaconState, NEW b \in BeaconState, SameRule(a, b),
         EpochOf(a.slot) = EpochOf(b.slot)
  PROVE  LET x == ProcessJustificationAndFinalization(a)
             y == ProcessJustificationAndFinalization(b)
         IN x.currentJustified.epoch = y.currentJustified.epoch /\ x.finalized = y.finalized
<1> DEFINE epoch == EpochOf(a.slot)
           prev == Supermajority(a.previousParticipation)
           curr == Supermajority(a.currentParticipation)
           bits == ShiftBits(a.justificationBits)
                     \cup (IF prev THEN {1} ELSE {})
                     \cup (IF curr THEN {0} ELSE {})
           justified(s) == IF curr THEN TargetOf(s, epoch)
                           ELSE IF prev THEN TargetOf(s, Previous(epoch))
                           ELSE s.currentJustified
           pulledUp(s) == [s EXCEPT !.previousJustified = s.currentJustified,
                                    !.currentJustified = justified(s),
                                    !.justificationBits = bits,
                                    !.finalized = FinalizedBy(s, bits, epoch)]
<1>1. CASE epoch <= 1
  BY <1>1 DEF ProcessJustificationAndFinalization, SameRule
<1>2. CASE ~(epoch <= 1)
  <2>1. /\ ProcessJustificationAndFinalization(a) = pulledUp(a)
        /\ ProcessJustificationAndFinalization(b) = pulledUp(b)
    BY <1>2 DEF ProcessJustificationAndFinalization, WeighJustificationAndFinalization,
                SameRule
  <2>2. justified(a).epoch = justified(b).epoch
    BY DEF TargetOf, SameRule
  <2>3. FinalizedBy(a, bits, epoch) = FinalizedBy(b, bits, epoch)
    BY DEF FinalizedBy, SameRule
  <2>4. \A s \in BeaconState : /\ pulledUp(s).currentJustified = justified(s)
                               /\ pulledUp(s).finalized = FinalizedBy(s, bits, epoch)
    <3> HIDE DEF justified, bits, epoch
    <3> QED
      BY DEF BeaconState
  <2> HIDE DEF pulledUp, justified, bits, epoch
  <2> QED
    BY <2>1, <2>2, <2>3, <2>4
<1> QED
  BY <1>1, <1>2

\* One slot of process_slots.
Advance(state, slot) ==
  LET processed == ProcessSlot(state)
  IN [(IF StartsEpoch(slot) THEN ProcessEpoch(processed) ELSE processed)
        EXCEPT !.slot = slot]

\* What has become of the checkpoints of base since.
Since(base, state) ==
  /\ base.slot <= state.slot
  /\ IF EpochOf(state.slot) = EpochOf(base.slot)
     THEN SameRule(state, base)
     ELSE LET pulledUp == ProcessJustificationAndFinalization(base)
          IN /\ pulledUp.currentJustified.epoch <= state.currentJustified.epoch
             /\ pulledUp.finalized.epoch <= state.finalized.epoch

\* process_slot writes down the root of the latest block.
LEMMA ProcessSlotSound ==
  ASSUME NEW store, RootedTree(store), NEW tip \in DOMAIN store, NEW cached,
         NEW state, Sound(state, store, tip, cached)
  PROVE  LET processed == ProcessSlot(state)
         IN /\ processed \in BeaconState
            /\ processed.slot = state.slot
            /\ SameRule(processed, state)
            /\ History(processed, store, tip, state.slot + 1)
            /\ CheckpointRules(processed, store, tip, Previous(EpochOf(state.slot)))
            /\ VoteRules(processed, store, tip, cached)
            /\ JustifiedCached(processed, cached)
<1> DEFINE processed == ProcessSlot(state)
           roots == Put(state.blockRoots, state.slot, state.latestRoot)
<1>1. /\ state \in BeaconState /\ state.slot \in Nat
      /\ state.latestRoot = tip /\ tip \in RootOrNone
      /\ DOMAIN state.blockRoots = 0..(state.slot - 1)
      /\ \A s \in 0..(state.slot - 1) : state.blockRoots[s] = Ancestor(store, tip, s)
  BY DEF Sound, BeaconState, History, RootedTree, BlockTree, RootOrNone
<1>2. Ancestor(store, tip, state.slot) = tip
  BY <1>1, AncestorUnfolds DEF Sound, RootedTree, BlockTree
<1>3. /\ DOMAIN roots = 0..state.slot
      /\ \A s \in 0..state.slot : roots[s] = Ancestor(store, tip, s)
  <2>1. DOMAIN roots = 0..(state.slot - 1) \cup {state.slot}
    BY <1>1 DEF Put
  <2>2. 0..(state.slot - 1) \cup {state.slot} = 0..state.slot
    BY <1>1
  <2>3. ASSUME NEW s \in 0..state.slot PROVE roots[s] = Ancestor(store, tip, s)
    <3>1. CASE s = state.slot
      BY <3>1, <2>1, <1>1, <1>2 DEF Put
    <3>2. CASE s # state.slot
      <4>1. s \in 0..(state.slot - 1)
        BY <3>2, <1>1
      <4>2. roots[s] = state.blockRoots[s]
        BY <3>2, <4>1, <1>1 DEF Put
      <4> QED
        BY <4>1, <4>2, <1>1
    <3> QED
      BY <3>1, <3>2
  <2> QED
    BY <2>1, <2>2, <2>3
<1>4. roots \in BlockRoots
  <2>1. ASSUME NEW s \in 0..state.slot PROVE Ancestor(store, tip, s) \in RootOrNone
    BY <1>1, AncestorType DEF RootedTree, BlockTree, RootOrNone
  <2>2. roots \in [0..state.slot -> RootOrNone]
    <3>1. roots = [s \in 0..state.slot |-> roots[s]]
      BY <1>3 DEF Put
    <3> HIDE DEF roots
    <3> QED
      BY <2>1, <1>3, <3>1
  <2>3. state.slot + 1 \in Nat /\ (state.slot + 1) - 1 = state.slot
    BY <1>1
  <2> HIDE DEF roots
  <2> QED
    BY <2>2, <2>3 DEF BlockRoots
<1>5. processed = [state EXCEPT !.blockRoots = roots]
  BY DEF ProcessSlot
<1> HIDE DEF roots
<1>6. /\ processed \in BeaconState
      /\ processed.slot = state.slot
      /\ processed.latestRoot = state.latestRoot
      /\ processed.blockRoots = roots
      /\ SameRule(processed, state)
  BY <1>1, <1>4, <1>5 DEF BeaconState, SameRule
<1> HIDE DEF processed
<1>7. History(processed, store, tip, state.slot + 1)
  BY <1>1, <1>3, <1>6 DEF History
<1>8. /\ CheckpointRules(processed, store, tip, Previous(EpochOf(state.slot)))
      /\ VoteRules(processed, store, tip, cached)
      /\ JustifiedCached(processed, cached)
  BY <1>6 DEF Sound, SameRule, CheckpointRules, VoteRules, Counted, JustifiedCached
<1> QED
  BY <1>6, <1>7, <1>8 DEF processed

\* One slot keeps a state sound, and moves no checkpoint back.
LEMMA AdvanceSound ==
  ASSUME NEW store, RootedTree(store), AnchorSlot = 0, NEW tip \in DOMAIN store,
         NEW cached, NEW base \in BeaconState,
         ProcessJustificationAndFinalization(base) \in BeaconState,
         NEW state, Sound(state, store, tip, cached), Since(base, state)
  PROVE  LET next == Advance(state, state.slot + 1)
         IN /\ Sound(next, store, tip, cached)
            /\ next.slot = state.slot + 1
            /\ Since(base, next)
<1> DEFINE slot == state.slot + 1
           processed == ProcessSlot(state)
           next == Advance(state, slot)
           epoch == EpochOf(state.slot)
<1>1. /\ state \in BeaconState /\ state.slot \in Nat /\ slot \in Nat /\ base.slot \in Nat
      /\ store[tip].slot \in Nat /\ store[tip].slot <= state.slot
      /\ epoch \in Nat /\ EpochOf(base.slot) \in Nat
  BY SlotInEpoch DEF Sound, BeaconState, RootedTree, BlockTree
<1>2. /\ processed \in BeaconState
      /\ processed.slot = state.slot
      /\ SameRule(processed, state)
      /\ History(processed, store, tip, slot)
      /\ CheckpointRules(processed, store, tip, Previous(epoch))
      /\ VoteRules(processed, store, tip, cached)
      /\ JustifiedCached(processed, cached)
  BY ProcessSlotSound
<1>3. EpochOf(slot) = IF StartsEpoch(slot) THEN epoch + 1 ELSE epoch
  BY <1>1, NextSlotEpoch
<1>4. base.slot <= slot /\ store[tip].slot <= slot
  BY <1>1 DEF Since
<1> HIDE DEF processed
<1>5. CASE ~StartsEpoch(slot)
  <2>1. next = [processed EXCEPT !.slot = slot]
    BY <1>5 DEF Advance, processed
  <2> HIDE DEF slot, next
  <2>2. /\ next \in BeaconState /\ next.slot = slot
        /\ next.latestRoot = processed.latestRoot
        /\ next.blockRoots = processed.blockRoots
        /\ SameRule(next, processed)
    BY <1>1, <1>2, <2>1 DEF BeaconState, SameRule
  <2>3. EpochOf(next.slot) = epoch
    BY <1>3, <1>5, <2>2
  <2>4. History(next, store, tip, next.slot)
    BY <1>2, <2>2 DEF History
  <2>5. CheckpointRules(next, store, tip, Previous(EpochOf(next.slot)))
    BY <1>2, <2>2, <2>3 DEF CheckpointRules, SameRule
  <2>6. VoteRules(next, store, tip, cached)
    <3>1. ASSUME NEW votes, NEW e \in Nat, Counted(votes, e, processed, store, tip, cached)
          PROVE  Counted(votes, e, next, store, tip, cached)
      <4>1. StartSlot(e) \in Nat
        BY EpochsApart
      <4>2. StartSlot(e) < state.slot => StartSlot(e) < slot
        BY <1>1, <4>1 DEF slot
      <4> QED
        BY <1>2, <2>2, <3>1, <4>2 DEF Counted
    <3>2. Previous(epoch) \in Nat
      BY <1>1, PreviousEpoch
    <3> QED
      BY <1>1, <1>2, <2>2, <2>3, <3>1, <3>2 DEF VoteRules, SameRule
  <2>7. JustifiedCached(next, cached)
    BY <1>2, <2>2 DEF JustifiedCached, SameRule
  <2>8. Since(base, next)
    <3>1. SameRule(next, state)
      BY <1>2, <2>2 DEF SameRule
    <3> QED
      BY <3>1, <1>4, <2>2, <2>3 DEF Since, SameRule
  <2> QED
    BY <1>4, <2>2, <2>4, <2>5, <2>6, <2>7, <2>8 DEF Sound, slot, next
<1>6. CASE StartsEpoch(slot)
  <2> DEFINE pulledUp == ProcessJustificationAndFinalization(processed)
  <2>1. /\ pulledUp \in BeaconState
        /\ pulledUp.slot = state.slot
        /\ pulledUp.blockRoots = processed.blockRoots
        /\ pulledUp.latestRoot = processed.latestRoot
        /\ pulledUp.currentParticipation = state.currentParticipation
        /\ CheckpointRules(pulledUp, store, tip, epoch)
        /\ JustifiedCached(pulledUp, cached)
        /\ state.currentJustified.epoch <= pulledUp.currentJustified.epoch
        /\ state.finalized.epoch <= pulledUp.finalized.epoch
    <3>1. processed.slot <= slot
      BY <1>1, <1>2
    <3>2. CheckpointRules(processed, store, tip, Previous(EpochOf(processed.slot)))
      BY <1>2
    <3>3. /\ processed.currentParticipation = state.currentParticipation
          /\ processed.currentJustified = state.currentJustified
          /\ processed.finalized = state.finalized
      BY <1>2 DEF SameRule
    <3> HIDE DEF slot, epoch
    <3>4. /\ pulledUp \in BeaconState
          /\ pulledUp.slot = processed.slot
          /\ pulledUp.blockRoots = processed.blockRoots
          /\ pulledUp.latestRoot = processed.latestRoot
          /\ pulledUp.currentParticipation = processed.currentParticipation
          /\ CheckpointRules(pulledUp, store, tip, EpochOf(processed.slot))
          /\ JustifiedCached(pulledUp, cached)
          /\ processed.currentJustified.epoch <= pulledUp.currentJustified.epoch
          /\ processed.finalized.epoch <= pulledUp.finalized.epoch
      BY <1>1, <1>2, <3>1, <3>2, JustificationSound
    <3> QED
      BY <1>2, <3>3, <3>4 DEF epoch
  <2>2. next = [pulledUp EXCEPT !.previousParticipation = pulledUp.currentParticipation,
                                !.currentParticipation = {}, !.slot = slot]
    BY <1>6, <2>1 DEF Advance, ProcessEpoch, RotateParticipation, processed, BeaconState
  <2>3. state.currentParticipation \in SUBSET Validator
    BY <1>1 DEF BeaconState
  <2> HIDE DEF slot, next, pulledUp
  <2>4. /\ next \in BeaconState /\ next.slot = slot
        /\ next.latestRoot = processed.latestRoot
        /\ next.blockRoots = processed.blockRoots
        /\ next.previousParticipation = state.currentParticipation
        /\ next.currentParticipation = {}
        /\ next.previousJustified = pulledUp.previousJustified
        /\ next.currentJustified = pulledUp.currentJustified
        /\ next.finalized = pulledUp.finalized
    BY <1>1, <2>1, <2>2, <2>3 DEF BeaconState
  <2>5. EpochOf(next.slot) = epoch + 1 /\ Previous(EpochOf(next.slot)) = epoch
    BY <1>1, <1>3, <1>6, <2>4, PreviousEpoch
  <2>6. History(next, store, tip, next.slot)
    BY <1>2, <2>4 DEF History
  <2>7. CheckpointRules(next, store, tip, Previous(EpochOf(next.slot)))
    BY <2>1, <2>4, <2>5 DEF CheckpointRules
  <2>8. VoteRules(next, store, tip, cached)
    <3>1. Counted(state.currentParticipation, epoch, state, store, tip, cached)
      BY DEF Sound, VoteRules
    <3>2. ASSUME StartSlot(epoch) < state.slot PROVE StartSlot(epoch) < slot
      <4>1. StartSlot(epoch) \in Nat
        BY <1>1, SlotInEpoch
      <4> QED
        BY <1>1, <3>2, <4>1 DEF slot
    <3>3. Counted(next.previousParticipation, epoch, next, store, tip, cached)
      BY <2>4, <3>1, <3>2 DEF Counted
    <3>4. Counted(next.currentParticipation, EpochOf(next.slot), next, store, tip, cached)
      BY <2>4 DEF Counted
    <3> QED
      BY <2>5, <3>3, <3>4 DEF VoteRules
  <2>9. JustifiedCached(next, cached)
    BY <2>1, <2>4 DEF JustifiedCached
  <2>10. Since(base, next)
    <3> DEFINE result == ProcessJustificationAndFinalization(base)
    <3>1. /\ EpochOf(base.slot) <= epoch
          /\ EpochOf(next.slot) # EpochOf(base.slot)
      <4>1. EpochOf(base.slot) <= epoch
        BY <1>1, EpochMonotone DEF Since
      <4> QED
        BY <4>1, <1>1, <2>5
    <3>2. /\ result.currentJustified.epoch <= pulledUp.currentJustified.epoch
          /\ result.finalized.epoch <= pulledUp.finalized.epoch
      <4>1. CASE epoch = EpochOf(base.slot)
        <5>1. SameRule(processed, base)
          BY <4>1, <1>2 DEF Since, SameRule
        <5>2. EpochOf(processed.slot) = EpochOf(base.slot)
          BY <4>1, <1>2
        <5>3. /\ pulledUp.currentJustified.epoch = result.currentJustified.epoch
              /\ pulledUp.finalized = result.finalized
          BY <5>1, <5>2, <1>2, SameRuleSameResult DEF pulledUp
        <5>4. /\ pulledUp.currentJustified.epoch \in Nat /\ pulledUp.finalized.epoch \in Nat
          BY <2>1 DEF BeaconState, Checkpoint
        <5> HIDE DEF result
        <5> QED
          BY <5>3, <5>4
      <4>2. CASE epoch # EpochOf(base.slot)
        <5>1. /\ result.currentJustified.epoch <= state.currentJustified.epoch
              /\ result.finalized.epoch <= state.finalized.epoch
          BY <4>2 DEF Since
        <5>2. /\ state.currentJustified.epoch \in Nat /\ state.finalized.epoch \in Nat
              /\ pulledUp.currentJustified.epoch \in Nat /\ pulledUp.finalized.epoch \in Nat
          BY <1>1, <2>1 DEF BeaconState, Checkpoint
        <5>3. result.currentJustified.epoch \in Nat /\ result.finalized.epoch \in Nat
          BY DEF BeaconState, Checkpoint
        <5> HIDE DEF result
        <5> QED
          BY <5>1, <5>2, <5>3, <2>1
      <4> QED
        BY <4>1, <4>2
    <3> QED
      BY <1>4, <2>4, <3>1, <3>2 DEF Since
  <2> QED
    BY <1>4, <2>4, <2>6, <2>7, <2>8, <2>9, <2>10 DEF Sound, slot, next
<1> QED
  BY <1>5, <1>6

\* process_slots, whose recursion runs over the slots up to target: it ends in
\* whatever set of states one slot does not lead out of.
LEMMA ProcessSlotsStaysIn ==
  ASSUME NEW store, RootedTree(store), AnchorSlot = 0, NEW tip \in DOMAIN store,
         NEW cached, NEW base, Sound(base, store, tip, cached),
         NEW target \in Nat, base.slot < target,
         NEW W, base \in W,
         \A z \in W : Sound(z, store, tip, cached) => Advance(z, z.slot + 1) \in W
  PROVE  LET state == ProcessSlots(base, target)
         IN /\ Sound(state, store, tip, cached)
            /\ state.slot = target
            /\ Since(base, state)
            /\ state \in W
<1> DEFINE first == base.slot
           D == first..target
           Z == {z \in BeaconState \cap W : Sound(z, store, tip, cached) /\ Since(base, z)}
           rank == [d \in D |-> d - first]
           start == {first}
           out == [d \in D |-> base]
           next == [d \in D |-> d - 1]
           combine == [p \in D \X Z |->
                         IF p[2].slot + 1 = p[1] THEN Advance(p[2], p[1]) ELSE p[2]]
           IsAdvanced(g) == g = [d \in D |-> IF d = first THEN base ELSE Advance(g[d - 1], d)]
<1>1. /\ base \in BeaconState /\ first \in Nat
      /\ Since(base, base)
  BY DEF Sound, BeaconState, Since, SameRule
<1>2. ProcessJustificationAndFinalization(base) \in BeaconState
  BY <1>1, JustificationSound DEF Sound
<1>3. base \in Z
  BY <1>1
<1>4. rank \in [D -> Nat]
  BY <1>1
<1>5. \A d \in D \ start : next[d] \in D /\ rank[next[d]] < rank[d]
  BY <1>1
<1>6. \A d \in D \cap start : out[d] \in Z
  BY <1>3
<1>7. \A d \in D, z \in Z : combine[<<d, z>>] \in Z
  <2> SUFFICES ASSUME NEW d \in D, NEW z \in Z PROVE combine[<<d, z>>] \in Z
    OBVIOUS
  <2>1. combine[<<d, z>>] = IF z.slot + 1 = d THEN Advance(z, d) ELSE z
    OBVIOUS
  <2>2. CASE z.slot + 1 = d
    <3>1. /\ Sound(z, store, tip, cached) /\ Since(base, z)
      OBVIOUS
    <3>2. /\ Sound(Advance(z, z.slot + 1), store, tip, cached)
          /\ Since(base, Advance(z, z.slot + 1))
      BY <3>1, <1>1, <1>2, AdvanceSound
    <3>3. Advance(z, d) \in BeaconState \cap W
      BY <2>2, <3>1, <3>2 DEF Sound
    <3> QED
      BY <2>1, <2>2, <3>2, <3>3
  <2> QED
    BY <2>1, <2>2
<1>8. \E f \in [D -> Z] : Unfolds(f, D, start, out, next, combine)
  <2> HIDE DEF D, Z, rank, start, out, next, combine
  <2> QED
    BY <1>4, <1>5, <1>6, <1>7, RecursionExists
<1>9. PICK f \in [D -> Z] : Unfolds(f, D, start, out, next, combine)
  BY <1>8
<1>10. /\ first \in D => f[first] = base
       /\ \A d \in D \ start :
            /\ d - 1 \in D
            /\ f[d - 1] \in Z
            /\ f[d] = IF f[d - 1].slot + 1 = d THEN Advance(f[d - 1], d) ELSE f[d - 1]
  <2>1. first \in D => f[first] = base
    BY <1>9 DEF Unfolds
  <2>2. ASSUME NEW d \in D \ start
        PROVE  /\ d - 1 \in D
               /\ f[d - 1] \in Z
               /\ f[d] = IF f[d - 1].slot + 1 = d THEN Advance(f[d - 1], d) ELSE f[d - 1]
    <3>1. d - 1 \in D /\ next[d] = d - 1
      BY <1>5
    <3>2. f[d] = combine[<<d, f[d - 1]>>]
      BY <1>9, <3>1 DEF Unfolds
    <3>3. f[d - 1] \in Z
      BY <1>9, <3>1
    <3> HIDE DEF Z
    <3> QED
      BY <3>1, <3>2, <3>3
  <2> QED
    BY <2>1, <2>2
<1>11. \A d \in D : f[d].slot = d
  <2> DEFINE S == {d \in D : f[d].slot = d}
  <2>1. ASSUME NEW d \in D, \A e \in D : rank[e] < rank[d] => e \in S
        PROVE  d \in S
    <3>1. CASE d = first
      BY <3>1, <1>10
    <3>2. CASE d # first
      <4>1. d - 1 \in D /\ f[d - 1] \in Z
        BY <3>2, <1>10
      <4>2. f[d - 1].slot = d - 1
        <5>1. rank[d - 1] < rank[d]
          BY <3>2, <1>5
        <5> HIDE DEF rank
        <5> QED
          BY <4>1, <5>1, <2>1
      <4>3. (d - 1) + 1 = d
        BY <1>1
      <4>4. f[d] = Advance(f[d - 1], f[d - 1].slot + 1)
        BY <3>2, <4>2, <4>3, <1>10
      <4>5. Sound(f[d - 1], store, tip, cached) /\ Since(base, f[d - 1])
        BY <4>1
      <4>6. Advance(f[d - 1], f[d - 1].slot + 1).slot = f[d - 1].slot + 1
        BY <4>5, <1>1, <1>2, AdvanceSound
      <4> QED
        BY <4>2, <4>3, <4>4, <4>6
    <3> QED
      BY <3>1, <3>2
  <2>2. S \in SUBSET D
    OBVIOUS
  <2>3. S = D
    <3> HIDE DEF S, rank, D
    <3> QED
      BY <2>1, <2>2, <1>4, RankInduction
  <2> QED
    BY <2>3
<1>12. IsAdvanced(f)
  <2>1. ASSUME NEW d \in D
        PROVE  f[d] = IF d = first THEN base ELSE Advance(f[d - 1], d)
    <3>1. d # first => f[d - 1].slot + 1 = d
      BY <1>1, <1>10, <1>11
    <3> QED
      BY <3>1, <1>10
  <2> HIDE DEF D, Z
  <2> QED
    BY <2>1, <1>9
<1> DEFINE advanced == CHOOSE g : IsAdvanced(g)
<1>13. IsAdvanced(advanced)
  BY <1>12
<1>14. ProcessSlots(base, target) = advanced[target]
  BY DEF ProcessSlots, Advance
<1> HIDE DEF advanced
<1>15. \A d \in D : advanced[d] = f[d]
  <2> DEFINE S == {d \in D : advanced[d] = f[d]}
  <2>1. ASSUME NEW d \in D, \A e \in D : rank[e] < rank[d] => e \in S
        PROVE  d \in S
    <3>1. /\ advanced[d] = IF d = first THEN base ELSE Advance(advanced[d - 1], d)
          /\ f[d] = IF d = first THEN base ELSE Advance(f[d - 1], d)
      BY <1>12, <1>13
    <3>2. d # first => advanced[d - 1] = f[d - 1]
      <4>1. d # first => d - 1 \in D /\ rank[d - 1] < rank[d]
        BY <1>5
      <4> HIDE DEF rank
      <4> QED
        BY <4>1, <2>1
    <3> QED
      BY <3>1, <3>2
  <2>2. S \in SUBSET D
    OBVIOUS
  <2>3. S = D
    <3> HIDE DEF S, rank, D
    <3> QED
      BY <2>1, <2>2, <1>4, RankInduction
  <2> QED
    BY <2>3
<1>16. target \in D /\ f[target] \in Z
  BY <1>1, <1>9
<1> QED
  BY <1>11, <1>14, <1>15, <1>16

\* In particular it stays among the sound ones.
LEMMA ProcessSlotsSound ==
  ASSUME NEW store, RootedTree(store), AnchorSlot = 0, NEW tip \in DOMAIN store,
         NEW cached, NEW base, Sound(base, store, tip, cached),
         NEW target \in Nat, base.slot < target
  PROVE  LET state == ProcessSlots(base, target)
         IN /\ Sound(state, store, tip, cached)
            /\ state.slot = target
            /\ Since(base, state)
<1> DEFINE W == {base} \cup {Advance(z, z.slot + 1) : z \in BeaconState}
<1>1. base \in W /\ \A z \in W : Sound(z, store, tip, cached) => Advance(z, z.slot + 1) \in W
  BY DEF Sound
<1> HIDE DEF W
<1> QED
  BY <1>1, ProcessSlotsStaysIn

-----------------------------------------------------------------------------
(* Blocks and the attestations they include. *)

\* A vote on_attestation accepts from a block, once its slot is past.
Votable(att, store) ==
  /\ att.root \in DOMAIN store
  /\ store[att.root].slot <= att.slot
  /\ att.target = OnChain(EpochOf(att.slot), store, att.root)

\* What process_attestation requires of a vote: its slot is past, its epoch that
\* of the state or the one before, and its source the one justified then.
LEMMA InclusionsInTime ==
  ASSUME NEW store, RootedTree(store), AnchorSlot = 0, NEW tip \in DOMAIN store,
         NEW cached, NEW state, Sound(state, store, tip, cached),
         NEW att \in Inclusions(state)
  PROVE  /\ att.slot \in Nat /\ att.slot < state.slot
         /\ att.attesters \in BodyAttesters
         /\ att.target \in Checkpoint
         /\ att.target.epoch = EpochOf(att.slot)
         /\ att.target.epoch \in {EpochOf(state.slot), Previous(EpochOf(state.slot))}
         /\ StartSlot(att.target.epoch) < state.slot
         /\ att.source = IF att.target.epoch = EpochOf(state.slot)
                         THEN state.currentJustified ELSE state.previousJustified
         /\ Honest(att)
<1> DEFINE epoch == EpochOf(att.slot)
<1>1. /\ state \in BeaconState /\ state.slot \in Nat
      /\ DOMAIN state.blockRoots = 0..(state.slot - 1)
      /\ \A s \in 0..(state.slot - 1) : state.blockRoots[s] = Ancestor(store, tip, s)
  BY DEF Sound, BeaconState, History
<1>2. PICK slot \in DOMAIN state.blockRoots : att \in VotesOfSlot(state, slot)
  BY DEF Inclusions
<1>3. IncludableAttestation(state, att) /\ Honest(att)
  BY DEF Inclusions
<1>4. PICK root \in {state.blockRoots[slot]} \cup StrayRoots,
           targetRoot \in {BlockRoot(state, EpochOf(slot))} \cup StrayRoots,
           attesters \in BodyAttesters :
        att = [slot |-> slot, root |-> root,
               source |-> IF EpochOf(slot) = EpochOf(state.slot)
                          THEN state.currentJustified ELSE state.previousJustified,
               target |-> [epoch |-> EpochOf(slot), root |-> targetRoot],
               attesters |-> attesters]
  BY <1>2 DEF VotesOfSlot
<1>5. /\ att.slot = slot /\ att.attesters = attesters
      /\ att.target = [epoch |-> EpochOf(slot), root |-> targetRoot]
      /\ att.source = IF EpochOf(slot) = EpochOf(state.slot)
                      THEN state.currentJustified ELSE state.previousJustified
  BY <1>4
<1>6. att.slot \in Nat /\ att.slot < state.slot
  BY <1>1, <1>2, <1>5
<1>7. epoch \in Nat /\ StartSlot(epoch) \in Nat /\ StartSlot(epoch) <= att.slot
  BY <1>6, SlotInEpoch
<1>8. StartSlot(epoch) < state.slot
  BY <1>1, <1>6, <1>7
<1>9. targetRoot \in RootOrNone
  <2>1. BlockRoot(state, epoch) = Ancestor(store, tip, StartSlot(epoch))
    BY <1>1, <1>7, <1>8 DEF BlockRoot
  <2>2. Ancestor(store, tip, StartSlot(epoch)) \in DOMAIN store
    BY <1>7, WalkFound
  <2>3. DOMAIN store \subseteq RootOrNone
    BY DEF RootedTree, BlockTree, RootOrNone
  <2> QED
    BY <1>4, <1>5, <2>1, <2>2, <2>3, StrayAssumption
<1>10. att.target \in Checkpoint /\ att.target.epoch = epoch
  BY <1>5, <1>7, <1>9 DEF Checkpoint
<1> QED
  BY <1>3, <1>4, <1>5, <1>6, <1>8, <1>10 DEF IncludableAttestation

\* A vote for the chain of a state is one on_attestation accepts.
LEMMA VotesForChainVotable ==
  ASSUME NEW store, RootedTree(store), AnchorSlot = 0, NEW tip \in DOMAIN store,
         NEW cached, NEW state, Sound(state, store, tip, cached),
         NEW att, att.slot \in Nat, att.slot < state.slot, VotesForChain(state, att)
  PROVE  Votable(att, store)
<1> DEFINE epoch == EpochOf(att.slot)
<1>1. /\ state \in BeaconState /\ state.slot \in Nat
      /\ DOMAIN state.blockRoots = 0..(state.slot - 1)
      /\ \A s \in 0..(state.slot - 1) : state.blockRoots[s] = Ancestor(store, tip, s)
      /\ History(state, store, tip, state.slot)
  BY DEF Sound, BeaconState, History
<1>2. att.root = state.blockRoots[att.slot] /\ att.target = TargetOf(state, epoch)
  BY DEF VotesForChain
<1>3. /\ att.slot \in Nat /\ att.slot < state.slot
      /\ att.root = Ancestor(store, tip, att.slot)
  BY <1>1, <1>2
<1>4. epoch \in Nat /\ StartSlot(epoch) \in Nat /\ StartSlot(epoch) <= att.slot
  BY <1>3, SlotInEpoch
<1>5. StartSlot(epoch) < state.slot
  BY <1>1, <1>3, <1>4
<1>6. att.target = OnChain(epoch, store, tip)
  BY <1>1, <1>2, <1>4, <1>5, TargetIsOnChain
<1>7. att.root \in DOMAIN store /\ store[att.root].slot <= att.slot
  BY <1>3, WalkFound
<1>8. Ancestor(store, att.root, StartSlot(epoch)) = Ancestor(store, tip, StartSlot(epoch))
  <2>1. tip \in RootOrNone
    BY DEF RootedTree, BlockTree, RootOrNone
  <2> QED
    BY <1>3, <1>4, <1>7, <2>1, AncestorTwice DEF RootedTree
<1> QED
  BY <1>6, <1>7, <1>8 DEF Votable, OnChain, CheckpointBlock

\* A block on top of the chain: walks to the slots before it.
LEMMA WalkFromNewTip ==
  ASSUME NEW store, RootedTree(store), NEW root \in Root \ DOMAIN store, NEW block,
         block.parent \in DOMAIN store, block.slot \in Nat,
         RootedTree(Put(store, root, block)), NEW slot \in Nat, slot < block.slot
  PROVE  Ancestor(Put(store, root, block), root, slot) = Ancestor(store, block.parent, slot)
<1> DEFINE after == Put(store, root, block)
<1>1. root \in DOMAIN after /\ after[root] = block
  BY DEF Put
<1>2. /\ root \in RootOrNone /\ block.parent \in RootOrNone /\ block.parent # root
      /\ BlockTree(after) /\ BlockTree(store)
  BY DEF RootedTree, BlockTree, RootOrNone
<1>3. Ancestor(after, root, slot) = Ancestor(after, block.parent, slot)
  <2>1. block.slot > slot
    OBVIOUS
  <2> HIDE DEF after
  <2> QED
    BY <2>1, <1>1, <1>2, AncestorUnfolds
<1> QED
  BY <1>2, <1>3, AncestorKept

\* The body of a block is processed one attestation after the other.
LEMMA ProcessBlockUnfolds ==
  ASSUME NEW state, NEW root, NEW att
  PROVE  /\ ProcessBlock(state, root, <<>>) = [state EXCEPT !.latestRoot = root]
         /\ ProcessBlock(state, root, <<att>>)
              = ProcessAttestation([state EXCEPT !.latestRoot = root], att)
<1> DEFINE inserted == [state EXCEPT !.latestRoot = root]
<1>1. ProcessBlock(state, root, <<>>) = inserted
  <2> DEFINE IsAfter(g) == g = [i \in 0..0 |-> IF i = 0 THEN inserted
                                   ELSE ProcessAttestation(g[i - 1], <<>>[i])]
             after == CHOOSE g : IsAfter(g)
  <2>1. IsAfter([i \in 0..0 |-> inserted])
    OBVIOUS
  <2>2. IsAfter(after)
    BY <2>1
  <2>3. Len(<<>>) = 0
    OBVIOUS
  <2>4. ProcessBlock(state, root, <<>>) = after[0]
    BY <2>3 DEF ProcessBlock
  <2> HIDE DEF after
  <2>5. after[0] = inserted
    BY <2>2
  <2> QED
    BY <2>4, <2>5
<1>2. ProcessBlock(state, root, <<att>>) = ProcessAttestation(inserted, att)
  <2> DEFINE IsAfter(g) == g = [i \in 0..1 |-> IF i = 0 THEN inserted
                                   ELSE ProcessAttestation(g[i - 1], <<att>>[i])]
             after == CHOOSE g : IsAfter(g)
             both == [i \in 0..1 |-> IF i = 0 THEN inserted
                                     ELSE ProcessAttestation(inserted, att)]
  <2> HIDE DEF inserted
  <2>1. IsAfter(both)
    <3>1. <<att>>[1] = att /\ both[0] = inserted
      OBVIOUS
    <3>2. \A i \in 0..1 : i = 0 \/ (i = 1 /\ i - 1 = 0)
      OBVIOUS
    <3>3. ASSUME NEW i \in 0..1
          PROVE  both[i] = IF i = 0 THEN inserted
                           ELSE ProcessAttestation(both[i - 1], <<att>>[i])
      BY <3>1, <3>2
    <3> QED
      BY <3>3
  <2>2. IsAfter(after)
    BY <2>1
  <2>3. Len(<<att>>) = 1
    OBVIOUS
  <2>4. ProcessBlock(state, root, <<att>>) = after[1]
    BY <2>3 DEF ProcessBlock, inserted
  <2> HIDE DEF after
  <2>5. after[0] = inserted
    BY <2>2
  <2>6. after[1] = ProcessAttestation(after[1 - 1], <<att>>[1])
    BY <2>2
  <2>7. 1 - 1 = 0 /\ <<att>>[1] = att
    OBVIOUS
  <2> QED
    BY <2>4, <2>5, <2>6, <2>7 DEF inserted
<1> QED
  BY <1>1, <1>2

Targets(body) == {att.target : att \in Range(body)}

SameCheckpoints(a, b) ==
  /\ a.slot = b.slot
  /\ a.previousJustified = b.previousJustified
  /\ a.currentJustified = b.currentJustified
  /\ a.finalized = b.finalized

\* A state stays sound when its chain gets a new tip at its slot.
LEMMA NewTipSound ==
  ASSUME NEW store, RootedTree(store), AnchorSlot = 0,
         NEW root \in Root \ DOMAIN store, NEW block, block.parent \in DOMAIN store,
         RootedTree(Put(store, root, block)),
         NEW cached, NEW later, cached \subseteq later,
         NEW state, Sound(state, store, block.parent, cached), state.slot = block.slot
  PROVE  LET inserted == [state EXCEPT !.latestRoot = root]
         IN /\ Sound(inserted, Put(store, root, block), root, later)
            /\ SameCheckpoints(inserted, state)
<1> DEFINE after == Put(store, root, block)
           parent == block.parent
           inserted == [state EXCEPT !.latestRoot = root]
           epoch == EpochOf(state.slot)
<1>1. /\ state \in BeaconState /\ state.slot \in Nat /\ epoch \in Nat
      /\ Previous(epoch) \in Nat /\ Previous(epoch) <= epoch
      /\ epoch > 0 => Previous(epoch) = epoch - 1
  BY SlotInEpoch, PreviousEpoch DEF Sound, BeaconState
<1>2. \A slot \in Nat : slot < state.slot =>
        Ancestor(after, root, slot) = Ancestor(store, parent, slot)
  BY <1>1, WalkFromNewTip
<1>3. \A e \in Nat : StartSlot(e) < state.slot =>
        OnChain(e, after, root) = OnChain(e, store, parent)
  <2> TAKE e \in Nat
  <2>1. StartSlot(e) \in Nat
    BY EpochsApart
  <2> QED
    BY <1>2, <2>1 DEF OnChain, CheckpointBlock
<1>4. after[root] = block
  BY DEF Put
<1>5. /\ inserted \in BeaconState
      /\ inserted.slot = state.slot
      /\ inserted.latestRoot = root
      /\ inserted.blockRoots = state.blockRoots
      /\ inserted.previousJustified = state.previousJustified
      /\ inserted.currentJustified = state.currentJustified
      /\ inserted.finalized = state.finalized
      /\ inserted.previousParticipation = state.previousParticipation
      /\ inserted.currentParticipation = state.currentParticipation
  BY <1>1 DEF BeaconState
<1> HIDE DEF inserted, after
<1>6. History(inserted, after, root, state.slot)
  <2>1. /\ DOMAIN state.blockRoots = 0..(state.slot - 1)
        /\ \A s \in 0..(state.slot - 1) : state.blockRoots[s] = Ancestor(store, parent, s)
    BY DEF Sound, History
  <2>2. \A s \in 0..(state.slot - 1) : s \in Nat /\ s < state.slot
    BY <1>1
  <2> QED
    BY <1>2, <1>5, <2>1, <2>2 DEF History
<1>7. CheckpointRules(inserted, after, root, Previous(epoch))
  <2>1. ASSUME NEW c \in Checkpoint, Chained(c, store, parent), c.epoch <= Previous(epoch)
        PROVE  Chained(c, after, root)
    <3>1. CASE c = Genesis
      BY <3>1 DEF Chained
    <3>2. CASE c # Genesis
      <4>1. c.epoch \in Nat \ {0} /\ c = OnChain(c.epoch, store, parent)
        BY <2>1, <3>2 DEF Chained
      <4>2. epoch > 0 /\ c.epoch < epoch
        BY <1>1, <2>1, <4>1 DEF Previous
      <4>3. StartSlot(c.epoch) < state.slot
        <5>1. /\ StartSlot(c.epoch) \in Nat /\ StartSlot(epoch) \in Nat
              /\ StartSlot(c.epoch) + SlotsPerEpoch <= StartSlot(epoch)
          BY <1>1, <4>1, <4>2, EpochsApart
        <5>2. StartSlot(epoch) <= state.slot
          BY <1>1, SlotInEpoch
        <5> HIDE DEF epoch
        <5> QED
          BY <1>1, <5>1, <5>2, SlotsPerEpochAssumption
      <4> QED
        BY <1>3, <4>1, <4>3 DEF Chained
    <3> QED
      BY <3>1, <3>2
  <2>2. /\ state.previousJustified \in Checkpoint /\ state.currentJustified \in Checkpoint
        /\ state.finalized \in Checkpoint
        /\ state.previousJustified.epoch \in Nat /\ state.currentJustified.epoch \in Nat
        /\ state.finalized.epoch \in Nat
    BY <1>1 DEF BeaconState, Checkpoint
  <2>3. /\ state.previousJustified.epoch <= Previous(epoch)
        /\ state.currentJustified.epoch <= Previous(epoch)
        /\ state.finalized.epoch <= Previous(epoch)
    BY <1>1, <2>2 DEF Sound, CheckpointRules
  <2> HIDE DEF epoch
  <2>4. /\ Chained(state.previousJustified, after, root)
        /\ Chained(state.currentJustified, after, root)
        /\ Chained(state.finalized, after, root)
    BY <2>1, <2>2, <2>3 DEF Sound, CheckpointRules
  <2> QED
    BY <1>5, <2>4 DEF Sound, CheckpointRules, epoch
<1>8. VoteRules(inserted, after, root, later)
  <2>1. ASSUME NEW votes, NEW e \in Nat, Counted(votes, e, state, store, parent, cached)
        PROVE  Counted(votes, e, inserted, after, root, later)
    BY <1>3, <1>5, <2>1 DEF Counted
  <2> QED
    BY <1>1, <1>5, <2>1 DEF Sound, VoteRules
<1>9. JustifiedCached(inserted, later)
  BY <1>5 DEF Sound, JustifiedCached
<1>10. after[root].slot <= inserted.slot
  BY <1>1, <1>4, <1>5
<1> QED
  BY <1>1, <1>5, <1>6, <1>7, <1>8, <1>9, <1>10
  DEF Sound, SameCheckpoints, inserted, after

\* process_attestation counts votes whose target will be cached.
LEMMA ProcessAttestationSound ==
  ASSUME NEW store, RootedTree(store), AnchorSlot = 0, NEW tip \in DOMAIN store,
         NEW cached, NEW state, Sound(state, store, tip, cached), NEW att,
         att.attesters \in SUBSET Validator,
         att.target.epoch \in {EpochOf(state.slot), Previous(EpochOf(state.slot))},
         StartSlot(att.target.epoch) < state.slot,
         att.target \in cached
  PROVE  /\ Sound(ProcessAttestation(state, att), store, tip, cached)
         /\ SameCheckpoints(ProcessAttestation(state, att), state)
<1> DEFINE epoch == EpochOf(state.slot)
           target == att.target
           result == ProcessAttestation(state, att)
<1>1. /\ state \in BeaconState /\ state.slot \in Nat /\ epoch \in Nat
      /\ Previous(epoch) \in Nat
      /\ History(state, store, tip, state.slot)
  BY SlotInEpoch, PreviousEpoch DEF Sound, BeaconState
<1>2. CASE target # TargetOf(state, target.epoch)
  BY <1>2 DEF ProcessAttestation, SameCheckpoints
<1>3. CASE target = TargetOf(state, target.epoch)
  <2>1. TargetOf(state, target.epoch) = OnChain(target.epoch, store, tip)
    BY <1>1, TargetIsOnChain
  <2>2. \A votes : Counted(votes, target.epoch, state, store, tip, cached)
    BY <1>3, <2>1 DEF Counted
  <2>3. \/ /\ target.epoch = epoch
           /\ result = [state EXCEPT !.currentParticipation = @ \cup att.attesters]
        \/ /\ target.epoch = Previous(epoch)
           /\ result = [state EXCEPT !.previousParticipation = @ \cup att.attesters]
    BY <1>3 DEF ProcessAttestation
  <2> HIDE DEF result, epoch, target
  <2>4. /\ result \in BeaconState
        /\ result.slot = state.slot
        /\ result.latestRoot = state.latestRoot
        /\ result.blockRoots = state.blockRoots
        /\ result.previousJustified = state.previousJustified
        /\ result.currentJustified = state.currentJustified
        /\ result.finalized = state.finalized
    BY <1>1, <2>3 DEF BeaconState
  <2>5. /\ \/ result.currentParticipation = state.currentParticipation
           \/ target.epoch = epoch
        /\ \/ result.previousParticipation = state.previousParticipation
           \/ target.epoch = Previous(epoch)
    BY <1>1, <2>3 DEF BeaconState
  <2>6. VoteRules(result, store, tip, cached)
    <3>1. /\ Counted(state.currentParticipation, epoch, state, store, tip, cached)
          /\ Counted(state.previousParticipation, Previous(epoch), state, store, tip, cached)
      BY DEF Sound, VoteRules, epoch
    <3>2. /\ Counted(result.currentParticipation, epoch, state, store, tip, cached)
          /\ Counted(result.previousParticipation, Previous(epoch), state, store, tip, cached)
      BY <3>1, <2>2, <2>5
    <3> QED
      BY <3>2, <2>4 DEF VoteRules, Counted, epoch
  <2> QED
    BY <2>4, <2>6
    DEF Sound, History, CheckpointRules, JustifiedCached, SameCheckpoints, result
<1> QED
  BY <1>2, <1>3

\* Of a block on top of its parent: the post-state is sound in the tree that
\* has the block, with the targets of the attestations it includes.
LEMMA ProcessBlockSound ==
  ASSUME NEW store, RootedTree(store), AnchorSlot = 0,
         NEW root \in Root \ DOMAIN store, NEW block, block.parent \in DOMAIN store,
         RootedTree(Put(store, root, block)), NEW cached,
         NEW state, Sound(state, store, block.parent, cached), state.slot = block.slot,
         NEW body \in Bodies(state)
  PROVE  /\ Sound(ProcessBlock(state, root, body), Put(store, root, block), root,
                  cached \cup Targets(body))
         /\ SameCheckpoints(ProcessBlock(state, root, body), state)
<1> DEFINE after == Put(store, root, block)
           inserted == [state EXCEPT !.latestRoot = root]
           later == cached \cup Targets(body)
<1>1. /\ Sound(inserted, after, root, later)
      /\ SameCheckpoints(inserted, state)
  <2>1. cached \subseteq later
    OBVIOUS
  <2> HIDE DEF later
  <2> QED
    BY <2>1, NewTipSound
<1>2. CASE body = <<>>
  BY <1>1, <1>2, ProcessBlockUnfolds
<1>3. CASE body # <<>>
  <2>1. PICK att \in Inclusions(state) : body = <<att>>
    BY <1>3 DEF Bodies
  <2>2. att.target \in later
    <3>1. Range(<<att>>) = {att}
      BY DEF Range
    <3> QED
      BY <2>1, <3>1 DEF Targets
  <2>3. /\ att.attesters \in BodyAttesters
        /\ att.target.epoch \in {EpochOf(state.slot), Previous(EpochOf(state.slot))}
        /\ StartSlot(att.target.epoch) < state.slot
    BY InclusionsInTime
  <2>4. att.attesters \in SUBSET Validator
    BY <2>3, BoundsAssumption
  <2>5. inserted.slot = state.slot
    BY <1>1 DEF SameCheckpoints
  <2>6. root \in DOMAIN after
    BY DEF Put
  <2> HIDE DEF inserted, later, after
  <2>7. /\ att.target.epoch \in {EpochOf(inserted.slot), Previous(EpochOf(inserted.slot))}
        /\ StartSlot(att.target.epoch) < inserted.slot
    BY <2>3, <2>5
  <2>8. /\ Sound(ProcessAttestation(inserted, att), after, root, later)
        /\ SameCheckpoints(ProcessAttestation(inserted, att), inserted)
    BY <1>1, <2>2, <2>4, <2>6, <2>7, ProcessAttestationSound DEF after
  <2>9. ProcessBlock(state, root, body) = ProcessAttestation(inserted, att)
    BY <2>1, ProcessBlockUnfolds DEF inserted
  <2> QED
    BY <1>1, <2>8, <2>9 DEF SameCheckpoints, later, after
<1> QED
  BY <1>2, <1>3

-----------------------------------------------------------------------------
(* The invariant of the driven store.                                       *)

\* The checkpoint states cached, and those the replays still owed will cache.
Cached == checkpointStates \cup Targets(pending)

StateSound(r) ==
  /\ blockStates[r] = Summary(beaconStates[r])
  /\ beaconStates[r].slot = blocks[r].slot
  /\ Sound(beaconStates[r], blocks, r, Cached)

StatesSound ==
  /\ DOMAIN beaconStates = DOMAIN blocks
  /\ \A r \in DOMAIN blocks : StateSound(r)

\* The block that is next for on_block, its post-state, and the tree with it.
LEMMA DeliveredBlock ==
  ASSUME AnchorSlot = 0, TypeOK, AnchoredTree, StatesSound,
         NEW root \in Root, NEW block \in Block, BlockAdmissible(root, block),
         NEW body \in Bodies(ProcessSlots(beaconStates[block.parent], block.slot))
  PROVE  LET base == beaconStates[block.parent]
             advanced == ProcessSlots(base, block.slot)
             state == ProcessBlock(advanced, root, body)
         IN /\ RootedTree(Put(blocks, root, block))
            /\ root \in Root \ DOMAIN blocks /\ block.parent \in DOMAIN blocks
            /\ Sound(base, blocks, block.parent, Cached)
            /\ base.slot = blocks[block.parent].slot
            /\ blockStates[block.parent] = Summary(base)
            /\ Sound(advanced, blocks, block.parent, Cached)
            /\ Since(base, advanced)
            /\ advanced.slot = block.slot
            /\ Sound(state, Put(blocks, root, block), root, Cached \cup Targets(body))
            /\ SameCheckpoints(state, advanced)
<1> DEFINE base == beaconStates[block.parent]
           advanced == ProcessSlots(base, block.slot)
<1>1. /\ RootedTree(Put(blocks, root, block))
      /\ root \in Root \ DOMAIN blocks /\ block.parent \in DOMAIN blocks
      /\ block.slot \in Nat /\ blocks[block.parent].slot < block.slot
      /\ RootedTree(blocks)
  BY AdmissibleGrowsTree DEF AnchoredTree
<1>2. /\ Sound(base, blocks, block.parent, Cached)
      /\ base.slot = blocks[block.parent].slot
      /\ blockStates[block.parent] = Summary(base)
  BY <1>1 DEF StatesSound, StateSound
<1>3. base.slot < block.slot
  BY <1>1, <1>2
<1> HIDE DEF base
<1>4. /\ Sound(advanced, blocks, block.parent, Cached)
      /\ advanced.slot = block.slot
      /\ Since(base, advanced)
  BY <1>1, <1>2, <1>3, ProcessSlotsSound
<1>5. body \in Bodies(advanced)
  BY DEF base
<1> HIDE DEF advanced
<1>6. /\ Sound(ProcessBlock(advanced, root, body), Put(blocks, root, block), root,
               Cached \cup Targets(body))
      /\ SameCheckpoints(ProcessBlock(advanced, root, body), advanced)
  BY <1>1, <1>4, <1>5, ProcessBlockSound
<1> QED
  BY <1>1, <1>2, <1>4, <1>6 DEF base, advanced

\* The post-state of a delivered block keeps the contract of the state
\* transition.
LEMMA PostStateAllowed ==
  ASSUME AnchorSlot = 0, TypeOK, AnchoredTree, StatesSound,
         NEW root \in Root, NEW block \in Block, BlockAdmissible(root, block),
         NEW body \in Bodies(ProcessSlots(beaconStates[block.parent], block.slot))
  PROVE  Summary(ProcessBlock(ProcessSlots(beaconStates[block.parent], block.slot), root, body))
           \in PostStates(root, block)
<1> DEFINE base == beaconStates[block.parent]
           advanced == ProcessSlots(base, block.slot)
           state == ProcessBlock(advanced, root, body)
           after == Put(blocks, root, block)
           before == ProcessJustificationAndFinalization(base)
           pulledUp == ProcessJustificationAndFinalization(state)
           epoch == EpochOf(block.slot)
           parent == blockStates[block.parent]
           allowed == OwnCheckpoints(root, block)
                        \cup {parent.justified, parent.finalized,
                              parent.pulledUpJustified, parent.pulledUpFinalized}
           cached == Cached \cup Targets(body)
<1>1. /\ RootedTree(after) /\ root \in DOMAIN after
      /\ root \in Root \ DOMAIN blocks /\ block.parent \in DOMAIN blocks
      /\ RootedTree(blocks)
      /\ Sound(base, blocks, block.parent, Cached)
      /\ base.slot = blocks[block.parent].slot
      /\ parent = Summary(base)
      /\ Since(base, advanced)
      /\ advanced.slot = block.slot
      /\ Sound(state, after, root, cached)
      /\ SameCheckpoints(state, advanced)
  BY DeliveredBlock DEF Put, AnchoredTree
<1>2. /\ parent.justified = base.currentJustified
      /\ parent.finalized = base.finalized
      /\ parent.pulledUpJustified = before.currentJustified
      /\ parent.pulledUpFinalized = before.finalized
  BY <1>1 DEF Summary
<1> HIDE DEF base, advanced, state, after, parent, cached
<1>3. /\ state.slot = block.slot /\ state \in BeaconState /\ base \in BeaconState
      /\ state.slot \in Nat /\ base.slot \in Nat
      /\ epoch \in Nat /\ EpochOf(base.slot) \in Nat
      /\ Previous(epoch) \in Nat /\ Previous(epoch) <= epoch
      /\ state.slot <= state.slot /\ base.slot <= base.slot
  <2>1. /\ state.slot = block.slot /\ state \in BeaconState /\ base \in BeaconState
        /\ state.slot \in Nat /\ base.slot \in Nat
    BY <1>1 DEF Sound, SameCheckpoints, BeaconState
  <2>2. epoch \in Nat /\ EpochOf(base.slot) \in Nat
    BY <2>1, SlotInEpoch
  <2> QED
    BY <2>1, <2>2, PreviousEpoch
<1>4. /\ pulledUp \in BeaconState
      /\ CheckpointRules(pulledUp, after, root, epoch)
      /\ state.currentJustified.epoch <= pulledUp.currentJustified.epoch
      /\ state.finalized.epoch <= pulledUp.finalized.epoch
  <2>1. /\ pulledUp \in BeaconState
        /\ CheckpointRules(pulledUp, after, root, EpochOf(state.slot))
        /\ state.currentJustified.epoch <= pulledUp.currentJustified.epoch
        /\ state.finalized.epoch <= pulledUp.finalized.epoch
    BY <1>1, <1>3, JustificationSound DEF Sound
  <2> QED
    BY <2>1, <1>3
<1>5. /\ before \in BeaconState
      /\ base.currentJustified.epoch <= before.currentJustified.epoch
      /\ base.finalized.epoch <= before.finalized.epoch
  BY <1>1, <1>3, JustificationSound DEF Sound
<1> HIDE DEF pulledUp, before
<1>6. /\ state.currentJustified.epoch \in Nat /\ state.finalized.epoch \in Nat
      /\ state.previousJustified.epoch \in Nat
      /\ pulledUp.currentJustified.epoch \in Nat /\ pulledUp.finalized.epoch \in Nat
      /\ pulledUp.previousJustified.epoch \in Nat
      /\ base.currentJustified.epoch \in Nat /\ base.finalized.epoch \in Nat
      /\ before.currentJustified.epoch \in Nat /\ before.finalized.epoch \in Nat
  BY <1>3, <1>4, <1>5 DEF BeaconState, Checkpoint
<1>7. IF epoch = EpochOf(base.slot)
      THEN /\ state.currentJustified = base.currentJustified
           /\ state.finalized = base.finalized
      ELSE /\ before.currentJustified.epoch <= state.currentJustified.epoch
           /\ before.finalized.epoch <= state.finalized.epoch
  BY <1>1 DEF Since, SameRule, SameCheckpoints, before
<1>8. /\ base.currentJustified.epoch <= state.currentJustified.epoch
      /\ base.finalized.epoch <= state.finalized.epoch
  BY <1>5, <1>6, <1>7
<1>9. /\ state.finalized.epoch <= state.currentJustified.epoch
      /\ pulledUp.finalized.epoch <= pulledUp.currentJustified.epoch
      /\ state.currentJustified.epoch <= epoch
      /\ pulledUp.currentJustified.epoch <= epoch
  <2>1. CheckpointRules(state, after, root, Previous(epoch))
    BY <1>1, <1>3 DEF Sound
  <2> HIDE DEF epoch
  <2> QED
    BY <1>3, <1>4, <1>6, <2>1 DEF CheckpointRules
<1>10. ASSUME NEW c \in Checkpoint, Chained(c, after, root), c.epoch <= epoch,
              NEW p \in {base.currentJustified, base.finalized},
              p.epoch <= c.epoch
       PROVE  c \in allowed
  <2>1. CASE c = Genesis
    <3>1. p \in Checkpoint /\ Chained(p, blocks, block.parent)
      BY <1>1, <1>3 DEF Sound, CheckpointRules, BeaconState
    <3>2. p.epoch \in Nat /\ p.epoch <= 0
      BY <2>1, <3>1, <1>10 DEF Genesis, Checkpoint
    <3>3. p = Genesis
      BY <3>1, <3>2 DEF Chained
    <3> QED
      BY <2>1, <3>3, <1>2
  <2>2. CASE c # Genesis
    <3>1. c.epoch \in Nat \ {0} /\ c = OnChain(c.epoch, after, root)
      BY <1>10, <2>2 DEF Chained
    <3>2. CheckpointBlock(after, root, c.epoch) \in DOMAIN after
      BY <1>1, <3>1, OnChainType
    <3>3. c.epoch \in 0..epoch
      BY <1>3, <1>10, <3>1
    <3>4. c \in OwnCheckpoints(root, block)
      <4>1. c = [epoch |-> c.epoch, root |-> CheckpointBlock(after, root, c.epoch)]
        BY <3>1 DEF OnChain
      <4>2. c.root = CheckpointBlock(after, root, c.epoch)
        BY <4>1
      <4>3. c \in [epoch : 0..epoch, root : DOMAIN after]
        BY <4>1, <3>2, <3>3
      <4> QED
        BY <4>2, <4>3 DEF OwnCheckpoints, after
    <3> QED
      BY <3>4
  <2> QED
    BY <2>1, <2>2
<1>11. /\ state.currentJustified \in allowed /\ state.finalized \in allowed
       /\ pulledUp.currentJustified \in allowed /\ pulledUp.finalized \in allowed
  <2> HIDE DEF allowed, epoch
  <2>1. /\ state.currentJustified \in Checkpoint /\ state.finalized \in Checkpoint
        /\ pulledUp.currentJustified \in Checkpoint /\ pulledUp.finalized \in Checkpoint
    BY <1>3, <1>4 DEF BeaconState
  <2>2. /\ Chained(state.currentJustified, after, root)
        /\ Chained(state.finalized, after, root)
        /\ Chained(pulledUp.currentJustified, after, root)
        /\ Chained(pulledUp.finalized, after, root)
    BY <1>1, <1>4 DEF Sound, CheckpointRules
  <2>3. /\ state.finalized.epoch <= epoch /\ pulledUp.finalized.epoch <= epoch
        /\ base.currentJustified.epoch <= pulledUp.currentJustified.epoch
        /\ base.finalized.epoch <= pulledUp.finalized.epoch
    BY <1>3, <1>4, <1>6, <1>8, <1>9
  <2> QED
    BY <1>8, <1>9, <1>10, <2>1, <2>2, <2>3
<1> DEFINE post == Summary(state)
<1>12. post = [justified |-> state.currentJustified, finalized |-> state.finalized,
               pulledUpJustified |-> pulledUp.currentJustified,
               pulledUpFinalized |-> pulledUp.finalized]
  BY DEF Summary, pulledUp
<1>13. post \in [justified : allowed, finalized : allowed,
                 pulledUpJustified : allowed, pulledUpFinalized : allowed]
  <2> HIDE DEF allowed, post
  <2> QED
    BY <1>11, <1>12
<1>14. /\ post.justified = state.currentJustified /\ post.finalized = state.finalized
       /\ post.pulledUpJustified = pulledUp.currentJustified
       /\ post.pulledUpFinalized = pulledUp.finalized
  BY <1>12
<1> HIDE DEF post
<1>15. /\ post.finalized.epoch <= post.justified.epoch
       /\ post.justified.epoch <= post.pulledUpJustified.epoch
       /\ post.finalized.epoch <= post.pulledUpFinalized.epoch
       /\ post.pulledUpFinalized.epoch <= post.pulledUpJustified.epoch
  BY <1>4, <1>9, <1>14
<1>16. IF epoch > EpochOf(blocks[block.parent].slot)
       THEN /\ post.justified.epoch >= parent.pulledUpJustified.epoch
            /\ post.finalized.epoch >= parent.pulledUpFinalized.epoch
       ELSE /\ post.justified = parent.justified
            /\ post.finalized = parent.finalized
  <2>1. EpochOf(base.slot) <= epoch
    <3>1. base.slot <= block.slot
      BY <1>1 DEF Since
    <3> QED
      BY <3>1, <1>3, EpochMonotone
  <2> HIDE DEF epoch
  <2>2. CASE epoch = EpochOf(base.slot)
    BY <2>2, <1>1, <1>2, <1>3, <1>7, <1>14
  <2>3. CASE epoch # EpochOf(base.slot)
    <3>1. epoch > EpochOf(base.slot)
      BY <2>1, <2>3, <1>3
    <3> QED
      BY <2>3, <3>1, <1>1, <1>2, <1>6, <1>7, <1>14
  <2> QED
    BY <2>2, <2>3
<1>17. post \in PostStates(root, block)
  BY <1>13, <1>15, <1>16 DEF PostStates, parent
<1> QED
  BY <1>17 DEF post, state, advanced, base

\* A vote in a block is one that process_attestation took; what it names as head
\* and target is anyone's guess.
VoteDue(att) ==
  /\ att.slot \in Slot
  /\ att.slot + 1 <= CurrentSlot
  /\ att.attesters \in BodyAttesters
  /\ att.target \in Checkpoint

BodyDue(body, slot) ==
  body = <<>> \/ \E att : body = <<att>> /\ VoteDue(att) /\ att.slot < slot

BodiesDue ==
  /\ DOMAIN bodies = DOMAIN blocks
  /\ \A r \in DOMAIN bodies : BodyDue(bodies[r], blocks[r].slot)
  /\ pending = <<>> \/ \E r \in DOMAIN bodies : pending = bodies[r]

JustifiedStored ==
  justifiedCheckpoint \in Cached /\ unrealizedJustifiedCheckpoint \in Cached

AllRecorded == DOMAIN unrealizedJustifications = DOMAIN blocks

StoreInv == TypeOK /\ AnchoredTree /\ BlocksFinite /\ CheckpointBlocksStored

ReplayInv == StatesSound /\ BodiesDue /\ JustifiedStored /\ AllRecorded

DriverInv == StoreInv /\ ReplayInv

\* The targets of a body of one attestation, or of none.
LEMMA TargetsOf ==
  /\ Targets(<<>>) = {}
  /\ \A att : Targets(<<att>>) = {att.target}
<1>1. Range(<<>>) = {} /\ \A att : Range(<<att>>) = {att}
  BY DEF Range
<1> QED
  BY <1>1 DEF Targets

\* Genesis is a usable anchor, and its state is sound.
LEMMA GenesisSound ==
  ASSUME GenesisAnchor
  PROVE  /\ UsableAnchor
         /\ \A store, cached :
              store[AnchorRoot].slot = 0 => Sound(AnchorBeaconState, store, AnchorRoot, cached)
<1>1. AnchorBeaconState = [slot |-> 0, blockRoots |-> <<>>, latestRoot |-> AnchorRoot,
        justificationBits |-> {}, previousJustified |-> Genesis,
        currentJustified |-> Genesis, finalized |-> Genesis,
        previousParticipation |-> {}, currentParticipation |-> {}]
  BY DEF GenesisAnchor, GenesisState, Genesis
<1>2. EpochOf(0) = 0 /\ Previous(0) = 0
  <2>1. ASSUME NEW d \in Nat \ {0} PROVE 0 \div d = 0
    OBVIOUS
  <2> QED
    BY <2>1, SlotsPerEpochAssumption DEF EpochOf, Previous
<1>3. /\ AnchorBeaconState.slot = 0 /\ AnchorBeaconState.blockRoots = <<>>
      /\ AnchorBeaconState.latestRoot = AnchorRoot
      /\ AnchorBeaconState.previousJustified = Genesis
      /\ AnchorBeaconState.currentJustified = Genesis
      /\ AnchorBeaconState.finalized = Genesis
      /\ AnchorBeaconState.previousParticipation = {}
      /\ AnchorBeaconState.currentParticipation = {}
  BY <1>1
<1>4. Genesis \in Checkpoint /\ Genesis.epoch = 0
  BY DEF Genesis, Checkpoint, RootOrNone
<1>5. AnchorBeaconState \in BeaconState
  <2>1. <<>> \in BlockRoots
    <3>1. <<>> \in [0..(0 - 1) -> RootOrNone]
      OBVIOUS
    <3> QED
      BY <3>1 DEF BlockRoots
  <2> QED
    BY <1>1, <1>4, <2>1, AnchorAssumption DEF BeaconState
<1>6. UsableAnchor
  <2>1. AnchorState = [justified |-> Genesis, finalized |-> Genesis,
                       pulledUpJustified |-> Genesis, pulledUpFinalized |-> Genesis]
    BY <1>2, <1>3, AnchorSummaryAssumption
    DEF Summary, ProcessJustificationAndFinalization
  <2>2. AnchorEpoch = 0 /\ StartSlot(0) = 0
    <3>1. ASSUME NEW d \in Nat PROVE 0 * d = 0
      OBVIOUS
    <3> QED
      BY <1>2, <3>1, SlotsPerEpochAssumption DEF AnchorEpoch, GenesisAnchor, StartSlot
  <2> QED
    BY <1>4, <2>1, <2>2 DEF UsableAnchor, GenesisAnchor
<1>7. ASSUME NEW store, NEW cached, store[AnchorRoot].slot = 0
      PROVE  Sound(AnchorBeaconState, store, AnchorRoot, cached)
  <2>1. History(AnchorBeaconState, store, AnchorRoot, 0)
    BY <1>3 DEF History
  <2>2. CheckpointRules(AnchorBeaconState, store, AnchorRoot, 0)
    BY <1>3, <1>4 DEF CheckpointRules, Chained
  <2>3. /\ VoteRules(AnchorBeaconState, store, AnchorRoot, cached)
        /\ JustifiedCached(AnchorBeaconState, cached)
    BY <1>3 DEF VoteRules, Counted, JustifiedCached
  <2> QED
    BY <1>2, <1>3, <1>5, <1>7, <2>1, <2>2, <2>3 DEF Sound
<1> QED
  BY <1>6, <1>7

\* At genesis nothing is owed, and the anchor's state is sound.
LEMMA InitDriverInv ==
  ASSUME GenesisAnchor, DriverInit
  PROVE  DriverInv
<1> DEFINE anchor == [epoch |-> EpochOf(AnchorSlot), root |-> AnchorRoot]
           block == [parent |-> NoRoot, slot |-> AnchorSlot]
<1>1. Init /\ TypeOK /\ AnchoredTree /\ AnchorSlot = 0
  BY InitTypeOK, InitAnchoredTree DEF DriverInit, GenesisAnchor
<1>2. /\ DOMAIN blocks = {AnchorRoot} /\ blocks[AnchorRoot] = block
      /\ DOMAIN beaconStates = {AnchorRoot} /\ beaconStates[AnchorRoot] = AnchorBeaconState
      /\ blockStates[AnchorRoot] = AnchorState
      /\ DOMAIN bodies = {AnchorRoot} /\ bodies[AnchorRoot] = <<>>
      /\ DOMAIN unrealizedJustifications = {AnchorRoot}
      /\ pending = <<>>
  <2>1. DOMAIN <<>> = {}
    OBVIOUS
  <2>2. \A key, value : /\ DOMAIN Put(<<>>, key, value) = {key}
                        /\ Put(<<>>, key, value)[key] = value
    BY <2>1 DEF Put
  <2>3. /\ blocks = Put(<<>>, AnchorRoot, block)
        /\ beaconStates = Put(<<>>, AnchorRoot, AnchorBeaconState)
        /\ blockStates = Put(<<>>, AnchorRoot, AnchorState)
        /\ bodies = Put(<<>>, AnchorRoot, <<>>)
        /\ unrealizedJustifications = Put(<<>>, AnchorRoot, anchor)
        /\ pending = <<>>
    BY <1>1 DEF DriverInit, Init
  <2> HIDE DEF anchor, block
  <2> QED
    BY <2>2, <2>3
<1>3. BlocksFinite
  BY <1>2, FS_Singleton DEF BlocksFinite
<1>4. CheckpointBlocksStored
  BY <1>1, GenesisSound, InitCheckpointBlocks
<1>5. StatesSound
  <2>1. blocks[AnchorRoot].slot = 0
    BY <1>1, <1>2
  <2>2. AnchorBeaconState.slot = 0
    BY DEF GenesisAnchor, GenesisState
  <2>3. Sound(AnchorBeaconState, blocks, AnchorRoot, Cached)
    BY <2>1, GenesisSound
  <2> QED
    BY <1>2, <2>1, <2>2, <2>3, AnchorSummaryAssumption DEF StatesSound, StateSound
<1>6. BodiesDue
  BY <1>2 DEF BodiesDue, BodyDue
<1>7. JustifiedStored
  BY <1>1 DEF Init, JustifiedStored, Cached
<1> QED
  BY <1>1, <1>2, <1>3, <1>4, <1>5, <1>6, <1>7
  DEF DriverInv, StoreInv, ReplayInv, AllRecorded

-----------------------------------------------------------------------------
(* Every step of the driver is a step of the store, and keeps the invariant. *)

\* More cached checkpoints do no harm.
LEMMA SoundWithMore ==
  ASSUME NEW store, NEW tip, NEW cached, NEW later, cached \subseteq later,
         NEW state, Sound(state, store, tip, cached)
  PROVE  Sound(state, store, tip, later)
  BY DEF Sound, VoteRules, Counted, JustifiedCached

\* Nor does a block elsewhere in the tree.
LEMMA SoundInLargerTree ==
  ASSUME NEW store, RootedTree(store), NEW root \in Root \ DOMAIN store, NEW block,
         RootedTree(Put(store, root, block)), NEW tip \in DOMAIN store,
         NEW cached, NEW state, Sound(state, store, tip, cached)
  PROVE  Sound(state, Put(store, root, block), tip, cached)
<1> DEFINE after == Put(store, root, block)
<1>1. tip # root /\ tip \in RootOrNone /\ BlockTree(store) /\ BlockTree(after)
  BY DEF RootedTree, BlockTree, RootOrNone
<1>2. \A slot : Ancestor(after, tip, slot) = Ancestor(store, tip, slot)
  BY <1>1, AncestorKept
<1>3. after[tip] = store[tip]
  BY <1>1 DEF Put
<1> HIDE DEF after
<1>4. \A e : OnChain(e, after, tip) = OnChain(e, store, tip)
  BY <1>2 DEF OnChain, CheckpointBlock
<1>5. History(state, after, tip, state.slot)
  BY <1>2 DEF Sound, History
<1>6. CheckpointRules(state, after, tip, Previous(EpochOf(state.slot)))
  BY <1>4 DEF Sound, CheckpointRules, Chained
<1>7. VoteRules(state, after, tip, cached)
  BY <1>4 DEF Sound, VoteRules, Counted
<1> QED
  BY <1>3, <1>5, <1>6, <1>7 DEF Sound, after

\* An attestation that is due and votable is replayed without fail.
LEMMA DueIsValid ==
  ASSUME TypeOK, AnchoredTree, AnchorSlot = 0, NEW att, VoteDue(att), Votable(att, blocks)
  PROVE  ValidAttestation(att, TRUE)
<1>1. /\ att.slot \in Slot
      /\ att.root \in DOMAIN blocks /\ blocks[att.root].slot <= att.slot
      /\ att.target = OnChain(EpochOf(att.slot), blocks, att.root)
      /\ att.slot + 1 <= CurrentSlot
      /\ att.slot \in Nat /\ EpochOf(att.slot) \in Nat /\ CurrentSlot \in Nat
  BY SlotsAreNat, SlotAndEpochNat, EpochsNat DEF VoteDue, Votable
<1>2. /\ att.target.epoch = EpochOf(att.slot)
      /\ att.target.root = CheckpointBlock(blocks, att.root, EpochOf(att.slot))
  BY <1>1 DEF OnChain
<1>3. att.target.root \in DOMAIN blocks
  BY <1>1, <1>2, OnChainType DEF AnchoredTree
<1> QED
  BY <1>1, <1>2, <1>3 DEF ValidAttestation, RecentTarget

\* A replay that is not turned away is a step of the store, stray vote or not: the
\* target is then the one that its head determines.
LEMMA ReplayIsStep ==
  ASSUME NEW att, VoteDue(att), OnAttestation(att, TRUE)
  PROVE  AttestationStep
<1> DEFINE same == AttestationOf(att.slot, att.root, att.attesters)
<1>1. /\ att.slot \in Slot /\ att.attesters \in BodyAttesters /\ att.root \in DOMAIN blocks
      /\ att.target = [epoch |-> att.target.epoch, root |-> att.target.root]
      /\ att.target.epoch = EpochOf(att.slot)
      /\ att.target.root = CheckpointBlock(blocks, att.root, att.target.epoch)
  BY DEF VoteDue, OnAttestation, ValidAttestation, Checkpoint
<1>2. /\ same.slot = att.slot /\ same.root = att.root
      /\ same.attesters = att.attesters /\ same.target = att.target
  BY <1>1 DEF AttestationOf
<1> HIDE DEF same
<1>3. OnAttestation(same, TRUE)
  BY <1>2 DEF OnAttestation, ValidAttestation, RecentTarget,
              StoreTargetCheckpointState, UpdateLatestMessages, Movers, NewerMessage
<1> QED
  BY <1>1, <1>3 DEF AttestationStep, same

\* A step that delivers no new block: votes stay due, states stay sound.
LEMMA NoNewBlock ==
  ASSUME StoreInv, ReplayInv,
         UNCHANGED <<blocks, blockStates, beaconStates, bodies,
                     unrealizedJustifications, unrealizedJustifiedCheckpoint>>,
         justifiedCheckpoint' \in {justifiedCheckpoint, unrealizedJustifiedCheckpoint},
         Cached \subseteq Cached', time \in Nat, time' \in Nat, time <= time',
         pending' \in {<<>>, pending} \cup {bodies[r] : r \in DOMAIN bodies}
  PROVE  ReplayInv'
<1>1. CurrentSlot \in Nat /\ CurrentSlot' \in Nat /\ CurrentSlot <= CurrentSlot'
  <2>1. ASSUME NEW a \in Nat, NEW b \in Nat, a <= b, NEW d \in Nat \ {0}
        PROVE  a \div d \in Nat /\ b \div d \in Nat /\ a \div d <= b \div d
    <3>1. /\ a \div d \in Nat /\ (a \div d) * d <= a
          /\ b \div d \in Nat /\ b < (b \div d + 1) * d
      OBVIOUS
    <3>2. ASSUME a \div d >= b \div d + 1 PROVE FALSE
      <4>1. (a \div d) * d >= (b \div d + 1) * d
        BY <3>1, <3>2
      <4> QED
        BY <2>1, <3>1, <4>1
    <3> QED
      BY <3>1, <3>2
  <2> QED
    BY <2>1, SlotDurationAssumption DEF CurrentSlot, SlotAt
<1>2. StatesSound'
  <2>1. ASSUME NEW r \in DOMAIN blocks
        PROVE  /\ blockStates'[r] = Summary(beaconStates'[r])
               /\ beaconStates'[r].slot = blocks'[r].slot
               /\ Sound(beaconStates'[r], blocks', r, Cached')
    <3>1. StateSound(r)
      BY DEF ReplayInv, StatesSound
    <3>2. Sound(beaconStates[r], blocks, r, Cached')
      BY <3>1, SoundWithMore DEF StateSound
    <3> QED
      BY <3>1, <3>2 DEF StateSound
  <2> QED
    BY <2>1 DEF ReplayInv, StatesSound, StateSound
<1>3. BodiesDue'
  <2>1. ASSUME NEW att, VoteDue(att) PROVE VoteDue(att)'
    <3>1. att.slot \in Nat
      BY <2>1, SlotsAreNat DEF VoteDue
    <3>2. att.slot + 1 <= CurrentSlot'
      BY <1>1, <2>1, <3>1 DEF VoteDue
    <3> QED
      BY <2>1, <3>2 DEF VoteDue
  <2>2. \A r \in DOMAIN bodies : BodyDue(bodies[r], blocks[r].slot)'
    BY <2>1 DEF ReplayInv, BodiesDue, BodyDue
  <2>3. pending' = <<>> \/ \E r \in DOMAIN bodies' : pending' = bodies'[r]
    BY DEF ReplayInv, BodiesDue
  <2> QED
    BY <2>2, <2>3 DEF ReplayInv, BodiesDue
<1>4. JustifiedStored'
  BY DEF ReplayInv, JustifiedStored
<1>5. AllRecorded'
  BY DEF ReplayInv, AllRecorded
<1> QED
  BY <1>2, <1>3, <1>4, <1>5 DEF ReplayInv

\* A cached checkpoint, or one no later than those cached.
LEMMA LaterCached ==
  ASSUME NEW cached, NEW held \in Checkpoint, held \in cached, NEW seen \in Checkpoint,
         seen = Genesis \/ seen \in cached
  PROVE  Later(held, seen) \in Checkpoint /\ Later(held, seen) \in cached
  BY DEF Later, Genesis, Checkpoint

\* A step that delivers a new block is a step of the store, with a post-state
\* the contract allows.
LEMMA NewBlock ==
  ASSUME AnchorSlot = 0, StoreInv, ReplayInv,
         NEW root \in FreshRoots, NEW parent \in DOMAIN blocks, NEW slot \in BlockSlots,
         DeliverBlock(root, parent, slot)
  PROVE  /\ BlockStep
         /\ ReplayInv'
         /\ blocks' = Put(blocks, root, [parent |-> parent, slot |-> slot])
         /\ blockStates'[root] \in PostStates(root, [parent |-> parent, slot |-> slot])
<1> DEFINE block == [parent |-> parent, slot |-> slot]
           advanced == ProcessSlots(beaconStates[parent], slot)
           after == Put(blocks, root, block)
<1>1. PICK body \in Bodies(advanced) :
        /\ OnBlock(root, block, Summary(ProcessBlock(advanced, root, body)))
        /\ beaconStates' = Put(beaconStates, root, ProcessBlock(advanced, root, body))
        /\ bodies' = Put(bodies, root, body)
        /\ pending' = body
  BY DEF DeliverBlock
<1> DEFINE state == ProcessBlock(advanced, root, body)
           pulledUp == ProcessJustificationAndFinalization(state)
           post == Summary(state)
           cached == Cached \cup Targets(body)
<1>2. /\ TypeOK /\ AnchoredTree /\ StatesSound /\ RootedTree(blocks)
      /\ root \in Root /\ block \in Block /\ block.parent = parent /\ block.slot = slot
      /\ slot \in Slot /\ slot \in Nat
      /\ BlockAdmissible(root, block) /\ pending = <<>>
  BY BlockInput, SlotsAreNat DEF DeliverBlock, FreshRoots, StoreInv, ReplayInv, AnchoredTree
<1>3. body \in Bodies(ProcessSlots(beaconStates[block.parent], block.slot))
  OBVIOUS
<1>4. /\ RootedTree(after)
      /\ root \in Root \ DOMAIN blocks
      /\ Sound(advanced, blocks, parent, Cached)
      /\ advanced.slot = slot
      /\ Sound(state, after, root, cached)
      /\ SameCheckpoints(state, advanced)
  <2> HIDE DEF block
  <2> QED
    BY <1>2, <1>3, DeliveredBlock
<1>5. post \in PostStates(root, block)
  <2> HIDE DEF block
  <2> QED
    BY <1>2, <1>3, PostStateAllowed
<1>6. BlockStep
  BY <1>1, <1>2, <1>5 DEF BlockStep
<1>7. /\ blocks' = after
      /\ blockStates' = Put(blockStates, root, post)
      /\ DOMAIN blockStates = DOMAIN blocks
      /\ checkpointStates' = checkpointStates /\ time' = time
  BY <1>1, <1>2 DEF OnBlock, InsertBlock, voteVars, TypeOK
<1>8. Cached' = cached
  BY <1>1, <1>2, <1>7, TargetsOf DEF Cached
<1> HIDE DEF block, advanced, after, state, post, cached, pulledUp
<1>9. StatesSound'
  <2>1. DOMAIN beaconStates = DOMAIN blocks
    BY DEF ReplayInv, StatesSound
  <2>2. /\ DOMAIN blocks' = DOMAIN blocks \cup {root}
        /\ DOMAIN beaconStates' = DOMAIN blocks \cup {root}
        /\ blocks'[root] = block /\ beaconStates'[root] = state /\ blockStates'[root] = post
        /\ \A r \in DOMAIN blocks : /\ blocks'[r] = blocks[r]
                                    /\ beaconStates'[r] = beaconStates[r]
                                    /\ blockStates'[r] = blockStates[r]
    BY <1>1, <1>4, <1>7, <2>1 DEF Put, after, state
  <2>3. ASSUME NEW r \in DOMAIN blocks
        PROVE  /\ blockStates'[r] = Summary(beaconStates'[r])
               /\ beaconStates'[r].slot = blocks'[r].slot
               /\ Sound(beaconStates'[r], blocks', r, Cached')
    <3>1. StateSound(r)
      BY DEF ReplayInv, StatesSound
    <3>2. Sound(beaconStates[r], blocks, r, cached)
      <4>1. Cached \subseteq cached
        BY DEF cached
      <4> QED
        BY <3>1, <4>1, SoundWithMore DEF StateSound
    <3>3. Sound(beaconStates[r], after, r, cached)
      BY <1>2, <1>4, <3>2, SoundInLargerTree DEF after
    <3> QED
      BY <1>7, <1>8, <2>2, <3>1, <3>3 DEF StateSound
  <2>4. /\ blockStates'[root] = Summary(beaconStates'[root])
        /\ beaconStates'[root].slot = blocks'[root].slot
        /\ Sound(beaconStates'[root], blocks', root, Cached')
    BY <1>2, <1>4, <1>7, <1>8, <2>2 DEF post, SameCheckpoints
  <2> QED
    BY <2>2, <2>3, <2>4 DEF StatesSound, StateSound
<1>10. BodiesDue'
  <2>1. CurrentSlot' = CurrentSlot /\ CurrentSlot \in Nat
    BY <1>2, <1>7, SlotAndEpochNat DEF CurrentSlot, TypeOK
  <2>2. ASSUME NEW att, VoteDue(att) PROVE VoteDue(att)'
    BY <2>1, <2>2 DEF VoteDue
  <2>3. ASSUME NEW att \in Inclusions(advanced) PROVE VoteDue(att) /\ att.slot < slot
    <3>1. /\ att.slot \in Nat /\ att.slot < slot
          /\ att.attesters \in BodyAttesters /\ att.target \in Checkpoint
      BY <1>2, <1>4, InclusionsInTime
    <3>2. att.slot \in Slot /\ att.slot + 1 <= CurrentSlot
      <4>1. SlotAt(MaxTime) \in Nat
        BY SlotAndEpochNat, MaxTimeAssumption
      <4>2. slot <= CurrentSlot /\ slot <= SlotAt(MaxTime)
        BY <1>2, <4>1 DEF BlockAdmissible, Slot
      <4> QED
        BY <1>2, <2>1, <3>1, <4>1, <4>2 DEF Slot
    <3> QED
      BY <3>1, <3>2 DEF VoteDue
  <2>4. /\ DOMAIN bodies = DOMAIN blocks
        /\ \A r \in DOMAIN bodies : BodyDue(bodies[r], blocks[r].slot)
    BY DEF ReplayInv, BodiesDue
  <2>5. /\ DOMAIN bodies' = DOMAIN bodies \cup {root} /\ DOMAIN blocks' = DOMAIN bodies'
        /\ bodies'[root] = body /\ blocks'[root].slot = slot
        /\ \A r \in DOMAIN bodies : bodies'[r] = bodies[r] /\ blocks'[r] = blocks[r]
    BY <1>1, <1>2, <1>4, <1>7, <2>4 DEF Put, after
  <2>6. BodyDue(bodies[root], blocks[root].slot)'
    <3>1. body = <<>> \/ \E att \in Inclusions(advanced) : body = <<att>>
      BY DEF Bodies
    <3> QED
      BY <2>2, <2>3, <2>5, <3>1 DEF BodyDue
  <2>7. ASSUME NEW r \in DOMAIN bodies PROVE BodyDue(bodies[r], blocks[r].slot)'
    <3>1. \/ bodies[r] = <<>>
          \/ \E att : /\ bodies[r] = <<att>> /\ VoteDue(att)
                   /\ att.slot < blocks[r].slot
      BY <2>4 DEF BodyDue
    <3> QED
      BY <2>2, <2>5, <3>1 DEF BodyDue
  <2>8. \E r \in DOMAIN bodies' : pending' = bodies'[r]
    BY <1>1, <2>5
  <2> QED
    BY <2>5, <2>6, <2>7, <2>8 DEF BodiesDue
<1>11. /\ post.justified = state.currentJustified
       /\ post.pulledUpJustified = pulledUp.currentJustified
  BY DEF post, Summary, pulledUp
<1>12. /\ state.currentJustified \in Checkpoint /\ pulledUp.currentJustified \in Checkpoint
       /\ JustifiedCached(state, cached) /\ JustifiedCached(pulledUp, cached)
  <2>1. /\ state \in BeaconState /\ state.slot \in Nat /\ state.slot <= state.slot
        /\ History(state, after, root, state.slot)
        /\ CheckpointRules(state, after, root, Previous(EpochOf(state.slot)))
        /\ VoteRules(state, after, root, cached)
        /\ JustifiedCached(state, cached)
    BY <1>4 DEF Sound, BeaconState
  <2>2. root \in DOMAIN after
    BY DEF after, Put
  <2>3. pulledUp \in BeaconState /\ JustifiedCached(pulledUp, cached)
    BY <1>4, <2>1, <2>2, JustificationSound DEF pulledUp
  <2> QED
    BY <2>1, <2>3 DEF BeaconState
<1>13. JustifiedStored'
  <2>1. /\ justifiedCheckpoint \in Checkpoint /\ justifiedCheckpoint \in cached
        /\ unrealizedJustifiedCheckpoint \in Checkpoint
        /\ unrealizedJustifiedCheckpoint \in cached
    BY <1>2 DEF TypeOK, ReplayInv, JustifiedStored, cached
  <2>2. ASSUME NEW held \in Checkpoint, held \in cached,
               NEW seen \in {post.justified, post.pulledUpJustified}
        PROVE  Later(held, seen) \in Checkpoint /\ Later(held, seen) \in cached
    BY <1>11, <1>12, <2>2, LaterCached DEF JustifiedCached
  <2>3. /\ justifiedCheckpoint' \in
             {Later(justifiedCheckpoint, post.justified),
              Later(Later(justifiedCheckpoint, post.justified), post.pulledUpJustified)}
        /\ unrealizedJustifiedCheckpoint' =
             Later(unrealizedJustifiedCheckpoint, post.pulledUpJustified)
    BY <1>1 DEF OnBlock, RealizeCheckpoints, post, state
  <2>4. justifiedCheckpoint' \in cached
    BY <2>1, <2>2, <2>3
  <2>5. unrealizedJustifiedCheckpoint' \in cached
    BY <2>1, <2>2, <2>3
  <2> QED
    BY <1>8, <2>4, <2>5 DEF JustifiedStored
<1>14. AllRecorded'
  <2>1. unrealizedJustifications' = Put(unrealizedJustifications, root, post.pulledUpJustified)
    BY <1>1 DEF OnBlock, RealizeCheckpoints, post, state
  <2> QED
    BY <1>7, <2>1 DEF ReplayInv, AllRecorded, Put, after
<1> QED
  <2>1. blockStates'[root] = post
    BY <1>7 DEF Put
  <2> QED
    BY <1>5, <1>6, <1>7, <1>9, <1>10, <1>13, <1>14, <2>1 DEF ReplayInv, after, block

\* A tick realizes what was unrealized, and is never too early for a vote.
LEMMA TickKeepsReplay ==
  ASSUME StoreInv, ReplayInv, Tick
  PROVE  Next /\ ReplayInv' /\ blocks' = blocks
<1>1. PICK t \in TickTimes : t > time /\ OnTick(t)
  BY DEF Tick
<1>2. /\ time' = t /\ time \in Nat /\ t \in Nat /\ pending = <<>>
      /\ UNCHANGED <<blocks, blockStates, checkpointStates, beaconStates, bodies, pending,
                     unrealizedJustifications, unrealizedJustifiedCheckpoint>>
  BY <1>1, BoundsAssumption, MaxTimeAssumption
  DEF Tick, OnTick, StoreInv, TypeOK, blockVars, unrealizedVars, voteVars, driverVars
<1>3. justifiedCheckpoint' \in {justifiedCheckpoint, unrealizedJustifiedCheckpoint}
  BY <1>1 DEF OnTick, Later, checkpointVars
<1>4. Cached' = Cached
  BY <1>2 DEF Cached
<1>5. ReplayInv'
  BY <1>1, <1>2, <1>3, <1>4, NoNewBlock
<1> QED
  BY <1>1, <1>2, <1>5 DEF Next

\* A block seen before: on_block returns early, its replays are owed again.
LEMMA KnownBlockKeepsReplay ==
  ASSUME StoreInv, ReplayInv, NEW root \in DOMAIN bodies, DeliverKnownBlock(root)
  PROVE  UNCHANGED vars /\ ReplayInv'
<1>1. /\ pending = <<>> /\ pending' = bodies[root]
      /\ UNCHANGED <<vars, beaconStates, bodies>>
  BY DEF DeliverKnownBlock
<1>2. /\ time' = time /\ time \in Nat /\ justifiedCheckpoint' = justifiedCheckpoint
      /\ UNCHANGED <<blocks, blockStates, checkpointStates, beaconStates, bodies,
                     unrealizedJustifications, unrealizedJustifiedCheckpoint>>
  BY <1>1 DEF StoreInv, TypeOK, vars, blockVars, unrealizedVars, voteVars, checkpointVars
<1>3. Cached \subseteq Cached'
  BY <1>1, <1>2, TargetsOf DEF Cached
<1>4. ReplayInv'
  BY <1>1, <1>2, <1>3, NoNewBlock
<1> QED
  BY <1>1, <1>4

\* What on_attestation leaves alone.
LEMMA AttestationFrame ==
  ASSUME NEW att, NEW isFromBlock,
         OnAttestation(att, isFromBlock) \/ OnAttestationAborted(att, isFromBlock)
  PROVE  /\ time' = time /\ justifiedCheckpoint' = justifiedCheckpoint
         /\ UNCHANGED <<blocks, blockStates, unrealizedJustifications,
                        unrealizedJustifiedCheckpoint>>
         /\ checkpointStates' = checkpointStates \cup {att.target}
  BY DEF OnAttestation, OnAttestationAborted, StoreTargetCheckpointState,
         checkpointVars, unrealizedVars, blockVars

\* A replay pays what it owed: its target is cached from now on.
LEMMA ReplayKeepsReplay ==
  ASSUME AnchorSlot = 0, StoreInv, ReplayInv, ReplayAttestation
  PROVE  Next /\ ReplayInv' /\ blocks' = blocks
<1>1. PICK att : pending = <<att>> /\ VoteDue(att)
  BY DEF ReplayAttestation, ReplayInv, BodiesDue, BodyDue
<1>2. /\ OnAttestation(att, TRUE) /\ pending' = <<>>
      /\ UNCHANGED <<beaconStates, bodies>>
  <2>1. Head(<<att>>) = att /\ Tail(<<att>>) = <<>>
    OBVIOUS
  <2> QED
    BY <1>1, <2>1 DEF ReplayAttestation
<1>3. Next
  BY <1>1, <1>2, ReplayIsStep DEF Next
<1>4. /\ time' = time /\ justifiedCheckpoint' = justifiedCheckpoint
      /\ UNCHANGED <<blocks, blockStates, unrealizedJustifications,
                     unrealizedJustifiedCheckpoint>>
      /\ checkpointStates' = checkpointStates \cup {att.target}
  BY <1>2, AttestationFrame
<1>5. Cached' = Cached
  BY <1>1, <1>2, <1>4, TargetsOf DEF Cached
<1>6. time \in Nat
  BY DEF StoreInv, TypeOK
<1>7. ReplayInv'
  BY <1>2, <1>4, <1>5, <1>6, NoNewBlock
<1> QED
  BY <1>3, <1>4, <1>7

\* An attestation from the wire caches one more checkpoint state at most.
LEMMA WireAttestationKeepsReplay ==
  ASSUME StoreInv, ReplayInv, WireAttestation
  PROVE  Next /\ ReplayInv' /\ blocks' = blocks
<1>1. PICK slot \in Slot, root \in DOMAIN blocks, attesters \in WireAttesters :
        LET att == AttestationOf(slot, root, attesters)
        IN OnAttestation(att, FALSE) \/ OnAttestationAborted(att, FALSE)
  BY DEF WireAttestation
<1> DEFINE att == AttestationOf(slot, root, attesters)
<1>2. OnAttestation(att, FALSE) \/ OnAttestationAborted(att, FALSE)
  BY <1>1
<1>3. Next
  BY <1>2 DEF Next, AttestationStep
<1> HIDE DEF att
<1>4. /\ time' = time /\ justifiedCheckpoint' = justifiedCheckpoint
      /\ UNCHANGED <<blocks, blockStates, unrealizedJustifications,
                     unrealizedJustifiedCheckpoint>>
      /\ checkpointStates' = checkpointStates \cup {att.target}
  BY <1>2, AttestationFrame
<1>5. UNCHANGED <<beaconStates, bodies, pending>> /\ time \in Nat
  BY DEF WireAttestation, driverVars, StoreInv, TypeOK
<1>6. Cached \subseteq Cached'
  BY <1>4, <1>5 DEF Cached
<1>7. ReplayInv'
  BY <1>4, <1>5, <1>6, NoNewBlock
<1> QED
  BY <1>3, <1>4, <1>7

\* Nor does a slashing touch a block.
LEMMA WireSlashingKeepsReplay ==
  ASSUME StoreInv, ReplayInv, WireSlashing
  PROVE  Next /\ ReplayInv' /\ blocks' = blocks
<1>1. PICK slashable \in WireSlashings : OnAttesterSlashing(slashable)
  BY DEF WireSlashing
<1>2. /\ time' = time /\ justifiedCheckpoint' = justifiedCheckpoint /\ time \in Nat
      /\ UNCHANGED <<blocks, blockStates, checkpointStates, beaconStates, bodies, pending,
                     unrealizedJustifications, unrealizedJustifiedCheckpoint>>
  BY <1>1 DEF WireSlashing, OnAttesterSlashing, driverVars, checkpointVars, unrealizedVars,
              blockVars, StoreInv, TypeOK
<1>3. Cached' = Cached
  BY <1>2 DEF Cached
<1>4. ReplayInv'
  BY <1>2, <1>3, NoNewBlock
<1> QED
  BY <1>1, <1>2, <1>4 DEF Next

\* The contract of the state transition, of one step.
PostStateStep ==
  \A root \in DOMAIN blocks' \ DOMAIN blocks :
    blockStates'[root] \in PostStates(root, blocks'[root])

\* Every step of the driver is one of the store, whose caller it is.
LEMMA DriverStep ==
  ASSUME GenesisAnchor, DriverInv, [DriverNext]_allVars
  PROVE  [Next]_vars /\ ReplayInv' /\ PostStateStep
<1>1. StoreInv /\ ReplayInv /\ AnchorSlot = 0
  BY DEF DriverInv, GenesisAnchor
<1>2. blocks' = blocks => PostStateStep
  BY DEF PostStateStep
<1>3. CASE Tick
  BY <1>1, <1>2, <1>3, TickKeepsReplay
<1>4. ASSUME NEW root \in FreshRoots, NEW parent \in DOMAIN blocks, NEW slot \in BlockSlots,
             DeliverBlock(root, parent, slot)
      PROVE  [Next]_vars /\ ReplayInv' /\ PostStateStep
  <2> DEFINE block == [parent |-> parent, slot |-> slot]
  <2>1. /\ BlockStep /\ ReplayInv' /\ blocks' = Put(blocks, root, block)
        /\ blockStates'[root] \in PostStates(root, block)
    BY <1>1, <1>4, NewBlock
  <2>2. DOMAIN blocks' \ DOMAIN blocks \subseteq {root} /\ blocks'[root] = block
    BY <2>1 DEF Put
  <2> HIDE DEF block
  <2>3. PostStateStep
    BY <2>1, <2>2 DEF PostStateStep
  <2> QED
    BY <2>1, <2>3 DEF Next
<1>5. ASSUME NEW root \in DOMAIN bodies, DeliverKnownBlock(root)
      PROVE  [Next]_vars /\ ReplayInv' /\ PostStateStep
  <2>1. UNCHANGED vars /\ ReplayInv'
    BY <1>1, <1>5, KnownBlockKeepsReplay
  <2>2. blocks' = blocks
    BY <2>1 DEF vars, blockVars
  <2> QED
    BY <1>2, <2>1, <2>2
<1>6. CASE ReplayAttestation
  BY <1>1, <1>2, <1>6, ReplayKeepsReplay
<1>7. CASE WireAttestation
  BY <1>1, <1>2, <1>7, WireAttestationKeepsReplay
<1>8. CASE WireSlashing
  BY <1>1, <1>2, <1>8, WireSlashingKeepsReplay
<1>9. CASE UNCHANGED allVars
  <2>1. /\ UNCHANGED vars /\ time' = time /\ justifiedCheckpoint' = justifiedCheckpoint
        /\ UNCHANGED <<blocks, blockStates, checkpointStates, beaconStates, bodies, pending,
                       unrealizedJustifications, unrealizedJustifiedCheckpoint>>
    BY <1>9 DEF allVars, vars, driverVars, blockVars, unrealizedVars, voteVars, checkpointVars
  <2>2. Cached' = Cached /\ time \in Nat
    BY <1>1, <2>1 DEF Cached, StoreInv, TypeOK
  <2>3. ReplayInv'
    BY <1>1, <2>1, <2>2, NoNewBlock
  <2> QED
    BY <1>2, <2>1, <2>3
<1> QED
  BY <1>3, <1>4, <1>5, <1>6, <1>7, <1>8, <1>9 DEF DriverNext

\* The store's own invariants, from its own proofs.
LEMMA StepStoreInv ==
  ASSUME GenesisAnchor, StoreInv, [Next]_vars
  PROVE  StoreInv'
  BY GenesisSound, StepTypeOK, StepAnchoredTree, StepBlocksFinite, StepCheckpointBlocks
  DEF StoreInv

\* The invariant holds throughout, and so does every step of the store.
LEMMA DriverInvariant ==
  ASSUME GenesisAnchor
  PROVE  DriverSpec => /\ []DriverInv
                       /\ [][[Next]_vars /\ PostStateStep]_allVars
<1>1. DriverInit => DriverInv
  BY InitDriverInv
<1>2. DriverInv /\ [DriverNext]_allVars => DriverInv'
  BY DriverStep, StepStoreInv DEF DriverInv
<1>3. DriverInv /\ [DriverNext]_allVars => [Next]_vars /\ PostStateStep
  BY DriverStep
<1> QED
  BY <1>1, <1>2, <1>3, PTL DEF DriverSpec

-----------------------------------------------------------------------------
(* What stops the run.                                                      *)

\* The head is a block of the store.
LEMMA HeadIsStored ==
  ASSUME TypeOK, AnchoredTree, BlocksFinite, CheckpointBlocksStored
  PROVE  GetHead \in DOMAIN blocks
<1> DEFINE D == DOMAIN blocks
           top == SlotAt(MaxTime)
           rank == [n \in D |-> top - blocks[n].slot]
<1>1. PICK walk : IsHeadWalk(walk) /\ GetHead = walk[justifiedCheckpoint.root]
  BY HeadWalkExists
<1> DEFINE S == {n \in D : walk[n] \in D}
<1>2. ASSUME NEW n \in D, \A e \in D : rank[e] < rank[n] => e \in S
      PROVE  n \in S
  <2> DEFINE h == Heaviest(Below(n))
  <2>1. walk[n] = IF Below(n) = {} THEN n ELSE walk[h]
    BY <1>1 DEF IsHeadWalk
  <2>2. CASE Below(n) # {}
    <3>1. h \in Children(n)
      BY <2>2, HeaviestBelow DEF Below
    <3>2. h \in D /\ blocks[n].slot < blocks[h].slot
      BY <3>1, NoRootIsNoBlock DEF Children, AnchoredTree, RootedTree, BlockTree
    <3>3. blocks[n].slot \in Nat /\ blocks[h].slot \in Nat /\ top \in Nat
      BY <3>2, SlotAndEpochNat, MaxTimeAssumption DEF AnchoredTree, RootedTree, BlockTree
    <3> HIDE DEF h, top
    <3>4. rank[h] < rank[n]
      BY <3>2, <3>3
    <3> QED
      BY <1>2, <2>1, <2>2, <3>2, <3>4
  <2> QED
    BY <2>1, <2>2
<1>3. rank \in [D -> Nat] /\ S \in SUBSET D
  <2>1. top \in Nat
    BY SlotAndEpochNat, MaxTimeAssumption
  <2>2. \A n \in D : blocks[n].slot \in 0..top
    BY DEF TypeOK, Block, Slot
  <2> HIDE DEF top
  <2> QED
    BY <2>1, <2>2
<1>4. S = D
  <2> HIDE DEF S, rank, D
  <2> QED
    BY <1>2, <1>3, RankInduction
<1> QED
  BY <1>1, <1>4 DEF CheckpointBlocksStored, Held

\* Once no replay is owed, the head query finds all it reads.
LEMMA HeadAnswers ==
  ASSUME GenesisAnchor, DriverInv
  PROVE  HeadAvailable
<1> SUFFICES ASSUME pending = <<>> PROVE ~HeadRaises
  BY DEF HeadAvailable
<1>1. justifiedCheckpoint \in checkpointStates
  BY TargetsOf DEF DriverInv, ReplayInv, JustifiedStored, Cached
<1>2. DOMAIN blocks \ DOMAIN unrealizedJustifications = {}
  BY DEF DriverInv, ReplayInv, AllRecorded
<1>3. HeadFailureExplained
  BY GenesisSound, HeadReads DEF DriverInv, StoreInv
<1> QED
  BY <1>1, <1>2, <1>3 DEF HeadFailureExplained

\* From genesis no walk leaves the store, so the dependent roots of the head and
\* of a new block are found.
LEMMA DependentRootsFound ==
  ASSUME AnchorSlot = 0, TypeOK, AnchoredTree, NEW root \in Root, NEW block \in Block,
         BlockAdmissible(root, block), NEW head \in DOMAIN blocks
  PROVE  DependentRootsKnown(head, root, block)
<1> DEFINE after == Put(blocks, root, block)
           lookahead == StartSlot(Previous(CurrentEpoch))
           slot == IF lookahead = 0 THEN 0 ELSE lookahead - 1
<1>1. RootedTree(after) /\ NoRoot \notin DOMAIN after
  BY AdmissibleGrowsTree, NoRootIsNoBlock DEF RootedTree
<1>2. head \in DOMAIN after /\ root \in DOMAIN after
  BY DEF Put
<1>3. slot \in Nat /\ slot >= AnchorSlot
  <2>1. CurrentEpoch \in Nat
    BY SlotAndEpochNat DEF TypeOK, CurrentEpoch, CurrentSlot
  <2>2. Previous(CurrentEpoch) \in Nat
    BY <2>1 DEF Previous
  <2>3. ASSUME NEW e \in Nat, NEW d \in Nat PROVE e * d \in Nat
    OBVIOUS
  <2>4. lookahead \in Nat
    BY <2>2, <2>3, SlotsPerEpochAssumption DEF StartSlot
  <2> HIDE DEF lookahead
  <2> QED
    BY <2>4
<1> HIDE DEF after, slot
<1>4. ASSUME NEW tip \in DOMAIN after PROVE Ancestor(after, tip, slot) # NoRoot
  BY <1>1, <1>3, WalkFound
<1> QED
  BY <1>2, <1>4 DEF DependentRootsKnown, DependentRoot, after, slot

\* In a state of the invariant only a stray vote can stop the run.
LEMMA InvariantStopsAtStrays ==
  ASSUME GenesisAnchor, ShortEpochs, DriverInv
  PROVE  OnlyStrayVotesStop
<1>1. HeadAvailable
  BY HeadAnswers
<1>2. ReplayAccepted
  <2> SUFFICES ASSUME NEW r \in DOMAIN bodies, NEW att \in Range(bodies[r]),
                      VotesForChain(beaconStates[r], att)
               PROVE  ValidAttestation(att, TRUE)
    BY DEF ReplayAccepted
  <2>1. r \in DOMAIN blocks /\ BodyDue(bodies[r], blocks[r].slot) /\ StateSound(r)
    BY DEF DriverInv, ReplayInv, BodiesDue, StatesSound
  <2>2. VoteDue(att) /\ att.slot < blocks[r].slot
    <3>1. Range(<<>>) = {} /\ \A x : Range(<<x>>) = {x}
      BY DEF Range
    <3> QED
      BY <2>1, <3>1 DEF BodyDue
  <2>3. Votable(att, blocks)
    BY <2>1, <2>2, SlotsAreNat, VotesForChainVotable
    DEF StateSound, VoteDue, DriverInv, StoreInv, AnchoredTree, GenesisAnchor
  <2> QED
    BY <2>2, <2>3, DueIsValid DEF DriverInv, StoreInv, GenesisAnchor
<1>3. ASSUME NEW root \in FreshRoots, NEW parent \in DOMAIN blocks, NEW slot \in BlockSlots,
             BlockAdmissible(root, [parent |-> parent, slot |-> slot])
      PROVE  DependentRootsKnown(GetHead, root, [parent |-> parent, slot |-> slot])
  <2> DEFINE block == [parent |-> parent, slot |-> slot]
  <2>1. root \in Root /\ block \in Block
    BY BlockInput DEF FreshRoots, DriverInv, StoreInv
  <2>2. BlockAdmissible(root, block)
    BY <1>3
  <2> HIDE DEF block
  <2>3. GetHead \in DOMAIN blocks
    BY HeadIsStored DEF DriverInv, StoreInv
  <2>4. DependentRootsKnown(GetHead, root, block)
    BY <2>1, <2>2, <2>3, DependentRootsFound DEF DriverInv, StoreInv, GenesisAnchor
  <2> QED
    BY <2>4 DEF block
<1>4. ASSUME NEW r \in DOMAIN beaconStates PROVE ~JustificationRejects(beaconStates[r])
  <2>1. Sound(beaconStates[r], blocks, r, Cached)
    BY DEF DriverInv, ReplayInv, StatesSound, StateSound
  <2> QED
    BY <2>1, JustificationAccepted DEF Sound
<1>5. BlocksRunToTheEnd
  BY <1>3, <1>4 DEF BlocksRunToTheEnd
<1> QED
  BY <1>1, <1>2, <1>5 DEF OnlyStrayVotesStop

\* From genesis, and with a history of two epochs, only the replay of a stray vote
\* turns the driver away half-way through a block, whatever blocks, votes, ticks
\* and slashings come in whatever order.
THEOREM RunStopsOnlyAtStrayVotes ==
  ASSUME GenesisAnchor, ShortEpochs
  PROVE  DriverSpec => []OnlyStrayVotesStop
<1>1. DriverInv => OnlyStrayVotesStop
  BY InvariantStopsAtStrays
<1> QED
  BY <1>1, DriverInvariant, PTL

\* The state transition keeps what fork choice is told about it: the contract
\* FuluForkChoice is checked under.
THEOREM TransitionKeepsContract ==
  ASSUME GenesisAnchor
  PROVE  DriverSpec => PostStateContract
<1>1. [[Next]_vars /\ PostStateStep]_allVars =>
        [\A root \in DOMAIN blocks' \ DOMAIN blocks :
           blockStates'[root] \in PostStates(root, blocks'[root])]_allVars
  BY DEF PostStateStep
<1> QED
  BY <1>1, DriverInvariant, PTL DEF PostStateContract

\* The driven store is a store that any caller may have driven: what holds of
\* every behaviour of FuluForkChoice holds of the driver.
THEOREM DriverDrivesStore ==
  ASSUME GenesisAnchor
  PROVE  DriverSpec => Spec
<1>1. DriverInit => Init
  BY DEF DriverInit
<1>2. [[Next]_vars /\ PostStateStep]_allVars => [Next]_vars
  BY DEF allVars
<1> QED
  BY <1>1, <1>2, DriverInvariant, PTL DEF DriverSpec, Spec

\* So the head of the driven store follows a majority too.
THEOREM DrivenHeadGoesWithMajority ==
  ASSUME GenesisAnchor
  PROVE  DriverSpec => []HeadFollowsMajority
  BY DriverDrivesStore, HeadGoesWithMajority, PTL

-----------------------------------------------------------------------------
(* The voting rule: two thirds vote for a link from a justified checkpoint  *)
(* to a later one of its chain, and so justify that one.  Finalized is what *)
(* has a link to the next justified checkpoint, or to the next but one.     *)

\* Two thirds and two thirds have a third in common, and with it a validator
\* that is not faulty.
LEMMA MajoritiesMeet ==
  ASSUME NEW A \in SUBSET Validator, NEW B \in SUBSET Validator,
         Supermajority(A), Supermajority(B)
  PROVE  (A \cap B) \ Faulty # {}
<1> DEFINE W(vs) == SumFunctionOnSet(EffectiveBalance, vs)
           one == EffectiveBalanceIncrement
           all == TotalBalance(Validator)
<1>1. /\ one \in Nat /\ all \in Nat
      /\ \A vs \in SUBSET Validator : W(vs) \in Nat
      /\ \A vs \in SUBSET Validator : W(vs) <= W(Validator)
  BY BalanceAssumption, BalancesAdd, TotalBalanceNat
<1>2. ASSUME NEW vs \in SUBSET Validator
      PROVE  /\ TotalBalance(vs) \in {one, W(vs)}
             /\ TotalBalance(vs) >= one /\ TotalBalance(vs) >= W(vs)
             /\ TotalBalance(vs) \in Nat
  <2> DEFINE a == one
             b == W(vs)
  <2>1. a \in Nat /\ b \in Nat
    BY <1>1
  <2>2. Max({a, b}) \in {a, b} /\ Max({a, b}) >= a /\ Max({a, b}) >= b
    <3> HIDE DEF a, b
    <3>1. \E m \in {a, b} : \A k \in {a, b} : k <= m
      BY <2>1
    <3> QED
      BY <2>1, <3>1 DEF Max
  <2> QED
    BY <2>1, <2>2 DEF TotalBalance
<1>3. 3 * one < 2 * all /\ W(Validator) <= all
  <2>1. TotalBalance({}) >= one /\ TotalBalance({}) \in Nat
    BY <1>2
  <2>2. W(Validator) <= all
    BY <1>2
  <2> HIDE DEF all, one, W
  <2> QED
    BY <2>1, <2>2, <1>1, StakeAssumption DEF all
<1>4. ASSUME NEW vs \in SUBSET Validator, Supermajority(vs) PROVE W(vs) * 3 >= all * 2
  <2>1. TotalBalance(vs) * 3 >= all * 2
    BY <1>4 DEF Supermajority
  <2> HIDE DEF all, one, W
  <2> QED
    BY <2>1, <1>1, <1>2, <1>3
<1> SUFFICES ASSUME A \cap B \subseteq Faulty PROVE FALSE
  OBVIOUS
<1>5. W(A) + W(B) <= W(Validator) + W(A \cap B)
  <2>1. \A v \in Validator : EffectiveBalance[v] \in Int
    BY BalanceAssumption
  <2>2. W(Validator) = W(A) + W(Validator \ A)
    BY <2>1, BalanceAssumption, SumParts
  <2>3. W(B) = W(A \cap B) + W(B \ (A \cap B))
    <3>1. IsFiniteSet(B) /\ A \cap B \in SUBSET B /\ \A v \in B : EffectiveBalance[v] \in Int
      BY <2>1, BalanceAssumption, FS_Subset
    <3> QED
      BY <3>1, SumParts
  <2>4. W(B \ (A \cap B)) <= W(Validator \ A)
    <3>1. B \ (A \cap B) \in SUBSET (Validator \ A) /\ Validator \ A \in SUBSET Validator
      OBVIOUS
    <3> QED
      BY <3>1, BalancesAdd
  <2>5. /\ W(Validator \ A) \in Nat /\ W(A \cap B) \in Nat
        /\ W(B \ (A \cap B)) \in Nat /\ W(A) \in Nat /\ W(B) \in Nat
    BY <1>1
  <2> HIDE DEF W
  <2> QED
    BY <1>1, <2>2, <2>3, <2>4, <2>5
<1>6. W(A) * 3 >= all * 2 /\ W(B) * 3 >= all * 2
  BY <1>4
<1>7. W(A \cap B) <= W(Faulty) /\ 3 * W(Faulty) < all /\ W(Faulty) \in Nat
  <2>1. W(Faulty) \in Nat /\ W(A \cap B) <= W(Faulty)
    <3>1. A \cap B \in SUBSET Faulty /\ Faulty \in SUBSET Validator
      BY FaultyAssumption
    <3> QED
      BY <1>1, <3>1, BalancesAdd
  <2> QED
    BY <2>1, FaultyAssumption
<1>8. W(A) \in Nat /\ W(B) \in Nat /\ W(A \cap B) \in Nat /\ W(Validator) \in Nat
  BY <1>1
<1> HIDE DEF W, all, one
<1> QED
  BY <1>1, <1>3, <1>5, <1>6, <1>7, <1>8

\* More votes are a majority too.
LEMMA MajorityGrows ==
  ASSUME NEW B \in SUBSET Validator, NEW A \in SUBSET B, Supermajority(A)
  PROVE  Supermajority(B)
<1> DEFINE a == SumFunctionOnSet(EffectiveBalance, A)
           b == SumFunctionOnSet(EffectiveBalance, B)
           one == EffectiveBalanceIncrement
<1>1. one \in Nat /\ a \in Nat /\ b \in Nat /\ a <= b
  BY BalanceAssumption, BalancesAdd
<1>2. Max({one, a}) \in Nat /\ Max({one, b}) \in Nat /\ Max({one, a}) <= Max({one, b})
  <2> HIDE DEF one, a, b
  <2>1. ASSUME NEW x \in Nat, NEW y \in Nat
        PROVE  /\ Max({x, y}) \in {x, y}
               /\ Max({x, y}) >= x /\ Max({x, y}) >= y
    <3>1. \E m \in {x, y} : \A k \in {x, y} : k <= m
      OBVIOUS
    <3> QED
      BY <3>1 DEF Max
  <2> QED
    BY <1>1, <2>1
<1>3. TotalBalance(A) * 3 >= TotalBalance(Validator) * 2 /\ TotalBalance(Validator) \in Nat
  BY TotalBalanceNat DEF Supermajority
<1>4. TotalBalance(A) = Max({one, a}) /\ TotalBalance(B) = Max({one, b})
  BY DEF TotalBalance
<1> HIDE DEF one, a, b
<1> QED
  BY <1>2, <1>3, <1>4 DEF Supermajority

\* Who voted for a link, and the links that two thirds voted for.
Votes(cast, source, target) ==
  {v \in Validator : \E att \in cast :
     v \in att.attesters /\ att.source = source /\ att.target = target}

Link(cast, source, target) ==
  target.epoch > 0 /\ Supermajority(Votes(cast, source, target))

\* Justified is what every set has that starts from genesis and follows links.
ClosedUnderLinks(cast, X) ==
  /\ Genesis \in X
  /\ \A source \in X, target \in Checkpoint : Link(cast, source, target) => target \in X

Justified(cast, c) ==
  c \in Checkpoint /\ \A X \in SUBSET Checkpoint : ClosedUnderLinks(cast, X) => c \in X

\* In between lies a justified checkpoint of the same chain.
Bridged(cast, store, c) ==
  \E middle \in Checkpoint :
    /\ middle.epoch = c.epoch + 1
    /\ middle # Genesis /\ Justified(cast, middle)
    /\ CheckpointBlock(store, middle.root, c.epoch) = c.root

Finalized(cast, store, c) ==
  \/ c = Genesis
  \/ /\ c # Genesis /\ Justified(cast, c)
     /\ \E target \in Checkpoint :
          /\ Link(cast, c, target)
          /\ \/ target.epoch = c.epoch + 1
             \/ target.epoch = c.epoch + 2 /\ Bridged(cast, store, c)

\* A vote is for a checkpoint of a stored chain, from an earlier one of it.
VoteOfChain(att, store) ==
  /\ att.attesters \in SUBSET Validator
  /\ att.source \in Checkpoint /\ att.target \in Checkpoint
  /\ att.target.root \in DOMAIN store
  /\ store[att.target.root].slot <= StartSlot(att.target.epoch)
  /\ att.target.epoch > 0 => att.source.epoch < att.target.epoch
  /\ Chained(att.source, store, att.target.root)

NotSlashable(a, b) ==
  (a.attesters \cap b.attesters) \ Faulty # {} =>
    ~IsSlashableAttestationData(a, b) /\ ~IsSlashableAttestationData(b, a)

\* But for the faulty nobody casts slashable votes.
NoneSlashable(cast) == \A a \in cast, b \in cast : NotSlashable(a, b)

FairVotes(cast, store) ==
  /\ \A att \in cast : VoteOfChain(att, store)
  /\ NoneSlashable(cast)

\* The votes of stored blocks include stray ones, which no state counts; those of a
\* stored chain are fair.
OfChains(cast, store) == {att \in cast : VoteOfChain(att, store)}

CountedVotes == OfChains(CastVotes, blocks)

\* What is left of votes that are not slashable is fair.
LEMMA ChainVotesFair ==
  ASSUME NEW cast, NEW store, NoneSlashable(cast)
  PROVE  FairVotes(OfChains(cast, store), store)
  BY DEF FairVotes, NoneSlashable, OfChains

\* Of two links only the faulty vote for both unless they are the same or follow
\* each other; yet one did.
LEMMA LinksAgree ==
  ASSUME NEW store, NEW cast, FairVotes(cast, store),
         NEW s, NEW t, Link(cast, s, t), NEW r, NEW u, Link(cast, r, u)
  PROVE  /\ t.epoch = u.epoch => t = u /\ s = r
         /\ ~(s.epoch < r.epoch /\ u.epoch < t.epoch)
<1>1. (Votes(cast, s, t) \cap Votes(cast, r, u)) \ Faulty # {}
  <2>1. Votes(cast, s, t) \in SUBSET Validator /\ Votes(cast, r, u) \in SUBSET Validator
    BY DEF Votes
  <2> QED
    BY <2>1, MajoritiesMeet DEF Link
<1>2. PICK v : v \in Votes(cast, s, t) /\ v \in Votes(cast, r, u) /\ v \notin Faulty
  BY <1>1
<1>3. PICK a \in cast : v \in a.attesters /\ a.source = s /\ a.target = t
  BY <1>2 DEF Votes
<1>4. PICK b \in cast : v \in b.attesters /\ b.source = r /\ b.target = u
  BY <1>2 DEF Votes
<1>5. ~IsSlashableAttestationData(a, b)
  BY <1>2, <1>3, <1>4 DEF FairVotes, NoneSlashable, NotSlashable
<1>6. t.epoch = u.epoch => <<a.slot, a.root, s, t>> = <<b.slot, b.root, r, u>>
  BY <1>3, <1>4, <1>5 DEF IsSlashableAttestationData
<1> QED
  BY <1>3, <1>4, <1>5, <1>6 DEF IsSlashableAttestationData

\* A link is within one chain.
LEMMA LinkOfChain ==
  ASSUME NEW store, NEW cast, FairVotes(cast, store), NEW s, NEW t, Link(cast, s, t)
  PROVE  /\ s \in Checkpoint /\ t \in Checkpoint /\ t.epoch > 0 /\ s.epoch < t.epoch
         /\ t.root \in DOMAIN store /\ store[t.root].slot <= StartSlot(t.epoch)
         /\ Chained(s, store, t.root)
<1>1. Votes(cast, s, t) # {}
  <2>1. Votes(cast, s, t) \in SUBSET Validator
    BY DEF Votes
  <2> QED
    BY <2>1, SupermajorityNotEmpty DEF Link
<1>2. PICK att \in cast : att.source = s /\ att.target = t
  BY <1>1 DEF Votes
<1> QED
  BY <1>2 DEF FairVotes, VoteOfChain, Link

\* The induction Justified is made for, by one step.
LEMMA JustifiedFromLink ==
  ASSUME NEW cast, NEW s, Justified(cast, s), NEW t \in Checkpoint, Link(cast, s, t)
  PROVE  Justified(cast, t)
  BY DEF Justified, ClosedUnderLinks

\* And backwards: what is justified is genesis or has a link to it.
LEMMA JustifiedByLink ==
  ASSUME NEW cast, NEW c, Justified(cast, c), c # Genesis
  PROVE  \E s : Link(cast, s, c)
<1> DEFINE X == {t \in Checkpoint : t = Genesis \/ \E s : Link(cast, s, t)}
<1>1. ClosedUnderLinks(cast, X)
  BY DEF ClosedUnderLinks, Genesis, Checkpoint, RootOrNone
<1>2. c \in X
  BY <1>1 DEF Justified
<1> QED
  BY <1>2

\* Genesis needs no votes.
LEMMA GenesisJustified ==
  ASSUME NEW cast
  PROVE  Justified(cast, Genesis)
  BY DEF Justified, ClosedUnderLinks, Genesis, Checkpoint, RootOrNone

\* A justified checkpoint is genesis or of a stored chain.
LEMMA JustifiedOfChain ==
  ASSUME NEW store, NEW cast, FairVotes(cast, store), NEW c, Justified(cast, c), c # Genesis
  PROVE  /\ c \in Checkpoint /\ c.epoch \in Nat /\ c.epoch > 0
         /\ c.root \in DOMAIN store /\ store[c.root].slot <= StartSlot(c.epoch)
<1>1. PICK s : Link(cast, s, c)
  BY JustifiedByLink
<1>2. c \in Checkpoint
  BY DEF Justified
<1> QED
  BY <1>1, <1>2, LinkOfChain DEF Checkpoint

\* Accountable safety: as long as only the faulty cast slashable votes, every
\* justified checkpoint as late as a finalized one is on its chain.
LEMMA FinalitySafe ==
  ASSUME NEW store, RootedTree(store), AnchorSlot = 0,
         NEW cast, FairVotes(cast, store),
         NEW f, Finalized(cast, store, f), f # Genesis,
         NEW j, Justified(cast, j), j.epoch >= f.epoch
  PROVE  /\ j.root \in DOMAIN store
         /\ CheckpointBlock(store, j.root, f.epoch) = f.root
<1> DEFINE Above(c) == /\ c.root \in DOMAIN store
                       /\ CheckpointBlock(store, c.root, f.epoch) = f.root
           X == {c \in Checkpoint : c.epoch >= f.epoch => Above(c)}
<1>1. PICK t \in Checkpoint :
        /\ Link(cast, f, t)
        /\ \/ t.epoch = f.epoch + 1
           \/ t.epoch = f.epoch + 2 /\ Bridged(cast, store, f)
  BY DEF Finalized
<1>2. Justified(cast, f)
  BY DEF Finalized
<1>3. /\ f \in Checkpoint /\ f.epoch \in Nat /\ f.epoch > 0 /\ t.epoch \in Nat
      /\ f.root \in DOMAIN store /\ store[f.root].slot <= StartSlot(f.epoch)
      /\ t.root \in DOMAIN store /\ Chained(f, store, t.root)
  BY <1>1, <1>2, JustifiedOfChain, LinkOfChain DEF Checkpoint
<1>4. PICK before : Link(cast, before, f)
  BY <1>2, JustifiedByLink
<1>5. StartSlot(f.epoch) \in Nat
  BY <1>3, EpochsApart
<1>6. Above(f)
  <2>1. f.root \in RootOrNone /\ BlockTree(store) /\ store[f.root].slot \in Nat
    BY <1>3 DEF RootedTree, BlockTree, RootOrNone
  <2>2. ~(store[f.root].slot > StartSlot(f.epoch))
    BY <1>3, <1>5, <2>1
  <2> QED
    BY <1>3, <2>1, <2>2, AncestorUnfolds DEF CheckpointBlock
<1>7. Above(t)
  BY <1>3 DEF Chained, OnChain
<1>8. ASSUME NEW s \in X, NEW c \in Checkpoint, Link(cast, s, c), c.epoch >= f.epoch
      PROVE  Above(c)
  <2>1. /\ s \in Checkpoint /\ s.epoch \in Nat /\ c.epoch \in Nat
        /\ c.root \in DOMAIN store /\ Chained(s, store, c.root)
    BY <1>8, LinkOfChain DEF Checkpoint
  <2>2. CASE c.epoch = f.epoch
    <3>1. c = f
      BY <1>4, <1>8, <2>2, LinksAgree
    <3> QED
      BY <1>6, <3>1
  <2>3. CASE c.epoch = t.epoch
    <3>1. c = t
      BY <1>1, <1>8, <2>3, LinksAgree
    <3> QED
      BY <1>7, <3>1
  <2>4. CASE t.epoch = f.epoch + 2 /\ c.epoch = f.epoch + 1
    <3>1. t.epoch # f.epoch + 1
      BY <1>3, <2>4
    <3>2. PICK middle \in Checkpoint :
            /\ middle.epoch = f.epoch + 1
            /\ middle # Genesis /\ Justified(cast, middle)
            /\ CheckpointBlock(store, middle.root, f.epoch) = f.root
      BY <1>1, <3>1 DEF Bridged
    <3>3. PICK r : Link(cast, r, middle)
      BY <3>2, JustifiedByLink
    <3>4. c = middle
      BY <1>8, <2>4, <3>2, <3>3, LinksAgree
    <3> QED
      BY <2>1, <3>2, <3>4
  <2>5. CASE t.epoch < c.epoch
    <3>1. s.epoch >= f.epoch
      <4>1. ~(s.epoch < f.epoch /\ t.epoch < c.epoch)
        BY <1>1, <1>8, LinksAgree
      <4> QED
        BY <1>3, <2>1, <2>5, <4>1
    <3>2. Above(s) /\ s # Genesis /\ s.root = CheckpointBlock(store, c.root, s.epoch)
      BY <1>3, <2>1, <3>1 DEF Chained, OnChain, Genesis
    <3>3. StartSlot(s.epoch) \in Nat /\ StartSlot(f.epoch) <= StartSlot(s.epoch)
      <4>1. CASE s.epoch = f.epoch
        BY <1>5, <4>1
      <4>2. CASE f.epoch < s.epoch
        BY <1>3, <2>1, <4>2, EpochsApart, SlotsPerEpochAssumption
      <4> QED
        BY <1>3, <2>1, <3>1, <4>1, <4>2
    <3>4. c.root \in RootOrNone /\ BlockTree(store)
      BY <2>1 DEF RootedTree, BlockTree, RootOrNone
    <3> HIDE DEF X
    <3>5. Ancestor(store, c.root, StartSlot(s.epoch)) = s.root
      BY <3>2 DEF CheckpointBlock
    <3>6. Ancestor(store, s.root, StartSlot(f.epoch)) = Ancestor(store, c.root, StartSlot(f.epoch))
      BY <1>5, <3>2, <3>3, <3>4, <3>5, AncestorTwice
    <3> QED
      BY <2>1, <3>2, <3>6 DEF CheckpointBlock
  <2>6. t.epoch \in {f.epoch + 1, f.epoch + 2}
    BY <1>1
  <2> QED
    BY <1>3, <1>8, <2>1, <2>2, <2>3, <2>4, <2>5, <2>6
<1>9. Genesis \in X
  BY <1>3 DEF Genesis, Checkpoint, RootOrNone
<1>10. ClosedUnderLinks(cast, X)
  BY <1>8, <1>9 DEF ClosedUnderLinks
<1>11. j \in X
  BY <1>10 DEF Justified
<1> QED
  BY <1>11

\* More votes keep what fewer justified.
LEMMA JustifiedWithMore ==
  ASSUME NEW cast, NEW more, cast \subseteq more
  PROVE  /\ \A s, t : Votes(cast, s, t) \subseteq Votes(more, s, t)
         /\ \A s, t : Link(cast, s, t) => Link(more, s, t)
         /\ \A c : Justified(cast, c) => Justified(more, c)
         /\ \A store, c : Finalized(cast, store, c) => Finalized(more, store, c)
<1>1. \A s, t : Votes(cast, s, t) \subseteq Votes(more, s, t)
  BY DEF Votes
<1>2. ASSUME NEW s, NEW t, Link(cast, s, t) PROVE Link(more, s, t)
  <2>1. Votes(more, s, t) \in SUBSET Validator /\ Votes(cast, s, t) \in SUBSET Votes(more, s, t)
    BY <1>1 DEF Votes
  <2> QED
    BY <1>2, <2>1, MajorityGrows DEF Link
<1>3. ASSUME NEW c, Justified(cast, c) PROVE Justified(more, c)
  <2>1. \A X : ClosedUnderLinks(more, X) => ClosedUnderLinks(cast, X)
    BY <1>2 DEF ClosedUnderLinks
  <2> QED
    BY <1>3, <2>1 DEF Justified
<1>4. ASSUME NEW store, NEW c, Finalized(cast, store, c) PROVE Finalized(more, store, c)
  BY <1>2, <1>3, <1>4 DEF Finalized, Bridged
<1> QED
  BY <1>1, <1>2, <1>3, <1>4

\* Chains do not change when a block is added to the tree.
LEMMA OnChainKept ==
  ASSUME NEW store, RootedTree(store), NEW root \in Root \ DOMAIN store, NEW block,
         RootedTree(Put(store, root, block)), NEW tip \in DOMAIN store
  PROVE  /\ tip \in DOMAIN Put(store, root, block)
         /\ Put(store, root, block)[tip] = store[tip]
         /\ \A e : /\ OnChain(e, Put(store, root, block), tip) = OnChain(e, store, tip)
                   /\ CheckpointBlock(Put(store, root, block), tip, e)
                        = CheckpointBlock(store, tip, e)
<1> DEFINE after == Put(store, root, block)
<1>1. tip # root /\ tip \in RootOrNone /\ BlockTree(store) /\ BlockTree(after)
  BY DEF RootedTree, BlockTree, RootOrNone
<1>2. \A slot : Ancestor(after, tip, slot) = Ancestor(store, tip, slot)
  BY <1>1, AncestorKept
<1>3. tip \in DOMAIN after /\ after[tip] = store[tip]
  BY <1>1 DEF Put
<1> HIDE DEF after
<1> QED
  BY <1>2, <1>3 DEF OnChain, CheckpointBlock, after

\* Votes stay fair in a larger tree, and what is finalized stays so.
LEMMA FinalizedInLargerTree ==
  ASSUME NEW store, RootedTree(store), NEW root \in Root \ DOMAIN store, NEW block,
         RootedTree(Put(store, root, block)), NEW cast, FairVotes(cast, store)
  PROVE  /\ \A att : VoteOfChain(att, store) => VoteOfChain(att, Put(store, root, block))
         /\ FairVotes(cast, Put(store, root, block))
         /\ \A c : Finalized(cast, store, c) => Finalized(cast, Put(store, root, block), c)
<1> DEFINE after == Put(store, root, block)
<1>1. ASSUME NEW tip \in DOMAIN store
      PROVE  /\ tip \in DOMAIN after /\ after[tip] = store[tip]
             /\ \A e : OnChain(e, after, tip) = OnChain(e, store, tip)
             /\ \A e : CheckpointBlock(after, tip, e) = CheckpointBlock(store, tip, e)
  BY OnChainKept
<1> HIDE DEF after
<1>2. ASSUME NEW att, VoteOfChain(att, store) PROVE VoteOfChain(att, after)
  BY <1>1, <1>2 DEF VoteOfChain, Chained
<1>3. FairVotes(cast, after)
  BY <1>2 DEF FairVotes
<1>4. ASSUME NEW c, Bridged(cast, store, c) PROVE Bridged(cast, after, c)
  <2>1. PICK middle \in Checkpoint :
          /\ middle.epoch = c.epoch + 1
          /\ middle # Genesis /\ Justified(cast, middle)
          /\ CheckpointBlock(store, middle.root, c.epoch) = c.root
    BY <1>4 DEF Bridged
  <2>2. middle.root \in DOMAIN store
    BY <2>1, JustifiedOfChain
  <2> QED
    BY <1>1, <2>1, <2>2 DEF Bridged
<1>5. ASSUME NEW c, Finalized(cast, store, c) PROVE Finalized(cast, after, c)
  BY <1>4, <1>5 DEF Finalized
<1> QED
  BY <1>2, <1>3, <1>5 DEF after

-----------------------------------------------------------------------------
(* What the votes of the stored blocks say of a beacon state.               *)

\* Who a state counts has voted, from a justified checkpoint, for its chain;
\* the bits it has set, and what it finalized, follow from votes.
VotedFor(state, epoch, store, tip, cast) ==
  /\ Justified(cast, state.previousJustified)
  /\ Justified(cast, state.currentJustified)
  /\ Finalized(cast, store, state.finalized)
  /\ state.previousJustified.epoch <= Previous(Previous(epoch))
  /\ state.currentParticipation
       \subseteq Votes(cast, state.currentJustified, OnChain(epoch, store, tip))
  /\ state.previousParticipation
       \subseteq Votes(cast, state.previousJustified, OnChain(Previous(epoch), store, tip))
  /\ 0 \in state.justificationBits =>
       epoch > 1 /\ Link(cast, state.previousJustified, OnChain(epoch - 1, store, tip))
  /\ 1 \in state.justificationBits =>
       epoch > 2 /\ Justified(cast, OnChain(epoch - 2, store, tip))

\* process_justification_and_finalization justifies and finalizes by the rule
\* of two thirds: the four cases of the code are cases of the definitions.
LEMMA JustificationByVotes ==
  ASSUME NEW store, RootedTree(store), AnchorSlot = 0, NEW tip \in DOMAIN store,
         NEW cached, NEW state \in BeaconState, NEW length \in Nat, state.slot <= length,
         History(state, store, tip, length),
         CheckpointRules(state, store, tip, Previous(EpochOf(state.slot))),
         VoteRules(state, store, tip, cached), JustifiedCached(state, cached),
         NEW cast, VotedFor(state, EpochOf(state.slot), store, tip, cast)
  PROVE  LET pulledUp == ProcessJustificationAndFinalization(state)
             epoch == EpochOf(state.slot)
         IN /\ pulledUp.previousJustified = state.currentJustified
            /\ Justified(cast, pulledUp.currentJustified)
            /\ Finalized(cast, store, pulledUp.finalized)
            /\ 0 \in pulledUp.justificationBits =>
                 epoch > 1 /\ Link(cast, state.currentJustified, OnChain(epoch, store, tip))
            /\ 1 \in pulledUp.justificationBits =>
                 epoch > 1 /\ Justified(cast, OnChain(epoch - 1, store, tip))
<1> DEFINE epoch == EpochOf(state.slot)
           oldPrev == state.previousJustified
           oldCurr == state.currentJustified
           prev == Supermajority(state.previousParticipation)
           curr == Supermajority(state.currentParticipation)
           bits == ShiftBits(state.justificationBits)
                     \cup (IF prev THEN {1} ELSE {})
                     \cup (IF curr THEN {0} ELSE {})
           pulledUp == ProcessJustificationAndFinalization(state)
           justified == IF curr THEN TargetOf(state, epoch)
                        ELSE IF prev THEN TargetOf(state, Previous(epoch))
                        ELSE state.currentJustified
           final == FinalizedBy(state, bits, epoch)
           chain(e) == OnChain(e, store, tip)
<1>1. /\ state.slot \in Nat /\ epoch \in Nat
      /\ Previous(epoch) \in Nat /\ Previous(epoch) <= epoch
      /\ epoch > 0 => Previous(epoch) = epoch - 1
  BY SlotInEpoch, PreviousEpoch DEF BeaconState
<1>2. /\ oldPrev \in Checkpoint /\ oldCurr \in Checkpoint /\ state.finalized \in Checkpoint
      /\ oldPrev.epoch \in Nat /\ oldCurr.epoch \in Nat
  BY DEF BeaconState, Checkpoint
<1>3. /\ Chained(oldPrev, store, tip) /\ Chained(oldCurr, store, tip)
      /\ oldPrev.epoch <= oldCurr.epoch /\ oldCurr.epoch <= Previous(epoch)
  BY DEF CheckpointRules
<1>4. CASE epoch <= 1
  <2>1. pulledUp = state
    BY <1>4 DEF ProcessJustificationAndFinalization
  <2>2. oldPrev.epoch = 0 /\ oldCurr.epoch = 0
    <3>1. Previous(epoch) = 0
      BY <1>1, <1>4 DEF Previous
    <3> HIDE DEF epoch, oldPrev, oldCurr
    <3> QED
      BY <1>2, <1>3, <3>1
  <2>3. oldPrev = Genesis /\ oldCurr = Genesis
    BY <1>3, <2>2 DEF Chained
  <2>4. 0 \notin state.justificationBits /\ 1 \notin state.justificationBits
    BY <1>1, <1>4 DEF VotedFor
  <2> QED
    BY <2>1, <2>3, <2>4 DEF VotedFor
<1>5. CASE ~(epoch <= 1)
  <2>1. epoch > 1 /\ epoch > 0 /\ Previous(epoch) = epoch - 1 /\ epoch - 1 > 0
    BY <1>1, <1>5
  <2>2. pulledUp = [state EXCEPT !.previousJustified = state.currentJustified,
                                 !.currentJustified = justified,
                                 !.justificationBits = bits,
                                 !.finalized = final]
    BY <1>5 DEF ProcessJustificationAndFinalization, WeighJustificationAndFinalization
  <2>3. curr => TargetOf(state, epoch) = chain(epoch) /\ Link(cast, oldCurr, chain(epoch))
    <3> SUFFICES ASSUME curr
                 PROVE  TargetOf(state, epoch) = chain(epoch) /\ Link(cast, oldCurr, chain(epoch))
      OBVIOUS
    <3>1. state.currentParticipation # {}
      BY SupermajorityNotEmpty
    <3>2. StartSlot(epoch) < state.slot
      BY <3>1 DEF VoteRules, Counted
    <3>3. TargetOf(state, epoch) = chain(epoch)
      BY <3>2, <1>1, TargetIsOnChain
    <3>4. Supermajority(Votes(cast, oldCurr, chain(epoch)))
      <4>1. /\ Votes(cast, oldCurr, chain(epoch)) \in SUBSET Validator
            /\ state.currentParticipation \in SUBSET Votes(cast, oldCurr, chain(epoch))
        BY DEF Votes, VotedFor
      <4> QED
        BY <4>1, MajorityGrows
    <3>5. chain(epoch).epoch > 0
      BY <2>1 DEF OnChain
    <3> QED
      BY <3>3, <3>4, <3>5 DEF Link
  <2>4. prev => /\ TargetOf(state, Previous(epoch)) = chain(epoch - 1)
                /\ Link(cast, oldPrev, chain(epoch - 1))
    <3> SUFFICES ASSUME prev
                 PROVE  /\ TargetOf(state, Previous(epoch)) = chain(epoch - 1)
                        /\ Link(cast, oldPrev, chain(epoch - 1))
      OBVIOUS
    <3>1. state.previousParticipation # {}
      BY SupermajorityNotEmpty
    <3>2. StartSlot(Previous(epoch)) < state.slot
      BY <3>1 DEF VoteRules, Counted
    <3>3. TargetOf(state, Previous(epoch)) = chain(Previous(epoch))
      BY <3>2, <1>1, TargetIsOnChain
    <3>4. Supermajority(Votes(cast, oldPrev, chain(Previous(epoch))))
      <4>1. /\ Votes(cast, oldPrev, chain(Previous(epoch))) \in SUBSET Validator
            /\ state.previousParticipation \in SUBSET Votes(cast, oldPrev, chain(Previous(epoch)))
        BY DEF Votes, VotedFor
      <4> QED
        BY <4>1, MajorityGrows
    <3>5. chain(epoch - 1).epoch > 0
      BY <2>1 DEF OnChain
    <3> QED
      BY <2>1, <3>3, <3>4, <3>5 DEF Link
  <2>5. Justified(cast, oldPrev) /\ Justified(cast, oldCurr)
    BY DEF VotedFor
  <2>6. /\ chain(epoch) \in Checkpoint /\ chain(epoch - 1) \in Checkpoint
        /\ epoch - 1 \in Nat
    <3>1. epoch - 1 \in Nat
      BY <1>1, <2>1
    <3> HIDE DEF epoch
    <3> QED
      BY <1>1, <3>1, OnChainType
  <2>7. 0 \in bits => Link(cast, oldCurr, chain(epoch))
    <3>1. 0 \in bits => curr
      BY DEF ShiftBits
    <3> QED
      BY <2>3, <3>1
  <2>8. 1 \in bits => Link(cast, oldPrev, chain(epoch - 1))
    <3>1. 1 \in bits => prev \/ 0 \in state.justificationBits
      BY DEF ShiftBits
    <3>2. 0 \in state.justificationBits => Link(cast, oldPrev, chain(epoch - 1))
      BY DEF VotedFor
    <3> HIDE DEF bits, prev, epoch
    <3> QED
      BY <2>4, <3>1, <3>2
  <2>9. 1 \in bits => Justified(cast, chain(epoch - 1))
    BY <2>5, <2>6, <2>8, JustifiedFromLink
  <2>10. 2 \in bits => epoch > 2 /\ Justified(cast, chain(epoch - 2))
    <3>1. 2 \in bits => 1 \in state.justificationBits
      BY DEF ShiftBits
    <3> QED
      BY <3>1 DEF VotedFor
  <2>11. Justified(cast, justified)
    <3>1. justified \in {chain(epoch), chain(epoch - 1), oldCurr}
      BY <2>3, <2>4
    <3>2. CASE curr
      BY <2>3, <2>5, <2>6, <3>2, JustifiedFromLink
    <3>3. CASE ~curr /\ prev
      BY <2>4, <2>5, <2>6, <3>3, JustifiedFromLink
    <3>4. CASE ~curr /\ ~prev
      BY <2>5, <3>4
    <3> QED
      BY <3>2, <3>3, <3>4
  <2> HIDE DEF bits, justified, epoch
  <2>12. ASSUME NEW e \in Nat, NEW c \in {oldPrev, oldCurr}, c # Genesis,
                c.epoch + 1 = e, Justified(cast, chain(e)), chain(e) \in Checkpoint
         PROVE  Bridged(cast, store, c)
    <3>1. c \in Checkpoint /\ c.epoch \in Nat \ {0} /\ c = chain(c.epoch)
      BY <1>2, <1>3, <2>12 DEF Chained
    <3>2. chain(e).epoch = e /\ e > 0 /\ c.epoch < e
      BY <2>12, <3>1 DEF OnChain
    <3>3. chain(e) # Genesis
      BY <3>2 DEF Genesis
    <3>4. CheckpointBlock(store, chain(e).root, c.epoch) = c.root
      <4>1. /\ StartSlot(e) \in Nat /\ StartSlot(c.epoch) \in Nat
            /\ StartSlot(c.epoch) <= StartSlot(e)
        BY <3>1, <3>2, EpochsApart, SlotsPerEpochAssumption
      <4>2. /\ tip \in RootOrNone /\ BlockTree(store)
            /\ chain(e).root = Ancestor(store, tip, StartSlot(e))
            /\ chain(e).root \in DOMAIN store
            /\ c.root = Ancestor(store, tip, StartSlot(c.epoch))
        <5>1. CheckpointBlock(store, tip, e) \in DOMAIN store
          BY OnChainType
        <5> QED
          BY <3>1, <5>1 DEF OnChain, CheckpointBlock, RootedTree, BlockTree, RootOrNone
      <4> QED
        BY <4>1, <4>2, AncestorTwice DEF CheckpointBlock
    <3> QED
      BY <2>12, <3>2, <3>3, <3>4 DEF Bridged
  <2>13. ASSUME NEW c \in {oldPrev, oldCurr}, NEW e \in Nat, Link(cast, c, chain(e)),
                chain(e) \in Checkpoint,
                \/ c.epoch + 1 = e
                \/ c.epoch + 2 = e /\ Justified(cast, chain(e - 1))
         PROVE  Finalized(cast, store, c)
    <3>1. chain(e).epoch = e
      BY DEF OnChain
    <3>2. CASE c = Genesis
      BY <3>2 DEF Finalized
    <3>3. CASE c # Genesis
      <4>1. c \in Checkpoint /\ c.epoch \in Nat /\ Justified(cast, c)
        BY <1>2, <2>5
      <4>2. CASE c.epoch + 1 = e
        BY <2>13, <3>1, <3>3, <4>1, <4>2 DEF Finalized
      <4>3. CASE c.epoch + 2 = e /\ Justified(cast, chain(e - 1))
        <5>1. e - 1 \in Nat /\ c.epoch + 1 = e - 1
          BY <4>1, <4>3
        <5>2. Bridged(cast, store, c)
          BY <2>12, <3>3, <4>3, <5>1, OnChainType
        <5>3. chain(e).epoch = c.epoch + 2
          BY <3>1, <4>3
        <5> QED
          BY <2>13, <3>3, <4>1, <5>2, <5>3 DEF Finalized
      <4> QED
        BY <2>13, <4>2, <4>3
    <3> QED
      BY <3>2, <3>3
  <2>14. Finalized(cast, store, final)
    <3>1. \/ {0, 1} \subseteq bits /\ oldCurr.epoch + 1 = epoch /\ final = oldCurr
          \/ {0, 1, 2} \subseteq bits /\ oldCurr.epoch + 2 = epoch /\ final = oldCurr
          \/ {1, 2} \subseteq bits /\ oldPrev.epoch + 2 = epoch /\ final = oldPrev
          \/ {1, 2, 3} \subseteq bits /\ oldPrev.epoch + 3 = epoch /\ final = oldPrev
          \/ final = state.finalized
      BY DEF FinalizedBy
    <3> HIDE DEF final, oldPrev, oldCurr, chain
    <3>2. CASE {0, 1} \subseteq bits /\ oldCurr.epoch + 1 = epoch /\ final = oldCurr
      BY <3>2, <1>1, <2>6, <2>7, <2>13
    <3>3. CASE {0, 1, 2} \subseteq bits /\ oldCurr.epoch + 2 = epoch /\ final = oldCurr
      BY <3>3, <1>1, <2>6, <2>7, <2>9, <2>13
    <3>4. CASE {1, 2} \subseteq bits /\ oldPrev.epoch + 2 = epoch /\ final = oldPrev
      <4>1. oldPrev.epoch + 1 = epoch - 1
        BY <1>1, <1>2, <3>4
      <4> QED
        BY <3>4, <4>1, <2>6, <2>8, <2>13
    <3>5. CASE {1, 2, 3} \subseteq bits /\ oldPrev.epoch + 3 = epoch /\ final = oldPrev
      <4>1. oldPrev.epoch + 2 = epoch - 1 /\ (epoch - 1) - 1 = epoch - 2
        BY <1>1, <1>2, <3>5
      <4>2. Justified(cast, chain((epoch - 1) - 1))
        BY <2>10, <3>5, <4>1
      <4> QED
        BY <3>5, <4>1, <4>2, <2>6, <2>8, <2>13
    <3>6. CASE final = state.finalized
      BY <3>6 DEF VotedFor
    <3> QED
      BY <3>1, <3>2, <3>3, <3>4, <3>5, <3>6
  <2> HIDE DEF final
  <2>15. /\ pulledUp.previousJustified = state.currentJustified
         /\ pulledUp.currentJustified = justified
         /\ pulledUp.justificationBits = bits
         /\ pulledUp.finalized = final
    BY <2>2 DEF BeaconState
  <2> HIDE DEF pulledUp
  <2> QED
    BY <2>1, <2>7, <2>9, <2>11, <2>14, <2>15 DEF pulledUp, epoch
<1> QED
  BY <1>4, <1>5

\* What the rule reads is all that counts.
LEMMA VotedForSameRule ==
  ASSUME NEW a, NEW b, SameRule(a, b), NEW epoch, NEW store, NEW tip, NEW cast,
         VotedFor(b, epoch, store, tip, cast)
  PROVE  VotedFor(a, epoch, store, tip, cast)
  BY DEF VotedFor, SameRule

\* One slot, and at the end of an epoch the rule, keeps to the votes.
LEMMA AdvanceByVotes ==
  ASSUME NEW store, RootedTree(store), AnchorSlot = 0, NEW tip \in DOMAIN store,
         NEW cached, NEW state, Sound(state, store, tip, cached),
         NEW cast, VotedFor(state, EpochOf(state.slot), store, tip, cast)
  PROVE  LET next == Advance(state, state.slot + 1)
         IN VotedFor(next, EpochOf(next.slot), store, tip, cast)
<1> DEFINE slot == state.slot + 1
           processed == ProcessSlot(state)
           next == Advance(state, slot)
           epoch == EpochOf(state.slot)
<1>1. /\ state \in BeaconState /\ state.slot \in Nat /\ slot \in Nat /\ epoch \in Nat
  BY SlotInEpoch DEF Sound, BeaconState
<1>2. /\ processed \in BeaconState
      /\ processed.slot = state.slot
      /\ SameRule(processed, state)
      /\ History(processed, store, tip, slot)
      /\ CheckpointRules(processed, store, tip, Previous(epoch))
      /\ VoteRules(processed, store, tip, cached)
      /\ JustifiedCached(processed, cached)
  BY ProcessSlotSound
<1>3. EpochOf(slot) = IF StartsEpoch(slot) THEN epoch + 1 ELSE epoch
  BY <1>1, NextSlotEpoch
<1>4. VotedFor(processed, epoch, store, tip, cast)
  BY <1>2, VotedForSameRule
<1> HIDE DEF processed
<1>5. CASE ~StartsEpoch(slot)
  <2>1. next = [processed EXCEPT !.slot = slot]
    BY <1>5 DEF Advance, processed
  <2> HIDE DEF slot, next
  <2>2. next.slot = slot /\ SameRule(next, processed)
    BY <1>2, <2>1 DEF BeaconState, SameRule
  <2>3. VotedFor(next, epoch, store, tip, cast)
    BY <1>4, <2>2, VotedForSameRule
  <2> QED
    BY <1>3, <1>5, <2>2, <2>3 DEF next, slot
<1>6. CASE StartsEpoch(slot)
  <2> DEFINE pulledUp == ProcessJustificationAndFinalization(processed)
  <2>1. /\ pulledUp \in BeaconState
        /\ pulledUp.previousJustified = processed.currentJustified
        /\ pulledUp.currentParticipation = processed.currentParticipation
        /\ Justified(cast, pulledUp.currentJustified)
        /\ Finalized(cast, store, pulledUp.finalized)
        /\ 0 \in pulledUp.justificationBits =>
             epoch > 1 /\ Link(cast, processed.currentJustified, OnChain(epoch, store, tip))
        /\ 1 \in pulledUp.justificationBits =>
             epoch > 1 /\ Justified(cast, OnChain(epoch - 1, store, tip))
    <3>1. processed.slot <= slot /\ EpochOf(processed.slot) = epoch
      BY <1>1, <1>2
    <3> HIDE DEF slot, epoch
    <3> QED
      BY <1>1, <1>2, <1>4, <3>1, JustificationSound, JustificationByVotes
  <2>2. next = [pulledUp EXCEPT !.previousParticipation = pulledUp.currentParticipation,
                                !.currentParticipation = {}, !.slot = slot]
    BY <1>6, <2>1 DEF Advance, ProcessEpoch, RotateParticipation, processed, BeaconState
  <2> HIDE DEF slot, next, pulledUp
  <2>3. /\ next.slot = slot
        /\ next.previousParticipation = processed.currentParticipation
        /\ next.currentParticipation = {}
        /\ next.justificationBits = pulledUp.justificationBits
        /\ next.previousJustified = processed.currentJustified
        /\ next.currentJustified = pulledUp.currentJustified
        /\ next.finalized = pulledUp.finalized
    BY <2>1, <2>2 DEF BeaconState
  <2>4. /\ EpochOf(next.slot) = epoch + 1 /\ Previous(epoch + 1) = epoch
        /\ (epoch + 1) - 1 = epoch /\ (epoch + 1) - 2 = epoch - 1
        /\ epoch > 1 => epoch + 1 > 1 /\ epoch + 1 > 2
    BY <1>1, <1>3, <1>6, <2>3, PreviousEpoch
  <2>5. processed.currentJustified.epoch <= Previous(Previous(epoch + 1))
    BY <1>2, <2>4 DEF CheckpointRules
  <2>6. /\ Justified(cast, processed.currentJustified)
        /\ processed.currentParticipation
             \subseteq Votes(cast, processed.currentJustified, OnChain(epoch, store, tip))
    BY <1>4 DEF VotedFor
  <2> HIDE DEF epoch
  <2>7. VotedFor(next, epoch + 1, store, tip, cast)
    BY <2>1, <2>3, <2>4, <2>5, <2>6 DEF VotedFor
  <2> QED
    BY <2>4, <2>7 DEF next, slot
<1> QED
  BY <1>5, <1>6

\* So does process_slots.
LEMMA ProcessSlotsByVotes ==
  ASSUME NEW store, RootedTree(store), AnchorSlot = 0, NEW tip \in DOMAIN store,
         NEW cached, NEW base, Sound(base, store, tip, cached),
         NEW target \in Nat, base.slot < target,
         NEW cast, VotedFor(base, EpochOf(base.slot), store, tip, cast)
  PROVE  VotedFor(ProcessSlots(base, target), EpochOf(target), store, tip, cast)
<1> DEFINE W == {z \in BeaconState : VotedFor(z, EpochOf(z.slot), store, tip, cast)}
<1>1. base \in W
  BY DEF Sound
<1>2. ASSUME NEW z \in W, Sound(z, store, tip, cached) PROVE Advance(z, z.slot + 1) \in W
  <2>1. /\ VotedFor(z, EpochOf(z.slot), store, tip, cast)
        /\ z \in BeaconState /\ ProcessJustificationAndFinalization(z) \in BeaconState
    <3>1. z \in BeaconState /\ z.slot \in Nat /\ z.slot <= z.slot
      BY DEF BeaconState
    <3> QED
      BY <1>2, <3>1, JustificationSound DEF Sound
  <2>2. Sound(Advance(z, z.slot + 1), store, tip, cached)
    <3>1. Since(z, z)
      BY <2>1 DEF Since, SameRule, BeaconState
    <3> QED
      BY <1>2, <2>1, <3>1, AdvanceSound
  <2>3. VotedFor(Advance(z, z.slot + 1), EpochOf(Advance(z, z.slot + 1).slot), store, tip, cast)
    BY <1>2, <2>1, AdvanceByVotes
  <2> QED
    BY <2>2, <2>3 DEF Sound
<1> HIDE DEF W
<1>3. ProcessSlots(base, target) \in W /\ ProcessSlots(base, target).slot = target
  BY <1>1, <1>2, ProcessSlotsStaysIn
<1> QED
  BY <1>3 DEF W

\* A new tip at the state's slot changes none of the checkpoints it counts for.
LEMMA NewTipByVotes ==
  ASSUME NEW store, RootedTree(store), AnchorSlot = 0,
         NEW root \in Root \ DOMAIN store, NEW block, block.parent \in DOMAIN store,
         RootedTree(Put(store, root, block)),
         NEW cached, NEW state, Sound(state, store, block.parent, cached),
         state.slot = block.slot,
         NEW cast, FairVotes(cast, store),
         VotedFor(state, EpochOf(state.slot), store, block.parent, cast)
  PROVE  VotedFor([state EXCEPT !.latestRoot = root], EpochOf(state.slot),
                  Put(store, root, block), root, cast)
<1> DEFINE after == Put(store, root, block)
           parent == block.parent
           inserted == [state EXCEPT !.latestRoot = root]
           epoch == EpochOf(state.slot)
<1>1. /\ state \in BeaconState /\ state.slot \in Nat /\ epoch \in Nat
      /\ Previous(epoch) \in Nat
  BY SlotInEpoch, PreviousEpoch DEF Sound, BeaconState
<1>2. \A slot \in Nat : slot < state.slot =>
        Ancestor(after, root, slot) = Ancestor(store, parent, slot)
  BY <1>1, WalkFromNewTip
<1>3. \A e \in Nat : StartSlot(e) < state.slot =>
        OnChain(e, after, root) = OnChain(e, store, parent)
  <2> TAKE e \in Nat
  <2>1. StartSlot(e) \in Nat
    BY EpochsApart
  <2> QED
    BY <1>2, <2>1 DEF OnChain, CheckpointBlock
<1>4. SameRule(inserted, state)
  BY <1>1 DEF BeaconState, SameRule
<1>5. \A c : Finalized(cast, store, c) => Finalized(cast, after, c)
  BY FinalizedInLargerTree
<1> HIDE DEF inserted, after
<1>6. ASSUME NEW e \in Nat, e < epoch PROVE StartSlot(e) < state.slot
  <2>1. /\ StartSlot(e) \in Nat /\ StartSlot(epoch) \in Nat
        /\ StartSlot(e) + SlotsPerEpoch <= StartSlot(epoch)
    BY <1>1, <1>6, EpochsApart
  <2>2. StartSlot(epoch) <= state.slot
    BY <1>1, SlotInEpoch
  <2> HIDE DEF epoch
  <2> QED
    BY <1>1, <2>1, <2>2, SlotsPerEpochAssumption
<1>7. state.currentParticipation
        \subseteq Votes(cast, state.currentJustified, OnChain(epoch, after, root))
  <2>1. state.currentParticipation # {} => StartSlot(epoch) < state.slot
    BY DEF Sound, VoteRules, Counted
  <2> QED
    BY <1>1, <1>3, <2>1 DEF VotedFor
<1>8. state.previousParticipation
        \subseteq Votes(cast, state.previousJustified, OnChain(Previous(epoch), after, root))
  <2>1. state.previousParticipation # {} => StartSlot(Previous(epoch)) < state.slot
    BY DEF Sound, VoteRules, Counted
  <2> QED
    BY <1>1, <1>3, <2>1 DEF VotedFor
<1>9. 0 \in state.justificationBits =>
        epoch > 1 /\ Link(cast, state.previousJustified, OnChain(epoch - 1, after, root))
  <2> SUFFICES ASSUME 0 \in state.justificationBits
               PROVE  /\ epoch > 1
                      /\ Link(cast, state.previousJustified, OnChain(epoch - 1, after, root))
    OBVIOUS
  <2>1. epoch > 1 /\ Link(cast, state.previousJustified, OnChain(epoch - 1, store, parent))
    BY DEF VotedFor
  <2>2. epoch - 1 \in Nat /\ epoch - 1 < epoch
    BY <1>1, <2>1
  <2> HIDE DEF epoch
  <2>3. OnChain(epoch - 1, after, root) = OnChain(epoch - 1, store, parent)
    BY <1>3, <1>6, <2>2
  <2> QED
    BY <2>1, <2>3
<1>10. 1 \in state.justificationBits =>
         epoch > 2 /\ Justified(cast, OnChain(epoch - 2, after, root))
  <2> SUFFICES ASSUME 1 \in state.justificationBits
               PROVE  epoch > 2 /\ Justified(cast, OnChain(epoch - 2, after, root))
    OBVIOUS
  <2>1. epoch > 2 /\ Justified(cast, OnChain(epoch - 2, store, parent))
    BY DEF VotedFor
  <2>2. epoch - 2 \in Nat /\ epoch - 2 < epoch
    BY <1>1, <2>1
  <2> HIDE DEF epoch
  <2>3. OnChain(epoch - 2, after, root) = OnChain(epoch - 2, store, parent)
    BY <1>3, <1>6, <2>2
  <2> QED
    BY <2>1, <2>3
<1>11. /\ Justified(cast, state.previousJustified)
       /\ Justified(cast, state.currentJustified)
       /\ Finalized(cast, after, state.finalized)
       /\ state.previousJustified.epoch <= Previous(Previous(epoch))
  BY <1>5 DEF VotedFor
<1>12. VotedFor(state, epoch, after, root, cast)
  BY <1>7, <1>8, <1>9, <1>10, <1>11 DEF VotedFor
<1> QED
  BY <1>4, <1>12, VotedForSameRule DEF inserted, after

\* A vote in a block that has the target of its chain is one of that chain, from
\* the checkpoint the state has justified at the start of the vote's epoch.
LEMMA InclusionsOfChain ==
  ASSUME NEW store, RootedTree(store), AnchorSlot = 0, NEW tip \in DOMAIN store,
         NEW cached, NEW state, Sound(state, store, tip, cached),
         state.previousJustified.epoch <= Previous(Previous(EpochOf(state.slot))),
         NEW att \in Inclusions(state), att.target = TargetOf(state, att.target.epoch)
  PROVE  /\ VoteOfChain(att, store)
         /\ att.source = IF att.target.epoch = EpochOf(state.slot)
                         THEN state.currentJustified ELSE state.previousJustified
<1> DEFINE epoch == EpochOf(state.slot)
           e == att.target.epoch
           source == att.source
<1>1. /\ state \in BeaconState /\ state.slot \in Nat /\ epoch \in Nat
      /\ Previous(epoch) \in Nat /\ Previous(Previous(epoch)) \in Nat
      /\ epoch > 0 => Previous(epoch) = epoch - 1
      /\ Previous(epoch) > 0 => Previous(Previous(epoch)) = Previous(epoch) - 1
      /\ Previous(0) = 0
  BY SlotInEpoch, PreviousEpoch DEF Sound, BeaconState, Previous
<1>2. /\ att.slot \in Nat /\ att.attesters \in BodyAttesters
      /\ e = EpochOf(att.slot)
      /\ e \in {epoch, Previous(epoch)}
      /\ StartSlot(e) < state.slot
      /\ source = IF e = epoch THEN state.currentJustified ELSE state.previousJustified
  BY InclusionsInTime
<1>3. att.target = OnChain(e, store, tip)
  <2>1. History(state, store, tip, state.slot)
    BY DEF Sound
  <2>2. e \in Nat
    BY <1>1, <1>2
  <2>3. TargetOf(state, e) = OnChain(e, store, tip)
    BY <1>1, <1>2, <2>1, <2>2, TargetIsOnChain
  <2> QED
    BY <2>3
<1>4. /\ source \in Checkpoint /\ source.epoch \in Nat /\ Chained(source, store, tip)
      /\ e \in Nat
  BY <1>1, <1>2 DEF Sound, CheckpointRules, BeaconState, Checkpoint
<1>5. source.epoch <= Previous(e)
  BY <1>2 DEF Sound, CheckpointRules
<1>6. (e > 0 => source.epoch < e) /\ (e = 0 => source.epoch = 0)
  <2>1. Previous(e) = IF e = 0 THEN 0 ELSE e - 1
    BY DEF Previous
  <2> HIDE DEF e, source
  <2> QED
    BY <1>4, <1>5, <2>1
<1>7. /\ CheckpointBlock(store, tip, e) \in DOMAIN store
      /\ store[CheckpointBlock(store, tip, e)].slot <= StartSlot(e)
      /\ OnChain(e, store, tip) \in Checkpoint
  <2>1. StartSlot(e) \in Nat /\ StartSlot(e) >= 0
    <3>1. e < e + 1 /\ e + 1 \in Nat
      BY <1>4
    <3> HIDE DEF e
    <3>2. StartSlot(e) \in Nat
      BY <1>4, <3>1, EpochsApart
    <3> QED
      BY <3>2
  <2> HIDE DEF e
  <2> QED
    BY <1>4, <2>1, WalkFound, OnChainType DEF CheckpointBlock
<1>8. att.target.root = CheckpointBlock(store, tip, e)
  BY <1>3 DEF OnChain
<1>9. Chained(source, store, att.target.root)
  <2>1. CASE source = Genesis
    BY <2>1 DEF Chained
  <2>2. CASE source # Genesis
    <3>1. source.epoch \in Nat \ {0} /\ source = OnChain(source.epoch, store, tip)
      BY <1>4, <2>2 DEF Chained
    <3>2. source.epoch < e
      BY <1>4, <1>6, <3>1
    <3>3. /\ StartSlot(e) \in Nat /\ StartSlot(source.epoch) \in Nat
          /\ StartSlot(source.epoch) <= StartSlot(e)
      BY <1>4, <3>2, EpochsApart, SlotsPerEpochAssumption
    <3>4. tip \in RootOrNone /\ BlockTree(store)
      BY DEF RootedTree, BlockTree, RootOrNone
    <3>5. Ancestor(store, att.target.root, StartSlot(source.epoch))
            = Ancestor(store, tip, StartSlot(source.epoch))
      BY <1>7, <1>8, <3>3, <3>4, AncestorTwice DEF CheckpointBlock
    <3> QED
      BY <3>1, <3>5 DEF Chained, OnChain, CheckpointBlock
  <2> QED
    BY <2>1, <2>2
<1>10. att.attesters \in SUBSET Validator
  BY <1>2, BoundsAssumption
<1>11. att.target \in Checkpoint
  BY <1>3, <1>7
<1> QED
  BY <1>2, <1>4, <1>6, <1>7, <1>8, <1>9, <1>10, <1>11 DEF VoteOfChain

\* Counting a vote that is among those cast.
LEMMA ProcessAttestationByVotes ==
  ASSUME NEW store, RootedTree(store), AnchorSlot = 0, NEW tip \in DOMAIN store,
         NEW cached, NEW state, Sound(state, store, tip, cached),
         NEW cast, VotedFor(state, EpochOf(state.slot), store, tip, cast),
         NEW att \in cast, att.attesters \in SUBSET Validator,
         att.target.epoch \in {EpochOf(state.slot), Previous(EpochOf(state.slot))},
         StartSlot(att.target.epoch) < state.slot,
         att.source = IF att.target.epoch = EpochOf(state.slot)
                      THEN state.currentJustified ELSE state.previousJustified
  PROVE  VotedFor(ProcessAttestation(state, att), EpochOf(state.slot), store, tip, cast)
<1> DEFINE epoch == EpochOf(state.slot)
           target == att.target
           result == ProcessAttestation(state, att)
<1>1. /\ state \in BeaconState /\ state.slot \in Nat /\ epoch \in Nat
      /\ Previous(epoch) \in Nat
      /\ History(state, store, tip, state.slot)
  BY SlotInEpoch, PreviousEpoch DEF Sound, BeaconState
<1>2. CASE target # TargetOf(state, target.epoch)
  BY <1>2 DEF ProcessAttestation
<1>3. CASE target = TargetOf(state, target.epoch)
  <2>1. target = OnChain(target.epoch, store, tip)
    BY <1>1, <1>3, TargetIsOnChain
  <2>2. att.attesters \subseteq Votes(cast, att.source, OnChain(target.epoch, store, tip))
    BY <2>1 DEF Votes
  <2>3. CASE target.epoch = epoch
    <3>1. result = [state EXCEPT !.currentParticipation = @ \cup att.attesters]
      BY <1>3, <2>3 DEF ProcessAttestation
    <3>2. att.attesters \subseteq Votes(cast, state.currentJustified, OnChain(epoch, store, tip))
      BY <2>2, <2>3
    <3> HIDE DEF result, epoch, target
    <3>3. /\ result.previousJustified = state.previousJustified
          /\ result.currentJustified = state.currentJustified
          /\ result.finalized = state.finalized
          /\ result.justificationBits = state.justificationBits
          /\ result.previousParticipation = state.previousParticipation
          /\ result.currentParticipation = state.currentParticipation \cup att.attesters
      BY <1>1, <3>1 DEF BeaconState
    <3> QED
      BY <3>2, <3>3 DEF VotedFor, result, epoch
  <2>4. CASE target.epoch # epoch
    <3>1. result = [state EXCEPT !.previousParticipation = @ \cup att.attesters]
      BY <1>3, <2>4 DEF ProcessAttestation
    <3>2. att.attesters
            \subseteq Votes(cast, state.previousJustified, OnChain(Previous(epoch), store, tip))
      BY <2>2, <2>4
    <3> HIDE DEF result, epoch, target
    <3>3. /\ result.previousJustified = state.previousJustified
          /\ result.currentJustified = state.currentJustified
          /\ result.finalized = state.finalized
          /\ result.justificationBits = state.justificationBits
          /\ result.previousParticipation = state.previousParticipation \cup att.attesters
          /\ result.currentParticipation = state.currentParticipation
      BY <1>1, <3>1 DEF BeaconState
    <3> QED
      BY <3>2, <3>3 DEF VotedFor, result, epoch
  <2> QED
    BY <2>3, <2>4
<1> QED
  BY <1>2, <1>3

\* More votes do no harm.
LEMMA VotedForWithMore ==
  ASSUME NEW state, NEW epoch, NEW store, NEW tip, NEW cast, NEW more, cast \subseteq more,
         VotedFor(state, epoch, store, tip, cast)
  PROVE  VotedFor(state, epoch, store, tip, more)
<1>1. /\ \A s, t : Votes(cast, s, t) \subseteq Votes(more, s, t)
      /\ \A s, t : Link(cast, s, t) => Link(more, s, t)
      /\ \A c : Justified(cast, c) => Justified(more, c)
      /\ \A c : Finalized(cast, store, c) => Finalized(more, store, c)
  BY JustifiedWithMore
<1>2. /\ Justified(cast, state.previousJustified)
      /\ Justified(cast, state.currentJustified)
      /\ Finalized(cast, store, state.finalized)
      /\ state.previousJustified.epoch <= Previous(Previous(epoch))
  BY DEF VotedFor
<1>3. /\ state.currentParticipation
           \subseteq Votes(more, state.currentJustified, OnChain(epoch, store, tip))
      /\ state.previousParticipation
           \subseteq Votes(more, state.previousJustified, OnChain(Previous(epoch), store, tip))
  BY <1>1 DEF VotedFor
<1>4. /\ 0 \in state.justificationBits =>
           epoch > 1 /\ Link(more, state.previousJustified, OnChain(epoch - 1, store, tip))
      /\ 1 \in state.justificationBits =>
           epoch > 2 /\ Justified(more, OnChain(epoch - 2, store, tip))
  BY <1>1 DEF VotedFor
<1> QED
  BY <1>1, <1>2, <1>3, <1>4 DEF VotedFor

\* A block of a new vote keeps its post-state to the votes counted, of which there
\* are only more.
LEMMA ProcessBlockByVotes ==
  ASSUME AnchorSlot = 0, RootedTree(blocks), NoneSlashable(CastVotes),
         NEW root \in Root \ DOMAIN blocks, NEW block, block.parent \in DOMAIN blocks,
         RootedTree(Put(blocks, root, block)),
         NEW cached, NEW state, Sound(state, blocks, block.parent, cached),
         state.slot = block.slot,
         VotedFor(state, EpochOf(state.slot), blocks, block.parent, CountedVotes),
         NEW body \in Bodies(state)
  PROVE  LET cast == CastVotes \cup Range(body)
             more == OfChains(cast, Put(blocks, root, block))
         IN /\ NoneSlashable(cast) /\ CountedVotes \subseteq more
            /\ VotedFor(ProcessBlock(state, root, body), EpochOf(state.slot),
                        Put(blocks, root, block), root, more)
<1> DEFINE after == Put(blocks, root, block)
           inserted == [state EXCEPT !.latestRoot = root]
           cast == CastVotes \cup Range(body)
           more == OfChains(cast, after)
           epoch == EpochOf(state.slot)
<1>1. /\ Sound(inserted, after, root, cached)
      /\ SameCheckpoints(inserted, state)
  BY NewTipSound
<1>2. FairVotes(CountedVotes, blocks)
  BY ChainVotesFair DEF CountedVotes
<1>3. \A att : VoteOfChain(att, blocks) => VoteOfChain(att, after)
  BY <1>2, FinalizedInLargerTree
<1>4. CountedVotes \subseteq more
  BY <1>3 DEF CountedVotes, OfChains
<1>5. VotedFor(inserted, epoch, after, root, more)
  <2>1. VotedFor(inserted, epoch, after, root, CountedVotes)
    BY <1>2, NewTipByVotes
  <2> HIDE DEF inserted, after, more, epoch
  <2> QED
    BY <1>4, <2>1, VotedForWithMore
<1>6. root \in DOMAIN after
  BY DEF Put
<1>7. CASE body = <<>>
  <2>1. Range(body) = {}
    BY <1>7 DEF Range
  <2>2. cast = CastVotes /\ ProcessBlock(state, root, body) = inserted
    BY <1>7, <2>1, ProcessBlockUnfolds
  <2> QED
    BY <1>4, <1>5, <2>2
<1>8. CASE body # <<>>
  <2>1. PICK att \in Inclusions(state) : body = <<att>>
    BY <1>8 DEF Bodies
  <2>2. Range(body) = {att}
    BY <2>1 DEF Range
  <2>3. /\ att.attesters \in BodyAttesters /\ att.target \in Checkpoint
        /\ att.target.epoch \in {epoch, Previous(epoch)}
        /\ StartSlot(att.target.epoch) < state.slot
        /\ att.source = IF att.target.epoch = epoch
                        THEN state.currentJustified ELSE state.previousJustified
        /\ Honest(att)
    BY InclusionsInTime
  <2>4. att.attesters \in SUBSET Validator
    BY <2>3, BoundsAssumption
  <2>5. NoneSlashable(cast)
    <3>1. NotSlashable(att, att)
      <4>1. att.target.epoch \in Nat
        BY <2>3 DEF Checkpoint
      <4>2. ~(att.source.epoch < att.source.epoch /\ att.target.epoch < att.target.epoch)
        BY <4>1
      <4> QED
        BY <4>2 DEF NotSlashable, IsSlashableAttestationData
    <3>2. \A other \in CastVotes : NotSlashable(att, other) /\ NotSlashable(other, att)
      BY <2>3 DEF Honest, NotSlashable
    <3> QED
      BY <2>2, <3>1, <3>2 DEF NoneSlashable
  <2>6. /\ inserted.slot = state.slot
        /\ inserted.currentJustified = state.currentJustified
        /\ inserted.previousJustified = state.previousJustified
    BY <1>1 DEF SameCheckpoints
  <2>7. TargetOf(inserted, att.target.epoch) = TargetOf(state, att.target.epoch)
    BY DEF TargetOf, BlockRoot, Sound, BeaconState
  <2>8. ProcessBlock(state, root, body) = ProcessAttestation(inserted, att)
    BY <2>1, ProcessBlockUnfolds
  <2>9. CASE att.target # TargetOf(state, att.target.epoch)
    BY <1>4, <1>5, <2>5, <2>7, <2>8, <2>9 DEF ProcessAttestation
  <2>10. CASE att.target = TargetOf(state, att.target.epoch)
    <3>1. state.previousJustified.epoch <= Previous(Previous(EpochOf(state.slot)))
      BY DEF VotedFor
    <3>2. VoteOfChain(att, blocks)
      BY <2>10, <3>1, InclusionsOfChain
    <3>3. att \in more
      BY <1>3, <2>2, <3>2 DEF OfChains
    <3> HIDE DEF inserted, more, after
    <3>4. /\ VotedFor(inserted, EpochOf(inserted.slot), after, root, more)
          /\ att.target.epoch \in {EpochOf(inserted.slot), Previous(EpochOf(inserted.slot))}
          /\ StartSlot(att.target.epoch) < inserted.slot
          /\ att.source = IF att.target.epoch = EpochOf(inserted.slot)
                          THEN inserted.currentJustified ELSE inserted.previousJustified
      BY <1>5, <2>3, <2>6
    <3>5. RootedTree(after)
      BY DEF after
    <3>6. VotedFor(ProcessAttestation(inserted, att), EpochOf(inserted.slot), after, root, more)
      BY <1>1, <1>6, <2>4, <3>3, <3>4, <3>5, ProcessAttestationByVotes
    <3> QED
      BY <1>4, <2>5, <2>6, <2>8, <3>6 DEF more, after
  <2> QED
    BY <2>9, <2>10
<1> QED
  BY <1>7, <1>8

-----------------------------------------------------------------------------
(* The invariant: all there is of justification follows from votes.         *)

AnchorCheckpoint == [epoch |-> EpochOf(AnchorSlot), root |-> AnchorRoot]

HeldJustified(c, cast) == c = AnchorCheckpoint \/ (c # Genesis /\ Justified(cast, c))

HeldFinalized(c, cast, store) ==
  c = AnchorCheckpoint \/ (c # Genesis /\ Finalized(cast, store, c))

StatesByVotes ==
  \A r \in DOMAIN blocks :
    VotedFor(beaconStates[r], EpochOf(beaconStates[r].slot), blocks, r, CountedVotes)

StoreByVotes ==
  /\ HeldJustified(justifiedCheckpoint, CountedVotes)
  /\ HeldJustified(unrealizedJustifiedCheckpoint, CountedVotes)
  /\ HeldFinalized(finalizedCheckpoint, CountedVotes, blocks)
  /\ HeldFinalized(unrealizedFinalizedCheckpoint, CountedVotes, blocks)

VoteInv == NoneSlashable(CastVotes) /\ StatesByVotes /\ StoreByVotes

\* So the votes counted are fair.
LEMMA CountedFair ==
  ASSUME VoteInv
  PROVE  FairVotes(CountedVotes, blocks)
  BY ChainVotesFair DEF VoteInv, CountedVotes

\* The later of two such checkpoints is such a checkpoint.
LEMMA LaterByVotes ==
  ASSUME NEW held \in Checkpoint, NEW seen \in Checkpoint, NEW cast, NEW store
  PROVE  /\ HeldJustified(held, cast) /\ Justified(cast, seen)
              => HeldJustified(Later(held, seen), cast)
         /\ HeldFinalized(held, cast, store) /\ Finalized(cast, store, seen)
              => HeldFinalized(Later(held, seen), cast, store)
<1>1. seen = Genesis => Later(held, seen) = held
  BY DEF Genesis, Later, Checkpoint
<1>2. Later(held, seen) \in {held, seen}
  BY DEF Later
<1> QED
  BY <1>1, <1>2 DEF HeldJustified, HeldFinalized

\* A step without a new block casts no vote.
LEMMA NoNewVote ==
  ASSUME VoteInv, UNCHANGED <<blocks, beaconStates, bodies,
                              unrealizedJustifiedCheckpoint, unrealizedFinalizedCheckpoint>>,
         justifiedCheckpoint' \in {justifiedCheckpoint, unrealizedJustifiedCheckpoint},
         finalizedCheckpoint' \in {finalizedCheckpoint, unrealizedFinalizedCheckpoint}
  PROVE  VoteInv' /\ HeldFinalized(finalizedCheckpoint, CountedVotes', blocks')
<1>1. CastVotes' = CastVotes /\ CountedVotes' = CountedVotes /\ blocks' = blocks
  BY DEF CastVotes, CountedVotes
<1>2. StatesByVotes'
  BY <1>1 DEF VoteInv, StatesByVotes
<1>3. StoreByVotes'
  BY <1>1 DEF VoteInv, StoreByVotes
<1>4. NoneSlashable(CastVotes)'
  BY <1>1 DEF VoteInv
<1>5. HeldFinalized(finalizedCheckpoint, CountedVotes', blocks')
  BY <1>1 DEF VoteInv, StoreByVotes
<1> QED
  BY <1>2, <1>3, <1>4, <1>5 DEF VoteInv

\* A step with one: what its votes justify and finalize follows from them.
LEMMA NewBlockByVotes ==
  ASSUME AnchorSlot = 0, StoreInv, ReplayInv, VoteInv,
         NEW root \in FreshRoots, NEW parent \in DOMAIN blocks, NEW slot \in BlockSlots,
         DeliverBlock(root, parent, slot)
  PROVE  VoteInv' /\ HeldFinalized(finalizedCheckpoint, CountedVotes', blocks')
<1> DEFINE block == [parent |-> parent, slot |-> slot]
           base == beaconStates[parent]
           advanced == ProcessSlots(base, slot)
           after == Put(blocks, root, block)
<1>1. PICK body \in Bodies(advanced) :
        /\ OnBlock(root, block, Summary(ProcessBlock(advanced, root, body)))
        /\ beaconStates' = Put(beaconStates, root, ProcessBlock(advanced, root, body))
        /\ bodies' = Put(bodies, root, body)
  BY DEF DeliverBlock
<1> DEFINE state == ProcessBlock(advanced, root, body)
           pulledUp == ProcessJustificationAndFinalization(state)
           post == Summary(state)
           cached == Cached \cup Targets(body)
           cast == CastVotes \cup Range(body)
           more == OfChains(cast, after)
           epoch == EpochOf(slot)
<1>2. /\ TypeOK /\ AnchoredTree /\ StatesSound /\ RootedTree(blocks)
      /\ root \in Root /\ block \in Block /\ block.parent = parent /\ block.slot = slot
      /\ slot \in Slot /\ slot \in Nat
      /\ BlockAdmissible(root, block)
      /\ NoneSlashable(CastVotes) /\ FairVotes(CountedVotes, blocks)
      /\ VotedFor(base, EpochOf(base.slot), blocks, parent, CountedVotes)
  BY BlockInput, SlotsAreNat, CountedFair
  DEF DeliverBlock, FreshRoots, StoreInv, ReplayInv, AnchoredTree, VoteInv, StatesByVotes
<1>3. body \in Bodies(ProcessSlots(beaconStates[block.parent], block.slot))
  OBVIOUS
<1>4. /\ RootedTree(after)
      /\ root \in Root \ DOMAIN blocks
      /\ Sound(base, blocks, parent, Cached)
      /\ base.slot = blocks[parent].slot
      /\ Sound(advanced, blocks, parent, Cached)
      /\ advanced.slot = slot
      /\ Sound(state, after, root, cached)
      /\ SameCheckpoints(state, advanced)
  <2> HIDE DEF block
  <2> QED
    BY <1>2, <1>3, DeliveredBlock
<1>5. base.slot < slot
  BY <1>2, <1>4 DEF BlockAdmissible
<1> HIDE DEF base
<1>6. VotedFor(advanced, epoch, blocks, parent, CountedVotes)
  BY <1>2, <1>4, <1>5, ProcessSlotsByVotes
<1>7. /\ NoneSlashable(cast) /\ CountedVotes \subseteq more
      /\ VotedFor(state, epoch, after, root, more)
  <2> HIDE DEF block, advanced
  <2>1. /\ Sound(advanced, blocks, block.parent, Cached)
        /\ advanced.slot = block.slot
        /\ block.parent \in DOMAIN blocks
        /\ VotedFor(advanced, EpochOf(advanced.slot), blocks, block.parent, CountedVotes)
    BY <1>2, <1>4, <1>6
  <2>2. /\ NoneSlashable(cast) /\ CountedVotes \subseteq more
        /\ VotedFor(ProcessBlock(advanced, root, body), EpochOf(advanced.slot),
                    after, root, more)
    BY <1>2, <1>4, <2>1, ProcessBlockByVotes
  <2> QED
    BY <1>4, <2>2
<1>8. blocks' = after
  BY <1>1 DEF OnBlock, InsertBlock
<1>9. CastVotes' = cast /\ CountedVotes' = more
  <2>1. DOMAIN bodies = DOMAIN blocks
    BY DEF ReplayInv, BodiesDue
  <2>2. /\ DOMAIN bodies' = DOMAIN bodies \cup {root}
        /\ bodies'[root] = body
        /\ \A r \in DOMAIN bodies : bodies'[r] = bodies[r]
    BY <1>1, <1>4, <2>1 DEF Put
  <2> QED
    BY <1>8, <2>2 DEF CastVotes, CountedVotes
<1>10. DOMAIN beaconStates = DOMAIN blocks
  BY DEF ReplayInv, StatesSound
<1>11. /\ DOMAIN blocks' = DOMAIN blocks \cup {root}
       /\ beaconStates'[root] = state
       /\ \A r \in DOMAIN blocks : beaconStates'[r] = beaconStates[r]
  BY <1>1, <1>4, <1>8, <1>10 DEF Put
<1>12. state.slot = slot
  BY <1>4 DEF SameCheckpoints
<1> HIDE DEF block, advanced, after, state, post, cached, pulledUp, more, cast
<1>13. /\ \A c : Justified(CountedVotes, c) => Justified(more, c)
       /\ \A c : Finalized(CountedVotes, blocks, c) => Finalized(more, after, c)
  <2>1. CountedVotes \subseteq more
    BY <1>7
  <2>2. \A c : Finalized(CountedVotes, blocks, c) => Finalized(CountedVotes, after, c)
    BY <1>2, <1>4, FinalizedInLargerTree DEF after
  <2> QED
    BY <2>1, <2>2, JustifiedWithMore
<1>14. StatesByVotes'
  <2>1. ASSUME NEW r \in DOMAIN blocks
        PROVE  VotedFor(beaconStates'[r], EpochOf(beaconStates'[r].slot), after, r, more)
    <3>1. VotedFor(beaconStates[r], EpochOf(beaconStates[r].slot), blocks, r, CountedVotes)
      BY DEF VoteInv, StatesByVotes
    <3>2. \A e : OnChain(e, after, r) = OnChain(e, blocks, r)
      BY <1>2, <1>4, OnChainKept DEF after
    <3>3. \A c : Finalized(CountedVotes, blocks, c) => Finalized(CountedVotes, after, c)
      BY <1>2, <1>4, FinalizedInLargerTree DEF after
    <3>4. VotedFor(beaconStates[r], EpochOf(beaconStates[r].slot), after, r, CountedVotes)
      BY <3>1, <3>2, <3>3 DEF VotedFor
    <3>5. CountedVotes \subseteq more
      BY <1>7
    <3> QED
      BY <1>11, <3>4, <3>5, VotedForWithMore
  <2>2. VotedFor(beaconStates'[root], EpochOf(beaconStates'[root].slot), after, root, more)
    BY <1>7, <1>11, <1>12
  <2> QED
    BY <1>8, <1>9, <1>11, <2>1, <2>2 DEF StatesByVotes
<1>15. /\ post.justified = state.currentJustified /\ post.finalized = state.finalized
       /\ post.pulledUpJustified = pulledUp.currentJustified
       /\ post.pulledUpFinalized = pulledUp.finalized
  BY DEF post, Summary, pulledUp
<1>16. /\ state.currentJustified \in Checkpoint /\ state.finalized \in Checkpoint
       /\ pulledUp.currentJustified \in Checkpoint /\ pulledUp.finalized \in Checkpoint
       /\ Justified(more, state.currentJustified) /\ Finalized(more, after, state.finalized)
       /\ Justified(more, pulledUp.currentJustified)
       /\ Finalized(more, after, pulledUp.finalized)
  <2>1. /\ state \in BeaconState /\ state.slot \in Nat /\ state.slot <= state.slot
        /\ History(state, after, root, state.slot)
        /\ CheckpointRules(state, after, root, Previous(EpochOf(state.slot)))
        /\ VoteRules(state, after, root, cached)
        /\ JustifiedCached(state, cached)
        /\ VotedFor(state, EpochOf(state.slot), after, root, more)
    BY <1>4, <1>7, <1>12 DEF Sound, BeaconState
  <2>2. root \in DOMAIN after
    BY DEF after, Put
  <2>3. pulledUp \in BeaconState
    BY <1>4, <2>1, <2>2, JustificationSound DEF pulledUp
  <2>4. Justified(more, pulledUp.currentJustified) /\ Finalized(more, after, pulledUp.finalized)
    BY <1>4, <2>1, <2>2, JustificationByVotes DEF pulledUp
  <2>5. Justified(more, state.currentJustified) /\ Finalized(more, after, state.finalized)
    BY <2>1 DEF VotedFor
  <2> QED
    BY <2>1, <2>3, <2>4, <2>5 DEF BeaconState
<1>17. StoreByVotes'
  <2>1. /\ {justifiedCheckpoint, finalizedCheckpoint,
            unrealizedJustifiedCheckpoint, unrealizedFinalizedCheckpoint} \subseteq Checkpoint
        /\ HeldJustified(justifiedCheckpoint, more)
        /\ HeldJustified(unrealizedJustifiedCheckpoint, more)
        /\ HeldFinalized(finalizedCheckpoint, more, after)
        /\ HeldFinalized(unrealizedFinalizedCheckpoint, more, after)
    BY <1>2, <1>13 DEF VoteInv, StoreByVotes, HeldJustified, HeldFinalized, TypeOK
  <2>2. ASSUME NEW held \in Checkpoint,
               NEW seen \in {post.justified, post.pulledUpJustified}
        PROVE  /\ Later(held, seen) \in Checkpoint
               /\ HeldJustified(held, more) => HeldJustified(Later(held, seen), more)
    BY <1>15, <1>16, LaterByVotes, LaterType
  <2>3. ASSUME NEW held \in Checkpoint,
               NEW seen \in {post.finalized, post.pulledUpFinalized}
        PROVE  /\ Later(held, seen) \in Checkpoint
               /\ HeldFinalized(held, more, after)
                    => HeldFinalized(Later(held, seen), more, after)
    BY <1>15, <1>16, LaterByVotes, LaterType
  <2>4. /\ justifiedCheckpoint' \in
             {Later(justifiedCheckpoint, post.justified),
              Later(Later(justifiedCheckpoint, post.justified), post.pulledUpJustified)}
        /\ unrealizedJustifiedCheckpoint' =
             Later(unrealizedJustifiedCheckpoint, post.pulledUpJustified)
        /\ finalizedCheckpoint' \in
             {Later(finalizedCheckpoint, post.finalized),
              Later(Later(finalizedCheckpoint, post.finalized), post.pulledUpFinalized)}
        /\ unrealizedFinalizedCheckpoint' =
             Later(unrealizedFinalizedCheckpoint, post.pulledUpFinalized)
    BY <1>1 DEF OnBlock, RealizeCheckpoints, post, state
  <2>5. /\ HeldJustified(justifiedCheckpoint', more)
        /\ HeldJustified(unrealizedJustifiedCheckpoint', more)
    BY <2>1, <2>2, <2>4
  <2>6. /\ HeldFinalized(finalizedCheckpoint', more, after)
        /\ HeldFinalized(unrealizedFinalizedCheckpoint', more, after)
    BY <2>1, <2>3, <2>4
  <2> QED
    BY <1>8, <1>9, <2>5, <2>6 DEF StoreByVotes, HeldJustified, HeldFinalized, AnchorCheckpoint
<1>18. HeldFinalized(finalizedCheckpoint, more, after)
  BY <1>13 DEF VoteInv, StoreByVotes, HeldFinalized
<1> QED
  BY <1>7, <1>8, <1>9, <1>14, <1>17, <1>18 DEF VoteInv

\* Before the first block nothing is voted for, and nothing justified.
LEMMA InitVoteInv ==
  ASSUME GenesisAnchor, DriverInit
  PROVE  VoteInv
<1>1. /\ DOMAIN bodies = {AnchorRoot} /\ bodies[AnchorRoot] = <<>>
      /\ DOMAIN beaconStates = {AnchorRoot} /\ beaconStates[AnchorRoot] = AnchorBeaconState
      /\ DOMAIN blocks = {AnchorRoot}
  <2>1. DOMAIN <<>> = {}
    OBVIOUS
  <2>2. \A key, value : /\ DOMAIN Put(<<>>, key, value) = {key}
                        /\ Put(<<>>, key, value)[key] = value
    BY <2>1 DEF Put
  <2>3. /\ beaconStates = Put(<<>>, AnchorRoot, AnchorBeaconState)
        /\ bodies = Put(<<>>, AnchorRoot, <<>>)
        /\ blocks = Put(<<>>, AnchorRoot, [parent |-> NoRoot, slot |-> AnchorSlot])
    BY DEF DriverInit, Init
  <2> QED
    BY <2>2, <2>3
<1>2. CastVotes = {} /\ CountedVotes = {}
  <2>1. Range(<<>>) = {}
    BY DEF Range
  <2> QED
    BY <1>1, <2>1 DEF CastVotes, CountedVotes, OfChains
<1>3. NoneSlashable(CastVotes)
  BY <1>2 DEF NoneSlashable
<1>4. /\ AnchorBeaconState.slot = 0
      /\ AnchorBeaconState.justificationBits = {}
      /\ AnchorBeaconState.previousJustified = Genesis
      /\ AnchorBeaconState.currentJustified = Genesis
      /\ AnchorBeaconState.finalized = Genesis
      /\ AnchorBeaconState.previousParticipation = {}
      /\ AnchorBeaconState.currentParticipation = {}
  BY DEF GenesisAnchor, GenesisState, Genesis
<1>5. EpochOf(0) = 0 /\ Previous(0) = 0 /\ Genesis.epoch = 0
  <2>1. ASSUME NEW d \in Nat \ {0} PROVE 0 \div d = 0
    OBVIOUS
  <2> QED
    BY <2>1, SlotsPerEpochAssumption DEF EpochOf, Previous, Genesis
<1>6. Justified(CountedVotes, Genesis) /\ Finalized(CountedVotes, blocks, Genesis)
  BY GenesisJustified DEF Finalized
<1>7. VotedFor(AnchorBeaconState, EpochOf(AnchorBeaconState.slot), blocks, AnchorRoot, CountedVotes)
  BY <1>4, <1>5, <1>6 DEF VotedFor
<1>8. StatesByVotes
  BY <1>1, <1>7 DEF StatesByVotes
<1>9. StoreByVotes
  BY DEF DriverInit, Init, StoreByVotes, HeldJustified, HeldFinalized, AnchorCheckpoint
<1> QED
  BY <1>3, <1>8, <1>9 DEF VoteInv

\* Of the steps of the driver only a new block brings votes.
LEMMA StepVoteInv ==
  ASSUME GenesisAnchor, DriverInv, VoteInv, [DriverNext]_allVars
  PROVE  VoteInv' /\ HeldFinalized(finalizedCheckpoint, CountedVotes', blocks')
<1> DEFINE Goal == VoteInv' /\ HeldFinalized(finalizedCheckpoint, CountedVotes', blocks')
<1>1. StoreInv /\ ReplayInv /\ AnchorSlot = 0
  BY DEF DriverInv, GenesisAnchor
<1>2. CASE Tick
  <2>1. PICK t \in TickTimes : OnTick(t)
    BY <1>2 DEF Tick
  <2>2. /\ justifiedCheckpoint' \in {justifiedCheckpoint, unrealizedJustifiedCheckpoint}
        /\ finalizedCheckpoint' \in {finalizedCheckpoint, unrealizedFinalizedCheckpoint}
        /\ UNCHANGED <<blocks, unrealizedJustifiedCheckpoint, unrealizedFinalizedCheckpoint>>
    BY <2>1 DEF OnTick, Later, checkpointVars, blockVars, unrealizedVars
  <2>3. UNCHANGED <<beaconStates, bodies>>
    BY <1>2 DEF Tick, driverVars
  <2> QED
    BY <2>2, <2>3, NoNewVote
<1>3. ASSUME NEW root \in FreshRoots, NEW parent \in DOMAIN blocks, NEW slot \in BlockSlots,
             DeliverBlock(root, parent, slot)
      PROVE  Goal
  BY <1>1, <1>3, NewBlockByVotes
<1>4. ASSUME UNCHANGED <<blocks, beaconStates, bodies, checkpointVars, unrealizedVars>>
      PROVE  Goal
  BY <1>4, NoNewVote DEF checkpointVars, unrealizedVars
<1>5. ASSUME NEW root \in DOMAIN bodies, DeliverKnownBlock(root)
      PROVE  Goal
  BY <1>4, <1>5 DEF DeliverKnownBlock, vars, blockVars
<1>6. CASE ReplayAttestation
  BY <1>4, <1>6 DEF ReplayAttestation, OnAttestation, blockVars
<1>7. CASE WireAttestation
  BY <1>4, <1>7 DEF WireAttestation, OnAttestation, OnAttestationAborted, blockVars, driverVars
<1>8. CASE WireSlashing
  BY <1>4, <1>8 DEF WireSlashing, OnAttesterSlashing, blockVars, driverVars
<1>9. CASE UNCHANGED allVars
  BY <1>4, <1>9 DEF allVars, vars, driverVars, blockVars
<1> QED
  BY <1>2, <1>3, <1>5, <1>6, <1>7, <1>8, <1>9 DEF DriverNext

\* The votes are fair throughout, and justify all that is justified.
LEMMA VoteInvariant ==
  ASSUME GenesisAnchor
  PROVE  DriverSpec => [](DriverInv /\ VoteInv /\ CheckpointsOrdered)
<1>1. DriverInit => VoteInv
  BY InitVoteInv
<1>2. DriverInv /\ VoteInv /\ [DriverNext]_allVars => VoteInv'
  BY StepVoteInv
<1>3. DriverSpec => []DriverInv
  BY DriverInvariant
<1>4. DriverSpec => []CheckpointsOrdered
  BY DriverDrivesStore, CheckpointOrder, PTL
<1> QED
  BY <1>1, <1>2, <1>3, <1>4, PTL DEF DriverSpec

-----------------------------------------------------------------------------
(* Finality.                                                                *)

\* Only the anchor is of slot 0: it is on every chain.
LEMMA AnchorOnEveryChain ==
  ASSUME NEW store, RootedTree(store), AnchorSlot = 0, NEW tip \in DOMAIN store
  PROVE  CheckpointBlock(store, tip, 0) = AnchorRoot
<1>1. StartSlot(0) = 0
  <2>1. ASSUME NEW d \in Nat PROVE 0 * d = 0
    OBVIOUS
  <2> QED
    BY <2>1, SlotsPerEpochAssumption DEF StartSlot
<1>2. /\ Ancestor(store, tip, 0) \in DOMAIN store
      /\ store[Ancestor(store, tip, 0)].slot <= 0
  BY WalkFound
<1>3. ASSUME NEW r \in DOMAIN store, store[r].slot <= 0 PROVE r = AnchorRoot
  <2>1. r # AnchorRoot => store[r].parent \in DOMAIN store /\ store[r].parent # NoRoot
    BY NoRootIsNoBlock DEF RootedTree
  <2> QED
    BY <1>3, <2>1 DEF RootedTree, BlockTree
<1> QED
  BY <1>1, <1>2, <1>3 DEF CheckpointBlock

\* What the store has finalized is on the chain of every checkpoint it holds
\* that is no earlier.
LEMMA HeldOnFinalizedChain ==
  ASSUME NEW store, RootedTree(store), AnchorSlot = 0,
         NEW cast, FairVotes(cast, store),
         NEW f, HeldFinalized(f, cast, store),
         NEW j \in Checkpoint, HeldJustified(j, cast), f.epoch <= j.epoch
  PROVE  /\ j.root \in DOMAIN store
         /\ CheckpointBlock(store, j.root, f.epoch) = f.root
<1>1. AnchorCheckpoint.epoch = 0 /\ AnchorCheckpoint.root = AnchorRoot
  <2>1. ASSUME NEW d \in Nat \ {0} PROVE 0 \div d = 0
    OBVIOUS
  <2> QED
    BY <2>1, SlotsPerEpochAssumption DEF EpochOf, AnchorCheckpoint
<1>2. j.root \in DOMAIN store
  BY <1>1, JustifiedOfChain DEF HeldJustified, RootedTree
<1>3. CASE f = AnchorCheckpoint
  BY <1>1, <1>2, <1>3, AnchorOnEveryChain
<1>4. CASE f # AnchorCheckpoint
  <2>1. f # Genesis /\ Finalized(cast, store, f) /\ f.epoch \in Nat /\ f.epoch > 0
    BY <1>4, JustifiedOfChain DEF HeldFinalized, Finalized
  <2>2. j # AnchorCheckpoint
    BY <1>1, <2>1
  <2>3. Justified(cast, j) /\ j.epoch >= f.epoch
    BY <2>1, <2>2 DEF HeldJustified, Checkpoint
  <2> QED
    BY <2>1, <2>3, FinalitySafe
<1> QED
  BY <1>3, <1>4

\* What is finalized was justified.
LEMMA FinalizedIsJustified ==
  ASSUME NEW store, NEW cast, NEW f, HeldFinalized(f, cast, store)
  PROVE  HeldJustified(f, cast)
  BY DEF HeldFinalized, HeldJustified, Finalized

\* A finalized checkpoint is replaced by later ones only.
LEMMA FinalizedGrows ==
  ASSUME TypeOK, [Next]_vars
  PROVE  finalizedCheckpoint.epoch <= finalizedCheckpoint'.epoch
<1>1. /\ finalizedCheckpoint \in Checkpoint /\ unrealizedFinalizedCheckpoint \in Checkpoint
      /\ finalizedCheckpoint.epoch \in Nat
  BY DEF TypeOK, Checkpoint
<1>2. ASSUME NEW seen \in Checkpoint, NEW next \in Checkpoint
      PROVE  /\ finalizedCheckpoint.epoch <= Later(finalizedCheckpoint, seen).epoch
             /\ finalizedCheckpoint.epoch
                  <= Later(Later(finalizedCheckpoint, seen), next).epoch
  BY <1>1, LaterType DEF Checkpoint
<1>3. CASE UNCHANGED finalizedCheckpoint
  BY <1>1, <1>3
<1>4. ASSUME NEW t \in TickTimes, OnTick(t)
      PROVE  finalizedCheckpoint.epoch <= finalizedCheckpoint'.epoch
  BY <1>1, <1>2, <1>3, <1>4 DEF OnTick, checkpointVars
<1>5. CASE BlockStep
  <2>1. PICK root \in Root, block \in Block, post \in BlockState :
          OnBlock(root, block, post) \/ OnBlockAborted(root, block, post)
    BY <1>5, BlockStepCases
  <2>2. post.finalized \in Checkpoint /\ post.pulledUpFinalized \in Checkpoint
    BY DEF BlockState
  <2>3. CASE OnBlock(root, block, post)
    BY <1>2, <2>2, <2>3 DEF OnBlock, RealizeCheckpoints
  <2>4. CASE OnBlockAborted(root, block, post)
    BY <1>3, <2>4 DEF OnBlockAborted, checkpointVars
  <2> QED
    BY <2>1, <2>3, <2>4
<1>6. CASE AttestationStep
  BY <1>3, <1>6 DEF AttestationStep, OnAttestation, OnAttestationAborted, checkpointVars
<1>7. ASSUME NEW slashable \in WireSlashings, OnAttesterSlashing(slashable)
      PROVE  finalizedCheckpoint.epoch <= finalizedCheckpoint'.epoch
  BY <1>3, <1>7 DEF OnAttesterSlashing, checkpointVars
<1>8. CASE UNCHANGED vars
  BY <1>3, <1>8 DEF vars, checkpointVars
<1> QED
  BY <1>4, <1>5, <1>6, <1>7, <1>8 DEF Next

\* What the store finalizes later is on the chain of what it finalized first.
LEMMA LaterFinalized ==
  ASSUME NEW store, RootedTree(store), AnchorSlot = 0,
         NEW cast, FairVotes(cast, store),
         NEW f, HeldFinalized(f, cast, store),
         NEW g \in Checkpoint, HeldFinalized(g, cast, store), f.epoch <= g.epoch
  PROVE  CheckpointBlock(store, g.root, f.epoch) = f.root
<1>1. HeldJustified(g, cast)
  BY FinalizedIsJustified
<1> QED
  BY <1>1, HeldOnFinalizedChain

\* A step of the driver finalizes a descendant of what was finalized.
LEMMA StepExtendsFinality ==
  ASSUME GenesisAnchor, DriverInv, VoteInv, [DriverNext]_allVars
  PROVE  FinalityExtends
<1> DEFINE f == finalizedCheckpoint
<1>1. VoteInv' /\ HeldFinalized(f, CountedVotes', blocks')
  BY StepVoteInv
<1>2. [Next]_vars /\ StoreInv'
  BY DriverStep, StepStoreInv DEF DriverInv
<1>3. f.epoch <= finalizedCheckpoint'.epoch
  BY <1>2, FinalizedGrows DEF DriverInv, StoreInv
<1>4. RootedTree(blocks') /\ finalizedCheckpoint' \in Checkpoint
  BY <1>2 DEF StoreInv, AnchoredTree, TypeOK
<1>5. /\ FairVotes(CountedVotes', blocks')
      /\ HeldFinalized(finalizedCheckpoint', CountedVotes', blocks')
  <2>1. (NoneSlashable(CastVotes) => FairVotes(CountedVotes, blocks))'
    BY ChainVotesFair DEF CountedVotes
  <2> QED
    BY <1>1, <2>1 DEF VoteInv, StoreByVotes, HeldFinalized, AnchorCheckpoint
<1>6. AnchorSlot = 0
  BY DEF GenesisAnchor
<1> HIDE DEF f
<1>7. CheckpointBlock(blocks', finalizedCheckpoint'.root, f.epoch) = f.root
  BY <1>1, <1>3, <1>4, <1>5, <1>6, LaterFinalized
<1> QED
  BY <1>7 DEF FinalityExtends, f

\* Finality is final: as long as less than a third of the stake casts slashable
\* votes, what is finalized later descends from what was finalized before,
\* whatever blocks, votes, ticks and slashings come in whatever order.
THEOREM FinalityIsFinal ==
  ASSUME GenesisAnchor
  PROVE  DriverSpec => FinalityKept
<1>1. (DriverInv /\ VoteInv /\ CheckpointsOrdered) /\ [DriverNext]_allVars
        => [FinalityExtends]_allVars
  BY StepExtendsFinality
<1> QED
  BY <1>1, VoteInvariant, PTL DEF DriverSpec, FinalityKept

-----------------------------------------------------------------------------
(* The head.                                                                *)

\* The walk of get_head ends at the justified block, or at a block of the
\* filtered tree.
LEMMA HeadIsFiltered ==
  ASSUME TypeOK, AnchoredTree, BlocksFinite, CheckpointBlocksStored
  PROVE  GetHead = justifiedCheckpoint.root \/ GetHead \in FilteredNodeTree
<1> DEFINE D == DOMAIN blocks
           top == SlotAt(MaxTime)
           rank == [n \in D |-> top - blocks[n].slot]
<1>1. PICK walk : IsHeadWalk(walk) /\ GetHead = walk[justifiedCheckpoint.root]
  BY HeadWalkExists
<1> DEFINE S == {n \in D : walk[n] = n \/ walk[n] \in FilteredNodeTree}
<1>2. ASSUME NEW n \in D, \A e \in D : rank[e] < rank[n] => e \in S
      PROVE  n \in S
  <2> DEFINE h == Heaviest(Below(n))
  <2>1. walk[n] = IF Below(n) = {} THEN n ELSE walk[h]
    BY <1>1 DEF IsHeadWalk
  <2>2. CASE Below(n) # {}
    <3>1. h \in Children(n) /\ h \in FilteredNodeTree
      BY <2>2, HeaviestBelow DEF Below
    <3>2. h \in D /\ blocks[n].slot < blocks[h].slot
      BY <3>1, NoRootIsNoBlock DEF Children, AnchoredTree, RootedTree, BlockTree
    <3>3. blocks[n].slot \in Nat /\ blocks[h].slot \in Nat /\ top \in Nat
      BY <3>2, SlotAndEpochNat, MaxTimeAssumption DEF AnchoredTree, RootedTree, BlockTree
    <3> HIDE DEF h, top
    <3>4. rank[h] < rank[n]
      BY <3>2, <3>3
    <3>5. walk[h] = h \/ walk[h] \in FilteredNodeTree
      BY <1>2, <3>2, <3>4
    <3> QED
      BY <2>1, <2>2, <3>1, <3>5
  <2> QED
    BY <2>1, <2>2
<1>3. rank \in [D -> Nat] /\ S \in SUBSET D
  <2>1. top \in Nat
    BY SlotAndEpochNat, MaxTimeAssumption
  <2>2. \A n \in D : blocks[n].slot \in 0..top
    BY DEF TypeOK, Block, Slot
  <2> HIDE DEF top
  <2> QED
    BY <2>1, <2>2
<1>4. S = D
  <2> HIDE DEF S, rank, D
  <2> QED
    BY <1>2, <1>3, RankInduction
<1>5. justifiedCheckpoint.root \in D
  BY DEF CheckpointBlocksStored, Held
<1> QED
  BY <1>1, <1>4, <1>5

\* Between a block of the finalized chain and a leaf of it no block leaves it.
LEMMA BetweenOnChain ==
  ASSUME RootedTree(blocks), NEW t \in Nat, AnchorSlot <= t,
         NEW j \in DOMAIN blocks, NEW n \in DOMAIN blocks, NEW l \in DOMAIN blocks,
         Supports(l, n), Supports(n, j),
         Ancestor(blocks, l, t) = Ancestor(blocks, j, t)
  PROVE  Ancestor(blocks, n, t) = Ancestor(blocks, j, t)
<1>1. /\ BlockTree(blocks)
      /\ j \in RootOrNone /\ n \in RootOrNone /\ l \in RootOrNone
      /\ blocks[j].slot \in Nat /\ blocks[n].slot \in Nat
      /\ blocks[j].slot <= blocks[n].slot
  BY SupportsIsOrdered DEF RootedTree, BlockTree, RootOrNone
<1>2. CASE t <= blocks[n].slot
  BY <1>1, <1>2, AncestorTwice DEF Supports
<1>3. CASE t > blocks[n].slot
  <2>1. Ancestor(blocks, n, t) = n /\ Ancestor(blocks, j, t) = j
    BY <1>1, <1>3, AncestorUnfolds
  <2>2. Ancestor(blocks, Ancestor(blocks, l, t), blocks[n].slot)
          = Ancestor(blocks, l, blocks[n].slot)
    BY <1>1, <1>3, <2>1, AncestorTwice
  <2>3. Ancestor(blocks, j, blocks[n].slot) = n
    BY <2>1, <2>2 DEF Supports
  <2>4. Ancestor(blocks, j, blocks[n].slot) = j
    BY <1>1, AncestorUnfolds
  <2> QED
    BY <2>3, <2>4
<1> QED
  BY <1>1, <1>2, <1>3

\* The head is on the finalized chain.
LEMMA HeadOnFinalizedChain ==
  ASSUME GenesisAnchor, DriverInv, VoteInv, CheckpointsOrdered
  PROVE  HeadKeepsFinality
<1> DEFINE f == finalizedCheckpoint
           j == justifiedCheckpoint
           t == StartSlot(f.epoch)
<1>1. /\ TypeOK /\ AnchoredTree /\ BlocksFinite /\ CheckpointBlocksStored
      /\ RootedTree(blocks) /\ AnchorSlot = 0
  BY DEF DriverInv, StoreInv, GenesisAnchor, AnchoredTree
<1>2. /\ f \in Checkpoint /\ j \in Checkpoint /\ f.epoch \in Nat /\ f.epoch <= j.epoch
      /\ j.root \in DOMAIN blocks
  BY <1>1 DEF TypeOK, Checkpoint, CheckpointsOrdered, CheckpointBlocksStored, Held
<1>3. Ancestor(blocks, j.root, t) = f.root
  <2>1. /\ FairVotes(CountedVotes, blocks) /\ HeldFinalized(f, CountedVotes, blocks)
        /\ HeldJustified(j, CountedVotes)
    BY CountedFair DEF VoteInv, StoreByVotes
  <2> HIDE DEF f, j
  <2>2. CheckpointBlock(blocks, j.root, f.epoch) = f.root
    BY <1>1, <1>2, <2>1, HeldOnFinalizedChain
  <2> QED
    BY <2>2 DEF CheckpointBlock
<1>4. ASSUME NEW head \in FilteredNodeTree, f.epoch # 0
      PROVE  Ancestor(blocks, head, t) = f.root
  <2>1. PICK l \in Leaves(j.root) : ViableLeaf(l) /\ Supports(l, head)
    BY <1>4 DEF FilteredNodeTree
  <2>2. l \in DOMAIN blocks /\ head \in DOMAIN blocks /\ Supports(head, j.root)
    BY <1>4 DEF FilteredNodeTree, Leaves
  <2>3. Ancestor(blocks, l, t) = f.root
    BY <1>4, <2>1 DEF ViableLeaf, CheckpointBlock
  <2>4. t \in Nat
    <3>1. ASSUME NEW e \in Nat, NEW d \in Nat PROVE e * d \in Nat
      OBVIOUS
    <3> QED
      BY <1>2, <3>1, SlotsPerEpochAssumption DEF StartSlot
  <2> HIDE DEF f, j, t
  <2>5. AnchorSlot <= t
    BY <1>1, <2>4
  <2> QED
    BY <1>1, <1>2, <1>3, <2>1, <2>2, <2>3, <2>4, <2>5, BetweenOnChain
<1>5. CASE f.epoch = 0
  <2>1. GetHead \in DOMAIN blocks
    BY <1>1, HeadIsStored
  <2>2. CheckpointBlock(blocks, GetHead, 0) = AnchorRoot
    BY <1>1, <2>1, AnchorOnEveryChain
  <2>3. CheckpointBlock(blocks, j.root, 0) = AnchorRoot
    BY <1>1, <1>2, AnchorOnEveryChain
  <2>4. CheckpointBlock(blocks, j.root, 0) = f.root
    BY <1>3, <1>5 DEF CheckpointBlock
  <2> QED
    BY <1>5, <2>2, <2>3, <2>4 DEF HeadKeepsFinality
<1>6. CASE f.epoch # 0
  <2>1. GetHead = j.root \/ GetHead \in FilteredNodeTree
    BY <1>1, HeadIsFiltered
  <2>2. Ancestor(blocks, GetHead, t) = f.root
    BY <1>3, <1>4, <1>6, <2>1
  <2> QED
    BY <2>2 DEF HeadKeepsFinality, CheckpointBlock
<1> QED
  BY <1>5, <1>6

\* The head never leaves the finalized chain, though justified and finalized
\* are chosen apart, possibly from different branches, and a leaf is filtered
\* by where it stands now.
THEOREM HeadStaysFinal ==
  ASSUME GenesisAnchor
  PROVE  DriverSpec => []HeadKeepsFinality
<1>1. DriverInv /\ VoteInv /\ CheckpointsOrdered => HeadKeepsFinality
  BY HeadOnFinalizedChain
<1> QED
  BY <1>1, VoteInvariant, PTL

=============================================================================
