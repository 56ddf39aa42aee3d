-------------------------- MODULE MCFuluForkChoice --------------------------
(* Small instances of FuluForkChoice: epochs of two slots, slots of two     *)
(* clock units, one validator.  One run checks three scenarios, each with   *)
(* its own anchor and bounds: "checkpoint", with the constants of the       *)
(* configuration, starts at a checkpoint; "ticks" at genesis, with late and *)
(* skipping ticks; "wire" at genesis, with votes and slashings.             *)
EXTENDS FuluForkChoice

CONSTANT v1

VARIABLE scenario

MCValidator == {v1}
MCEffectiveBalance == [v \in MCValidator |-> 32]

MCGenesisSummary ==
  LET genesis == [epoch |-> 0, root |-> NoRoot]
  IN [justified |-> genesis, finalized |-> genesis,
      pulledUpJustified |-> genesis, pulledUpFinalized |-> genesis]

\* A state at the start of epoch 2 whose chain justified epoch 1 before the
\* anchor, at a block the store does not have.
MCCheckpointSummary ==
  LET genesis == [epoch |-> 0, root |-> NoRoot]
      before  == [epoch |-> 1, root |-> NoRoot]
  IN [justified |-> before, finalized |-> genesis,
      pulledUpJustified |-> before, pulledUpFinalized |-> genesis]

MCNone == {}
MCAll == {MCValidator}

\* Slots 4 to 6 and 8: epochs 2 (the anchor's), 3 and 4.
MCCheckpointTimes == {8, 10, 12, 13, 16}
MCCheckpointSlots == {5, 6, 8}

\* Slots 1, 2, 4 and 5, and a late reading of slot 1: a tick from epoch 1
\* may skip the first slot of epoch 2.
Ticks == INSTANCE FuluForkChoice WITH
  AnchorSlot <- 0, AnchorState <- MCGenesisSummary, MaxTime <- 11,
  TickTimes <- {2, 3, 4, 8, 10}, BlockSlots <- 1..4

\* One slot of each of the first two epochs.
Wire == INSTANCE FuluForkChoice WITH
  AnchorSlot <- 0, AnchorState <- MCGenesisSummary, MaxTime <- 9,
  TickTimes <- {2, 6}, BlockSlots <- {1, 3},
  WireAttesters <- MCAll, BodyAttesters <- MCAll, WireSlashings <- MCAll

MCInit ==
  \/ scenario = "checkpoint" /\ Init
  \/ scenario = "ticks" /\ Ticks!Init
  \/ scenario = "wire" /\ Wire!Init

MCNext ==
  \/ scenario = "checkpoint" /\ Next /\ UNCHANGED scenario
  \/ scenario = "ticks" /\ Ticks!Next /\ UNCHANGED scenario
  \/ scenario = "wire" /\ Wire!Next /\ UNCHANGED scenario

MCSpec == MCInit /\ [][MCNext]_<<scenario, vars>>
=============================================================================
