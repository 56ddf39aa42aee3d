---------------------------- MODULE MCFuluDriver ----------------------------
(* Small instances of FuluDriver: a genesis anchor, epochs of two slots,    *)
(* slots of two clock units (before and after the attestation deadline).    *)
(* One run checks three scenarios: "finality", with the constants of the    *)
(* configuration, builds epochs 2 to 4 with the votes of all validators in  *)
(* blocks; "faulty" has a validator there that votes on every side, and     *)
(* stray votes, which name any block or none as head or target; "votes" has *)
(* the votes of a lone validator and of the others on the wire, and         *)
(* slashings, in the slots 1 to 3.  The properties of FuluDriver are        *)
(* checked in all of them, with the constants of the first.                 *)
EXTENDS FuluDriver, TLC

CONSTANTS v1, v2, v3

VARIABLE scenario

MCValidator == {v1, v2, v3}
MCEffectiveBalance == v1 :> 31 @@ v2 :> 32 @@ v3 :> 33

MCGenesisSummary ==
  LET genesis == [epoch |-> 0, root |-> NoRoot]
  IN [justified |-> genesis, finalized |-> genesis,
      pulledUpJustified |-> genesis, pulledUpFinalized |-> genesis]

MCNone == {}
MCAll == {MCValidator}

\* v1 votes on every side, with v3 for two thirds and with v2 for one unit less.
MCFaulty == {v1}
MCSides == {{v1, v3}, {v1, v2}}

\* The slots of epochs 2 and 3; the clock moves to the start of epochs 2, 3, 4.
MCFinalitySlots == {4, 5, 6, 7}
MCFinalityTimes == {8, 12, 16}

MCVoteAttesters == {{v1}, {v2, v3}}
MCVotePair == {{v2, v3}}

Votes == INSTANCE FuluDriver WITH
  Root <- 1..4, MaxTime <- 7, TickTimes <- {4, 6}, BlockSlots <- {1, 2},
  BodyAttesters <- MCNone, WireAttesters <- MCVoteAttesters, WireSlashings <- MCVotePair

Sides == INSTANCE FuluDriver WITH
  Root <- 1..4, BodyAttesters <- MCSides, StrayRoots <- 0..4

\* What the theorems about FuluDriver assume holds here.
ASSUME GenesisAnchor /\ ShortEpochs

MCInit ==
  \/ scenario = "finality" /\ DriverInit
  \/ scenario = "faulty" /\ Sides!DriverInit
  \/ scenario = "votes" /\ Votes!DriverInit

MCNext ==
  \/ scenario = "finality" /\ DriverNext /\ UNCHANGED scenario
  \/ scenario = "faulty" /\ Sides!DriverNext /\ UNCHANGED scenario
  \/ scenario = "votes" /\ Votes!DriverNext /\ UNCHANGED scenario

MCSpec == MCInit /\ [][MCNext]_<<scenario, allVars>>

\* The scenario "finality" under the fairness of FairDriverSpec.
ProgressSpec ==
  /\ scenario = "finality" /\ DriverInit
  /\ [][DriverNext /\ UNCHANGED scenario]_<<scenario, allVars>>
  /\ SF_allVars(Tick) /\ WF_allVars(ReplayAttestation)
=============================================================================
