--------------------------- MODULE MCFuluRegistry ---------------------------
(***************************************************************************)
(* Registries and requests for the model checker.  Balances are counted in *)
(* quarters of an increment; the limits keep the proportions that matter:  *)
(* one exit takes two epochs of churn, one consolidation fits in one.      *)
(*                                                                         *)
(* One run checks five scenarios, each with the registry and the requests  *)
(* that bring one part of the code to its limits: "exits", which differs   *)
(* from the configuration in its last slot, "consolidations", "deposits",  *)
(* "partials" and "sweep".                                                 *)
(***************************************************************************)
EXTENDS FuluRegistry

VARIABLE scenario

MCFar == 1000

MCActive(credential, effective) ==
  [credential |-> credential, effectiveBalance |-> effective, slashed |-> FALSE,
   eligibility |-> 0, activation |-> 0, exit |-> MCFar, withdrawable |-> MCFar]

MCNone == {}
MCLags == {1, 2}
MCNoDelta == {0}

\* Four to leave, by request, slashing or ejection.
MCLeaving ==
  <<MCActive("compounding", 8), MCActive("compounding", 12), MCActive("bls", 8),
    MCActive("compounding", 8)>>
MCLeavingBalances == <<8, 12, 9, 8>>

\* Three to merge, the third with an excess to switch to compounding with, and
\* one that is not yet in the activation queue.
MCMerging ==
  <<MCActive("compounding", 16), MCActive("compounding", 8), MCActive("eth1", 8),
    [MCActive("bls", 8) EXCEPT !.eligibility = MCFar, !.activation = MCFar]>>
MCMergingBalances == <<17, 7, 11, 8>>
MCMerges == {<<1, 2>>, <<2, 1>>, <<3, 1>>}

\* Two validators, and deposits that are small, too large for one epoch's
\* budget, and for a third validator with and without a signature.
MCFunded == <<MCActive("eth1", 8), MCActive("compounding", 8)>>
MCFundedBalances == <<8, 8>>
MCDeposits ==
  {[validator |-> 1, credential |-> "eth1", amount |-> 1, signed |-> FALSE],
   [validator |-> 2, credential |-> "eth1", amount |-> 6, signed |-> FALSE],
   [validator |-> 3, credential |-> "compounding", amount |-> 3, signed |-> FALSE],
   [validator |-> 3, credential |-> "eth1", amount |-> 9, signed |-> TRUE]}

\* Four validators to sweep, with more than a payload's worth of excesses.
MCRich ==
  <<MCActive("eth1", 8), MCActive("compounding", 16), MCActive("eth1", 8), MCActive("bls", 8)>>
MCRichBalances == <<9, 18, 9, 10>>

\* Two that can ask for partial withdrawals, and may lose what they asked for.
MCPartialRich == <<MCActive("compounding", 16), MCActive("compounding", 8)>>
MCPartialRichBalances == <<18, 11>>
MCPartials == {2, 8}
MCDeltas == {-5, 0, 2}
MCLosses == {-5, 0}

Leaving == INSTANCE FuluRegistry WITH MaxSlot <- 3

Merging == INSTANCE FuluRegistry WITH
  InitialValidators <- MCMerging, InitialBalances <- MCMergingBalances,
  MaxSlot <- 5, MaxValidatorsPerSweep <- 2, FinalityLags <- MCLags, Deltas <- MCNoDelta,
  Leavers <- {}, Offenders <- {1, 3}, Consolidations <- MCMerges

Depositing == INSTANCE FuluRegistry WITH
  InitialValidators <- MCFunded, InitialBalances <- MCFundedBalances,
  MaxSlot <- 5, MaxValidators <- 3, MaxQueue <- 2, MaxValidatorsPerSweep <- 2,
  FinalityLags <- {1}, Deltas <- MCNoDelta, DepositRequests <- MCDeposits,
  Leavers <- {1}, Offenders <- {}, Proposers <- {}

Withdrawing == INSTANCE FuluRegistry WITH
  InitialValidators <- MCPartialRich, InitialBalances <- MCPartialRichBalances,
  MaxSlot <- 4, MaxValidators <- 2, MaxValidatorsPerSweep <- 2,
  Deltas <- MCDeltas, PartialAmounts <- MCPartials,
  Leavers <- {1}, Offenders <- {2}, Proposers <- {1}

Sweeping == INSTANCE FuluRegistry WITH
  InitialValidators <- MCRich, InitialBalances <- MCRichBalances,
  SlotsPerEpoch <- 2, MaxSlot <- 6, MaxWithdrawalsPerPayload <- 2, Deltas <- MCNoDelta,
  Leavers <- {1, 3}, Offenders <- {}, Proposers <- {}

MCInit ==
  \/ scenario = "exits" /\ Leaving!Init
  \/ scenario = "consolidations" /\ Merging!Init
  \/ scenario = "deposits" /\ Depositing!Init
  \/ scenario = "partials" /\ Withdrawing!Init
  \/ scenario = "sweep" /\ Sweeping!Init

MCNext ==
  \/ scenario = "exits" /\ Leaving!Next /\ UNCHANGED scenario
  \/ scenario = "consolidations" /\ Merging!Next /\ UNCHANGED scenario
  \/ scenario = "deposits" /\ Depositing!Next /\ UNCHANGED scenario
  \/ scenario = "partials" /\ Withdrawing!Next /\ UNCHANGED scenario
  \/ scenario = "sweep" /\ Sweeping!Next /\ UNCHANGED scenario

MCSpec == MCInit /\ [][MCNext]_<<scenario, vars>>

-----------------------------------------------------------------------------

\* The correlation penalty of a slashed validator is taken once, whichever of
\* slashing, exit and ejection came first.
PenaltyTakenOnce == [][scenario = "exits" => PenaltyAhead]_vars

\* The sweep of every payload goes on where the one before left off.
SweepGoesOn == [][scenario = "sweep" => Sweeping!SweepSkipsNobody]_vars
=============================================================================
