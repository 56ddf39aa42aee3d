----------------------------- MODULE BeaconChain -----------------------------
(***************************************************************************)
(* The part of the Fulu state transition that fork choice depends on: slot *)
(* processing, the target votes a block includes, and the justification    *)
(* and finalization rule.  Pure operators over one beacon state; no        *)
(* variable.                                                               *)
(*                                                                         *)
(* Left out of the state: registry, balances, sync committees, RANDAO and  *)
(* the execution payload.  The validator set and its effective balances    *)
(* are constants, every validator is active and unslashed, and a block     *)
(* that fails one of the checks on the omitted fields is simply never      *)
(* delivered.                                                              *)
(***************************************************************************)
EXTENDS Integers, Sequences, FiniteSetsExt

CONSTANTS
  Root,                       \* block roots; a larger number is the greater root
  Validator,                  \* the registry
  EffectiveBalance,           \* EffectiveBalance[v], in Gwei
  EffectiveBalanceIncrement,  \* EFFECTIVE_BALANCE_INCREMENT
  SlotsPerEpoch,              \* SLOTS_PER_EPOCH
  SlotsPerHistoricalRoot      \* SLOTS_PER_HISTORICAL_ROOT

ASSUME RootAssumption == Root \subseteq Nat \ {0}
\* Minimal and mainnet presets have 8 and 32 slots; with one slot the epoch
\* boundary would read a block root that is not in the history yet.
ASSUME SlotsPerEpochAssumption == SlotsPerEpoch \in Nat /\ SlotsPerEpoch > 1
ASSUME BalanceAssumption ==
  /\ IsFiniteSet(Validator)
  /\ EffectiveBalance \in [Validator -> Nat]
  /\ EffectiveBalanceIncrement \in Nat

\* Insert or overwrite one entry of a map.
Put(map, key, value) ==
  [k \in DOMAIN map \cup {key} |-> IF k = key THEN value ELSE map[k]]

NoRoot == 0                              \* the all-zero root
RootOrNone == Root \cup {NoRoot}
Checkpoint == [epoch : Nat, root : RootOrNone]

EpochOf(slot) == slot \div SlotsPerEpoch
StartSlot(epoch) == epoch * SlotsPerEpoch
Previous(epoch) == IF epoch = 0 THEN 0 ELSE epoch - 1

\* get_total_balance: the sum, floored at one increment.
TotalBalance(validators) ==
  Max({EffectiveBalanceIncrement,
       SumFunctionOnSet(EffectiveBalance, validators)})

\* With next to no stake an empty set of voters would already be a two-thirds
\* majority, because both sides of the comparison are floored.
ASSUME StakeAssumption == 3 * TotalBalance({}) < 2 * TotalBalance(Validator)

---------------------------------------------------------------------------
(* Block roots of the chain a state belongs to. *)

HasBlockRoot(state, epoch) ==
  /\ StartSlot(epoch) < state.slot
  /\ state.slot <= StartSlot(epoch) + SlotsPerHistoricalRoot

BlockRoot(state, epoch) == state.blockRoots[StartSlot(epoch)]

TargetOf(state, epoch) == [epoch |-> epoch, root |-> BlockRoot(state, epoch)]

---------------------------------------------------------------------------
(* Justification and finalization. *)

Supermajority(validators) ==
  TotalBalance(validators) * 3 >= TotalBalance(Validator) * 2

\* justificationBits is the set of the bit positions that are set.
ShiftBits(bits) == {b + 1 : b \in bits \cap 0..2}

\* The four supermajority-link patterns.  The code tests them in the opposite
\* order and lets a later match overwrite an earlier one.
FinalizedBy(state, bits, epoch) ==
  LET oldPrev == state.previousJustified
      oldCurr == state.currentJustified
  IN IF {0, 1} \subseteq bits /\ oldCurr.epoch + 1 = epoch THEN oldCurr
     ELSE IF {0, 1, 2} \subseteq bits /\ oldCurr.epoch + 2 = epoch THEN oldCurr
     ELSE IF {1, 2} \subseteq bits /\ oldPrev.epoch + 2 = epoch THEN oldPrev
     ELSE IF {1, 2, 3} \subseteq bits /\ oldPrev.epoch + 3 = epoch THEN oldPrev
     ELSE state.finalized

WeighJustificationAndFinalization(state) ==
  LET epoch  == EpochOf(state.slot)
      prev   == Supermajority(state.previousParticipation)
      curr   == Supermajority(state.currentParticipation)
      bits   == ShiftBits(state.justificationBits)
                  \cup (IF prev THEN {1} ELSE {})
                  \cup (IF curr THEN {0} ELSE {})
  IN [state EXCEPT
        !.previousJustified = state.currentJustified,
        !.currentJustified  = IF curr THEN TargetOf(state, epoch)
                              ELSE IF prev THEN TargetOf(state, Previous(epoch))
                              ELSE @,
        !.justificationBits = bits,
        !.finalized         = FinalizedBy(state, bits, epoch)]

ProcessJustificationAndFinalization(state) ==
  IF EpochOf(state.slot) <= 1 THEN state
  ELSE WeighJustificationAndFinalization(state)

\* The block-root reads of the justifying branches are asserted; this is when
\* one of them fails.
JustificationRejects(state) ==
  LET epoch == EpochOf(state.slot)
  IN /\ epoch > 1
     /\ \/ /\ Supermajority(state.currentParticipation)
           /\ ~HasBlockRoot(state, epoch)
        \/ /\ Supermajority(state.previousParticipation)
           /\ ~HasBlockRoot(state, Previous(epoch))

---------------------------------------------------------------------------
(* Slots and blocks. *)

RotateParticipation(state) ==
  [state EXCEPT !.previousParticipation = state.currentParticipation,
                !.currentParticipation  = {}]

ProcessEpoch(state) ==
  RotateParticipation(ProcessJustificationAndFinalization(state))

ProcessSlot(state) ==
  [state EXCEPT !.blockRoots = Put(@, state.slot, state.latestRoot)]

\* Fault: the epoch is processed one slot late.
StartsEpochLate(slot) == (slot - 1) % SlotsPerEpoch = 0

StartsEpoch(slot) == slot % SlotsPerEpoch = 0

\* Defined for target > state.slot, which process_slots asserts.
ProcessSlots(state, target) ==
  LET advanced[slot \in state.slot..target] ==
        IF slot = state.slot THEN state
        ELSE LET processed == ProcessSlot(advanced[slot - 1])
             IN [(IF StartsEpoch(slot) THEN ProcessEpoch(processed) ELSE processed)
                   EXCEPT !.slot = slot]
  IN advanced[target]

\* A vote is one (aggregate) attestation: its slot, the head it votes for, its
\* target checkpoint and the validators whose bits are set.
IncludableAttestation(state, att) ==
  /\ att.target.epoch \in {EpochOf(state.slot), Previous(EpochOf(state.slot))}
  /\ att.target.epoch = EpochOf(att.slot)
  /\ att.slot + 1 <= state.slot

\* Only a vote for the state's own target sets the timely-target flag.
ProcessAttestation(state, att) ==
  IF att.target # TargetOf(state, att.target.epoch) THEN state
  ELSE IF att.target.epoch = EpochOf(state.slot)
       THEN [state EXCEPT !.currentParticipation = @ \cup att.attesters]
       ELSE [state EXCEPT !.previousParticipation = @ \cup att.attesters]

\* state has been advanced to the block's slot.
ProcessBlock(state, root, attestations) ==
  LET after[i \in 0..Len(attestations)] ==
        IF i = 0 THEN [state EXCEPT !.latestRoot = root]
        ELSE ProcessAttestation(after[i - 1], attestations[i])
  IN after[Len(attestations)]

=============================================================================
