---------------------------- MODULE FuluRegistry ----------------------------
(***************************************************************************)
(* The validator registry of the Fulu beacon state: activations and exits  *)
(* under a churn budget, slashings, and the three queues of pending        *)
(* deposits, partial withdrawals and consolidations.                       *)
(*                                                                         *)
(* One action per block operation, ordered within a block by stage, and    *)
(* one for the passage to the next slot, with the whole of process_epoch   *)
(* when that slot starts an epoch.  Simplifications:                       *)
(*   - a validator is its index: a pubkey nobody holds yet is the next     *)
(*     index, so at most one unknown pubkey is queued at a time;           *)
(*   - a request from a wrong source address, which the code ignores, and  *)
(*     an operation with a bad signature are not delivered;                *)
(*   - justification is a free choice of the finalized epoch, attestation  *)
(*     rewards and penalties a free gain or loss of one validator;         *)
(*   - an attester slashing of several validators is several slashings.    *)
(*                                                                         *)
(* A definition marked "Fault:" is not part of the model: it is a wrong    *)
(* version of the one after it, kept to show that a property notices.      *)
(***************************************************************************)
EXTENDS Integers, Sequences, FiniteSetsExt

CONSTANTS
  SlotsPerEpoch,
  FarFutureEpoch,
  EffectiveBalanceIncrement,
  MinActivationBalance,
  MaxEffectiveBalance,               \* MAX_EFFECTIVE_BALANCE_ELECTRA
  EjectionBalance,
  HysteresisQuotient,
  HysteresisDownward,
  HysteresisUpward,
  MinPerEpochChurnLimit,
  MaxPerEpochActivationExitChurnLimit,
  ChurnLimitQuotient,
  MaxSeedLookahead,
  MinValidatorWithdrawabilityDelay,
  ShardCommitteePeriod,
  EpochsPerSlashingsVector,
  MinSlashingPenaltyQuotient,
  WhistleblowerRewardQuotient,
  ProportionalSlashingMultiplier,
  MaxPendingDepositsPerEpoch,
  MaxWithdrawalsPerPayload,
  MaxPendingPartialsPerSweep,
  MaxValidatorsPerSweep,
  PendingPartialWithdrawalsLimit,
  PendingConsolidationsLimit

CONSTANTS
  InitialValidators,  \* the registry at genesis
  InitialBalances,
  MaxSlot,            \* bound: the last slot
  MaxValidators,      \* bound: no deposit for a pubkey beyond it
  MaxQueue,           \* bound: no request is queued behind this many
  FinalityLags,       \* bound: how far behind finality may be when it moves
  Deltas,             \* bound: what a validator may gain or lose in an epoch
  DepositRequests,    \* bound: [validator, credential, amount, signed]
  PartialAmounts,     \* bound: the amounts of partial withdrawal requests
  Leavers,            \* bound: the validators that ask to exit
  Offenders,          \* bound: the validators proved slashable
  Proposers,          \* bound: the proposers of blocks with slashings
  Consolidations      \* bound: <<source, target>> of consolidation requests

Validator ==
  [credential : {"bls", "eth1", "compounding"}, effectiveBalance : Nat,
   slashed : BOOLEAN, eligibility : Nat, activation : Nat, exit : Nat, withdrawable : Nat]

ASSUME RegistryAssumption ==
  /\ {FarFutureEpoch, MinActivationBalance, MaxEffectiveBalance, MinPerEpochChurnLimit,
      MaxPerEpochActivationExitChurnLimit, MaxSeedLookahead,
      MinValidatorWithdrawabilityDelay, ProportionalSlashingMultiplier,
      MaxPendingDepositsPerEpoch, MaxPendingPartialsPerSweep, MaxValidatorsPerSweep,
      MaxSlot, MaxValidators} \subseteq Nat
  /\ {SlotsPerEpoch, EffectiveBalanceIncrement, ChurnLimitQuotient,
      MinSlashingPenaltyQuotient, WhistleblowerRewardQuotient,
      MaxWithdrawalsPerPayload} \subseteq Nat \ {0}
  /\ EpochsPerSlashingsVector \in Nat \ {0, 1}

\* The presets count balances in whole increments, and let at least one leave
\* in an epoch.
ASSUME BalanceAssumption ==
  /\ MinActivationBalance % EffectiveBalanceIncrement = 0
  /\ MaxEffectiveBalance % EffectiveBalanceIncrement = 0
  /\ MinActivationBalance <= MaxEffectiveBalance
  /\ EffectiveBalanceIncrement <= MinPerEpochChurnLimit
  /\ EffectiveBalanceIncrement <= MaxPerEpochActivationExitChurnLimit

ASSUME InputAssumption ==
  /\ Deltas \subseteq Int
  /\ DepositRequests \subseteq [validator : Nat \ {0}, amount : Nat, signed : BOOLEAN,
                                credential : {"bls", "eth1", "compounding"}]
  /\ PartialAmounts \subseteq Nat \ {0}

VARIABLES
  state,    \* the fields of BeaconState the registry consists of
  stage,    \* how far the operations of the slot's block have come
  supply,   \* history: what all balances and queued deposits should add up to
  exitLog   \* history: exit epoch -> balance let out with it

vars == <<state, stage, supply, exitLog>>
history == <<supply, exitLog>>

---------------------------------------------------------------------------
(* Arithmetic and predicates on a validator. *)

Smaller(a, b) == IF a < b THEN a ELSE b
Larger(a, b) == IF a > b THEN a ELSE b
SaturatingSub(a, b) == IF a > b THEN a - b ELSE 0

CurrentEpoch(s) == s.slot \div SlotsPerEpoch
ActivationExitEpoch(epoch) == epoch + 1 + MaxSeedLookahead

Exiting(v) == v.exit # FarFutureEpoch
IsActive(v, epoch) == v.activation <= epoch /\ epoch < v.exit
IsSlashable(v, epoch) == ~v.slashed /\ v.activation <= epoch /\ epoch < v.withdrawable
PassedShardCommitteePeriod(v, epoch) == v.activation + ShardCommitteePeriod <= epoch
HasExecutionCredential(v) == v.credential \in {"eth1", "compounding"}

MaxEffective(v) ==
  IF v.credential = "compounding" THEN MaxEffectiveBalance ELSE MinActivationBalance

Rounded(balance, v) ==
  Smaller(balance - (balance % EffectiveBalanceIncrement), MaxEffective(v))

\* Nobody is slashed or leaving at genesis.
ASSUME GenesisAssumption ==
  /\ InitialValidators \in Seq(Validator) \ {<<>>}
  /\ Len(InitialValidators) <= MaxValidators
  /\ InitialBalances \in Seq(Nat)
  /\ Len(InitialBalances) = Len(InitialValidators)
  /\ \A i \in DOMAIN InitialValidators :
       LET v == InitialValidators[i]
       IN /\ v.effectiveBalance % EffectiveBalanceIncrement = 0
          /\ v.effectiveBalance <= MaxEffective(v)
          /\ ~v.slashed
          /\ v.exit = FarFutureEpoch /\ v.withdrawable = FarFutureEpoch

\* is_eligible_for_activation_queue, is_eligible_for_activation
JoinsActivationQueue(v) ==
  v.eligibility = FarFutureEpoch /\ v.effectiveBalance >= MinActivationBalance
MayActivate(s, v) ==
  v.eligibility <= s.finalizedEpoch /\ v.activation = FarFutureEpoch

\* Of a queue, or of payments: what is added up in all the sums below.
Amounts(queue) == [k \in DOMAIN queue |-> queue[k].amount]
AmountFor(queue, i) ==
  SumFunctionOnSet(Amounts(queue), {k \in DOMAIN queue : queue[k].validator = i})

PendingBalanceToWithdraw(s, i) == AmountFor(s.pendingPartialWithdrawals, i)

---------------------------------------------------------------------------
(* Churn. *)

\* The total is counted in increments, of which every effective balance is a
\* multiple.
TotalActiveBalance(s) ==
  LET active == {i \in DOMAIN s.validators : IsActive(s.validators[i], CurrentEpoch(s))}
      increments == {u \in active \X (1..(MaxEffectiveBalance \div EffectiveBalanceIncrement)) :
                       u[2] * EffectiveBalanceIncrement
                         <= s.validators[u[1]].effectiveBalance}
  IN Larger(EffectiveBalanceIncrement,
            EffectiveBalanceIncrement * Cardinality(increments))

BalanceChurnLimit(s) ==
  LET churn == Larger(MinPerEpochChurnLimit, TotalActiveBalance(s) \div ChurnLimitQuotient)
  IN churn - (churn % EffectiveBalanceIncrement)

ActivationExitChurnLimit(s) ==
  Smaller(MaxPerEpochActivationExitChurnLimit, BalanceChurnLimit(s))

ConsolidationChurnLimit(s) == BalanceChurnLimit(s) - ActivationExitChurnLimit(s)

\* The epoch that has budget for balance, and the budget that epoch and those
\* before it leave, balance not yet taken off.
ReserveChurn(balance, consume, perEpoch, earliest) ==
  LET additional == IF balance > consume
                    THEN (balance - consume - 1) \div perEpoch + 1 ELSE 0
  IN [epoch |-> earliest + additional, consume |-> consume + additional * perEpoch]

\* Fault: what was reserved is not taken off the budget.
ReserveExitForFree(s, balance) ==
  LET earliest == Larger(s.earliestExitEpoch, ActivationExitEpoch(CurrentEpoch(s)))
      perEpoch == ActivationExitChurnLimit(s)
      consume  == IF s.earliestExitEpoch < earliest THEN perEpoch
                  ELSE s.exitBalanceToConsume
      reserved == ReserveChurn(balance, consume, perEpoch, earliest)
  IN [s EXCEPT !.exitBalanceToConsume = reserved.consume,
               !.earliestExitEpoch = reserved.epoch]

\* compute_exit_epoch_and_update_churn; the epoch returned is the new
\* earliestExitEpoch.
ReserveExit(s, balance) ==
  LET earliest == Larger(s.earliestExitEpoch, ActivationExitEpoch(CurrentEpoch(s)))
      perEpoch == ActivationExitChurnLimit(s)
      consume  == IF s.earliestExitEpoch < earliest THEN perEpoch
                  ELSE s.exitBalanceToConsume
      reserved == ReserveChurn(balance, consume, perEpoch, earliest)
  IN [s EXCEPT !.exitBalanceToConsume = reserved.consume - balance,
               !.earliestExitEpoch = reserved.epoch]

\* compute_consolidation_epoch_and_update_churn, likewise
ReserveConsolidation(s, balance) ==
  LET earliest == Larger(s.earliestConsolidationEpoch, ActivationExitEpoch(CurrentEpoch(s)))
      perEpoch == ConsolidationChurnLimit(s)
      consume  == IF s.earliestConsolidationEpoch < earliest THEN perEpoch
                  ELSE s.consolidationBalanceToConsume
      reserved == ReserveChurn(balance, consume, perEpoch, earliest)
  IN [s EXCEPT !.consolidationBalanceToConsume = reserved.consume - balance,
               !.earliestConsolidationEpoch = reserved.epoch]

---------------------------------------------------------------------------
(* Exits, slashings, compounding. *)

\* Fault: an exit already under way is scheduled anew.
InitiateExitAgain(s, i) ==
  LET reserved == ReserveExit(s, s.validators[i].effectiveBalance)
      exit     == reserved.earliestExitEpoch
  IN [reserved EXCEPT
        !.validators[i].exit = exit,
        !.validators[i].withdrawable = exit + MinValidatorWithdrawabilityDelay]

InitiateExit(s, i) ==
  LET reserved == ReserveExit(s, s.validators[i].effectiveBalance)
      exit     == reserved.earliestExitEpoch
  IN IF Exiting(s.validators[i]) THEN s
     ELSE [reserved EXCEPT
             !.validators[i].exit = exit,
             !.validators[i].withdrawable = exit + MinValidatorWithdrawabilityDelay]

\* Fault: the withdrawable epoch of the exit is kept.
WithdrawableAfterExit(v, epoch) == v.withdrawable

\* Fault: a longer wait in the exit queue is cut short.
WithdrawableCutShort(v, epoch) == epoch + EpochsPerSlashingsVector

WithdrawableAfterSlashing(v, epoch) ==
  Larger(v.withdrawable, epoch + EpochsPerSlashingsVector)

SlashingPenalty(v) == v.effectiveBalance \div MinSlashingPenaltyQuotient
WhistleblowerReward(v) == v.effectiveBalance \div WhistleblowerRewardQuotient

\* slash_validator: the proposer takes the whole reward, in two parts.
Slash(s, i, proposer) ==
  LET exited    == InitiateExit(s, i)
      v         == exited.validators[i]
      epoch     == CurrentEpoch(s)
      penalized == [s.balances EXCEPT ![i] = SaturatingSub(@, SlashingPenalty(v))]
  IN [exited EXCEPT
        !.validators[i] = [v EXCEPT !.slashed = TRUE,
                                    !.withdrawable = WithdrawableAfterSlashing(v, epoch)],
        !.slashings[epoch % EpochsPerSlashingsVector] = @ + v.effectiveBalance,
        !.balances = [penalized EXCEPT ![proposer] = @ + WhistleblowerReward(v)]]

\* switch_to_compounding_validator with queue_excess_active_balance
SwitchToCompounding(s, i) ==
  LET excess  == SaturatingSub(s.balances[i], MinActivationBalance)
      deposit == [validator |-> i, credential |-> "compounding", amount |-> excess,
                  signed |-> FALSE, slot |-> 0]
  IN IF excess = 0 THEN [s EXCEPT !.validators[i].credential = "compounding"]
     ELSE [s EXCEPT !.validators[i].credential = "compounding",
                    !.balances[i] = MinActivationBalance,
                    !.pendingDeposits = Append(@, deposit)]

---------------------------------------------------------------------------
(* process_epoch, in the order of the code. *)

\* Rewards and penalties: one validator at most gains or loses, and nobody
\* before epoch 1.
RewardsAndPenalties(s, i, delta) ==
  [s EXCEPT !.balances[i] = IF CurrentEpoch(s) = 0 THEN @ ELSE Larger(@ + delta, 0)]

\* Queueing and activation touch one validator each; only the ejections compete,
\* for exit epochs, in registry order.
RegistryUpdates(s) ==
  LET epoch == CurrentEpoch(s)
      ejected == {i \in DOMAIN s.validators :
                    /\ IsActive(s.validators[i], epoch)
                    /\ s.validators[i].effectiveBalance <= EjectionBalance
                    /\ ~Exiting(s.validators[i])}
      reserved[i \in 0..Len(s.validators)] ==
        IF i = 0 THEN s
        ELSE IF i \in ejected
             THEN ReserveExit(reserved[i - 1], s.validators[i].effectiveBalance)
             ELSE reserved[i - 1]
      exit(i) == reserved[i].earliestExitEpoch
      last == reserved[Len(s.validators)]
      updated(i, v) ==
        [v EXCEPT
           !.eligibility = IF JoinsActivationQueue(v) THEN epoch + 1 ELSE @,
           !.activation = IF MayActivate(s, v) THEN ActivationExitEpoch(epoch) ELSE @,
           !.exit = IF i \in ejected THEN exit(i) ELSE @,
           !.withdrawable = IF i \in ejected
                            THEN exit(i) + MinValidatorWithdrawabilityDelay ELSE @]
  IN [s EXCEPT !.exitBalanceToConsume = last.exitBalanceToConsume,
               !.earliestExitEpoch = last.earliestExitEpoch,
               !.validators = [i \in DOMAIN @ |-> updated(i, @[i])]]

\* The epoch at which process_slashings takes its share of a slashed validator.
PenaltyEpoch(v) == v.withdrawable - EpochsPerSlashingsVector \div 2

ProcessSlashings(s) ==
  LET total    == TotalActiveBalance(s)
      slashed  == SumFunction(s.slashings)
      adjusted == Smaller(slashed * ProportionalSlashingMultiplier, total)
      penaltyPerIncrement == adjusted \div (total \div EffectiveBalanceIncrement)
      penalty(v) ==
        IF v.slashed /\ PenaltyEpoch(v) = CurrentEpoch(s)
        THEN penaltyPerIncrement * (v.effectiveBalance \div EffectiveBalanceIncrement)
        ELSE 0
  IN [s EXCEPT !.balances =
        [i \in DOMAIN @ |-> SaturatingSub(@[i], penalty(s.validators[i]))]]

\* The scan of the deposit queue, deposit by deposit.  applied and postponed
\* hold the deposits taken either way; the code applies them on the way, which
\* changes none of the scan's conditions: a validator that joins is not exiting.
DepositScan(s) ==
  LET queue  == s.pendingDeposits
      budget == s.depositBalanceToConsume + ActivationExitChurnLimit(s)
      stops(scan) ==
        \/ scan.churnReached
        \/ scan.count = Len(queue)
        \/ queue[scan.count + 1].slot > s.finalizedEpoch * SlotsPerEpoch
        \/ scan.count >= MaxPendingDepositsPerEpoch
      step(scan) ==
        LET deposit   == queue[scan.count + 1]
            known     == deposit.validator \in DOMAIN s.validators
            withdrawn == known /\ s.validators[deposit.validator].withdrawable
                                    < CurrentEpoch(s) + 1
            exiting   == known /\ Exiting(s.validators[deposit.validator])
        IN IF withdrawn
           THEN [scan EXCEPT !.count = @ + 1, !.applied = Append(@, deposit)]
           ELSE IF exiting
           THEN [scan EXCEPT !.count = @ + 1, !.postponed = Append(@, deposit)]
           ELSE IF scan.processed + deposit.amount > budget
           THEN [scan EXCEPT !.churnReached = TRUE]
           ELSE [scan EXCEPT !.count = @ + 1, !.applied = Append(@, deposit),
                             !.processed = @ + deposit.amount]
      scan[k \in 0..(Len(queue) + 1)] ==
        IF k = 0 THEN [count |-> 0, processed |-> 0, applied |-> <<>>,
                       postponed |-> <<>>, churnReached |-> FALSE]
        ELSE IF stops(scan[k - 1]) THEN scan[k - 1]
        ELSE step(scan[k - 1])
  IN scan[Len(queue) + 1]

\* The applied deposits that count: top-ups, and for an unknown validator those
\* from the first that carries a valid signature.
Counted(s, applied) ==
  {k \in DOMAIN applied :
     \/ applied[k].validator \in DOMAIN s.validators
     \/ \E j \in 1..k : applied[j].validator = applied[k].validator /\ applied[j].signed}

NewValidator(deposit) ==
  LET v == [credential |-> deposit.credential, effectiveBalance |-> 0, slashed |-> FALSE,
            eligibility |-> FarFutureEpoch, activation |-> FarFutureEpoch,
            exit |-> FarFutureEpoch, withdrawable |-> FarFutureEpoch]
  IN [v EXCEPT !.effectiveBalance = Rounded(deposit.amount, v)]

\* apply_pending_deposit for all of them
ApplyDeposits(s, applied) ==
  LET counted == Counted(s, applied)
      joining == {k \in counted : applied[k].validator \notin DOMAIN s.validators}
      validators == IF joining = {} THEN s.validators
                    ELSE Append(s.validators, NewValidator(applied[Min(joining)]))
      deposited(i) == SumFunctionOnSet(Amounts(applied),
                                       {k \in counted : applied[k].validator = i})
  IN [s EXCEPT
        !.validators = validators,
        !.balances = [i \in DOMAIN validators |->
          (IF i \in DOMAIN s.balances THEN s.balances[i] ELSE 0) + deposited(i)]]

\* Fault: budget that was not used up is always kept.
BudgetLeftAlways(s, scan) ==
  s.depositBalanceToConsume + ActivationExitChurnLimit(s) - scan.processed

BudgetLeft(s, scan) ==
  IF scan.churnReached
  THEN s.depositBalanceToConsume + ActivationExitChurnLimit(s) - scan.processed
  ELSE 0

\* Fault: the postponed deposits are lost.
DepositsNotScanned(s, scan) ==
  SubSeq(s.pendingDeposits, scan.count + 1, Len(s.pendingDeposits))

\* Postponed deposits go behind the rest.
DepositsLeft(s, scan) ==
  SubSeq(s.pendingDeposits, scan.count + 1, Len(s.pendingDeposits)) \o scan.postponed

ProcessPendingDeposits(s) ==
  LET scan == DepositScan(s)
  IN [ApplyDeposits(s, scan.applied) EXCEPT
        !.pendingDeposits = DepositsLeft(s, scan),
        !.depositBalanceToConsume = BudgetLeft(s, scan)]

\* Fault: still waits when the source becomes withdrawable in the next epoch.
ConsolidationWaitsLonger(s, v) == ~v.slashed /\ v.withdrawable > CurrentEpoch(s)

ConsolidationWaits(s, v) == ~v.slashed /\ v.withdrawable > CurrentEpoch(s) + 1

\* Fault: what the source does not have is moved too.
ConsolidatedOnPaper(balance, v) == v.effectiveBalance

Consolidated(balance, v) == Smaller(balance, v.effectiveBalance)

ProcessPendingConsolidations(s) ==
  LET queue == s.pendingConsolidations
      waiting == {k \in DOMAIN queue : ConsolidationWaits(s, s.validators[queue[k].source])}
      done == IF waiting = {} THEN Len(queue) ELSE Min(waiting) - 1
      after[k \in 0..done] ==
        IF k = 0 THEN s.balances
        ELSE LET source == queue[k].source
                 amount == Consolidated(after[k - 1][source], s.validators[source])
             IN IF s.validators[source].slashed THEN after[k - 1]
                ELSE [[after[k - 1] EXCEPT ![source] = SaturatingSub(@, amount)]
                        EXCEPT ![queue[k].target] = @ + amount]
  IN [s EXCEPT !.balances = after[done],
               !.pendingConsolidations = SubSeq(queue, done + 1, Len(queue))]

EffectiveBalanceUpdates(s) ==
  LET hysteresis == EffectiveBalanceIncrement \div HysteresisQuotient
      moved(v, balance) ==
        \/ balance + hysteresis * HysteresisDownward < v.effectiveBalance
        \/ v.effectiveBalance + hysteresis * HysteresisUpward < balance
  IN [s EXCEPT !.validators =
        [i \in DOMAIN @ |->
           IF moved(@[i], s.balances[i])
           THEN [@[i] EXCEPT !.effectiveBalance = Rounded(s.balances[i], s.validators[i])]
           ELSE @[i]]]

SlashingsReset(s) ==
  [s EXCEPT !.slashings[(CurrentEpoch(s) + 1) % EpochsPerSlashingsVector] = 0]

\* The steps before the deposit queue, and those from it on.
EpochBalances(s, finalized, i, delta) ==
  ProcessSlashings(RegistryUpdates(
    RewardsAndPenalties([s EXCEPT !.finalizedEpoch = finalized], i, delta)))

EpochQueues(s) ==
  SlashingsReset(EffectiveBalanceUpdates(
    ProcessPendingConsolidations(ProcessPendingDeposits(s))))

---------------------------------------------------------------------------
(* process_withdrawals *)

\* A payment is one withdrawal of the payload.
PaidTo(payments, i) == AmountFor(payments, i)

\* Fault: what the payload already pays is forgotten.
BalanceBeforeWithdrawals(s, i, payments) == s.balances[i]

BalanceAfterWithdrawals(s, i, payments) == s.balances[i] - PaidTo(payments, i)

IsFullyWithdrawable(v, balance, epoch) ==
  HasExecutionCredential(v) /\ v.withdrawable <= epoch /\ balance > 0

IsPartiallyWithdrawable(v, balance) ==
  /\ HasExecutionCredential(v)
  /\ v.effectiveBalance = MaxEffective(v)
  /\ balance > MaxEffective(v)

IsEligibleForPartialWithdrawals(v, balance) ==
  /\ ~Exiting(v)
  /\ v.effectiveBalance >= MinActivationBalance
  /\ balance > MinActivationBalance

\* The queue of partial withdrawals, up to the first that is not due.
PartialWithdrawals(s) ==
  LET queue == s.pendingPartialWithdrawals
      limit == Smaller(MaxPendingPartialsPerSweep, MaxWithdrawalsPerPayload - 1)
      taken[k \in 0..Len(queue)] ==
        IF k = 0 THEN [payments |-> <<>>, processed |-> 0]
        ELSE LET before   == taken[k - 1]
                 request  == queue[k]
                 balance  == BalanceAfterWithdrawals(s, request.validator, before.payments)
                 stopped  == \/ before.processed < k - 1
                             \/ request.withdrawable > CurrentEpoch(s)
                             \/ Len(before.payments) >= limit
                 eligible == IsEligibleForPartialWithdrawals(
                               s.validators[request.validator], balance)
             IN IF stopped THEN before
                ELSE [payments |->
                        IF eligible
                        THEN Append(before.payments,
                               [validator |-> request.validator,
                                amount |-> Smaller(balance - MinActivationBalance,
                                                   request.amount)])
                        ELSE before.payments,
                      processed |-> k]
  IN taken[Len(queue)]

NthFrom(cursor, n, s) == ((cursor - 1 + n) % Len(s.validators)) + 1

\* get_expected_withdrawals: then the sweep over the validators
ExpectedWithdrawals(s) ==
  LET limit == Smaller(Len(s.validators), MaxValidatorsPerSweep)
      swept[n \in 0..limit] ==
        IF n = 0 THEN PartialWithdrawals(s).payments
        ELSE LET before  == swept[n - 1]
                 i       == NthFrom(s.nextWithdrawalValidator, n - 1, s)
                 v       == s.validators[i]
                 balance == BalanceAfterWithdrawals(s, i, before)
                 pay(amount) == Append(before, [validator |-> i, amount |-> amount])
             IN IF Len(before) >= MaxWithdrawalsPerPayload THEN before
                ELSE IF IsFullyWithdrawable(v, balance, CurrentEpoch(s)) THEN pay(balance)
                ELSE IF IsPartiallyWithdrawable(v, balance)
                     THEN pay(balance - MaxEffective(v))
                ELSE before
  IN swept[limit]

\* Fault: the cursor passes over validators the full payload had no room for.
CursorPastSweep(s, payments) ==
  NthFrom(s.nextWithdrawalValidator, MaxValidatorsPerSweep, s)

CursorAfter(s, payments) ==
  IF Len(payments) = MaxWithdrawalsPerPayload
  THEN NthFrom(payments[Len(payments)].validator, 1, s)
  ELSE NthFrom(s.nextWithdrawalValidator, MaxValidatorsPerSweep, s)

ProcessWithdrawals(s) ==
  LET payments == ExpectedWithdrawals(s)
      queue    == s.pendingPartialWithdrawals
  IN [s EXCEPT
        !.balances = [i \in DOMAIN @ |-> SaturatingSub(@[i], PaidTo(payments, i))],
        !.pendingPartialWithdrawals =
           SubSeq(queue, PartialWithdrawals(s).processed + 1, Len(queue)),
        !.nextWithdrawalValidator = CursorAfter(s, payments)]


---------------------------------------------------------------------------
(* Operations of a block and the passage of slots.  supply and exitLog keep
   what the properties compare the state with. *)

\* What the registry holds for validators and depositors.
Worth(s) == SumFunction(s.balances) + SumFunction(Amounts(s.pendingDeposits))

\* The deposits for an unknown validator whose signature is not valid.
Dropped(s) ==
  LET applied == DepositScan(s).applied
  IN SumFunctionOnSet(Amounts(applied), DOMAIN applied \ Counted(s, applied))

\* The log, continued by the exits a step from s to t schedules, in registry
\* order.
Logged(s, t) ==
  LET log[i \in 0..Len(s.validators)] ==
        IF i = 0 THEN exitLog
        ELSE IF ~Exiting(s.validators[i]) /\ Exiting(t.validators[i])
        THEN Append(log[i - 1], [validator |-> i, epoch |-> t.validators[i].exit,
                                 amount |-> s.validators[i].effectiveBalance])
        ELSE log[i - 1]
  IN log[Len(s.validators)]

Init ==
  /\ state = [validators |-> InitialValidators, balances |-> InitialBalances,
              slot |-> 0, finalizedEpoch |-> 0,
              slashings |-> [k \in 0..(EpochsPerSlashingsVector - 1) |-> 0],
              depositBalanceToConsume |-> 0,
              exitBalanceToConsume |-> 0, earliestExitEpoch |-> 0,
              consolidationBalanceToConsume |-> 0, earliestConsolidationEpoch |-> 0,
              pendingDeposits |-> <<>>, pendingPartialWithdrawals |-> <<>>,
              pendingConsolidations |-> <<>>, nextWithdrawalValidator |-> 1]
  /\ stage = 0
  /\ supply = Worth(state)
  /\ exitLog = <<>>

EndsEpoch(s) == (s.slot + 1) % SlotsPerEpoch = 0

NextSlot ==
  /\ state.slot < MaxSlot
  /\ ~EndsEpoch(state)
  /\ state' = [state EXCEPT !.slot = @ + 1]
  /\ stage' = 0
  /\ UNCHANGED history

\* process_epoch, for a finalized epoch, a validator and its gain or loss.
NextEpoch(finalized, i, delta) ==
  LET settled == EpochBalances(state, finalized, i, delta)
      next    == [EpochQueues(settled) EXCEPT !.slot = @ + 1]
  IN /\ state.slot < MaxSlot
     /\ EndsEpoch(state)
     /\ state' = next
     /\ stage' = 0
     /\ supply' = supply - (Worth(state) - Worth(settled)) - Dropped(settled)
     /\ exitLog' = Logged(state, next)

\* The block of the slot, if it has one, starts with its withdrawals.
BeginBlock ==
  LET payments == ExpectedWithdrawals(state)
  IN /\ stage = 0
     /\ state' = ProcessWithdrawals(state)
     /\ stage' = 1
     /\ supply' = supply - SumFunction(Amounts(payments))
     /\ UNCHANGED exitLog

\* The operations come in the order of process_operations.
Operation(kind) == stage \in 1..kind /\ stage' = kind

\* process_proposer_slashing, and process_attester_slashing for one validator
ProcessSlashing(i, proposer) ==
  LET v == state.validators[i]
  IN /\ Operation(2)
     /\ IsSlashable(v, CurrentEpoch(state))
     /\ state' = Slash(state, i, proposer)
     /\ supply' = supply - Smaller(state.balances[i], SlashingPenalty(v))
                         + WhistleblowerReward(v)
     /\ exitLog' = Logged(state, state')

ProcessVoluntaryExit(i) ==
  LET v == state.validators[i]
  IN /\ Operation(3)
     /\ IsActive(v, CurrentEpoch(state))
     /\ ~Exiting(v)
     /\ PassedShardCommitteePeriod(v, CurrentEpoch(state))
     /\ PendingBalanceToWithdraw(state, i) = 0
     /\ state' = InitiateExit(state, i)
     /\ exitLog' = Logged(state, state')
     /\ UNCHANGED supply

ProcessBlsToExecutionChange(i) ==
  /\ Operation(4)
  /\ state.validators[i].credential = "bls"
  /\ state' = [state EXCEPT !.validators[i].credential = "eth1"]
  /\ UNCHANGED history

ProcessDepositRequest(request) ==
  LET deposit == [validator |-> request.validator, credential |-> request.credential,
                  amount |-> request.amount, signed |-> request.signed,
                  slot |-> state.slot]
  IN /\ Operation(5)
     /\ request.validator <= Smaller(Len(state.validators) + 1, MaxValidators)
     /\ Len(state.pendingDeposits) < MaxQueue
     /\ state' = [state EXCEPT !.pendingDeposits = Append(@, deposit)]
     /\ supply' = supply + request.amount
     /\ UNCHANGED exitLog

\* The ladder both forms of process_withdrawal_request go through.
MayRequestWithdrawal(i) ==
  LET v == state.validators[i]
  IN /\ HasExecutionCredential(v)
     /\ IsActive(v, CurrentEpoch(state))
     /\ ~Exiting(v)
     /\ PassedShardCommitteePeriod(v, CurrentEpoch(state))

FullExitRequest(i) ==
  /\ Operation(6)
  /\ MayRequestWithdrawal(i)
  /\ PendingBalanceToWithdraw(state, i) = 0
  /\ state' = InitiateExit(state, i)
  /\ exitLog' = Logged(state, state')
  /\ UNCHANGED supply

PartialWithdrawalRequest(i, amount) ==
  LET v          == state.validators[i]
      pending    == PendingBalanceToWithdraw(state, i)
      toWithdraw == Smaller(state.balances[i] - MinActivationBalance - pending, amount)
      reserved   == ReserveExit(state, toWithdraw)
      request    == [validator |-> i, amount |-> toWithdraw,
                     withdrawable |-> reserved.earliestExitEpoch
                                        + MinValidatorWithdrawabilityDelay]
  IN /\ Operation(6)
     /\ Len(state.pendingPartialWithdrawals) # PendingPartialWithdrawalsLimit
     /\ MayRequestWithdrawal(i)
     /\ v.credential = "compounding"
     /\ v.effectiveBalance >= MinActivationBalance
     /\ state.balances[i] > MinActivationBalance + pending
     /\ state' = [reserved EXCEPT !.pendingPartialWithdrawals = Append(@, request)]
     /\ exitLog' = Append(exitLog, [validator |-> i, epoch |-> reserved.earliestExitEpoch,
                                    amount |-> toWithdraw])
     /\ UNCHANGED supply

ProcessSwitchToCompounding(i) ==
  LET v == state.validators[i]
  IN /\ Operation(7)
     /\ v.credential = "eth1"
     /\ IsActive(v, CurrentEpoch(state))
     /\ ~Exiting(v)
     /\ state' = SwitchToCompounding(state, i)
     /\ UNCHANGED history

ProcessConsolidationRequest(source, target) ==
  LET src      == state.validators[source]
      tgt      == state.validators[target]
      epoch    == CurrentEpoch(state)
      reserved == ReserveConsolidation(state, src.effectiveBalance)
      exit     == reserved.earliestConsolidationEpoch
  IN /\ Operation(7)
     /\ {source, target} \subseteq DOMAIN state.validators
     /\ source # target
     /\ Len(state.pendingConsolidations) # PendingConsolidationsLimit
     /\ ConsolidationChurnLimit(state) > MinActivationBalance
     /\ HasExecutionCredential(src)
     /\ tgt.credential = "compounding"
     /\ IsActive(src, epoch) /\ IsActive(tgt, epoch)
     /\ ~Exiting(src) /\ ~Exiting(tgt)
     /\ PassedShardCommitteePeriod(src, epoch)
     /\ PendingBalanceToWithdraw(state, source) = 0
     /\ state' = [reserved EXCEPT
                    !.validators[source].exit = exit,
                    !.validators[source].withdrawable = exit + MinValidatorWithdrawabilityDelay,
                    !.pendingConsolidations = Append(@, [source |-> source, target |-> target])]
     /\ UNCHANGED history

\* Finality stays or moves, to an epoch before the one that ends.  Epoch 2 is the
\* first to justify, epoch 3 the first to finalize.
FinalizedChoices ==
  LET epoch == CurrentEpoch(state)
  IN {state.finalizedEpoch}
       \cup {e \in state.finalizedEpoch..(epoch - 1) : epoch >= 3 /\ epoch - e \in FinalityLags}

Known == DOMAIN state.validators

Next ==
  \/ NextSlot
  \/ \E finalized \in FinalizedChoices, i \in Known, delta \in Deltas :
       NextEpoch(finalized, i, delta)
  \/ BeginBlock
  \/ \E i \in Offenders \cap Known, proposer \in Proposers \cap Known :
       ProcessSlashing(i, proposer)
  \/ \E i \in Leavers \cap Known : ProcessVoluntaryExit(i)
  \/ \E i \in Known : ProcessBlsToExecutionChange(i)
  \/ \E request \in DepositRequests : ProcessDepositRequest(request)
  \/ \E i \in Leavers \cap Known : FullExitRequest(i)
  \/ \E i \in Known, amount \in PartialAmounts : PartialWithdrawalRequest(i, amount)
  \/ \E i \in Known : ProcessSwitchToCompounding(i)
  \/ \E c \in Consolidations : ProcessConsolidationRequest(c[1], c[2])

Spec == Init /\ [][Next]_vars

---------------------------------------------------------------------------
(* Properties *)

\* The types; one balance per validator, as increase_balance and sszGetIdx rely
\* on; and effective balances that are whole increments under their maximum.
TypeOK ==
  /\ state.validators \in Seq(Validator)
  /\ state.balances \in Seq(Nat)
  /\ Len(state.balances) = Len(state.validators)
  /\ \A i \in Known :
       /\ state.validators[i].effectiveBalance % EffectiveBalanceIncrement = 0
       /\ state.validators[i].effectiveBalance <= MaxEffective(state.validators[i])
  /\ state.slot \in 0..MaxSlot
  /\ state.finalizedEpoch \in 0..CurrentEpoch(state)
  /\ state.slashings \in [0..(EpochsPerSlashingsVector - 1) -> Nat]
  /\ {state.depositBalanceToConsume, state.exitBalanceToConsume, state.earliestExitEpoch,
      state.consolidationBalanceToConsume, state.earliestConsolidationEpoch} \subseteq Nat
  /\ state.pendingDeposits \in
       Seq([validator : 1..MaxValidators, credential : {"bls", "eth1", "compounding"},
            amount : Nat, signed : BOOLEAN, slot : 0..MaxSlot])
  /\ state.pendingPartialWithdrawals \in
       Seq([validator : Known, amount : Nat \ {0}, withdrawable : Nat])
  /\ state.pendingConsolidations \in Seq([source : Known, target : Known])
  /\ state.nextWithdrawalValidator \in Known
  /\ stage \in 0..7

\* An exit that is scheduled stays as it is: initiate_validator_exit and the
\* requests check for it, and nothing else writes exit_epoch.
ExitsAreFinal ==
  [][\A i \in Known : Exiting(state.validators[i])
       => state'.validators[i].exit = state.validators[i].exit]_vars

\* The penalty of process_slashings lies ahead of a validator when it is
\* slashed, and the epoch it falls in is not moved any more: it is taken once,
\* neither missed nor repeated.  (What every step does.)
PenaltyAhead ==
  \A i \in Known :
    LET v == state.validators[i]
        w == state'.validators[i]
    IN /\ ~v.slashed /\ w.slashed => PenaltyEpoch(w) > CurrentEpoch(state)
       /\ v.slashed => w.slashed /\ w.withdrawable = v.withdrawable

\* A validator is not withdrawable before its exit is the delay behind it, and
\* not at all without one, whichever of exit, slashing, ejection and
\* consolidation came first.
WithdrawableAfterDelay ==
  \A i \in Known :
    LET v == state.validators[i]
    IN IF Exiting(v) THEN v.withdrawable >= v.exit + MinValidatorWithdrawabilityDelay
       ELSE v.withdrawable = FarFutureEpoch

\* compute_exit_epoch_and_update_churn lets no more balance out in a span of
\* epochs than its churn limits allow, but for the reservation the span opens
\* with, part of which an earlier budget may have paid.
ExitChurnBounded ==
  \A first, last \in DOMAIN exitLog :
    first < last =>
      SumFunctionOnSet(Amounts(exitLog), (first + 1)..last)
        <= MaxPerEpochActivationExitChurnLimit
             * (exitLog[last].epoch - exitLog[first].epoch + 1)

\* Deposits, consolidations, compounding and the queues only move value: what
\* validators and depositors hold is what came in, less what was withdrawn,
\* forfeited, or sent without a signature.
ValueConserved == Worth(state) = supply

\* process_pending_consolidations moves a source's balance before the sweep of
\* process_withdrawals may pay it out: no source that still waits is withdrawable.
ConsolidationsBeatSweep ==
  \A k \in DOMAIN state.pendingConsolidations :
    LET source == state.validators[state.pendingConsolidations[k].source]
    IN source.slashed \/ source.withdrawable > CurrentEpoch(state)

\* deposit_balance_to_consume is only ever the budget the first deposit of the
\* queue is too large for: process_pending_deposits does not save up budget.
DepositBudgetNotHoarded ==
  state.depositBalanceToConsume > 0 =>
    /\ state.pendingDeposits # <<>>
    /\ Head(state.pendingDeposits).amount > state.depositBalanceToConsume

\* Partial withdrawals are queued in the order they fall due, so that stopping
\* at the first that is not due, as get_expected_withdrawals does, delays none.
PartialsSorted ==
  \A j, k \in DOMAIN state.pendingPartialWithdrawals :
    j < k => state.pendingPartialWithdrawals[j].withdrawable
               <= state.pendingPartialWithdrawals[k].withdrawable

\* Each of the three queues is left in the order, and with the budget, its
\* consumer counts on.
QueuesInOrder ==
  /\ ConsolidationsBeatSweep
  /\ DepositBudgetNotHoarded
  /\ PartialsSorted

\* Whatever a balance has become since a partial withdrawal was queued, the
\* payments of one payload, partial ones and those of the sweep together, leave
\* a validator that is not withdrawable its minimum stake, and none a debt: the
\* subtraction of get_balance_after_withdrawals does not underflow.
StakeKept ==
  \A i \in Known :
    LET paid == PaidTo(ExpectedWithdrawals(state), i)
        due  == state.validators[i].withdrawable <= CurrentEpoch(state)
    IN paid # 0 => state.balances[i] - paid >= IF due THEN 0 ELSE MinActivationBalance

\* Every state is well typed (no balance falls below zero, no epoch leaves its
\* range), and no payload of withdrawals leaves a validator less than it must
\* keep.
WithdrawalsKeepStake == TypeOK /\ StakeKept

\* A validator the cursor of process_withdrawals passes has nothing left that
\* the sweep would pay.  (The cursor is told apart from a full round only if
\* MaxValidatorsPerSweep is less than the number of validators.  What every
\* step does.)
SweepSkipsNobody ==
  stage = 0 /\ stage' = 1 =>
    LET from   == state.nextWithdrawalValidator
        steps  == (state'.nextWithdrawalValidator - from) % Len(state.validators)
        passed == {NthFrom(from, n, state) : n \in 0..(steps - 1)}
    IN \A i \in passed :
         LET v == state'.validators[i]
         IN /\ ~IsFullyWithdrawable(v, state'.balances[i], CurrentEpoch(state))
            /\ ~IsPartiallyWithdrawable(v, state'.balances[i])

=============================================================================
