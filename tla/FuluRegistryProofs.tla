------------------------- MODULE FuluRegistryProofs -------------------------
(***************************************************************************)
(* Theorems about FuluRegistry, for every registry and every value of the  *)
(* limits.                                                                 *)
(*                                                                         *)
(* The first part, that a scheduled exit is final, needs nothing of the    *)
(* sums and scans the operators are made of: it is about which fields of   *)
(* which validator an operator may write.  The second reads those sums.    *)
(* RegistryInv gives every field its type, keeps each queued amount within *)
(* the balance it is taken from, and is preserved operation by operation;  *)
(* that no payment exceeds a balance and that no stake appears or          *)
(* disappears follow from it and from the laws of InductionLemmas.         *)
(*                                                                         *)
(* The third is what the registry does with exits: when a validator that   *)
(* leaves may withdraw, in what order the queues are left, and how much    *)
(* may leave in a span of epochs.  The rules a step keeps to (StepRules)   *)
(* are proved action by action; the invariants then follow from the rules  *)
(* alone.  Last, whom the sweep of the withdrawals passes.                 *)
(***************************************************************************)
EXTENDS FuluRegistry, InductionLemmas, TLAPS

IsSequence(q) == \E n \in Nat : q = [k \in 1..n |-> q[k]]

\* The registry is a sequence of records that have an exit epoch.
Shape(s) ==
  /\ "validators" \in DOMAIN s
  /\ IsSequence(s.validators)
  /\ \A i \in DOMAIN s.validators : "exit" \in DOMAIN s.validators[i]

\* From s to t no validator disappears and no scheduled exit changes.
Keeps(s, t) ==
  /\ Shape(t)
  /\ DOMAIN s.validators \subseteq DOMAIN t.validators
  /\ \A i \in DOMAIN s.validators :
       Exiting(s.validators[i]) => t.validators[i].exit = s.validators[i].exit

\* Steps that keep the exits compose.
LEMMA KeepsTransitive ==
  ASSUME NEW r, NEW s, NEW t, Keeps(r, s), Keeps(s, t)
  PROVE  Keeps(r, t)
BY DEF Keeps, Exiting

\* What leaves the registry alone keeps every exit.
LEMMA KeepsUntouched ==
  ASSUME NEW s, NEW t, Shape(s),
         "validators" \in DOMAIN t, t.validators = s.validators
  PROVE  Keeps(s, t)
BY DEF Keeps, Shape

\* Replacing one validator that has no exit scheduled keeps the others.
LEMMA OneReplaced ==
  ASSUME NEW s, NEW t, NEW i \in DOMAIN s.validators, NEW e, Shape(s),
         "validators" \in DOMAIN t,
         t.validators = [s.validators EXCEPT ![i] = e],
         "exit" \in DOMAIN e,
         Exiting(s.validators[i]) => e.exit = s.validators[i].exit
  PROVE  Keeps(s, t)
<1> DEFINE v == s.validators
           w == t.validators
<1>1. PICK n \in Nat : v = [k \in 1..n |-> v[k]]
  BY DEF Shape, IsSequence
<1>2. /\ DOMAIN w = DOMAIN v
      /\ w[i] = e
      /\ \A k \in DOMAIN v : k # i => w[k] = v[k]
  OBVIOUS
<1>3. w = [k \in 1..n |-> w[k]]
  BY <1>1
<1>4. Shape(t)
  BY <1>2, <1>3 DEF Shape, IsSequence
<1> QED BY <1>2, <1>4 DEF Keeps

\* So does rewriting them all, if those that exit keep their exit epoch.
LEMMA AllReplaced ==
  ASSUME NEW s, NEW t, Shape(s),
         "validators" \in DOMAIN t,
         t.validators = [k \in DOMAIN s.validators |-> t.validators[k]],
         \A k \in DOMAIN s.validators :
           /\ "exit" \in DOMAIN t.validators[k]
           /\ Exiting(s.validators[k]) => t.validators[k].exit = s.validators[k].exit
  PROVE  Keeps(s, t)
<1> DEFINE v == s.validators
           w == t.validators
<1>1. PICK n \in Nat : v = [k \in 1..n |-> v[k]]
  BY DEF Shape, IsSequence
<1>2. DOMAIN v = 1..n
  BY <1>1
<1>3. DOMAIN w = DOMAIN v /\ w = [k \in 1..n |-> w[k]]
  BY <1>2
<1>4. Shape(t)
  BY <1>3 DEF Shape, IsSequence
<1> QED BY <1>3, <1>4 DEF Keeps

\* And appending one.
LEMMA OneAppended ==
  ASSUME NEW s, NEW t, NEW e, Shape(s),
         "validators" \in DOMAIN t,
         t.validators = Append(s.validators, e),
         "exit" \in DOMAIN e
  PROVE  Keeps(s, t)
<1> DEFINE v == s.validators
           w == t.validators
<1>1. PICK n \in Nat : v = [k \in 1..n |-> v[k]]
  BY DEF Shape, IsSequence
<1>2. v \in Seq({v[k] : k \in 1..n})
  BY <1>1
<1>3. Len(v) = n /\ DOMAIN v = 1..n
  BY <1>1, <1>2
<1>4. w = [k \in 1..(n + 1) |-> IF k = n + 1 THEN e ELSE v[k]]
  BY <1>2, <1>3
<1>5. /\ DOMAIN w = 1..(n + 1)
      /\ \A k \in DOMAIN v : w[k] = v[k]
      /\ w[n + 1] = e
  BY <1>3, <1>4
<1>6. w = [k \in 1..(n + 1) |-> w[k]]
  BY <1>4
<1>7. \A k \in DOMAIN w : "exit" \in DOMAIN w[k]
  <2> TAKE k \in DOMAIN w
  <2>1. k = n + 1 \/ k \in DOMAIN v
    BY <1>3, <1>5
  <2> QED BY <2>1, <1>5 DEF Shape
<1>8. Shape(t)
  BY <1>6, <1>7 DEF Shape, IsSequence
<1> QED BY <1>3, <1>5, <1>8 DEF Keeps

\* A reservation of churn leaves the registry alone.
LEMMA ReserveExitKeeps ==
  ASSUME NEW s, NEW balance, Shape(s)
  PROVE  /\ "validators" \in DOMAIN ReserveExit(s, balance)
         /\ ReserveExit(s, balance).validators = s.validators
BY DEF ReserveExit, Shape

\* initiate_validator_exit returns early for a validator with an exit.
LEMMA InitiateExitKeeps ==
  ASSUME NEW s, NEW i \in DOMAIN s.validators, Shape(s)
  PROVE  Keeps(s, InitiateExit(s, i))
<1>1. CASE Exiting(s.validators[i])
  BY <1>1, KeepsUntouched DEF InitiateExit, Shape
<1>2. CASE ~Exiting(s.validators[i])
  <2> DEFINE r == ReserveExit(s, s.validators[i].effectiveBalance)
             t == InitiateExit(s, i)
             exit == r.earliestExitEpoch
             v == s.validators
             e == [v[i] EXCEPT !.exit = exit,
                               !.withdrawable = exit + MinValidatorWithdrawabilityDelay]
  <2>1. "validators" \in DOMAIN r /\ r.validators = v
    BY ReserveExitKeeps
  <2>2. t = [r EXCEPT !.validators[i].exit = exit,
                     !.validators[i].withdrawable = exit + MinValidatorWithdrawabilityDelay]
    BY <1>2 DEF InitiateExit
  <2> HIDE DEF r, t, exit
  <2>3. "validators" \in DOMAIN t /\ t.validators = [v EXCEPT ![i] = e]
    BY <2>1, <2>2
  <2>4. "exit" \in DOMAIN v[i] /\ "exit" \in DOMAIN e
    BY DEF Shape
  <2> HIDE DEF v, e
  <2> QED BY <1>2, <2>3, <2>4, OneReplaced DEF v, t
<1> QED BY <1>1, <1>2

\* A slashing moves withdrawable epochs, never a scheduled exit.
LEMMA SlashKeeps ==
  ASSUME NEW s, NEW i \in DOMAIN s.validators, NEW proposer, Shape(s)
  PROVE  Keeps(s, Slash(s, i, proposer))
<1> DEFINE r == InitiateExit(s, i)
           v == r.validators[i]
           t == Slash(s, i, proposer)
           w == WithdrawableAfterSlashing(v, CurrentEpoch(s))
           e == [v EXCEPT !.slashed = TRUE, !.withdrawable = w]
<1>1. Keeps(s, r)
  BY InitiateExitKeeps
<1>2. Shape(r) /\ i \in DOMAIN r.validators
  BY <1>1 DEF Keeps
<1>3. "validators" \in DOMAIN t /\ t.validators = [r.validators EXCEPT ![i] = e]
  <2> HIDE DEF r, w
  <2> QED BY <1>2 DEF Slash, Shape, r, w
<1>4. "exit" \in DOMAIN e /\ e.exit = v.exit
  BY <1>2 DEF Shape
<1>5. Keeps(r, t)
  <2> HIDE DEF r, t, e
  <2> QED BY <1>2, <1>3, <1>4, OneReplaced DEF v
<1> QED BY <1>1, <1>5, KeepsTransitive

\* A switch of credentials keeps exits.
LEMMA SwitchToCompoundingKeeps ==
  ASSUME NEW s, NEW i \in DOMAIN s.validators, Shape(s)
  PROVE  Keeps(s, SwitchToCompounding(s, i))
<1> DEFINE v == s.validators[i]
           e == [v EXCEPT !.credential = "compounding"]
           t == SwitchToCompounding(s, i)
<1>1. "validators" \in DOMAIN t /\ t.validators = [s.validators EXCEPT ![i] = e]
  BY DEF SwitchToCompounding, Shape
<1>2. "exit" \in DOMAIN e /\ e.exit = v.exit
  BY DEF Shape
<1> HIDE DEF t, e
<1> QED BY <1>1, <1>2, OneReplaced DEF v, t

\* process_registry_updates ejects only validators without an exit.
LEMMA RegistryUpdatesKeeps ==
  ASSUME NEW s, Shape(s)
  PROVE  Keeps(s, RegistryUpdates(s))
<1> DEFINE t == RegistryUpdates(s)
<1>1. /\ "validators" \in DOMAIN t
      /\ t.validators = [k \in DOMAIN s.validators |-> t.validators[k]]
  BY DEF RegistryUpdates, Shape
<1>2. ASSUME NEW k \in DOMAIN s.validators
      PROVE  /\ "exit" \in DOMAIN t.validators[k]
             /\ Exiting(s.validators[k]) => t.validators[k].exit = s.validators[k].exit
  BY DEF RegistryUpdates, Shape
<1> HIDE DEF t
<1> QED BY <1>1, <1>2, AllReplaced DEF t

\* Effective balances change, exits do not.
LEMMA EffectiveBalanceUpdatesKeeps ==
  ASSUME NEW s, Shape(s)
  PROVE  Keeps(s, EffectiveBalanceUpdates(s))
<1> DEFINE t == EffectiveBalanceUpdates(s)
<1>1. /\ "validators" \in DOMAIN t
      /\ t.validators = [k \in DOMAIN s.validators |-> t.validators[k]]
  BY DEF EffectiveBalanceUpdates, Shape
<1>2. ASSUME NEW k \in DOMAIN s.validators
      PROVE  /\ "exit" \in DOMAIN t.validators[k]
             /\ t.validators[k].exit = s.validators[k].exit
  BY DEF EffectiveBalanceUpdates, Shape
<1> HIDE DEF t
<1> QED BY <1>1, <1>2, AllReplaced DEF t

\* Deposits only append validators.
LEMMA ProcessPendingDepositsKeeps ==
  ASSUME NEW s, Shape(s)
  PROVE  Keeps(s, ProcessPendingDeposits(s))
<1> DEFINE applied == DepositScan(s).applied
           joining == {k \in Counted(s, applied) :
                         applied[k].validator \notin DOMAIN s.validators}
           e == NewValidator(applied[Min(joining)])
           t == ProcessPendingDeposits(s)
<1>1. /\ "validators" \in DOMAIN t
      /\ t.validators = IF joining = {} THEN s.validators ELSE Append(s.validators, e)
  <2> HIDE DEF e
  <2> QED BY DEF ProcessPendingDeposits, ApplyDeposits, Shape, e
<1>2. "exit" \in DOMAIN e
  BY DEF NewValidator
<1> HIDE DEF t, e, joining
<1>3. CASE joining = {}
  BY <1>1, <1>3, KeepsUntouched DEF t
<1>4. CASE joining # {}
  BY <1>1, <1>2, <1>4, OneAppended DEF t
<1> QED BY <1>3, <1>4

\* process_epoch, step by step.
LEMMA EpochKeeps ==
  ASSUME NEW s, NEW finalized, NEW i, NEW delta, Shape(s)
  PROVE  Keeps(s, EpochQueues(EpochBalances(s, finalized, i, delta)))
<1> DEFINE s1 == RewardsAndPenalties([s EXCEPT !.finalizedEpoch = finalized], i, delta)
           s2 == RegistryUpdates(s1)
           s3 == ProcessSlashings(s2)
           s4 == ProcessPendingDeposits(s3)
           s5 == ProcessPendingConsolidations(s4)
           s6 == EffectiveBalanceUpdates(s5)
           s7 == SlashingsReset(s6)
<1>1. Keeps(s, s1)
  <2>1. "validators" \in DOMAIN s1 /\ s1.validators = s.validators
    BY DEF RewardsAndPenalties, Shape
  <2> HIDE DEF s1
  <2> QED BY <2>1, KeepsUntouched
<1>2. Keeps(s1, s2)
  <2> HIDE DEF s1
  <2> QED BY <1>1, RegistryUpdatesKeeps DEF Keeps
<1>3. Keeps(s2, s3)
  <2> HIDE DEF s2
  <2>1. Shape(s2)
    BY <1>2 DEF Keeps
  <2>2. "validators" \in DOMAIN s3 /\ s3.validators = s2.validators
    BY <2>1 DEF ProcessSlashings, Shape
  <2> HIDE DEF s3
  <2> QED BY <2>1, <2>2, KeepsUntouched
<1>4. Keeps(s3, s4)
  <2> HIDE DEF s3
  <2> QED BY <1>3, ProcessPendingDepositsKeeps DEF Keeps
<1>5. Keeps(s4, s5)
  <2> HIDE DEF s4
  <2>1. Shape(s4)
    BY <1>4 DEF Keeps
  <2>2. "validators" \in DOMAIN s5 /\ s5.validators = s4.validators
    BY <2>1 DEF ProcessPendingConsolidations, Shape
  <2> HIDE DEF s5
  <2> QED BY <2>1, <2>2, KeepsUntouched
<1>6. Keeps(s5, s6)
  <2> HIDE DEF s5
  <2> QED BY <1>5, EffectiveBalanceUpdatesKeeps DEF Keeps
<1>7. Keeps(s6, s7)
  <2> HIDE DEF s6
  <2>1. Shape(s6)
    BY <1>6 DEF Keeps
  <2>2. "validators" \in DOMAIN s7 /\ s7.validators = s6.validators
    BY <2>1 DEF SlashingsReset, Shape
  <2> HIDE DEF s7
  <2> QED BY <2>1, <2>2, KeepsUntouched
<1>8. s7 = EpochQueues(EpochBalances(s, finalized, i, delta))
  BY DEF EpochQueues, EpochBalances
<1> HIDE DEF s1, s2, s3, s4, s5, s6, s7
<1> QED BY <1>1, <1>2, <1>3, <1>4, <1>5, <1>6, <1>7, <1>8, KeepsTransitive

\* The whole epoch, step by step.
LEMMA NextEpochKeeps ==
  ASSUME NEW finalized, NEW i, NEW delta, Shape(state), NextEpoch(finalized, i, delta)
  PROVE  Keeps(state, state')
<1> DEFINE t == EpochQueues(EpochBalances(state, finalized, i, delta))
<1>1. Keeps(state, t)
  BY EpochKeeps
<1>2. state' = [t EXCEPT !.slot = @ + 1]
  BY DEF NextEpoch
<1> HIDE DEF t
<1>3. Shape(t)
  BY <1>1 DEF Keeps
<1>4. "validators" \in DOMAIN state' /\ state'.validators = t.validators
  BY <1>2, <1>3 DEF Shape
<1> QED BY <1>1, <1>3, <1>4, KeepsUntouched, KeepsTransitive

\* A partial withdrawal reserves churn and queues, no more.
LEMMA PartialWithdrawalRequestKeeps ==
  ASSUME NEW i, NEW amount, Shape(state), PartialWithdrawalRequest(i, amount)
  PROVE  Keeps(state, state')
<1> DEFINE b == Smaller(state.balances[i] - MinActivationBalance
                          - PendingBalanceToWithdraw(state, i), amount)
           r == ReserveExit(state, b)
<1>1. "validators" \in DOMAIN r /\ r.validators = state.validators
  BY ReserveExitKeeps
<1>2. PICK x : state' = [r EXCEPT !.pendingPartialWithdrawals = x]
  BY DEF PartialWithdrawalRequest
<1> HIDE DEF r
<1>3. "validators" \in DOMAIN state' /\ state'.validators = state.validators
  BY <1>1, <1>2
<1> QED BY <1>3, KeepsUntouched

\* A consolidation schedules the exit of a source that had none.
LEMMA ConsolidationRequestKeeps ==
  ASSUME NEW source, NEW target, Shape(state),
         ProcessConsolidationRequest(source, target)
  PROVE  Keeps(state, state')
<1> DEFINE src == state.validators[source]
           r == ReserveConsolidation(state, src.effectiveBalance)
           exit == r.earliestConsolidationEpoch
           e == [src EXCEPT !.exit = exit,
                            !.withdrawable = exit + MinValidatorWithdrawabilityDelay]
           queue == Append(r.pendingConsolidations, [source |-> source, target |-> target])
<1>1. "validators" \in DOMAIN r /\ r.validators = state.validators
  BY DEF ReserveConsolidation, Shape
<1>2. source \in DOMAIN state.validators /\ ~Exiting(src)
  BY DEF ProcessConsolidationRequest
<1>3. state' = [r EXCEPT
                !.validators[source].exit = exit,
                !.validators[source].withdrawable = exit + MinValidatorWithdrawabilityDelay,
                !.pendingConsolidations = queue]
  BY DEF ProcessConsolidationRequest
<1> HIDE DEF r, exit, queue
<1>4. /\ "validators" \in DOMAIN state'
      /\ state'.validators = [state.validators EXCEPT ![source] = e]
  BY <1>1, <1>2, <1>3
<1>5. "exit" \in DOMAIN e
  BY <1>2 DEF Shape
<1> HIDE DEF e
<1> QED BY <1>2, <1>4, <1>5, OneReplaced

\* Every step keeps what it should.
LEMMA NextKeeps ==
  ASSUME Shape(state), Next
  PROVE  Keeps(state, state')
<1>1. CASE NextSlot
  <2>1. "validators" \in DOMAIN state' /\ state'.validators = state.validators
    BY <1>1 DEF NextSlot, Shape
  <2> QED BY <2>1, KeepsUntouched
<1>2. CASE \E finalized \in FinalizedChoices, i \in Known, delta \in Deltas :
             NextEpoch(finalized, i, delta)
  BY <1>2, NextEpochKeeps
<1>3. CASE BeginBlock
  <2>1. "validators" \in DOMAIN state' /\ state'.validators = state.validators
    BY <1>3 DEF BeginBlock, ProcessWithdrawals, Shape
  <2> QED BY <2>1, KeepsUntouched
<1>4. ASSUME NEW i \in Known, NEW proposer, ProcessSlashing(i, proposer)
      PROVE  Keeps(state, state')
  BY <1>4, SlashKeeps DEF ProcessSlashing, Known
<1>5. ASSUME NEW i \in Known, ProcessVoluntaryExit(i)
      PROVE  Keeps(state, state')
  BY <1>5, InitiateExitKeeps DEF ProcessVoluntaryExit, Known
<1>6. ASSUME NEW i \in Known, ProcessBlsToExecutionChange(i)
      PROVE  Keeps(state, state')
  <2> DEFINE e == [state.validators[i] EXCEPT !.credential = "eth1"]
  <2>1. /\ "validators" \in DOMAIN state'
        /\ state'.validators = [state.validators EXCEPT ![i] = e]
    BY <1>6 DEF ProcessBlsToExecutionChange, Shape
  <2>2. "exit" \in DOMAIN e /\ e.exit = state.validators[i].exit
    BY DEF Shape, Known
  <2> HIDE DEF e
  <2> QED BY <2>1, <2>2, OneReplaced DEF Known
<1>7. ASSUME NEW request, ProcessDepositRequest(request)
      PROVE  Keeps(state, state')
  <2>1. "validators" \in DOMAIN state' /\ state'.validators = state.validators
    BY <1>7 DEF ProcessDepositRequest, Shape
  <2> QED BY <2>1, KeepsUntouched
<1>8. ASSUME NEW i \in Known, FullExitRequest(i)
      PROVE  Keeps(state, state')
  BY <1>8, InitiateExitKeeps DEF FullExitRequest, Known
<1>9. ASSUME NEW i \in Known, ProcessSwitchToCompounding(i)
      PROVE  Keeps(state, state')
  BY <1>9, SwitchToCompoundingKeeps DEF ProcessSwitchToCompounding, Known
<1>10. ASSUME NEW c \in Consolidations, ProcessConsolidationRequest(c[1], c[2])
       PROVE  Keeps(state, state')
  BY <1>10, ConsolidationRequestKeeps DEF ProcessConsolidationRequest
<1> QED BY <1>1, <1>2, <1>3, <1>4, <1>5, <1>6, <1>7, <1>8, <1>9, <1>10,
           PartialWithdrawalRequestKeeps DEF Next

\* An exit, once scheduled, is never moved, and no validator is forgotten:
\* by requests, slashings and ejections in any order, for any registry.
THEOREM ScheduledExitsAreFinal == Spec => ExitsAreFinal
<1>1. Init => Shape(state)
  <2> SUFFICES ASSUME Init PROVE Shape(state)
    OBVIOUS
  <2>1. "validators" \in DOMAIN state /\ state.validators = InitialValidators
    BY DEF Init
  <2>2. InitialValidators \in Seq(Validator)
    BY GenesisAssumption
  <2>3. IsSequence(InitialValidators)
    BY <2>2 DEF IsSequence
  <2>4. \A i \in DOMAIN InitialValidators : InitialValidators[i] \in Validator
    BY <2>2
  <2>5. \A v \in Validator : "exit" \in DOMAIN v
    BY DEF Validator
  <2> QED BY <2>1, <2>3, <2>4, <2>5 DEF Shape
<1>2. Shape(state) /\ [Next]_vars => Shape(state)'
  BY NextKeeps DEF Keeps, Shape, vars
<1>3. Shape(state) /\ [Next]_vars
        => [\A i \in Known : Exiting(state.validators[i])
              => state'.validators[i].exit = state.validators[i].exit]_vars
  BY NextKeeps DEF Keeps, Known
<1> QED BY <1>1, <1>2, <1>3, PTL DEF Spec, ExitsAreFinal

---------------------------------------------------------------------------
(* The arithmetic of churn. *)

\* The quotient of \div, rounded up as reserve_churn does, is the least number
\* of parts that cover a whole.
LEMMA RoundedUp ==
  ASSUME NEW whole \in Nat \ {0}, NEW part \in Nat \ {0},
         NEW parts, parts = (whole - 1) \div part + 1
  PROVE  /\ parts \in Nat \ {0}
         /\ whole <= parts * part
         /\ parts * part < whole + part
<1> DEFINE q == (whole - 1) \div part
<1>1. q \in Nat /\ part * q <= whole - 1 /\ whole - 1 < part * (q + 1)
  BY SMT
<1>2. parts = q + 1
  OBVIOUS
<1> HIDE DEF q
<1>3. parts * part = part * (q + 1) /\ part * (q + 1) = part * q + part
  BY <1>1, <1>2
<1> QED BY <1>1, <1>2, <1>3

\* reserve_churn: the budget it returns covers the balance; it adds one epoch's
\* churn for every epoch it moves on; and it moves on no further than needed.
THEOREM ReserveChurnFits ==
  ASSUME NEW balance \in Nat, NEW consume \in Nat, NEW earliest \in Nat,
         NEW perEpoch \in Nat \ {0}
  PROVE  LET reserved == ReserveChurn(balance, consume, perEpoch, earliest)
         IN /\ reserved.epoch \in Nat /\ reserved.consume \in Nat
            /\ reserved.epoch >= earliest
            /\ reserved.consume >= balance
            /\ reserved.consume = consume + (reserved.epoch - earliest) * perEpoch
            /\ reserved.epoch > earliest => reserved.consume - balance < perEpoch
<1> DEFINE parts == (balance - consume - 1) \div perEpoch + 1
<1>1. CASE balance <= consume
  BY <1>1 DEF ReserveChurn
<1>2. CASE balance > consume
  <2>1. /\ parts \in Nat \ {0}
        /\ balance - consume <= parts * perEpoch
        /\ parts * perEpoch < balance - consume + perEpoch
    <3>1. balance - consume \in Nat \ {0}
      BY <1>2
    <3> QED BY <3>1, RoundedUp
  <2>2. ReserveChurn(balance, consume, perEpoch, earliest)
          = [epoch |-> earliest + parts, consume |-> consume + parts * perEpoch]
    BY <1>2 DEF ReserveChurn
  <2>3. parts * perEpoch \in Nat
    BY <2>1
  <2> HIDE DEF parts
  <2>4. (earliest + parts) - earliest = parts
    BY <2>1
  <2> QED BY <2>1, <2>2, <2>3, <2>4
<1> QED BY <1>1, <1>2

---------------------------------------------------------------------------
(* Types.                                                                   *)

Credential == {"bls", "eth1", "compounding"}
Deposit == [validator : 1..MaxValidators, credential : Credential, amount : Nat,
            signed : BOOLEAN, slot : 0..MaxSlot]
PartialWithdrawal == [validator : Nat, amount : Nat \ {0}, withdrawable : Nat]
Consolidation == [source : Nat, target : Nat]

RegistryState ==
  [validators : Seq(Validator), balances : Seq(Nat), slot : Nat, finalizedEpoch : Nat,
   slashings : [0..(EpochsPerSlashingsVector - 1) -> Nat],
   depositBalanceToConsume : Nat,
   exitBalanceToConsume : Nat, earliestExitEpoch : Nat,
   consolidationBalanceToConsume : Nat, earliestConsolidationEpoch : Nat,
   pendingDeposits : Seq(Deposit), pendingPartialWithdrawals : Seq(PartialWithdrawal),
   pendingConsolidations : Seq(Consolidation), nextWithdrawalValidator : Nat]

\* Every index the state holds is one of a validator, or of the next to join.
Indexed(s) ==
  /\ Len(s.balances) = Len(s.validators)
  /\ Len(s.validators) <= MaxValidators
  /\ s.nextWithdrawalValidator \in 1..Len(s.validators)
  /\ \A k \in DOMAIN s.pendingDeposits :
       s.pendingDeposits[k].validator <= Len(s.validators) + 1
  /\ \A k \in DOMAIN s.pendingPartialWithdrawals :
       s.pendingPartialWithdrawals[k].validator \in 1..Len(s.validators)
  /\ \A k \in DOMAIN s.pendingConsolidations :
       /\ s.pendingConsolidations[k].source \in 1..Len(s.validators)
       /\ s.pendingConsolidations[k].target \in 1..Len(s.validators)

\* \div and % on natural numbers.
LEMMA Division ==
  ASSUME NEW a \in Nat, NEW b \in Nat \ {0}
  PROVE  /\ (a \div b) \in Nat /\ (a % b) \in 0..(b - 1)
         /\ a = b * (a \div b) + (a % b)
         /\ a % b <= a /\ (a \div b) <= a
<1> DEFINE q == a \div b
           r == a % b
<1>1. q \in Nat /\ r \in 0..(b - 1) /\ a = b * q + r
  OBVIOUS
<1>2. b * q >= q
  <2> HIDE DEF q
  <2>1. b = (b - 1) + 1 /\ b - 1 \in Nat
    OBVIOUS
  <2>2. (b - 1) * q \in Nat /\ b * q = (b - 1) * q + q
    BY <1>1, <2>1
  <2> QED
    BY <1>1, <2>2
<1>3. b * q \in Nat
  BY <1>1
<1> HIDE DEF q, r
<1> QED
  BY <1>1, <1>2, <1>3 DEF q, r

\* Epochs are natural numbers, and an exit lies ahead.
LEMMA EpochNat ==
  ASSUME NEW s \in RegistryState
  PROVE  CurrentEpoch(s) \in Nat /\ ActivationExitEpoch(CurrentEpoch(s)) \in Nat
         /\ ActivationExitEpoch(CurrentEpoch(s)) > CurrentEpoch(s)
<1>1. s.slot \in Nat /\ SlotsPerEpoch \in Nat \ {0} /\ MaxSeedLookahead \in Nat
  BY RegistryAssumption DEF RegistryState
<1>2. CurrentEpoch(s) \in Nat
  BY <1>1, Division DEF CurrentEpoch
<1> QED
  BY <1>1, <1>2 DEF ActivationExitEpoch

\* get_total_active_balance is at least one increment.
LEMMA TotalActiveNat ==
  ASSUME NEW s \in RegistryState
  PROVE  /\ TotalActiveBalance(s) \in Nat
         /\ TotalActiveBalance(s) >= EffectiveBalanceIncrement
<1> DEFINE active == {i \in DOMAIN s.validators : IsActive(s.validators[i], CurrentEpoch(s))}
           units == 1..(MaxEffectiveBalance \div EffectiveBalanceIncrement)
           increments == {u \in active \X units :
                            u[2] * EffectiveBalanceIncrement
                              <= s.validators[u[1]].effectiveBalance}
<1>1. EffectiveBalanceIncrement \in Nat \ {0} /\ MaxEffectiveBalance \in Nat
  BY RegistryAssumption
<1>2. s.validators \in Seq(Validator)
  BY DEF RegistryState
<1>3. IsFiniteSet(active)
  <2>1. Len(s.validators) \in Nat /\ DOMAIN s.validators = 1..Len(s.validators)
    BY <1>2
  <2>2. IsFiniteSet(1..Len(s.validators))
    BY <2>1, FS_Interval
  <2> QED
    BY <2>1, <2>2, FS_Subset
<1>4. IsFiniteSet(units)
  <2>1. (MaxEffectiveBalance \div EffectiveBalanceIncrement) \in Nat
    BY <1>1, Division
  <2> QED
    BY <2>1, FS_Interval
<1>5. IsFiniteSet(increments)
  <2> HIDE DEF active, units
  <2>1. IsFiniteSet(active \X units)
    BY <1>3, <1>4, FS_Product
  <2> QED
    BY <2>1, FS_Subset
<1>6. Cardinality(increments) \in Nat
  BY <1>5, FS_CardinalityType
<1>7. TotalActiveBalance(s) = Larger(EffectiveBalanceIncrement,
                                     EffectiveBalanceIncrement * Cardinality(increments))
  BY DEF TotalActiveBalance
<1> HIDE DEF increments
<1>8. EffectiveBalanceIncrement * Cardinality(increments) \in Nat
  BY <1>1, <1>6
<1> QED
  BY <1>1, <1>7, <1>8 DEF Larger

\* The churn of an epoch: never zero for exits, and capped.
LEMMA ChurnLimits ==
  ASSUME NEW s \in RegistryState
  PROVE  /\ ActivationExitChurnLimit(s) \in Nat \ {0}
         /\ ActivationExitChurnLimit(s) <= MaxPerEpochActivationExitChurnLimit
         /\ ConsolidationChurnLimit(s) \in Nat
<1> DEFINE churn == Larger(MinPerEpochChurnLimit, TotalActiveBalance(s) \div ChurnLimitQuotient)
<1>1. /\ EffectiveBalanceIncrement \in Nat \ {0} /\ MinPerEpochChurnLimit \in Nat
      /\ MaxPerEpochActivationExitChurnLimit \in Nat /\ ChurnLimitQuotient \in Nat \ {0}
      /\ EffectiveBalanceIncrement <= MinPerEpochChurnLimit
      /\ EffectiveBalanceIncrement <= MaxPerEpochActivationExitChurnLimit
  BY RegistryAssumption, BalanceAssumption
<1>2. (TotalActiveBalance(s) \div ChurnLimitQuotient) \in Nat
  BY <1>1, TotalActiveNat, Division
<1>3. churn \in Nat /\ churn >= EffectiveBalanceIncrement
  BY <1>1, <1>2 DEF Larger
<1>4. BalanceChurnLimit(s) = churn - (churn % EffectiveBalanceIncrement)
  BY DEF BalanceChurnLimit
<1> HIDE DEF churn
<1>5. churn % EffectiveBalanceIncrement \in 0..(EffectiveBalanceIncrement - 1)
  BY <1>1, <1>3, Division
<1>6. BalanceChurnLimit(s) \in Nat \ {0}
  BY <1>1, <1>3, <1>4, <1>5
<1> QED
  BY <1>1, <1>6 DEF ActivationExitChurnLimit, ConsolidationChurnLimit, Smaller

\* The greater, the less and the difference cut off at zero.
LEMMA LargerSmaller ==
  ASSUME NEW a \in Int, NEW b \in Int
  PROVE  /\ Larger(a, b) \in {a, b} /\ Larger(a, b) >= a /\ Larger(a, b) >= b
         /\ Smaller(a, b) \in {a, b} /\ Smaller(a, b) <= a /\ Smaller(a, b) <= b
         /\ SaturatingSub(a, b) \in Nat
         /\ (a >= b => SaturatingSub(a, b) = a - b)
  BY DEF Larger, Smaller, SaturatingSub

\* compute_exit_epoch_and_update_churn writes two fields: it never goes back,
\* reserves after the activation-exit delay, and what it hands out plus what is
\* left of the budget exceeds the budget there was by no more than the churn
\* limit of the epochs it moved on.
LEMMA ReserveExitType ==
  ASSUME NEW s \in RegistryState, NEW balance \in Nat
  PROVE  LET r == ReserveExit(s, balance)
             max == MaxPerEpochActivationExitChurnLimit
         IN /\ r \in RegistryState
            /\ r = [s EXCEPT !.exitBalanceToConsume = r.exitBalanceToConsume,
                             !.earliestExitEpoch = r.earliestExitEpoch]
            /\ r.earliestExitEpoch >= s.earliestExitEpoch
            /\ r.earliestExitEpoch >= ActivationExitEpoch(CurrentEpoch(s))
            /\ r.exitBalanceToConsume + balance
                 <= s.exitBalanceToConsume + max * (r.earliestExitEpoch - s.earliestExitEpoch)
            /\ s.exitBalanceToConsume <= max => r.exitBalanceToConsume <= max
<1> DEFINE delayed == ActivationExitEpoch(CurrentEpoch(s))
           earliest == Larger(s.earliestExitEpoch, delayed)
           per == ActivationExitChurnLimit(s)
           consume == IF s.earliestExitEpoch < earliest THEN per ELSE s.exitBalanceToConsume
           reserved == ReserveChurn(balance, consume, per, earliest)
           c == reserved.consume - balance
           e == reserved.epoch
           max == MaxPerEpochActivationExitChurnLimit
           r == ReserveExit(s, balance)
           old == s.earliestExitEpoch
<1>1. /\ old \in Nat /\ s.exitBalanceToConsume \in Nat /\ delayed \in Nat
      /\ per \in Nat \ {0} /\ per <= max /\ max \in Nat
  BY EpochNat, ChurnLimits, RegistryAssumption DEF RegistryState
<1>2. earliest \in Nat /\ earliest >= old /\ earliest >= delayed
  <2> HIDE DEF delayed
  <2> QED
    BY <1>1 DEF Larger
<1>3. consume \in Nat
  BY <1>1
<1>4. r = [s EXCEPT !.exitBalanceToConsume = c, !.earliestExitEpoch = e]
  BY DEF ReserveExit
<1>5. /\ reserved.epoch \in Nat /\ reserved.consume \in Nat
      /\ reserved.epoch >= earliest /\ reserved.consume >= balance
      /\ reserved.consume = consume + (reserved.epoch - earliest) * per
      /\ reserved.epoch > earliest => reserved.consume - balance < per
  <2> HIDE DEF earliest, per, consume
  <2> QED
    BY <1>1, <1>2, <1>3, ReserveChurnFits, SMTT(30)
<1> HIDE DEF reserved, delayed, earliest, per
<1>6. c \in Nat /\ e \in Nat /\ e >= old /\ e >= delayed
  <2>1. /\ reserved.epoch \in Nat /\ reserved.consume \in Nat
        /\ reserved.epoch >= earliest /\ reserved.consume >= balance
    BY <1>5
  <2> QED
    BY <1>1, <1>2, <2>1
<1>7. c + balance <= s.exitBalanceToConsume + max * (e - old)
  <2> DEFINE n == e - earliest
             m == e - old
  <2>1. n \in Nat /\ m \in Nat /\ n <= m /\ c + balance = consume + n * per
    <3>1. reserved.epoch >= earliest /\ reserved.consume \in Nat
      BY <1>5
    <3>2. n \in Nat /\ m \in Nat /\ n <= m
      BY <1>1, <1>2, <1>6, <3>1
    <3>3. reserved.consume = consume + n * per
      BY <1>5
    <3>4. c + balance = reserved.consume
      BY <3>1
    <3> QED
      BY <3>2, <3>3, <3>4
  <2>2. ASSUME NEW k \in Nat PROVE k * per <= max * k /\ k * per \in Nat /\ max * k \in Nat
    <3>1. max = per + (max - per) /\ max - per \in Nat
      BY <1>1
    <3>2. max * k = k * per + (max - per) * k /\ (max - per) * k \in Nat
      BY <1>1, <3>1
    <3> QED
      BY <1>1, <3>2
  <2>3. CASE old < earliest
    <3>1. n + 1 \in Nat /\ n + 1 <= m /\ consume = per
      BY <1>1, <1>2, <1>6, <2>1, <2>3
    <3>2. c + balance = (n + 1) * per
      BY <1>1, <2>1, <3>1
    <3>3. max * m = max * (n + 1) + max * (m - (n + 1)) /\ max * (m - (n + 1)) \in Nat
      <4> DEFINE d == m - (n + 1)
      <4>1. d \in Nat /\ m = (n + 1) + d
        BY <2>1, <3>1
      <4> HIDE DEF d, n, m
      <4> QED
        BY <1>1, <3>1, <4>1 DEF d
    <3>4. (n + 1) * per <= max * (n + 1)
      BY <2>2, <3>1
    <3> HIDE DEF n, m, c, e
    <3>5. max * (n + 1) \in Nat /\ (n + 1) * per \in Nat
      BY <1>1, <3>1
    <3> QED
      BY <1>1, <3>2, <3>3, <3>4, <3>5 DEF m
  <2>4. CASE ~(old < earliest)
    <3>1. n = m /\ consume = s.exitBalanceToConsume
      BY <1>1, <1>2, <2>4
    <3>2. n * per <= max * m
      BY <2>1, <2>2, <3>1
    <3>3. n * per \in Nat /\ max * m \in Nat
      BY <2>1, <2>2
    <3> HIDE DEF n, c, consume
    <3> QED
      BY <1>1, <2>1, <3>1, <3>2, <3>3
  <2> QED
    BY <2>3, <2>4
<1>8. s.exitBalanceToConsume <= max => c <= max
  <2>1. CASE e > earliest
    BY <1>1, <1>5, <1>6, <2>1
  <2>2. CASE e = earliest
    <3>1. (e - earliest) * per = 0
      BY <1>1, <1>2, <2>2
    <3> QED
      BY <1>1, <1>3, <1>5, <3>1
  <2> QED
    BY <1>2, <1>5, <2>1, <2>2
<1> HIDE DEF c, e
<1>9. r \in RegistryState /\ r.exitBalanceToConsume = c /\ r.earliestExitEpoch = e
  BY <1>4, <1>6 DEF RegistryState
<1> QED
  BY <1>4, <1>6, <1>7, <1>8, <1>9 DEF delayed

\* As ReserveExitType, with the churn of consolidations.
LEMMA ReserveConsolidationType ==
  ASSUME NEW s \in RegistryState, NEW balance \in Nat, ConsolidationChurnLimit(s) # 0
  PROVE  LET r == ReserveConsolidation(s, balance)
         IN /\ r \in RegistryState
            /\ r = [s EXCEPT !.consolidationBalanceToConsume = r.consolidationBalanceToConsume,
                             !.earliestConsolidationEpoch = r.earliestConsolidationEpoch]
            /\ r.earliestConsolidationEpoch >= s.earliestConsolidationEpoch
            /\ r.earliestConsolidationEpoch >= ActivationExitEpoch(CurrentEpoch(s))
<1> DEFINE delayed == ActivationExitEpoch(CurrentEpoch(s))
           earliest == Larger(s.earliestConsolidationEpoch, delayed)
           per == ConsolidationChurnLimit(s)
           consume == IF s.earliestConsolidationEpoch < earliest THEN per
                      ELSE s.consolidationBalanceToConsume
           reserved == ReserveChurn(balance, consume, per, earliest)
           c == reserved.consume - balance
           e == reserved.epoch
           r == ReserveConsolidation(s, balance)
           old == s.earliestConsolidationEpoch
<1>1. /\ old \in Nat /\ s.consolidationBalanceToConsume \in Nat /\ delayed \in Nat
      /\ per \in Nat \ {0}
  BY EpochNat, ChurnLimits DEF RegistryState
<1>2. earliest \in Nat /\ earliest >= old /\ earliest >= delayed
  <2> HIDE DEF delayed
  <2> QED
    BY <1>1 DEF Larger
<1>3. consume \in Nat
  BY <1>1
<1>4. r = [s EXCEPT !.consolidationBalanceToConsume = c, !.earliestConsolidationEpoch = e]
  BY DEF ReserveConsolidation
<1>5. /\ reserved.epoch \in Nat /\ reserved.consume \in Nat
      /\ reserved.epoch >= earliest /\ reserved.consume >= balance
  <2> HIDE DEF earliest, per, consume
  <2> QED
    BY <1>1, <1>2, <1>3, ReserveChurnFits
<1> HIDE DEF reserved, delayed, earliest, per
<1>6. c \in Nat /\ e \in Nat /\ e >= old /\ e >= delayed
  BY <1>1, <1>2, <1>5
<1> HIDE DEF c, e
<1>9. r \in RegistryState /\ r.consolidationBalanceToConsume = c
      /\ r.earliestConsolidationEpoch = e
  BY <1>4, <1>6 DEF RegistryState
<1> QED
  BY <1>4, <1>6, <1>9 DEF delayed

---------------------------------------------------------------------------
(* What the operations on the registry return.                              *)

\* A sequence over S, element by element.
LEMMA SequenceFacts ==
  ASSUME NEW S, NEW q \in Seq(S)
  PROVE  /\ Len(q) \in Nat /\ DOMAIN q = 1..Len(q)
         /\ \A k \in 1..Len(q) : q[k] \in S
         /\ q = [k \in 1..Len(q) |-> q[k]]
  OBVIOUS

\* A function on 1..n with values in S is a sequence over S.
LEMMA SequenceOf ==
  ASSUME NEW S, NEW n \in Nat, NEW q, q = [k \in 1..n |-> q[k]], \A k \in 1..n : q[k] \in S
  PROVE  q \in Seq(S) /\ Len(q) = n /\ DOMAIN q = 1..n
<1>1. [k \in 1..n |-> q[k]] \in Seq(S)
  OBVIOUS
<1>2. DOMAIN q = 1..n
  OBVIOUS
<1> QED
  BY <1>1, <1>2

\* One element of a sequence replaced.
LEMMA SequenceReplace ==
  ASSUME NEW S, NEW q \in Seq(S), NEW i \in 1..Len(q), NEW e \in S
  PROVE  /\ [q EXCEPT ![i] = e] \in Seq(S)
         /\ Len([q EXCEPT ![i] = e]) = Len(q)
         /\ [q EXCEPT ![i] = e][i] = e
         /\ \A k \in 1..Len(q) : k # i => [q EXCEPT ![i] = e][k] = q[k]
<1> DEFINE r == [q EXCEPT ![i] = e]
<1>1. Len(q) \in Nat /\ DOMAIN q = 1..Len(q) /\ \A k \in 1..Len(q) : q[k] \in S
  BY SequenceFacts
<1>2. r = [k \in 1..Len(q) |-> r[k]] /\ \A k \in 1..Len(q) : r[k] \in S
  BY <1>1
<1>3. r[i] = e /\ \A k \in 1..Len(q) : k # i => r[k] = q[k]
  BY <1>1
<1> HIDE DEF r
<1>4. r \in Seq(S) /\ Len(r) = Len(q)
  BY <1>1, <1>2, SequenceOf
<1> QED
  BY <1>3, <1>4 DEF r

\* One element appended.
LEMMA SequenceAppend ==
  ASSUME NEW S, NEW q \in Seq(S), NEW e \in S
  PROVE  /\ Append(q, e) \in Seq(S) /\ Len(Append(q, e)) = Len(q) + 1
         /\ Append(q, e)[Len(q) + 1] = e
         /\ \A k \in 1..Len(q) : Append(q, e)[k] = q[k]
  OBVIOUS

\* The state as far as an exit reservation goes.
ChurnStep(s, t, balance) ==
  /\ t.earliestExitEpoch >= s.earliestExitEpoch
  /\ t.exitBalanceToConsume + balance
       <= s.exitBalanceToConsume + MaxPerEpochActivationExitChurnLimit
                                     * (t.earliestExitEpoch - s.earliestExitEpoch)
  /\ s.exitBalanceToConsume <= MaxPerEpochActivationExitChurnLimit
       => t.exitBalanceToConsume <= MaxPerEpochActivationExitChurnLimit

\* The validators of a typed state and their numbers.
LEMMA ValidatorFields ==
  ASSUME NEW s \in RegistryState
  PROVE  /\ Len(s.validators) \in Nat /\ DOMAIN s.validators = 1..Len(s.validators)
         /\ \A i \in 1..Len(s.validators) :
              /\ s.validators[i] \in Validator
              /\ s.validators[i].effectiveBalance \in Nat
              /\ s.validators[i].exit \in Nat /\ s.validators[i].withdrawable \in Nat
         /\ s.balances \in Seq(Nat) /\ Len(s.balances) \in Nat
         /\ DOMAIN s.balances = 1..Len(s.balances)
         /\ \A i \in 1..Len(s.balances) : s.balances[i] \in Nat
<1>1. s.validators \in Seq(Validator) /\ s.balances \in Seq(Nat)
  BY DEF RegistryState
<1>2. \A v \in Validator : v.effectiveBalance \in Nat /\ v.exit \in Nat /\ v.withdrawable \in Nat
  BY DEF Validator
<1> QED
  BY <1>1, <1>2, SequenceFacts

\* The exit of validator i at the end of the queue.
Scheduled(v, epoch) ==
  [v EXCEPT !.exit = epoch, !.withdrawable = epoch + MinValidatorWithdrawabilityDelay]

\* A validator with its exit scheduled is a validator.
LEMMA ScheduledType ==
  ASSUME NEW v \in Validator, NEW epoch \in Nat
  PROVE  Scheduled(v, epoch) \in Validator
<1>1. epoch + MinValidatorWithdrawabilityDelay \in Nat
  BY RegistryAssumption
<1> QED
  BY <1>1 DEF Scheduled, Validator

\* initiate_validator_exit: what it changes, and where the exit lands.
LEMMA InitiateExitType ==
  ASSUME NEW s \in RegistryState, NEW i \in 1..Len(s.validators)
  PROVE  LET r == InitiateExit(s, i)
         IN /\ r \in RegistryState
            /\ IF Exiting(s.validators[i]) THEN r = s
               ELSE /\ r.validators =
                         [s.validators EXCEPT ![i] = Scheduled(@, r.earliestExitEpoch)]
                    /\ r.earliestExitEpoch >= ActivationExitEpoch(CurrentEpoch(s))
                    /\ ChurnStep(s, r, s.validators[i].effectiveBalance)
            /\ Len(r.validators) = Len(s.validators)
            /\ r = [s EXCEPT !.validators = r.validators,
                             !.exitBalanceToConsume = r.exitBalanceToConsume,
                             !.earliestExitEpoch = r.earliestExitEpoch]
<1>1. CASE Exiting(s.validators[i])
  BY <1>1 DEF InitiateExit, RegistryState
<1>2. CASE ~Exiting(s.validators[i])
  <2> DEFINE b == s.validators[i].effectiveBalance
             q == ReserveExit(s, b)
             e == q.earliestExitEpoch
             v == [s.validators EXCEPT ![i] = Scheduled(@, e)]
             r == InitiateExit(s, i)
  <2>1. b \in Nat
    BY ValidatorFields
  <2>2. /\ q \in RegistryState
        /\ q = [s EXCEPT !.exitBalanceToConsume = q.exitBalanceToConsume,
                         !.earliestExitEpoch = q.earliestExitEpoch]
        /\ q.earliestExitEpoch >= ActivationExitEpoch(CurrentEpoch(s))
        /\ ChurnStep(s, q, b)
    <3> HIDE DEF b
    <3> QED
      BY <2>1, ReserveExitType DEF ChurnStep
  <2>3. r = [q EXCEPT !.validators[i].exit = e,
                      !.validators[i].withdrawable = e + MinValidatorWithdrawabilityDelay]
    BY <1>2 DEF InitiateExit
  <2> HIDE DEF q, b, r
  <2>4. e \in Nat /\ q.validators = s.validators
    BY <2>2 DEF RegistryState
  <2>5. r = [q EXCEPT !.validators = v]
    <3> DEFINE w == [[q.validators EXCEPT ![i].exit = e]
                       EXCEPT ![i].withdrawable = e + MinValidatorWithdrawabilityDelay]
    <3>0. "validators" \in DOMAIN q
      BY <2>2 DEF RegistryState
    <3>1. r = [q EXCEPT !.validators = w]
      <4> HIDE DEF e
      <4> QED
        BY <2>3, <3>0
    <3>2. i \in DOMAIN s.validators
      BY ValidatorFields
    <3>3. w = v
      BY <2>4, <3>2, ValidatorFields DEF Scheduled, Validator
    <3> QED
      BY <3>1, <3>3
  <2>6. v \in Seq(Validator) /\ Len(v) = Len(s.validators)
    <3>1. s.validators \in Seq(Validator)
      BY DEF RegistryState
    <3>2. s.validators[i] \in Validator
      BY ValidatorFields
    <3> HIDE DEF e
    <3>3. Scheduled(s.validators[i], e) \in Validator
      BY <2>4, <3>2, ScheduledType
    <3>4. v = [s.validators EXCEPT ![i] = Scheduled(s.validators[i], e)]
      OBVIOUS
    <3> QED
      BY <3>1, <3>3, <3>4, SequenceReplace
  <2> HIDE DEF v, e
  <2>7. /\ r \in RegistryState /\ r.validators = v
        /\ r.earliestExitEpoch = q.earliestExitEpoch
        /\ r.exitBalanceToConsume = q.exitBalanceToConsume
    BY <2>2, <2>5, <2>6 DEF RegistryState
  <2>8. r = [s EXCEPT !.validators = r.validators,
                      !.exitBalanceToConsume = r.exitBalanceToConsume,
                      !.earliestExitEpoch = r.earliestExitEpoch]
    BY <2>2, <2>5, <2>7 DEF RegistryState
  <2>9. ChurnStep(s, r, b)
    BY <2>2, <2>7 DEF ChurnStep
  <2> QED
    BY <1>2, <2>2, <2>6, <2>7, <2>8, <2>9 DEF v, e, b, r
<1> QED
  BY <1>1, <1>2

Slashed(v, epoch) ==
  [v EXCEPT !.slashed = TRUE, !.withdrawable = WithdrawableAfterSlashing(v, epoch)]

\* A slashed validator is a validator.
LEMMA SlashedType ==
  ASSUME NEW v \in Validator, NEW epoch \in Nat
  PROVE  Slashed(v, epoch) \in Validator
<1>1. v.withdrawable \in Nat /\ epoch + EpochsPerSlashingsVector \in Nat
  BY RegistryAssumption DEF Validator
<1>2. WithdrawableAfterSlashing(v, epoch) \in Nat
  BY <1>1 DEF WithdrawableAfterSlashing, Larger
<1> QED
  BY <1>2 DEF Slashed, Validator

\* From s, where x is what the exit of i makes of it, to t.
SlashStep(s, x, t, i, proposer) ==
  LET paid == [s.balances EXCEPT ![i] = SaturatingSub(@, SlashingPenalty(s.validators[i]))]
  IN /\ t.validators = [x.validators EXCEPT ![i] = Slashed(@, CurrentEpoch(s))]
     /\ Len(t.validators) = Len(s.validators)
     /\ paid \in Seq(Nat) /\ Len(paid) = Len(s.balances)
     /\ SlashingPenalty(s.validators[i]) \in Nat
     /\ WhistleblowerReward(s.validators[i]) \in Nat
     /\ t.balances = [paid EXCEPT ![proposer] = @ + WhistleblowerReward(s.validators[i])]
     /\ Len(t.balances) = Len(s.balances)
     /\ t = [x EXCEPT !.validators = t.validators, !.balances = t.balances,
                      !.slashings = t.slashings]

\* slash_validator, field by field.
LEMMA SlashType ==
  ASSUME NEW s \in RegistryState, NEW i \in 1..Len(s.validators),
         NEW proposer \in 1..Len(s.validators), Len(s.balances) = Len(s.validators)
  PROVE  /\ Slash(s, i, proposer) \in RegistryState
         /\ SlashStep(s, InitiateExit(s, i), Slash(s, i, proposer), i, proposer)
<1> DEFINE x == InitiateExit(s, i)
           v == x.validators[i]
           epoch == CurrentEpoch(s)
           k == epoch % EpochsPerSlashingsVector
           paid == [s.balances EXCEPT ![i] = SaturatingSub(@, SlashingPenalty(s.validators[i]))]
           balances == [paid EXCEPT ![proposer] = @ + WhistleblowerReward(s.validators[i])]
           validators == [x.validators EXCEPT ![i] = Slashed(@, epoch)]
           slashings == [x.slashings EXCEPT ![k] = @ + v.effectiveBalance]
           t == Slash(s, i, proposer)
<1>1. /\ x \in RegistryState
      /\ Len(x.validators) = Len(s.validators)
      /\ x.balances = s.balances
  <2>1. /\ x \in RegistryState
        /\ Len(x.validators) = Len(s.validators)
        /\ x = [s EXCEPT !.validators = x.validators,
                         !.exitBalanceToConsume = x.exitBalanceToConsume,
                         !.earliestExitEpoch = x.earliestExitEpoch]
    BY InitiateExitType
  <2> HIDE DEF x
  <2> QED
    BY <2>1 DEF RegistryState
<1>2. v \in Validator /\ v.effectiveBalance \in Nat
  BY <1>1, ValidatorFields
<1>3. v.effectiveBalance = s.validators[i].effectiveBalance
  <2>1. s.validators[i] \in Validator /\ DOMAIN s.validators = 1..Len(s.validators)
    BY ValidatorFields
  <2>2. CASE x.validators = s.validators
    BY <2>2
  <2>3. CASE \E e : x.validators = [s.validators EXCEPT ![i] = Scheduled(@, e)]
    BY <2>1, <2>3 DEF Scheduled, Validator
  <2>4. x.validators = s.validators
        \/ x.validators = [s.validators EXCEPT ![i] = Scheduled(@, x.earliestExitEpoch)]
    BY InitiateExitType
  <2> HIDE DEF x
  <2> QED
    BY <2>2, <2>3, <2>4
<1>4. /\ SlashingPenalty(s.validators[i]) \in Nat /\ WhistleblowerReward(s.validators[i]) \in Nat
      /\ SlashingPenalty(v) = SlashingPenalty(s.validators[i])
      /\ WhistleblowerReward(v) = WhistleblowerReward(s.validators[i])
  BY <1>2, <1>3, Division, RegistryAssumption DEF SlashingPenalty, WhistleblowerReward
<1>5. epoch \in Nat /\ k \in 0..(EpochsPerSlashingsVector - 1)
  BY EpochNat, Division, RegistryAssumption
<1> HIDE DEF x, epoch, k
<1>6. t = [x EXCEPT !.validators = validators, !.slashings = slashings, !.balances = balances]
  <2>1. "validators" \in DOMAIN x /\ "slashings" \in DOMAIN x /\ "balances" \in DOMAIN x
    BY <1>1 DEF RegistryState
  <2>2. t = [x EXCEPT
               !.validators[i] = [v EXCEPT !.slashed = TRUE,
                                    !.withdrawable = WithdrawableAfterSlashing(v, epoch)],
               !.slashings[k] = @ + v.effectiveBalance,
               !.balances = [[s.balances EXCEPT ![i] = SaturatingSub(@, SlashingPenalty(v))]
                               EXCEPT ![proposer] = @ + WhistleblowerReward(v)]]
    BY DEF Slash, x, epoch, k
  <2>3. balances = [[s.balances EXCEPT ![i] = SaturatingSub(@, SlashingPenalty(v))]
                               EXCEPT ![proposer] = @ + WhistleblowerReward(v)]
    BY <1>4
  <2>4. validators = [x.validators EXCEPT ![i] = [v EXCEPT !.slashed = TRUE,
                                    !.withdrawable = WithdrawableAfterSlashing(v, epoch)]]
    BY DEF Slashed
  <2> HIDE DEF v, t, validators, balances
  <2> QED
    BY <2>1, <2>2, <2>3, <2>4
<1>7. validators \in Seq(Validator) /\ Len(validators) = Len(s.validators)
  <2>1. Slashed(v, epoch) \in Validator /\ x.validators \in Seq(Validator)
    BY <1>1, <1>2, <1>5, SlashedType DEF RegistryState
  <2>2. validators = [x.validators EXCEPT ![i] = Slashed(v, epoch)]
    OBVIOUS
  <2> QED
    BY <1>1, <2>1, <2>2, SequenceReplace
<1>8. paid \in Seq(Nat) /\ Len(paid) = Len(s.balances)
  <2> DEFINE e == SaturatingSub(s.balances[i], SlashingPenalty(s.validators[i]))
  <2>1. s.balances[i] \in Nat /\ s.balances \in Seq(Nat)
    BY ValidatorFields
  <2>2. e \in Nat
    BY <2>1, <1>4 DEF SaturatingSub
  <2>3. paid = [s.balances EXCEPT ![i] = e]
    OBVIOUS
  <2> HIDE DEF e, paid
  <2> QED
    BY <2>1, <2>2, <2>3, SequenceReplace
<1>9. balances \in Seq(Nat) /\ Len(balances) = Len(s.balances)
  <2> HIDE DEF paid
  <2> DEFINE e == paid[proposer] + WhistleblowerReward(s.validators[i])
  <2>1. proposer \in 1..Len(paid) /\ paid[proposer] \in Nat
    BY <1>8, SequenceFacts
  <2>2. e \in Nat
    BY <2>1, <1>4
  <2>3. balances = [paid EXCEPT ![proposer] = e]
    OBVIOUS
  <2> HIDE DEF e, balances
  <2> QED
    BY <1>8, <2>1, <2>2, <2>3, SequenceReplace
<1>10. slashings \in [0..(EpochsPerSlashingsVector - 1) -> Nat]
  <2>1. x.slashings \in [0..(EpochsPerSlashingsVector - 1) -> Nat]
    BY <1>1 DEF RegistryState
  <2>2. v.effectiveBalance \in Nat
    BY <1>2
  <2> HIDE DEF v
  <2>3. x.slashings[k] + v.effectiveBalance \in Nat
    <3>1. x.slashings[k] \in Nat
      BY <2>1, <1>5
    <3> QED
      BY <2>2, <3>1
  <2> QED
    BY <2>1, <2>3
<1> HIDE DEF validators, balances, slashings, paid, t
<1>11. /\ t \in RegistryState /\ t.validators = validators
       /\ t.balances = balances /\ t.slashings = slashings
  BY <1>1, <1>6, <1>7, <1>9, <1>10 DEF RegistryState
<1> QED
  BY <1>4, <1>6, <1>7, <1>8, <1>9, <1>11 DEF SlashStep, x, epoch, t, validators, balances, paid

\* switch_to_compounding_validator: the excess goes to the queue.
LEMMA SwitchType ==
  ASSUME NEW s \in RegistryState, NEW i \in 1..Len(s.validators),
         Len(s.balances) = Len(s.validators), Len(s.validators) <= MaxValidators
  PROVE  LET t == SwitchToCompounding(s, i)
             excess == SaturatingSub(s.balances[i], MinActivationBalance)
             deposit == [validator |-> i, credential |-> "compounding", amount |-> excess,
                         signed |-> FALSE, slot |-> 0]
         IN /\ t \in RegistryState
            /\ t.validators = [s.validators EXCEPT ![i] = [@ EXCEPT !.credential = "compounding"]]
            /\ Len(t.validators) = Len(s.validators)
            /\ deposit \in Deposit /\ excess \in Nat
            /\ IF excess = 0
               THEN t.balances = s.balances /\ t.pendingDeposits = s.pendingDeposits
               ELSE /\ t.balances = [s.balances EXCEPT ![i] = MinActivationBalance]
                    /\ t.pendingDeposits = Append(s.pendingDeposits, deposit)
                    /\ s.balances[i] = MinActivationBalance + excess
            /\ Len(t.balances) = Len(s.balances)
            /\ t = [s EXCEPT !.validators = t.validators, !.balances = t.balances,
                             !.pendingDeposits = t.pendingDeposits]
<1> DEFINE t == SwitchToCompounding(s, i)
           excess == SaturatingSub(s.balances[i], MinActivationBalance)
           deposit == [validator |-> i, credential |-> "compounding", amount |-> excess,
                       signed |-> FALSE, slot |-> 0]
           validators == [s.validators EXCEPT ![i] = [@ EXCEPT !.credential = "compounding"]]
           balances == IF excess = 0 THEN s.balances
                       ELSE [s.balances EXCEPT ![i] = MinActivationBalance]
           queue == IF excess = 0 THEN s.pendingDeposits ELSE Append(s.pendingDeposits, deposit)
<1>1. /\ s.balances[i] \in Nat /\ MinActivationBalance \in Nat /\ s.validators[i] \in Validator
      /\ s.validators \in Seq(Validator) /\ s.balances \in Seq(Nat)
      /\ s.pendingDeposits \in Seq(Deposit)
  BY ValidatorFields, RegistryAssumption DEF RegistryState
<1>2. excess \in Nat /\ (excess # 0 => s.balances[i] = MinActivationBalance + excess)
  BY <1>1 DEF SaturatingSub
<1>3. deposit \in Deposit
  <2>1. i \in 1..MaxValidators /\ 0 \in 0..MaxSlot
    <3>1. Len(s.validators) \in Nat /\ MaxValidators \in Nat /\ MaxSlot \in Nat
      BY ValidatorFields, RegistryAssumption
    <3> QED
      BY <3>1
  <2> HIDE DEF excess
  <2> QED
    BY <1>2, <2>1 DEF Deposit, Credential
<1>4. t = [s EXCEPT !.validators = validators, !.balances = balances, !.pendingDeposits = queue]
  <2>1. /\ "validators" \in DOMAIN s /\ "balances" \in DOMAIN s /\ "pendingDeposits" \in DOMAIN s
    BY DEF RegistryState
  <2> HIDE DEF excess
  <2>2. CASE excess = 0
    BY <2>1, <2>2 DEF SwitchToCompounding, RegistryState, excess
  <2>3. CASE excess # 0
    BY <2>1, <2>3 DEF SwitchToCompounding, RegistryState, excess
  <2> QED
    BY <2>2, <2>3
<1>5. validators \in Seq(Validator) /\ Len(validators) = Len(s.validators)
  <2> DEFINE e == [s.validators[i] EXCEPT !.credential = "compounding"]
  <2>1. e \in Validator
    BY <1>1 DEF Validator
  <2>2. validators = [s.validators EXCEPT ![i] = e]
    OBVIOUS
  <2> HIDE DEF e, validators
  <2> QED
    BY <1>1, <2>1, <2>2, SequenceReplace
<1> HIDE DEF excess, deposit
<1>6. balances \in Seq(Nat) /\ Len(balances) = Len(s.balances)
  BY <1>1, SequenceReplace
<1>7. queue \in Seq(Deposit)
  BY <1>1, <1>3, SequenceAppend
<1> HIDE DEF validators, balances, queue, t
<1>8. /\ t \in RegistryState /\ t.validators = validators
      /\ t.balances = balances /\ t.pendingDeposits = queue
  BY <1>4, <1>5, <1>6, <1>7 DEF RegistryState
<1> QED
  BY <1>2, <1>3, <1>4, <1>5, <1>6, <1>8 DEF excess, deposit, t, validators, balances, queue

---------------------------------------------------------------------------
(* process_epoch.                                                           *)

\* Rewards and penalties touch one balance.
LEMMA RewardsType ==
  ASSUME NEW s \in RegistryState, NEW i \in 1..Len(s.balances), NEW delta \in Int
  PROVE  LET t == RewardsAndPenalties(s, i, delta)
         IN /\ t \in RegistryState
            /\ t = [s EXCEPT !.balances = t.balances]
            /\ Len(t.balances) = Len(s.balances)
<1> DEFINE t == RewardsAndPenalties(s, i, delta)
           e == IF CurrentEpoch(s) = 0 THEN s.balances[i] ELSE Larger(s.balances[i] + delta, 0)
           balances == [s.balances EXCEPT ![i] = e]
<1>1. s.balances \in Seq(Nat) /\ s.balances[i] \in Nat
  BY ValidatorFields
<1>2. e \in Nat
  BY <1>1 DEF Larger
<1>3. t = [s EXCEPT !.balances = balances]
  <2>1. "balances" \in DOMAIN s
    BY DEF RegistryState
  <2> QED
    BY <2>1 DEF RewardsAndPenalties
<1> HIDE DEF e, t
<1>4. balances \in Seq(Nat) /\ Len(balances) = Len(s.balances)
  BY <1>1, <1>2, SequenceReplace
<1> HIDE DEF balances
<1>5. t \in RegistryState /\ t.balances = balances
  BY <1>3, <1>4 DEF RegistryState
<1> QED
  BY <1>3, <1>4, <1>5 DEF t

Ejected(s) ==
  {i \in DOMAIN s.validators :
     /\ IsActive(s.validators[i], CurrentEpoch(s))
     /\ s.validators[i].effectiveBalance <= EjectionBalance
     /\ ~Exiting(s.validators[i])}

IsReserved(s, f) ==
  f = [i \in 0..Len(s.validators) |->
         IF i = 0 THEN s
         ELSE IF i \in Ejected(s) THEN ReserveExit(f[i - 1], s.validators[i].effectiveBalance)
         ELSE f[i - 1]]

\* The reservations of the ejections, in registry order.
Reserved(s) == CHOOSE f : IsReserved(s, f)

\* The scan of ejections, as a recursion over the validators.
LEMMA ReservedFacts ==
  ASSUME NEW s \in RegistryState
  PROVE  /\ Reserved(s) \in [0..Len(s.validators) -> RegistryState]
         /\ Reserved(s)[0] = s
         /\ \A i \in 1..Len(s.validators) :
              Reserved(s)[i] = IF i \in Ejected(s)
                               THEN ReserveExit(Reserved(s)[i - 1],
                                                s.validators[i].effectiveBalance)
                               ELSE Reserved(s)[i - 1]
<1> DEFINE n == Len(s.validators)
           b(i) == s.validators[i].effectiveBalance
           step == [p \in (1..n) \X RegistryState |->
                      IF p[1] \in Ejected(s) THEN ReserveExit(p[2], b(p[1])) ELSE p[2]]
<1>1. n \in Nat /\ \A i \in 1..n : b(i) \in Nat
  BY ValidatorFields
<1> HIDE DEF b, n
<1>2. Closed(step, n, RegistryState)
  BY <1>1, ReserveExitType DEF Closed
<1>3. PICK f \in [0..n -> RegistryState] : Follows(f, s, step, n)
  <2> HIDE DEF step
  <2>1. s \in RegistryState
    OBVIOUS
  <2> QED
    BY ONLY <1>1, <1>2, <2>1, BoundedRecursion
<1>4. \A i \in 1..n : f[i] = IF i \in Ejected(s) THEN ReserveExit(f[i - 1], b(i)) ELSE f[i - 1]
  <2> TAKE i \in 1..n
  <2>1. i - 1 \in 0..n
    BY <1>1
  <2>2. f[i - 1] \in RegistryState
    BY <1>3, <2>1
  <2> QED
    BY <1>3, <2>2 DEF Follows
<1>5. IsReserved(s, f)
  <2> DEFINE g == [i \in 0..n |-> IF i = 0 THEN s
                     ELSE IF i \in Ejected(s) THEN ReserveExit(f[i - 1], b(i)) ELSE f[i - 1]]
  <2>1. \A i \in 0..n : f[i] = g[i]
    <3> TAKE i \in 0..n
    <3>1. CASE i = 0
      BY <1>3, <3>1 DEF Follows
    <3>2. CASE i \in 1..n
      BY <1>4, <3>2
    <3> QED
      BY <1>1, <3>1, <3>2
  <2>2. f = g
    BY <1>3, <2>1
  <2> QED
    BY <2>2 DEF IsReserved, n, b
<1>6. IsReserved(s, Reserved(s))
  BY <1>5 DEF Reserved
<1> DEFINE r == Reserved(s)
<1>7. r = [i \in 0..n |-> IF i = 0 THEN s
             ELSE IF i \in Ejected(s) THEN ReserveExit(r[i - 1], b(i)) ELSE r[i - 1]]
  BY <1>6 DEF IsReserved, n, b
<1> HIDE DEF r
<1>8. r[0] = s
  BY <1>1, <1>7
<1>9. \A i \in 1..n : r[i] = IF i \in Ejected(s) THEN ReserveExit(r[i - 1], b(i)) ELSE r[i - 1]
  <2> TAKE i \in 1..n
  <2>1. i \in 0..n /\ i # 0
    BY <1>1
  <2> QED
    BY <1>7, <2>1
<1>10. \A i \in 0..n : i \in {j \in 0..n : r[j] \in RegistryState}
  <2> DEFINE S == {j \in 0..n : r[j] \in RegistryState}
  <2>1. 0 \in S
    BY <1>1, <1>8
  <2>2. ASSUME NEW i \in 1..n, i - 1 \in S PROVE i \in S
    <3>1. r[i - 1] \in RegistryState /\ i \in 0..n
      BY <1>1, <2>2
    <3>2. ReserveExit(r[i - 1], b(i)) \in RegistryState
      BY <1>1, <3>1, ReserveExitType
    <3> QED
      BY <1>9, <3>1, <3>2
  <2> HIDE DEF S
  <2> QED
    BY <1>1, <2>1, <2>2, BoundedInduction DEF S
<1>11. r \in [0..n -> RegistryState]
  BY <1>7, <1>10
<1> QED
  BY <1>8, <1>9, <1>11 DEF r, n, b

\* What the chain of reservations changes, and how.
LEMMA ReservedChain ==
  ASSUME NEW s \in RegistryState, NEW i \in 1..Len(s.validators)
  PROVE  LET p == Reserved(s)[i - 1]
             r == Reserved(s)[i]
         IN /\ p \in RegistryState /\ r \in RegistryState
            /\ r.earliestExitEpoch >= p.earliestExitEpoch
            /\ i \notin Ejected(s) => r = p
            /\ i \in Ejected(s) =>
                 /\ ChurnStep(p, r, s.validators[i].effectiveBalance)
                 /\ r.earliestExitEpoch >= ActivationExitEpoch(CurrentEpoch(s))
<1> DEFINE n == Len(s.validators)
           b(k) == s.validators[k].effectiveBalance
           R == Reserved(s)
<1>1. n \in Nat /\ b(i) \in Nat
  BY ValidatorFields
<1>2. /\ R \in [0..n -> RegistryState] /\ R[0] = s
      /\ \A k \in 1..n : R[k] = IF k \in Ejected(s) THEN ReserveExit(R[k - 1], b(k)) ELSE R[k - 1]
  BY ReservedFacts
<1> HIDE DEF R, n
<1>3. \A k \in 0..n : k \in {j \in 0..n : R[j].slot = s.slot}
  <2> DEFINE S == {j \in 0..n : R[j].slot = s.slot}
  <2>1. 0 \in S
    BY <1>1, <1>2
  <2>2. ASSUME NEW k \in 1..n, k - 1 \in S PROVE k \in S
    <3>1. R[k - 1].slot = s.slot /\ R[k - 1] \in RegistryState
      BY <1>1, <1>2, <2>2
    <3>2. b(k) \in Nat
      BY ValidatorFields DEF n
    <3> DEFINE q == ReserveExit(R[k - 1], b(k))
    <3>3. /\ q \in RegistryState
          /\ q = [R[k - 1] EXCEPT !.exitBalanceToConsume = q.exitBalanceToConsume,
                                  !.earliestExitEpoch = q.earliestExitEpoch]
      <4> HIDE DEF b
      <4> QED
        BY <3>1, <3>2, ReserveExitType
    <3> HIDE DEF q
    <3>4. q.slot = s.slot
      BY <3>1, <3>3 DEF RegistryState
    <3>5. R[k] = q \/ R[k] = R[k - 1]
      BY <1>2 DEF q
    <3> QED
      BY <1>1, <3>1, <3>4, <3>5
  <2> HIDE DEF S
  <2> QED
    BY <1>1, <2>1, <2>2, BoundedInduction DEF S
<1>4. i - 1 \in 0..n /\ i \in 0..n
  BY <1>1 DEF n
<1>5. /\ R[i - 1] \in RegistryState /\ R[i] \in RegistryState
      /\ R[i - 1].slot = s.slot
  BY <1>2, <1>3, <1>4
<1>6. CurrentEpoch(R[i - 1]) = CurrentEpoch(s)
  BY <1>5 DEF CurrentEpoch
<1>7. CASE i \notin Ejected(s)
  <2>1. R[i] = R[i - 1] /\ R[i].earliestExitEpoch \in Nat
    BY <1>2, <1>5, <1>7 DEF RegistryState, n
  <2> QED
    BY <1>5, <1>7, <2>1 DEF R
<1>8. CASE i \in Ejected(s)
  <2>1. R[i] = ReserveExit(R[i - 1], b(i))
    BY <1>2, <1>8 DEF n
  <2> HIDE DEF b
  <2>2. /\ R[i].earliestExitEpoch >= R[i - 1].earliestExitEpoch
        /\ R[i].earliestExitEpoch >= ActivationExitEpoch(CurrentEpoch(R[i - 1]))
        /\ ChurnStep(R[i - 1], R[i], b(i))
    BY <1>1, <1>5, <2>1, ReserveExitType DEF ChurnStep
  <2> QED
    BY <1>5, <1>6, <1>8, <2>2 DEF R, b
<1> QED
  BY <1>7, <1>8

\* What an ejection of validator i makes of it.
AfterUpdates(s, i) ==
  LET v == s.validators[i]
      exit == Reserved(s)[i].earliestExitEpoch
  IN [v EXCEPT
        !.eligibility = IF JoinsActivationQueue(v) THEN CurrentEpoch(s) + 1 ELSE @,
        !.activation = IF MayActivate(s, v) THEN ActivationExitEpoch(CurrentEpoch(s)) ELSE @,
        !.exit = IF i \in Ejected(s) THEN exit ELSE @,
        !.withdrawable = IF i \in Ejected(s)
                         THEN exit + MinValidatorWithdrawabilityDelay ELSE @]

\* process_registry_updates in terms of that scan.
LEMMA RegistryUpdatesAre ==
  ASSUME NEW s \in RegistryState
  PROVE  LET last == Reserved(s)[Len(s.validators)]
         IN RegistryUpdates(s) =
              [s EXCEPT !.exitBalanceToConsume = last.exitBalanceToConsume,
                        !.earliestExitEpoch = last.earliestExitEpoch,
                        !.validators = [i \in DOMAIN s.validators |-> AfterUpdates(s, i)]]
<1> DEFINE ejected == {i \in DOMAIN s.validators :
                         /\ IsActive(s.validators[i], CurrentEpoch(s))
                         /\ s.validators[i].effectiveBalance <= EjectionBalance
                         /\ ~Exiting(s.validators[i])}
           R == CHOOSE f :
                  f = [i \in 0..Len(s.validators) |->
                        IF i = 0 THEN s
                        ELSE IF i \in ejected
                             THEN ReserveExit(f[i - 1], s.validators[i].effectiveBalance)
                             ELSE f[i - 1]]
<1>1. ejected = Ejected(s)
  BY DEF Ejected
<1>2. R = Reserved(s)
  BY DEF Reserved, IsReserved, Ejected
<1> DEFINE epoch == CurrentEpoch(s)
           last == R[Len(s.validators)]
           updated(i, v) ==
             [v EXCEPT
               !.eligibility = IF JoinsActivationQueue(v) THEN epoch + 1 ELSE @,
               !.activation = IF MayActivate(s, v) THEN ActivationExitEpoch(epoch) ELSE @,
               !.exit = IF i \in ejected THEN R[i].earliestExitEpoch ELSE @,
               !.withdrawable = IF i \in ejected
                                THEN R[i].earliestExitEpoch + MinValidatorWithdrawabilityDelay
                                ELSE @]
<1>3. RegistryUpdates(s) = [s EXCEPT !.exitBalanceToConsume = last.exitBalanceToConsume,
               !.earliestExitEpoch = last.earliestExitEpoch,
               !.validators = [i \in DOMAIN @ |-> updated(i, @[i])]]
  BY DEF RegistryUpdates
<1> HIDE DEF R, ejected
<1>4. \A i \in DOMAIN s.validators : updated(i, s.validators[i]) = AfterUpdates(s, i)
  BY <1>1, <1>2 DEF AfterUpdates
<1>5. "validators" \in DOMAIN s
  BY DEF RegistryState
<1> HIDE DEF updated
<1> QED
  BY <1>2, <1>3, <1>4, <1>5

\* One validator after it: what ejection and activation write.
LEMMA AfterUpdatesType ==
  ASSUME NEW s \in RegistryState, NEW i \in 1..Len(s.validators)
  PROVE  LET v == s.validators[i]
             w == AfterUpdates(s, i)
         IN /\ w \in Validator
            /\ w.credential = v.credential /\ w.effectiveBalance = v.effectiveBalance
            /\ w.slashed = v.slashed
            /\ i \notin Ejected(s) => w.exit = v.exit /\ w.withdrawable = v.withdrawable
            /\ i \in Ejected(s) =>
                 /\ ~Exiting(v)
                 /\ w.exit = Reserved(s)[i].earliestExitEpoch
                 /\ w.withdrawable = w.exit + MinValidatorWithdrawabilityDelay
<1> DEFINE e == Reserved(s)[i].earliestExitEpoch
<1>1. e \in Nat
  BY ReservedChain DEF RegistryState
<1>2. s.validators[i] \in Validator
  BY ValidatorFields
<1>3. /\ e + MinValidatorWithdrawabilityDelay \in Nat
      /\ CurrentEpoch(s) + 1 \in Nat
      /\ ActivationExitEpoch(CurrentEpoch(s)) \in Nat
  <2> HIDE DEF e
  <2>1. CurrentEpoch(s) \in Nat /\ ActivationExitEpoch(CurrentEpoch(s)) \in Nat
    BY EpochNat
  <2>2. MinValidatorWithdrawabilityDelay \in Nat
    BY RegistryAssumption
  <2> QED
    BY <1>1, <2>1, <2>2
<1> HIDE DEF e
<1> QED
  BY <1>1, <1>2, <1>3 DEF AfterUpdates, Validator, Ejected, e

\* process_registry_updates keeps the types.
LEMMA RegistryUpdatesType ==
  ASSUME NEW s \in RegistryState
  PROVE  LET t == RegistryUpdates(s)
             last == Reserved(s)[Len(s.validators)]
         IN /\ t \in RegistryState
            /\ t = [s EXCEPT !.validators = t.validators,
                             !.exitBalanceToConsume = t.exitBalanceToConsume,
                             !.earliestExitEpoch = t.earliestExitEpoch]
            /\ Len(t.validators) = Len(s.validators)
            /\ \A i \in 1..Len(s.validators) : t.validators[i] = AfterUpdates(s, i)
            /\ t.exitBalanceToConsume = last.exitBalanceToConsume
            /\ t.earliestExitEpoch = last.earliestExitEpoch
<1> DEFINE t == RegistryUpdates(s)
           last == Reserved(s)[Len(s.validators)]
           validators == [i \in DOMAIN s.validators |-> AfterUpdates(s, i)]
<1>1. t = [s EXCEPT !.exitBalanceToConsume = last.exitBalanceToConsume,
                    !.earliestExitEpoch = last.earliestExitEpoch,
                    !.validators = validators]
  BY RegistryUpdatesAre
<1>2. Len(s.validators) \in Nat /\ DOMAIN s.validators = 1..Len(s.validators)
  BY ValidatorFields
<1>3. last \in RegistryState
  <2>1. Len(s.validators) \in 0..Len(s.validators)
    BY <1>2
  <2> QED
    BY <2>1, ReservedFacts
<1>4. validators \in Seq(Validator) /\ Len(validators) = Len(s.validators)
  <2> DEFINE n == Len(s.validators)
  <2>1. \A i \in 1..n : validators[i] \in Validator
    BY <1>2, AfterUpdatesType
  <2>2. validators = [i \in 1..n |-> validators[i]]
    BY <1>2
  <2> HIDE DEF validators
  <2> QED
    BY <1>2, <2>1, <2>2, SequenceOf
<1>5. \A i \in 1..Len(s.validators) : validators[i] = AfterUpdates(s, i)
  BY <1>2
<1> HIDE DEF t, last, validators
<1>6. /\ t \in RegistryState /\ t.validators = validators
      /\ t.exitBalanceToConsume = last.exitBalanceToConsume
      /\ t.earliestExitEpoch = last.earliestExitEpoch
  BY <1>1, <1>3, <1>4 DEF RegistryState
<1> QED
  BY <1>1, <1>4, <1>5, <1>6 DEF t, last

\* The sum of a sequence is the sum over its positions.
LEMMA SumOfSequence ==
  ASSUME NEW f, NEW n \in Nat, DOMAIN f = 1..n, \A i \in 1..n : f[i] \in Nat
  PROVE  SumFunction(f) \in Nat /\ SumFunction(f) = SumFunctionOnSet(f, 1..n)
<1>1. SumFunction(f) = SumFunctionOnSet(f, 1..n)
  BY DEF SumFunction
<1>2. IsFiniteSet(1..n)
  BY FS_Interval
<1> QED
  BY <1>1, <1>2, SumNatural

---------------------------------------------------------------------------
(* Totals of the queues.                                                    *)

Total(queue) == SumFunction(Amounts(queue))

\* The total of a queue is the sum of its amounts.
LEMMA TotalIs ==
  ASSUME NEW S, \A e \in S : e.amount \in Nat, NEW q \in Seq(S)
  PROVE  /\ Len(q) \in Nat /\ DOMAIN q = 1..Len(q) /\ DOMAIN Amounts(q) = 1..Len(q)
         /\ IsFiniteSet(1..Len(q))
         /\ \A k \in 1..Len(q) : q[k] \in S /\ Amounts(q)[k] = q[k].amount
         /\ \A k \in 1..Len(q) : Amounts(q)[k] \in Nat
         /\ Total(q) = SumFunctionOnSet(Amounts(q), 1..Len(q))
         /\ Total(q) \in Nat
<1>1. Len(q) \in Nat /\ DOMAIN q = 1..Len(q) /\ \A k \in 1..Len(q) : q[k] \in S
  BY SequenceFacts
<1>2. DOMAIN Amounts(q) = 1..Len(q) /\ \A k \in 1..Len(q) : Amounts(q)[k] = q[k].amount
  BY <1>1 DEF Amounts
<1>3. \A k \in 1..Len(q) : Amounts(q)[k] \in Nat
  BY <1>1, <1>2
<1>4. Total(q) = SumFunctionOnSet(Amounts(q), 1..Len(q)) /\ Total(q) \in Nat
  BY <1>1, <1>2, <1>3, SumOfSequence DEF Total
<1>5. IsFiniteSet(1..Len(q))
  BY <1>1, FS_Interval
<1> QED BY <1>1, <1>2, <1>3, <1>4, <1>5

\* Nothing is queued in an empty queue.
LEMMA TotalEmpty ==
  /\ Total(<<>>) = 0
  /\ \A i : AmountFor(<<>>, i) = 0
<1>1. DOMAIN Amounts(<<>>) = {}
  BY DEF Amounts
<1>2. \A i : {k \in DOMAIN <<>> : <<>>[k].validator = i} = {}
  OBVIOUS
<1>3. Total(<<>>) = SumFunctionOnSet(Amounts(<<>>), {})
  BY <1>1 DEF Total, SumFunction
<1>4. \A i : AmountFor(<<>>, i) = SumFunctionOnSet(Amounts(<<>>), {})
  BY <1>2 DEF AmountFor
<1> QED BY <1>3, <1>4, SumEmpty

\* The sum over a set of positions of a queue, when the queue is continued.
LEMMA SumOfFront ==
  ASSUME NEW S, \A e \in S : e.amount \in Nat, NEW q \in Seq(S), NEW r \in Seq(S),
         NEW n \in 0..Len(q), n <= Len(r), \A k \in 1..n : r[k] = q[k],
         NEW T \in SUBSET (1..n)
  PROVE  SumFunctionOnSet(Amounts(r), T) = SumFunctionOnSet(Amounts(q), T)
         /\ SumFunctionOnSet(Amounts(q), T) \in Nat
<1>1. Len(q) \in Nat /\ Len(r) \in Nat
  BY SequenceFacts
<1>2. T \subseteq 1..Len(q) /\ T \subseteq 1..Len(r)
  BY <1>1
<1>3. IsFiniteSet(T)
  BY <1>2, TotalIs, FS_Subset
<1>4. \A k \in T : Amounts(q)[k] \in Nat /\ Amounts(r)[k] = Amounts(q)[k]
  BY <1>2, TotalIs
<1>5. SumFunctionOnSet(Amounts(q), T) \in Nat
  BY <1>3, <1>4, SumNatural
<1>6. \A k \in T : Amounts(q)[k] \in Int /\ Amounts(r)[k] = Amounts(q)[k]
  BY <1>4
<1>7. SumFunctionOnSet(Amounts(q), T) = SumFunctionOnSet(Amounts(r), T)
  BY ONLY <1>3, <1>6, SumEqual
<1> QED BY <1>5, <1>7

\* The sum of a prefix, by its last element.
LEMMA PrefixSum ==
  ASSUME NEW S, \A e \in S : e.amount \in Nat, NEW q \in Seq(S), NEW k \in 1..Len(q)
  PROVE  /\ SumFunctionOnSet(Amounts(q), 1..k)
              = SumFunctionOnSet(Amounts(q), 1..(k - 1)) + q[k].amount
         /\ SumFunctionOnSet(Amounts(q), 1..(k - 1)) \in Nat
         /\ SumFunctionOnSet(Amounts(q), 1..k) \in Nat
         /\ q[k].amount \in Nat
<1>1. /\ Len(q) \in Nat /\ \A x \in 1..Len(q) : Amounts(q)[x] \in Nat
      /\ Amounts(q)[k] = q[k].amount
      /\ IsFiniteSet(1..Len(q))
  BY TotalIs
<1> DEFINE f == Amounts(q)
           n == Len(q)
<1>2. n \in Nat /\ k \in 1..n /\ \A x \in 1..n : f[x] \in Int
  BY <1>1
<1> HIDE DEF f, n
<1>3. SumFunctionOnSet(f, 1..k) = SumFunctionOnSet(f, 1..(k - 1)) + f[k]
  BY <1>2, IntervalSum
<1>4. SumFunctionOnSet(f, 1..(k - 1)) \in Nat
  <2> DEFINE T == 1..(k - 1)
  <2>1. T \subseteq 1..n
    BY <1>2
  <2>2. IsFiniteSet(T) /\ \A x \in T : f[x] \in Nat
    BY <1>1, <2>1, FS_Subset DEF f, n
  <2> HIDE DEF T
  <2>3. SumFunctionOnSet(f, T) \in Nat
    BY <2>2, SumNatural
  <2> QED BY <2>3 DEF T
<1>5. f[k] = q[k].amount /\ f[k] \in Nat
  BY <1>1 DEF f
<1>6. SumFunctionOnSet(f, 1..k) \in Nat
  BY <1>3, <1>4, <1>5
<1> QED BY <1>3, <1>4, <1>5, <1>6 DEF f

\* What an entry adds to the total, and to its validator's share.
LEMMA TotalAppend ==
  ASSUME NEW S, \A e \in S : e.amount \in Nat, NEW q \in Seq(S), NEW e \in S
  PROVE  /\ Total(Append(q, e)) = Total(q) + e.amount
         /\ \A i : /\ AmountFor(q, i) \in Nat
                   /\ AmountFor(Append(q, e), i)
                        = IF e.validator = i THEN AmountFor(q, i) + e.amount
                          ELSE AmountFor(q, i)
<1> DEFINE r == Append(q, e)
           n == Len(q)
           F(p, i) == {k \in DOMAIN p : p[k].validator = i}
<1>1. /\ r \in Seq(S) /\ Len(r) = n + 1 /\ r[n + 1] = e /\ n \in Nat
      /\ \A k \in 1..n : r[k] = q[k]
  BY SequenceAppend, SequenceFacts
<1>2. /\ DOMAIN r = 1..(n + 1) /\ DOMAIN q = 1..n
      /\ IsFiniteSet(1..(n + 1)) /\ \A k \in 1..(n + 1) : Amounts(r)[k] \in Nat
      /\ Amounts(r)[n + 1] = e.amount
      /\ Total(r) = SumFunctionOnSet(Amounts(r), 1..(n + 1))
      /\ Total(q) = SumFunctionOnSet(Amounts(q), 1..n)
  <2> HIDE DEF r
  <2>1. Len(r) = n + 1 /\ n + 1 \in 1..(n + 1)
    BY <1>1
  <2> QED BY <1>1, <2>1, TotalIs
<1>3. \A T \in SUBSET (1..n) :
        /\ SumFunctionOnSet(Amounts(r), T) = SumFunctionOnSet(Amounts(q), T)
        /\ SumFunctionOnSet(Amounts(q), T) \in Nat
  <2> HIDE DEF r
  <2>1. n \in 0..Len(q) /\ n <= Len(r)
    BY <1>1
  <2> QED BY <1>1, <2>1, SumOfFront
<1> HIDE DEF r
<1>4. \A T \in SUBSET (1..n) :
        SumFunctionOnSet(Amounts(r), T \cup {n + 1})
          = SumFunctionOnSet(Amounts(q), T) + e.amount
  <2> TAKE T \in SUBSET (1..n)
  <2> DEFINE f == Amounts(r)
  <2>1. \A k \in 1..(n + 1) : f[k] \in Int
    BY <1>2
  <2>2. f[n + 1] = e.amount /\ SumFunctionOnSet(f, T) = SumFunctionOnSet(Amounts(q), T)
    BY <1>2, <1>3
  <2> HIDE DEF f
  <2>4. SumFunctionOnSet(f, T \cup {n + 1}) = SumFunctionOnSet(f, T) + f[n + 1]
    BY <1>1, <2>1, LastInsert
  <2> QED BY <2>2, <2>4 DEF f
<1>5. Total(r) = Total(q) + e.amount
  <2>1. 1..(n + 1) = (1..n) \cup {n + 1}
    BY <1>1
  <2> QED BY <1>2, <1>4, <2>1
<1>6. ASSUME NEW i
      PROVE  /\ AmountFor(q, i) \in Nat
             /\ AmountFor(r, i) = IF e.validator = i THEN AmountFor(q, i) + e.amount
                                  ELSE AmountFor(q, i)
  <2>1. F(q, i) \in SUBSET (1..n)
    BY <1>2
  <2>2. F(r, i) = IF e.validator = i THEN F(q, i) \cup {n + 1} ELSE F(q, i)
    BY <1>1, <1>2
  <2>3. AmountFor(q, i) = SumFunctionOnSet(Amounts(q), F(q, i))
        /\ AmountFor(r, i) = SumFunctionOnSet(Amounts(r), F(r, i))
    BY DEF AmountFor
  <2> HIDE DEF F
  <2> QED BY <1>3, <1>4, <2>1, <2>2, <2>3
<1> QED BY <1>5, <1>6 DEF r

\* What is left of a sequence without its first elements.
LEMMA SequenceTail ==
  ASSUME NEW S, NEW q \in Seq(S), NEW c \in 0..Len(q)
  PROVE  /\ SubSeq(q, c + 1, Len(q)) \in Seq(S)
         /\ Len(SubSeq(q, c + 1, Len(q))) = Len(q) - c
         /\ \A k \in 1..(Len(q) - c) : SubSeq(q, c + 1, Len(q))[k] = q[c + k]
OBVIOUS

\* Two sequences joined.
LEMMA SequenceJoin ==
  ASSUME NEW S, NEW p \in Seq(S), NEW q \in Seq(S)
  PROVE  /\ p \o q \in Seq(S)
         /\ Len(p \o q) = Len(p) + Len(q)
         /\ \A k \in 1..Len(p) : (p \o q)[k] = p[k]
         /\ \A k \in 1..Len(q) : (p \o q)[Len(p) + k] = q[k]
OBVIOUS

\* A queue is its first n elements and the rest.
LEMMA TotalSplit ==
  ASSUME NEW S, \A e \in S : e.amount \in Nat, NEW q \in Seq(S), NEW c \in 0..Len(q),
         NEW r \in Seq(S), Len(r) = Len(q) - c, \A k \in 1..Len(r) : r[k] = q[c + k]
  PROVE  /\ Total(q) = SumFunctionOnSet(Amounts(q), 1..c) + Total(r)
         /\ SumFunctionOnSet(Amounts(q), 1..c) \in Nat
<1> DEFINE n == Len(q)
           f == Amounts(q)
           D == 1..n
           P == 1..c
           m == Len(r)
<1>1. /\ n \in Nat /\ IsFiniteSet(D) /\ \A k \in D : f[k] \in Nat /\ f[k] = q[k].amount
      /\ Total(q) = SumFunctionOnSet(f, D)
  BY TotalIs
<1>2. /\ m \in Nat /\ \A k \in 1..m : Amounts(r)[k] \in Nat /\ Amounts(r)[k] = r[k].amount
      /\ Total(r) = SumFunctionOnSet(Amounts(r), 1..m) /\ Total(r) \in Nat
  BY TotalIs
<1>3. P \in SUBSET D /\ D \ P = (c + 1)..(c + m)
  BY <1>1
<1>4. SumFunctionOnSet(f, D) = SumFunctionOnSet(f, P) + SumFunctionOnSet(f, D \ P)
  <2> HIDE DEF D, P, f
  <2>1. \A k \in D : f[k] \in Int
    BY <1>1
  <2> QED BY <1>1, <1>3, <2>1, SumParts
<1>5. SumFunctionOnSet(Amounts(r), 1..m) = SumFunctionOnSet(f, (c + 1)..(c + m))
  <2> HIDE DEF f
  <2>1. ASSUME NEW k \in 1..m PROVE Amounts(r)[k] \in Int /\ f[c + k] = Amounts(r)[k]
    <3>1. c + k \in D
      BY <1>1
    <3>2. f[c + k] = q[c + k].amount /\ r[k] = q[c + k]
      BY <1>1, <3>1
    <3>3. Amounts(r)[k] = r[k].amount /\ Amounts(r)[k] \in Int
      BY <1>2
    <3> QED BY <3>2, <3>3
  <2>2. c \in Nat
    BY <1>1
  <2> HIDE DEF m
  <2> QED BY <1>2, <2>1, <2>2, SumShift, ZenonT(60)
<1>6. SumFunctionOnSet(f, P) \in Nat
  <2>1. IsFiniteSet(P) /\ \A k \in P : f[k] \in Nat
    BY <1>1, <1>3, FS_Subset
  <2> HIDE DEF P, f
  <2> QED BY <2>1, SumNatural
<1> QED BY <1>1, <1>2, <1>3, <1>4, <1>5, <1>6

\* A queue is worth what is taken from its front and what is left.
LEMMA TotalTail ==
  ASSUME NEW S, \A e \in S : e.amount \in Nat, NEW q \in Seq(S), NEW c \in 0..Len(q)
  PROVE  Total(q) = SumFunctionOnSet(Amounts(q), 1..c) + Total(SubSeq(q, c + 1, Len(q)))
<1> DEFINE r == SubSeq(q, c + 1, Len(q))
<1>1. /\ r \in Seq(S) /\ Len(r) = Len(q) - c
      /\ \A k \in 1..(Len(q) - c) : r[k] = q[c + k]
  BY SequenceTail
<1> HIDE DEF r
<1>2. Total(q) = SumFunctionOnSet(Amounts(q), 1..c) + Total(r)
  <2>1. \A k \in 1..Len(r) : r[k] = q[c + k]
    BY <1>1
  <2> QED BY <1>1, <2>1, TotalSplit
<1> QED BY <1>2 DEF r

\* Two queues joined are worth what each is.
LEMMA TotalJoin ==
  ASSUME NEW S, \A e \in S : e.amount \in Nat, NEW p \in Seq(S), NEW q \in Seq(S)
  PROVE  Total(p \o q) = Total(p) + Total(q)
<1> DEFINE r == p \o q
           c == Len(p)
<1>1. /\ r \in Seq(S) /\ Len(r) = c + Len(q)
      /\ \A k \in 1..c : r[k] = p[k]
      /\ \A k \in 1..Len(q) : r[c + k] = q[k]
  BY SequenceJoin
<1>2. c \in Nat /\ Len(q) \in Nat
  BY SequenceFacts
<1> HIDE DEF r
<1>3. Total(r) = SumFunctionOnSet(Amounts(r), 1..c) + Total(q)
  <2>1. c \in 0..Len(r) /\ Len(q) = Len(r) - c /\ \A k \in 1..Len(q) : q[k] = r[c + k]
    BY <1>1, <1>2
  <2> QED BY <1>1, <2>1, TotalSplit
<1>4. SumFunctionOnSet(Amounts(r), 1..c) = SumFunctionOnSet(Amounts(p), 1..c)
  <2> DEFINE T == 1..c
  <2>1. c \in 0..Len(p) /\ c <= Len(r) /\ T \in SUBSET (1..c)
    BY <1>1, <1>2
  <2> HIDE DEF T
  <2>2. SumFunctionOnSet(Amounts(r), T) = SumFunctionOnSet(Amounts(p), T)
    BY <1>1, <2>1, SumOfFront
  <2> QED BY <2>2 DEF T
<1>5. Total(p) = SumFunctionOnSet(Amounts(p), 1..c)
  BY TotalIs
<1> QED BY <1>3, <1>4, <1>5 DEF r

\* process_slashings lowers balances only.
LEMMA ProcessSlashingsType ==
  ASSUME NEW s \in RegistryState, Len(s.balances) = Len(s.validators)
  PROVE  LET t == ProcessSlashings(s)
         IN /\ t \in RegistryState
            /\ t = [s EXCEPT !.balances = t.balances]
            /\ Len(t.balances) = Len(s.balances)
<1> DEFINE total == TotalActiveBalance(s)
           D == 0..(EpochsPerSlashingsVector - 1)
           slashed == SumFunction(s.slashings)
           adjusted == Smaller(slashed * ProportionalSlashingMultiplier, total)
           perIncrement == adjusted \div (total \div EffectiveBalanceIncrement)
           penalty(v) ==
             IF v.slashed /\ PenaltyEpoch(v) = CurrentEpoch(s)
             THEN perIncrement * (v.effectiveBalance \div EffectiveBalanceIncrement)
             ELSE 0
           balances == [i \in DOMAIN s.balances |->
                          SaturatingSub(s.balances[i], penalty(s.validators[i]))]
           t == ProcessSlashings(s)
<1>1. /\ EffectiveBalanceIncrement \in Nat \ {0} /\ ProportionalSlashingMultiplier \in Nat
      /\ EpochsPerSlashingsVector \in Nat
  BY RegistryAssumption
<1>2. total \in Nat /\ total >= EffectiveBalanceIncrement
  BY TotalActiveNat
<1>3. slashed \in Nat
  <2>1. DOMAIN s.slashings = D /\ \A k \in D : s.slashings[k] \in Nat
    BY DEF RegistryState
  <2>2. IsFiniteSet(D)
    BY <1>1, FS_Interval
  <2> DEFINE f == s.slashings
  <2> HIDE DEF D, f
  <2>3. SumFunctionOnSet(f, D) \in Nat
    BY <2>1, <2>2, SumNatural DEF f
  <2> QED BY <2>1, <2>3 DEF SumFunction, f
<1>4. perIncrement \in Nat
  <2> HIDE DEF total, slashed
  <2>1. slashed * ProportionalSlashingMultiplier \in Nat
    BY <1>1, <1>3
  <2>2. adjusted \in Nat
    BY <1>2, <2>1 DEF Smaller
  <2>3. (total \div EffectiveBalanceIncrement) \in Nat \ {0}
    <3> DEFINE q == total \div EffectiveBalanceIncrement
               r == total % EffectiveBalanceIncrement
    <3>1. /\ q \in Nat /\ r \in 0..(EffectiveBalanceIncrement - 1)
          /\ total = EffectiveBalanceIncrement * q + r
      BY <1>1, <1>2, Division
    <3> HIDE DEF q, r
    <3>2. q # 0
      BY <1>1, <1>2, <3>1
    <3> QED BY <3>1, <3>2 DEF q
  <2> HIDE DEF adjusted
  <2> QED BY <2>2, <2>3, Division
<1> HIDE DEF perIncrement
<1>5. \A v \in Validator : penalty(v) \in Nat
  <2> TAKE v \in Validator
  <2>1. v.effectiveBalance \in Nat
    BY DEF Validator
  <2>2. (v.effectiveBalance \div EffectiveBalanceIncrement) \in Nat
    BY <1>1, <2>1, Division
  <2>3. perIncrement * (v.effectiveBalance \div EffectiveBalanceIncrement) \in Nat
    BY <1>4, <2>2
  <2> QED BY <2>3
<1>6. t = [s EXCEPT !.balances = balances]
  <2>1. "balances" \in DOMAIN s
    BY DEF RegistryState
  <2> QED BY <2>1 DEF ProcessSlashings, perIncrement
<1> HIDE DEF penalty, t
<1>7. balances \in Seq(Nat) /\ Len(balances) = Len(s.balances)
  <2> DEFINE n == Len(s.balances)
  <2>1. n \in Nat /\ DOMAIN s.balances = 1..n
    BY ValidatorFields
  <2>2. \A i \in 1..n : balances[i] \in Nat
    <3> TAKE i \in 1..n
    <3>1. s.balances[i] \in Nat /\ s.validators[i] \in Validator
      BY ValidatorFields
    <3>2. penalty(s.validators[i]) \in Nat
      BY <1>5, <3>1
    <3>3. SaturatingSub(s.balances[i], penalty(s.validators[i])) \in Nat
      BY <3>1, <3>2 DEF SaturatingSub
    <3> QED BY <2>1, <3>3
  <2>3. balances = [i \in 1..n |-> balances[i]]
    BY <2>1
  <2> HIDE DEF balances
  <2> QED BY <2>1, <2>2, <2>3, SequenceOf
<1> HIDE DEF balances
<1>8. t \in RegistryState /\ t.balances = balances
  BY <1>6, <1>7 DEF RegistryState
<1> QED BY <1>6, <1>7, <1>8 DEF t

---------------------------------------------------------------------------
(* The scan of the deposit queue.                                           *)

ScanBudget(s) == s.depositBalanceToConsume + ActivationExitChurnLimit(s)

ScanStart ==
  [count |-> 0, processed |-> 0, applied |-> <<>>, postponed |-> <<>>, churnReached |-> FALSE]

ScanStops(s, x) ==
  \/ x.churnReached
  \/ x.count = Len(s.pendingDeposits)
  \/ s.pendingDeposits[x.count + 1].slot > s.finalizedEpoch * SlotsPerEpoch
  \/ x.count >= MaxPendingDepositsPerEpoch

ScanStep(s, x) ==
  LET deposit   == s.pendingDeposits[x.count + 1]
      known     == deposit.validator \in DOMAIN s.validators
      withdrawn == known /\ s.validators[deposit.validator].withdrawable < CurrentEpoch(s) + 1
      exiting   == known /\ Exiting(s.validators[deposit.validator])
  IN IF withdrawn
     THEN [x EXCEPT !.count = @ + 1, !.applied = Append(@, deposit)]
     ELSE IF exiting
     THEN [x EXCEPT !.count = @ + 1, !.postponed = Append(@, deposit)]
     ELSE IF x.processed + deposit.amount > ScanBudget(s)
     THEN [x EXCEPT !.churnReached = TRUE]
     ELSE [x EXCEPT !.count = @ + 1, !.applied = Append(@, deposit),
                    !.processed = @ + deposit.amount]

ScanNext(s, x) == IF ScanStops(s, x) THEN x ELSE ScanStep(s, x)

IsScan(s, f) ==
  f = [k \in 0..(Len(s.pendingDeposits) + 1) |-> IF k = 0 THEN ScanStart ELSE ScanNext(s, f[k - 1])]

Within(queue, n) == \A k \in DOMAIN queue : queue[k].validator <= n

\* What has been scanned was either applied or postponed; the scan stops for
\* the churn only at a deposit that is too large for what is left of it.
ScanStates(s) ==
  {x \in [count : 0..Len(s.pendingDeposits), processed : Nat, applied : Seq(Deposit),
          postponed : Seq(Deposit), churnReached : BOOLEAN] :
     /\ Within(x.applied, Len(s.validators) + 1)
     /\ Within(x.postponed, Len(s.validators) + 1)
     /\ x.processed <= ScanBudget(s)
     /\ x.churnReached =>
          /\ x.count < Len(s.pendingDeposits)
          /\ x.processed + s.pendingDeposits[x.count + 1].amount > ScanBudget(s)
     /\ Total(x.applied) + Total(x.postponed)
          = SumFunctionOnSet(Amounts(s.pendingDeposits), 1..x.count)}

\* The numbers of a deposit.
LEMMA DepositAmounts == \A e \in Deposit : e.amount \in Nat /\ e.validator \in 1..MaxValidators
BY DEF Deposit

\* A queue within n stays so with an entry within n.
LEMMA WithinAppend ==
  ASSUME NEW q \in Seq(Deposit), NEW e \in Deposit, NEW n \in Nat,
         Within(q, n), e.validator <= n
  PROVE  Within(Append(q, e), n)
<1>1. /\ Append(q, e) \in Seq(Deposit) /\ Len(Append(q, e)) = Len(q) + 1
      /\ Append(q, e)[Len(q) + 1] = e
      /\ \A k \in 1..Len(q) : Append(q, e)[k] = q[k]
      /\ Len(q) \in Nat /\ DOMAIN q = 1..Len(q)
  BY SequenceAppend, SequenceFacts
<1> DEFINE r == Append(q, e)
<1> HIDE DEF r
<1>2. DOMAIN r = 1..(Len(q) + 1)
  BY <1>1, SequenceFacts DEF r
<1>3. ASSUME NEW k \in DOMAIN r PROVE r[k].validator <= n
  <2>1. k = Len(q) + 1 \/ k \in 1..Len(q)
    BY <1>1, <1>2
  <2> QED BY <1>1, <2>1 DEF Within, r
<1> QED BY <1>3 DEF Within, r

\* One iteration of the deposit scan keeps its types and its budget.
LEMMA ScanNextType ==
  ASSUME NEW s \in RegistryState, Indexed(s), NEW x \in ScanStates(s)
  PROVE  ScanNext(s, x) \in ScanStates(s)
<1> DEFINE queue == s.pendingDeposits
           n == Len(s.validators) + 1
           d == queue[x.count + 1]
           budget == ScanBudget(s)
           F == SumFunctionOnSet(Amounts(queue), 1..x.count)
           X == [count : 0..Len(queue), processed : Nat, applied : Seq(Deposit),
                 postponed : Seq(Deposit), churnReached : BOOLEAN]
<1>1. queue \in Seq(Deposit) /\ Len(queue) \in Nat /\ DOMAIN queue = 1..Len(queue)
  BY SequenceFacts DEF RegistryState
<1>2. /\ x \in X
      /\ x.count \in 0..Len(queue) /\ x.processed \in Nat /\ x.applied \in Seq(Deposit)
      /\ x.postponed \in Seq(Deposit)
      /\ Within(x.applied, n) /\ Within(x.postponed, n) /\ x.processed <= budget
      /\ Total(x.applied) + Total(x.postponed) = F
  BY DEF ScanStates
<1>3. n \in Nat /\ budget \in Nat
  <2>1. s.depositBalanceToConsume \in Nat /\ ActivationExitChurnLimit(s) \in Nat
    BY ChurnLimits DEF RegistryState
  <2> QED BY <2>1, ValidatorFields DEF ScanBudget
<1>4. CASE ScanStops(s, x)
  BY <1>4 DEF ScanNext
<1>5. CASE ~ScanStops(s, x)
  <2>1. x.count + 1 \in 1..Len(queue) /\ ~x.churnReached
    BY <1>1, <1>2, <1>5 DEF ScanStops
  <2>2. d \in Deposit /\ d.amount \in Nat /\ d.validator <= n
    BY <1>1, <2>1, DepositAmounts DEF Indexed
  <2> DEFINE G == SumFunctionOnSet(Amounts(queue), 1..(x.count + 1))
             a == Append(x.applied, d)
             p == Append(x.postponed, d)
  <2>3. G = F + d.amount /\ F \in Nat
    <3>1. (x.count + 1) - 1 = x.count
      BY <1>2
    <3> QED BY <1>1, <2>1, <3>1, PrefixSum, DepositAmounts
  <2>4. /\ a \in Seq(Deposit) /\ p \in Seq(Deposit) /\ Within(a, n) /\ Within(p, n)
        /\ Total(a) = Total(x.applied) + d.amount
        /\ Total(p) = Total(x.postponed) + d.amount
        /\ Total(x.applied) \in Nat /\ Total(x.postponed) \in Nat
    <3> HIDE DEF n, d
    <3> QED BY <1>2, <1>3, <2>2, SequenceAppend, WithinAppend, TotalAppend, TotalIs, DepositAmounts
  <2> DEFINE c == x.count + 1
             m == x.processed + d.amount
             y1 == [x EXCEPT !.count = c, !.applied = a]
             y2 == [x EXCEPT !.count = c, !.postponed = p]
             y3 == [x EXCEPT !.churnReached = TRUE]
             y4 == [x EXCEPT !.count = c, !.applied = a, !.processed = m]
             y == ScanNext(s, x)
  <2>5. \/ y = y1 \/ y = y2
        \/ y = y3 /\ x.processed + d.amount > budget
        \/ y = y4 /\ ~(x.processed + d.amount > budget)
    BY <1>5 DEF ScanNext, ScanStep
  <2>10. c \in 0..Len(queue) /\ m \in Nat
    BY <1>1, <1>2, <2>1, <2>2
  <2> HIDE DEF a, p, d, F, G, budget, n, y, queue, c, m
  <2>6. CASE y = y1
    <3>1. /\ y \in X /\ y.count = c /\ y.processed = x.processed
          /\ y.applied = a /\ y.postponed = x.postponed /\ y.churnReached = x.churnReached
      BY <1>2, <2>4, <2>10, <2>6
    <3>2. Total(y.applied) + Total(y.postponed) = G
      BY <1>2, <2>2, <2>3, <2>4, <3>1, SMTT(30)
    <3> QED BY <1>2, <2>1, <2>4, <3>1, <3>2 DEF ScanStates, y, queue, n, budget, G, c
  <2>7. CASE y = y2
    <3>1. /\ y \in X /\ y.count = c /\ y.processed = x.processed
          /\ y.applied = x.applied /\ y.postponed = p /\ y.churnReached = x.churnReached
      BY <1>2, <2>4, <2>10, <2>7
    <3>2. Total(y.applied) + Total(y.postponed) = G
      BY <1>2, <2>2, <2>3, <2>4, <3>1, SMTT(30)
    <3> QED BY <1>2, <2>1, <2>4, <3>1, <3>2 DEF ScanStates, y, queue, n, budget, G, c
  <2>8. CASE y = y3 /\ x.processed + d.amount > budget
    <3>1. /\ y \in X /\ y.count = x.count /\ y.processed = x.processed
          /\ y.applied = x.applied /\ y.postponed = x.postponed /\ y.churnReached
      BY <1>1, <1>2, <2>1, <2>8
    <3>2. Total(y.applied) + Total(y.postponed) = F
      BY <1>2, <3>1
    <3>3. x.count < Len(queue)
      BY <1>1, <1>2, <2>1
    <3> QED BY <1>2, <2>8, <3>1, <3>2, <3>3 DEF ScanStates, y, queue, n, budget, F, d
  <2>9. CASE y = y4 /\ ~(x.processed + d.amount > budget)
    <3>1. /\ y \in X /\ y.count = c /\ y.processed = m
          /\ y.applied = a /\ y.postponed = x.postponed /\ y.churnReached = x.churnReached
      BY <1>2, <2>4, <2>10, <2>9
    <3>2. Total(y.applied) + Total(y.postponed) = G
      BY <1>2, <2>2, <2>3, <2>4, <3>1, SMTT(30)
    <3>3. y.processed <= budget
      BY <1>2, <1>3, <2>2, <2>9, <3>1 DEF m
    <3> QED BY <1>2, <2>1, <2>4, <3>1, <3>2, <3>3 DEF ScanStates, y, queue, n, budget, G, c
  <2> QED BY <2>5, <2>6, <2>7, <2>8, <2>9 DEF y
<1> QED BY <1>4, <1>5

\* The scan starts with nothing taken.
LEMMA ScanStartType ==
  ASSUME NEW s \in RegistryState
  PROVE  ScanStart \in ScanStates(s)
<1>1. s.pendingDeposits \in Seq(Deposit) /\ Len(s.pendingDeposits) \in Nat
  BY SequenceFacts DEF RegistryState
<1>2. ScanBudget(s) \in Nat
  <2>1. s.depositBalanceToConsume \in Nat /\ ActivationExitChurnLimit(s) \in Nat
    BY ChurnLimits DEF RegistryState
  <2> QED BY <2>1 DEF ScanBudget
<1>3. <<>> \in Seq(Deposit) /\ DOMAIN <<>> = {}
  OBVIOUS
<1>4. Total(<<>>) + Total(<<>>) = SumFunctionOnSet(Amounts(s.pendingDeposits), 1..0)
  <2>1. 1..0 = {}
    OBVIOUS
  <2> QED BY <2>1, TotalEmpty, SumEmpty
<1>5. Within(<<>>, Len(s.validators) + 1)
  BY <1>3 DEF Within
<1>6. /\ ScanStart.count = 0 /\ ScanStart.processed = 0 /\ ScanStart.applied = <<>>
      /\ ScanStart.postponed = <<>> /\ ScanStart.churnReached = FALSE
      /\ ScanStart \in [count : 0..Len(s.pendingDeposits), processed : Nat,
                        applied : Seq(Deposit), postponed : Seq(Deposit),
                        churnReached : BOOLEAN]
  <2>1. 0 \in 0..Len(s.pendingDeposits) /\ 0 \in Nat
    BY <1>1
  <2> QED BY <1>3, <2>1 DEF ScanStart
<1> QED BY <1>2, <1>4, <1>5, <1>6 DEF ScanStates

\* So the whole scan has the types of its iterations.
LEMMA DepositScanType ==
  ASSUME NEW s \in RegistryState, Indexed(s)
  PROVE  DepositScan(s) \in ScanStates(s)
<1> DEFINE Z == ScanStates(s)
           n == Len(s.pendingDeposits) + 1
           step == [p \in (1..n) \X Z |-> ScanNext(s, p[2])]
           r == CHOOSE f : IsScan(s, f)
<1>1. n \in Nat \ {0}
  BY SequenceFacts DEF RegistryState
<1>2. \A x \in Z : ScanNext(s, x) \in Z
  BY ScanNextType
<1>3. ScanStart \in Z
  BY ScanStartType
<1>4. DepositScan(s) = r[n]
  BY DEF DepositScan, IsScan, ScanNext, ScanStops, ScanStep, ScanStart, ScanBudget
<1> HIDE DEF Z
<1>5. Closed(step, n, Z)
  BY <1>2 DEF Closed
<1>6. PICK f \in [0..n -> Z] : Follows(f, ScanStart, step, n)
  <2> HIDE DEF step, n
  <2> QED BY <1>1, <1>3, <1>5, BoundedRecursion
<1>7. \A k \in 1..n : f[k] = ScanNext(s, f[k - 1])
  <2> TAKE k \in 1..n
  <2>1. k - 1 \in 0..n
    BY <1>1
  <2>2. f[k - 1] \in Z
    BY <1>6, <2>1
  <2> QED BY <1>6, <2>2 DEF Follows
<1>8. f[0] = ScanStart
  BY <1>6 DEF Follows
<1> HIDE DEF step
<1>9. IsScan(s, f)
  <2> DEFINE g == [k \in 0..n |-> IF k = 0 THEN ScanStart ELSE ScanNext(s, f[k - 1])]
  <2>1. \A k \in 0..n : f[k] = g[k]
    <3> TAKE k \in 0..n
    <3>1. k = 0 \/ k \in 1..n
      BY <1>1
    <3> QED BY <1>7, <1>8, <3>1
  <2>2. f = g
    BY <1>6, <2>1
  <2> QED BY <2>2 DEF IsScan
<1>10. IsScan(s, r)
  BY <1>9
<1> HIDE DEF r
<1>11. r = [k \in 0..n |-> IF k = 0 THEN ScanStart ELSE ScanNext(s, r[k - 1])]
  BY <1>10 DEF IsScan
<1>12. r[0] = ScanStart /\ \A k \in 1..n : r[k] = ScanNext(s, r[k - 1])
  <2> HIDE DEF n
  <2>1. 0 \in 0..n /\ \A k \in 1..n : k \in 0..n /\ k # 0
    BY <1>1
  <2> QED BY <1>11, <2>1
<1>13. r[n] \in Z
  <2> DEFINE S == {k \in 0..n : r[k] \in Z}
  <2>1. 0 \in S
    BY <1>1, <1>3, <1>12
  <2>2. ASSUME NEW k \in 1..n, k - 1 \in S PROVE k \in S
    <3>1. k \in 0..n
      BY <1>1
    <3> QED BY <1>2, <1>12, <2>2, <3>1
  <2> HIDE DEF S, n
  <2>3. n \in S
    BY <1>1, <2>1, <2>2, BoundedInduction
  <2> QED BY <2>3 DEF S
<1> QED BY <1>4, <1>13 DEF Z

\* What the scan leaves: its counts, its lists and what they are worth.
LEMMA ScanFacts ==
  ASSUME NEW s \in RegistryState, Indexed(s)
  PROVE  LET x == DepositScan(s)
         IN /\ x.count \in 0..Len(s.pendingDeposits) /\ x.processed \in Nat
            /\ x.applied \in Seq(Deposit) /\ x.postponed \in Seq(Deposit)
            /\ Within(x.applied, Len(s.validators) + 1)
            /\ Within(x.postponed, Len(s.validators) + 1)
            /\ x.processed <= ScanBudget(s)
            /\ x.churnReached =>
                 /\ x.count < Len(s.pendingDeposits)
                 /\ x.processed + s.pendingDeposits[x.count + 1].amount > ScanBudget(s)
            /\ Total(x.applied) + Total(x.postponed)
                 = SumFunctionOnSet(Amounts(s.pendingDeposits), 1..x.count)
BY DepositScanType DEF ScanStates

---------------------------------------------------------------------------
(* Applying deposits.                                                       *)

Joining(s, applied) ==
  {k \in Counted(s, applied) : applied[k].validator \notin DOMAIN s.validators}

\* A new validator starts with a whole number of increments, at most the maximum.
LEMMA RoundedWhole ==
  ASSUME NEW balance \in Nat, NEW v
  PROVE  /\ Rounded(balance, v) \in Nat
         /\ Rounded(balance, v) % EffectiveBalanceIncrement = 0
         /\ Rounded(balance, v) <= MaxEffective(v)
<1> DEFINE inc == EffectiveBalanceIncrement
           q == balance \div inc
           r == balance % inc
<1>1. /\ inc \in Nat \ {0} /\ MinActivationBalance \in Nat /\ MaxEffectiveBalance \in Nat
      /\ MinActivationBalance % inc = 0 /\ MaxEffectiveBalance % inc = 0
  BY RegistryAssumption, BalanceAssumption
<1>2. /\ q \in Nat /\ r \in 0..(inc - 1) /\ balance = inc * q + r
  BY <1>1, Division
<1>3. balance - r = inc * q /\ inc * q \in Nat
  BY <1>1, <1>2
<1>4. (inc * q) % inc = 0
  <2> DEFINE a == inc * q
             k == a \div inc
             m == a % inc
  <2> HIDE DEF inc, q
  <2>1. k \in Nat /\ m \in 0..(inc - 1) /\ a = inc * k + m
    BY <1>1, <1>3, Division
  <2> HIDE DEF k, m
  <2>2. inc * q = inc * k + m
    BY <2>1
  <2>3. q = k
    <3>1. CASE q > k
      <4>1. q = k + 1 + (q - k - 1) /\ q - k - 1 \in Nat
        BY <1>2, <2>1, <3>1
      <4>2. inc * q = inc * k + inc + inc * (q - k - 1) /\ inc * (q - k - 1) \in Nat
        <5> DEFINE d == q - k - 1
        <5>1. q = k + 1 + d /\ d \in Nat
          BY <4>1
        <5> HIDE DEF d
        <5> QED BY <1>1, <2>1, <5>1 DEF d
      <4>3. inc * k \in Nat
        BY <1>1, <2>1
      <4> QED BY <1>1, <2>1, <2>2, <4>2, <4>3
    <3>2. CASE q < k
      <4>1. k = q + 1 + (k - q - 1) /\ k - q - 1 \in Nat
        BY <1>2, <2>1, <3>2
      <4>2. inc * k = inc * q + inc + inc * (k - q - 1) /\ inc * (k - q - 1) \in Nat
        <5> DEFINE d == k - q - 1
        <5>1. k = q + 1 + d /\ d \in Nat
          BY <4>1
        <5> HIDE DEF d
        <5> QED BY <1>1, <1>2, <5>1 DEF d
      <4>3. inc * q \in Nat
        BY <1>1, <1>2
      <4> QED BY <1>1, <2>1, <2>2, <4>2, <4>3
    <3> QED BY <1>2, <2>1, <3>1, <3>2
  <2>4. m = 0
    <3>1. inc * q = inc * k /\ inc * k \in Nat
      BY <1>1, <2>1, <2>3
    <3> QED BY <2>1, <2>2, <3>1
  <2> QED BY <2>4 DEF m
<1>5. Rounded(balance, v) = Smaller(inc * q, MaxEffective(v))
  BY <1>3 DEF Rounded
<1>6. MaxEffective(v) \in Nat /\ MaxEffective(v) % inc = 0
  BY <1>1 DEF MaxEffective
<1> HIDE DEF q, r
<1> QED BY <1>1, <1>3, <1>4, <1>5, <1>6 DEF Smaller

\* The least of a set of numbers, as the community modules define it.
LEMMA MinInSet ==
  ASSUME NEW S \in SUBSET Nat, S # {}
  PROVE  Min(S) \in S /\ \A x \in S : Min(S) <= x
<1>1. \E x \in S : \A y \in S : x <= y
  BY LeastNumber
<1> QED BY <1>1 DEF Min

\* A validator made of a deposit is fit and has no exit.
LEMMA NewValidatorType ==
  ASSUME NEW d \in Deposit
  PROVE  LET v == NewValidator(d)
         IN /\ v \in Validator /\ ~v.slashed
            /\ v.exit = FarFutureEpoch /\ v.withdrawable = FarFutureEpoch
            /\ v.effectiveBalance % EffectiveBalanceIncrement = 0
            /\ v.effectiveBalance <= MaxEffective(v)
<1> DEFINE w == [credential |-> d.credential, effectiveBalance |-> 0, slashed |-> FALSE,
                 eligibility |-> FarFutureEpoch, activation |-> FarFutureEpoch,
                 exit |-> FarFutureEpoch, withdrawable |-> FarFutureEpoch]
           v == NewValidator(d)
           b == Rounded(d.amount, w)
<1>1. d.amount \in Nat /\ d.credential \in {"bls", "eth1", "compounding"}
  BY DEF Deposit, Credential
<1>2. FarFutureEpoch \in Nat
  BY RegistryAssumption
<1>3. b \in Nat /\ b % EffectiveBalanceIncrement = 0 /\ b <= MaxEffective(w)
  <2> HIDE DEF w
  <2> QED BY <1>1, RoundedWhole
<1>4. v = [w EXCEPT !.effectiveBalance = b]
  BY DEF NewValidator
<1> HIDE DEF b, v
<1>5. /\ v \in Validator /\ ~v.slashed /\ v.exit = FarFutureEpoch
      /\ v.withdrawable = FarFutureEpoch /\ v.effectiveBalance = b
      /\ v.credential = w.credential
  BY <1>1, <1>2, <1>3, <1>4 DEF Validator
<1> HIDE DEF w
<1>6. MaxEffective(v) = MaxEffective(w)
  BY <1>5 DEF MaxEffective
<1> QED BY <1>3, <1>5, <1>6 DEF v

\* The balances and their sum.
LEMMA BalanceSum ==
  ASSUME NEW b \in Seq(Nat)
  PROVE  /\ Len(b) \in Nat /\ DOMAIN b = 1..Len(b) /\ IsFiniteSet(1..Len(b))
         /\ \A i \in 1..Len(b) : b[i] \in Nat
         /\ SumFunction(b) = SumFunctionOnSet(b, 1..Len(b))
         /\ SumFunction(b) \in Nat
<1>1. Len(b) \in Nat /\ DOMAIN b = 1..Len(b) /\ \A i \in 1..Len(b) : b[i] \in Nat
  BY SequenceFacts
<1>2. IsFiniteSet(1..Len(b))
  BY <1>1, FS_Interval
<1> QED BY <1>1, <1>2, SumOfSequence

\* What the validators receive is what of the deposits counts.
LEMMA ApplyType ==
  ASSUME NEW s \in RegistryState, Indexed(s), NEW applied \in Seq(Deposit),
         Within(applied, Len(s.validators) + 1)
  PROVE  LET t == ApplyDeposits(s, applied)
             joining == Joining(s, applied)
             n == Len(s.validators)
         IN /\ t \in RegistryState
            /\ t = [s EXCEPT !.validators = t.validators, !.balances = t.balances]
            /\ Len(t.balances) = Len(t.validators)
            /\ \/ joining = {} /\ t.validators = s.validators
               \/ /\ \E d \in Deposit : t.validators = Append(s.validators, NewValidator(d))
                  /\ n + 1 <= MaxValidators
            /\ SumFunction(t.balances)
                 = SumFunction(s.balances)
                   + SumFunctionOnSet(Amounts(applied), Counted(s, applied))
<1> DEFINE counted == Counted(s, applied)
           joining == Joining(s, applied)
           n == Len(s.validators)
           validators == IF joining = {} THEN s.validators
                         ELSE Append(s.validators, NewValidator(applied[Min(joining)]))
           m == IF joining = {} THEN n ELSE n + 1
           deposited(i) == SumFunctionOnSet(Amounts(applied),
                                            {k \in counted : applied[k].validator = i})
           old(i) == IF i \in DOMAIN s.balances THEN s.balances[i] ELSE 0
           balances == [i \in DOMAIN validators |-> old(i) + deposited(i)]
           t == ApplyDeposits(s, applied)
<1>1. /\ n \in Nat /\ DOMAIN s.validators = 1..n /\ s.validators \in Seq(Validator)
      /\ s.balances \in Seq(Nat) /\ Len(s.balances) = n /\ DOMAIN s.balances = 1..n
      /\ \A i \in 1..n : s.balances[i] \in Nat
  BY ValidatorFields DEF RegistryState, Indexed
<1>2. /\ DOMAIN applied = 1..Len(applied) /\ Len(applied) \in Nat
      /\ \A k \in 1..Len(applied) : applied[k] \in Deposit /\ Amounts(applied)[k] \in Nat
      /\ IsFiniteSet(1..Len(applied))
  BY TotalIs, DepositAmounts
<1>3. counted \subseteq 1..Len(applied) /\ joining \subseteq counted
  BY <1>2 DEF Counted, Joining
<1>4. IsFiniteSet(counted) /\ \A k \in counted : Amounts(applied)[k] \in Nat
  BY <1>2, <1>3, FS_Subset
<1>5. t = [s EXCEPT !.validators = validators, !.balances = balances]
  BY DEF ApplyDeposits, Joining
<1>6. ASSUME joining # {}
      PROVE  applied[Min(joining)] \in Deposit /\ n + 1 <= MaxValidators
  <2>1. joining \in SUBSET Nat
    BY <1>2, <1>3
  <2> HIDE DEF joining
  <2>2. Min(joining) \in joining
    BY <1>6, <2>1, MinInSet
  <2> DEFINE d == applied[Min(joining)]
  <2>3. d \in Deposit /\ d.validator \notin 1..n
    BY <1>1, <1>2, <1>3, <2>2 DEF Joining, joining
  <2>4. d.validator \in 1..MaxValidators
    BY <2>3, DepositAmounts
  <2>5. d.validator <= n + 1
    BY <1>2, <1>3, <2>2 DEF Within
  <2>6. MaxValidators \in Nat
    BY RegistryAssumption
  <2> HIDE DEF d
  <2> QED BY <1>1, <2>3, <2>4, <2>5, <2>6 DEF d
<1>7. /\ validators \in Seq(Validator) /\ Len(validators) = m /\ m \in Nat
      /\ DOMAIN validators = 1..m
  <2> HIDE DEF joining
  <2>1. CASE joining = {}
    BY <1>1, <2>1
  <2>2. CASE joining # {}
    <3> DEFINE e == NewValidator(applied[Min(joining)])
    <3>1. e \in Validator
      BY <1>6, <2>2, NewValidatorType
    <3> HIDE DEF e
    <3>2. validators = Append(s.validators, e)
      BY <2>2 DEF e
    <3>3. validators \in Seq(Validator) /\ Len(validators) = n + 1
      <4> HIDE DEF validators
      <4> QED BY <1>1, <3>1, <3>2, SequenceAppend
    <3> HIDE DEF validators
    <3> QED BY <1>1, <2>2, <3>3, SequenceFacts
  <2> QED BY <2>1, <2>2
<1>8. \A k \in counted : applied[k].validator \in 1..m
  <2> TAKE k \in counted
  <2>1. applied[k] \in Deposit /\ k \in DOMAIN applied
    BY <1>2, <1>3
  <2>2. applied[k].validator \in Nat \ {0} /\ applied[k].validator <= n + 1
    <3>1. applied[k].validator \in 1..MaxValidators
      BY <2>1, DepositAmounts
    <3>2. applied[k].validator <= n + 1
      BY <2>1 DEF Within
    <3>3. MaxValidators \in Nat
      BY RegistryAssumption
    <3> QED BY <3>1, <3>2, <3>3
  <2>3. joining = {} => applied[k].validator \in 1..n
    BY <1>1 DEF Joining
  <2> HIDE DEF joining
  <2> QED BY <1>1, <2>2, <2>3
<1> DEFINE D == 1..m
           part == [i \in D |-> deposited(i)]
           before == [i \in D |-> old(i)]
<1>9. IsFiniteSet(D)
  <2> HIDE DEF m
  <2> QED BY <1>7, FS_Interval
<1>10. \A i \in D : deposited(i) \in Nat
  <2> TAKE i \in D
  <2> DEFINE K == {k \in counted : applied[k].validator = i}
  <2>1. IsFiniteSet(K) /\ \A k \in K : Amounts(applied)[k] \in Nat
    BY <1>4, FS_Subset
  <2> HIDE DEF K
  <2>2. SumFunctionOnSet(Amounts(applied), K) \in Nat
    BY <2>1, SumNatural
  <2> QED BY <2>2 DEF K
<1>11. \A i \in D : old(i) \in Nat
  BY <1>1
<1>12. SumFunctionOnSet(part, D) = SumFunctionOnSet(Amounts(applied), counted)
  <2> DEFINE h == [k \in counted |-> applied[k].validator]
             f == Amounts(applied)
  <2>1. \A k \in counted : f[k] \in Int /\ h[k] \in D
    BY <1>4, <1>8
  <2>2. \A i \in D : part[i] = SumFunctionOnSet(f, Fibre(counted, h, i))
    <3> TAKE i \in D
    <3>1. Fibre(counted, h, i) = {k \in counted : applied[k].validator = i}
      BY DEF Fibre
    <3> QED BY <3>1
  <2> HIDE DEF h, f, D, part, counted
  <2>3. SumFunctionOnSet(part, D) = SumFunctionOnSet(f, counted)
    BY <1>4, <1>9, <2>1, <2>2, SumFibres
  <2> QED BY <2>3 DEF f
<1>13. balances \in Seq(Nat) /\ Len(balances) = m /\ DOMAIN balances = D
       /\ \A i \in D : balances[i] = before[i] + part[i]
  <2>1. \A i \in D : balances[i] = old(i) + deposited(i)
    BY <1>7
  <2>2. \A i \in D : balances[i] \in Nat
    <3> HIDE DEF old, deposited, balances, D
    <3> QED BY <1>10, <1>11, <2>1
  <2>3. balances = [i \in 1..m |-> balances[i]]
    BY <1>7
  <2> HIDE DEF balances, m, old, deposited
  <2>4. balances \in Seq(Nat) /\ Len(balances) = m /\ DOMAIN balances = 1..m
    BY <1>7, <2>2, <2>3, SequenceOf
  <2> QED BY <2>1, <2>4
<1>14. SumFunction(balances) = SumFunctionOnSet(balances, D)
  <2> HIDE DEF balances
  <2> QED BY <1>13, BalanceSum
<1>15. SumFunctionOnSet(balances, D) = SumFunctionOnSet(before, D) + SumFunctionOnSet(part, D)
  <2>1. \A i \in D : before[i] \in Int /\ part[i] \in Int /\ balances[i] = before[i] + part[i]
    <3> HIDE DEF old, deposited, balances, D
    <3> QED BY <1>10, <1>11, <1>13
  <2> HIDE DEF balances, before, part, D
  <2> QED BY <1>9, <2>1, SumAdd
<1>16. SumFunctionOnSet(before, D) = SumFunction(s.balances)
  <2> DEFINE b == s.balances
             P == 1..n
  <2>1. SumFunction(b) = SumFunctionOnSet(b, P)
    BY <1>1, BalanceSum
  <2>2. P \in SUBSET D /\ \A i \in D \ P : before[i] = 0
    BY <1>1
  <2>3. \A i \in P : before[i] \in Int /\ b[i] = before[i]
    BY <1>1, <2>2
  <2>4. IsFiniteSet(P) /\ IsFiniteSet(D \ P)
    BY <1>9, <2>2, FS_Subset
  <2>5. \A i \in D : before[i] \in Int
    BY <1>11
  <2> HIDE DEF before, b, P, D
  <2>6. SumFunctionOnSet(before, D)
          = SumFunctionOnSet(before, P) + SumFunctionOnSet(before, D \ P)
    BY <1>9, <2>2, <2>5, SumParts
  <2>7. SumFunctionOnSet(before, P) = SumFunctionOnSet(b, P)
    BY <2>3, <2>4, SumEqual
  <2>8. SumFunctionOnSet(before, D \ P) = 0
    BY <2>2, <2>4, SumZero
  <2>9. SumFunctionOnSet(b, P) \in Int
    BY <2>1, <1>1, BalanceSum DEF b
  <2> QED BY <2>1, <2>6, <2>7, <2>8, <2>9 DEF b
<1> HIDE DEF t, validators, balances, joining, counted, part, before, D, m
<1>17. t \in RegistryState /\ t.validators = validators /\ t.balances = balances
  BY <1>5, <1>7, <1>13 DEF RegistryState
<1>18. \/ joining = {} /\ t.validators = s.validators
       \/ /\ \E d \in Deposit : t.validators = Append(s.validators, NewValidator(d))
          /\ n + 1 <= MaxValidators
  BY <1>6, <1>17 DEF validators
<1>19. SumFunction(t.balances)
         = SumFunctionOnSet(Amounts(applied), counted) + SumFunction(s.balances)
       /\ SumFunction(s.balances) \in Nat /\ SumFunctionOnSet(Amounts(applied), counted) \in Nat
  <2>1. SumFunction(s.balances) \in Nat /\ SumFunctionOnSet(Amounts(applied), counted) \in Nat
    BY <1>1, <1>4, BalanceSum, SumNatural
  <2> QED BY <1>12, <1>14, <1>15, <1>16, <1>17, <2>1
<1>20. t = [s EXCEPT !.validators = t.validators, !.balances = t.balances]
  BY <1>5, <1>17
<1>21. Len(t.balances) = Len(t.validators)
  BY <1>7, <1>13, <1>17
<1> QED BY <1>17, <1>18, <1>19, <1>20, <1>21 DEF t, joining, counted

BudgetOf(s) ==
  s.depositBalanceToConsume > 0 =>
    /\ s.pendingDeposits # <<>>
    /\ Head(s.pendingDeposits).amount > s.depositBalanceToConsume

\* The head of what is left with the postponed behind it.
LEMMA HeadOfJoin ==
  ASSUME NEW S, NEW q \in Seq(S), NEW p \in Seq(S), NEW c \in Nat, c < Len(q)
  PROVE  LET r == SubSeq(q, c + 1, Len(q)) \o p
         IN r # <<>> /\ Head(r) = q[c + 1]
<1> DEFINE tail == SubSeq(q, c + 1, Len(q))
           r == tail \o p
<1>1. c \in 0..Len(q) /\ Len(q) \in Nat /\ 1 \in 1..(Len(q) - c)
  BY SequenceFacts
<1>2. tail \in Seq(S) /\ Len(tail) = Len(q) - c /\ tail[1] = q[c + 1]
  BY <1>1, SequenceTail
<1> HIDE DEF tail
<1>3. r \in Seq(S) /\ Len(r) = Len(tail) + Len(p) /\ r[1] = tail[1] /\ Len(p) \in Nat
  <2>1. 1 \in 1..Len(tail)
    BY <1>1, <1>2
  <2> QED BY <1>2, <2>1, SequenceJoin, SequenceFacts, ZenonT(60)
<1> HIDE DEF r
<1>4. Len(r) # 0 /\ Len(<<>>) = 0
  BY <1>1, <1>2, <1>3
<1>5. r # <<>>
  BY <1>4
<1>6. Head(r) = r[1]
  BY <1>3, <1>5
<1> QED BY <1>2, <1>3, <1>5, <1>6 DEF tail, r

\* process_pending_deposits: types, growth of the registry, value.
LEMMA PendingDepositsType ==
  ASSUME NEW s \in RegistryState, Indexed(s)
  PROVE  LET t == ProcessPendingDeposits(s)
             n == Len(s.validators)
         IN /\ t \in RegistryState
            /\ t = [s EXCEPT !.validators = t.validators, !.balances = t.balances,
                             !.pendingDeposits = t.pendingDeposits,
                             !.depositBalanceToConsume = t.depositBalanceToConsume]
            /\ Len(t.balances) = Len(t.validators)
            /\ \/ t.validators = s.validators
               \/ /\ \E d \in Deposit : t.validators = Append(s.validators, NewValidator(d))
                  /\ n + 1 <= MaxValidators
            /\ Within(t.pendingDeposits, n + 1)
            /\ Worth(t) = Worth(s) - Dropped(s)
            /\ BudgetOf(t)
<1> DEFINE t == ProcessPendingDeposits(s)
           n == Len(s.validators)
           x == DepositScan(s)
           a == ApplyDeposits(s, x.applied)
           q == s.pendingDeposits
           rest == SubSeq(q, x.count + 1, Len(q))
           left == rest \o x.postponed
           budget == BudgetLeft(s, x)
           counted == Counted(s, x.applied)
           f == Amounts(x.applied)
<1>1. /\ x.count \in 0..Len(q) /\ x.processed \in Nat
      /\ x.applied \in Seq(Deposit) /\ x.postponed \in Seq(Deposit)
      /\ Within(x.applied, n + 1)
      /\ Within(x.postponed, n + 1)
      /\ x.processed <= ScanBudget(s)
      /\ x.churnReached =>
           /\ x.count < Len(q)
           /\ x.processed + q[x.count + 1].amount > ScanBudget(s)
      /\ Total(x.applied) + Total(x.postponed) = SumFunctionOnSet(Amounts(q), 1..x.count)
  BY ScanFacts
<1>2. t = [a EXCEPT !.pendingDeposits = left, !.depositBalanceToConsume = budget]
  BY DEF ProcessPendingDeposits, DepositsLeft
<1>3. q \in Seq(Deposit) /\ Len(q) \in Nat /\ DOMAIN q = 1..Len(q) /\ n \in Nat
  BY SequenceFacts, ValidatorFields DEF RegistryState
<1> HIDE DEF x
<1>4. /\ a \in RegistryState
      /\ a = [s EXCEPT !.validators = a.validators, !.balances = a.balances]
      /\ Len(a.balances) = Len(a.validators)
      /\ \/ a.validators = s.validators
         \/ /\ \E d \in Deposit : a.validators = Append(s.validators, NewValidator(d))
            /\ n + 1 <= MaxValidators
      /\ SumFunction(a.balances) = SumFunction(s.balances) + SumFunctionOnSet(f, counted)
  BY <1>1, ApplyType
<1> HIDE DEF a
<1>5. budget \in Nat /\ (budget > 0 => x.churnReached /\ budget = ScanBudget(s) - x.processed)
  <2>1. ScanBudget(s) \in Nat
    <3>1. s.depositBalanceToConsume \in Nat /\ ActivationExitChurnLimit(s) \in Nat
      BY ChurnLimits DEF RegistryState
    <3> QED BY <3>1 DEF ScanBudget
  <2>2. budget = IF x.churnReached THEN ScanBudget(s) - x.processed ELSE 0
    <3>1. /\ s.depositBalanceToConsume \in Nat /\ ActivationExitChurnLimit(s) \in Nat
          /\ x.processed \in Nat
      BY <1>1, ChurnLimits DEF RegistryState
    <3> QED BY <3>1 DEF BudgetLeft, ScanBudget
  <2> QED BY <1>1, <2>1, <2>2
<1>6. /\ rest \in Seq(Deposit) /\ Len(rest) = Len(q) - x.count
      /\ \A k \in 1..(Len(q) - x.count) : rest[k] = q[x.count + k]
  BY <1>1, <1>3, SequenceTail
<1>7. /\ left \in Seq(Deposit) /\ Len(left) = Len(rest) + Len(x.postponed)
      /\ \A k \in 1..Len(rest) : left[k] = rest[k]
      /\ \A k \in 1..Len(x.postponed) : left[Len(rest) + k] = x.postponed[k]
      /\ Len(rest) \in Nat /\ Len(x.postponed) \in Nat
      /\ DOMAIN left = 1..Len(left)
      /\ DOMAIN x.postponed = 1..Len(x.postponed)
  <2> HIDE DEF rest
  <2>1. /\ left \in Seq(Deposit) /\ Len(left) = Len(rest) + Len(x.postponed)
        /\ \A k \in 1..Len(rest) : left[k] = rest[k]
        /\ \A k \in 1..Len(x.postponed) : left[Len(rest) + k] = x.postponed[k]
    <3> DEFINE p == x.postponed
    <3>1. rest \in Seq(Deposit) /\ p \in Seq(Deposit)
      BY <1>1, <1>6
    <3> HIDE DEF p
    <3>2. /\ rest \o p \in Seq(Deposit) /\ Len(rest \o p) = Len(rest) + Len(p)
          /\ \A k \in 1..Len(rest) : (rest \o p)[k] = rest[k]
          /\ \A k \in 1..Len(p) : (rest \o p)[Len(rest) + k] = p[k]
      BY ONLY <3>1, SequenceJoin
    <3> QED BY <3>2 DEF p
  <2> HIDE DEF left
  <2>2. /\ Len(rest) \in Nat /\ Len(x.postponed) \in Nat
        /\ DOMAIN left = 1..Len(left)
        /\ DOMAIN x.postponed = 1..Len(x.postponed)
    BY <1>1, <1>6, <2>1, SequenceFacts
  <2> QED BY <2>1, <2>2
<1>8. Within(left, n + 1)
  <2> SUFFICES ASSUME NEW k \in DOMAIN left PROVE left[k].validator <= n + 1
    BY DEF Within
  <2> HIDE DEF left, rest
  <2>3. /\ Len(rest) \in Nat /\ Len(x.postponed) \in Nat
        /\ k \in 1..(Len(rest) + Len(x.postponed))
    BY <1>7
  <2>1. CASE k <= Len(rest)
    <3>1. k \in 1..Len(rest) /\ x.count + k \in 1..Len(q)
      BY <1>1, <1>3, <1>6, <2>1, <2>3
    <3>2. left[k] = q[x.count + k]
      BY <1>6, <1>7, <3>1
    <3> QED BY <1>3, <3>1, <3>2 DEF Indexed
  <2>2. CASE k > Len(rest)
    <3> DEFINE j == k - Len(rest)
    <3>1. j \in 1..Len(x.postponed) /\ k = Len(rest) + j
      BY <2>2, <2>3
    <3> HIDE DEF j
    <3>2. left[k] = x.postponed[j]
      BY <1>7, <3>1
    <3> QED BY <1>1, <1>7, <3>1, <3>2 DEF Within
  <2> QED BY <2>1, <2>2, <2>3
<1>9. Total(left) = Total(q) - Total(x.applied)
      /\ Total(q) \in Nat /\ Total(x.applied) \in Nat
  <2> HIDE DEF left, rest
  <2>1. Total(left) = Total(rest) + Total(x.postponed)
    BY <1>1, <1>6, TotalJoin, DepositAmounts DEF left
  <2>2. Total(q) = SumFunctionOnSet(Amounts(q), 1..x.count) + Total(rest)
    BY <1>1, <1>3, TotalTail, DepositAmounts DEF rest
  <2>3. Total(rest) \in Nat /\ Total(x.postponed) \in Nat /\ Total(q) \in Nat
        /\ Total(x.applied) \in Nat
    BY <1>1, <1>3, <1>6, TotalIs, DepositAmounts
  <2> QED BY <1>1, <2>1, <2>2, <2>3
<1>10. Total(x.applied) = SumFunctionOnSet(f, counted) + Dropped(s)
       /\ SumFunctionOnSet(f, counted) \in Nat /\ Dropped(s) \in Nat
  <2> DEFINE D == 1..Len(x.applied)
             C == counted
  <2>1. /\ DOMAIN x.applied = D /\ IsFiniteSet(D) /\ \A k \in D : f[k] \in Nat
        /\ Total(x.applied) = SumFunctionOnSet(f, D)
    BY <1>1, TotalIs, DepositAmounts
  <2>2. Dropped(s) = SumFunctionOnSet(f, D \ C)
    BY <2>1 DEF Dropped, x
  <2>3. C \in SUBSET D
    BY <2>1 DEF Counted
  <2> HIDE DEF C, D, f
  <2>4. \A k \in D : f[k] \in Int
    BY <2>1
  <2>5. SumFunctionOnSet(f, D) = SumFunctionOnSet(f, C) + SumFunctionOnSet(f, D \ C)
    BY <2>1, <2>3, <2>4, SumParts
  <2>6. IsFiniteSet(C) /\ IsFiniteSet(D \ C)
    BY <2>1, <2>3, FS_Subset
  <2>7. SumFunctionOnSet(f, C) \in Nat
    BY <2>1, <2>3, <2>6, SumNatural
  <2>8. SumFunctionOnSet(f, D \ C) \in Nat
    BY <2>1, <2>6, SumNatural
  <2> QED BY <2>1, <2>2, <2>5, <2>7, <2>8 DEF C
<1> HIDE DEF left, budget, t
<1>11. /\ t \in RegistryState /\ t.pendingDeposits = left /\ t.depositBalanceToConsume = budget
       /\ t.validators = a.validators /\ t.balances = a.balances
  BY <1>2, <1>4, <1>5, <1>7 DEF RegistryState
<1>12. t = [s EXCEPT !.validators = t.validators, !.balances = t.balances,
                     !.pendingDeposits = t.pendingDeposits,
                     !.depositBalanceToConsume = t.depositBalanceToConsume]
  BY <1>2, <1>4, <1>11 DEF RegistryState
<1>13. Worth(t) = Worth(s) - Dropped(s)
  <2>1. Worth(t) = SumFunction(a.balances) + Total(left)
    BY <1>11 DEF Worth, Total
  <2>2. Worth(s) = SumFunction(s.balances) + Total(q)
    BY DEF Worth, Total
  <2>3. SumFunction(s.balances) \in Nat
    BY BalanceSum DEF RegistryState
  <2> HIDE DEF q, f, counted
  <2> QED BY <1>4, <1>9, <1>10, <2>1, <2>2, <2>3
<1>14. BudgetOf(t)
  <2> SUFFICES ASSUME budget > 0
               PROVE  left # <<>> /\ Head(left).amount > budget
    BY <1>11 DEF BudgetOf
  <2>1. x.churnReached /\ budget = ScanBudget(s) - x.processed
    BY <1>5
  <2>2. /\ x.count \in Nat /\ x.count < Len(q)
        /\ x.processed + q[x.count + 1].amount > ScanBudget(s)
    BY <1>1, <2>1
  <2>3. left # <<>> /\ Head(left) = q[x.count + 1]
    BY <1>1, <1>3, <2>2, HeadOfJoin DEF left
  <2>4. q[x.count + 1].amount \in Nat
    <3>1. x.count + 1 \in 1..Len(q)
      BY <1>3, <2>2
    <3> QED BY <1>3, <3>1, DepositAmounts
  <2>5. ScanBudget(s) \in Int
    <3>1. s.depositBalanceToConsume \in Nat /\ ActivationExitChurnLimit(s) \in Nat
      BY ChurnLimits DEF RegistryState
    <3> QED BY <3>1 DEF ScanBudget
  <2> QED BY <1>1, <2>1, <2>2, <2>3, <2>4, <2>5, SMTT(30)
<1> QED BY <1>4, <1>8, <1>11, <1>12, <1>13, <1>14 DEF t

---------------------------------------------------------------------------
(* Pending consolidations.                                                  *)

ConsolidationStep(s, k, b) ==
  LET source == s.pendingConsolidations[k].source
      amount == Consolidated(b[source], s.validators[source])
  IN IF s.validators[source].slashed THEN b
     ELSE [[b EXCEPT ![source] = SaturatingSub(@, amount)]
             EXCEPT ![s.pendingConsolidations[k].target] = @ + amount]

ConsolidationsDone(s) ==
  LET queue == s.pendingConsolidations
      waiting == {k \in DOMAIN queue : ConsolidationWaits(s, s.validators[queue[k].source])}
  IN IF waiting = {} THEN Len(queue) ELSE Min(waiting) - 1

IsConsolidation(s, f) ==
  f = [k \in 0..ConsolidationsDone(s) |->
         IF k = 0 THEN s.balances ELSE ConsolidationStep(s, k, f[k - 1])]

\* Balances that add up to what there was.
SameSum(s) ==
  {b \in Seq(Nat) : Len(b) = Len(s.balances) /\ SumFunction(b) = SumFunction(s.balances)}

\* Writing one balance.
LEMMA SumOfReplaced ==
  ASSUME NEW b \in Seq(Nat), NEW i \in 1..Len(b), NEW e \in Nat
  PROVE  /\ [b EXCEPT ![i] = e] \in Seq(Nat)
         /\ Len([b EXCEPT ![i] = e]) = Len(b)
         /\ SumFunction([b EXCEPT ![i] = e]) = SumFunction(b) - b[i] + e
         /\ SumFunction(b) \in Nat /\ b[i] \in Nat
<1> DEFINE c == [b EXCEPT ![i] = e]
           D == 1..Len(b)
<1>1. /\ c \in Seq(Nat) /\ Len(c) = Len(b) /\ c[i] = e
      /\ \A k \in 1..Len(b) : k # i => c[k] = b[k]
  BY SequenceReplace
<1> HIDE DEF c
<1>2. /\ SumFunction(b) = SumFunctionOnSet(b, D) /\ SumFunction(b) \in Nat
      /\ IsFiniteSet(D) /\ \A k \in D : b[k] \in Nat
  BY BalanceSum
<1>3. /\ SumFunction(c) = SumFunctionOnSet(c, D)
      /\ \A k \in D : c[k] \in Nat
  BY <1>1, BalanceSum
<1>4. SumFunctionOnSet(c, D) = SumFunctionOnSet(b, D) - b[i] + c[i]
  <2>1. \A k \in D : b[k] \in Int /\ c[k] \in Int /\ (k # i => c[k] = b[k])
    BY <1>1, <1>2, <1>3
  <2>2. \A x \in D : (\A k \in D : k # x => c[k] = b[k])
          => SumFunctionOnSet(c, D) = SumFunctionOnSet(b, D) - b[x] + c[x]
    <3> HIDE DEF D
    <3> QED BY <1>2, <2>1, SumReplace
  <2> QED BY <2>1, <2>2
<1> QED BY <1>1, <1>2, <1>3, <1>4 DEF c

\* One consolidation moves balance and makes none.
LEMMA ConsolidationStepType ==
  ASSUME NEW s \in RegistryState, Indexed(s), NEW k \in DOMAIN s.pendingConsolidations,
         NEW b \in SameSum(s)
  PROVE  ConsolidationStep(s, k, b) \in SameSum(s)
<1> DEFINE source == s.pendingConsolidations[k].source
           target == s.pendingConsolidations[k].target
           amount == Consolidated(b[source], s.validators[source])
           left == SaturatingSub(b[source], amount)
           b1 == [b EXCEPT ![source] = left]
           b2 == [b1 EXCEPT ![target] = b1[target] + amount]
<1>1. /\ b \in Seq(Nat) /\ Len(b) = Len(s.balances) /\ SumFunction(b) = SumFunction(s.balances)
  BY DEF SameSum
<1>2. source \in 1..Len(b) /\ target \in 1..Len(b) /\ source \in 1..Len(s.validators)
  BY <1>1 DEF Indexed
<1>3. b[source] \in Nat /\ s.validators[source].effectiveBalance \in Nat
  BY <1>1, <1>2, BalanceSum, ValidatorFields
<1>4. amount \in Nat /\ left \in Nat /\ b[source] = left + amount
  BY <1>3 DEF Consolidated, Smaller, SaturatingSub
<1>5. CASE s.validators[source].slashed
  BY <1>5 DEF ConsolidationStep
<1>6. CASE ~s.validators[source].slashed
  <2>1. ConsolidationStep(s, k, b) = b2
    BY <1>6 DEF ConsolidationStep
  <2> HIDE DEF source, target, amount, left
  <2>2. /\ b1 \in Seq(Nat) /\ Len(b1) = Len(b)
        /\ SumFunction(b1) = SumFunction(b) - b[source] + left
        /\ SumFunction(b) \in Nat
    BY <1>1, <1>2, <1>4, SumOfReplaced
  <2> HIDE DEF b1
  <2>3. b1[target] \in Nat
    BY <1>2, <2>2, BalanceSum
  <2> DEFINE e == b1[target] + amount
  <2>4. e \in Nat
    BY <1>4, <2>3
  <2> HIDE DEF e
  <2>5. /\ b2 \in Seq(Nat) /\ Len(b2) = Len(b1)
        /\ SumFunction(b2) = SumFunction(b1) - b1[target] + e
        /\ SumFunction(b1) \in Nat
    <3>1. b2 = [b1 EXCEPT ![target] = e]
      BY DEF e
    <3>2. target \in 1..Len(b1)
      BY <1>2, <2>2
    <3> HIDE DEF b2
    <3> QED BY <2>2, <2>4, <3>1, <3>2, SumOfReplaced
  <2> HIDE DEF b2
  <2>6. SumFunction(b2) = SumFunction(b)
    BY <1>3, <1>4, <2>2, <2>3, <2>5 DEF e
  <2> QED BY <1>1, <2>1, <2>2, <2>5, <2>6 DEF SameSum
<1> QED BY <1>5, <1>6

\* The scan stops at the first source that still waits.
LEMMA ConsolidationsDoneFacts ==
  ASSUME NEW s \in RegistryState
  PROVE  LET done == ConsolidationsDone(s)
             queue == s.pendingConsolidations
         IN /\ done \in 0..Len(queue)
            /\ done < Len(queue)
                 => ConsolidationWaits(s, s.validators[queue[done + 1].source])
<1> DEFINE done == ConsolidationsDone(s)
           queue == s.pendingConsolidations
           waiting == {k \in DOMAIN queue : ConsolidationWaits(s, s.validators[queue[k].source])}
<1>1. Len(queue) \in Nat /\ DOMAIN queue = 1..Len(queue)
  BY SequenceFacts DEF RegistryState
<1>2. done = IF waiting = {} THEN Len(queue) ELSE Min(waiting) - 1
  BY DEF ConsolidationsDone
<1>3. CASE waiting = {}
  BY <1>1, <1>2, <1>3
<1>4. CASE waiting # {}
  <2>1. waiting \in SUBSET Nat /\ waiting \in SUBSET (1..Len(queue))
    BY <1>1
  <2> HIDE DEF waiting
  <2>2. Min(waiting) \in waiting
    BY <1>4, <2>1, MinInSet
  <2>3. Min(waiting) \in 1..Len(queue) /\ done = Min(waiting) - 1
    BY <1>2, <1>4, <2>1, <2>2
  <2>4. done + 1 = Min(waiting) /\ done \in 0..Len(queue)
    BY <1>1, <2>3
  <2>5. done + 1 \in waiting
    BY <2>2, <2>4
  <2> HIDE DEF done
  <2> QED BY <2>4, <2>5 DEF waiting, done
<1> QED BY <1>3, <1>4

\* process_pending_consolidations: types, and the sum unchanged.
LEMMA PendingConsolidationsType ==
  ASSUME NEW s \in RegistryState, Indexed(s)
  PROVE  LET t == ProcessPendingConsolidations(s)
             done == ConsolidationsDone(s)
             queue == s.pendingConsolidations
         IN /\ t \in RegistryState
            /\ t = [s EXCEPT !.balances = t.balances,
                             !.pendingConsolidations = t.pendingConsolidations]
            /\ Len(t.balances) = Len(s.balances)
            /\ t.pendingConsolidations = SubSeq(queue, done + 1, Len(queue))
            /\ Worth(t) = Worth(s)
<1> DEFINE t == ProcessPendingConsolidations(s)
           Z == SameSum(s)
           n == ConsolidationsDone(s)
           queue == s.pendingConsolidations
           rest == SubSeq(queue, n + 1, Len(queue))
           step == [p \in (1..n) \X Z |-> ConsolidationStep(s, p[1], p[2])]
           r == CHOOSE f : IsConsolidation(s, f)
<1>1. queue \in Seq(Consolidation) /\ Len(queue) \in Nat /\ DOMAIN queue = 1..Len(queue)
  BY SequenceFacts DEF RegistryState
<1>2. n \in 0..Len(queue)
  BY ConsolidationsDoneFacts
<1>3. n \in Nat /\ \A k \in 1..n : k \in DOMAIN queue
  <2> HIDE DEF n
  <2> QED BY <1>1, <1>2
<1>4. t = [s EXCEPT !.balances = r[n], !.pendingConsolidations = rest]
  BY DEF ProcessPendingConsolidations, IsConsolidation, ConsolidationsDone, ConsolidationStep
<1> HIDE DEF n
<1>5. \A k \in 1..n : \A b \in Z : ConsolidationStep(s, k, b) \in Z
  BY <1>3, ConsolidationStepType
<1>6. s.balances \in Z
  BY DEF RegistryState, SameSum
<1> HIDE DEF Z
<1>7. Closed(step, n, Z)
  BY <1>5 DEF Closed
<1>8. PICK f \in [0..n -> Z] : Follows(f, s.balances, step, n)
  <2> DEFINE start == s.balances
  <2>1. start \in Z
    BY <1>6
  <2> HIDE DEF step, start
  <2>2. \E f \in [0..n -> Z] : Follows(f, start, step, n)
    BY <1>3, <1>7, <2>1, BoundedRecursion
  <2> QED BY <2>2 DEF start
<1>9. \A k \in 1..n : f[k] = ConsolidationStep(s, k, f[k - 1])
  <2> TAKE k \in 1..n
  <2>1. k - 1 \in 0..n
    BY <1>3
  <2>2. f[k - 1] \in Z
    BY <1>8, <2>1
  <2> QED BY <1>8, <2>2 DEF Follows
<1>10. f[0] = s.balances
  BY <1>8 DEF Follows
<1> HIDE DEF step
<1>11. IsConsolidation(s, f)
  <2> DEFINE g == [k \in 0..n |->
                     IF k = 0 THEN s.balances ELSE ConsolidationStep(s, k, f[k - 1])]
  <2>1. \A k \in 0..n : f[k] = g[k]
    <3> TAKE k \in 0..n
    <3>1. k = 0 \/ k \in 1..n
      BY <1>3
    <3> QED BY <1>9, <1>10, <3>1
  <2>2. f = g
    BY <1>8, <2>1
  <2> QED BY <2>2 DEF IsConsolidation, n
<1>12. IsConsolidation(s, r)
  BY <1>11
<1> HIDE DEF r
<1>13. r = [k \in 0..n |-> IF k = 0 THEN s.balances ELSE ConsolidationStep(s, k, r[k - 1])]
  BY <1>12 DEF IsConsolidation, n
<1>14. r[0] = s.balances /\ \A k \in 1..n : r[k] = ConsolidationStep(s, k, r[k - 1])
  <2>1. 0 \in 0..n /\ \A k \in 1..n : k \in 0..n /\ k # 0
    BY <1>3
  <2> QED BY <1>13, <2>1
<1>15. r[n] \in Z
  <2> DEFINE S == {k \in 0..n : r[k] \in Z}
  <2>1. 0 \in S
    BY <1>3, <1>6, <1>14
  <2>2. ASSUME NEW k \in 1..n, k - 1 \in S PROVE k \in S
    <3>1. k \in 0..n
      BY <1>3
    <3> QED BY <1>5, <1>14, <2>2, <3>1
  <2> HIDE DEF S
  <2>3. n \in S
    BY <1>3, <2>1, <2>2, BoundedInduction
  <2> QED BY <2>3 DEF S
<1> DEFINE b == r[n]
<1>16. b \in Seq(Nat) /\ Len(b) = Len(s.balances) /\ SumFunction(b) = SumFunction(s.balances)
  BY <1>15 DEF Z, SameSum
<1>17. rest \in Seq(Consolidation)
  BY <1>1, <1>2, SequenceTail
<1> HIDE DEF b, t, rest
<1>18. t \in RegistryState /\ t.balances = b /\ t.pendingConsolidations = rest
       /\ t.pendingDeposits = s.pendingDeposits
  BY <1>4, <1>16, <1>17 DEF RegistryState, b
<1>19. Worth(t) = Worth(s)
  BY <1>16, <1>18 DEF Worth
<1> QED BY <1>4, <1>16, <1>18, <1>19 DEF t, rest, n, b

---------------------------------------------------------------------------
(* The whole of process_epoch.                                              *)

\* What every effective balance is.
Fit(v) ==
  /\ v.effectiveBalance % EffectiveBalanceIncrement = 0
  /\ v.effectiveBalance <= MaxEffective(v)

\* A state of the registry as the code may rely on it.
Sound(s) ==
  /\ s \in RegistryState
  /\ Indexed(s)
  /\ \A i \in 1..Len(s.validators) : Fit(s.validators[i])

\* Effective balances stay whole increments under their maximum.
LEMMA EffectiveBalanceUpdatesType ==
  ASSUME NEW s \in RegistryState, Len(s.balances) = Len(s.validators)
  PROVE  LET t == EffectiveBalanceUpdates(s)
             n == Len(s.validators)
         IN /\ t \in RegistryState
            /\ t = [s EXCEPT !.validators = t.validators]
            /\ Len(t.validators) = n
            /\ \A i \in 1..n :
                 \/ t.validators[i] = s.validators[i]
                 \/ t.validators[i] = [s.validators[i] EXCEPT
                      !.effectiveBalance = Rounded(s.balances[i], s.validators[i])]
<1> DEFINE t == EffectiveBalanceUpdates(s)
           n == Len(s.validators)
           raised(i) == [s.validators[i] EXCEPT
                           !.effectiveBalance = Rounded(s.balances[i], s.validators[i])]
           w == t.validators
<1>1. /\ s.validators \in Seq(Validator) /\ s.balances \in Seq(Nat)
      /\ n \in Nat /\ DOMAIN s.validators = 1..n
      /\ \A i \in 1..n : s.validators[i] \in Validator /\ s.balances[i] \in Nat
  BY ValidatorFields DEF RegistryState
<1>2. PICK x : t = [s EXCEPT !.validators = x]
               /\ x = [i \in DOMAIN s.validators |-> x[i]]
               /\ \A i \in DOMAIN s.validators : x[i] = s.validators[i] \/ x[i] = raised(i)
  <2> DEFINE x == [i \in DOMAIN s.validators |->
                     IF \/ s.balances[i] + (EffectiveBalanceIncrement \div HysteresisQuotient)
                                              * HysteresisDownward
                              < s.validators[i].effectiveBalance
                        \/ s.validators[i].effectiveBalance
                             + (EffectiveBalanceIncrement \div HysteresisQuotient)
                                 * HysteresisUpward < s.balances[i]
                     THEN raised(i) ELSE s.validators[i]]
  <2>1. t = [s EXCEPT !.validators = x]
    BY DEF EffectiveBalanceUpdates
  <2>2. /\ x = [i \in DOMAIN s.validators |-> x[i]]
        /\ \A i \in DOMAIN s.validators : x[i] = s.validators[i] \/ x[i] = raised(i)
    <3> HIDE DEF raised
    <3> QED OBVIOUS
  <2> HIDE DEF x, t, raised
  <2> QED BY <2>1, <2>2
<1>3. x = [i \in 1..n |-> x[i]] /\ \A i \in 1..n : x[i] = s.validators[i] \/ x[i] = raised(i)
  BY <1>1, <1>2
<1>4. \A i \in 1..n : x[i] \in Validator
  <2> TAKE i \in 1..n
  <2>1. Rounded(s.balances[i], s.validators[i]) \in Nat
    BY <1>1, RoundedWhole
  <2>2. raised(i) \in Validator
    BY <1>1, <2>1 DEF Validator
  <2> HIDE DEF raised
  <2> QED BY <1>1, <1>3, <2>2
<1> HIDE DEF t
<1>5. x \in Seq(Validator) /\ Len(x) = n
  BY <1>1, <1>3, <1>4, SequenceOf
<1>6. t \in RegistryState /\ t.validators = x
  BY <1>2, <1>5 DEF RegistryState
<1> QED BY <1>2, <1>3, <1>5, <1>6 DEF t

\* The reset writes the vector of slashings only.
LEMMA SlashingsResetType ==
  ASSUME NEW s \in RegistryState
  PROVE  LET t == SlashingsReset(s)
         IN t \in RegistryState /\ t = [s EXCEPT !.slashings = t.slashings]
<1> DEFINE k == (CurrentEpoch(s) + 1) % EpochsPerSlashingsVector
           x == [s.slashings EXCEPT ![k] = 0]
           t == SlashingsReset(s)
<1>1. t = [s EXCEPT !.slashings = x]
  BY DEF SlashingsReset
<1>2. x \in [0..(EpochsPerSlashingsVector - 1) -> Nat]
  <2> HIDE DEF k
  <2> QED BY DEF RegistryState
<1> HIDE DEF t, x
<1>3. t \in RegistryState /\ t.slashings = x
  BY <1>1, <1>2 DEF RegistryState
<1> QED BY <1>1, <1>3 DEF t

\* The state the registry updates of an epoch start from.
EpochBase(s, finalized, i, delta) ==
  RewardsAndPenalties([s EXCEPT !.finalizedEpoch = finalized], i, delta)

Rebased(s, t, finalized) == t = [s EXCEPT !.finalizedEpoch = finalized, !.balances = t.balances]

\* The first steps of an epoch, up to process_slashings.
LEMMA EpochBaseType ==
  ASSUME NEW s, Sound(s), NEW finalized \in Nat, NEW i \in 1..Len(s.validators),
         NEW delta \in Int
  PROVE  LET t == EpochBase(s, finalized, i, delta)
         IN Sound(t) /\ Rebased(s, t, finalized)
<1> DEFINE s0 == [s EXCEPT !.finalizedEpoch = finalized]
           t == EpochBase(s, finalized, i, delta)
<1>1. s0 \in RegistryState /\ s0.balances = s.balances /\ s.balances \in Seq(Nat)
  BY DEF Sound, RegistryState
<1>2. i \in 1..Len(s0.balances)
  BY <1>1 DEF Sound, Indexed
<1>3. t = RewardsAndPenalties(s0, i, delta)
  BY DEF EpochBase
<1> HIDE DEF t, s0
<1>4. t \in RegistryState /\ t = [s0 EXCEPT !.balances = t.balances]
      /\ Len(t.balances) = Len(s0.balances)
  BY <1>1, <1>2, <1>3, RewardsType
<1>5. t = [s EXCEPT !.finalizedEpoch = finalized, !.balances = t.balances]
  BY <1>4 DEF s0, Sound, RegistryState
<1>6. /\ t.validators = s.validators /\ t.nextWithdrawalValidator = s.nextWithdrawalValidator
      /\ t.pendingDeposits = s.pendingDeposits
      /\ t.pendingPartialWithdrawals = s.pendingPartialWithdrawals
      /\ t.pendingConsolidations = s.pendingConsolidations
  BY <1>5 DEF Sound, RegistryState
<1>7. Sound(t)
  BY <1>1, <1>4, <1>6 DEF Sound, Indexed
<1> QED BY <1>5, <1>7 DEF t, Rebased

Settled(s, t, finalized, last) ==
  t = [s EXCEPT !.finalizedEpoch = finalized, !.balances = t.balances,
                !.validators = t.validators,
                !.exitBalanceToConsume = last.exitBalanceToConsume,
                !.earliestExitEpoch = last.earliestExitEpoch]

\* The steps before the deposit queue: of a validator they change no more than
\* the registry updates do.
LEMMA EpochBalancesType ==
  ASSUME NEW s, Sound(s), NEW finalized \in Nat, NEW i \in 1..Len(s.validators),
         NEW delta \in Int
  PROVE  LET r == EpochBase(s, finalized, i, delta)
             t == EpochBalances(s, finalized, i, delta)
             last == Reserved(r)[Len(s.validators)]
         IN /\ Sound(t)
            /\ Settled(s, t, finalized, last)
            /\ Len(t.validators) = Len(s.validators)
            /\ \A k \in 1..Len(s.validators) : t.validators[k] = AfterUpdates(r, k)
<1> DEFINE r == EpochBase(s, finalized, i, delta)
           q == RegistryUpdates(r)
           t == EpochBalances(s, finalized, i, delta)
           last == Reserved(r)[Len(s.validators)]
           n == Len(s.validators)
<1>1. t = ProcessSlashings(q)
  BY DEF EpochBalances, EpochBase
<1>2. Sound(r) /\ r = [s EXCEPT !.finalizedEpoch = finalized, !.balances = r.balances]
  <2> HIDE DEF r
  <2>1. Sound(r) /\ Rebased(s, r, finalized)
    BY EpochBaseType DEF r
  <2> QED BY <2>1 DEF Rebased
<1>3. /\ r \in RegistryState /\ r.validators = s.validators
      /\ r.nextWithdrawalValidator = s.nextWithdrawalValidator
      /\ r.pendingDeposits = s.pendingDeposits
      /\ r.pendingPartialWithdrawals = s.pendingPartialWithdrawals
      /\ r.pendingConsolidations = s.pendingConsolidations
  BY <1>2 DEF Sound, RegistryState
<1> HIDE DEF r
<1>4. /\ q \in RegistryState
      /\ q = [r EXCEPT !.validators = q.validators,
                       !.exitBalanceToConsume = q.exitBalanceToConsume,
                       !.earliestExitEpoch = q.earliestExitEpoch]
      /\ Len(q.validators) = n
      /\ \A k \in 1..n : q.validators[k] = AfterUpdates(r, k)
      /\ q.exitBalanceToConsume = last.exitBalanceToConsume
      /\ q.earliestExitEpoch = last.earliestExitEpoch
  BY <1>3, RegistryUpdatesType
<1> HIDE DEF q, t
<1>5. Len(q.balances) = n /\ q.balances = r.balances
  BY <1>2, <1>3, <1>4 DEF Sound, Indexed, RegistryState
<1>6. /\ t \in RegistryState
      /\ t = [q EXCEPT !.balances = t.balances]
      /\ Len(t.balances) = n
  BY <1>1, <1>4, <1>5, ProcessSlashingsType
<1>7. t = [s EXCEPT !.finalizedEpoch = finalized, !.balances = t.balances,
                    !.validators = t.validators,
                    !.exitBalanceToConsume = last.exitBalanceToConsume,
                    !.earliestExitEpoch = last.earliestExitEpoch]
      /\ t.validators = q.validators
  <2> DEFINE e == last.earliestExitEpoch
             b == last.exitBalanceToConsume
             x == q.validators
             y == t.balances
             z == r.balances
  <2>1. q = [r EXCEPT !.validators = x, !.exitBalanceToConsume = b, !.earliestExitEpoch = e]
    BY <1>4
  <2>2. r = [s EXCEPT !.finalizedEpoch = finalized, !.balances = z]
    BY <1>2
  <2>3. t = [q EXCEPT !.balances = y]
    BY <1>6
  <2> HIDE DEF e, b, x, y, z, last
  <2>4. t = [s EXCEPT !.finalizedEpoch = finalized, !.balances = y, !.validators = x,
                      !.exitBalanceToConsume = b, !.earliestExitEpoch = e]
    BY <2>1, <2>2, <2>3 DEF Sound, RegistryState
  <2>5. t.validators = x
    BY <2>4 DEF Sound, RegistryState
  <2> QED BY <2>4, <2>5 DEF e, b, x, y
<1>8. /\ t.nextWithdrawalValidator = s.nextWithdrawalValidator
      /\ t.pendingDeposits = s.pendingDeposits
      /\ t.pendingPartialWithdrawals = s.pendingPartialWithdrawals
      /\ t.pendingConsolidations = s.pendingConsolidations
  <2> HIDE DEF last
  <2> QED BY <1>7 DEF Sound, RegistryState
<1>9. \A k \in 1..n : Fit(t.validators[k])
  <2> TAKE k \in 1..n
  <2>1. Fit(s.validators[k]) /\ k \in 1..Len(r.validators)
    BY <1>3 DEF Sound
  <2>2. /\ t.validators[k].credential = s.validators[k].credential
        /\ t.validators[k].effectiveBalance = s.validators[k].effectiveBalance
    BY <1>3, <1>4, <1>7, <2>1, AfterUpdatesType
  <2> QED BY <2>1, <2>2 DEF Fit, MaxEffective
<1>10. Sound(t)
  BY <1>4, <1>6, <1>7, <1>8, <1>9 DEF Sound, Indexed
<1>11. Settled(s, t, finalized, last)
  BY <1>7 DEF Settled
<1> QED BY <1>4, <1>7, <1>10, <1>11 DEF t, r, last, n

\* The validators of s, up to their effective balances, and perhaps new ones.
Grown(s, t) ==
  /\ Len(t.validators) \in {Len(s.validators), Len(s.validators) + 1}
  /\ \A i \in 1..Len(s.validators) :
       t.validators[i] = [s.validators[i] EXCEPT
                            !.effectiveBalance = t.validators[i].effectiveBalance]
  /\ \A i \in (Len(s.validators) + 1)..Len(t.validators) :
       /\ ~t.validators[i].slashed
       /\ t.validators[i].exit = FarFutureEpoch
       /\ t.validators[i].withdrawable = FarFutureEpoch

\* What the second half of the steps leaves of a state.
QueuesStep(s, t) ==
  t = [s EXCEPT !.validators = t.validators, !.balances = t.balances,
                !.slashings = t.slashings,
                !.pendingDeposits = t.pendingDeposits,
                !.depositBalanceToConsume = t.depositBalanceToConsume,
                !.pendingConsolidations = t.pendingConsolidations]

\* process_pending_deposits on a sound state, and what it is worth after.
LEMMA DepositsSound ==
  ASSUME NEW s, Sound(s)
  PROVE  LET t == ProcessPendingDeposits(s)
         IN /\ Sound(t) /\ Grown(s, t) /\ QueuesStep(s, t)
            /\ t.slot = s.slot
            /\ t.pendingConsolidations = s.pendingConsolidations
            /\ Worth(t) = Worth(s) - Dropped(s)
            /\ BudgetOf(t)
<1> DEFINE t == ProcessPendingDeposits(s)
           n == Len(s.validators)
           m == Len(t.validators)
<1>1. s \in RegistryState /\ Indexed(s) /\ \A i \in 1..n : Fit(s.validators[i])
  BY DEF Sound
<1>2. /\ s.validators \in Seq(Validator) /\ n \in Nat
      /\ \A i \in 1..n : s.validators[i] \in Validator
  BY <1>1, ValidatorFields DEF RegistryState
<1> HIDE DEF t
<1>3. /\ t \in RegistryState
      /\ t = [s EXCEPT !.validators = t.validators, !.balances = t.balances,
                       !.pendingDeposits = t.pendingDeposits,
                       !.depositBalanceToConsume = t.depositBalanceToConsume]
      /\ Len(t.balances) = m
      /\ \/ t.validators = s.validators
         \/ /\ \E d \in Deposit : t.validators = Append(s.validators, NewValidator(d))
            /\ n + 1 <= MaxValidators
      /\ Within(t.pendingDeposits, n + 1)
      /\ Worth(t) = Worth(s) - Dropped(s)
      /\ BudgetOf(t)
  BY <1>1, PendingDepositsType DEF t
<1>4. /\ t.nextWithdrawalValidator = s.nextWithdrawalValidator
      /\ t.pendingPartialWithdrawals = s.pendingPartialWithdrawals
      /\ t.pendingConsolidations = s.pendingConsolidations
      /\ t.slot = s.slot
      /\ QueuesStep(s, t)
  BY <1>1, <1>3 DEF RegistryState, QueuesStep
<1>5. /\ m \in {n, n + 1} /\ m <= MaxValidators
      /\ \A i \in 1..n : t.validators[i] = s.validators[i]
      /\ \A i \in (n + 1)..m :
           /\ Fit(t.validators[i]) /\ ~t.validators[i].slashed
           /\ t.validators[i].exit = FarFutureEpoch
           /\ t.validators[i].withdrawable = FarFutureEpoch
  <2>1. CASE t.validators = s.validators
    BY <1>1, <1>2, <2>1 DEF Indexed
  <2>2. ASSUME NEW d \in Deposit, t.validators = Append(s.validators, NewValidator(d)),
               n + 1 <= MaxValidators
        PROVE  <1>5
    <3> DEFINE v == NewValidator(d)
    <3>1. /\ v \in Validator /\ ~v.slashed
          /\ v.exit = FarFutureEpoch /\ v.withdrawable = FarFutureEpoch
          /\ Fit(v)
      BY NewValidatorType DEF Fit
    <3> HIDE DEF v
    <3>2. /\ m = n + 1 /\ t.validators[n + 1] = v
          /\ \A i \in 1..n : t.validators[i] = s.validators[i]
      <4>1. t.validators = Append(s.validators, v)
        BY <2>2 DEF v
      <4> QED BY <1>2, <3>1, <4>1, SequenceAppend
    <3>3. \A i \in (n + 1)..m : i = n + 1
      BY <1>2, <3>2
    <3> QED BY <2>2, <3>1, <3>2, <3>3
  <2> QED BY <1>3, <2>1, <2>2
<1>6. \A i \in 1..m : Fit(t.validators[i])
  <2> TAKE i \in 1..m
  <2>1. i \in 1..n \/ i \in (n + 1)..m
    BY <1>2, <1>5
  <2> QED BY <1>1, <1>5, <2>1
<1>7. Indexed(t)
  <2>1. /\ m \in Nat /\ m >= n /\ m <= MaxValidators
        /\ \A i \in 1..n : i \in 1..m
    BY <1>2, <1>5
  <2>2. \A k \in DOMAIN t.pendingDeposits : t.pendingDeposits[k].validator <= m + 1
    <3> TAKE k \in DOMAIN t.pendingDeposits
    <3>1. t.pendingDeposits[k].validator <= n + 1
      BY <1>3 DEF Within
    <3>2. t.pendingDeposits \in Seq(Deposit)
      BY <1>3 DEF RegistryState
    <3>3. t.pendingDeposits[k] \in Deposit
      BY <3>2, SequenceFacts
    <3>4. t.pendingDeposits[k].validator \in Int
      BY <3>3 DEF Deposit
    <3> QED BY <1>2, <2>1, <3>1, <3>4
  <2> HIDE DEF n, m
  <2> QED BY <1>1, <1>3, <1>4, <2>1, <2>2 DEF Indexed, n, m
<1>8. Grown(s, t)
  <2>1. \A i \in 1..n : t.validators[i] = [s.validators[i] EXCEPT
                           !.effectiveBalance = t.validators[i].effectiveBalance]
    BY <1>2, <1>5 DEF Validator
  <2> QED BY <1>5, <2>1 DEF Grown
<1>9. Sound(t)
  BY <1>3, <1>6, <1>7 DEF Sound
<1> QED BY <1>3, <1>4, <1>8, <1>9 DEF t

\* The consolidations that are left are those from the first that must wait.
ConsolidationsLeft(s, t) ==
  \E done \in 0..Len(s.pendingConsolidations) :
    /\ t.pendingConsolidations
         = SubSeq(s.pendingConsolidations, done + 1, Len(s.pendingConsolidations))
    /\ done < Len(s.pendingConsolidations)
         => ConsolidationWaits(s, s.validators[s.pendingConsolidations[done + 1].source])

\* A registry that did not change has grown by nothing.
LEMMA GrownSame ==
  ASSUME NEW s \in RegistryState, NEW t, t.validators = s.validators
  PROVE  Grown(s, t)
<1> DEFINE n == Len(s.validators)
<1>1. n \in Nat /\ \A i \in 1..n : s.validators[i] \in Validator
  BY ValidatorFields
<1>2. \A i \in 1..n : t.validators[i] = [s.validators[i] EXCEPT
                         !.effectiveBalance = t.validators[i].effectiveBalance]
  BY <1>1 DEF Validator
<1>3. (n + 1)..Len(t.validators) = {}
  BY <1>1
<1> QED BY <1>2, <1>3 DEF Grown

\* process_pending_consolidations on a sound state.
LEMMA ConsolidationsSound ==
  ASSUME NEW s, Sound(s)
  PROVE  LET t == ProcessPendingConsolidations(s)
         IN /\ Sound(t) /\ QueuesStep(s, t)
            /\ t.validators = s.validators /\ t.slot = s.slot
            /\ ConsolidationsLeft(s, t)
            /\ Worth(t) = Worth(s)
            /\ t.pendingDeposits = s.pendingDeposits
            /\ t.depositBalanceToConsume = s.depositBalanceToConsume
<1> DEFINE t == ProcessPendingConsolidations(s)
           n == Len(s.validators)
           queue == s.pendingConsolidations
           done == ConsolidationsDone(s)
<1>1. s \in RegistryState /\ Indexed(s) /\ \A i \in 1..n : Fit(s.validators[i])
  BY DEF Sound
<1>2. queue \in Seq(Consolidation)
  BY <1>1 DEF RegistryState
<1> HIDE DEF t, done
<1>3. /\ t \in RegistryState
      /\ t = [s EXCEPT !.balances = t.balances,
                       !.pendingConsolidations = t.pendingConsolidations]
      /\ Len(t.balances) = Len(s.balances)
      /\ t.pendingConsolidations = SubSeq(queue, done + 1, Len(queue))
      /\ Worth(t) = Worth(s)
  BY <1>1, PendingConsolidationsType DEF t, done
<1>4. /\ t.nextWithdrawalValidator = s.nextWithdrawalValidator
      /\ t.validators = s.validators
      /\ t.pendingPartialWithdrawals = s.pendingPartialWithdrawals
      /\ t.pendingDeposits = s.pendingDeposits
      /\ t.depositBalanceToConsume = s.depositBalanceToConsume
      /\ t.slot = s.slot
      /\ QueuesStep(s, t)
  BY <1>1, <1>3 DEF RegistryState, QueuesStep
<1>5. /\ done \in 0..Len(queue)
      /\ done < Len(queue) => ConsolidationWaits(s, s.validators[queue[done + 1].source])
  BY <1>1, ConsolidationsDoneFacts DEF done
<1>6. ConsolidationsLeft(s, t)
  BY <1>3, <1>5 DEF ConsolidationsLeft
<1>7. \A k \in DOMAIN t.pendingConsolidations :
        /\ t.pendingConsolidations[k].source \in 1..n
        /\ t.pendingConsolidations[k].target \in 1..n
  <2> TAKE k \in DOMAIN t.pendingConsolidations
  <2>1. Len(queue) \in Nat /\ DOMAIN queue = 1..Len(queue)
    BY <1>2, SequenceFacts
  <2>2. /\ Len(t.pendingConsolidations) = Len(queue) - done
        /\ t.pendingConsolidations \in Seq(Consolidation)
        /\ \A j \in 1..(Len(queue) - done) : t.pendingConsolidations[j] = queue[done + j]
    <3> DEFINE rest == SubSeq(queue, done + 1, Len(queue))
    <3>1. t.pendingConsolidations = rest
      BY <1>3
    <3> HIDE DEF queue, rest
    <3>2. /\ rest \in Seq(Consolidation) /\ Len(rest) = Len(queue) - done
          /\ \A j \in 1..(Len(queue) - done) : rest[j] = queue[done + j]
      BY <1>2, <1>5, SequenceTail DEF rest
    <3> QED BY <3>1, <3>2
  <2>3. k \in 1..(Len(queue) - done)
    BY <2>2, SequenceFacts
  <2>4. done + k \in DOMAIN queue
    BY <1>5, <2>1, <2>3
  <2> QED BY <1>1, <2>2, <2>3, <2>4 DEF Indexed
<1>8. Indexed(t)
  BY <1>1, <1>3, <1>4, <1>7 DEF Indexed
<1>9. Sound(t)
  BY <1>1, <1>3, <1>4, <1>8 DEF Sound
<1> QED BY <1>3, <1>4, <1>6, <1>9 DEF t

\* process_effective_balance_updates on a sound state.
LEMMA EffectiveBalancesSound ==
  ASSUME NEW s, Sound(s)
  PROVE  LET t == EffectiveBalanceUpdates(s)
         IN /\ Sound(t) /\ Grown(s, t) /\ QueuesStep(s, t)
            /\ Len(t.validators) = Len(s.validators)
            /\ t.slot = s.slot /\ Worth(t) = Worth(s)
            /\ t.pendingConsolidations = s.pendingConsolidations
            /\ t.pendingDeposits = s.pendingDeposits
            /\ t.depositBalanceToConsume = s.depositBalanceToConsume
<1> DEFINE t == EffectiveBalanceUpdates(s)
           n == Len(s.validators)
           raised(i) == [s.validators[i] EXCEPT
                           !.effectiveBalance = Rounded(s.balances[i], s.validators[i])]
<1>1. s \in RegistryState /\ Indexed(s) /\ \A i \in 1..n : Fit(s.validators[i])
  BY DEF Sound
<1>2. n \in Nat /\ \A i \in 1..n : s.validators[i] \in Validator /\ s.balances[i] \in Nat
  BY <1>1, ValidatorFields DEF Indexed
<1> HIDE DEF t
<1>3. /\ t \in RegistryState
      /\ t = [s EXCEPT !.validators = t.validators]
      /\ Len(t.validators) = n
      /\ \A i \in 1..n : t.validators[i] = s.validators[i] \/ t.validators[i] = raised(i)
  BY <1>1, EffectiveBalanceUpdatesType DEF Indexed, t
<1>4. /\ t.nextWithdrawalValidator = s.nextWithdrawalValidator
      /\ t.balances = s.balances
      /\ t.pendingPartialWithdrawals = s.pendingPartialWithdrawals
      /\ t.pendingConsolidations = s.pendingConsolidations
      /\ t.pendingDeposits = s.pendingDeposits
      /\ t.depositBalanceToConsume = s.depositBalanceToConsume
      /\ t.slot = s.slot
      /\ QueuesStep(s, t)
  BY <1>1, <1>3 DEF RegistryState, QueuesStep
<1>5. ASSUME NEW i \in 1..n
      PROVE  /\ Fit(t.validators[i])
             /\ t.validators[i] = [s.validators[i] EXCEPT
                                     !.effectiveBalance = t.validators[i].effectiveBalance]
  <2>1. CASE t.validators[i] = s.validators[i]
    BY <1>1, <1>2, <2>1 DEF Validator
  <2>2. CASE t.validators[i] = raised(i)
    <3> DEFINE b == Rounded(s.balances[i], s.validators[i])
               v == s.validators[i]
    <3>1. b \in Nat /\ b % EffectiveBalanceIncrement = 0 /\ b <= MaxEffective(v)
      BY <1>2, RoundedWhole
    <3> HIDE DEF b
    <3>2. t.validators[i] = [v EXCEPT !.effectiveBalance = b]
      BY <2>2 DEF b
    <3>3. t.validators[i].effectiveBalance = b /\ t.validators[i].credential = v.credential
      BY <1>2, <3>2 DEF Validator
    <3> QED BY <3>1, <3>2, <3>3 DEF Fit, MaxEffective
  <2> QED BY <1>3, <2>1, <2>2
<1>6. Grown(s, t)
  <2>1. (n + 1)..Len(t.validators) = {}
    BY <1>2, <1>3
  <2> QED BY <1>3, <1>5, <2>1 DEF Grown
<1>7. Sound(t)
  BY <1>1, <1>3, <1>4, <1>5 DEF Sound, Indexed
<1> QED BY <1>3, <1>4, <1>6, <1>7 DEF t, Worth

\* process_slashings_reset on a sound state.
LEMMA ResetSound ==
  ASSUME NEW s, Sound(s)
  PROVE  LET t == SlashingsReset(s)
         IN /\ Sound(t) /\ QueuesStep(s, t)
            /\ t.validators = s.validators
            /\ t.slot = s.slot /\ Worth(t) = Worth(s)
            /\ t.pendingConsolidations = s.pendingConsolidations
            /\ t.pendingDeposits = s.pendingDeposits
            /\ t.depositBalanceToConsume = s.depositBalanceToConsume
<1> DEFINE t == SlashingsReset(s)
<1>1. s \in RegistryState
  BY DEF Sound
<1> HIDE DEF t
<1>2. t \in RegistryState /\ t = [s EXCEPT !.slashings = t.slashings]
  BY <1>1, SlashingsResetType DEF t
<1>4. /\ t.nextWithdrawalValidator = s.nextWithdrawalValidator
      /\ t.balances = s.balances /\ t.validators = s.validators
      /\ t.pendingPartialWithdrawals = s.pendingPartialWithdrawals
      /\ t.pendingConsolidations = s.pendingConsolidations
      /\ t.pendingDeposits = s.pendingDeposits
      /\ t.depositBalanceToConsume = s.depositBalanceToConsume
      /\ t.slot = s.slot
      /\ QueuesStep(s, t)
  BY <1>1, <1>2 DEF RegistryState, QueuesStep
<1> QED BY <1>2, <1>4 DEF t, Sound, Indexed, Worth

\* From the deposit queue to the end of process_epoch.
LEMMA EpochQueuesType ==
  ASSUME NEW s, Sound(s)
  PROVE  LET t == EpochQueues(s)
         IN /\ Sound(t) /\ QueuesStep(s, t) /\ Grown(s, t) /\ BudgetOf(t)
            /\ Worth(t) = Worth(s) - Dropped(s)
            /\ \E p : /\ p.slot = s.slot /\ Grown(s, p)
                      /\ p.pendingConsolidations = s.pendingConsolidations
                      /\ ConsolidationsLeft(p, t)
<1> DEFINE a == ProcessPendingDeposits(s)
           b == ProcessPendingConsolidations(a)
           c == EffectiveBalanceUpdates(b)
           d == SlashingsReset(c)
<1>1. d = EpochQueues(s)
  BY DEF EpochQueues
<1> HIDE DEF a, b, c, d
<1>2. /\ Sound(a) /\ Grown(s, a) /\ QueuesStep(s, a) /\ a.slot = s.slot
      /\ a.pendingConsolidations = s.pendingConsolidations
      /\ Worth(a) = Worth(s) - Dropped(s) /\ BudgetOf(a)
  BY DepositsSound DEF a
<1>3. /\ Sound(b) /\ QueuesStep(a, b)
      /\ b.validators = a.validators /\ ConsolidationsLeft(a, b) /\ Worth(b) = Worth(a)
      /\ b.pendingDeposits = a.pendingDeposits
      /\ b.depositBalanceToConsume = a.depositBalanceToConsume
  BY <1>2, ConsolidationsSound DEF b
<1>4. /\ Sound(c) /\ Grown(b, c) /\ Len(c.validators) = Len(b.validators)
      /\ QueuesStep(b, c) /\ Worth(c) = Worth(b)
      /\ c.pendingConsolidations = b.pendingConsolidations
      /\ c.pendingDeposits = b.pendingDeposits
      /\ c.depositBalanceToConsume = b.depositBalanceToConsume
  BY <1>3, EffectiveBalancesSound DEF c
<1>5. /\ Sound(d) /\ QueuesStep(c, d) /\ d.validators = c.validators /\ Worth(d) = Worth(c)
      /\ d.pendingConsolidations = c.pendingConsolidations
      /\ d.pendingDeposits = c.pendingDeposits
      /\ d.depositBalanceToConsume = c.depositBalanceToConsume
  BY <1>4, ResetSound DEF d
<1>6. QueuesStep(s, d)
  <2>1. QueuesStep(s, b)
    BY <1>2, <1>3 DEF QueuesStep, Sound, RegistryState
  <2>2. QueuesStep(s, c)
    BY <1>4, <2>1 DEF QueuesStep, Sound, RegistryState
  <2> QED BY <1>5, <2>2 DEF QueuesStep, Sound, RegistryState
<1>7. Grown(s, d)
  <2> DEFINE n == Len(s.validators)
             m == Len(a.validators)
  <2>1. /\ n \in Nat /\ m \in {n, n + 1} /\ Len(d.validators) = m
        /\ Len(b.validators) = m
        /\ \A i \in 1..n : i \in 1..m
    BY <1>2, <1>3, <1>4, <1>5, ValidatorFields DEF Grown, Sound
  <2>2. ASSUME NEW i \in 1..n
        PROVE  d.validators[i] = [s.validators[i] EXCEPT
                                    !.effectiveBalance = d.validators[i].effectiveBalance]
    <3>1. a.validators[i] = [s.validators[i] EXCEPT
                               !.effectiveBalance = a.validators[i].effectiveBalance]
      BY <1>2 DEF Grown
    <3>2. d.validators[i] = [a.validators[i] EXCEPT
                               !.effectiveBalance = d.validators[i].effectiveBalance]
      BY <1>3, <1>4, <1>5, <2>1 DEF Grown
    <3>3. s.validators[i] \in Validator
      BY ValidatorFields DEF Sound
    <3> DEFINE x == a.validators[i].effectiveBalance
               y == d.validators[i].effectiveBalance
    <3> HIDE DEF x, y
    <3>4. d.validators[i] = [s.validators[i] EXCEPT !.effectiveBalance = y]
      BY <3>1, <3>2, <3>3 DEF Validator, x, y
    <3> QED BY <3>4 DEF y
  <2>3. ASSUME NEW i \in (n + 1)..m
        PROVE  /\ ~d.validators[i].slashed
               /\ d.validators[i].exit = FarFutureEpoch
               /\ d.validators[i].withdrawable = FarFutureEpoch
    <3>1. i \in 1..m
      BY <2>1
    <3>2. d.validators[i] = [a.validators[i] EXCEPT
                               !.effectiveBalance = d.validators[i].effectiveBalance]
      BY <1>3, <1>4, <1>5, <2>1, <3>1 DEF Grown
    <3>3. a.validators[i] \in Validator
      BY <1>2, <3>1, ValidatorFields DEF Sound
    <3>4. /\ ~a.validators[i].slashed
          /\ a.validators[i].exit = FarFutureEpoch
          /\ a.validators[i].withdrawable = FarFutureEpoch
      BY <1>2 DEF Grown
    <3> QED BY <3>2, <3>3, <3>4 DEF Validator
  <2> QED BY <2>1, <2>2, <2>3 DEF Grown
<1>8. ConsolidationsLeft(a, d)
  BY <1>3, <1>4, <1>5 DEF ConsolidationsLeft
<1>9. BudgetOf(d)
  BY <1>2, <1>3, <1>4, <1>5 DEF BudgetOf
<1> QED BY <1>1, <1>2, <1>3, <1>4, <1>5, <1>6, <1>7, <1>8, <1>9

---------------------------------------------------------------------------
(* The payments of a payload.                                               *)

Payment == [validator : Nat, amount : Nat]

\* What payments must leave a validator.
Floor(s, i) ==
  IF s.validators[i].withdrawable <= CurrentEpoch(s) THEN 0 ELSE MinActivationBalance

\* Payments that no balance falls short of.
CoveredPayments(s) ==
  {p \in Seq(Payment) :
     /\ \A k \in DOMAIN p : p[k].validator \in 1..Len(s.validators)
     /\ \A i \in 1..Len(s.validators) :
          /\ AmountFor(p, i) <= s.balances[i]
          /\ AmountFor(p, i) # 0 => s.balances[i] - AmountFor(p, i) >= Floor(s, i)}

\* The numbers of a payment.
LEMMA PaymentAmounts == \A e \in Payment : e.amount \in Nat /\ e.validator \in Nat
  BY DEF Payment

\* A payment that leaves the floor may join covered ones.
LEMMA CoveredAppend ==
  ASSUME NEW s \in RegistryState, Indexed(s), NEW p \in CoveredPayments(s),
         NEW i \in 1..Len(s.validators), NEW amount \in Nat,
         s.balances[i] - AmountFor(p, i) - amount >= Floor(s, i)
  PROVE  Append(p, [validator |-> i, amount |-> amount]) \in CoveredPayments(s)
<1> DEFINE n == Len(s.validators)
           e == [validator |-> i, amount |-> amount]
           q == Append(p, e)
<1>1. n \in Nat /\ \A j \in 1..n : s.balances[j] \in Nat
  BY ValidatorFields DEF Indexed
<1>2. e \in Payment /\ e.validator = i /\ e.amount = amount
  BY <1>1 DEF Payment
<1>3. p \in Seq(Payment) /\ \A k \in DOMAIN p : p[k].validator \in 1..n
  BY DEF CoveredPayments
<1> HIDE DEF e
<1>4. \A j : /\ AmountFor(p, j) \in Nat
             /\ AmountFor(q, j) = IF e.validator = j THEN AmountFor(p, j) + e.amount
                                  ELSE AmountFor(p, j)
  BY <1>2, <1>3, PaymentAmounts, TotalAppend
<1>5. /\ q \in Seq(Payment) /\ Len(q) = Len(p) + 1 /\ q[Len(p) + 1] = e
      /\ \A k \in 1..Len(p) : q[k] = p[k]
  BY <1>2, <1>3, SequenceAppend
<1>6. \A k \in DOMAIN q : q[k].validator \in 1..n
  <2>1. DOMAIN p = 1..Len(p) /\ DOMAIN q = 1..(Len(p) + 1) /\ Len(p) \in Nat
    BY <1>3, <1>5, SequenceFacts
  <2> TAKE k \in DOMAIN q
  <2>2. k \in 1..Len(p) \/ k = Len(p) + 1
    BY <2>1
  <2> QED BY <1>2, <1>3, <1>5, <2>1, <2>2
<1>7. Floor(s, i) \in Nat
  <2>1. MinActivationBalance \in Nat
    BY RegistryAssumption
  <2> QED BY <2>1 DEF Floor
<1>8. ASSUME NEW j \in 1..n
      PROVE  /\ AmountFor(q, j) <= s.balances[j]
             /\ AmountFor(q, j) # 0 => s.balances[j] - AmountFor(q, j) >= Floor(s, j)
  <2>1. CASE j = i
    <3>1. /\ AmountFor(p, i) \in Nat /\ AmountFor(q, i) = AmountFor(p, i) + amount
          /\ s.balances[i] \in Nat
      BY <1>1, <1>2, <1>4
    <3>2. AmountFor(q, i) <= s.balances[i] /\ s.balances[i] - AmountFor(q, i) >= Floor(s, i)
      BY <1>7, <3>1
    <3> QED BY <2>1, <3>2
  <2>2. CASE j # i
    <3>1. AmountFor(q, j) = AmountFor(p, j)
      BY <1>2, <1>4, <2>2
    <3> QED BY <3>1 DEF CoveredPayments
  <2> QED BY <2>1, <2>2
<1> HIDE DEF q
<1> QED BY <1>5, <1>6, <1>8 DEF CoveredPayments, q, e

\* No payments are covered.
LEMMA NothingPaid ==
  ASSUME NEW s \in RegistryState, Indexed(s)
  PROVE  <<>> \in CoveredPayments(s)
<1>1. \A j : AmountFor(<<>>, j) = 0
  BY TotalEmpty
<1>2. \A i \in 1..Len(s.validators) : s.balances[i] \in Nat
  BY ValidatorFields DEF Indexed
<1>3. <<>> \in Seq(Payment) /\ DOMAIN <<>> = {}
  OBVIOUS
<1> QED BY <1>1, <1>2, <1>3 DEF CoveredPayments

\* The queue of partial withdrawals, step by step.
PartialStart == [payments |-> <<>>, processed |-> 0]

PartialStops(s, k, x) ==
  \/ x.processed < k - 1
  \/ s.pendingPartialWithdrawals[k].withdrawable > CurrentEpoch(s)
  \/ Len(x.payments) >= Smaller(MaxPendingPartialsPerSweep, MaxWithdrawalsPerPayload - 1)

PartialNext(s, k, x) ==
  LET request == s.pendingPartialWithdrawals[k]
      balance == BalanceAfterWithdrawals(s, request.validator, x.payments)
  IN IF PartialStops(s, k, x) THEN x
     ELSE [payments |->
             IF IsEligibleForPartialWithdrawals(s.validators[request.validator], balance)
             THEN Append(x.payments,
                    [validator |-> request.validator,
                     amount |-> Smaller(balance - MinActivationBalance, request.amount)])
             ELSE x.payments,
           processed |-> k]

IsPartials(s, f) ==
  f = [k \in 0..Len(s.pendingPartialWithdrawals) |->
         IF k = 0 THEN PartialStart ELSE PartialNext(s, k, f[k - 1])]

PartialStates(s) ==
  [payments : {p \in CoveredPayments(s) : Len(p) < MaxWithdrawalsPerPayload},
   processed : 0..Len(s.pendingPartialWithdrawals)]

\* One entry of the queue of partial withdrawals: what it pays is covered,
\* whatever the entries before it took from the same validator.
LEMMA PartialNextType ==
  ASSUME NEW s \in RegistryState, Indexed(s),
         NEW k \in 1..Len(s.pendingPartialWithdrawals), NEW x \in PartialStates(s)
  PROVE  PartialNext(s, k, x) \in PartialStates(s)
<1> DEFINE queue == s.pendingPartialWithdrawals
           request == queue[k]
           i == request.validator
           balance == BalanceAfterWithdrawals(s, i, x.payments)
           amount == Smaller(balance - MinActivationBalance, request.amount)
           more == IF IsEligibleForPartialWithdrawals(s.validators[i], balance)
                   THEN Append(x.payments, [validator |-> i, amount |-> amount])
                   ELSE x.payments
<1>1. queue \in Seq(PartialWithdrawal) /\ Len(queue) \in Nat /\ DOMAIN queue = 1..Len(queue)
      /\ request \in PartialWithdrawal
  BY SequenceFacts DEF RegistryState
<1>2. i \in 1..Len(s.validators) /\ request.amount \in Nat
  BY <1>1 DEF Indexed, PartialWithdrawal
<1>3. /\ x.payments \in CoveredPayments(s) /\ x.processed \in 0..Len(queue)
      /\ Len(x.payments) < MaxWithdrawalsPerPayload
  BY DEF PartialStates
<1>4. MinActivationBalance \in Nat /\ s.balances[i] \in Nat
  BY <1>2, RegistryAssumption, ValidatorFields DEF Indexed
<1>5. AmountFor(x.payments, i) \in Nat /\ balance \in Int
      /\ balance = s.balances[i] - AmountFor(x.payments, i)
  <2>1. x.payments \in Seq(Payment)
    BY <1>3 DEF CoveredPayments
  <2>2. [validator |-> 0, amount |-> 0] \in Payment
    BY DEF Payment
  <2>3. AmountFor(x.payments, i) \in Nat
    BY <2>1, <2>2, PaymentAmounts, TotalAppend
  <2> QED BY <1>4, <2>3 DEF BalanceAfterWithdrawals, PaidTo
<1>6. more \in CoveredPayments(s)
  <2>1. CASE IsEligibleForPartialWithdrawals(s.validators[i], balance)
    <3>1. balance > MinActivationBalance
      BY <2>1 DEF IsEligibleForPartialWithdrawals
    <3> HIDE DEF balance
    <3>2. amount \in Nat /\ balance - amount >= MinActivationBalance
      BY <1>2, <1>4, <1>5, <3>1, SMTT(30) DEF Smaller
    <3>3. MinActivationBalance >= Floor(s, i) /\ Floor(s, i) \in Nat
      BY <1>4 DEF Floor
    <3> HIDE DEF amount
    <3>4. s.balances[i] - AmountFor(x.payments, i) - amount >= Floor(s, i)
      BY <1>4, <1>5, <3>2, <3>3
    <3>5. Append(x.payments, [validator |-> i, amount |-> amount]) \in CoveredPayments(s)
      BY <1>2, <1>3, <3>2, <3>4, CoveredAppend
    <3> QED BY <2>1, <3>5
  <2>2. CASE ~IsEligibleForPartialWithdrawals(s.validators[i], balance)
    BY <1>3, <2>2
  <2> QED BY <2>1, <2>2
<1>7. PartialNext(s, k, x) = IF PartialStops(s, k, x) THEN x
                             ELSE [payments |-> more, processed |-> k]
  BY DEF PartialNext
<1>9. ~PartialStops(s, k, x) => Len(more) < MaxWithdrawalsPerPayload
  <2> SUFFICES ASSUME ~PartialStops(s, k, x) PROVE Len(more) < MaxWithdrawalsPerPayload
    OBVIOUS
  <2>1. MaxPendingPartialsPerSweep \in Nat /\ MaxWithdrawalsPerPayload \in Nat \ {0}
    BY RegistryAssumption
  <2>2. Len(x.payments) \in Nat /\ x.payments \in Seq(Payment)
    BY <1>3 DEF CoveredPayments
  <2>3. Len(x.payments) < MaxWithdrawalsPerPayload - 1
    BY <2>1, <2>2 DEF PartialStops, Smaller
  <2> DEFINE e == [validator |-> i, amount |-> amount]
  <2>4. Len(Append(x.payments, e)) = Len(x.payments) + 1
    <3> HIDE DEF e
    <3> QED BY <2>2
  <2>5. more \in {Append(x.payments, e), x.payments}
    OBVIOUS
  <2> HIDE DEF e, more
  <2> QED BY <2>1, <2>2, <2>3, <2>4, <2>5
<1> HIDE DEF more
<1>8. k \in 0..Len(queue)
  BY <1>1
<1> QED BY <1>3, <1>6, <1>7, <1>8, <1>9 DEF PartialStates

\* So all partial payments are covered.
LEMMA PartialWithdrawalsType ==
  ASSUME NEW s \in RegistryState, Indexed(s)
  PROVE  PartialWithdrawals(s) \in PartialStates(s)
<1> DEFINE Z == PartialStates(s)
           n == Len(s.pendingPartialWithdrawals)
           start == PartialStart
           step == [p \in (1..n) \X Z |-> PartialNext(s, p[1], p[2])]
           r == CHOOSE f : IsPartials(s, f)
<1>1. n \in Nat
  BY SequenceFacts DEF RegistryState
<1>2. PartialWithdrawals(s) = r[n]
  BY DEF PartialWithdrawals, IsPartials, PartialStart, PartialNext, PartialStops
<1>3. \A k \in 1..n : \A x \in Z : PartialNext(s, k, x) \in Z
  BY PartialNextType
<1>4. start \in Z
  <2>1. Len(<<>>) < MaxWithdrawalsPerPayload
    BY RegistryAssumption
  <2> QED BY <1>1, <2>1, NothingPaid DEF PartialStates, PartialStart
<1> HIDE DEF Z, start
<1>5. Closed(step, n, Z)
  BY <1>3 DEF Closed
<1>6. PICK f \in [0..n -> Z] : Follows(f, start, step, n)
  <2> HIDE DEF step, n
  <2> QED BY <1>1, <1>4, <1>5, BoundedRecursion
<1>7. \A k \in 1..n : f[k] = PartialNext(s, k, f[k - 1])
  <2> TAKE k \in 1..n
  <2>1. k - 1 \in 0..n
    BY <1>1
  <2>2. f[k - 1] \in Z
    BY <1>6, <2>1
  <2> QED BY <1>6, <2>2 DEF Follows
<1>8. f[0] = start
  BY <1>6 DEF Follows
<1> HIDE DEF step
<1>9. IsPartials(s, f)
  <2> DEFINE g == [k \in 0..n |-> IF k = 0 THEN start ELSE PartialNext(s, k, f[k - 1])]
  <2>1. \A k \in 0..n : f[k] = g[k]
    <3> TAKE k \in 0..n
    <3>1. k = 0 \/ k \in 1..n
      BY <1>1
    <3> QED BY <1>7, <1>8, <3>1
  <2>2. f = g
    BY <1>6, <2>1
  <2> QED BY <2>2 DEF IsPartials, n, start
<1>10. IsPartials(s, r)
  BY <1>9
<1> HIDE DEF r
<1>11. r = [k \in 0..n |-> IF k = 0 THEN start ELSE PartialNext(s, k, r[k - 1])]
  BY <1>10 DEF IsPartials, n, start
<1>12. r[0] = start /\ \A k \in 1..n : r[k] = PartialNext(s, k, r[k - 1])
  <2>1. 0 \in 0..n /\ \A k \in 1..n : k \in 0..n /\ k # 0
    BY <1>1
  <2> QED BY <1>11, <2>1
<1>13. r[n] \in Z
  <2> DEFINE S == {k \in 0..n : r[k] \in Z}
  <2>1. 0 \in S
    BY <1>1, <1>4, <1>12
  <2>2. ASSUME NEW k \in 1..n, k - 1 \in S PROVE k \in S
    <3>1. k \in 0..n
      BY <1>1
    <3> QED BY <1>3, <1>12, <2>2, <3>1
  <2> HIDE DEF S, n
  <2>3. n \in S
    BY <1>1, <2>1, <2>2, BoundedInduction
  <2> QED BY <2>3 DEF S
<1> QED BY <1>2, <1>13 DEF Z

\* The sweep stays within the registry, around its end.
LEMMA NthFromType ==
  ASSUME NEW s \in RegistryState, NEW cursor \in Nat \ {0}, NEW n \in Nat,
         Len(s.validators) # 0
  PROVE  NthFrom(cursor, n, s) \in 1..Len(s.validators)
<1>1. Len(s.validators) \in Nat \ {0}
  BY ValidatorFields
<1>2. (cursor - 1 + n) \in Nat
  OBVIOUS
<1>3. ((cursor - 1 + n) % Len(s.validators)) \in 0..(Len(s.validators) - 1)
  BY <1>1, <1>2, Division
<1> DEFINE m == Len(s.validators)
           x == (cursor - 1 + n) % m
<1>4. NthFrom(cursor, n, s) = x + 1
  BY DEF NthFrom
<1> HIDE DEF m, x
<1>5. x \in 0..(m - 1) /\ m \in Nat
  BY <1>1, <1>3 DEF m, x
<1>6. x + 1 \in 1..m
  BY <1>5
<1> QED BY <1>4, <1>6 DEF m

\* The sweep, validator by validator.
SweepLimit(s) == Smaller(Len(s.validators), MaxValidatorsPerSweep)

SweepNext(s, n, x) ==
  LET i       == NthFrom(s.nextWithdrawalValidator, n - 1, s)
      v       == s.validators[i]
      balance == BalanceAfterWithdrawals(s, i, x)
      pay(amount) == Append(x, [validator |-> i, amount |-> amount])
  IN IF Len(x) >= MaxWithdrawalsPerPayload THEN x
     ELSE IF IsFullyWithdrawable(v, balance, CurrentEpoch(s)) THEN pay(balance)
     ELSE IF IsPartiallyWithdrawable(v, balance) THEN pay(balance - MaxEffective(v))
     ELSE x

IsSweep(s, f) ==
  f = [n \in 0..SweepLimit(s) |->
         IF n = 0 THEN PartialWithdrawals(s).payments ELSE SweepNext(s, n, f[n - 1])]

\* One validator of the sweep: what it pays is covered, on top of what its
\* partial withdrawals took.
LEMMA SweepNextType ==
  ASSUME NEW s \in RegistryState, Indexed(s), NEW n \in Nat \ {0},
         NEW x \in CoveredPayments(s)
  PROVE  SweepNext(s, n, x) \in CoveredPayments(s)
<1> DEFINE i == NthFrom(s.nextWithdrawalValidator, n - 1, s)
           v == s.validators[i]
           balance == BalanceAfterWithdrawals(s, i, x)
           paid(amount) == Append(x, [validator |-> i, amount |-> amount])
<1>1. i \in 1..Len(s.validators)
  <2>1. s.nextWithdrawalValidator \in Nat \ {0} /\ n - 1 \in Nat /\ Len(s.validators) # 0
    BY ValidatorFields DEF Indexed
  <2> QED BY <2>1, NthFromType
<1> HIDE DEF i
<1>2. v \in Validator /\ s.balances[i] \in Nat /\ MinActivationBalance \in Nat
      /\ MaxEffectiveBalance \in Nat /\ MinActivationBalance <= MaxEffectiveBalance
  BY <1>1, RegistryAssumption, BalanceAssumption, ValidatorFields DEF Indexed
<1>3. AmountFor(x, i) \in Nat /\ balance = s.balances[i] - AmountFor(x, i)
      /\ balance \in Int
  <2>1. x \in Seq(Payment)
    BY DEF CoveredPayments
  <2>2. [validator |-> 0, amount |-> 0] \in Payment
    BY DEF Payment
  <2>3. AmountFor(x, i) \in Nat
    BY <2>1, <2>2, PaymentAmounts, TotalAppend
  <2> QED BY <1>2, <2>3 DEF BalanceAfterWithdrawals, PaidTo
<1>4. CASE IsFullyWithdrawable(v, balance, CurrentEpoch(s))
  <2>1. v.withdrawable <= CurrentEpoch(s) /\ balance > 0
    BY <1>4 DEF IsFullyWithdrawable
  <2>2. Floor(s, i) = 0
    BY <2>1 DEF Floor
  <2> HIDE DEF balance
  <2>3. s.balances[i] - AmountFor(x, i) - balance >= Floor(s, i) /\ balance \in Nat
    BY <1>2, <1>3, <2>1, <2>2
  <2>4. paid(balance) \in CoveredPayments(s)
    BY <1>1, <2>3, CoveredAppend
  <2>5. SweepNext(s, n, x) \in {x, paid(balance)}
    BY <1>4 DEF SweepNext, i, balance
  <2> QED BY <2>4, <2>5
<1>5. CASE /\ ~IsFullyWithdrawable(v, balance, CurrentEpoch(s))
           /\ IsPartiallyWithdrawable(v, balance)
  <2> DEFINE m == MaxEffective(v)
             amount == balance - m
  <2>1. m \in Nat /\ m >= MinActivationBalance /\ balance > m
    BY <1>2, <1>5 DEF IsPartiallyWithdrawable, MaxEffective
  <2>2. MinActivationBalance >= Floor(s, i) /\ Floor(s, i) \in Nat
    BY <1>2 DEF Floor
  <2> HIDE DEF balance, m
  <2>3. amount \in Nat /\ s.balances[i] - AmountFor(x, i) - amount >= Floor(s, i)
    BY <1>2, <1>3, <2>1, <2>2
  <2> HIDE DEF amount
  <2>4. paid(amount) \in CoveredPayments(s)
    BY <1>1, <2>3, CoveredAppend
  <2>5. SweepNext(s, n, x) \in {x, paid(amount)}
    BY <1>5 DEF SweepNext, i, balance, amount, m
  <2> QED BY <2>4, <2>5
<1>6. CASE /\ ~IsFullyWithdrawable(v, balance, CurrentEpoch(s))
           /\ ~IsPartiallyWithdrawable(v, balance)
  BY <1>6 DEF SweepNext, i
<1> QED BY <1>4, <1>5, <1>6

\* get_expected_withdrawals as a recursion over the sweep; the payments stay
\* covered on the way.
LEMMA SweepRecursion ==
  ASSUME NEW s \in RegistryState, Indexed(s)
  PROVE  \E r : /\ SweepLimit(s) \in Nat
                /\ ExpectedWithdrawals(s) = r[SweepLimit(s)]
                /\ r[0] = PartialWithdrawals(s).payments
                /\ \A k \in 1..SweepLimit(s) : r[k] = SweepNext(s, k, r[k - 1])
                /\ \A k \in 0..SweepLimit(s) : r[k] \in CoveredPayments(s)
<1> DEFINE Z == CoveredPayments(s)
           n == SweepLimit(s)
           start == PartialWithdrawals(s).payments
           step == [p \in (1..n) \X Z |-> SweepNext(s, p[1], p[2])]
           r == CHOOSE f : IsSweep(s, f)
<1>1. n \in Nat
  <2>1. Len(s.validators) \in Nat /\ MaxValidatorsPerSweep \in Nat
    BY ValidatorFields, RegistryAssumption
  <2> QED BY <2>1 DEF SweepLimit, Smaller
<1>2. ExpectedWithdrawals(s) = r[n]
  BY DEF ExpectedWithdrawals, IsSweep, SweepLimit, SweepNext
<1> HIDE DEF n
<1>3. \A k \in 1..n : \A x \in Z : SweepNext(s, k, x) \in Z
  <2> TAKE k \in 1..n
  <2>1. k \in Nat \ {0}
    BY <1>1
  <2> QED BY <2>1, SweepNextType
<1>4. start \in Z
  BY PartialWithdrawalsType DEF PartialStates
<1> HIDE DEF Z, start
<1>5. Closed(step, n, Z)
  BY <1>3 DEF Closed
<1>6. PICK f \in [0..n -> Z] : Follows(f, start, step, n)
  <2> HIDE DEF step
  <2> QED BY <1>1, <1>4, <1>5, BoundedRecursion
<1>7. \A k \in 1..n : f[k] = SweepNext(s, k, f[k - 1])
  <2> TAKE k \in 1..n
  <2>1. k - 1 \in 0..n
    BY <1>1
  <2>2. f[k - 1] \in Z
    BY <1>6, <2>1
  <2> QED BY <1>6, <2>2 DEF Follows
<1>8. f[0] = start
  BY <1>6 DEF Follows
<1> HIDE DEF step
<1>9. IsSweep(s, f)
  <2> DEFINE g == [k \in 0..n |-> IF k = 0 THEN start ELSE SweepNext(s, k, f[k - 1])]
  <2>1. \A k \in 0..n : f[k] = g[k]
    <3> TAKE k \in 0..n
    <3>1. k = 0 \/ k \in 1..n
      BY <1>1
    <3> QED BY <1>7, <1>8, <3>1
  <2>2. f = g
    BY <1>6, <2>1
  <2> QED BY <2>2 DEF IsSweep, n, start
<1>10. IsSweep(s, r)
  BY <1>9
<1> HIDE DEF r
<1>11. r = [k \in 0..n |-> IF k = 0 THEN start ELSE SweepNext(s, k, r[k - 1])]
  BY <1>10 DEF IsSweep, n, start
<1>12. r[0] = start /\ \A k \in 1..n : r[k] = SweepNext(s, k, r[k - 1])
  <2>1. 0 \in 0..n /\ \A k \in 1..n : k \in 0..n /\ k # 0
    BY <1>1
  <2> QED BY <1>11, <2>1
<1>13. \A k \in 0..n : r[k] \in Z
  <2> DEFINE S == {k \in 0..n : r[k] \in Z}
  <2>1. 0 \in S
    BY <1>1, <1>4, <1>12
  <2>2. ASSUME NEW k \in 1..n, k - 1 \in S PROVE k \in S
    <3>1. k \in 0..n
      BY <1>1
    <3> QED BY <1>3, <1>12, <2>2, <3>1
  <2> HIDE DEF S
  <2>3. \A k \in 0..n : k \in S
    BY <1>1, <2>1, <2>2, BoundedInduction
  <2> QED BY <2>3 DEF S
<1> QED BY <1>1, <1>2, <1>12, <1>13 DEF Z, n, start

\* So the whole payload is covered.
LEMMA ExpectedWithdrawalsType ==
  ASSUME NEW s \in RegistryState, Indexed(s)
  PROVE  ExpectedWithdrawals(s) \in CoveredPayments(s)
<1>1. PICK r : /\ SweepLimit(s) \in Nat
               /\ ExpectedWithdrawals(s) = r[SweepLimit(s)]
               /\ \A k \in 0..SweepLimit(s) : r[k] \in CoveredPayments(s)
  BY SweepRecursion
<1> QED BY <1>1

\* What the payments of all validators add up to.
LEMMA PaymentsTotal ==
  ASSUME NEW n \in Nat, NEW p \in Seq(Payment), \A k \in DOMAIN p : p[k].validator \in 1..n
  PROVE  SumFunctionOnSet([i \in 1..n |-> AmountFor(p, i)], 1..n) = Total(p)
<1> DEFINE S == 1..Len(p)
           T == 1..n
           f == Amounts(p)
           h == [k \in S |-> p[k].validator]
           part == [i \in T |-> AmountFor(p, i)]
<1>1. /\ Len(p) \in Nat /\ DOMAIN p = S /\ IsFiniteSet(S) /\ DOMAIN f = S
      /\ \A k \in S : f[k] \in Nat
      /\ Total(p) = SumFunctionOnSet(f, S)
  BY PaymentAmounts, TotalIs
<1>2. \A k \in S : f[k] \in Int /\ h[k] \in T
  BY <1>1
<1>3. IsFiniteSet(T)
  BY FS_Interval
<1>4. \A i \in T : part[i] = SumFunctionOnSet(f, Fibre(S, h, i))
  <2> TAKE i \in T
  <2>1. {k \in DOMAIN p : p[k].validator = i} = Fibre(S, h, i)
    BY <1>1 DEF Fibre
  <2> QED BY <2>1 DEF AmountFor
<1> HIDE DEF S, T, f, h, part
<1>5. SumFunctionOnSet(part, T) = SumFunctionOnSet(f, S)
  <2>1. IsFiniteSet(S)
    BY <1>1
  <2> QED BY ONLY <2>1, <1>2, <1>3, <1>4, SumFibres
<1> QED BY <1>1, <1>5 DEF part, T

\* A block takes from the queue what it has seen to, pays what every balance
\* has, and leaves the rest of the state alone.
WithdrawalsStep(s, t) ==
  t = [s EXCEPT !.balances = t.balances,
                !.pendingPartialWithdrawals = t.pendingPartialWithdrawals,
                !.nextWithdrawalValidator = t.nextWithdrawalValidator]

\* The cursor is left at a validator.
LEMMA CursorType ==
  ASSUME NEW s \in RegistryState, Indexed(s)
  PROVE  CursorAfter(s, ExpectedWithdrawals(s)) \in 1..Len(s.validators)
<1> DEFINE p == ExpectedWithdrawals(s)
           n == Len(s.validators)
<1>1. n \in Nat \ {0} /\ s.nextWithdrawalValidator \in Nat \ {0}
  BY ValidatorFields DEF Indexed
<1>2. MaxValidatorsPerSweep \in Nat /\ MaxWithdrawalsPerPayload \in Nat \ {0}
  BY RegistryAssumption
<1>3. CASE Len(p) = MaxWithdrawalsPerPayload
  <2>1. p \in Seq(Payment) /\ \A k \in DOMAIN p : p[k].validator \in 1..n
    BY ExpectedWithdrawalsType DEF CoveredPayments
  <2> HIDE DEF p
  <2>2. Len(p) \in DOMAIN p
    BY <1>2, <1>3, <2>1
  <2>3. p[Len(p)].validator \in Nat \ {0}
    BY <1>1, <2>1, <2>2
  <2>4. NthFrom(p[Len(p)].validator, 1, s) \in 1..n
    BY <1>1, <2>3, NthFromType
  <2> QED BY <1>3, <2>4 DEF CursorAfter, p
<1>4. CASE Len(p) # MaxWithdrawalsPerPayload
  <2>1. NthFrom(s.nextWithdrawalValidator, MaxValidatorsPerSweep, s) \in 1..n
    BY <1>1, <1>2, NthFromType
  <2> HIDE DEF p
  <2> QED BY <1>4, <2>1 DEF CursorAfter, p
<1> QED BY <1>3, <1>4

\* process_withdrawals on a sound state: no balance underflows.
LEMMA WithdrawalsSound ==
  ASSUME NEW s, Sound(s)
  PROVE  LET t == ProcessWithdrawals(s)
             p == ExpectedWithdrawals(s)
             queue == s.pendingPartialWithdrawals
         IN /\ Sound(t) /\ WithdrawalsStep(s, t)
            /\ \E c \in 0..Len(queue) :
                 t.pendingPartialWithdrawals = SubSeq(queue, c + 1, Len(queue))
            /\ Worth(t) = Worth(s) - Total(p)
<1> DEFINE t == ProcessWithdrawals(s)
           p == ExpectedWithdrawals(s)
           queue == s.pendingPartialWithdrawals
           n == Len(s.validators)
           c == PartialWithdrawals(s).processed
           cursor == CursorAfter(s, p)
           left == SubSeq(queue, c + 1, Len(queue))
           b == [i \in DOMAIN s.balances |-> SaturatingSub(s.balances[i], PaidTo(p, i))]
<1>1. s \in RegistryState /\ Indexed(s) /\ \A i \in 1..n : Fit(s.validators[i])
  BY DEF Sound
<1>2. /\ n \in Nat /\ Len(s.balances) = n /\ s.balances \in Seq(Nat)
      /\ DOMAIN s.balances = 1..n /\ \A i \in 1..n : s.balances[i] \in Nat
  BY <1>1, ValidatorFields DEF Indexed
<1>3. queue \in Seq(PartialWithdrawal)
  BY <1>1 DEF RegistryState
<1>4. c \in 0..Len(queue)
  BY <1>1, PartialWithdrawalsType DEF PartialStates
<1>5. cursor \in 1..n
  BY <1>1, CursorType
<1>6. p \in CoveredPayments(s)
  BY <1>1, ExpectedWithdrawalsType
<1>7. t = [s EXCEPT !.balances = b, !.pendingPartialWithdrawals = left,
                    !.nextWithdrawalValidator = cursor]
  BY DEF ProcessWithdrawals
<1>8. /\ p \in Seq(Payment) /\ \A k \in DOMAIN p : p[k].validator \in 1..n
      /\ \A i \in 1..n : AmountFor(p, i) <= s.balances[i]
  BY <1>6 DEF CoveredPayments
<1> HIDE DEF c, cursor, t
<1>9. \A i : AmountFor(p, i) \in Nat
  <2> HIDE DEF p
  <2>2. [validator |-> 0, amount |-> 0] \in Payment
    BY DEF Payment
  <2> QED BY <1>8, <2>2, PaymentAmounts, TotalAppend
<1> HIDE DEF p
<1>10. \A i \in 1..n : b[i] \in Nat /\ s.balances[i] = b[i] + AmountFor(p, i)
  <2> TAKE i \in 1..n
  <2>1. b[i] = SaturatingSub(s.balances[i], AmountFor(p, i))
    BY <1>2 DEF PaidTo
  <2>2. AmountFor(p, i) \in Nat /\ s.balances[i] \in Nat /\ AmountFor(p, i) <= s.balances[i]
    BY <1>2, <1>8, <1>9
  <2> HIDE DEF b
  <2> QED BY <2>1, <2>2, LargerSmaller DEF SaturatingSub
<1>11. b \in Seq(Nat) /\ Len(b) = n
  <2>1. b = [i \in 1..n |-> b[i]]
    BY <1>2
  <2> HIDE DEF b
  <2> QED BY <1>2, <1>10, <2>1, SequenceOf
<1>12. SumFunction(s.balances) = SumFunction(b) + Total(p)
  <2> DEFINE part == [i \in 1..n |-> AmountFor(p, i)]
             S == 1..n
  <2>1. SumFunctionOnSet(part, S) = Total(p)
    BY <1>2, <1>8, PaymentsTotal
  <2>2. /\ SumFunction(b) = SumFunctionOnSet(b, S)
        /\ SumFunction(s.balances) = SumFunctionOnSet(s.balances, S)
        /\ IsFiniteSet(S)
    BY <1>2, <1>11, BalanceSum
  <2>3. \A i \in S : b[i] \in Int /\ part[i] \in Int /\ s.balances[i] = b[i] + part[i]
    <3> HIDE DEF b
    <3> QED BY <1>9, <1>10
  <2> HIDE DEF b, part, S
  <2>4. SumFunctionOnSet(s.balances, S) = SumFunctionOnSet(b, S) + SumFunctionOnSet(part, S)
    BY <2>2, <2>3, SumAdd
  <2> QED BY <2>1, <2>2, <2>4
<1>13. left \in Seq(PartialWithdrawal) /\ Len(left) = Len(queue) - c
       /\ \A k \in 1..(Len(queue) - c) : left[k] = queue[c + k]
  <2> HIDE DEF queue
  <2> QED BY <1>3, <1>4, SequenceTail
<1> HIDE DEF b, left
<1>14. /\ t \in RegistryState /\ t.balances = b /\ t.pendingPartialWithdrawals = left
       /\ t.nextWithdrawalValidator = cursor
       /\ t.validators = s.validators /\ t.pendingDeposits = s.pendingDeposits
       /\ t.pendingConsolidations = s.pendingConsolidations
  <2>1. cursor \in Nat
    BY <1>2, <1>5
  <2> QED BY <1>1, <1>7, <1>11, <1>13, <2>1 DEF RegistryState
<1>15. \A k \in DOMAIN left : left[k].validator \in 1..n
  <2> TAKE k \in DOMAIN left
  <2>1. DOMAIN queue = 1..Len(queue) /\ Len(queue) \in Nat
    BY <1>3, SequenceFacts
  <2>2. k \in 1..(Len(queue) - c)
    BY <1>13, SequenceFacts
  <2>3. c + k \in DOMAIN queue
    BY <1>4, <2>1, <2>2
  <2> QED BY <1>1, <1>13, <2>2, <2>3 DEF Indexed
<1>16. Sound(t)
  BY <1>1, <1>2, <1>5, <1>11, <1>14, <1>15 DEF Sound, Indexed
<1>17. WithdrawalsStep(s, t)
  BY <1>7, <1>14 DEF WithdrawalsStep
<1>18. Worth(t) = Worth(s) - Total(p)
  <2> DEFINE x == SumFunction(b)
             y == SumFunction(s.balances)
             z == Total(s.pendingDeposits)
             w == Total(p)
  <2>1. x \in Nat /\ y \in Nat
    BY <1>2, <1>11, BalanceSum
  <2>2. z \in Nat /\ w \in Nat
    <3>1. s.pendingDeposits \in Seq(Deposit)
      BY <1>1 DEF RegistryState
    <3> QED BY <1>8, <3>1, TotalIs, PaymentAmounts, DepositAmounts
  <2>3. Worth(t) = x + z /\ Worth(s) = y + z
    BY <1>14 DEF Worth, Total
  <2>4. y = x + w
    BY <1>12
  <2> HIDE DEF x, y, z, w
  <2>5. x + z = (y + z) - w
    BY <2>1, <2>2, <2>4
  <2> QED BY <2>3, <2>5 DEF w
<1> QED
  <2>1. \E d \in 0..Len(queue) :
          t.pendingPartialWithdrawals = SubSeq(queue, d + 1, Len(queue))
    BY <1>4, <1>14 DEF left
  <2> QED BY <1>16, <1>17, <1>18, <2>1 DEF t, p

\* StakeKept of a typed state: what the payments leave.
LEMMA StakeIsKept ==
  ASSUME Sound(state)
  PROVE  StakeKept
<1> DEFINE p == ExpectedWithdrawals(state)
<1>1. p \in CoveredPayments(state)
  BY ExpectedWithdrawalsType DEF Sound
<1>2. Known = 1..Len(state.validators)
  BY ValidatorFields DEF Sound, Known
<1> HIDE DEF p
<1>3. \A i \in Known : PaidTo(p, i) # 0 => state.balances[i] - PaidTo(p, i) >= Floor(state, i)
  BY <1>1, <1>2 DEF CoveredPayments, PaidTo
<1> QED BY <1>3 DEF StakeKept, p, Floor

---------------------------------------------------------------------------
(* The operations of a block on a sound state.                              *)

\* A step that leaves the queues and the number of validators alone.
LEMMA SoundRewritten ==
  ASSUME NEW s, Sound(s), NEW t \in RegistryState,
         Len(t.validators) = Len(s.validators), Len(t.balances) = Len(s.balances),
         t.nextWithdrawalValidator = s.nextWithdrawalValidator,
         t.pendingDeposits = s.pendingDeposits,
         t.pendingPartialWithdrawals = s.pendingPartialWithdrawals,
         t.pendingConsolidations = s.pendingConsolidations,
         \A i \in 1..Len(s.validators) : Fit(t.validators[i])
  PROVE  Sound(t)
  BY DEF Sound, Indexed

\* An exit or a slashing leaves the effective balance as it is.
LEMMA ScheduledFit ==
  ASSUME NEW v \in Validator, NEW epoch, Fit(v)
  PROVE  Fit(Scheduled(v, epoch)) /\ Fit(Slashed(v, epoch))
  BY DEF Fit, Scheduled, Slashed, MaxEffective, Validator

\* initiate_validator_exit on a sound state.
LEMMA ExitSound ==
  ASSUME NEW s, Sound(s), NEW i \in 1..Len(s.validators)
  PROVE  LET t == InitiateExit(s, i)
         IN /\ Sound(t)
            /\ t = [s EXCEPT !.validators = t.validators,
                             !.exitBalanceToConsume = t.exitBalanceToConsume,
                             !.earliestExitEpoch = t.earliestExitEpoch]
<1> DEFINE t == InitiateExit(s, i)
           n == Len(s.validators)
           v == s.validators[i]
<1>1. s \in RegistryState /\ \A k \in 1..n : Fit(s.validators[k])
  BY DEF Sound
<1>2. /\ s.validators \in Seq(Validator) /\ n \in Nat
      /\ \A k \in 1..n : s.validators[k] \in Validator
  BY <1>1, ValidatorFields DEF RegistryState
<1> HIDE DEF t
<1>3. /\ t \in RegistryState
      /\ Exiting(v) => t = s
      /\ ~Exiting(v) =>
           t.validators = [s.validators EXCEPT ![i] = Scheduled(@, t.earliestExitEpoch)]
      /\ Len(t.validators) = n
      /\ t = [s EXCEPT !.validators = t.validators,
                       !.exitBalanceToConsume = t.exitBalanceToConsume,
                       !.earliestExitEpoch = t.earliestExitEpoch]
  BY <1>1, InitiateExitType DEF t
<1>4. /\ t.nextWithdrawalValidator = s.nextWithdrawalValidator
      /\ t.pendingDeposits = s.pendingDeposits
      /\ t.pendingPartialWithdrawals = s.pendingPartialWithdrawals
      /\ t.pendingConsolidations = s.pendingConsolidations
      /\ t.balances = s.balances
      /\ t.earliestExitEpoch \in Nat
  BY <1>1, <1>3 DEF RegistryState
<1>5. ASSUME NEW k \in 1..n PROVE Fit(t.validators[k])
  <2>1. CASE Exiting(v)
    BY <1>1, <1>3, <2>1
  <2>2. CASE ~Exiting(v)
    <3> DEFINE w == Scheduled(v, t.earliestExitEpoch)
    <3>1. w \in Validator /\ Fit(w)
      BY <1>1, <1>2, <1>4, ScheduledType, ScheduledFit
    <3>2. t.validators = [s.validators EXCEPT ![i] = w]
      BY <1>3, <2>2
    <3> HIDE DEF w
    <3>3. t.validators[k] = IF k = i THEN w ELSE s.validators[k]
      BY <1>2, <3>1, <3>2, SequenceReplace
    <3> QED BY <1>1, <3>1, <3>3
  <2> QED BY <2>1, <2>2
<1>6. Sound(t)
  BY <1>3, <1>4, <1>5, SoundRewritten
<1> QED BY <1>3, <1>6 DEF t

\* slash_validator on a sound state: the value lost is what is not paid on.
LEMMA SlashSound ==
  ASSUME NEW s, Sound(s), NEW i \in 1..Len(s.validators), NEW j \in 1..Len(s.validators)
  PROVE  LET t == Slash(s, i, j)
             v == s.validators[i]
         IN /\ Sound(t)
            /\ t.slot = s.slot /\ t.finalizedEpoch = s.finalizedEpoch
            /\ t.pendingDeposits = s.pendingDeposits
            /\ t.depositBalanceToConsume = s.depositBalanceToConsume
            /\ Worth(t) = Worth(s) - Smaller(s.balances[i], SlashingPenalty(v))
                            + WhistleblowerReward(v)
<1> DEFINE x == InitiateExit(s, i)
           t == Slash(s, i, j)
           n == Len(s.validators)
           v == s.validators[i]
           b == s.balances
           fine == SlashingPenalty(v)
           reward == WhistleblowerReward(v)
           rest == SaturatingSub(b[i], fine)
           paid == [b EXCEPT ![i] = SaturatingSub(@, fine)]
           epoch == CurrentEpoch(s)
<1>1. s \in RegistryState /\ Indexed(s) /\ \A k \in 1..n : Fit(s.validators[k])
  BY DEF Sound
<1>2. /\ n \in Nat /\ Len(b) = n /\ b \in Seq(Nat) /\ b[i] \in Nat
  BY <1>1, ValidatorFields DEF Indexed
<1>3. /\ Sound(x)
      /\ x = [s EXCEPT !.validators = x.validators,
                       !.exitBalanceToConsume = x.exitBalanceToConsume,
                       !.earliestExitEpoch = x.earliestExitEpoch]
  <2> HIDE DEF x
  <2> QED BY ExitSound DEF x
<1> HIDE DEF x, t
<1>4. /\ t \in RegistryState
      /\ t.validators = [x.validators EXCEPT ![i] = Slashed(@, epoch)]
      /\ Len(t.validators) = n
      /\ paid \in Seq(Nat) /\ Len(paid) = Len(b)
      /\ fine \in Nat /\ reward \in Nat
      /\ t.balances = [paid EXCEPT ![j] = @ + reward]
      /\ Len(t.balances) = Len(b)
      /\ t = [x EXCEPT !.validators = t.validators, !.balances = t.balances,
                       !.slashings = t.slashings]
  <2> HIDE DEF paid, fine, reward, epoch, v, b, n
  <2>1. t \in RegistryState /\ SlashStep(s, x, t, i, j)
    BY <1>1, <1>2, SlashType DEF x, t, n, b
  <2> QED BY <2>1 DEF SlashStep, paid, fine, reward, epoch, v, b, n
<1>5. /\ t.nextWithdrawalValidator = s.nextWithdrawalValidator
      /\ t.pendingDeposits = s.pendingDeposits
      /\ t.pendingPartialWithdrawals = s.pendingPartialWithdrawals
      /\ t.pendingConsolidations = s.pendingConsolidations
      /\ t.slot = s.slot /\ t.finalizedEpoch = s.finalizedEpoch
      /\ t.depositBalanceToConsume = s.depositBalanceToConsume
  <2>1. /\ x \in RegistryState
        /\ x.nextWithdrawalValidator = s.nextWithdrawalValidator
        /\ x.pendingDeposits = s.pendingDeposits
        /\ x.pendingPartialWithdrawals = s.pendingPartialWithdrawals
        /\ x.pendingConsolidations = s.pendingConsolidations
        /\ x.slot = s.slot /\ x.finalizedEpoch = s.finalizedEpoch
        /\ x.depositBalanceToConsume = s.depositBalanceToConsume
    BY <1>1, <1>3 DEF RegistryState, Sound
  <2>2. t = [x EXCEPT !.validators = t.validators, !.balances = t.balances,
                      !.slashings = t.slashings]
    BY <1>4
  <2> QED BY <2>1, <2>2 DEF RegistryState
<1>6. ASSUME NEW k \in 1..n PROVE Fit(t.validators[k])
  <2> DEFINE u == x.validators[i]
             w == Slashed(u, epoch)
  <2>1. x \in RegistryState
    BY <1>3 DEF Sound
  <2>2. Len(x.validators) = n /\ x.validators \in Seq(Validator)
        /\ \A m \in 1..n : Fit(x.validators[m])
    <3>1. Len(x.validators) = n
      BY <1>1, InitiateExitType DEF x
    <3> QED BY <1>3, <2>1, <3>1 DEF Sound, RegistryState
  <2>3. u \in Validator /\ Fit(u)
    BY <2>2
  <2>4. epoch \in Nat
    BY <1>1, EpochNat
  <2>5. w \in Validator /\ Fit(w)
    BY <2>3, <2>4, SlashedType, ScheduledFit
  <2>6. t.validators = [x.validators EXCEPT ![i] = w]
    BY <1>4
  <2> HIDE DEF w
  <2>7. t.validators[k] = IF k = i THEN w ELSE x.validators[k]
    BY <2>2, <2>5, <2>6, SequenceReplace
  <2> QED BY <2>2, <2>5, <2>7
<1>7. Sound(t)
  BY <1>4, <1>5, <1>6, SoundRewritten
<1>8. SumFunction(t.balances) = (SumFunction(b) - Smaller(b[i], fine)) + reward
      /\ SumFunction(b) \in Nat /\ Smaller(b[i], fine) \in Nat
  <2>1. rest \in Nat /\ Smaller(b[i], fine) \in Nat /\ b[i] - rest = Smaller(b[i], fine)
    <3>1. b[i] \in Nat /\ fine \in Nat
      BY <1>2, <1>4
    <3> HIDE DEF b, fine
    <3> QED BY <3>1 DEF SaturatingSub, Smaller, rest
  <2>2. paid = [b EXCEPT ![i] = rest]
    BY <1>2
  <2> HIDE DEF rest, paid
  <2>3. SumFunction(paid) = SumFunction(b) - b[i] + rest /\ SumFunction(b) \in Nat
    BY <1>2, <2>1, <2>2, SumOfReplaced
  <2> DEFINE e == paid[j] + reward
  <2>4. e \in Nat /\ paid[j] \in Nat
    <3>1. paid \in Seq(Nat) /\ j \in 1..Len(paid) /\ reward \in Nat
      BY <1>2, <1>4
    <3>2. paid[j] \in Nat
      BY <3>1, SequenceFacts
    <3> HIDE DEF reward
    <3> QED BY <3>1, <3>2
  <2>5. t.balances = [paid EXCEPT ![j] = e]
    BY <1>4
  <2>6. j \in 1..Len(paid)
    BY <1>2, <1>4
  <2> HIDE DEF e
  <2>7. SumFunction(t.balances) = SumFunction(paid) - paid[j] + e
        /\ SumFunction(paid) \in Nat
    BY <1>4, <2>4, <2>5, <2>6, SumOfReplaced
  <2> DEFINE m == Smaller(b[i], fine)
             x0 == SumFunction(b)
             x1 == SumFunction(paid)
             x2 == SumFunction(t.balances)
             y == paid[j]
             bi == b[i]
  <2>8. /\ x0 \in Nat /\ y \in Nat /\ reward \in Nat /\ bi \in Nat /\ m \in Nat /\ rest \in Nat
        /\ x1 = (x0 - bi) + rest /\ bi - rest = m /\ x2 = (x1 - y) + (y + reward)
    <3>1. x2 = (x1 - y) + (y + reward)
      BY <2>7 DEF e
    <3> QED BY <1>2, <1>4, <2>1, <2>3, <2>4, <3>1
  <2> HIDE DEF x0, x1, x2, y, m, bi, reward
  <2>9. x2 = (x0 - m) + reward
    BY <2>8
  <2> QED BY <2>8, <2>9 DEF x0, x2, m
<1>9. Worth(t) = Worth(s) - Smaller(b[i], fine) + reward
  <2> DEFINE y == SumFunction(b)
             z == Total(s.pendingDeposits)
             loss == Smaller(b[i], fine)
  <2>1. z \in Nat
    <3>1. s.pendingDeposits \in Seq(Deposit)
      BY <1>1 DEF RegistryState
    <3> QED BY <3>1, TotalIs, DepositAmounts
  <2>2. Worth(t) = ((y - loss) + reward) + z /\ Worth(s) = y + z
    BY <1>5, <1>8 DEF Worth, Total
  <2>3. y \in Nat /\ loss \in Nat /\ reward \in Nat
    BY <1>4, <1>8
  <2> HIDE DEF y, z, loss, reward
  <2>4. ((y - loss) + reward) + z = (y + z) - loss + reward
    BY <2>1, <2>3
  <2> QED BY <2>2, <2>4 DEF loss
<1> QED BY <1>5, <1>7, <1>9 DEF t

\* The value of a state is a natural number.
LEMMA WorthNat ==
  ASSUME NEW s, Sound(s)
  PROVE  /\ Worth(s) = SumFunction(s.balances) + Total(s.pendingDeposits)
         /\ SumFunction(s.balances) \in Nat /\ Total(s.pendingDeposits) \in Nat
         /\ Worth(s) \in Nat
<1>1. s.pendingDeposits \in Seq(Deposit) /\ s.balances \in Seq(Nat)
  BY DEF Sound, RegistryState
<1>2. SumFunction(s.balances) \in Nat
  BY <1>1, BalanceSum
<1>3. Total(s.pendingDeposits) \in Nat
  BY <1>1, TotalIs, DepositAmounts
<1> QED BY <1>2, <1>3 DEF Worth, Total

\* A deposit joins the end of the queue.
LEMMA DepositQueued ==
  ASSUME NEW s, Sound(s), NEW d \in Deposit, d.validator <= Len(s.validators) + 1,
         NEW q, q = Append(s.pendingDeposits, d)
  PROVE  /\ q \in Seq(Deposit)
         /\ \A k \in DOMAIN q : q[k].validator <= Len(s.validators) + 1
         /\ Total(q) = Total(s.pendingDeposits) + d.amount
         /\ q # <<>>
         /\ s.pendingDeposits # <<>> => Head(q) = Head(s.pendingDeposits)
<1> DEFINE p == s.pendingDeposits
<1>1. p \in Seq(Deposit) /\ \A k \in DOMAIN p : p[k].validator <= Len(s.validators) + 1
  BY DEF Sound, RegistryState, Indexed
<1>2. q \in Seq(Deposit) /\ Len(q) = Len(p) + 1 /\ q[Len(p) + 1] = d
      /\ \A k \in 1..Len(p) : q[k] = p[k]
  BY <1>1, SequenceAppend
<1>3. Total(q) = Total(p) + d.amount
  BY <1>1, DepositAmounts, TotalAppend
<1>4. DOMAIN p = 1..Len(p) /\ DOMAIN q = 1..(Len(p) + 1) /\ Len(p) \in Nat
  BY <1>1, <1>2, SequenceFacts
<1>5. \A k \in DOMAIN q : q[k].validator <= Len(s.validators) + 1
  <2> TAKE k \in DOMAIN q
  <2>1. k \in 1..Len(p) \/ k = Len(p) + 1
    BY <1>4
  <2> QED BY <1>1, <1>2, <1>4, <2>1
<1>6. q # <<>>
  BY <1>2, <1>4
<1>7. p # <<>> => Head(q) = Head(p)
  <2> SUFFICES ASSUME p # <<>> PROVE Head(q) = Head(p)
    OBVIOUS
  <2>1. 1 \in 1..Len(p)
    BY <1>1, <1>4
  <2>2. Head(q) = q[1] /\ Head(p) = p[1]
    BY <1>1, <1>2, <1>6
  <2> QED BY <1>2, <2>1, <2>2
<1> QED BY <1>2, <1>3, <1>5, <1>6, <1>7

\* The operations that write neither balances nor deposits.
LEMMA WorthSame ==
  ASSUME NEW s, NEW t, t.balances = s.balances, t.pendingDeposits = s.pendingDeposits,
         t.depositBalanceToConsume = s.depositBalanceToConsume
  PROVE  Worth(t) = Worth(s) /\ (BudgetOf(s) => BudgetOf(t))
  BY DEF Worth, BudgetOf

\* switch_to_compounding_validator on a sound state.
LEMMA SwitchSound ==
  ASSUME NEW s, Sound(s), NEW i \in 1..Len(s.validators)
  PROVE  LET t == SwitchToCompounding(s, i)
         IN /\ Sound(t) /\ t.slot = s.slot /\ t.finalizedEpoch = s.finalizedEpoch
            /\ Worth(t) = Worth(s)
            /\ BudgetOf(s) => BudgetOf(t)
<1> DEFINE t == SwitchToCompounding(s, i)
           n == Len(s.validators)
           excess == SaturatingSub(s.balances[i], MinActivationBalance)
           deposit == [validator |-> i, credential |-> "compounding", amount |-> excess,
                       signed |-> FALSE, slot |-> 0]
           v == [s.validators[i] EXCEPT !.credential = "compounding"]
<1>1. s \in RegistryState /\ Indexed(s) /\ \A k \in 1..n : Fit(s.validators[k])
  BY DEF Sound
<1>2. /\ n \in Nat /\ Len(s.balances) = n /\ n <= MaxValidators
      /\ s.validators \in Seq(Validator) /\ s.balances \in Seq(Nat)
      /\ \A k \in 1..n : s.validators[k] \in Validator
      /\ MinActivationBalance \in Nat /\ MaxEffectiveBalance \in Nat
      /\ MinActivationBalance <= MaxEffectiveBalance
  BY <1>1, ValidatorFields, RegistryAssumption, BalanceAssumption DEF Indexed, RegistryState
<1> HIDE DEF t, excess, deposit
<1>3. /\ t \in RegistryState
      /\ t.validators = [s.validators EXCEPT ![i] = v]
      /\ Len(t.validators) = n
      /\ deposit \in Deposit /\ excess \in Nat
      /\ excess = 0 => t.balances = s.balances /\ t.pendingDeposits = s.pendingDeposits
      /\ excess # 0 =>
           /\ t.balances = [s.balances EXCEPT ![i] = MinActivationBalance]
           /\ t.pendingDeposits = Append(s.pendingDeposits, deposit)
           /\ s.balances[i] = MinActivationBalance + excess
      /\ Len(t.balances) = n
      /\ t = [s EXCEPT !.validators = t.validators, !.balances = t.balances,
                       !.pendingDeposits = t.pendingDeposits]
  BY <1>1, <1>2, SwitchType DEF t, excess, deposit
<1>4. /\ t.nextWithdrawalValidator = s.nextWithdrawalValidator
      /\ t.pendingPartialWithdrawals = s.pendingPartialWithdrawals
      /\ t.pendingConsolidations = s.pendingConsolidations
      /\ t.slot = s.slot /\ t.finalizedEpoch = s.finalizedEpoch
      /\ t.depositBalanceToConsume = s.depositBalanceToConsume
  BY <1>1, <1>3 DEF RegistryState
<1>5. ASSUME NEW k \in 1..n PROVE Fit(t.validators[k])
  <2>1. v \in Validator /\ Fit(v)
    <3>1. s.validators[i] \in Validator /\ Fit(s.validators[i])
      BY <1>1, <1>2
    <3>2. v \in Validator /\ v.effectiveBalance = s.validators[i].effectiveBalance
          /\ v.credential = "compounding" /\ v.effectiveBalance \in Nat
      BY <3>1 DEF Validator
    <3> HIDE DEF v
    <3> QED BY <1>2, <3>1, <3>2 DEF Fit, MaxEffective
  <2> HIDE DEF v
  <2>2. t.validators[k] = IF k = i THEN v ELSE s.validators[k]
    BY <1>2, <1>3, <2>1, SequenceReplace
  <2> QED BY <1>1, <2>1, <2>2
<1>6. CASE excess = 0
  <2>1. Sound(t)
    BY <1>2, <1>3, <1>4, <1>5, <1>6, SoundRewritten
  <2> QED BY <1>3, <1>4, <1>6, <2>1, WorthSame DEF t
<1>7. CASE excess # 0
  <2>1. deposit.validator = i /\ deposit.amount = excess
    BY DEF deposit
  <2>2. /\ \A k \in DOMAIN t.pendingDeposits : t.pendingDeposits[k].validator <= n + 1
        /\ Total(t.pendingDeposits) = Total(s.pendingDeposits) + excess
        /\ t.pendingDeposits # <<>>
        /\ s.pendingDeposits # <<>> => Head(t.pendingDeposits) = Head(s.pendingDeposits)
    <3>1. deposit.validator <= n + 1
      BY <1>2, <2>1
    <3>2. deposit \in Deposit /\ t.pendingDeposits = Append(s.pendingDeposits, deposit)
      BY <1>3, <1>7
    <3> DEFINE q == t.pendingDeposits
    <3> HIDE DEF q, n
    <3>3. q = Append(s.pendingDeposits, deposit)
      BY <3>2 DEF q
    <3>4. /\ \A k \in DOMAIN q : q[k].validator <= n + 1
          /\ Total(q) = Total(s.pendingDeposits) + deposit.amount
          /\ q # <<>>
          /\ s.pendingDeposits # <<>> => Head(q) = Head(s.pendingDeposits)
      BY <3>1, <3>2, <3>3, DepositQueued DEF n
    <3> QED BY <2>1, <3>4 DEF q
  <2>3. Sound(t)
    BY <1>1, <1>2, <1>3, <1>4, <1>5, <2>2 DEF Sound, Indexed
  <2>4. Worth(t) = Worth(s)
    <3>1. SumFunction(t.balances) = SumFunction(s.balances) - s.balances[i] + MinActivationBalance
          /\ s.balances[i] \in Nat
      <4>1. t.balances = [s.balances EXCEPT ![i] = MinActivationBalance]
        BY <1>3, <1>7
      <4>2. s.balances \in Seq(Nat) /\ i \in 1..Len(s.balances) /\ MinActivationBalance \in Nat
        BY <1>2
      <4> QED BY ONLY <4>1, <4>2, SumOfReplaced
    <3>2. SumFunction(t.balances) = SumFunction(s.balances) - excess
      <4>1. SumFunction(s.balances) \in Nat
        BY WorthNat
      <4> QED BY <1>2, <1>3, <1>7, <3>1, <4>1
    <3>3. /\ Worth(t) = SumFunction(t.balances) + Total(t.pendingDeposits)
          /\ Worth(s) = SumFunction(s.balances) + Total(s.pendingDeposits)
          /\ SumFunction(s.balances) \in Nat /\ Total(s.pendingDeposits) \in Nat
      BY <2>3, WorthNat
    <3> QED BY <1>3, <2>2, <3>2, <3>3
  <2>5. BudgetOf(s) => BudgetOf(t)
    BY <1>4, <2>2 DEF BudgetOf
  <2> QED BY <1>4, <2>3, <2>4, <2>5 DEF t
<1> QED BY <1>6, <1>7

---------------------------------------------------------------------------
(* The inductive invariant. *)

RegistryInv ==
  /\ Sound(state)
  /\ state.slot <= MaxSlot
  /\ state.finalizedEpoch <= CurrentEpoch(state)
  /\ stage \in 0..7
  /\ supply = Worth(state)
  /\ BudgetOf(state)

\* An operation leaves a stage of the block.
LEMMA OneStage ==
  ASSUME NEW kind \in 1..7, Operation(kind)
  PROVE  stage' \in 0..7
  BY DEF Operation

\* A new slot keeps the invariant.
LEMMA NextSlotInv ==
  ASSUME RegistryInv, NextSlot
  PROVE  RegistryInv'
<1> DEFINE s == state
           t == state'
<1>1. s \in RegistryState
  BY DEF RegistryInv, Sound
<1>2. t = [s EXCEPT !.slot = @ + 1] /\ s.slot < MaxSlot /\ stage' = 0 /\ supply' = supply
  BY DEF NextSlot, history
<1>3. s.slot \in Nat /\ MaxSlot \in Nat /\ SlotsPerEpoch \in Nat \ {0}
  BY <1>1, RegistryAssumption DEF RegistryState
<1>4. /\ t \in RegistryState /\ t.slot = s.slot + 1
      /\ t.finalizedEpoch = s.finalizedEpoch
      /\ t.validators = s.validators /\ t.balances = s.balances
      /\ t.nextWithdrawalValidator = s.nextWithdrawalValidator
      /\ t.pendingDeposits = s.pendingDeposits
      /\ t.pendingPartialWithdrawals = s.pendingPartialWithdrawals
      /\ t.pendingConsolidations = s.pendingConsolidations
      /\ t.depositBalanceToConsume = s.depositBalanceToConsume
  <2> DEFINE c == s.slot + 1
  <2>1. c \in Nat /\ t = [s EXCEPT !.slot = c]
    BY <1>2, <1>3
  <2> HIDE DEF c, s, t
  <2>2. t \in RegistryState /\ t.slot = c /\ t = [s EXCEPT !.slot = c]
    BY <1>1, <2>1 DEF RegistryState
  <2> QED BY <1>1, <2>2 DEF RegistryState, c
<1> HIDE DEF s, t
<1>5. Sound(t)
  BY <1>4, SoundRewritten DEF RegistryInv, Sound, s
<1>6. CurrentEpoch(t) >= CurrentEpoch(s) /\ CurrentEpoch(t) \in Nat /\ CurrentEpoch(s) \in Nat
  <2>1. (s.slot + 1) \div SlotsPerEpoch >= s.slot \div SlotsPerEpoch
    BY <1>3
  <2> QED BY <1>1, <1>4, <2>1, EpochNat DEF CurrentEpoch, s
<1>7. t.finalizedEpoch <= CurrentEpoch(t) /\ t.slot <= MaxSlot
  <2>1. s.finalizedEpoch <= CurrentEpoch(s) /\ s.finalizedEpoch \in Nat
    BY <1>1 DEF RegistryInv, RegistryState, s
  <2> QED BY <1>2, <1>3, <1>4, <1>6, <2>1 DEF s
<1>8. Worth(t) = Worth(s) /\ BudgetOf(t)
  BY <1>4, WorthSame DEF RegistryInv, s
<1> QED BY <1>2, <1>5, <1>7, <1>8 DEF RegistryInv, s, t

\* What an operation of a block has to show of the state it leaves.
LEMMA OperationInv ==
  ASSUME RegistryInv, Sound(state'), stage' \in 0..7,
         state'.slot = state.slot, state'.finalizedEpoch = state.finalizedEpoch,
         supply' = Worth(state'), BudgetOf(state')
  PROVE  RegistryInv'
<1>1. CurrentEpoch(state') = CurrentEpoch(state)
  BY DEF CurrentEpoch
<1> QED BY <1>1 DEF RegistryInv

\* So does an operation that initiates an exit,
LEMMA ExitInv ==
  ASSUME RegistryInv, NEW i \in Known, NEW kind \in 1..7, Operation(kind),
         state' = InitiateExit(state, i), supply' = supply
  PROVE  RegistryInv'
<1>1. /\ Sound(state') /\ state \in RegistryState
      /\ state' = [state EXCEPT !.validators = state'.validators,
                                !.exitBalanceToConsume = state'.exitBalanceToConsume,
                                !.earliestExitEpoch = state'.earliestExitEpoch]
  <2>1. Sound(state) /\ state \in RegistryState
    BY DEF RegistryInv, Sound
  <2>2. i \in 1..Len(state.validators)
    BY <2>1, ValidatorFields DEF Known
  <2> QED BY <2>1, <2>2, ExitSound
<1>2. /\ state'.slot = state.slot /\ state'.finalizedEpoch = state.finalizedEpoch
      /\ state'.balances = state.balances
      /\ state'.pendingDeposits = state.pendingDeposits
      /\ state'.depositBalanceToConsume = state.depositBalanceToConsume
  BY <1>1 DEF RegistryState
<1>3. Worth(state') = Worth(state) /\ BudgetOf(state')
  BY <1>2, WorthSame DEF RegistryInv
<1>4. supply' = Worth(state')
  BY <1>3 DEF RegistryInv
<1> QED BY <1>1, <1>2, <1>3, <1>4, OneStage, OperationInv

\* a slashing,
LEMMA SlashingInv ==
  ASSUME RegistryInv, NEW i \in Known, NEW proposer \in Known, ProcessSlashing(i, proposer)
  PROVE  RegistryInv'
<1> DEFINE v == state.validators[i]
           loss == Smaller(state.balances[i], SlashingPenalty(v))
           reward == WhistleblowerReward(v)
<1>1. Operation(2) /\ state' = Slash(state, i, proposer) /\ supply' = supply - loss + reward
  BY DEF ProcessSlashing
<1>2. Sound(state) /\ i \in 1..Len(state.validators) /\ proposer \in 1..Len(state.validators)
  BY ValidatorFields DEF RegistryInv, Sound, Known
<1> HIDE DEF loss, reward
<1>3. /\ Sound(state')
      /\ state'.slot = state.slot /\ state'.finalizedEpoch = state.finalizedEpoch
      /\ state'.pendingDeposits = state.pendingDeposits
      /\ state'.depositBalanceToConsume = state.depositBalanceToConsume
      /\ Worth(state') = Worth(state) - loss + reward
  BY <1>1, <1>2, SlashSound DEF loss, reward
<1>4. supply' = Worth(state') /\ BudgetOf(state')
  BY <1>1, <1>3 DEF RegistryInv, BudgetOf
<1>5. 2 \in 1..7
  OBVIOUS
<1> QED BY <1>1, <1>3, <1>4, <1>5, OneStage, OperationInv

\* a switch to compounding,
LEMMA SwitchInv ==
  ASSUME RegistryInv, NEW i \in Known, ProcessSwitchToCompounding(i)
  PROVE  RegistryInv'
<1>1. Operation(7) /\ state' = SwitchToCompounding(state, i) /\ supply' = supply /\ 7 \in 1..7
  BY DEF ProcessSwitchToCompounding, history
<1>2. Sound(state) /\ i \in 1..Len(state.validators)
  BY ValidatorFields DEF RegistryInv, Sound, Known
<1>3. /\ Sound(state')
      /\ state'.slot = state.slot /\ state'.finalizedEpoch = state.finalizedEpoch
      /\ Worth(state') = Worth(state)
      /\ BudgetOf(state) => BudgetOf(state')
  BY <1>1, <1>2, SwitchSound
<1>4. supply' = Worth(state') /\ BudgetOf(state')
  BY <1>1, <1>3 DEF RegistryInv
<1> QED BY <1>1, <1>3, <1>4, OneStage, OperationInv

\* a change of credentials,
LEMMA BlsChangeInv ==
  ASSUME RegistryInv, NEW i \in Known, ProcessBlsToExecutionChange(i)
  PROVE  RegistryInv'
<1> DEFINE s == state
           t == state'
           n == Len(s.validators)
           w == [s.validators[i] EXCEPT !.credential = "eth1"]
           x == [s.validators EXCEPT ![i] = w]
<1>1. /\ Operation(4) /\ t = [s EXCEPT !.validators = x]
      /\ s.validators[i].credential = "bls" /\ supply' = supply
  <2>1. t = [s EXCEPT !.validators[i].credential = "eth1"]
    BY DEF ProcessBlsToExecutionChange
  <2> QED BY <2>1 DEF ProcessBlsToExecutionChange, history, RegistryInv, Sound, RegistryState
<1>2. /\ Sound(s) /\ s \in RegistryState /\ i \in 1..n /\ n \in Nat
      /\ s.validators \in Seq(Validator)
      /\ \A k \in 1..n : s.validators[k] \in Validator /\ Fit(s.validators[k])
  BY ValidatorFields DEF RegistryInv, Sound, Known, RegistryState
<1>3. w \in Validator /\ Fit(w)
  <2>1. s.validators[i] \in Validator /\ Fit(s.validators[i])
    BY <1>2
  <2>2. w \in Validator /\ w.effectiveBalance = s.validators[i].effectiveBalance
        /\ w.credential = "eth1"
    BY <2>1 DEF Validator
  <2> HIDE DEF w
  <2> QED BY <1>1, <2>1, <2>2 DEF Fit, MaxEffective
<1> HIDE DEF w, s, t
<1>4. x \in Seq(Validator) /\ Len(x) = n /\ \A k \in 1..n : Fit(x[k])
  <2>1. /\ x \in Seq(Validator) /\ Len(x) = n /\ x[i] = w
        /\ \A k \in 1..n : k # i => x[k] = s.validators[k]
    BY <1>2, <1>3, SequenceReplace
  <2> HIDE DEF x
  <2> QED BY <1>2, <1>3, <2>1
<1> HIDE DEF x
<1>5. /\ t \in RegistryState /\ t.validators = x
      /\ t.slot = s.slot /\ t.finalizedEpoch = s.finalizedEpoch
      /\ t.balances = s.balances
      /\ t.nextWithdrawalValidator = s.nextWithdrawalValidator
      /\ t.pendingDeposits = s.pendingDeposits
      /\ t.pendingPartialWithdrawals = s.pendingPartialWithdrawals
      /\ t.pendingConsolidations = s.pendingConsolidations
      /\ t.depositBalanceToConsume = s.depositBalanceToConsume
  BY <1>1, <1>2, <1>4 DEF RegistryState
<1>6. Sound(t)
  BY <1>2, <1>4, <1>5, SoundRewritten DEF n
<1>7. Worth(t) = Worth(s) /\ BudgetOf(t)
  BY <1>5, WorthSame DEF RegistryInv, s
<1>8. supply' = Worth(t) /\ 4 \in 1..7
  BY <1>1, <1>7 DEF RegistryInv, s
<1> QED BY <1>1, <1>5, <1>6, <1>7, <1>8, OneStage, OperationInv DEF s, t

\* a deposit request, whose value is new,
LEMMA DepositRequestInv ==
  ASSUME RegistryInv, NEW request \in DepositRequests, ProcessDepositRequest(request)
  PROVE  RegistryInv'
<1> DEFINE s == state
           t == state'
           n == Len(s.validators)
           d == [validator |-> request.validator, credential |-> request.credential,
                 amount |-> request.amount, signed |-> request.signed, slot |-> s.slot]
           q == Append(s.pendingDeposits, d)
<1>1. /\ Operation(5) /\ t = [s EXCEPT !.pendingDeposits = q]
      /\ request.validator <= Smaller(n + 1, MaxValidators)
      /\ supply' = supply + request.amount
  BY DEF ProcessDepositRequest
<1>2. Sound(s) /\ s \in RegistryState /\ n \in Nat /\ s.slot \in 0..MaxSlot
  BY ValidatorFields DEF RegistryInv, Sound, RegistryState
<1>3. d \in Deposit /\ d.amount = request.amount /\ d.validator <= n + 1
  <2>1. /\ request.validator \in Nat \ {0} /\ request.amount \in Nat
        /\ request.signed \in BOOLEAN /\ request.credential \in Credential
        /\ MaxValidators \in Nat
    BY InputAssumption, RegistryAssumption DEF Credential
  <2>2. request.validator <= n + 1 /\ request.validator <= MaxValidators
    BY <1>1, <1>2, <2>1 DEF Smaller
  <2>3. request.validator \in 1..MaxValidators
    BY <2>1, <2>2
  <2> QED BY <1>2, <2>1, <2>2, <2>3 DEF Deposit
<1> HIDE DEF d, n
<1>4. /\ q \in Seq(Deposit)
      /\ \A k \in DOMAIN q : q[k].validator <= n + 1
      /\ Total(q) = Total(s.pendingDeposits) + request.amount
      /\ q # <<>>
      /\ s.pendingDeposits # <<>> => Head(q) = Head(s.pendingDeposits)
  <2> HIDE DEF q, s
  <2>1. q = Append(s.pendingDeposits, d)
    BY DEF q
  <2>2. /\ q \in Seq(Deposit)
        /\ \A k \in DOMAIN q : q[k].validator <= n + 1
        /\ Total(q) = Total(s.pendingDeposits) + d.amount
        /\ q # <<>>
        /\ s.pendingDeposits # <<>> => Head(q) = Head(s.pendingDeposits)
    BY <1>2, <1>3, <2>1, DepositQueued DEF n
  <2> QED BY <1>3, <2>2
<1> HIDE DEF q, s, t
<1>5. /\ t \in RegistryState /\ t.pendingDeposits = q
      /\ t.slot = s.slot /\ t.finalizedEpoch = s.finalizedEpoch
      /\ t.balances = s.balances /\ t.validators = s.validators
      /\ t.nextWithdrawalValidator = s.nextWithdrawalValidator
      /\ t.pendingPartialWithdrawals = s.pendingPartialWithdrawals
      /\ t.pendingConsolidations = s.pendingConsolidations
      /\ t.depositBalanceToConsume = s.depositBalanceToConsume
  BY <1>1, <1>2, <1>4 DEF RegistryState
<1>6. Sound(t)
  BY <1>2, <1>4, <1>5 DEF Sound, Indexed, n
<1>7. Worth(t) = Worth(s) + request.amount
  <2>1. /\ Worth(t) = SumFunction(t.balances) + Total(t.pendingDeposits)
        /\ Worth(s) = SumFunction(s.balances) + Total(s.pendingDeposits)
        /\ SumFunction(s.balances) \in Nat /\ Total(s.pendingDeposits) \in Nat
    BY <1>2, <1>6, WorthNat
  <2>2. request.amount \in Nat
    BY InputAssumption
  <2> QED BY <1>4, <1>5, <2>1, <2>2
<1>8. supply' = Worth(t) /\ 5 \in 1..7 /\ BudgetOf(t)
  BY <1>1, <1>4, <1>5, <1>7 DEF RegistryInv, BudgetOf, s
<1> QED BY <1>1, <1>5, <1>6, <1>8, OneStage, OperationInv DEF s, t

\* the withdrawals of a block, whose value leaves,
LEMMA BeginBlockInv ==
  ASSUME RegistryInv, BeginBlock
  PROVE  RegistryInv'
<1> DEFINE p == ExpectedWithdrawals(state)
<1>1. state' = ProcessWithdrawals(state) /\ stage' = 1 /\ supply' = supply - Total(p)
  BY DEF BeginBlock, Total
<1> HIDE DEF p
<1>2. Sound(state) /\ state \in RegistryState
  BY DEF RegistryInv, Sound
<1>3. /\ Sound(state') /\ WithdrawalsStep(state, state')
      /\ Worth(state') = Worth(state) - Total(p)
  BY <1>1, <1>2, WithdrawalsSound DEF p
<1>4. /\ state'.slot = state.slot /\ state'.finalizedEpoch = state.finalizedEpoch
      /\ state'.pendingDeposits = state.pendingDeposits
      /\ state'.depositBalanceToConsume = state.depositBalanceToConsume
  BY <1>2, <1>3 DEF WithdrawalsStep, RegistryState
<1>5. supply' = Worth(state') /\ BudgetOf(state') /\ stage' \in 0..7
  BY <1>1, <1>3, <1>4 DEF RegistryInv, BudgetOf
<1> QED BY <1>3, <1>4, <1>5, OperationInv

\* An element more that names known validators only.
LEMMA AppendIndexed ==
  ASSUME NEW S, NEW q \in Seq(S), NEW e \in S, NEW P, e \in P, \A k \in DOMAIN q : q[k] \in P
  PROVE  /\ Append(q, e) \in Seq(S)
         /\ \A k \in DOMAIN Append(q, e) : Append(q, e)[k] \in P
<1> DEFINE r == Append(q, e)
<1>1. r \in Seq(S) /\ Len(r) = Len(q) + 1 /\ r[Len(q) + 1] = e
      /\ \A k \in 1..Len(q) : r[k] = q[k]
  BY SequenceAppend
<1>2. DOMAIN q = 1..Len(q) /\ DOMAIN r = 1..(Len(q) + 1) /\ Len(q) \in Nat
  BY <1>1, SequenceFacts
<1> HIDE DEF r
<1>3. \A k \in DOMAIN r : r[k] \in P
  <2> TAKE k \in DOMAIN r
  <2>1. k \in 1..Len(q) \/ k = Len(q) + 1
    BY <1>2
  <2> QED BY <1>1, <1>2, <2>1
<1> QED BY <1>1, <1>3 DEF r

\* What is pending of a validator is a natural number.
LEMMA PendingNat ==
  ASSUME NEW s, Sound(s), NEW i
  PROVE  PendingBalanceToWithdraw(s, i) \in Nat
<1>1. s.pendingPartialWithdrawals \in Seq(PartialWithdrawal)
  BY DEF Sound, RegistryState
<1>2. \A e \in PartialWithdrawal : e.amount \in Nat
  BY DEF PartialWithdrawal
<1>3. [validator |-> 0, amount |-> 1, withdrawable |-> 0] \in PartialWithdrawal
  BY DEF PartialWithdrawal
<1> QED BY <1>1, <1>2, <1>3, TotalAppend DEF PendingBalanceToWithdraw

\* What process_withdrawal_request queues.
LEMMA PartialRequestStep ==
  ASSUME NEW i \in Known, NEW amount \in PartialAmounts, Sound(state),
         PartialWithdrawalRequest(i, amount)
  PROVE  \E b \in Nat \ {0} :
           LET r == ReserveExit(state, b)
               request == [validator |-> i, amount |-> b,
                           withdrawable |-> r.earliestExitEpoch + MinValidatorWithdrawabilityDelay]
           IN /\ Operation(6) /\ ~Exiting(state.validators[i])
              /\ state' = [r EXCEPT !.pendingPartialWithdrawals
                             = Append(state.pendingPartialWithdrawals, request)]
              /\ exitLog' = Append(exitLog, [validator |-> i, epoch |-> r.earliestExitEpoch,
                                             amount |-> b])
              /\ supply' = supply
<1> DEFINE pending == PendingBalanceToWithdraw(state, i)
           b == Smaller(state.balances[i] - MinActivationBalance - pending, amount)
           r == ReserveExit(state, b)
<1>1. /\ pending \in Nat /\ amount \in Nat \ {0} /\ MinActivationBalance \in Nat
      /\ state.balances[i] \in Nat
  BY PendingNat, InputAssumption, RegistryAssumption, ValidatorFields
     DEF Sound, Indexed, Known
<1>2. state.balances[i] > MinActivationBalance + pending
  BY DEF PartialWithdrawalRequest
<1>3. b \in Nat \ {0}
  <2> HIDE DEF pending
  <2> QED BY <1>1, <1>2 DEF Smaller
<1>4. state \in RegistryState
  BY DEF Sound
<1>5. r \in RegistryState /\ r.pendingPartialWithdrawals = state.pendingPartialWithdrawals
  <2> HIDE DEF b
  <2>1. /\ r \in RegistryState
        /\ r = [state EXCEPT !.exitBalanceToConsume = r.exitBalanceToConsume,
                             !.earliestExitEpoch = r.earliestExitEpoch]
    BY <1>3, <1>4, ReserveExitType
  <2> HIDE DEF r
  <2> QED BY <1>4, <2>1 DEF RegistryState
<1>6. /\ Operation(6) /\ ~Exiting(state.validators[i])
      /\ state' = [r EXCEPT !.pendingPartialWithdrawals = Append(@,
                     [validator |-> i, amount |-> b,
                      withdrawable |-> r.earliestExitEpoch + MinValidatorWithdrawabilityDelay])]
      /\ exitLog' = Append(exitLog, [validator |-> i, epoch |-> r.earliestExitEpoch,
                                     amount |-> b])
      /\ supply' = supply
  <2> HIDE DEF r, b, pending
  <2> QED BY DEF PartialWithdrawalRequest, MayRequestWithdrawal, r, b, pending
<1>7. state' = [r EXCEPT !.pendingPartialWithdrawals = Append(state.pendingPartialWithdrawals,
                  [validator |-> i, amount |-> b,
                   withdrawable |-> r.earliestExitEpoch + MinValidatorWithdrawabilityDelay])]
  <2> HIDE DEF r, b
  <2> QED BY <1>5, <1>6
<1> HIDE DEF b
<1> QED BY <1>3, <1>6, <1>7

\* A partial withdrawal request keeps the invariant,
LEMMA PartialRequestInv ==
  ASSUME RegistryInv, NEW i \in Known, NEW amount \in PartialAmounts,
         PartialWithdrawalRequest(i, amount)
  PROVE  RegistryInv'
<1> DEFINE s == state
           t == state'
           n == Len(s.validators)
<1>1. Sound(s) /\ s \in RegistryState /\ i \in 1..n /\ n \in Nat
  BY ValidatorFields DEF RegistryInv, Sound, Known
<1>2. PICK b \in Nat \ {0} :
           LET r == ReserveExit(s, b)
               request == [validator |-> i, amount |-> b,
                           withdrawable |-> r.earliestExitEpoch + MinValidatorWithdrawabilityDelay]
           IN /\ Operation(6)
              /\ t = [r EXCEPT !.pendingPartialWithdrawals
                             = Append(s.pendingPartialWithdrawals, request)]
              /\ supply' = supply
  BY <1>1, PartialRequestStep
<1> DEFINE r == ReserveExit(s, b)
           e == [validator |-> i, amount |-> b,
                 withdrawable |-> r.earliestExitEpoch + MinValidatorWithdrawabilityDelay]
           q == Append(s.pendingPartialWithdrawals, e)
<1>3. /\ r \in RegistryState
      /\ r = [s EXCEPT !.exitBalanceToConsume = r.exitBalanceToConsume,
                       !.earliestExitEpoch = r.earliestExitEpoch]
  BY <1>1, ReserveExitType
<1>4. t = [r EXCEPT !.pendingPartialWithdrawals = q] /\ Operation(6) /\ supply' = supply
  BY <1>2
<1> HIDE DEF r
<1>5. e \in PartialWithdrawal /\ e.validator = i
  <2>1. r.earliestExitEpoch + MinValidatorWithdrawabilityDelay \in Nat
    <3>1. r.earliestExitEpoch \in Nat
      BY <1>3 DEF RegistryState
    <3>2. MinValidatorWithdrawabilityDelay \in Nat
      BY RegistryAssumption
    <3> QED BY <3>1, <3>2
  <2> QED BY <1>1, <2>1 DEF PartialWithdrawal
<1> HIDE DEF e
<1>6. q \in Seq(PartialWithdrawal) /\ \A k \in DOMAIN q : q[k].validator \in 1..n
  <2> DEFINE P == {x \in PartialWithdrawal : x.validator \in 1..n}
  <2>1. /\ s.pendingPartialWithdrawals \in Seq(PartialWithdrawal)
        /\ e \in P
    BY <1>1, <1>5 DEF RegistryState
  <2>2. \A k \in DOMAIN s.pendingPartialWithdrawals : s.pendingPartialWithdrawals[k] \in P
    <3> TAKE k \in DOMAIN s.pendingPartialWithdrawals
    <3>1. s.pendingPartialWithdrawals[k] \in PartialWithdrawal
      BY <2>1, SequenceFacts
    <3> QED BY <1>1, <3>1 DEF Sound, Indexed
  <2> HIDE DEF P
  <2>3. q \in Seq(PartialWithdrawal) /\ \A k \in DOMAIN q : q[k] \in P
    BY <1>5, <2>1, <2>2, AppendIndexed
  <2> QED BY <2>3 DEF P
<1> HIDE DEF q, s, t
<1>7. /\ t \in RegistryState /\ t.pendingPartialWithdrawals = q
      /\ t.slot = s.slot /\ t.finalizedEpoch = s.finalizedEpoch
      /\ t.balances = s.balances /\ t.validators = s.validators
      /\ t.nextWithdrawalValidator = s.nextWithdrawalValidator
      /\ t.pendingDeposits = s.pendingDeposits
      /\ t.pendingConsolidations = s.pendingConsolidations
      /\ t.depositBalanceToConsume = s.depositBalanceToConsume
  <2>1. /\ r.slot = s.slot /\ r.finalizedEpoch = s.finalizedEpoch
        /\ r.balances = s.balances /\ r.validators = s.validators
        /\ r.nextWithdrawalValidator = s.nextWithdrawalValidator
        /\ r.pendingDeposits = s.pendingDeposits
        /\ r.pendingConsolidations = s.pendingConsolidations
        /\ r.depositBalanceToConsume = s.depositBalanceToConsume
    BY <1>1, <1>3 DEF RegistryState
  <2> QED BY <1>3, <1>4, <1>6, <2>1 DEF RegistryState
<1>8. Sound(t)
  BY <1>1, <1>6, <1>7 DEF Sound, Indexed, n
<1>9. Worth(t) = Worth(s) /\ BudgetOf(t)
  BY <1>7, WorthSame DEF RegistryInv, s
<1>10. supply' = Worth(t) /\ 6 \in 1..7
  BY <1>4, <1>9 DEF RegistryInv, s
<1> QED BY <1>4, <1>7, <1>8, <1>9, <1>10, OneStage, OperationInv DEF s, t

\* What process_consolidation_request leaves.
LEMMA ConsolidationRequestStep ==
  ASSUME NEW source, NEW target, Sound(state), ProcessConsolidationRequest(source, target)
  PROVE  LET src == state.validators[source]
             r == ReserveConsolidation(state, src.effectiveBalance)
             exit == r.earliestConsolidationEpoch
         IN /\ Operation(7) /\ source \in Known /\ target \in Known
            /\ ~Exiting(src) /\ IsActive(src, CurrentEpoch(state))
            /\ ConsolidationChurnLimit(state) # 0
            /\ r \in RegistryState
            /\ r.earliestConsolidationEpoch >= state.earliestConsolidationEpoch
            /\ exit >= ActivationExitEpoch(CurrentEpoch(state))
            /\ state' = [state EXCEPT
                 !.consolidationBalanceToConsume = r.consolidationBalanceToConsume,
                 !.earliestConsolidationEpoch = exit,
                 !.validators = [state.validators EXCEPT ![source] = Scheduled(@, exit)],
                 !.pendingConsolidations = Append(state.pendingConsolidations,
                                                  [source |-> source, target |-> target])]
            /\ supply' = supply /\ exitLog' = exitLog
<1> DEFINE s == state
           src == s.validators[source]
           b == src.effectiveBalance
           r == ReserveConsolidation(s, b)
           exit == r.earliestConsolidationEpoch
           e == [source |-> source, target |-> target]
<1>1. /\ s \in RegistryState /\ s.validators \in Seq(Validator)
      /\ Known = 1..Len(s.validators)
  BY ValidatorFields DEF Sound, RegistryState, Known
<1>2. /\ Operation(7) /\ source \in Known /\ target \in Known
      /\ ~Exiting(src) /\ IsActive(src, CurrentEpoch(s))
      /\ ConsolidationChurnLimit(s) > MinActivationBalance
      /\ supply' = supply /\ exitLog' = exitLog
  BY DEF ProcessConsolidationRequest, history, Known
<1>3. ConsolidationChurnLimit(s) # 0 /\ b \in Nat
  <2>1. ConsolidationChurnLimit(s) \in Nat /\ MinActivationBalance \in Nat
    BY <1>1, ChurnLimits, RegistryAssumption
  <2> QED BY <1>1, <1>2, <2>1, ValidatorFields
<1>4. /\ r \in RegistryState
      /\ r = [s EXCEPT !.consolidationBalanceToConsume = r.consolidationBalanceToConsume,
                       !.earliestConsolidationEpoch = exit]
      /\ r.earliestConsolidationEpoch >= s.earliestConsolidationEpoch
      /\ exit >= ActivationExitEpoch(CurrentEpoch(s))
  <2> HIDE DEF b
  <2> QED BY <1>1, <1>3, ReserveConsolidationType
<1>5. state' = [r EXCEPT
                  !.validators[source].exit = exit,
                  !.validators[source].withdrawable = exit + MinValidatorWithdrawabilityDelay,
                  !.pendingConsolidations = Append(@, e)]
  <2> HIDE DEF r
  <2> QED BY DEF ProcessConsolidationRequest, r
<1>6. r.validators = s.validators /\ r.pendingConsolidations = s.pendingConsolidations
  <2> HIDE DEF r
  <2> QED BY <1>1, <1>4 DEF RegistryState
<1> DEFINE v == [s.validators EXCEPT ![source] = Scheduled(@, exit)]
           q == Append(s.pendingConsolidations, e)
<1>7. state' = [r EXCEPT !.validators = v, !.pendingConsolidations = q]
  <2> HIDE DEF r, exit
  <2>1. state' = [r EXCEPT
                    !.validators = [[r.validators EXCEPT ![source].exit = exit]
                       EXCEPT ![source].withdrawable = exit + MinValidatorWithdrawabilityDelay],
                    !.pendingConsolidations = Append(r.pendingConsolidations, e)]
    <3>1. "validators" \in DOMAIN r /\ "pendingConsolidations" \in DOMAIN r
      BY <1>4 DEF RegistryState
    <3> HIDE DEF e, v, q
    <3> QED BY <1>5, <3>1
  <2>2. [[s.validators EXCEPT ![source].exit = exit]
            EXCEPT ![source].withdrawable = exit + MinValidatorWithdrawabilityDelay] = v
    BY <1>1, <1>2 DEF Scheduled
  <2> HIDE DEF v, q, e
  <2> QED BY <1>6, <2>1, <2>2 DEF q
<1>8. state' = [s EXCEPT !.consolidationBalanceToConsume = r.consolidationBalanceToConsume,
                         !.earliestConsolidationEpoch = exit,
                         !.validators = v, !.pendingConsolidations = q]
  <2> DEFINE c == r.consolidationBalanceToConsume
  <2>1. r = [s EXCEPT !.consolidationBalanceToConsume = c, !.earliestConsolidationEpoch = exit]
    BY <1>4
  <2> HIDE DEF c, exit, v, q, r
  <2>2. state' = [s EXCEPT !.consolidationBalanceToConsume = c,
                           !.earliestConsolidationEpoch = exit,
                           !.validators = v, !.pendingConsolidations = q]
    BY <1>1, <1>7, <2>1 DEF RegistryState
  <2> QED BY <2>2 DEF c
<1> QED BY <1>2, <1>3, <1>4, <1>8

\* and a consolidation request does.
LEMMA ConsolidationRequestInv ==
  ASSUME RegistryInv, NEW source, NEW target, ProcessConsolidationRequest(source, target)
  PROVE  RegistryInv'
<1> DEFINE s == state
           t == state'
           n == Len(s.validators)
           src == s.validators[source]
           r == ReserveConsolidation(s, src.effectiveBalance)
           exit == r.earliestConsolidationEpoch
           left == r.consolidationBalanceToConsume
           w == Scheduled(src, exit)
           v == [s.validators EXCEPT ![source] = w]
           e == [source |-> source, target |-> target]
           q == Append(s.pendingConsolidations, e)
<1>1. Sound(s) /\ s \in RegistryState /\ n \in Nat /\ Known = 1..n
  BY ValidatorFields DEF RegistryInv, Sound, Known
<1>2. /\ Operation(7) /\ source \in Known /\ target \in Known
      /\ r \in RegistryState
      /\ t = [s EXCEPT !.consolidationBalanceToConsume = left,
                       !.earliestConsolidationEpoch = exit,
                       !.validators = [s.validators EXCEPT ![source] = Scheduled(@, exit)],
                       !.pendingConsolidations = q]
      /\ supply' = supply
  BY <1>1, ConsolidationRequestStep
<1>3. t = [s EXCEPT !.consolidationBalanceToConsume = left,
                    !.earliestConsolidationEpoch = exit,
                    !.validators = v, !.pendingConsolidations = q]
  <2>1. source \in DOMAIN s.validators
    BY <1>1, <1>2, ValidatorFields
  <2>2. [s.validators EXCEPT ![source] = Scheduled(@, exit)] = v
    BY <2>1
  <2> HIDE DEF v, r, q, left, exit
  <2> QED BY <1>2, <2>2
<1>4. left \in Nat /\ exit \in Nat
  <2> HIDE DEF r
  <2> QED BY <1>2 DEF RegistryState
<1> HIDE DEF r, exit, left
<1>5. /\ s.validators \in Seq(Validator) /\ src \in Validator /\ Fit(src)
      /\ \A k \in 1..n : Fit(s.validators[k])
  BY <1>1, <1>2, ValidatorFields DEF Sound, RegistryState
<1>6. w \in Validator /\ Fit(w)
  BY <1>4, <1>5, ScheduledType, ScheduledFit
<1> HIDE DEF w
<1>7. v \in Seq(Validator) /\ Len(v) = n /\ \A k \in 1..n : Fit(v[k])
  <2>1. /\ v \in Seq(Validator) /\ Len(v) = n /\ v[source] = w
        /\ \A k \in 1..n : k # source => v[k] = s.validators[k]
    BY <1>1, <1>2, <1>5, <1>6, SequenceReplace
  <2> HIDE DEF v
  <2> QED BY <1>5, <1>6, <2>1
<1>8. e \in Consolidation /\ e.source = source /\ e.target = target
  BY <1>1, <1>2 DEF Consolidation
<1> HIDE DEF e
<1>9. /\ q \in Seq(Consolidation)
      /\ \A k \in DOMAIN q : q[k].source \in 1..n /\ q[k].target \in 1..n
  <2> DEFINE P == {x \in Consolidation : x.source \in 1..n /\ x.target \in 1..n}
  <2>1. s.pendingConsolidations \in Seq(Consolidation) /\ e \in P
    BY <1>1, <1>2, <1>8 DEF RegistryState
  <2>2. \A k \in DOMAIN s.pendingConsolidations : s.pendingConsolidations[k] \in P
    <3> TAKE k \in DOMAIN s.pendingConsolidations
    <3>1. s.pendingConsolidations[k] \in Consolidation
      BY <2>1, SequenceFacts
    <3> QED BY <1>1, <3>1 DEF Sound, Indexed
  <2> HIDE DEF P
  <2>3. q \in Seq(Consolidation) /\ \A k \in DOMAIN q : q[k] \in P
    BY <1>8, <2>1, <2>2, AppendIndexed
  <2> QED BY <2>3 DEF P
<1> HIDE DEF q, v, s, t
<1>10. /\ t \in RegistryState /\ t.pendingConsolidations = q /\ t.validators = v
       /\ t.slot = s.slot /\ t.finalizedEpoch = s.finalizedEpoch
       /\ t.balances = s.balances
       /\ t.nextWithdrawalValidator = s.nextWithdrawalValidator
       /\ t.pendingDeposits = s.pendingDeposits
       /\ t.pendingPartialWithdrawals = s.pendingPartialWithdrawals
       /\ t.depositBalanceToConsume = s.depositBalanceToConsume
  BY <1>1, <1>3, <1>4, <1>7, <1>9 DEF RegistryState
<1>11. Sound(t)
  BY <1>1, <1>7, <1>9, <1>10 DEF Sound, Indexed, n
<1>12. Worth(t) = Worth(s) /\ BudgetOf(t)
  BY <1>10, WorthSame DEF RegistryInv, s
<1>13. supply' = Worth(t) /\ 7 \in 1..7
  BY <1>2, <1>12 DEF RegistryInv, s
<1> QED BY <1>2, <1>10, <1>11, <1>12, <1>13, OneStage, OperationInv DEF s, t

\* A finalized epoch is not ahead of the clock.
LEMMA FinalizedNat ==
  ASSUME RegistryInv, NEW finalized \in FinalizedChoices
  PROVE  finalized \in Nat /\ finalized <= CurrentEpoch(state)
<1>1. CurrentEpoch(state) \in Nat /\ state.finalizedEpoch \in Nat
  BY EpochNat DEF RegistryInv, Sound, RegistryState
<1> QED BY <1>1 DEF FinalizedChoices, RegistryInv

\* process_epoch on the state, and the slot after it.
LEMMA EpochStep ==
  ASSUME RegistryInv, NEW finalized \in FinalizedChoices, NEW i \in Known,
         NEW delta \in Deltas, NextEpoch(finalized, i, delta)
  PROVE  LET s == EpochBalances(state, finalized, i, delta)
             u == EpochQueues(s)
         IN /\ Sound(s) /\ Sound(u) /\ Sound(state')
            /\ s.slot = state.slot /\ u.slot = state.slot
            /\ state' = [u EXCEPT !.slot = state.slot + 1]
            /\ state'.slot = state.slot + 1
            /\ state'.finalizedEpoch = finalized
            /\ state'.validators = u.validators
            /\ Worth(state') = Worth(s) - Dropped(s)
            /\ BudgetOf(state')
<1> DEFINE s == EpochBalances(state, finalized, i, delta)
           u == EpochQueues(s)
           t == state'
           last == Reserved(EpochBase(state, finalized, i, delta))[Len(state.validators)]
<1>1. Sound(state) /\ state \in RegistryState /\ i \in 1..Len(state.validators)
      /\ finalized \in Nat /\ delta \in Int
  BY FinalizedNat, ValidatorFields, InputAssumption DEF RegistryInv, Sound, Known
<1>2. Sound(s) /\ Settled(state, s, finalized, last)
  <2> HIDE DEF s
  <2> QED BY <1>1, EpochBalancesType DEF s, last
<1>3. t = [u EXCEPT !.slot = @ + 1]
  BY DEF NextEpoch
<1> HIDE DEF s, last
<1>4. s.slot = state.slot /\ s.finalizedEpoch = finalized
  BY <1>1, <1>2 DEF Settled, RegistryState
<1>5. Sound(u) /\ QueuesStep(s, u) /\ Worth(u) = Worth(s) - Dropped(s) /\ BudgetOf(u)
  <2> HIDE DEF u
  <2> QED BY <1>2, EpochQueuesType DEF u
<1> HIDE DEF u, t
<1>6. u \in RegistryState /\ u.slot = state.slot /\ u.finalizedEpoch = finalized
  BY <1>2, <1>4, <1>5 DEF Sound, QueuesStep, RegistryState
<1>7. t = [u EXCEPT !.slot = state.slot + 1]
  BY <1>3, <1>6
<1>8. state.slot + 1 \in Nat
  BY <1>1, SMTT(30) DEF RegistryState
<1>9. /\ t \in RegistryState /\ t.slot = state.slot + 1
      /\ t.finalizedEpoch = u.finalizedEpoch
      /\ t.validators = u.validators /\ t.balances = u.balances
      /\ t.nextWithdrawalValidator = u.nextWithdrawalValidator
      /\ t.pendingDeposits = u.pendingDeposits
      /\ t.pendingPartialWithdrawals = u.pendingPartialWithdrawals
      /\ t.pendingConsolidations = u.pendingConsolidations
      /\ t.depositBalanceToConsume = u.depositBalanceToConsume
  <2> DEFINE c == state.slot + 1
  <2>1. t = [u EXCEPT !.slot = c] /\ c \in Nat
    BY <1>7, <1>8
  <2> HIDE DEF c
  <2>2. t \in RegistryState /\ t.slot = c /\ t = [u EXCEPT !.slot = c]
    BY <1>6, <2>1 DEF RegistryState
  <2> QED BY <1>6, <2>2 DEF RegistryState, c
<1>10. Sound(t)
  BY <1>5, <1>9, SoundRewritten DEF Sound
<1>11. Worth(t) = Worth(u) /\ BudgetOf(t)
  BY <1>5, <1>9, WorthSame
<1> QED BY <1>2, <1>4, <1>5, <1>6, <1>7, <1>9, <1>10, <1>11 DEF s, u, t

\* An epoch keeps the invariant.
LEMMA NextEpochInv ==
  ASSUME RegistryInv, NEW finalized \in FinalizedChoices, NEW i \in Known,
         NEW delta \in Deltas, NextEpoch(finalized, i, delta)
  PROVE  RegistryInv'
<1> DEFINE s == EpochBalances(state, finalized, i, delta)
<1>1. /\ state.slot < MaxSlot /\ stage' = 0
      /\ supply' = supply - (Worth(state) - Worth(s)) - Dropped(s)
  BY DEF NextEpoch
<1>2. /\ Sound(s) /\ Sound(state')
      /\ state'.slot = state.slot + 1
      /\ state'.finalizedEpoch = finalized
      /\ Worth(state') = Worth(s) - Dropped(s)
      /\ BudgetOf(state')
  BY EpochStep
<1> HIDE DEF s
<1>3. supply = Worth(state) /\ Sound(state)
  BY DEF RegistryInv
<1>4. Worth(state) \in Nat /\ Worth(s) \in Nat /\ Worth(state') \in Nat
  BY <1>2, <1>3, WorthNat
<1>5. Dropped(s) \in Nat
  <2> DEFINE x == DepositScan(s).applied
             S == DOMAIN x \ Counted(s, x)
  <2>1. x \in Seq(Deposit)
    BY <1>2, ScanFacts DEF Sound
  <2> HIDE DEF x
  <2>2. Len(x) \in 0..Len(x) /\ S \in SUBSET (1..Len(x))
    BY <2>1, SequenceFacts
  <2> HIDE DEF S
  <2>3. SumFunctionOnSet(Amounts(x), S) \in Nat
    BY <2>1, <2>2, DepositAmounts, SumOfFront
  <2> QED BY <2>3 DEF Dropped, x, S
<1>6. supply' = Worth(state')
  <2> DEFINE a == Worth(state)
             b == Worth(s)
             d == Dropped(s)
  <2>1. a \in Nat /\ b \in Nat /\ d \in Nat /\ supply' = a - (a - b) - d
        /\ Worth(state') = b - d
    BY <1>1, <1>2, <1>3, <1>4, <1>5
  <2> HIDE DEF a, b, d
  <2> QED BY <2>1
<1>7. finalized <= CurrentEpoch(state') /\ state'.slot <= MaxSlot
  <2>1. /\ state.slot \in Nat /\ MaxSlot \in Nat /\ SlotsPerEpoch \in Nat \ {0}
        /\ finalized \in Nat /\ finalized <= CurrentEpoch(state)
        /\ CurrentEpoch(state) \in Nat /\ CurrentEpoch(state') \in Nat
    BY <1>2, <1>3, FinalizedNat, RegistryAssumption, EpochNat DEF Sound, RegistryState
  <2>2. (state.slot + 1) \div SlotsPerEpoch >= state.slot \div SlotsPerEpoch
    BY <2>1
  <2>3. CurrentEpoch(state') >= CurrentEpoch(state)
    BY <1>2, <2>2 DEF CurrentEpoch
  <2> QED BY <1>1, <1>2, <2>1, <2>3
<1> QED BY <1>1, <1>2, <1>6, <1>7 DEF RegistryInv

\* The invariant holds at genesis,
LEMMA GenesisInv == Init => RegistryInv
<1> SUFFICES ASSUME Init PROVE RegistryInv
  OBVIOUS
<1> DEFINE n == Len(InitialValidators)
           slashings == [k \in 0..(EpochsPerSlashingsVector - 1) |-> 0]
<1>1. /\ InitialValidators \in Seq(Validator) /\ InitialBalances \in Seq(Nat)
      /\ n \in Nat \ {0} /\ DOMAIN InitialValidators = 1..n
      /\ Len(InitialBalances) = n /\ n <= MaxValidators
      /\ \A i \in 1..n : Fit(InitialValidators[i])
  BY GenesisAssumption DEF Fit
<1>2. state = [validators |-> InitialValidators, balances |-> InitialBalances,
               slot |-> 0, finalizedEpoch |-> 0, slashings |-> slashings,
               depositBalanceToConsume |-> 0,
               exitBalanceToConsume |-> 0, earliestExitEpoch |-> 0,
               consolidationBalanceToConsume |-> 0, earliestConsolidationEpoch |-> 0,
               pendingDeposits |-> <<>>, pendingPartialWithdrawals |-> <<>>,
               pendingConsolidations |-> <<>>, nextWithdrawalValidator |-> 1]
      /\ stage = 0 /\ supply = Worth(state)
  BY DEF Init
<1>3. slashings \in [0..(EpochsPerSlashingsVector - 1) -> Nat]
  OBVIOUS
<1>4. <<>> \in Seq(Deposit) /\ <<>> \in Seq(PartialWithdrawal) /\ <<>> \in Seq(Consolidation)
      /\ DOMAIN <<>> = {}
  OBVIOUS
<1> HIDE DEF slashings, n
<1>5. state \in RegistryState
  BY <1>1, <1>2, <1>3, <1>4 DEF RegistryState
<1>6. /\ state.validators = InitialValidators /\ state.balances = InitialBalances
      /\ state.slot = 0 /\ state.finalizedEpoch = 0 /\ state.depositBalanceToConsume = 0
      /\ state.pendingDeposits = <<>> /\ state.pendingPartialWithdrawals = <<>>
      /\ state.pendingConsolidations = <<>> /\ state.nextWithdrawalValidator = 1
  BY <1>2
<1>7. Sound(state)
  <2>1. 1 \in 1..n
    BY <1>1
  <2> QED BY <1>1, <1>4, <1>5, <1>6, <2>1 DEF Sound, Indexed, n
<1>8. MaxSlot \in Nat /\ CurrentEpoch(state) \in Nat
  BY <1>5, EpochNat, RegistryAssumption
<1> QED BY <1>2, <1>6, <1>7, <1>8 DEF RegistryInv, BudgetOf

\* and every step keeps it.
LEMMA RegistryInductive == RegistryInv /\ [Next]_vars => RegistryInv'
<1> SUFFICES ASSUME RegistryInv, [Next]_vars PROVE RegistryInv'
  OBVIOUS
<1>1. CASE NextSlot
  BY <1>1, NextSlotInv
<1>2. ASSUME NEW finalized \in FinalizedChoices, NEW i \in Known, NEW delta \in Deltas,
             NextEpoch(finalized, i, delta)
      PROVE  RegistryInv'
  BY <1>2, NextEpochInv
<1>3. CASE BeginBlock
  BY <1>3, BeginBlockInv
<1>4. ASSUME NEW i \in Offenders \cap Known, NEW proposer \in Proposers \cap Known,
             ProcessSlashing(i, proposer)
      PROVE  RegistryInv'
  BY <1>4, SlashingInv
<1>5. ASSUME NEW i \in Leavers \cap Known, ProcessVoluntaryExit(i)
      PROVE  RegistryInv'
  <2>1. /\ i \in Known /\ 3 \in 1..7 /\ Operation(3)
        /\ state' = InitiateExit(state, i) /\ supply' = supply
    BY <1>5 DEF ProcessVoluntaryExit
  <2> QED BY <2>1, ExitInv
<1>6. ASSUME NEW i \in Known, ProcessBlsToExecutionChange(i)
      PROVE  RegistryInv'
  BY <1>6, BlsChangeInv
<1>7. ASSUME NEW request \in DepositRequests, ProcessDepositRequest(request)
      PROVE  RegistryInv'
  BY <1>7, DepositRequestInv
<1>8. ASSUME NEW i \in Leavers \cap Known, FullExitRequest(i)
      PROVE  RegistryInv'
  <2>1. /\ i \in Known /\ 6 \in 1..7 /\ Operation(6)
        /\ state' = InitiateExit(state, i) /\ supply' = supply
    BY <1>8 DEF FullExitRequest
  <2> QED BY <2>1, ExitInv
<1>9. ASSUME NEW i \in Known, NEW amount \in PartialAmounts,
             PartialWithdrawalRequest(i, amount)
      PROVE  RegistryInv'
  BY <1>9, PartialRequestInv
<1>10. ASSUME NEW i \in Known, ProcessSwitchToCompounding(i)
       PROVE  RegistryInv'
  BY <1>10, SwitchInv
<1>11. ASSUME NEW c \in Consolidations, ProcessConsolidationRequest(c[1], c[2])
       PROVE  RegistryInv'
  BY <1>11, ConsolidationRequestInv
<1>12. CASE UNCHANGED vars
  BY <1>12 DEF vars, RegistryInv, CurrentEpoch
<1> QED BY <1>1, <1>2, <1>3, <1>4, <1>5, <1>6, <1>7, <1>8, <1>9, <1>10, <1>11, <1>12 DEF Next

\* Typing in the words of the component.
LEMMA TypesFollow ==
  ASSUME RegistryInv
  PROVE  TypeOK
<1> DEFINE s == state
           n == Len(s.validators)
<1>1. Sound(s) /\ s \in RegistryState /\ Indexed(s) /\ n \in Nat /\ Known = 1..n
  BY ValidatorFields DEF RegistryInv, Sound, Known
<1>2. \A i \in Known : Fit(s.validators[i])
  BY <1>1 DEF Sound
<1>3. s.slot \in 0..MaxSlot /\ s.finalizedEpoch \in 0..CurrentEpoch(s)
  <2>1. s.slot \in Nat /\ MaxSlot \in Nat /\ CurrentEpoch(s) \in Nat /\ s.finalizedEpoch \in Nat
    BY <1>1, RegistryAssumption, EpochNat DEF RegistryState
  <2> QED BY <2>1 DEF RegistryInv
<1>4. s.pendingPartialWithdrawals
        \in Seq([validator : Known, amount : Nat \ {0}, withdrawable : Nat])
  <2> DEFINE q == s.pendingPartialWithdrawals
             S == [validator : Known, amount : Nat \ {0}, withdrawable : Nat]
  <2>1. q \in Seq(PartialWithdrawal)
    BY <1>1 DEF RegistryState
  <2>2. /\ Len(q) \in Nat /\ DOMAIN q = 1..Len(q) /\ q = [k \in 1..Len(q) |-> q[k]]
        /\ \A k \in 1..Len(q) : q[k] \in PartialWithdrawal
    BY <2>1, SequenceFacts
  <2>3. \A k \in 1..Len(q) : q[k].validator \in Known
    BY <1>1, <2>2 DEF Indexed
  <2> HIDE DEF q
  <2>4. \A k \in 1..Len(q) : q[k] \in S
    BY <2>2, <2>3 DEF PartialWithdrawal
  <2> HIDE DEF S
  <2>5. q \in Seq(S)
    BY <2>2, <2>4, SequenceOf
  <2> QED BY <2>5 DEF q, S
<1>5. s.pendingConsolidations \in Seq([source : Known, target : Known])
  <2> DEFINE q == s.pendingConsolidations
             S == [source : Known, target : Known]
  <2>1. q \in Seq(Consolidation)
    BY <1>1 DEF RegistryState
  <2>2. /\ Len(q) \in Nat /\ DOMAIN q = 1..Len(q) /\ q = [k \in 1..Len(q) |-> q[k]]
        /\ \A k \in 1..Len(q) : q[k] \in Consolidation
    BY <2>1, SequenceFacts
  <2>3. \A k \in 1..Len(q) : q[k].source \in Known /\ q[k].target \in Known
    BY <1>1, <2>2 DEF Indexed
  <2> HIDE DEF q
  <2>4. \A k \in 1..Len(q) : q[k] \in S
    BY <2>2, <2>3 DEF Consolidation
  <2> HIDE DEF S
  <2>5. q \in Seq(S)
    BY <2>2, <2>4, SequenceOf
  <2> QED BY <2>5 DEF q, S
<1>6. /\ s.validators \in Seq(Validator) /\ s.balances \in Seq(Nat) /\ Len(s.balances) = n
      /\ s.slashings \in [0..(EpochsPerSlashingsVector - 1) -> Nat]
      /\ {s.depositBalanceToConsume, s.exitBalanceToConsume, s.earliestExitEpoch,
          s.consolidationBalanceToConsume, s.earliestConsolidationEpoch} \subseteq Nat
      /\ s.nextWithdrawalValidator \in Known
  BY <1>1 DEF RegistryState, Indexed
<1>7. s.pendingDeposits \in
        Seq([validator : 1..MaxValidators, credential : {"bls", "eth1", "compounding"},
             amount : Nat, signed : BOOLEAN, slot : 0..MaxSlot])
  BY <1>1 DEF RegistryState, Deposit, Credential
<1>8. stage \in 0..7
  BY DEF RegistryInv
<1> HIDE DEF s
<1> QED BY <1>2, <1>3, <1>4, <1>5, <1>6, <1>7, <1>8 DEF TypeOK, Fit, s

\* Every state is well typed, and no payload of withdrawals takes from a
\* validator what it must keep: for every registry, every queue and every limit.
THEOREM EveryPayloadKeepsStake == Spec => []WithdrawalsKeepStake
<1>1. RegistryInv => WithdrawalsKeepStake
  BY TypesFollow, StakeIsKept DEF RegistryInv, WithdrawalsKeepStake
<1> QED BY <1>1, GenesisInv, RegistryInductive, PTL DEF Spec

\* No operation, and no epoch, makes value or loses it: what validators and
\* depositors hold is what came in less what went out.
THEOREM ValueIsConserved == Spec => []ValueConserved
<1>1. RegistryInv => ValueConserved
  BY DEF RegistryInv, ValueConserved
<1> QED BY <1>1, GenesisInv, RegistryInductive, PTL DEF Spec

---------------------------------------------------------------------------
(* Exits and the queues.                                                    *)

\* What a step from s to t may make of a validator: leave its exit alone,
\* schedule one at an epoch the churn has reached, slash it.
ExitRule(v, w, s, t) ==
  /\ IF Exiting(v) THEN w.exit = v.exit /\ w.withdrawable >= v.withdrawable
     ELSE \/ w.exit = v.exit /\ w.withdrawable = v.withdrawable /\ w.slashed = v.slashed
          \/ /\ w.exit <= t.earliestExitEpoch \/ w.exit <= t.earliestConsolidationEpoch
             /\ w.withdrawable >= w.exit + MinValidatorWithdrawabilityDelay
             /\ w.slashed = v.slashed
                  => w.withdrawable = w.exit + MinValidatorWithdrawabilityDelay
  /\ Exiting(v) /\ w.slashed = v.slashed => w.withdrawable = v.withdrawable
  /\ w.slashed # v.slashed => /\ ~v.slashed /\ w.slashed
                              /\ w.withdrawable >= CurrentEpoch(s) + EpochsPerSlashingsVector

ExitRules(s, t) ==
  /\ t.earliestExitEpoch >= s.earliestExitEpoch
  /\ t.earliestConsolidationEpoch >= s.earliestConsolidationEpoch
  /\ Len(t.validators) >= Len(s.validators)
  /\ \A i \in 1..Len(s.validators) : ExitRule(s.validators[i], t.validators[i], s, t)
  /\ \A i \in (Len(s.validators) + 1)..Len(t.validators) :
       /\ ~t.validators[i].slashed
       /\ t.validators[i].exit = FarFutureEpoch
       /\ t.validators[i].withdrawable = FarFutureEpoch

\* Validators as they are, up to credentials, eligibility and activation.
SameExits(s, t) ==
  /\ Len(t.validators) = Len(s.validators)
  /\ \A i \in 1..Len(s.validators) :
       /\ t.validators[i].exit = s.validators[i].exit
       /\ t.validators[i].withdrawable = s.validators[i].withdrawable
       /\ t.validators[i].slashed = s.validators[i].slashed

\* What leaves every exit alone keeps the rules.
LEMMA RulesUntouched ==
  ASSUME NEW s \in RegistryState, NEW t, SameExits(s, t),
         t.earliestExitEpoch >= s.earliestExitEpoch,
         t.earliestConsolidationEpoch >= s.earliestConsolidationEpoch
  PROVE  ExitRules(s, t)
<1>1. /\ Len(s.validators) \in Nat
      /\ \A i \in 1..Len(s.validators) : s.validators[i].withdrawable \in Nat
  BY ValidatorFields
<1>2. (Len(s.validators) + 1)..Len(t.validators) = {}
  BY <1>1 DEF SameExits
<1>3. ASSUME NEW i \in 1..Len(s.validators)
      PROVE  ExitRule(s.validators[i], t.validators[i], s, t)
  BY <1>1 DEF SameExits, ExitRule
<1> QED BY <1>1, <1>2, <1>3 DEF ExitRules, SameExits

\* The fields of a validator whose exit is scheduled,
LEMMA ScheduledFields ==
  ASSUME NEW v \in Validator, NEW epoch \in Nat
  PROVE  LET w == Scheduled(v, epoch)
         IN /\ w.exit = epoch /\ w.withdrawable = epoch + MinValidatorWithdrawabilityDelay
            /\ w.slashed = v.slashed
  BY DEF Scheduled, Validator

\* and of one that is slashed.
LEMMA SlashedFields ==
  ASSUME NEW v \in Validator, NEW epoch \in Nat
  PROVE  LET w == Slashed(v, epoch)
         IN /\ w.exit = v.exit /\ w.slashed
            /\ w.withdrawable >= v.withdrawable
            /\ w.withdrawable >= epoch + EpochsPerSlashingsVector
<1>1. v.withdrawable \in Nat /\ epoch + EpochsPerSlashingsVector \in Nat
  BY RegistryAssumption DEF Validator
<1>2. /\ WithdrawableAfterSlashing(v, epoch) >= v.withdrawable
      /\ WithdrawableAfterSlashing(v, epoch) >= epoch + EpochsPerSlashingsVector
  BY <1>1 DEF WithdrawableAfterSlashing, Larger
<1>3. Slashed(v, epoch).withdrawable = WithdrawableAfterSlashing(v, epoch)
      /\ Slashed(v, epoch).exit = v.exit /\ Slashed(v, epoch).slashed
  <2> DEFINE w == WithdrawableAfterSlashing(v, epoch)
  <2> HIDE DEF w
  <2>1. Slashed(v, epoch) = [v EXCEPT !.slashed = TRUE, !.withdrawable = w]
    BY DEF Slashed, w
  <2>2. Slashed(v, epoch).withdrawable = w
        /\ Slashed(v, epoch).exit = v.exit /\ Slashed(v, epoch).slashed = TRUE
    BY <2>1 DEF Validator
  <2> QED BY <2>2 DEF w
<1> QED BY <1>2, <1>3

\* initiate_validator_exit keeps the rules.
LEMMA ExitRulesExit ==
  ASSUME NEW s \in RegistryState, NEW i \in 1..Len(s.validators)
  PROVE  ExitRules(s, InitiateExit(s, i))
<1> DEFINE t == InitiateExit(s, i)
           n == Len(s.validators)
           v == s.validators[i]
<1>1. /\ s.validators \in Seq(Validator) /\ n \in Nat
      /\ \A k \in 1..n : s.validators[k] \in Validator
      /\ s.earliestConsolidationEpoch \in Nat /\ s.earliestExitEpoch \in Nat
  BY ValidatorFields DEF RegistryState
<1> HIDE DEF t
<1>2. CASE Exiting(v)
  <2>1. t = s
    BY <1>2, InitiateExitType DEF t
  <2> QED BY <1>1, <2>1, RulesUntouched DEF t, SameExits
<1>3. CASE ~Exiting(v)
  <2> DEFINE e == t.earliestExitEpoch
             w == Scheduled(v, e)
  <2>1. /\ t \in RegistryState
        /\ t.validators = [s.validators EXCEPT ![i] = Scheduled(@, e)]
        /\ ChurnStep(s, t, v.effectiveBalance)
        /\ t = [s EXCEPT !.validators = t.validators,
                         !.exitBalanceToConsume = t.exitBalanceToConsume,
                         !.earliestExitEpoch = t.earliestExitEpoch]
    BY <1>3, InitiateExitType DEF t
  <2>2. e \in Nat /\ e >= s.earliestExitEpoch
        /\ t.earliestConsolidationEpoch = s.earliestConsolidationEpoch
    BY <2>1 DEF RegistryState, ChurnStep
  <2>3. v \in Validator /\ t.validators = [s.validators EXCEPT ![i] = w]
    BY <1>1, <2>1
  <2>4. /\ w \in Validator /\ w.exit = e
        /\ w.withdrawable = e + MinValidatorWithdrawabilityDelay
        /\ w.slashed = v.slashed
    <3> HIDE DEF e
    <3> QED BY <2>2, <2>3, ScheduledType, ScheduledFields
  <2> HIDE DEF w
  <2>5. Len(t.validators) = n
        /\ \A k \in 1..n : t.validators[k] = IF k = i THEN w ELSE s.validators[k]
    BY <1>1, <2>3, <2>4, SequenceReplace
  <2>6. ASSUME NEW k \in 1..n PROVE ExitRule(s.validators[k], t.validators[k], s, t)
    <3>1. e + MinValidatorWithdrawabilityDelay \in Nat
      <4>1. MinValidatorWithdrawabilityDelay \in Nat
        BY RegistryAssumption
      <4> QED BY <2>2, <4>1
    <3>2. CASE k = i
      BY <1>3, <2>2, <2>4, <2>5, <3>1, <3>2 DEF ExitRule
    <3>3. CASE k # i
      BY <1>1, <2>5, <3>3, ValidatorFields DEF ExitRule
    <3> QED BY <3>2, <3>3
  <2>7. (n + 1)..Len(t.validators) = {}
    BY <1>1, <2>5
  <2> QED BY <1>1, <2>2, <2>5, <2>6, <2>7 DEF ExitRules, t
<1> QED BY <1>2, <1>3

\* slash_validator keeps the rules.
LEMMA ExitRulesSlash ==
  ASSUME NEW s \in RegistryState, NEW i \in 1..Len(s.validators),
         NEW proposer \in 1..Len(s.validators), Len(s.balances) = Len(s.validators),
         ~s.validators[i].slashed
  PROVE  ExitRules(s, Slash(s, i, proposer))
<1> DEFINE x == InitiateExit(s, i)
           t == Slash(s, i, proposer)
           n == Len(s.validators)
           v == s.validators[i]
           u == x.validators[i]
           epoch == CurrentEpoch(s)
           w == Slashed(u, epoch)
<1>1. n \in Nat /\ epoch \in Nat
  BY ValidatorFields, EpochNat
<1>2. ExitRules(s, x)
  BY ExitRulesExit
<1>3. x \in RegistryState /\ Len(x.validators) = n /\ (Exiting(v) => x = s)
  BY InitiateExitType
<1>4. t \in RegistryState /\ SlashStep(s, x, t, i, proposer)
  BY SlashType
<1> HIDE DEF x, t
<1>5. /\ t.validators = [x.validators EXCEPT ![i] = w]
      /\ Len(t.validators) = n
      /\ t.earliestExitEpoch = x.earliestExitEpoch
      /\ t.earliestConsolidationEpoch = x.earliestConsolidationEpoch
  <2>1. /\ t.validators = [x.validators EXCEPT ![i] = w]
        /\ Len(t.validators) = n
        /\ t = [x EXCEPT !.validators = t.validators, !.balances = t.balances,
                         !.slashings = t.slashings]
    BY <1>4 DEF SlashStep
  <2> HIDE DEF w
  <2> QED BY <1>3, <2>1 DEF RegistryState
<1>6. x.validators \in Seq(Validator) /\ u \in Validator
  BY <1>3, ValidatorFields DEF RegistryState
<1>7. /\ w \in Validator /\ w.exit = u.exit /\ w.slashed
      /\ w.withdrawable >= u.withdrawable
      /\ w.withdrawable >= epoch + EpochsPerSlashingsVector
  <2> HIDE DEF u
  <2> QED BY <1>1, <1>6, SlashedType, SlashedFields
<1> HIDE DEF w
<1>8. \A k \in 1..n : t.validators[k] = IF k = i THEN w ELSE x.validators[k]
  BY <1>3, <1>5, <1>6, <1>7, SequenceReplace
<1>9. ASSUME NEW k \in 1..n PROVE ExitRule(s.validators[k], t.validators[k], s, t)
  <2>1. CASE k # i
    BY <1>2, <1>5, <1>8, <2>1 DEF ExitRules, ExitRule
  <2>2. CASE k = i /\ Exiting(v)
    <3>1. u = v /\ t.validators[k] = w /\ s.validators[k] = v /\ w.slashed # v.slashed
      BY <1>3, <1>7, <1>8, <2>2
    <3> QED BY <1>7, <2>2, <3>1 DEF ExitRule, epoch
  <2>3. CASE k = i /\ ~Exiting(v)
    <3>1. /\ u.exit <= x.earliestExitEpoch
          /\ u.withdrawable >= u.exit + MinValidatorWithdrawabilityDelay
      <4> DEFINE e == x.earliestExitEpoch
      <4>1. x.validators = [s.validators EXCEPT ![i] = Scheduled(@, e)]
        BY <2>3, InitiateExitType DEF x
      <4>2. v \in Validator /\ e \in Nat /\ i \in DOMAIN s.validators
        BY <1>3, ValidatorFields DEF RegistryState
      <4> HIDE DEF e
      <4>3. u = Scheduled(v, e)
        BY <4>1, <4>2
      <4>4. u.exit = e /\ u.withdrawable = e + MinValidatorWithdrawabilityDelay
        BY <4>2, <4>3, ScheduledFields
      <4>5. MinValidatorWithdrawabilityDelay \in Nat
        BY RegistryAssumption
      <4> QED BY <4>2, <4>4, <4>5 DEF e
    <3>2. /\ u.withdrawable \in Nat /\ w.withdrawable \in Nat
          /\ u.exit + MinValidatorWithdrawabilityDelay \in Nat
      <4>1. MinValidatorWithdrawabilityDelay \in Nat
        BY RegistryAssumption
      <4>2. u.withdrawable \in Nat /\ w.withdrawable \in Nat /\ u.exit \in Nat
        BY <1>6, <1>7 DEF Validator
      <4> QED BY <4>1, <4>2, SMTT(30)
    <3>3. w.withdrawable >= w.exit + MinValidatorWithdrawabilityDelay
      BY <1>7, <3>1, <3>2
    <3>4. t.validators[k] = w /\ s.validators[k] = v /\ w.slashed # v.slashed
      BY <1>7, <1>8, <2>3
    <3> QED BY <1>5, <1>7, <2>3, <3>1, <3>3, <3>4 DEF ExitRule, epoch
  <2> QED BY <2>1, <2>2, <2>3
<1>10. (n + 1)..Len(t.validators) = {}
  BY <1>1, <1>5
<1> QED BY <1>1, <1>2, <1>5, <1>9, <1>10 DEF ExitRules, t

\* The reservations of an epoch only ever move on.
LEMMA ReservedGrows ==
  ASSUME NEW s \in RegistryState
  PROVE  LET R == Reserved(s)
             n == Len(s.validators)
         IN \A i \in 0..n : /\ R[i].earliestExitEpoch \in Nat
                            /\ R[i].earliestExitEpoch >= s.earliestExitEpoch
                            /\ R[n].earliestExitEpoch >= R[i].earliestExitEpoch
<1> DEFINE R == Reserved(s)
           n == Len(s.validators)
           S == {j \in 0..n : \A i \in 0..j : R[j].earliestExitEpoch >= R[i].earliestExitEpoch}
<1>1. n \in Nat
  BY ValidatorFields
<1>2. R \in [0..n -> RegistryState] /\ R[0] = s
  BY ReservedFacts
<1>3. \A i \in 1..n : R[i].earliestExitEpoch >= R[i - 1].earliestExitEpoch
  BY ReservedChain
<1> HIDE DEF R, n
<1>4. \A i \in 0..n : R[i].earliestExitEpoch \in Nat
  BY <1>2 DEF RegistryState
<1>5. 0 \in S
  BY <1>1, <1>4
<1>6. ASSUME NEW j \in 1..n, j - 1 \in S PROVE j \in S
  <2>1. j \in 0..n /\ j - 1 \in 0..n
    BY <1>1
  <2>2. ASSUME NEW i \in 0..j PROVE R[j].earliestExitEpoch >= R[i].earliestExitEpoch
    <3>1. CASE i = j
      BY <1>4, <2>1, <3>1
    <3>2. CASE i \in 0..(j - 1)
      <4>1. R[j - 1].earliestExitEpoch >= R[i].earliestExitEpoch
        BY <1>6, <3>2
      <4>2. i \in 0..n
        BY <1>1, <3>2
      <4> QED BY <1>3, <1>4, <2>1, <4>1, <4>2
    <3> QED BY <1>1, <3>1, <3>2
  <2> QED BY <2>1, <2>2
<1> HIDE DEF S
<1>7. \A i \in 0..n : i \in S
  BY <1>1, <1>5, <1>6, BoundedInduction
<1>8. ASSUME NEW i \in 0..n
      PROVE  /\ R[i].earliestExitEpoch >= s.earliestExitEpoch
             /\ R[n].earliestExitEpoch >= R[i].earliestExitEpoch
  <2>1. n \in S /\ i \in S /\ 0 \in 0..i /\ i \in 0..n
    BY <1>1, <1>7
  <2> QED BY <1>2, <2>1 DEF S
<1> QED BY <1>4, <1>8 DEF R, n

\* New validators and effective balances concern no exit.
LEMMA ExitRulesGrown ==
  ASSUME NEW s \in RegistryState, NEW m \in RegistryState, NEW t, ExitRules(s, m),
         Grown(m, t), t.earliestExitEpoch = m.earliestExitEpoch,
         t.earliestConsolidationEpoch = m.earliestConsolidationEpoch
  PROVE  ExitRules(s, t)
<1>1. /\ Len(s.validators) \in Nat /\ Len(m.validators) \in Nat
      /\ Len(t.validators) \in {Len(m.validators), Len(m.validators) + 1}
      /\ Len(m.validators) >= Len(s.validators)
  BY ValidatorFields DEF Grown, ExitRules
<1>2. ASSUME NEW i \in 1..Len(m.validators)
      PROVE  /\ t.validators[i].exit = m.validators[i].exit
             /\ t.validators[i].withdrawable = m.validators[i].withdrawable
             /\ t.validators[i].slashed = m.validators[i].slashed
  <2> DEFINE e == t.validators[i].effectiveBalance
             w == t.validators[i]
  <2>1. m.validators[i] \in Validator
    BY ValidatorFields
  <2>2. w = [m.validators[i] EXCEPT !.effectiveBalance = e]
    BY DEF Grown
  <2> HIDE DEF e, w
  <2>3. /\ w.exit = m.validators[i].exit /\ w.withdrawable = m.validators[i].withdrawable
        /\ w.slashed = m.validators[i].slashed
    BY <2>1, <2>2 DEF Validator
  <2> QED BY <2>3 DEF w
<1>3. ASSUME NEW i \in 1..Len(s.validators)
      PROVE  ExitRule(s.validators[i], t.validators[i], s, t)
  <2>1. i \in 1..Len(m.validators)
    BY <1>1
  <2>2. ExitRule(s.validators[i], m.validators[i], s, m)
    BY DEF ExitRules
  <2> QED BY <1>2, <2>1, <2>2 DEF ExitRule
<1>4. ASSUME NEW i \in (Len(s.validators) + 1)..Len(t.validators)
      PROVE  /\ ~t.validators[i].slashed
             /\ t.validators[i].exit = FarFutureEpoch
             /\ t.validators[i].withdrawable = FarFutureEpoch
  <2>1. CASE i \in (Len(s.validators) + 1)..Len(m.validators)
    <3>1. i \in 1..Len(m.validators)
      BY <1>1, <2>1
    <3> QED BY <1>2, <2>1, <3>1 DEF ExitRules
  <2>2. CASE i \in (Len(m.validators) + 1)..Len(t.validators)
    BY <2>2 DEF Grown
  <2> QED BY <1>1, <2>1, <2>2
<1> QED BY <1>1, <1>3, <1>4 DEF ExitRules

\* process_epoch ejects, and delivers deposits.
LEMMA ExitRulesEpoch ==
  ASSUME RegistryInv, NEW finalized \in FinalizedChoices, NEW i \in Known,
         NEW delta \in Deltas, NextEpoch(finalized, i, delta)
  PROVE  ExitRules(state, state')
<1> DEFINE r == EpochBase(state, finalized, i, delta)
           s == EpochBalances(state, finalized, i, delta)
           u == EpochQueues(s)
           n == Len(state.validators)
           R == Reserved(r)
           t == state'
<1>1. /\ Sound(state) /\ state \in RegistryState /\ i \in 1..n /\ n \in Nat
      /\ finalized \in Nat /\ delta \in Int
  BY FinalizedNat, ValidatorFields, InputAssumption DEF RegistryInv, Sound, Known
<1>2. Sound(r) /\ Rebased(state, r, finalized)
  <2> HIDE DEF r
  <2> QED BY <1>1, EpochBaseType DEF r
<1>3. r \in RegistryState /\ r.validators = state.validators
      /\ r.earliestExitEpoch = state.earliestExitEpoch
      /\ r.slot = state.slot
  <2> HIDE DEF r
  <2> QED BY <1>1, <1>2 DEF Rebased, Sound, RegistryState
<1>4. /\ Sound(s) /\ Settled(state, s, finalized, R[n])
      /\ Len(s.validators) = n /\ \A k \in 1..n : s.validators[k] = AfterUpdates(r, k)
  <2> HIDE DEF s, r
  <2> QED BY <1>1, EpochBalancesType DEF s, r
<1>5. /\ Sound(u) /\ t = [u EXCEPT !.slot = state.slot + 1] /\ t.validators = u.validators
  <2> HIDE DEF s, u, t
  <2> QED BY EpochStep DEF s, u, t
<1>6. QueuesStep(s, u) /\ Grown(s, u)
  <2> HIDE DEF s, u
  <2> QED BY <1>4, EpochQueuesType DEF u
<1> HIDE DEF r, s, u, t
<1>7. /\ s \in RegistryState
      /\ s.earliestExitEpoch = R[n].earliestExitEpoch
      /\ s.earliestConsolidationEpoch = state.earliestConsolidationEpoch
  <2>1. s \in RegistryState
    BY <1>4 DEF Sound
  <2> HIDE DEF R, n
  <2> QED BY <1>1, <1>4, <2>1 DEF Settled, RegistryState
<1>8. /\ t.earliestExitEpoch = s.earliestExitEpoch
      /\ t.earliestConsolidationEpoch = s.earliestConsolidationEpoch
  <2>1. u \in RegistryState
    BY <1>5 DEF Sound
  <2>2. u.earliestExitEpoch = s.earliestExitEpoch
        /\ u.earliestConsolidationEpoch = s.earliestConsolidationEpoch
    BY <1>6, <1>7 DEF QueuesStep, RegistryState
  <2> QED BY <1>5, <2>1, <2>2 DEF RegistryState
<1>9. \A k \in 0..n : /\ R[k].earliestExitEpoch \in Nat
                      /\ R[k].earliestExitEpoch >= state.earliestExitEpoch
                      /\ R[n].earliestExitEpoch >= R[k].earliestExitEpoch
  BY <1>3, ReservedGrows
<1>10. ASSUME NEW k \in 1..n PROVE ExitRule(state.validators[k], s.validators[k], state, s)
  <2> DEFINE v == state.validators[k]
             w == s.validators[k]
  <2>1. /\ w \in Validator /\ w.slashed = v.slashed
        /\ k \notin Ejected(r) => w.exit = v.exit /\ w.withdrawable = v.withdrawable
        /\ k \in Ejected(r) => /\ ~Exiting(v) /\ w.exit = R[k].earliestExitEpoch
                               /\ w.withdrawable = w.exit + MinValidatorWithdrawabilityDelay
    BY <1>3, <1>4, AfterUpdatesType
  <2>2. v.withdrawable \in Nat /\ MinValidatorWithdrawabilityDelay \in Nat
    BY <1>1, ValidatorFields, RegistryAssumption
  <2> HIDE DEF v, w
  <2>3. CASE k \notin Ejected(r)
    <3> QED BY <2>1, <2>2, <2>3 DEF ExitRule, v, w
  <2>4. CASE k \in Ejected(r)
    <3>1. k \in 0..n
      BY <1>1
    <3>2. w.exit \in Nat /\ w.exit <= s.earliestExitEpoch
      BY <1>7, <1>9, <2>1, <2>4, <3>1 DEF Validator
    <3>3. w.withdrawable >= w.exit + MinValidatorWithdrawabilityDelay
      BY <2>1, <2>2, <2>4, <3>2
    <3> QED BY <2>1, <2>4, <3>2, <3>3 DEF ExitRule, v, w
  <2> QED BY <2>3, <2>4
<1>11. ExitRules(state, s)
  <2>1. (n + 1)..Len(s.validators) = {}
    BY <1>1, <1>4
  <2>2. s.earliestExitEpoch >= state.earliestExitEpoch
    BY <1>1, <1>7, <1>9
  <2>3. s.earliestConsolidationEpoch >= state.earliestConsolidationEpoch
    <3>1. state.earliestConsolidationEpoch \in Nat
      BY <1>1 DEF RegistryState
    <3> QED BY <1>7, <3>1
  <2> QED BY <1>1, <1>4, <1>10, <2>1, <2>2, <2>3 DEF ExitRules
<1>12. Grown(s, t)
  BY <1>5, <1>6 DEF Grown
<1> QED BY <1>1, <1>7, <1>8, <1>11, <1>12, ExitRulesGrown DEF t

\* The queue of partial withdrawals loses its head to a block, or gains a
\* request that falls due when the churn it reserved does.
PartialsRule(s, t) ==
  LET queue == s.pendingPartialWithdrawals
  IN \/ t.pendingPartialWithdrawals = queue
     \/ \E c \in 0..Len(queue) : t.pendingPartialWithdrawals = SubSeq(queue, c + 1, Len(queue))
     \/ \E e \in PartialWithdrawal :
          /\ t.pendingPartialWithdrawals = Append(queue, e)
          /\ e.withdrawable = t.earliestExitEpoch + MinValidatorWithdrawabilityDelay

\* The queue of consolidations loses its head to an epoch, up to one that must
\* wait, or gains a source whose exit is the last that is scheduled.
ConsolidationsRule(s, t) ==
  LET queue == s.pendingConsolidations
      left  == t.pendingConsolidations
      exits(i) == /\ t.validators[i].exit = t.earliestConsolidationEpoch
                  /\ t.validators[i].withdrawable
                       = t.earliestConsolidationEpoch + MinValidatorWithdrawabilityDelay
  IN \/ left = queue /\ CurrentEpoch(t) = CurrentEpoch(s)
     \/ \E e \in Consolidation :
          /\ left = Append(queue, e) /\ CurrentEpoch(t) = CurrentEpoch(s)
          /\ e.source \in 1..Len(s.validators) /\ ~Exiting(s.validators[e.source])
          /\ exits(e.source)
          /\ t.earliestConsolidationEpoch > CurrentEpoch(s)
     \/ \E done \in 0..Len(queue) :
          /\ left = SubSeq(queue, done + 1, Len(queue))
          /\ CurrentEpoch(t) = CurrentEpoch(s) + 1
          /\ done < Len(queue)
               => ConsolidationWaits(s, t.validators[queue[done + 1].source])

StepRules(s, t) == ExitRules(s, t) /\ PartialsRule(s, t) /\ ConsolidationsRule(s, t)

\* What most operations leave alone.
QueuesAlone(s, t) ==
  /\ t.slot = s.slot
  /\ t.pendingPartialWithdrawals = s.pendingPartialWithdrawals
  /\ t.pendingConsolidations = s.pendingConsolidations

\* The rules of exits are all, where the queues are left alone.
LEMMA RulesAlone ==
  ASSUME NEW s, NEW t, QueuesAlone(s, t), ExitRules(s, t)
  PROVE  StepRules(s, t)
<1>1. CurrentEpoch(t) = CurrentEpoch(s)
  BY DEF CurrentEpoch, QueuesAlone
<1> QED BY <1>1 DEF StepRules, PartialsRule, ConsolidationsRule, QueuesAlone

\* Step rules of an exit,
LEMMA ExitStep ==
  ASSUME NEW s, Sound(s), NEW i \in 1..Len(s.validators)
  PROVE  StepRules(s, InitiateExit(s, i))
<1> DEFINE t == InitiateExit(s, i)
<1>1. s \in RegistryState
  BY DEF Sound
<1>2. /\ t = [s EXCEPT !.validators = t.validators,
                       !.exitBalanceToConsume = t.exitBalanceToConsume,
                       !.earliestExitEpoch = t.earliestExitEpoch]
      /\ ExitRules(s, t)
  BY <1>1, ExitSound, ExitRulesExit
<1> HIDE DEF t
<1>3. QueuesAlone(s, t)
  BY <1>1, <1>2 DEF QueuesAlone, RegistryState
<1> QED BY <1>2, <1>3, RulesAlone DEF t

\* of a slashing,
LEMMA SlashingStep ==
  ASSUME NEW s, Sound(s), NEW i \in 1..Len(s.validators), NEW j \in 1..Len(s.validators),
         ~s.validators[i].slashed
  PROVE  StepRules(s, Slash(s, i, j))
<1> DEFINE x == InitiateExit(s, i)
           t == Slash(s, i, j)
<1>1. s \in RegistryState /\ Len(s.balances) = Len(s.validators)
  BY DEF Sound, Indexed
<1>2. /\ x \in RegistryState
      /\ x = [s EXCEPT !.validators = x.validators,
                       !.exitBalanceToConsume = x.exitBalanceToConsume,
                       !.earliestExitEpoch = x.earliestExitEpoch]
  BY <1>1, InitiateExitType
<1>3. t = [x EXCEPT !.validators = t.validators, !.balances = t.balances,
                    !.slashings = t.slashings]
  <2>1. SlashStep(s, x, t, i, j)
    BY <1>1, SlashType
  <2> HIDE DEF x, t
  <2> QED BY <2>1 DEF SlashStep
<1>4. ExitRules(s, t)
  BY <1>1, ExitRulesSlash
<1> HIDE DEF x, t
<1>5. QueuesAlone(s, x)
  BY <1>1, <1>2 DEF QueuesAlone, RegistryState
<1>6. QueuesAlone(x, t)
  BY <1>2, <1>3 DEF QueuesAlone, RegistryState
<1> QED BY <1>4, <1>5, <1>6, RulesAlone DEF QueuesAlone, t

\* A new credential, and perhaps less of a balance.
LEMMA CredentialStep ==
  ASSUME NEW s \in RegistryState, NEW t, NEW i \in 1..Len(s.validators), NEW c,
         t.validators = [s.validators EXCEPT ![i] = [@ EXCEPT !.credential = c]],
         t.earliestExitEpoch = s.earliestExitEpoch,
         t.earliestConsolidationEpoch = s.earliestConsolidationEpoch,
         QueuesAlone(s, t)
  PROVE  StepRules(s, t)
<1> DEFINE n == Len(s.validators)
           w == [s.validators[i] EXCEPT !.credential = c]
<1>1. /\ n \in Nat /\ s.validators = [k \in 1..n |-> s.validators[k]]
      /\ \A k \in 1..n : s.validators[k] \in Validator
      /\ s.earliestExitEpoch \in Nat /\ s.earliestConsolidationEpoch \in Nat
  BY SequenceFacts DEF RegistryState
<1>2. /\ w.exit = s.validators[i].exit /\ w.slashed = s.validators[i].slashed
      /\ w.withdrawable = s.validators[i].withdrawable
  <2>1. s.validators[i] \in Validator
    BY <1>1
  <2> QED BY <2>1 DEF Validator
<1>3. t.validators = [k \in 1..n |-> IF k = i THEN w ELSE s.validators[k]]
  <2>1. t.validators = [s.validators EXCEPT ![i] = w]
    BY <1>1
  <2> HIDE DEF w, n
  <2> QED BY <1>1, <2>1
<1> HIDE DEF w
<1>4. Len(t.validators) = n
  <2> HIDE DEF n
  <2> QED BY <1>1, <1>3
<1>5. SameExits(s, t)
  BY <1>2, <1>3, <1>4 DEF SameExits
<1>6. ExitRules(s, t)
  BY <1>1, <1>5, RulesUntouched
<1> QED BY <1>6, RulesAlone

\* of a switch to compounding,
LEMMA SwitchStep ==
  ASSUME NEW s, Sound(s), NEW i \in 1..Len(s.validators)
  PROVE  StepRules(s, SwitchToCompounding(s, i))
<1> DEFINE t == SwitchToCompounding(s, i)
<1>1. s \in RegistryState /\ Len(s.balances) = Len(s.validators)
      /\ Len(s.validators) <= MaxValidators
  BY DEF Sound, Indexed
<1>2. /\ t.validators = [s.validators EXCEPT ![i] = [@ EXCEPT !.credential = "compounding"]]
      /\ t = [s EXCEPT !.validators = t.validators, !.balances = t.balances,
                       !.pendingDeposits = t.pendingDeposits]
  BY <1>1, SwitchType
<1> HIDE DEF t
<1>3. /\ QueuesAlone(s, t) /\ t.earliestExitEpoch = s.earliestExitEpoch
      /\ t.earliestConsolidationEpoch = s.earliestConsolidationEpoch
  BY <1>1, <1>2 DEF QueuesAlone, RegistryState
<1> QED BY <1>1, <1>2, <1>3, CredentialStep DEF t

\* of a change of credentials,
LEMMA BlsChangeStep ==
  ASSUME RegistryInv, NEW i \in Known, ProcessBlsToExecutionChange(i)
  PROVE  StepRules(state, state')
<1> DEFINE s == state
           t == state'
           x == [s.validators EXCEPT ![i] = [@ EXCEPT !.credential = "eth1"]]
<1>1. s \in RegistryState /\ i \in 1..Len(s.validators)
  BY ValidatorFields DEF RegistryInv, Sound, Known
<1>2. t = [s EXCEPT !.validators = x]
  <2>1. t = [s EXCEPT !.validators[i].credential = "eth1"]
    BY DEF ProcessBlsToExecutionChange
  <2> QED BY <1>1, <2>1 DEF RegistryState
<1> HIDE DEF s, t, x
<1>3. /\ t.validators = x /\ QueuesAlone(s, t) /\ t.earliestExitEpoch = s.earliestExitEpoch
      /\ t.earliestConsolidationEpoch = s.earliestConsolidationEpoch
  BY <1>1, <1>2 DEF QueuesAlone, RegistryState
<1>4. t.validators = [s.validators EXCEPT ![i] = [@ EXCEPT !.credential = "eth1"]]
  BY <1>3 DEF x
<1> QED BY <1>1, <1>3, <1>4, CredentialStep DEF s, t

\* The epoch stays and ends as the slot goes on.
LEMMA NoBoundary ==
  ASSUME NEW a \in Nat, NEW b \in Nat \ {0}
  PROVE  /\ (a + 1) % b = 0 => (a + 1) \div b = (a \div b) + 1
         /\ (a + 1) % b # 0 => (a + 1) \div b = a \div b
<1> DEFINE q == a \div b
           p == (a + 1) \div b
           m == (a + 1) % b
<1>1. q \in Nat /\ b * q <= a /\ a < b * (q + 1)
  BY SMT
<1>2. p \in Nat /\ m \in 0..(b - 1) /\ a + 1 = (b * p) + m
  BY SMT
<1> HIDE DEF p, q, m
<1>3. p <= q + 1
  <2>1. SUFFICES ASSUME p >= q + 2 PROVE FALSE
    BY <1>1, <1>2
  <2>2. b * p >= b * (q + 2) /\ b * (q + 2) = (b * (q + 1)) + b
    BY <1>1, <1>2, <2>1
  <2>3. b * p \in Nat /\ b * (q + 1) \in Nat
    BY <1>1, <1>2
  <2> QED BY <1>1, <1>2, <2>2, <2>3
<1>4. p >= q
  <2>1. SUFFICES ASSUME p + 1 <= q PROVE FALSE
    BY <1>1, <1>2
  <2>2. b * q >= b * (p + 1) /\ b * (p + 1) = (b * p) + b
    BY <1>1, <1>2, <2>1
  <2>3. b * p \in Nat /\ b * q \in Nat
    BY <1>1, <1>2
  <2> QED BY <1>1, <1>2, <2>2, <2>3
<1>5. CASE p = q
  <2>1. b * p \in Nat /\ b * q = b * p /\ b * p <= a
    BY <1>1, <1>2, <1>5
  <2> QED BY <1>2, <1>5, <2>1 DEF p, q, m
<1>6. CASE p = q + 1
  <2>1. b * p = b * (q + 1) /\ b * p \in Nat
    BY <1>1, <1>2, <1>6
  <2>2. m = 0
    BY <1>1, <1>2, <2>1
  <2> QED BY <1>6, <2>2 DEF p, q, m
<1> QED BY <1>1, <1>2, <1>3, <1>4, <1>5, <1>6

\* of a new slot,
LEMMA NextSlotStep ==
  ASSUME RegistryInv, NextSlot
  PROVE  StepRules(state, state')
<1> DEFINE s == state
           t == state'
<1>1. s \in RegistryState /\ t = [s EXCEPT !.slot = @ + 1] /\ ~EndsEpoch(s)
  BY DEF RegistryInv, Sound, NextSlot
<1> HIDE DEF s, t
<1>2. /\ t.slot = s.slot + 1 /\ t.validators = s.validators
      /\ t.pendingPartialWithdrawals = s.pendingPartialWithdrawals
      /\ t.pendingConsolidations = s.pendingConsolidations
      /\ t.earliestExitEpoch = s.earliestExitEpoch
      /\ t.earliestConsolidationEpoch = s.earliestConsolidationEpoch
      /\ s.earliestExitEpoch \in Nat /\ s.earliestConsolidationEpoch \in Nat
  BY <1>1 DEF RegistryState
<1>3. CurrentEpoch(t) = CurrentEpoch(s)
  <2>1. s.slot \in Nat /\ SlotsPerEpoch \in Nat \ {0}
    BY <1>1, RegistryAssumption DEF RegistryState
  <2>2. (s.slot + 1) % SlotsPerEpoch # 0
    BY <1>1 DEF EndsEpoch
  <2>3. (s.slot + 1) \div SlotsPerEpoch = s.slot \div SlotsPerEpoch
    <3> DEFINE a == s.slot
               b == SlotsPerEpoch
    <3>1. a \in Nat /\ b \in Nat \ {0} /\ (a + 1) % b # 0
      BY <2>1, <2>2
    <3> HIDE DEF a, b
    <3>2. (a + 1) \div b = a \div b
      BY <3>1, NoBoundary
    <3> QED BY <3>2 DEF a, b
  <2> QED BY <1>2, <2>3 DEF CurrentEpoch
<1>4. ExitRules(s, t)
  <2>1. SameExits(s, t)
    BY <1>2 DEF SameExits
  <2>2. /\ t.earliestExitEpoch >= s.earliestExitEpoch
        /\ t.earliestConsolidationEpoch >= s.earliestConsolidationEpoch
    BY <1>2
  <2> QED BY <1>1, <2>1, <2>2, RulesUntouched
<1> QED BY <1>2, <1>3, <1>4 DEF StepRules, PartialsRule, ConsolidationsRule, s, t

\* of a deposit request,
LEMMA DepositRequestStep ==
  ASSUME RegistryInv, NEW request \in DepositRequests, ProcessDepositRequest(request)
  PROVE  StepRules(state, state')
<1> DEFINE s == state
           t == state'
<1>1. s \in RegistryState
  BY DEF RegistryInv, Sound
<1>2. \E q : t = [s EXCEPT !.pendingDeposits = q]
  BY DEF ProcessDepositRequest
<1> HIDE DEF s, t
<1>3. PICK q : t = [s EXCEPT !.pendingDeposits = q]
  BY <1>2
<1>4. /\ t.validators = s.validators /\ QueuesAlone(s, t)
      /\ t.earliestExitEpoch = s.earliestExitEpoch
      /\ t.earliestConsolidationEpoch = s.earliestConsolidationEpoch
      /\ s.earliestExitEpoch \in Nat /\ s.earliestConsolidationEpoch \in Nat
  BY <1>1, <1>3 DEF QueuesAlone, RegistryState
<1>5. ExitRules(s, t)
  BY <1>1, <1>4, RulesUntouched DEF SameExits
<1> QED BY <1>4, <1>5, RulesAlone DEF s, t

\* of the withdrawals of a block, which drop entries from the front,
LEMMA BeginBlockStep ==
  ASSUME RegistryInv, BeginBlock
  PROVE  StepRules(state, state')
<1> DEFINE s == state
           t == state'
           queue == s.pendingPartialWithdrawals
<1>1. Sound(s) /\ s \in RegistryState /\ t = ProcessWithdrawals(s)
  BY DEF RegistryInv, Sound, BeginBlock
<1>2. /\ WithdrawalsStep(s, t)
      /\ \E c \in 0..Len(queue) : t.pendingPartialWithdrawals = SubSeq(queue, c + 1, Len(queue))
  BY <1>1, WithdrawalsSound
<1> HIDE DEF s, t, queue
<1>3. /\ t.validators = s.validators /\ t.slot = s.slot
      /\ t.pendingConsolidations = s.pendingConsolidations
      /\ t.earliestExitEpoch = s.earliestExitEpoch
      /\ t.earliestConsolidationEpoch = s.earliestConsolidationEpoch
      /\ s.earliestExitEpoch \in Nat /\ s.earliestConsolidationEpoch \in Nat
  BY <1>1, <1>2 DEF WithdrawalsStep, RegistryState
<1>4. ExitRules(s, t)
  BY <1>1, <1>3, RulesUntouched DEF SameExits
<1>5. CurrentEpoch(t) = CurrentEpoch(s)
  BY <1>3 DEF CurrentEpoch
<1> QED BY <1>2, <1>3, <1>4, <1>5 DEF StepRules, PartialsRule, ConsolidationsRule, queue, s, t

\* of a partial withdrawal request, which appends one,
LEMMA PartialRequestRules ==
  ASSUME RegistryInv, NEW i \in Known, NEW amount \in PartialAmounts,
         PartialWithdrawalRequest(i, amount)
  PROVE  StepRules(state, state')
<1> DEFINE s == state
           t == state'
<1>1. Sound(s) /\ s \in RegistryState /\ i \in Nat
  BY ValidatorFields DEF RegistryInv, Sound, Known
<1>2. PICK b \in Nat \ {0} :
        LET r == ReserveExit(s, b)
            request == [validator |-> i, amount |-> b,
                        withdrawable |-> r.earliestExitEpoch + MinValidatorWithdrawabilityDelay]
        IN t = [r EXCEPT !.pendingPartialWithdrawals
                  = Append(s.pendingPartialWithdrawals, request)]
  BY <1>1, PartialRequestStep
<1> DEFINE r == ReserveExit(s, b)
           e == [validator |-> i, amount |-> b,
                 withdrawable |-> r.earliestExitEpoch + MinValidatorWithdrawabilityDelay]
           q == Append(s.pendingPartialWithdrawals, e)
<1>3. t = [r EXCEPT !.pendingPartialWithdrawals = q]
  BY <1>2
<1>4. /\ r \in RegistryState
      /\ r = [s EXCEPT !.exitBalanceToConsume = r.exitBalanceToConsume,
                       !.earliestExitEpoch = r.earliestExitEpoch]
      /\ r.earliestExitEpoch >= s.earliestExitEpoch
  BY <1>1, ReserveExitType
<1> HIDE DEF r
<1>5. e \in PartialWithdrawal
      /\ e.withdrawable = r.earliestExitEpoch + MinValidatorWithdrawabilityDelay
  <2>1. r.earliestExitEpoch \in Nat /\ MinValidatorWithdrawabilityDelay \in Nat
    BY <1>4, RegistryAssumption DEF RegistryState
  <2> QED BY <1>1, <2>1 DEF PartialWithdrawal
<1> HIDE DEF s, t, e
<1>6. q = Append(s.pendingPartialWithdrawals, e)
  OBVIOUS
<1> HIDE DEF q
<1>7. /\ r.validators = s.validators /\ r.slot = s.slot
      /\ r.pendingConsolidations = s.pendingConsolidations
      /\ r.earliestConsolidationEpoch = s.earliestConsolidationEpoch
      /\ s.earliestConsolidationEpoch \in Nat
  BY <1>1, <1>4 DEF RegistryState
<1>8. /\ t.validators = r.validators /\ t.slot = r.slot
      /\ t.pendingConsolidations = r.pendingConsolidations
      /\ t.pendingPartialWithdrawals = q
      /\ t.earliestExitEpoch = r.earliestExitEpoch
      /\ t.earliestConsolidationEpoch = r.earliestConsolidationEpoch
  BY <1>3, <1>4 DEF RegistryState
<1>9. ExitRules(s, t)
  BY <1>1, <1>4, <1>7, <1>8, RulesUntouched DEF SameExits
<1>10. CurrentEpoch(t) = CurrentEpoch(s)
  BY <1>7, <1>8 DEF CurrentEpoch
<1> QED BY <1>5, <1>6, <1>7, <1>8, <1>9, <1>10
        DEF StepRules, PartialsRule, ConsolidationsRule, s, t

\* of a consolidation request, which schedules its source's exit,
LEMMA ConsolidationRequestRules ==
  ASSUME RegistryInv, NEW source, NEW target, ProcessConsolidationRequest(source, target)
  PROVE  StepRules(state, state')
<1> DEFINE s == state
           t == state'
           n == Len(s.validators)
           src == s.validators[source]
           r == ReserveConsolidation(s, src.effectiveBalance)
           exit == r.earliestConsolidationEpoch
           left == r.consolidationBalanceToConsume
           w == Scheduled(src, exit)
           v == [s.validators EXCEPT ![source] = w]
           e == [source |-> source, target |-> target]
           q == Append(s.pendingConsolidations, e)
<1>1. Sound(s) /\ s \in RegistryState /\ n \in Nat /\ Known = 1..n
  BY ValidatorFields DEF RegistryInv, Sound, Known
<1>2. /\ source \in 1..n /\ target \in 1..n /\ ~Exiting(src)
      /\ r \in RegistryState
      /\ exit >= s.earliestConsolidationEpoch
      /\ exit >= ActivationExitEpoch(CurrentEpoch(s))
      /\ t = [s EXCEPT !.consolidationBalanceToConsume = left,
                       !.earliestConsolidationEpoch = exit,
                       !.validators = [s.validators EXCEPT ![source] = Scheduled(@, exit)],
                       !.pendingConsolidations = q]
  BY <1>1, ConsolidationRequestStep
<1>3. t = [s EXCEPT !.consolidationBalanceToConsume = left,
                    !.earliestConsolidationEpoch = exit,
                    !.validators = v, !.pendingConsolidations = q]
  <2>1. source \in DOMAIN s.validators
    BY <1>1, <1>2, ValidatorFields
  <2>2. [s.validators EXCEPT ![source] = Scheduled(@, exit)] = v
    BY <2>1
  <2> HIDE DEF v, r, q, left, exit
  <2> QED BY <1>2, <2>2
<1>4. exit \in Nat
  <2> HIDE DEF r
  <2> QED BY <1>2 DEF RegistryState
<1> HIDE DEF r, exit, left
<1>5. s.validators \in Seq(Validator) /\ src \in Validator
  BY <1>1, <1>2, ValidatorFields DEF RegistryState
<1>6. /\ w \in Validator /\ w.exit = exit /\ w.slashed = src.slashed
      /\ w.withdrawable = exit + MinValidatorWithdrawabilityDelay
  BY <1>4, <1>5, ScheduledType, ScheduledFields
<1> HIDE DEF w
<1>7. /\ Len(v) = n /\ v[source] = w
      /\ \A k \in 1..n : k # source => v[k] = s.validators[k]
  BY <1>1, <1>2, <1>5, <1>6, SequenceReplace
<1>8. e \in Consolidation /\ e.source = source
  BY <1>1, <1>2 DEF Consolidation
<1>9. q = Append(s.pendingConsolidations, e)
  OBVIOUS
<1> HIDE DEF s, t, e, q, v
<1>10. /\ t.validators = v /\ t.slot = s.slot /\ t.pendingConsolidations = q
       /\ t.earliestConsolidationEpoch = exit
       /\ t.earliestExitEpoch = s.earliestExitEpoch /\ s.earliestExitEpoch \in Nat
       /\ t.pendingPartialWithdrawals = s.pendingPartialWithdrawals
  BY <1>1, <1>3 DEF RegistryState
<1>11. CurrentEpoch(t) = CurrentEpoch(s)
  BY <1>10 DEF CurrentEpoch
<1>12. ASSUME NEW k \in 1..n PROVE ExitRule(s.validators[k], t.validators[k], s, t)
  <2>1. exit + MinValidatorWithdrawabilityDelay \in Nat
    <3>1. MinValidatorWithdrawabilityDelay \in Nat
      BY RegistryAssumption
    <3> QED BY <1>4, <3>1
  <2>2. s.validators[k].withdrawable \in Nat
    BY <1>1, ValidatorFields DEF n
  <2>3. CASE k = source
    BY <1>2, <1>4, <1>6, <1>7, <1>10, <2>1, <2>3 DEF ExitRule, src
  <2>4. CASE k # source
    BY <1>7, <1>10, <2>2, <2>4 DEF ExitRule
  <2> QED BY <2>3, <2>4
<1>13. ExitRules(s, t)
  <2>1. (n + 1)..Len(t.validators) = {}
    BY <1>1, <1>7, <1>10
  <2>2. Len(t.validators) >= n
    BY <1>1, <1>7, <1>10
  <2> QED BY <1>2, <1>10, <1>12, <2>1, <2>2 DEF ExitRules, n
<1>14. t.earliestConsolidationEpoch > CurrentEpoch(s)
  BY <1>1, <1>2, <1>4, <1>10, EpochNat
<1>15. ConsolidationsRule(s, t)
  BY <1>2, <1>6, <1>7, <1>8, <1>9, <1>10, <1>11, <1>14 DEF ConsolidationsRule, n, src
<1> QED BY <1>10, <1>13, <1>15 DEF StepRules, PartialsRule, s, t

\* A registry that has grown keeps the epochs of its validators.
LEMMA GrownFields ==
  ASSUME NEW s \in RegistryState, NEW t, Grown(s, t), NEW i \in 1..Len(s.validators)
  PROVE  /\ t.validators[i].exit = s.validators[i].exit
         /\ t.validators[i].withdrawable = s.validators[i].withdrawable
         /\ t.validators[i].slashed = s.validators[i].slashed
<1> DEFINE e == t.validators[i].effectiveBalance
           w == t.validators[i]
<1>1. s.validators[i] \in Validator
  BY ValidatorFields
<1>2. w = [s.validators[i] EXCEPT !.effectiveBalance = e]
  BY DEF Grown
<1> HIDE DEF e, w
<1>3. /\ w.exit = s.validators[i].exit /\ w.withdrawable = s.validators[i].withdrawable
      /\ w.slashed = s.validators[i].slashed
  BY <1>1, <1>2 DEF Validator
<1> QED BY <1>3 DEF w

\* and of an epoch.
LEMMA NextEpochRules ==
  ASSUME RegistryInv, NEW finalized \in FinalizedChoices, NEW i \in Known,
         NEW delta \in Deltas, NextEpoch(finalized, i, delta)
  PROVE  StepRules(state, state')
<1> DEFINE s == EpochBalances(state, finalized, i, delta)
           u == EpochQueues(s)
           n == Len(state.validators)
           last == Reserved(EpochBase(state, finalized, i, delta))[n]
           queue == state.pendingConsolidations
           t == state'
<1>1. ExitRules(state, t)
  BY ExitRulesEpoch
<1>2. /\ state \in RegistryState /\ Indexed(state) /\ i \in 1..n /\ finalized \in Nat
      /\ delta \in Int /\ Sound(state)
  BY FinalizedNat, ValidatorFields, InputAssumption DEF RegistryInv, Sound, Known
<1>3. Settled(state, s, finalized, last) /\ Len(s.validators) = n
  BY <1>2, EpochBalancesType
<1>4. /\ Sound(s) /\ Sound(u) /\ t = [u EXCEPT !.slot = state.slot + 1]
      /\ s.slot = state.slot /\ t.slot = state.slot + 1 /\ t.validators = u.validators
  <2> HIDE DEF s, u, t
  <2> QED BY EpochStep DEF s, u, t
<1>5. /\ QueuesStep(s, u) /\ Grown(s, u)
      /\ \E p : /\ p.slot = s.slot /\ Grown(s, p)
                /\ p.pendingConsolidations = s.pendingConsolidations
                /\ ConsolidationsLeft(p, u)
  <2> HIDE DEF s, u
  <2> QED BY <1>4, EpochQueuesType DEF u
<1>6. EndsEpoch(state)
  BY DEF NextEpoch
<1> HIDE DEF s, u, t, last
<1>7. /\ s \in RegistryState
      /\ s.pendingPartialWithdrawals = state.pendingPartialWithdrawals
      /\ s.pendingConsolidations = queue
  BY <1>2, <1>3, <1>4 DEF Settled, Sound, RegistryState
<1>8. u \in RegistryState /\ u.pendingPartialWithdrawals = s.pendingPartialWithdrawals
  BY <1>4, <1>5, <1>7 DEF QueuesStep, Sound, RegistryState
<1>9. /\ t.pendingPartialWithdrawals = state.pendingPartialWithdrawals
      /\ t.pendingConsolidations = u.pendingConsolidations
  BY <1>4, <1>7, <1>8 DEF RegistryState
<1>10. CurrentEpoch(t) = CurrentEpoch(state) + 1
  <2> DEFINE a == state.slot
             b == SlotsPerEpoch
  <2>1. a \in Nat /\ b \in Nat \ {0} /\ (a + 1) % b = 0
    BY <1>2, <1>6, RegistryAssumption DEF EndsEpoch, RegistryState
  <2> HIDE DEF a, b
  <2>2. (a + 1) \div b = (a \div b) + 1
    BY <2>1, NoBoundary
  <2> QED BY <1>4, <2>2 DEF a, b, CurrentEpoch
<1>11. PICK p : /\ p.slot = state.slot /\ Grown(s, p) /\ p.pendingConsolidations = queue
                /\ ConsolidationsLeft(p, u)
  BY <1>4, <1>5, <1>7
<1>12. PICK done \in 0..Len(queue) :
         /\ u.pendingConsolidations = SubSeq(queue, done + 1, Len(queue))
         /\ done < Len(queue) => ConsolidationWaits(p, p.validators[queue[done + 1].source])
  BY <1>11 DEF ConsolidationsLeft
<1>13. ASSUME done < Len(queue)
       PROVE  ConsolidationWaits(state, t.validators[queue[done + 1].source])
  <2> DEFINE k == queue[done + 1].source
  <2>1. queue \in Seq(Consolidation)
    BY <1>2 DEF RegistryState
  <2>2. Len(queue) \in Nat /\ DOMAIN queue = 1..Len(queue)
    BY <2>1, SequenceFacts
  <2>3. done + 1 \in DOMAIN queue
    BY <1>13, <2>2
  <2>4. k \in 1..Len(s.validators)
    BY <1>2, <1>3, <2>3 DEF Indexed
  <2> HIDE DEF k, queue
  <2>5. /\ p.validators[k].withdrawable = s.validators[k].withdrawable
        /\ p.validators[k].slashed = s.validators[k].slashed
        /\ u.validators[k].withdrawable = s.validators[k].withdrawable
        /\ u.validators[k].slashed = s.validators[k].slashed
    BY <1>5, <1>7, <1>11, <2>4, GrownFields
  <2>6. CurrentEpoch(p) = CurrentEpoch(state)
    BY <1>11 DEF CurrentEpoch
  <2> QED BY <1>4, <1>12, <1>13, <2>5, <2>6 DEF ConsolidationWaits, k
<1>14. ConsolidationsRule(state, t)
  <2>1. t.pendingConsolidations = SubSeq(queue, done + 1, Len(queue))
    BY <1>9, <1>12
  <2> QED BY <1>10, <1>12, <1>13, <2>1 DEF ConsolidationsRule
<1> QED BY <1>1, <1>9, <1>14 DEF StepRules, PartialsRule, t

\* Every step keeps the step rules.
LEMMA NextRules == RegistryInv /\ [Next]_vars => StepRules(state, state')
<1> SUFFICES ASSUME RegistryInv, [Next]_vars PROVE StepRules(state, state')
  OBVIOUS
<1>0. Sound(state) /\ state \in RegistryState /\ Known = 1..Len(state.validators)
  BY ValidatorFields DEF RegistryInv, Sound, Known
<1>1. CASE NextSlot
  BY <1>1, NextSlotStep
<1>2. ASSUME NEW finalized \in FinalizedChoices, NEW i \in Known, NEW delta \in Deltas,
             NextEpoch(finalized, i, delta)
      PROVE  StepRules(state, state')
  BY <1>2, NextEpochRules
<1>3. CASE BeginBlock
  BY <1>3, BeginBlockStep
<1>4. ASSUME NEW i \in Offenders \cap Known, NEW proposer \in Proposers \cap Known,
             ProcessSlashing(i, proposer)
      PROVE  StepRules(state, state')
  <2>1. state' = Slash(state, i, proposer) /\ ~state.validators[i].slashed
    BY <1>4 DEF ProcessSlashing, IsSlashable
  <2> QED BY <1>0, <2>1, SlashingStep
<1>5. ASSUME NEW i \in Leavers \cap Known, ProcessVoluntaryExit(i)
      PROVE  StepRules(state, state')
  <2>1. state' = InitiateExit(state, i)
    BY <1>5 DEF ProcessVoluntaryExit
  <2> QED BY <1>0, <2>1, ExitStep
<1>6. ASSUME NEW i \in Known, ProcessBlsToExecutionChange(i)
      PROVE  StepRules(state, state')
  BY <1>6, BlsChangeStep
<1>7. ASSUME NEW request \in DepositRequests, ProcessDepositRequest(request)
      PROVE  StepRules(state, state')
  BY <1>7, DepositRequestStep
<1>8. ASSUME NEW i \in Leavers \cap Known, FullExitRequest(i)
      PROVE  StepRules(state, state')
  <2>1. state' = InitiateExit(state, i)
    BY <1>8 DEF FullExitRequest
  <2> QED BY <1>0, <2>1, ExitStep
<1>9. ASSUME NEW i \in Known, NEW amount \in PartialAmounts,
             PartialWithdrawalRequest(i, amount)
      PROVE  StepRules(state, state')
  BY <1>9, PartialRequestRules
<1>10. ASSUME NEW i \in Known, ProcessSwitchToCompounding(i)
       PROVE  StepRules(state, state')
  <2>1. state' = SwitchToCompounding(state, i)
    BY <1>10 DEF ProcessSwitchToCompounding
  <2> QED BY <1>0, <2>1, SwitchStep
<1>11. ASSUME NEW c \in Consolidations, ProcessConsolidationRequest(c[1], c[2])
       PROVE  StepRules(state, state')
  BY <1>11, ConsolidationRequestRules
<1>12. CASE UNCHANGED vars
  <2>1. state' = state
    BY <1>12 DEF vars
  <2>2. ExitRules(state, state)
    <3> DEFINE s == state
    <3>1. /\ s \in RegistryState
          /\ s.earliestExitEpoch >= s.earliestExitEpoch
          /\ s.earliestConsolidationEpoch >= s.earliestConsolidationEpoch
      BY <1>0 DEF RegistryState
    <3> HIDE DEF s
    <3>2. ExitRules(s, s)
      BY <3>1, RulesUntouched DEF SameExits
    <3> QED BY <3>2 DEF s
  <2> QED BY <2>1, <2>2, RulesAlone DEF QueuesAlone
<1> QED BY <1>1, <1>2, <1>3, <1>4, <1>5, <1>6, <1>7, <1>8, <1>9, <1>10, <1>11, <1>12 DEF Next

\* The churn has not run up to the epoch that stands for none.
InRange(s) ==
  s.earliestExitEpoch < FarFutureEpoch /\ s.earliestConsolidationEpoch < FarFutureEpoch

EpochsInRange == InRange(state)

DelaysKept(s) ==
  \A i \in 1..Len(s.validators) :
    LET v == s.validators[i]
    IN IF Exiting(v)
       THEN /\ v.withdrawable >= v.exit + MinValidatorWithdrawabilityDelay
            /\ ~v.slashed => v.withdrawable = v.exit + MinValidatorWithdrawabilityDelay
       ELSE ~v.slashed /\ v.withdrawable = FarFutureEpoch

DueInOrder(s) ==
  LET queue == s.pendingPartialWithdrawals
  IN /\ \A k \in DOMAIN queue :
          queue[k].withdrawable <= s.earliestExitEpoch + MinValidatorWithdrawabilityDelay
     /\ \A j, k \in DOMAIN queue : j < k => queue[j].withdrawable <= queue[k].withdrawable

Source(s, k) == s.validators[s.pendingConsolidations[k].source]

\* The sources of consolidations leave in the order of the queue.
LeaveInOrder(s) ==
  /\ \A k \in DOMAIN s.pendingConsolidations :
       /\ Exiting(Source(s, k)) /\ Source(s, k).exit <= s.earliestConsolidationEpoch
       /\ Source(s, k).slashed \/ Source(s, k).withdrawable > CurrentEpoch(s)
  /\ \A j, k \in DOMAIN s.pendingConsolidations :
       j < k => Source(s, j).exit <= Source(s, k).exit

\* By the rules, the delay stays behind every exit.
LEMMA DelaysStep ==
  ASSUME NEW s \in RegistryState, NEW t \in RegistryState, ExitRules(s, t), InRange(t),
         DelaysKept(s)
  PROVE  DelaysKept(t)
<1> DEFINE n == Len(s.validators)
           m == Len(t.validators)
           d == MinValidatorWithdrawabilityDelay
<1>1. /\ n \in Nat /\ m \in Nat /\ m >= n /\ d \in Nat /\ FarFutureEpoch \in Nat
      /\ t.earliestExitEpoch \in Nat /\ t.earliestConsolidationEpoch \in Nat
      /\ t.earliestExitEpoch < FarFutureEpoch /\ t.earliestConsolidationEpoch < FarFutureEpoch
  BY ValidatorFields, RegistryAssumption DEF ExitRules, RegistryState, InRange
<1>2. ASSUME NEW i \in 1..m
      PROVE  LET w == t.validators[i]
             IN IF Exiting(w)
                THEN w.withdrawable >= w.exit + d /\ (~w.slashed => w.withdrawable = w.exit + d)
                ELSE ~w.slashed /\ w.withdrawable = FarFutureEpoch
  <2> DEFINE v == s.validators[i]
             w == t.validators[i]
  <2>1. w.exit \in Nat /\ w.withdrawable \in Nat /\ w.slashed \in BOOLEAN
    BY ValidatorFields DEF Validator
  <2>2. CASE i \in 1..n
    <3>1. v.exit \in Nat /\ v.withdrawable \in Nat /\ v.slashed \in BOOLEAN
      BY <2>2, ValidatorFields DEF Validator
    <3>2. ExitRule(v, w, s, t)
      BY <2>2 DEF ExitRules
    <3>3. IF Exiting(v)
          THEN v.withdrawable >= v.exit + d /\ (~v.slashed => v.withdrawable = v.exit + d)
          ELSE ~v.slashed /\ v.withdrawable = FarFutureEpoch
      BY <2>2 DEF DelaysKept
    <3> HIDE DEF v, w
    <3>4. CASE Exiting(v)
      BY <1>1, <2>1, <3>1, <3>2, <3>3, <3>4 DEF ExitRule, Exiting, w
    <3>5. CASE ~Exiting(v)
      <4>1. CASE w.exit = v.exit /\ w.withdrawable = v.withdrawable /\ w.slashed = v.slashed
        BY <3>3, <3>5, <4>1 DEF Exiting, w
      <4>2. CASE /\ w.exit <= t.earliestExitEpoch \/ w.exit <= t.earliestConsolidationEpoch
                 /\ w.withdrawable >= w.exit + d
                 /\ w.slashed = v.slashed => w.withdrawable = w.exit + d
        <5>1. Exiting(w)
          BY <1>1, <2>1, <4>2 DEF Exiting
        <5>2. ~w.slashed => w.slashed = v.slashed
          BY <2>1, <3>1, <3>3, <3>5
        <5> QED BY <4>2, <5>1, <5>2 DEF w
      <4> QED BY <3>2, <3>5, <4>1, <4>2 DEF ExitRule
    <3> QED BY <3>4, <3>5
  <2>3. CASE i \in (n + 1)..m
    BY <2>3 DEF ExitRules, Exiting
  <2> QED BY <1>1, <2>2, <2>3
<1> QED BY <1>2 DEF DelaysKept

\* By the rules, partial withdrawals are appended behind those due before.
LEMMA DueStep ==
  ASSUME NEW s \in RegistryState, NEW t \in RegistryState, DueInOrder(s),
         t.earliestExitEpoch >= s.earliestExitEpoch, PartialsRule(s, t)
  PROVE  DueInOrder(t)
<1> DEFINE q == s.pendingPartialWithdrawals
           r == t.pendingPartialWithdrawals
           d == MinValidatorWithdrawabilityDelay
           a == s.earliestExitEpoch
           b == t.earliestExitEpoch
<1>1. /\ q \in Seq(PartialWithdrawal) /\ a \in Nat /\ b \in Nat /\ b >= a /\ d \in Nat
  BY RegistryAssumption DEF RegistryState
<1>2. /\ Len(q) \in Nat /\ DOMAIN q = 1..Len(q)
      /\ \A k \in 1..Len(q) : q[k].withdrawable \in Nat
  <2> HIDE DEF q
  <2>1. /\ Len(q) \in Nat /\ DOMAIN q = 1..Len(q)
        /\ \A k \in 1..Len(q) : q[k] \in PartialWithdrawal
    BY <1>1, SequenceFacts
  <2> QED BY <2>1 DEF PartialWithdrawal
<1>3. /\ \A k \in DOMAIN q : q[k].withdrawable <= a + d
      /\ \A j, k \in DOMAIN q : j < k => q[j].withdrawable <= q[k].withdrawable
  BY DEF DueInOrder
<1>4. \/ r = q
      \/ \E c \in 0..Len(q) : r = SubSeq(q, c + 1, Len(q))
      \/ \E e \in PartialWithdrawal : r = Append(q, e) /\ e.withdrawable = b + d
  BY DEF PartialsRule
<1>5. SUFFICES /\ \A k \in DOMAIN r : r[k].withdrawable <= b + d
               /\ \A j, k \in DOMAIN r : j < k => r[j].withdrawable <= r[k].withdrawable
  BY DEF DueInOrder
<1> HIDE DEF q, r, a, b, d
<1>6. \A k \in DOMAIN q : q[k].withdrawable <= b + d
  BY <1>1, <1>2, <1>3
<1>7. CASE r = q
  BY <1>3, <1>6, <1>7
<1>8. ASSUME NEW c \in 0..Len(q), r = SubSeq(q, c + 1, Len(q))
      PROVE  /\ \A k \in DOMAIN r : r[k].withdrawable <= b + d
             /\ \A j, k \in DOMAIN r : j < k => r[j].withdrawable <= r[k].withdrawable
  <2>1. /\ DOMAIN r = 1..(Len(q) - c)
        /\ \A k \in 1..(Len(q) - c) : r[k] = q[c + k] /\ c + k \in 1..Len(q)
    <3>1. /\ r \in Seq(PartialWithdrawal) /\ Len(r) = Len(q) - c
          /\ \A k \in 1..(Len(q) - c) : r[k] = q[c + k]
      BY <1>1, <1>8, SequenceTail
    <3>2. DOMAIN r = 1..(Len(q) - c)
      BY <3>1, SequenceFacts
    <3> QED BY <1>2, <3>1, <3>2
  <2>2. ASSUME NEW j \in DOMAIN r, NEW k \in DOMAIN r, j < k
        PROVE  r[j].withdrawable <= r[k].withdrawable
    <3>1. c + j \in DOMAIN q /\ c + k \in DOMAIN q /\ c + j < c + k
      BY <1>2, <2>1, <2>2
    <3> QED BY <1>3, <2>1, <3>1
  <2> QED BY <1>2, <1>6, <2>1, <2>2
<1>9. ASSUME NEW e \in PartialWithdrawal, r = Append(q, e), e.withdrawable = b + d
      PROVE  /\ \A k \in DOMAIN r : r[k].withdrawable <= b + d
             /\ \A j, k \in DOMAIN r : j < k => r[j].withdrawable <= r[k].withdrawable
  <2>1. /\ DOMAIN r = 1..(Len(q) + 1) /\ r[Len(q) + 1] = e
        /\ \A k \in 1..Len(q) : r[k] = q[k]
    BY <1>1, <1>2, <1>9, SequenceAppend, SequenceFacts
  <2>2. ASSUME NEW k \in DOMAIN r PROVE r[k].withdrawable <= b + d
    <3>1. CASE k = Len(q) + 1
      BY <1>1, <1>9, <2>1, <3>1
    <3>2. CASE k \in 1..Len(q)
      BY <1>2, <1>6, <2>1, <3>2
    <3> QED BY <1>2, <2>1, <3>1, <3>2
  <2>3. ASSUME NEW j \in DOMAIN r, NEW k \in DOMAIN r, j < k
        PROVE  r[j].withdrawable <= r[k].withdrawable
    <3>1. j \in 1..Len(q)
      BY <1>2, <2>1, <2>3
    <3>2. CASE k = Len(q) + 1
      BY <1>2, <1>6, <1>9, <2>1, <3>1, <3>2
    <3>3. CASE k \in 1..Len(q)
      BY <1>2, <1>3, <2>1, <2>3, <3>1, <3>3
    <3> QED BY <1>2, <2>1, <3>2, <3>3
  <2> QED BY <2>2, <2>3
<1> QED BY <1>4, <1>7, <1>8, <1>9

\* The exit of a scheduled source stays, its withdrawal is not brought forward.
LEMMA SourceKept ==
  ASSUME NEW s \in RegistryState, NEW t \in RegistryState, ExitRules(s, t),
         NEW i \in 1..Len(s.validators), Exiting(s.validators[i])
  PROVE  /\ i \in 1..Len(t.validators)
         /\ Exiting(t.validators[i])
         /\ t.validators[i].exit = s.validators[i].exit
         /\ t.validators[i].withdrawable >= s.validators[i].withdrawable
         /\ s.validators[i].slashed => t.validators[i].slashed
<1> DEFINE v == s.validators[i]
           w == t.validators[i]
<1>1. /\ Len(s.validators) \in Nat /\ Len(t.validators) \in Nat
      /\ Len(t.validators) >= Len(s.validators) /\ ExitRule(v, w, s, t)
  BY ValidatorFields DEF ExitRules
<1>2. i \in 1..Len(t.validators)
  BY <1>1
<1>3. v \in Validator /\ w \in Validator
  BY <1>2, ValidatorFields
<1> HIDE DEF v, w
<1>4. v.slashed \in BOOLEAN /\ w.slashed \in BOOLEAN
  BY <1>3 DEF Validator
<1>5. w.exit = v.exit /\ w.withdrawable >= v.withdrawable
  BY <1>1 DEF ExitRule, v
<1>6. v.slashed => w.slashed
  BY <1>1, <1>4 DEF ExitRule
<1> QED BY <1>2, <1>5, <1>6 DEF v, w, Exiting
\* The sources of consolidations go on leaving in order, and none before it is
\* consolidated: of those an epoch leaves behind the first must wait.
LEMMA LeaveStep ==
  ASSUME NEW s \in RegistryState, NEW t \in RegistryState, Indexed(s), ExitRules(s, t),
         ConsolidationsRule(s, t), InRange(t), DelaysKept(t), LeaveInOrder(s)
  PROVE  LeaveInOrder(t)
<1> DEFINE q == s.pendingConsolidations
           r == t.pendingConsolidations
           n == Len(s.validators)
           d == MinValidatorWithdrawabilityDelay
           a == s.earliestConsolidationEpoch
           b == t.earliestConsolidationEpoch
           now == CurrentEpoch(s)
           V(k) == s.validators[q[k].source]
           W(k) == t.validators[q[k].source]
<1>1. /\ q \in Seq(Consolidation) /\ a \in Nat /\ b \in Nat /\ b >= a /\ d \in Nat
      /\ now \in Nat /\ n \in Nat /\ b < FarFutureEpoch /\ FarFutureEpoch \in Nat
  BY ValidatorFields, EpochNat, RegistryAssumption DEF RegistryState, ExitRules, InRange
<1>2. Len(q) \in Nat /\ DOMAIN q = 1..Len(q)
  <2> HIDE DEF q
  <2> QED BY <1>1, SequenceFacts
<1>3. \A k \in DOMAIN q :
        /\ q[k].source \in 1..n /\ Exiting(V(k)) /\ V(k).exit <= a
        /\ V(k).slashed \/ V(k).withdrawable > now
  BY DEF LeaveInOrder, Indexed, Source
<1>4. \A j, k \in DOMAIN q : j < k => V(j).exit <= V(k).exit
  BY DEF LeaveInOrder, Source
<1>5. ASSUME NEW k \in DOMAIN q
      PROVE  /\ V(k).exit \in Nat /\ V(k).withdrawable \in Nat
             /\ W(k).exit \in Nat /\ W(k).withdrawable \in Nat
             /\ Exiting(W(k)) /\ W(k).exit = V(k).exit /\ W(k).exit <= b
             /\ W(k).withdrawable >= V(k).withdrawable
             /\ V(k).slashed => W(k).slashed
             /\ ~W(k).slashed => W(k).withdrawable = W(k).exit + d
  <2> DEFINE i == q[k].source
  <2>1. i \in 1..n /\ Exiting(s.validators[i]) /\ s.validators[i].exit <= a
    BY <1>3
  <2> HIDE DEF i
  <2>2. /\ i \in 1..Len(t.validators) /\ Exiting(t.validators[i])
        /\ t.validators[i].exit = s.validators[i].exit
        /\ t.validators[i].withdrawable >= s.validators[i].withdrawable
        /\ s.validators[i].slashed => t.validators[i].slashed
    BY <2>1, SourceKept DEF n
  <2>3. /\ s.validators[i].exit \in Nat /\ s.validators[i].withdrawable \in Nat
        /\ t.validators[i].exit \in Nat /\ t.validators[i].withdrawable \in Nat
    BY <2>1, <2>2, ValidatorFields DEF n
  <2>4. ~t.validators[i].slashed => t.validators[i].withdrawable = t.validators[i].exit + d
    BY <2>2 DEF DelaysKept
  <2>5. t.validators[i].exit <= b
    BY <1>1, <2>1, <2>2, <2>3
  <2> QED BY <2>2, <2>3, <2>4, <2>5 DEF i
<1>6. \A j, k \in DOMAIN q : j < k => W(j).exit <= W(k).exit
  BY <1>4, <1>5
<1> DEFINE Good(k, e) == /\ Exiting(Source(t, k)) /\ Source(t, k).exit <= b
                         /\ Source(t, k).slashed \/ Source(t, k).withdrawable > e
<1>7. SUFFICES /\ \A k \in DOMAIN r : Good(k, CurrentEpoch(t))
               /\ \A j, k \in DOMAIN r : j < k => Source(t, j).exit <= Source(t, k).exit
  BY DEF LeaveInOrder
<1>8. \/ r = q /\ CurrentEpoch(t) = now
      \/ \E e \in Consolidation :
           /\ r = Append(q, e) /\ CurrentEpoch(t) = now
           /\ e.source \in 1..n
           /\ t.validators[e.source].exit = b
           /\ t.validators[e.source].withdrawable = b + d
           /\ b > now
      \/ \E done \in 0..Len(q) :
           /\ r = SubSeq(q, done + 1, Len(q))
           /\ CurrentEpoch(t) = now + 1
           /\ done < Len(q) => ConsolidationWaits(s, W(done + 1))
  BY DEF ConsolidationsRule
<1>9. \A k \in DOMAIN r : Source(t, k) = t.validators[r[k].source]
  BY DEF Source
<1>10. \A k \in DOMAIN q : W(k) = t.validators[q[k].source]
  OBVIOUS
<1> HIDE DEF q, r, a, b, d, now, n, V, W
<1>11. ASSUME NEW k \in DOMAIN q PROVE W(k).slashed \/ W(k).withdrawable > now
  BY <1>1, <1>3, <1>5
<1>12. CASE r = q /\ CurrentEpoch(t) = now
  <2>1. \A k \in DOMAIN r : Source(t, k) = W(k)
    BY <1>9, <1>10, <1>12
  <2> QED BY <1>5, <1>6, <1>11, <1>12, <2>1
<1>13. ASSUME NEW e \in Consolidation, r = Append(q, e), CurrentEpoch(t) = now,
              e.source \in 1..n, t.validators[e.source].exit = b,
              t.validators[e.source].withdrawable = b + d, b > now
       PROVE  /\ \A k \in DOMAIN r : Good(k, CurrentEpoch(t))
              /\ \A j, k \in DOMAIN r : j < k => Source(t, j).exit <= Source(t, k).exit
  <2>1. /\ DOMAIN r = 1..(Len(q) + 1) /\ r[Len(q) + 1] = e
        /\ \A k \in 1..Len(q) : r[k] = q[k]
    BY <1>1, <1>2, <1>13, SequenceAppend, SequenceFacts
  <2>2. /\ \A k \in 1..Len(q) : Source(t, k) = W(k)
        /\ Source(t, Len(q) + 1) = t.validators[e.source]
    BY <1>2, <1>9, <1>10, <2>1
  <2>3. b + d > now /\ b # FarFutureEpoch
    BY <1>1, <1>13
  <2>4. ASSUME NEW k \in DOMAIN r PROVE Good(k, CurrentEpoch(t))
    <3>1. CASE k = Len(q) + 1
      BY <1>1, <1>13, <2>2, <2>3, <3>1 DEF Exiting
    <3>2. CASE k \in 1..Len(q)
      BY <1>2, <1>5, <1>11, <1>13, <2>2, <3>2
    <3> QED BY <1>2, <2>1, <3>1, <3>2
  <2>5. ASSUME NEW j \in DOMAIN r, NEW k \in DOMAIN r, j < k
        PROVE  Source(t, j).exit <= Source(t, k).exit
    <3>1. j \in 1..Len(q)
      BY <1>2, <2>1, <2>5
    <3>2. CASE k = Len(q) + 1
      BY <1>2, <1>5, <1>13, <2>2, <3>1, <3>2
    <3>3. CASE k \in 1..Len(q)
      BY <1>2, <1>6, <2>2, <2>5, <3>1, <3>3
    <3> QED BY <1>2, <2>1, <3>2, <3>3
  <2> QED BY <2>4, <2>5
<1>14. ASSUME NEW done \in 0..Len(q), r = SubSeq(q, done + 1, Len(q)),
              CurrentEpoch(t) = now + 1,
              done < Len(q) => ConsolidationWaits(s, W(done + 1))
       PROVE  /\ \A k \in DOMAIN r : Good(k, CurrentEpoch(t))
              /\ \A j, k \in DOMAIN r : j < k => Source(t, j).exit <= Source(t, k).exit
  <2>1. /\ DOMAIN r = 1..(Len(q) - done)
        /\ \A k \in 1..(Len(q) - done) : r[k] = q[done + k] /\ done + k \in DOMAIN q
    <3>1. /\ r \in Seq(Consolidation) /\ Len(r) = Len(q) - done
          /\ \A k \in 1..(Len(q) - done) : r[k] = q[done + k]
      BY <1>1, <1>14, SequenceTail
    <3>2. DOMAIN r = 1..(Len(q) - done)
      BY <3>1, SequenceFacts
    <3> QED BY <1>2, <3>1, <3>2
  <2>2. \A k \in DOMAIN r : Source(t, k) = W(done + k) /\ done + k \in DOMAIN q
    BY <1>9, <1>10, <2>1
  <2>3. ASSUME NEW k \in DOMAIN r PROVE Good(k, now + 1)
    <3>1. done < Len(q) /\ done + 1 \in DOMAIN q /\ done + k \in DOMAIN q
          /\ (k = 1 \/ done + 1 < done + k)
      BY <1>2, <2>1
    <3>2. ~W(done + 1).slashed /\ W(done + 1).withdrawable > now + 1
      BY <1>14, <3>1 DEF ConsolidationWaits, now
    <3>3. W(done + 1).exit <= W(done + k).exit
      BY <1>5, <1>6, <3>1
    <3>4. W(done + k).slashed \/ W(done + k).withdrawable > now + 1
      BY <1>1, <1>5, <3>1, <3>2, <3>3
    <3> QED BY <1>5, <2>2, <3>1, <3>4
  <2>4. ASSUME NEW j \in DOMAIN r, NEW k \in DOMAIN r, j < k
        PROVE  Source(t, j).exit <= Source(t, k).exit
    <3>1. done + j \in DOMAIN q /\ done + k \in DOMAIN q /\ done + j < done + k
      BY <1>2, <2>1, <2>4
    <3> QED BY <1>6, <2>2, <3>1
  <2> QED BY <1>14, <2>3, <2>4
<1> HIDE DEF Good
<1> QED BY <1>8, <1>12, <1>13, <1>14

---------------------------------------------------------------------------
(* What follows for every behaviour.                                        *)

QueueInv ==
  /\ RegistryInv
  /\ DueInOrder(state)
  /\ EpochsInRange => DelaysKept(state) /\ LeaveInOrder(state)

\* The queues are empty at genesis.
LEMMA QueueGenesis == Init => QueueInv
<1> SUFFICES ASSUME Init PROVE QueueInv
  OBVIOUS
<1>1. RegistryInv
  BY GenesisInv
<1>2. /\ state.validators = InitialValidators
      /\ state.pendingPartialWithdrawals = <<>> /\ state.pendingConsolidations = <<>>
  BY DEF Init
<1>3. DueInOrder(state) /\ LeaveInOrder(state)
  BY <1>2 DEF DueInOrder, LeaveInOrder
<1>4. DelaysKept(state)
  <2>1. DOMAIN InitialValidators = 1..Len(InitialValidators)
    BY GenesisAssumption
  <2>2. \A i \in DOMAIN InitialValidators :
          LET v == InitialValidators[i]
          IN ~v.slashed /\ v.exit = FarFutureEpoch /\ v.withdrawable = FarFutureEpoch
    BY GenesisAssumption
  <2> QED BY <1>2, <2>1, <2>2 DEF DelaysKept, Exiting
<1> QED BY <1>1, <1>3, <1>4 DEF QueueInv

\* Every step keeps the order of the queues.
LEMMA QueueInductive == QueueInv /\ [Next]_vars => QueueInv'
<1> SUFFICES ASSUME QueueInv, [Next]_vars PROVE QueueInv'
  OBVIOUS
<1> DEFINE s == state
           t == state'
<1>1. RegistryInv /\ RegistryInv' /\ StepRules(s, t)
  BY RegistryInductive, NextRules DEF QueueInv
<1>2. s \in RegistryState /\ Indexed(s) /\ t \in RegistryState
  BY <1>1 DEF RegistryInv, Sound
<1>3. DueInOrder(s) /\ (InRange(s) => DelaysKept(s) /\ LeaveInOrder(s))
  BY DEF QueueInv, EpochsInRange
<1>4. SUFFICES DueInOrder(t) /\ (InRange(t) => DelaysKept(t) /\ LeaveInOrder(t))
  BY <1>1 DEF QueueInv, EpochsInRange
<1> HIDE DEF s, t
<1>5. /\ s.earliestExitEpoch \in Nat /\ t.earliestExitEpoch \in Nat
      /\ s.earliestConsolidationEpoch \in Nat /\ t.earliestConsolidationEpoch \in Nat
      /\ t.earliestExitEpoch >= s.earliestExitEpoch
      /\ t.earliestConsolidationEpoch >= s.earliestConsolidationEpoch
      /\ FarFutureEpoch \in Nat
  BY <1>1, <1>2, RegistryAssumption DEF RegistryState, StepRules, ExitRules
<1>6. DueInOrder(t)
  BY <1>1, <1>2, <1>3, <1>5, DueStep DEF StepRules
<1>7. ASSUME InRange(t) PROVE DelaysKept(t) /\ LeaveInOrder(t)
  <2>1. InRange(s)
    BY <1>5, <1>7 DEF InRange
  <2>2. DelaysKept(t)
    BY <1>1, <1>2, <1>3, <1>7, <2>1, DelaysStep DEF StepRules
  <2> QED BY <1>1, <1>2, <1>3, <1>7, <2>1, <2>2, LeaveStep DEF StepRules
<1> QED BY <1>6, <1>7

\* Until the exit queues run up to FAR_FUTURE_EPOCH: nobody is withdrawable
\* before the delay after its exit has passed, or without an exit.
THEOREM DelaysAreKept == Spec => [](EpochsInRange => WithdrawableAfterDelay)
<1>1. QueueInv => (EpochsInRange => WithdrawableAfterDelay)
  <2>1. RegistryInv => Known = 1..Len(state.validators)
    BY ValidatorFields DEF RegistryInv, Sound, Known
  <2> QED BY <2>1 DEF QueueInv, DelaysKept, WithdrawableAfterDelay
<1> QED BY <1>1, QueueGenesis, QueueInductive, PTL DEF Spec

\* Under the same condition: the three queues are left as their consumers count
\* on, however requests, slashings and epochs interleave.
THEOREM QueuesStayInOrder == Spec => [](EpochsInRange => QueuesInOrder)
<1>1. QueueInv => PartialsSorted
  BY DEF QueueInv, DueInOrder, PartialsSorted
<1>2. QueueInv => DepositBudgetNotHoarded
  BY DEF QueueInv, RegistryInv, BudgetOf, DepositBudgetNotHoarded
<1>3. QueueInv => (EpochsInRange => ConsolidationsBeatSweep)
  BY DEF QueueInv, LeaveInOrder, Source, ConsolidationsBeatSweep
<1>4. QueueInv => (EpochsInRange => QueuesInOrder)
  BY <1>1, <1>2, <1>3 DEF QueuesInOrder
<1> QED BY <1>4, QueueGenesis, QueueInductive, PTL DEF Spec

\* Under the same condition: the correlation penalty of a slashed validator lies
\* ahead when it is slashed, and is not moved afterwards.
THEOREM PenaltyStaysAhead == Spec => [][EpochsInRange' => PenaltyAhead]_vars
<1>1. QueueInv /\ [Next]_vars => (EpochsInRange' => PenaltyAhead)
  <2> SUFFICES ASSUME QueueInv, [Next]_vars, EpochsInRange' PROVE PenaltyAhead
    OBVIOUS
  <2> DEFINE s == state
             t == state'
  <2>1. RegistryInv /\ RegistryInv' /\ StepRules(s, t)
    BY RegistryInductive, NextRules DEF QueueInv
  <2>2. /\ s \in RegistryState /\ t \in RegistryState
        /\ Known = 1..Len(s.validators) /\ CurrentEpoch(s) \in Nat
    BY <2>1, ValidatorFields, EpochNat DEF RegistryInv, Sound, Known
  <2>3. DelaysKept(s)
    <3>1. EpochsInRange
      <4>1. InRange(t)
        BY DEF EpochsInRange
      <4> HIDE DEF s, t
      <4>2. /\ s.earliestExitEpoch \in Nat /\ t.earliestExitEpoch \in Nat
            /\ s.earliestConsolidationEpoch \in Nat /\ t.earliestConsolidationEpoch \in Nat
            /\ t.earliestExitEpoch >= s.earliestExitEpoch
            /\ t.earliestConsolidationEpoch >= s.earliestConsolidationEpoch
            /\ FarFutureEpoch \in Nat
        BY <2>1, <2>2, RegistryAssumption DEF RegistryState, StepRules, ExitRules
      <4>3. InRange(s)
        BY <4>1, <4>2 DEF InRange
      <4> QED BY <4>3 DEF EpochsInRange, s
    <3> QED BY <3>1 DEF QueueInv
  <2>4. EpochsPerSlashingsVector - (EpochsPerSlashingsVector \div 2) >= 1
    BY RegistryAssumption
  <2>5. ASSUME NEW i \in Known
        PROVE  LET v == s.validators[i]
                   w == t.validators[i]
               IN /\ ~v.slashed /\ w.slashed => PenaltyEpoch(w) > CurrentEpoch(s)
                  /\ v.slashed => w.slashed /\ w.withdrawable = v.withdrawable
    <3> DEFINE v == s.validators[i]
               w == t.validators[i]
               e == EpochsPerSlashingsVector
               h == EpochsPerSlashingsVector \div 2
               now == CurrentEpoch(s)
    <3>1. /\ ExitRule(v, w, s, t) /\ i \in 1..Len(t.validators)
          /\ IF Exiting(v) THEN TRUE ELSE ~v.slashed
      <4>1. /\ Len(s.validators) \in Nat /\ Len(t.validators) \in Nat
            /\ Len(t.validators) >= Len(s.validators) /\ i \in 1..Len(s.validators)
        BY <2>1, <2>2, ValidatorFields DEF StepRules, ExitRules
      <4>2. i \in 1..Len(t.validators)
        BY <4>1
      <4>3. ExitRule(v, w, s, t)
        BY <2>1, <4>1 DEF StepRules, ExitRules
      <4>4. IF Exiting(v) THEN TRUE ELSE ~v.slashed
        BY <2>3, <4>1 DEF DelaysKept
      <4> QED BY <4>2, <4>3, <4>4
    <3>2. v \in Validator /\ w \in Validator
      BY <2>2, <3>1, ValidatorFields
    <3>3. e \in Nat /\ h \in Nat /\ e - h >= 1
      BY <2>4, RegistryAssumption
    <3> HIDE DEF v, w, s, t, e, h
    <3>4. v.slashed \in BOOLEAN /\ w.slashed \in BOOLEAN /\ w.withdrawable \in Nat
      BY <3>2 DEF Validator
    <3>5. ~v.slashed /\ w.slashed => w.withdrawable >= now + e
      BY <3>1 DEF ExitRule, e
    <3>6. v.slashed => w.slashed /\ w.withdrawable = v.withdrawable
      BY <3>1, <3>4 DEF ExitRule
    <3>7. w.withdrawable >= now + e => w.withdrawable - h > now
      BY <2>2, <3>3, <3>4
    <3> QED BY <3>5, <3>6, <3>7 DEF PenaltyEpoch, v, w, h
  <2> QED BY <2>5 DEF PenaltyAhead
<1> QED BY <1>1, QueueGenesis, QueueInductive, PTL DEF Spec

---------------------------------------------------------------------------
(* The exit churn.                                                          *)

LogEntry == [validator : Nat, epoch : Nat, amount : Nat]

\* What was let out after an entry of the log and what is left of the budget fit
\* the churn limits from its epoch on, up to earliest.
LogBounded(log, budget, earliest) ==
  LET max == MaxPerEpochActivationExitChurnLimit
  IN /\ log \in Seq(LogEntry)
     /\ budget <= max
     /\ \A f \in DOMAIN log :
          /\ log[f].epoch <= earliest
          /\ SumFunctionOnSet(Amounts(log), (f + 1)..Len(log)) + budget
               <= max * (earliest - log[f].epoch + 1)
     /\ \A f, l \in DOMAIN log :
          f < l => SumFunctionOnSet(Amounts(log), (f + 1)..l)
                     <= max * (log[l].epoch - log[f].epoch + 1)

\* Churn of balance from one budget and epoch to another.
Lets(c, e, d, g, balance) ==
  /\ g >= e
  /\ d + balance <= c + MaxPerEpochActivationExitChurnLimit * (g - e)
  /\ c <= MaxPerEpochActivationExitChurnLimit => d <= MaxPerEpochActivationExitChurnLimit

\* A span of epochs and its continuation.
LEMMA Stretch ==
  ASSUME NEW B \in Nat, NEW a \in Nat, NEW e \in Nat, NEW g \in Nat, a <= e, e <= g
  PROVE  /\ B * (g - e) \in Nat
         /\ B * (e - a + 1) + B * (g - e) = B * (g - a + 1)
<1> DEFINE x == e - a + 1
           y == g - e
<1>1. x \in Nat /\ y \in Nat /\ x + y = g - a + 1
  OBVIOUS
<1> HIDE DEF x, y
<1>2. B * y \in Nat /\ B * x + B * y = B * (x + y)
  BY <1>1
<1> QED BY <1>1, <1>2 DEF x, y

\* The sum over a span of the log.
LEMMA LogAmounts ==
  ASSUME NEW log \in Seq(LogEntry), NEW a \in Nat, NEW b \in Nat, b <= Len(log)
  PROVE  /\ SumFunctionOnSet(Amounts(log), (a + 1)..b) \in Nat
         /\ \A k \in 1..Len(log) : Amounts(log)[k] = log[k].amount /\ log[k].amount \in Nat
<1>1. /\ Len(log) \in Nat /\ DOMAIN log = 1..Len(log)
      /\ \A k \in 1..Len(log) : log[k] \in LogEntry
  BY SequenceFacts
<1> DEFINE f == Amounts(log)
           S == (a + 1)..b
<1>2. \A k \in 1..Len(log) : f[k] = log[k].amount /\ log[k].amount \in Nat
  BY <1>1 DEF Amounts, LogEntry
<1>3. IsFiniteSet(S) /\ \A k \in S : f[k] \in Nat
  <2>1. \A k \in S : k \in 1..Len(log)
    BY <1>1
  <2>2. IsFiniteSet(S)
    <3>1. a + 1 \in Int /\ b \in Int
      OBVIOUS
    <3> QED BY <3>1, FS_Interval
  <2> HIDE DEF f
  <2> QED BY <1>2, <2>1, <2>2
<1> HIDE DEF f, S
<1>4. SumFunctionOnSet(f, S) \in Nat
  BY <1>3, SumNatural
<1> QED BY <1>2, <1>4 DEF f, S

\* The budget and its epoch move on without an entry in the log.
LEMMA LogMoves ==
  ASSUME NEW log, NEW c \in Nat, NEW e \in Nat, NEW d \in Nat, NEW g \in Nat,
         NEW balance \in Nat, LogBounded(log, c, e), Lets(c, e, d, g, balance)
  PROVE  LogBounded(log, d, g)
<1> DEFINE B == MaxPerEpochActivationExitChurnLimit
           Rest(f) == SumFunctionOnSet(Amounts(log), (f + 1)..Len(log))
<1>1. /\ B \in Nat /\ log \in Seq(LogEntry) /\ g >= e /\ c <= B /\ d <= B
      /\ d + balance <= c + B * (g - e)
  BY RegistryAssumption DEF LogBounded, Lets
<1>2. ASSUME NEW f \in DOMAIN log
      PROVE  log[f].epoch <= g /\ Rest(f) + d <= B * (g - log[f].epoch + 1)
  <2> DEFINE a == log[f].epoch
             r == Rest(f)
  <2>1. Len(log) \in Nat /\ f \in 1..Len(log) /\ log[f] \in LogEntry
    BY <1>1, SequenceFacts
  <2>2. a \in Nat /\ a <= e /\ r + c <= B * (e - a + 1)
    BY <2>1 DEF LogBounded, LogEntry
  <2>3. r \in Nat
    BY <1>1, <2>1, LogAmounts
  <2> HIDE DEF r, a, B
  <2>4. B * (g - e) \in Nat /\ B * (e - a + 1) + B * (g - e) = B * (g - a + 1)
    BY <1>1, <2>2, Stretch
  <2> DEFINE x == B * (e - a + 1)
             y == B * (g - e)
             z == B * (g - a + 1)
  <2>5. x \in Nat /\ y \in Nat /\ z \in Nat
    BY <1>1, <2>2
  <2>6. x + y = z /\ r + c <= x /\ d + balance <= c + y
    BY <1>1, <2>2, <2>4
  <2> HIDE DEF x, y, z
  <2>7. r + d <= z
    BY <2>3, <2>5, <2>6
  <2> QED BY <1>1, <2>2, <2>7 DEF z, r, a
<1> QED BY <1>1, <1>2 DEF LogBounded

\* A reservation is made and logged.
LEMMA LogGrows ==
  ASSUME NEW log, NEW c \in Nat, NEW e \in Nat, NEW d \in Nat, NEW g \in Nat,
         NEW x \in LogEntry, LogBounded(log, c, e), x.epoch = g, Lets(c, e, d, g, x.amount)
  PROVE  LogBounded(Append(log, x), d, g)
<1> DEFINE B == MaxPerEpochActivationExitChurnLimit
           n == Len(log)
           new == Append(log, x)
           Sum(l, f, k) == SumFunctionOnSet(Amounts(l), (f + 1)..k)
<1>1. /\ B \in Nat /\ log \in Seq(LogEntry) /\ g >= e /\ c <= B /\ d <= B
      /\ x.amount \in Nat /\ d + x.amount <= c + B * (g - e)
  BY RegistryAssumption DEF LogBounded, Lets, LogEntry
<1>2. /\ n \in Nat /\ DOMAIN log = 1..n /\ \A k \in 1..n : log[k] \in LogEntry
  BY <1>1, SequenceFacts
<1>3. /\ new \in Seq(LogEntry) /\ Len(new) = n + 1 /\ DOMAIN new = 1..(n + 1)
      /\ new[n + 1] = x /\ \A k \in 1..n : new[k] = log[k]
  <2>1. new \in Seq(LogEntry) /\ Len(new) = n + 1
        /\ new[n + 1] = x /\ \A k \in 1..n : new[k] = log[k]
    BY <1>1, SequenceAppend
  <2>2. DOMAIN new = 1..(n + 1)
    BY <2>1, SequenceFacts
  <2> QED BY <2>1, <2>2
<1> HIDE DEF new, n, B
<1>4. /\ \A k \in 1..n : Amounts(log)[k] = log[k].amount /\ log[k].amount \in Nat
      /\ \A k \in 1..(n + 1) : Amounts(new)[k] = new[k].amount /\ new[k].amount \in Nat
  <2>1. 0 \in Nat /\ 0 <= Len(log) /\ 0 <= Len(new)
    BY <1>2, <1>3 DEF n
  <2> QED BY <1>1, <1>3, <2>1, LogAmounts DEF n
<1>5. ASSUME NEW f \in Nat, NEW k \in Nat, k <= n
      PROVE  Sum(new, f, k) = Sum(log, f, k) /\ Sum(log, f, k) \in Nat
  <2> DEFINE S == (f + 1)..k
  <2>0. f + 1 \in Int /\ k \in Int
    OBVIOUS
  <2>1. IsFiniteSet(S) /\ \A j \in S : j \in 1..n /\ j \in 1..(n + 1)
    <3>1. IsFiniteSet(S)
      BY <2>0, FS_Interval
    <3>2. \A j \in S : j \in 1..n /\ j \in 1..(n + 1)
      BY <1>2, <1>5
    <3> QED BY <3>1, <3>2
  <2>2. \A j \in S : Amounts(log)[j] \in Int /\ Amounts(new)[j] = Amounts(log)[j]
    BY <1>3, <1>4, <2>1
  <2>3. SumFunctionOnSet(Amounts(log), S) = SumFunctionOnSet(Amounts(new), S)
    <3> HIDE DEF S
    <3> QED BY <2>1, <2>2, SumEqual
  <2>4. Sum(log, f, k) \in Nat
    BY <1>1, <1>5, LogAmounts DEF n
  <2> QED BY <2>3, <2>4
<1>6. ASSUME NEW f \in 1..n
      PROVE  Sum(new, f, n + 1) = Sum(log, f, n) + x.amount
  <2> DEFINE T == (f + 1)..n
             F == Amounts(new)
  <2>1. (f + 1)..(n + 1) = T \cup {n + 1} /\ T \in SUBSET (1..n)
    BY <1>2
  <2>2. /\ \A k \in 1..(n + 1) : F[k] \in Int
        /\ F[n + 1] = x.amount
    BY <1>2, <1>3, <1>4
  <2> HIDE DEF F, T
  <2>3. SumFunctionOnSet(F, T \cup {n + 1}) = SumFunctionOnSet(F, T) + F[n + 1]
    BY <1>2, <2>1, <2>2, LastInsert
  <2>4. Sum(new, f, n) = Sum(log, f, n)
    <3>1. f \in Nat /\ n \in Nat /\ n <= n
      BY <1>2
    <3> HIDE DEF Sum
    <3> QED BY <1>5, <3>1
  <2> QED BY <2>1, <2>2, <2>3, <2>4 DEF F, T
<1>7. ASSUME NEW f \in 1..n
      PROVE  /\ new[f].epoch <= g
             /\ Sum(new, f, n + 1) + d <= B * (g - new[f].epoch + 1)
             /\ Sum(new, f, n + 1) <= B * (g - new[f].epoch + 1)
  <2> DEFINE a == log[f].epoch
             r == Sum(log, f, n)
             u == B * (e - a + 1)
             y == B * (g - e)
             z == B * (g - a + 1)
             m == x.amount
  <2>1. a \in Nat /\ a <= e /\ r + c <= u
    BY <1>2 DEF LogBounded, LogEntry, n, B
  <2>2. r \in Nat
    <3>1. f \in Nat /\ n \in Nat /\ n <= n
      BY <1>2
    <3> HIDE DEF Sum
    <3> QED BY <1>5, <3>1
  <2>3. u \in Nat /\ y \in Nat /\ z \in Nat /\ u + y = z
    <3> HIDE DEF a
    <3>1. B * (g - e) \in Nat /\ B * (e - a + 1) + B * (g - e) = B * (g - a + 1)
      BY <1>1, <2>1, Stretch
    <3> QED BY <1>1, <2>1, <3>1
  <2>4. d + m <= c + y /\ m \in Nat
    BY <1>1
  <2>5. Sum(new, f, n + 1) = r + m /\ new[f].epoch = a
    BY <1>3, <1>6
  <2> HIDE DEF r, u, y, z, m, a
  <2>6. r + m + d <= z /\ r + m <= z /\ a <= g
    BY <1>1, <2>1, <2>2, <2>3, <2>4
  <2> QED BY <2>5, <2>6 DEF z
<1>8. Sum(new, n + 1, n + 1) = 0
  <2>1. ((n + 1) + 1)..(n + 1) = {}
    BY <1>2
  <2> QED BY <2>1, SumEmpty
<1>9. ASSUME NEW f \in DOMAIN new
      PROVE  /\ new[f].epoch <= g
             /\ Sum(new, f, n + 1) + d <= B * (g - new[f].epoch + 1)
  <2>1. CASE f \in 1..n
    BY <1>7, <2>1
  <2>2. CASE f = n + 1
    <3>1. new[f].epoch = g /\ B * (g - g + 1) = B
      BY <1>1, <1>3, <2>2
    <3>2. Sum(new, f, n + 1) + d = d
      BY <1>8, <2>2
    <3> QED BY <1>1, <3>1, <3>2
  <2> QED BY <1>2, <1>3, <2>1, <2>2
<1>10. ASSUME NEW f \in DOMAIN new, NEW l \in DOMAIN new, f < l
       PROVE  Sum(new, f, l) <= B * (new[l].epoch - new[f].epoch + 1)
  <2>1. f \in 1..n
    BY <1>2, <1>3, <1>10
  <2>2. CASE l = n + 1
    BY <1>3, <1>7, <2>1, <2>2
  <2>3. CASE l \in 1..n
    <3>1. Sum(log, f, l) <= B * (log[l].epoch - log[f].epoch + 1)
      BY <1>2, <1>10, <2>1, <2>3 DEF LogBounded, B
    <3>2. Sum(new, f, l) = Sum(log, f, l)
      <4>1. f \in Nat /\ l \in Nat /\ l <= n
        BY <1>2, <2>1, <2>3
      <4> HIDE DEF Sum
      <4> QED BY <1>5, <4>1
    <3> QED BY <1>3, <2>1, <2>3, <3>1, <3>2
  <2> QED BY <1>2, <1>3, <2>2, <2>3
<1> QED BY <1>1, <1>3, <1>9, <1>10 DEF LogBounded, B, new

---------------------------------------------------------------------------
(* The log of a step.                                                       *)

\* Validator i is scheduled to leave between s and t.
Leaves(s, t, i) == ~Exiting(s.validators[i]) /\ Exiting(t.validators[i])

Entry(s, t, i) == [validator |-> i, epoch |-> t.validators[i].exit,
                   amount |-> s.validators[i].effectiveBalance]

IsLog(s, t, f) ==
  f = [i \in 0..Len(s.validators) |->
         IF i = 0 THEN exitLog
         ELSE IF Leaves(s, t, i) THEN Append(f[i - 1], Entry(s, t, i))
         ELSE f[i - 1]]

LogOf(s, t) == CHOOSE f : IsLog(s, t, f)

\* The log of an epoch, as a recursion over the validators.
LEMMA LoggedIs ==
  ASSUME NEW s, NEW t
  PROVE  Logged(s, t) = LogOf(s, t)[Len(s.validators)]
BY DEF Logged, LogOf, IsLog, Leaves, Entry

\* An entry of the log.
LEMMA EntryType ==
  ASSUME NEW s \in RegistryState, NEW t \in RegistryState, NEW i \in 1..Len(s.validators),
         Len(t.validators) >= Len(s.validators)
  PROVE  /\ Entry(s, t, i) \in LogEntry
         /\ Entry(s, t, i).epoch = t.validators[i].exit
         /\ Entry(s, t, i).amount = s.validators[i].effectiveBalance
<1>1. i \in 1..Len(t.validators) /\ i \in Nat
  BY ValidatorFields
<1>2. t.validators[i].exit \in Nat /\ s.validators[i].effectiveBalance \in Nat
  BY <1>1, ValidatorFields
<1> QED BY <1>1, <1>2 DEF Entry, LogEntry

\* The recursion, unfolded.
LEMMA LogFacts ==
  ASSUME NEW s \in RegistryState, NEW t \in RegistryState, exitLog \in Seq(LogEntry),
         Len(t.validators) >= Len(s.validators)
  PROVE  LET f == LogOf(s, t)
         IN /\ f[0] = exitLog
            /\ \A i \in 1..Len(s.validators) :
                 f[i] = IF Leaves(s, t, i) THEN Append(f[i - 1], Entry(s, t, i)) ELSE f[i - 1]
<1> DEFINE n == Len(s.validators)
           Z == Seq(LogEntry)
           start == exitLog
           step == [p \in (1..n) \X Z |->
                      IF Leaves(s, t, p[1]) THEN Append(p[2], Entry(s, t, p[1])) ELSE p[2]]
<1>1. n \in Nat /\ \A i \in 1..n : Entry(s, t, i) \in LogEntry
  BY ValidatorFields, EntryType
<1> HIDE DEF n
<1>2. Closed(step, n, Z)
  <2>1. ASSUME NEW i \in 1..n, NEW z \in Z PROVE step[<<i, z>>] \in Z
    <3>1. Append(z, Entry(s, t, i)) \in Z
      BY <1>1, SequenceAppend
    <3> QED BY <3>1
  <2> QED BY <2>1 DEF Closed
<1>3. PICK f \in [0..n -> Z] : Follows(f, start, step, n)
  <2> HIDE DEF step, Z, start
  <2>1. start \in Z
    BY DEF Z, start
  <2> QED BY ONLY <1>1, <1>2, <2>1, BoundedRecursion
<1>4. \A i \in 1..n : f[i] = IF Leaves(s, t, i) THEN Append(f[i - 1], Entry(s, t, i)) ELSE f[i - 1]
  <2> TAKE i \in 1..n
  <2>1. i - 1 \in 0..n
    BY <1>1
  <2>2. f[i - 1] \in Z
    BY <1>3, <2>1
  <2> QED BY <1>3, <2>2 DEF Follows
<1>5. IsLog(s, t, f)
  <2> DEFINE g == [i \in 0..n |-> IF i = 0 THEN exitLog
                     ELSE IF Leaves(s, t, i) THEN Append(f[i - 1], Entry(s, t, i))
                     ELSE f[i - 1]]
  <2>1. \A i \in 0..n : f[i] = g[i]
    <3> TAKE i \in 0..n
    <3>1. CASE i = 0
      BY <1>3, <3>1 DEF Follows
    <3>2. CASE i \in 1..n
      <4>1. i # 0
        BY <1>1, <3>2
      <4> DEFINE z == IF Leaves(s, t, i) THEN Append(f[i - 1], Entry(s, t, i)) ELSE f[i - 1]
      <4>2. f[i] = z
        BY <1>4, <3>2
      <4> QED BY <4>1, <4>2
    <3> QED BY <1>1, <3>1, <3>2
  <2>2. f = g
    BY <1>3, <2>1
  <2> QED BY <2>2 DEF IsLog, n
<1>6. IsLog(s, t, LogOf(s, t))
  BY <1>5 DEF LogOf
<1> DEFINE r == LogOf(s, t)
<1>7. r = [i \in 0..n |-> IF i = 0 THEN exitLog
             ELSE IF Leaves(s, t, i) THEN Append(r[i - 1], Entry(s, t, i)) ELSE r[i - 1]]
  BY <1>6 DEF IsLog, n
<1> HIDE DEF r
<1>8. r[0] = exitLog
  BY <1>1, <1>7
<1>9. \A i \in 1..n : r[i] = IF Leaves(s, t, i) THEN Append(r[i - 1], Entry(s, t, i)) ELSE r[i - 1]
  <2> TAKE i \in 1..n
  <2>1. i \in 0..n /\ i # 0
    BY <1>1
  <2> QED BY <1>7, <2>1
<1> QED BY <1>8, <1>9 DEF r, n

\* Budgets and epochs of a chain of reservations, one per validator at most.
Chain(s, t, c, e) ==
  /\ c \in [0..Len(s.validators) -> Nat]
  /\ e \in [0..Len(s.validators) -> Nat]
  /\ \A i \in 1..Len(s.validators) :
       \/ ~Leaves(s, t, i) /\ c[i] = c[i - 1] /\ e[i] = e[i - 1]
       \/ /\ Lets(c[i - 1], e[i - 1], c[i], e[i], s.validators[i].effectiveBalance)
          /\ Leaves(s, t, i) => t.validators[i].exit = e[i]

\* The exits of a step, each reserved after the one before, stay in bounds.
LEMMA LogOfChain ==
  ASSUME NEW s \in RegistryState, NEW t \in RegistryState,
         Len(t.validators) >= Len(s.validators),
         NEW c, NEW e, Chain(s, t, c, e), LogBounded(exitLog, c[0], e[0])
  PROVE  LogBounded(Logged(s, t), c[Len(s.validators)], e[Len(s.validators)])
<1> DEFINE n == Len(s.validators)
           f == LogOf(s, t)
           S == {i \in 0..n : LogBounded(f[i], c[i], e[i])}
<1>1. /\ n \in Nat /\ \A i \in 1..n : s.validators[i].effectiveBalance \in Nat
      /\ c \in [0..n -> Nat] /\ e \in [0..n -> Nat]
  BY ValidatorFields DEF Chain
<1>2. /\ f[0] = exitLog
      /\ \A i \in 1..n :
           f[i] = IF Leaves(s, t, i) THEN Append(f[i - 1], Entry(s, t, i)) ELSE f[i - 1]
  BY LogFacts DEF LogBounded
<1> HIDE DEF f, n
<1>3. 0 \in S
  BY <1>1, <1>2
<1>4. ASSUME NEW i \in 1..n, i - 1 \in S PROVE i \in S
  <2>1. /\ i \in 0..n /\ i - 1 \in 0..n
        /\ c[i] \in Nat /\ e[i] \in Nat /\ c[i - 1] \in Nat /\ e[i - 1] \in Nat
    BY <1>1
  <2>2. LogBounded(f[i - 1], c[i - 1], e[i - 1])
    BY <1>4
  <2>3. \/ ~Leaves(s, t, i) /\ c[i] = c[i - 1] /\ e[i] = e[i - 1]
        \/ /\ Lets(c[i - 1], e[i - 1], c[i], e[i], s.validators[i].effectiveBalance)
           /\ Leaves(s, t, i) => t.validators[i].exit = e[i]
    BY DEF Chain, n
  <2>4. CASE ~Leaves(s, t, i) /\ c[i] = c[i - 1] /\ e[i] = e[i - 1]
    BY <1>2, <2>1, <2>2, <2>4
  <2>5. CASE /\ Lets(c[i - 1], e[i - 1], c[i], e[i], s.validators[i].effectiveBalance)
             /\ Leaves(s, t, i) => t.validators[i].exit = e[i]
    <3>1. CASE Leaves(s, t, i)
      <4> DEFINE x == Entry(s, t, i)
      <4>1. /\ x \in LogEntry /\ x.epoch = e[i]
            /\ Lets(c[i - 1], e[i - 1], c[i], e[i], x.amount)
        BY <2>5, <3>1, EntryType DEF n
      <4> HIDE DEF x
      <4>2. LogBounded(Append(f[i - 1], x), c[i], e[i])
        BY <2>1, <2>2, <4>1, LogGrows
      <4> QED BY <1>2, <2>1, <3>1, <4>2 DEF x
    <3>2. CASE ~Leaves(s, t, i)
      <4>1. LogBounded(f[i - 1], c[i], e[i])
        BY <1>1, <2>1, <2>2, <2>5, LogMoves, SMTT(30)
      <4> QED BY <1>2, <2>1, <3>2, <4>1
    <3> QED BY <3>1, <3>2
  <2> QED BY <2>3, <2>4, <2>5
<1> HIDE DEF S
<1>5. \A i \in 0..n : i \in S
  BY <1>1, <1>3, <1>4, BoundedInduction
<1>6. n \in S
  BY <1>1, <1>5
<1> QED BY <1>6, LoggedIs DEF S, f, n

Budgeted(log, s) == LogBounded(log, s.exitBalanceToConsume, s.earliestExitEpoch)

\* The budget and its epoch.
LEMMA ChurnFields ==
  ASSUME NEW s \in RegistryState
  PROVE  s.exitBalanceToConsume \in Nat /\ s.earliestExitEpoch \in Nat
BY DEF RegistryState

\* The exit of one validator, if any.
LEMMA LogOfOne ==
  ASSUME NEW s \in RegistryState, NEW t \in RegistryState, NEW i \in 1..Len(s.validators),
         Len(t.validators) = Len(s.validators), Budgeted(exitLog, s),
         \A k \in 1..Len(s.validators) :
           k # i => t.validators[k].exit = s.validators[k].exit,
         \/ /\ t.validators[i].exit = s.validators[i].exit
            /\ t.exitBalanceToConsume = s.exitBalanceToConsume
            /\ t.earliestExitEpoch = s.earliestExitEpoch
         \/ /\ ChurnStep(s, t, s.validators[i].effectiveBalance)
            /\ t.validators[i].exit = t.earliestExitEpoch
  PROVE  Budgeted(Logged(s, t), t)
<1> DEFINE n == Len(s.validators)
           c == [k \in 0..n |-> IF k < i THEN s.exitBalanceToConsume
                                ELSE t.exitBalanceToConsume]
           e == [k \in 0..n |-> IF k < i THEN s.earliestExitEpoch ELSE t.earliestExitEpoch]
<1>1. /\ n \in Nat /\ s.exitBalanceToConsume \in Nat /\ s.earliestExitEpoch \in Nat
      /\ t.exitBalanceToConsume \in Nat /\ t.earliestExitEpoch \in Nat
  BY ValidatorFields, ChurnFields
<1>2. /\ c[0] = s.exitBalanceToConsume /\ e[0] = s.earliestExitEpoch
      /\ c[n] = t.exitBalanceToConsume /\ e[n] = t.earliestExitEpoch
  BY <1>1
<1>3. ASSUME NEW k \in 1..n
      PROVE  \/ ~Leaves(s, t, k) /\ c[k] = c[k - 1] /\ e[k] = e[k - 1]
             \/ /\ Lets(c[k - 1], e[k - 1], c[k], e[k], s.validators[k].effectiveBalance)
                /\ Leaves(s, t, k) => t.validators[k].exit = e[k]
  <2>1. CASE k # i
    <3>1. c[k] = c[k - 1] /\ e[k] = e[k - 1]
      BY <1>1, <2>1
    <3>2. ~Leaves(s, t, k)
      BY <2>1 DEF Leaves, Exiting
    <3> QED BY <3>1, <3>2
  <2>2. CASE k = i
    <3>1. /\ c[k] = t.exitBalanceToConsume /\ c[k - 1] = s.exitBalanceToConsume
          /\ e[k] = t.earliestExitEpoch /\ e[k - 1] = s.earliestExitEpoch
      BY <1>1, <2>2
    <3> HIDE DEF c, e
    <3>2. CASE /\ t.validators[i].exit = s.validators[i].exit
               /\ t.exitBalanceToConsume = s.exitBalanceToConsume
               /\ t.earliestExitEpoch = s.earliestExitEpoch
      <4>1. ~Leaves(s, t, k)
        BY <2>2, <3>2 DEF Leaves, Exiting
      <4> QED BY <3>1, <3>2, <4>1
    <3>3. CASE /\ ChurnStep(s, t, s.validators[i].effectiveBalance)
               /\ t.validators[i].exit = t.earliestExitEpoch
      <4>1. Lets(c[k - 1], e[k - 1], c[k], e[k], s.validators[k].effectiveBalance)
        BY <2>2, <3>1, <3>3 DEF ChurnStep, Lets
      <4> QED BY <2>2, <3>1, <3>3, <4>1
    <3> QED BY <3>2, <3>3
  <2> QED BY <2>1, <2>2
<1>4. c \in [0..n -> Nat] /\ e \in [0..n -> Nat]
  BY <1>1
<1> HIDE DEF c, e
<1>5. Chain(s, t, c, e)
  BY <1>3, <1>4 DEF Chain
<1>6. LogBounded(exitLog, c[0], e[0])
  BY <1>2 DEF Budgeted
<1>7. Len(t.validators) >= Len(s.validators)
  BY <1>1
<1>8. LogBounded(Logged(s, t), c[n], e[n])
  BY <1>5, <1>6, <1>7, LogOfChain
<1> QED BY <1>2, <1>8 DEF Budgeted

\* The bound survives an exit,
LEMMA ExitLogged ==
  ASSUME NEW s, Sound(s), NEW i \in 1..Len(s.validators), Budgeted(exitLog, s)
  PROVE  Budgeted(Logged(s, InitiateExit(s, i)), InitiateExit(s, i))
<1> DEFINE t == InitiateExit(s, i)
           v == s.validators[i]
           n == Len(s.validators)
<1>1. s \in RegistryState /\ s.validators \in Seq(Validator) /\ n \in Nat /\ v \in Validator
  BY ValidatorFields DEF Sound, RegistryState
<1>2. /\ t \in RegistryState /\ Len(t.validators) = n
      /\ IF Exiting(v) THEN t = s
         ELSE /\ t.validators = [s.validators EXCEPT ![i] = Scheduled(@, t.earliestExitEpoch)]
              /\ ChurnStep(s, t, v.effectiveBalance)
  BY <1>1, InitiateExitType
<1> HIDE DEF t
<1>3. /\ \A k \in 1..n : k # i => t.validators[k].exit = s.validators[k].exit
      /\ \/ /\ t.validators[i].exit = s.validators[i].exit
            /\ t.exitBalanceToConsume = s.exitBalanceToConsume
            /\ t.earliestExitEpoch = s.earliestExitEpoch
         \/ /\ ChurnStep(s, t, v.effectiveBalance)
            /\ t.validators[i].exit = t.earliestExitEpoch
  <2>1. CASE Exiting(v)
    BY <1>2, <2>1
  <2>2. CASE ~Exiting(v)
    <3> DEFINE e == t.earliestExitEpoch
               w == Scheduled(v, e)
    <3>1. e \in Nat /\ t.validators = [s.validators EXCEPT ![i] = w]
      BY <1>1, <1>2, <2>2, ChurnFields
    <3>2. w \in Validator /\ w.exit = e
      <4> HIDE DEF e
      <4> QED BY <1>1, <3>1, ScheduledType, ScheduledFields
    <3> HIDE DEF w
    <3>3. t.validators[i] = w /\ \A k \in 1..n : k # i => t.validators[k] = s.validators[k]
      BY <1>1, <3>1, <3>2, SequenceReplace
    <3> QED BY <1>2, <2>2, <3>2, <3>3
  <2> QED BY <2>1, <2>2
<1> HIDE DEF n
<1>4. Budgeted(Logged(s, t), t)
  BY <1>1, <1>2, <1>3, LogOfOne DEF n
<1> QED BY <1>4 DEF t

\* a slashing,
LEMMA SlashLogged ==
  ASSUME NEW s, Sound(s), NEW i \in 1..Len(s.validators), NEW j \in 1..Len(s.validators),
         Budgeted(exitLog, s)
  PROVE  Budgeted(Logged(s, Slash(s, i, j)), Slash(s, i, j))
<1> DEFINE x == InitiateExit(s, i)
           t == Slash(s, i, j)
           v == s.validators[i]
           n == Len(s.validators)
<1>1. /\ s \in RegistryState /\ s.validators \in Seq(Validator) /\ n \in Nat /\ v \in Validator
      /\ Len(s.balances) = Len(s.validators) /\ CurrentEpoch(s) \in Nat
  BY ValidatorFields, EpochNat DEF Sound, Indexed, RegistryState
<1>2. /\ x \in RegistryState /\ Len(x.validators) = n
      /\ IF Exiting(v) THEN x = s
         ELSE /\ x.validators = [s.validators EXCEPT ![i] = Scheduled(@, x.earliestExitEpoch)]
              /\ ChurnStep(s, x, v.effectiveBalance)
  BY <1>1, InitiateExitType
<1>3. t \in RegistryState /\ SlashStep(s, x, t, i, j)
  BY <1>1, SlashType
<1> HIDE DEF x, t
<1> DEFINE u == x.validators[i]
           w == Slashed(u, CurrentEpoch(s))
<1>4. /\ t.validators = [x.validators EXCEPT ![i] = w] /\ Len(t.validators) = n
      /\ t.exitBalanceToConsume = x.exitBalanceToConsume
      /\ t.earliestExitEpoch = x.earliestExitEpoch
  <2>1. /\ t.validators = [x.validators EXCEPT ![i] = w] /\ Len(t.validators) = n
        /\ t = [x EXCEPT !.validators = t.validators, !.balances = t.balances,
                         !.slashings = t.slashings]
    BY <1>3 DEF SlashStep
  <2> HIDE DEF w
  <2> QED BY <1>2, <2>1 DEF RegistryState
<1>5. x.validators \in Seq(Validator) /\ u \in Validator
  BY <1>2, ValidatorFields DEF RegistryState
<1>6. w \in Validator /\ w.exit = u.exit
  <2> HIDE DEF u
  <2> QED BY <1>1, <1>5, SlashedType, SlashedFields
<1> HIDE DEF w
<1>7. /\ t.validators[i] = w /\ \A k \in 1..n : k # i => t.validators[k] = x.validators[k]
  BY <1>2, <1>4, <1>5, <1>6, SequenceReplace
<1>8. /\ \A k \in 1..n : k # i => x.validators[k].exit = s.validators[k].exit
      /\ \/ /\ u.exit = s.validators[i].exit
            /\ x.exitBalanceToConsume = s.exitBalanceToConsume
            /\ x.earliestExitEpoch = s.earliestExitEpoch
         \/ /\ ChurnStep(s, x, v.effectiveBalance)
            /\ u.exit = x.earliestExitEpoch
  <2>1. CASE Exiting(v)
    BY <1>2, <2>1
  <2>2. CASE ~Exiting(v)
    <3> DEFINE e == x.earliestExitEpoch
               y == Scheduled(v, e)
    <3>1. e \in Nat /\ x.validators = [s.validators EXCEPT ![i] = y]
      BY <1>1, <1>2, <2>2, ChurnFields
    <3>2. y \in Validator /\ y.exit = e
      <4> HIDE DEF e
      <4> QED BY <1>1, <3>1, ScheduledType, ScheduledFields
    <3> HIDE DEF y
    <3>3. x.validators[i] = y /\ \A k \in 1..n : k # i => x.validators[k] = s.validators[k]
      BY <1>1, <3>1, <3>2, SequenceReplace
    <3> QED BY <1>2, <2>2, <3>2, <3>3
  <2> QED BY <2>1, <2>2
<1>9. /\ \A k \in 1..n : k # i => t.validators[k].exit = s.validators[k].exit
      /\ \/ /\ t.validators[i].exit = s.validators[i].exit
            /\ t.exitBalanceToConsume = s.exitBalanceToConsume
            /\ t.earliestExitEpoch = s.earliestExitEpoch
         \/ /\ ChurnStep(s, t, v.effectiveBalance)
            /\ t.validators[i].exit = t.earliestExitEpoch
  BY <1>4, <1>6, <1>7, <1>8 DEF ChurnStep
<1> HIDE DEF n
<1>10. Budgeted(Logged(s, t), t)
  BY <1>1, <1>3, <1>4, <1>9, LogOfOne DEF n
<1> QED BY <1>10 DEF t

\* the ejections of an epoch,
LEMMA EpochLogged ==
  ASSUME RegistryInv, Budgeted(exitLog, state), NEW finalized \in FinalizedChoices,
         NEW i \in Known, NEW delta \in Deltas, NextEpoch(finalized, i, delta)
  PROVE  Budgeted(exitLog', state')
<1> DEFINE r == EpochBase(state, finalized, i, delta)
           s == EpochBalances(state, finalized, i, delta)
           u == EpochQueues(s)
           n == Len(state.validators)
           R == Reserved(r)
           t == state'
           c == [k \in 0..n |-> R[k].exitBalanceToConsume]
           e == [k \in 0..n |-> R[k].earliestExitEpoch]
<1>1. /\ Sound(state) /\ state \in RegistryState /\ i \in 1..n /\ n \in Nat
      /\ finalized \in Nat /\ delta \in Int
  BY FinalizedNat, ValidatorFields, InputAssumption DEF RegistryInv, Sound, Known
<1>2. exitLog' = Logged(state, t)
  BY DEF NextEpoch
<1>3. Sound(r) /\ Rebased(state, r, finalized)
  <2> HIDE DEF r
  <2> QED BY <1>1, EpochBaseType DEF r
<1>4. /\ r \in RegistryState /\ r.validators = state.validators
      /\ r.earliestExitEpoch = state.earliestExitEpoch
      /\ r.exitBalanceToConsume = state.exitBalanceToConsume
  <2> HIDE DEF r
  <2> QED BY <1>1, <1>3 DEF Rebased, Sound, RegistryState
<1>5. /\ Sound(s) /\ Settled(state, s, finalized, R[n])
      /\ Len(s.validators) = n /\ \A k \in 1..n : s.validators[k] = AfterUpdates(r, k)
  <2> HIDE DEF s, r
  <2> QED BY <1>1, EpochBalancesType DEF s, r
<1>6. /\ Sound(u) /\ Sound(t) /\ t = [u EXCEPT !.slot = state.slot + 1]
      /\ t.validators = u.validators
  <2> HIDE DEF s, u, t
  <2> QED BY EpochStep DEF s, u, t
<1>7. QueuesStep(s, u) /\ Grown(s, u)
  <2> HIDE DEF s, u
  <2> QED BY <1>5, EpochQueuesType DEF u
<1> HIDE DEF r, s, u, t
<1>8. /\ s \in RegistryState
      /\ s.earliestExitEpoch = R[n].earliestExitEpoch
      /\ s.exitBalanceToConsume = R[n].exitBalanceToConsume
  <2>1. s \in RegistryState
    BY <1>5 DEF Sound
  <2> HIDE DEF R, n
  <2> QED BY <1>1, <1>5, <2>1 DEF Settled, RegistryState
<1>9. /\ t.earliestExitEpoch = s.earliestExitEpoch
      /\ t.exitBalanceToConsume = s.exitBalanceToConsume
      /\ t \in RegistryState
  <2>1. u \in RegistryState /\ t \in RegistryState
    BY <1>6 DEF Sound
  <2>2. u.earliestExitEpoch = s.earliestExitEpoch
        /\ u.exitBalanceToConsume = s.exitBalanceToConsume
    BY <1>7, <1>8 DEF QueuesStep, RegistryState
  <2> QED BY <1>6, <2>1, <2>2 DEF RegistryState
<1>10. /\ R \in [0..n -> RegistryState] /\ R[0] = r
  BY <1>4, ReservedFacts
<1>11. c \in [0..n -> Nat] /\ e \in [0..n -> Nat]
  <2>1. ASSUME NEW k \in 0..n
        PROVE  R[k].exitBalanceToConsume \in Nat /\ R[k].earliestExitEpoch \in Nat
    <3>1. R[k] \in RegistryState
      BY <1>10
    <3> HIDE DEF R
    <3> QED BY <3>1, ChurnFields
  <2> HIDE DEF R
  <2> QED BY <2>1
<1>12. /\ c[0] = state.exitBalanceToConsume /\ e[0] = state.earliestExitEpoch
       /\ c[n] = t.exitBalanceToConsume /\ e[n] = t.earliestExitEpoch
  <2>1. 0 \in 0..n /\ n \in 0..n
    BY <1>1
  <2> HIDE DEF R, n
  <2> QED BY <1>4, <1>8, <1>9, <1>10, <2>1
<1>13. ASSUME NEW k \in 1..n
       PROVE  \/ ~Leaves(state, t, k) /\ c[k] = c[k - 1] /\ e[k] = e[k - 1]
              \/ /\ Lets(c[k - 1], e[k - 1], c[k], e[k], state.validators[k].effectiveBalance)
                 /\ Leaves(state, t, k) => t.validators[k].exit = e[k]
  <2> DEFINE v == state.validators[k]
             w == s.validators[k]
  <2>1. /\ k \notin Ejected(r) => w.exit = v.exit
        /\ k \in Ejected(r) => w.exit = R[k].earliestExitEpoch
    BY <1>4, <1>5, AfterUpdatesType
  <2>2. t.validators[k].exit = w.exit
    BY <1>5, <1>6, <1>7, <1>8, GrownFields
  <2>3. k \in 0..n /\ k - 1 \in 0..n
    BY <1>1
  <2>4. /\ c[k] = R[k].exitBalanceToConsume /\ c[k - 1] = R[k - 1].exitBalanceToConsume
        /\ e[k] = R[k].earliestExitEpoch /\ e[k - 1] = R[k - 1].earliestExitEpoch
    <3> HIDE DEF R, n
    <3> QED BY <2>3
  <2>5. /\ k \notin Ejected(r) => R[k] = R[k - 1]
        /\ k \in Ejected(r) => ChurnStep(R[k - 1], R[k], v.effectiveBalance)
    BY <1>4, ReservedChain
  <2> HIDE DEF c, e, w, R, n
  <2>6. CASE k \notin Ejected(r)
    BY <2>1, <2>2, <2>4, <2>5, <2>6 DEF Leaves, Exiting
  <2>7. CASE k \in Ejected(r)
    BY <2>1, <2>2, <2>4, <2>5, <2>7 DEF ChurnStep, Lets
  <2> QED BY <2>6, <2>7
<1> HIDE DEF c, e
<1>14. Chain(state, t, c, e)
  BY <1>11, <1>13 DEF Chain
<1>15. LogBounded(exitLog, c[0], e[0])
  BY <1>12 DEF Budgeted
<1>16. Len(t.validators) >= Len(state.validators)
  <2>1. Len(t.validators) \in {n, n + 1}
    BY <1>5, <1>6, <1>7 DEF Grown
  <2> QED BY <1>1, <2>1
<1>17. LogBounded(Logged(state, t), c[n], e[n])
  BY <1>1, <1>9, <1>14, <1>15, <1>16, LogOfChain
<1> QED BY <1>2, <1>12, <1>17 DEF Budgeted, t

\* and a partial withdrawal, which takes churn without an exit.
LEMMA PartialLogged ==
  ASSUME RegistryInv, Budgeted(exitLog, state), NEW i \in Known, NEW amount \in PartialAmounts,
         PartialWithdrawalRequest(i, amount)
  PROVE  Budgeted(exitLog', state')
<1> DEFINE s == state
           t == state'
<1>1. Sound(s) /\ s \in RegistryState /\ i \in Nat
  BY ValidatorFields DEF RegistryInv, Sound, Known
<1>2. PICK b \in Nat \ {0} :
        LET r == ReserveExit(s, b)
            request == [validator |-> i, amount |-> b,
                        withdrawable |-> r.earliestExitEpoch + MinValidatorWithdrawabilityDelay]
        IN /\ t = [r EXCEPT !.pendingPartialWithdrawals
                     = Append(s.pendingPartialWithdrawals, request)]
           /\ exitLog' = Append(exitLog, [validator |-> i, epoch |-> r.earliestExitEpoch,
                                          amount |-> b])
  BY <1>1, PartialRequestStep
<1> DEFINE r == ReserveExit(s, b)
           x == [validator |-> i, epoch |-> r.earliestExitEpoch, amount |-> b]
<1>3. /\ \E q : t = [r EXCEPT !.pendingPartialWithdrawals = q]
      /\ exitLog' = Append(exitLog, x)
  BY <1>2
<1>4. /\ r \in RegistryState
      /\ Lets(s.exitBalanceToConsume, s.earliestExitEpoch, r.exitBalanceToConsume,
              r.earliestExitEpoch, b)
  BY <1>1, ReserveExitType DEF Lets
<1> HIDE DEF r, s, t
<1>5. /\ t.exitBalanceToConsume = r.exitBalanceToConsume
      /\ t.earliestExitEpoch = r.earliestExitEpoch
  BY <1>3, <1>4 DEF RegistryState
<1>6. x \in LogEntry /\ x.epoch = r.earliestExitEpoch /\ x.amount = b
  BY <1>1, <1>4, ChurnFields DEF LogEntry
<1> HIDE DEF x
<1>7. LogBounded(Append(exitLog, x), r.exitBalanceToConsume, r.earliestExitEpoch)
  <2>1. LogBounded(exitLog, s.exitBalanceToConsume, s.earliestExitEpoch)
    BY DEF Budgeted, s
  <2> QED BY <1>1, <1>4, <1>6, <2>1, ChurnFields, LogGrows
<1> QED BY <1>3, <1>5, <1>7 DEF Budgeted, t

ChurnInv == RegistryInv /\ Budgeted(exitLog, state)

\* The log is empty at genesis.
LEMMA ChurnGenesis == Init => ChurnInv
<1> SUFFICES ASSUME Init PROVE ChurnInv
  OBVIOUS
<1>1. exitLog = <<>> /\ state.exitBalanceToConsume = 0
  BY DEF Init
<1>2. exitLog \in Seq(LogEntry) /\ DOMAIN exitLog = {}
  BY <1>1
<1>3. 0 <= MaxPerEpochActivationExitChurnLimit
  BY RegistryAssumption
<1> QED BY <1>1, <1>2, <1>3, GenesisInv DEF ChurnInv, Budgeted, LogBounded

\* A step that touches neither budget nor log keeps the bound.
LEMMA ChurnAlone ==
  ASSUME Budgeted(exitLog, state), exitLog' = exitLog,
         state'.exitBalanceToConsume = state.exitBalanceToConsume,
         state'.earliestExitEpoch = state.earliestExitEpoch
  PROVE  Budgeted(exitLog', state')
BY DEF Budgeted

\* Every step keeps the bound.
LEMMA ChurnInductive == ChurnInv /\ [Next]_vars => ChurnInv'
<1> SUFFICES ASSUME ChurnInv, [Next]_vars PROVE Budgeted(exitLog', state')
  BY RegistryInductive DEF ChurnInv
<1>0. /\ RegistryInv /\ Budgeted(exitLog, state)
      /\ Sound(state) /\ state \in RegistryState /\ Known = 1..Len(state.validators)
  BY ValidatorFields DEF ChurnInv, RegistryInv, Sound, Known
<1> DEFINE Alone == /\ exitLog' = exitLog
                    /\ state'.exitBalanceToConsume = state.exitBalanceToConsume
                    /\ state'.earliestExitEpoch = state.earliestExitEpoch
<1>1. CASE NextSlot
  <2>1. Alone
    BY <1>0, <1>1 DEF NextSlot, history, RegistryState
  <2> QED BY <1>0, <2>1, ChurnAlone
<1>2. ASSUME NEW finalized \in FinalizedChoices, NEW i \in Known, NEW delta \in Deltas,
             NextEpoch(finalized, i, delta)
      PROVE  Budgeted(exitLog', state')
  BY <1>0, <1>2, EpochLogged
<1>3. CASE BeginBlock
  <2>1. state' = ProcessWithdrawals(state) /\ exitLog' = exitLog
    BY <1>3 DEF BeginBlock
  <2>2. WithdrawalsStep(state, state')
    BY <1>0, <2>1, WithdrawalsSound
  <2>3. Alone
    BY <1>0, <2>1, <2>2 DEF WithdrawalsStep, RegistryState
  <2> QED BY <1>0, <2>3, ChurnAlone
<1>4. ASSUME NEW i \in Offenders \cap Known, NEW proposer \in Proposers \cap Known,
             ProcessSlashing(i, proposer)
      PROVE  Budgeted(exitLog', state')
  <2>1. state' = Slash(state, i, proposer) /\ exitLog' = Logged(state, state')
    BY <1>4 DEF ProcessSlashing
  <2> QED BY <1>0, <2>1, SlashLogged
<1>5. ASSUME NEW i \in Leavers \cap Known, ProcessVoluntaryExit(i)
      PROVE  Budgeted(exitLog', state')
  <2>1. state' = InitiateExit(state, i) /\ exitLog' = Logged(state, state')
    BY <1>5 DEF ProcessVoluntaryExit
  <2> QED BY <1>0, <2>1, ExitLogged
<1>6. ASSUME NEW i \in Known, ProcessBlsToExecutionChange(i)
      PROVE  Budgeted(exitLog', state')
  <2>1. Alone
    BY <1>0, <1>6 DEF ProcessBlsToExecutionChange, history, RegistryState
  <2> QED BY <1>0, <2>1, ChurnAlone
<1>7. ASSUME NEW request \in DepositRequests, ProcessDepositRequest(request)
      PROVE  Budgeted(exitLog', state')
  <2>1. Alone
    BY <1>0, <1>7 DEF ProcessDepositRequest, RegistryState
  <2> QED BY <1>0, <2>1, ChurnAlone
<1>8. ASSUME NEW i \in Leavers \cap Known, FullExitRequest(i)
      PROVE  Budgeted(exitLog', state')
  <2>1. state' = InitiateExit(state, i) /\ exitLog' = Logged(state, state')
    BY <1>8 DEF FullExitRequest
  <2> QED BY <1>0, <2>1, ExitLogged
<1>9. ASSUME NEW i \in Known, NEW amount \in PartialAmounts,
             PartialWithdrawalRequest(i, amount)
      PROVE  Budgeted(exitLog', state')
  BY <1>0, <1>9, PartialLogged
<1>10. ASSUME NEW i \in Known, ProcessSwitchToCompounding(i)
       PROVE  Budgeted(exitLog', state')
  <2>1. state' = SwitchToCompounding(state, i) /\ exitLog' = exitLog
    BY <1>10 DEF ProcessSwitchToCompounding, history
  <2>2. state' = [state EXCEPT !.validators = state'.validators, !.balances = state'.balances,
                               !.pendingDeposits = state'.pendingDeposits]
    BY <1>0, <2>1, SwitchType DEF Sound, Indexed
  <2>3. Alone
    <3> DEFINE t == state'
    <3>1. t = [state EXCEPT !.validators = t.validators, !.balances = t.balances,
                            !.pendingDeposits = t.pendingDeposits]
      BY <2>2
    <3> HIDE DEF t
    <3>2. /\ t.exitBalanceToConsume = state.exitBalanceToConsume
          /\ t.earliestExitEpoch = state.earliestExitEpoch
      BY <1>0, <3>1 DEF RegistryState
    <3> QED BY <2>1, <3>2 DEF t
  <2> QED BY <1>0, <2>3, ChurnAlone
<1>11. ASSUME NEW x \in Consolidations, ProcessConsolidationRequest(x[1], x[2])
       PROVE  Budgeted(exitLog', state')
  <2> DEFINE src == state.validators[x[1]]
             r == ReserveConsolidation(state, src.effectiveBalance)
  <2>1. /\ \E a, b, c, d : state' = [state EXCEPT !.consolidationBalanceToConsume = a,
                                       !.earliestConsolidationEpoch = b,
                                       !.validators = c, !.pendingConsolidations = d]
        /\ exitLog' = exitLog
    <3> DEFINE y == r.earliestConsolidationEpoch
               a == r.consolidationBalanceToConsume
               c == [state.validators EXCEPT ![x[1]] = Scheduled(@, y)]
               d == Append(state.pendingConsolidations, [source |-> x[1], target |-> x[2]])
    <3>1. /\ state' = [state EXCEPT !.consolidationBalanceToConsume = a,
                                    !.earliestConsolidationEpoch = y,
                                    !.validators = c, !.pendingConsolidations = d]
          /\ exitLog' = exitLog
      BY <1>0, <1>11, ConsolidationRequestStep
    <3> HIDE DEF a, c, d, y
    <3> QED BY <3>1
  <2>2. Alone
    BY <1>0, <2>1 DEF RegistryState
  <2> QED BY <1>0, <2>2, ChurnAlone
<1>12. CASE UNCHANGED vars
  BY <1>0, <1>12 DEF vars, Budgeted
<1> QED BY <1>1, <1>2, <1>3, <1>4, <1>5, <1>6, <1>7, <1>8, <1>9, <1>10, <1>11, <1>12 DEF Next

\* Whatever exits, slashings, ejections and partial withdrawals compete for it:
\* no span of epochs lets out more than its churn limits allow.
THEOREM ChurnIsBounded == Spec => []ExitChurnBounded
<1>1. ChurnInv => ExitChurnBounded
  BY DEF ChurnInv, Budgeted, LogBounded, ExitChurnBounded
<1> QED BY <1>1, ChurnGenesis, ChurnInductive, PTL DEF Spec

---------------------------------------------------------------------------
(* The cursor of the withdrawal sweep.                                      *)

\* \div and % once around a circle of n, in both directions.
LEMMA Remainders ==
  ASSUME NEW n \in Nat \ {0}, NEW x \in Int
  PROVE  /\ x \in 0..(n - 1) => x % n = x
         /\ x \in n..(n + n - 1) => x % n = x - n
         /\ x \in (-n)..(-1) => x % n = x + n
<1> DEFINE q == x \div n
           r == x % n
<1>1. q \in Int /\ r \in 0..(n - 1) /\ x = n * q + r
  BY SMT
<1> HIDE DEF q, r
<1>2. CASE q = 0
  <2>1. x = r
    BY <1>1, <1>2
  <2> QED BY <1>1, <2>1 DEF r
<1>3. CASE q = 1
  <2>1. x = n + r
    BY <1>1, <1>3
  <2> QED BY <1>1, <2>1 DEF r
<1>4. CASE q = -1
  <2>1. n * q = -n
    BY <1>4
  <2>2. x = r - n
    BY <1>1, <2>1
  <2> QED BY <1>1, <2>2 DEF r
<1>5. CASE q >= 2
  <2> DEFINE y == n * q
  <2>1. y >= n + n /\ y \in Int
    BY <1>1, <1>5
  <2>2. x = y + r
    BY <1>1
  <2> HIDE DEF y
  <2>3. x >= n + n
    BY <1>1, <2>1, <2>2
  <2> QED BY <2>3
<1>6. CASE q <= -2
  <2> DEFINE y == n * q
  <2>1. y <= -(n + n) /\ y \in Int
    BY <1>1, <1>6
  <2>2. x = y + r
    BY <1>1
  <2> HIDE DEF y
  <2>3. x < -n
    BY <1>1, <2>1, <2>2
  <2> QED BY <2>3
<1> QED BY <1>1, <1>2, <1>3, <1>4, <1>5, <1>6

\* From any place, m steps are counted as m, or as none after a full round.
LEMMA CursorAdvances ==
  ASSUME NEW n \in Nat \ {0}, NEW from \in 1..n, NEW m \in 0..n
  PROVE  (((from - 1 + m) % n) + 1 - from) % n \in 0..m
<1>1. CASE from - 1 + m \in 0..(n - 1)
  <2>1. (from - 1 + m) % n = from - 1 + m
    BY <1>1, Remainders
  <2>2. (from - 1 + m) + 1 - from = m /\ m \in 0..(n - 1)
    BY <1>1
  <2>3. m % n = m
    BY <2>2, Remainders
  <2> QED BY <2>1, <2>2, <2>3
<1>2. CASE from - 1 + m \in n..(n + n - 1)
  <2>1. (from - 1 + m) % n = from - 1 + m - n
    <3> DEFINE x == from - 1 + m
    <3>1. x \in Int /\ x \in n..(n + n - 1)
      BY <1>2
    <3> HIDE DEF x
    <3>2. x % n = x - n
      BY <3>1, Remainders
    <3> QED BY <3>2 DEF x
  <2>2. (from - 1 + m - n) + 1 - from = m - n /\ m - n \in Int
    OBVIOUS
  <2>3. CASE m = n
    <3>1. m - n = 0 /\ 0 \in 0..(n - 1)
      BY <2>3
    <3>2. 0 % n = 0
      BY <3>1, Remainders
    <3> QED BY <2>1, <2>2, <3>1, <3>2
  <2>4. CASE m # n
    <3>1. m - n \in (-n)..(-1) /\ (m - n) + n = m
      BY <2>4
    <3>2. (m - n) % n = m
      BY <3>1, Remainders
    <3> QED BY <2>1, <2>2, <3>2
  <2> QED BY <2>3, <2>4
<1> QED BY <1>1, <1>2

\* One step after m steps is m + 1 steps.
LEMMA CursorNext ==
  ASSUME NEW n \in Nat \ {0}, NEW from \in 1..n, NEW m \in 0..(n - 1)
  PROVE  (((from - 1 + m) % n) + 1) % n = (from - 1 + (m + 1)) % n
<1> DEFINE y == from - 1 + m
<1>1. y \in 0..(n + n - 2) /\ from - 1 + (m + 1) = y + 1
  OBVIOUS
<1> HIDE DEF y
<1>2. CASE y \in 0..(n - 1)
  <2>1. y % n = y
    BY <1>2, Remainders
  <2> QED BY <1>1, <2>1 DEF y
<1>3. CASE y \in n..(n + n - 2)
  <2>1. y \in n..(n + n - 1) /\ y + 1 \in n..(n + n - 1) /\ y - n + 1 \in 0..(n - 1)
        /\ y \in Int /\ y + 1 \in Int /\ y - n + 1 \in Int
    BY <1>3
  <2>2. y % n = y - n
    BY <2>1, Remainders
  <2>3. (y + 1) % n = (y + 1) - n
    BY <2>1, Remainders
  <2>4. (y - n + 1) % n = y - n + 1
    BY <2>1, Remainders
  <2>5. (y + 1) - n = y - n + 1
    BY <2>1
  <2>6. ((y % n) + 1) % n = (y + 1) % n
    BY <2>2, <2>3, <2>4, <2>5
  <2> QED BY <1>1, <2>6 DEF y
<1> QED BY <1>1, <1>2, <1>3

\* The k-th validator of the sweep.
At(s, k) == NthFrom(s.nextWithdrawalValidator, k, s)

\* It is in the registry; the cursor is k steps away from it at most; the next
\* follows it.
LEMMA AtSteps ==
  ASSUME NEW s \in RegistryState, Indexed(s)
  PROVE  LET n == Len(s.validators)
         IN /\ n \in Nat \ {0}
            /\ \A k \in Nat : At(s, k) \in 1..n
            /\ \A k \in 0..n : (At(s, k) - s.nextWithdrawalValidator) % n \in 0..k
            /\ \A k \in 0..(n - 1) : NthFrom(At(s, k), 1, s) = At(s, k + 1)
<1> DEFINE n == Len(s.validators)
           from == s.nextWithdrawalValidator
<1>1. n \in Nat \ {0} /\ from \in 1..n
  BY ValidatorFields DEF Indexed
<1>2. \A k \in Nat : At(s, k) \in 1..n
  <2>1. from \in Nat \ {0} /\ n # 0
    BY <1>1
  <2> QED BY <2>1, NthFromType DEF At
<1>3. \A k : At(s, k) = ((from - 1 + k) % n) + 1
  BY DEF At, NthFrom
<1>4. \A j : NthFrom(j, 1, s) = ((j - 1 + 1) % n) + 1
  BY DEF NthFrom
<1> HIDE DEF n, from
<1>5. ASSUME NEW k \in 0..n PROVE (At(s, k) - from) % n \in 0..k
  <2> DEFINE y == (from - 1 + k) % n
  <2>1. (y + 1 - from) % n \in 0..k
    BY <1>1, CursorAdvances
  <2>2. At(s, k) = y + 1
    BY <1>3
  <2>3. y \in Int /\ from \in Int
    <3>1. from - 1 + k \in Nat
      BY <1>1
    <3> QED BY <1>1, <3>1, Division
  <2> HIDE DEF y
  <2>4. At(s, k) - from = y + 1 - from
    BY <2>2, <2>3
  <2> QED BY <2>1, <2>4
<1>6. ASSUME NEW k \in 0..(n - 1) PROVE NthFrom(At(s, k), 1, s) = At(s, k + 1)
  <2> DEFINE x == (from - 1 + k) % n
  <2>1. At(s, k) = x + 1 /\ At(s, k + 1) = ((from - 1 + (k + 1)) % n) + 1
    BY <1>3
  <2>2. x \in 0..(n - 1)
    <3>1. from - 1 + k \in Nat
      BY <1>1
    <3> QED BY <1>1, <3>1, Division
  <2>3. (x + 1) % n = (from - 1 + (k + 1)) % n
    BY <1>1, CursorNext
  <2> HIDE DEF x
  <2>4. (x + 1) - 1 + 1 = x + 1
    BY <2>2
  <2> QED BY <1>4, <2>1, <2>3, <2>4
<1> QED BY <1>1, <1>2, <1>5, <1>6 DEF n, from

\* After payments x the sweep would pay validator i nothing.
NothingLeft(s, x, i) ==
  LET balance == BalanceAfterWithdrawals(s, i, x)
  IN /\ ~IsFullyWithdrawable(s.validators[i], balance, CurrentEpoch(s))
     /\ ~IsPartiallyWithdrawable(s.validators[i], balance)

\* After k validators of the sweep: all are settled, or the payload is full, and
\* all are up to the one it was full with.
SweptTo(s, k, x) ==
  \/ /\ Len(x) < MaxWithdrawalsPerPayload
     /\ \A j \in 0..(k - 1) : NothingLeft(s, x, At(s, j))
  \/ /\ Len(x) = MaxWithdrawalsPerPayload
     /\ \E m \in 0..(k - 1) : /\ x[Len(x)].validator = At(s, m)
                              /\ \A j \in 0..m : NothingLeft(s, x, At(s, j))

\* A payment counts for the validator it goes to.
LEMMA PaymentAppended ==
  ASSUME NEW x \in Seq(Payment), NEW i \in Nat, NEW amount \in Nat
  PROVE  LET y == Append(x, [validator |-> i, amount |-> amount])
         IN /\ Len(x) \in Nat /\ Len(y) = Len(x) + 1 /\ y[Len(y)].validator = i
            /\ \A j : AmountFor(x, j) \in Nat
            /\ AmountFor(y, i) = AmountFor(x, i) + amount
            /\ \A j : j # i => AmountFor(y, j) = AmountFor(x, j)
<1> DEFINE e == [validator |-> i, amount |-> amount]
<1>1. e \in Payment /\ e.validator = i /\ e.amount = amount
  BY DEF Payment
<1> HIDE DEF e
<1>2. Len(x) \in Nat /\ Len(Append(x, e)) = Len(x) + 1 /\ Append(x, e)[Len(x) + 1] = e
  BY <1>1, SequenceAppend
<1>3. \A j : /\ AmountFor(x, j) \in Nat
             /\ AmountFor(Append(x, e), j)
                  = IF e.validator = j THEN AmountFor(x, j) + e.amount ELSE AmountFor(x, j)
  BY <1>1, PaymentAmounts, TotalAppend
<1> QED BY <1>1, <1>2, <1>3 DEF e

\* A payment to i leaves the others as settled as they were.
LEMMA NothingMoreLeft ==
  ASSUME NEW s, NEW x, NEW y, NEW j, NothingLeft(s, x, j), AmountFor(y, j) = AmountFor(x, j)
  PROVE  NothingLeft(s, y, j)
  BY DEF NothingLeft, BalanceAfterWithdrawals, PaidTo

\* What the sweep pays a validator settles it.
LEMMA SweepSettlesOne ==
  ASSUME NEW s \in RegistryState, Indexed(s), NEW k \in Nat \ {0}, NEW x \in CoveredPayments(s),
         Len(x) < MaxWithdrawalsPerPayload
  PROVE  LET i == At(s, k - 1)
             y == SweepNext(s, k, x)
         IN \/ y = x /\ NothingLeft(s, x, i)
            \/ \E amount \in Nat : /\ y = Append(x, [validator |-> i, amount |-> amount])
                                   /\ NothingLeft(s, y, i)
<1> DEFINE i == At(s, k - 1)
           v == s.validators[i]
           balance == BalanceAfterWithdrawals(s, i, x)
           y == SweepNext(s, k, x)
           paid(amount) == Append(x, [validator |-> i, amount |-> amount])
<1>1. /\ i \in 1..Len(s.validators) /\ i \in Nat
      /\ x \in Seq(Payment) /\ AmountFor(x, i) <= s.balances[i]
      /\ v \in Validator /\ s.balances[i] \in Nat
      /\ MaxEffective(v) \in Nat
  <2>1. k - 1 \in Nat /\ Len(s.validators) \in Nat
    BY ValidatorFields
  <2>2. i \in 1..Len(s.validators)
    BY <2>1, AtSteps
  <2> HIDE DEF i
  <2>3. x \in Seq(Payment) /\ AmountFor(x, i) <= s.balances[i]
    BY <2>2 DEF CoveredPayments
  <2>4. v \in Validator /\ s.balances[i] \in Nat
    BY <2>2, ValidatorFields DEF Indexed
  <2>5. MaxEffective(v) \in Nat
    BY RegistryAssumption DEF MaxEffective
  <2> QED BY <2>1, <2>2, <2>3, <2>4, <2>5
<1>2. AmountFor(x, i) \in Nat /\ balance = s.balances[i] - AmountFor(x, i) /\ balance \in Nat
  <2>1. AmountFor(x, i) \in Nat
    BY <1>1, PaymentAppended
  <2> QED BY <1>1, <2>1 DEF BalanceAfterWithdrawals, PaidTo
<1>3. y = IF IsFullyWithdrawable(v, balance, CurrentEpoch(s)) THEN paid(balance)
          ELSE IF IsPartiallyWithdrawable(v, balance) THEN paid(balance - MaxEffective(v))
          ELSE x
  <2>1. Len(x) \in Nat /\ MaxWithdrawalsPerPayload \in Nat
    BY <1>1, RegistryAssumption
  <2>2. ~(Len(x) >= MaxWithdrawalsPerPayload)
    BY <2>1
  <2> QED BY <2>2 DEF SweepNext, At
<1>4. ASSUME NEW amount \in Nat, y = paid(amount)
      PROVE  BalanceAfterWithdrawals(s, i, y) = balance - amount
  <2>1. AmountFor(y, i) = AmountFor(x, i) + amount
    BY <1>1, <1>4, PaymentAppended
  <2> QED BY <1>1, <1>2, <2>1 DEF BalanceAfterWithdrawals, PaidTo
<1> HIDE DEF i, y, balance
<1>5. CASE IsFullyWithdrawable(v, balance, CurrentEpoch(s))
  <2>1. y = paid(balance)
    BY <1>3, <1>5
  <2>2. BalanceAfterWithdrawals(s, i, y) = 0
    <3>1. BalanceAfterWithdrawals(s, i, y) = balance - balance
      BY <1>2, <1>4, <2>1
    <3> QED BY <1>2, <3>1
  <2>3. NothingLeft(s, y, i)
    <3>1. ~(0 > 0) /\ ~(0 > MaxEffective(v))
      BY <1>1
    <3> QED BY <2>2, <3>1 DEF NothingLeft, IsFullyWithdrawable, IsPartiallyWithdrawable
  <2> QED BY <1>2, <2>1, <2>3 DEF i, y
<1>6. CASE /\ ~IsFullyWithdrawable(v, balance, CurrentEpoch(s))
           /\ IsPartiallyWithdrawable(v, balance)
  <2> DEFINE max == MaxEffective(v)
             amount == balance - max
  <2>1. y = paid(amount)
    BY <1>3, <1>6
  <2>2. HasExecutionCredential(v) /\ balance > max
    BY <1>6 DEF IsPartiallyWithdrawable
  <2>3. amount \in Nat /\ balance > 0 /\ balance - amount = max
    <3>1. max \in Nat /\ balance \in Nat
      BY <1>1, <1>2
    <3> HIDE DEF max
    <3> QED BY <2>2, <3>1
  <2>4. ~(v.withdrawable <= CurrentEpoch(s))
    BY <1>6, <2>2, <2>3 DEF IsFullyWithdrawable
  <2> HIDE DEF amount
  <2>5. BalanceAfterWithdrawals(s, i, y) = max
    BY <1>4, <2>1, <2>3
  <2>6. NothingLeft(s, y, i)
    <3>1. ~(MaxEffective(v) > MaxEffective(v))
      BY <1>1
    <3> QED BY <2>4, <2>5, <3>1 DEF NothingLeft, IsFullyWithdrawable, IsPartiallyWithdrawable
  <2> QED BY <2>1, <2>3, <2>6 DEF i, y
<1>7. CASE /\ ~IsFullyWithdrawable(v, balance, CurrentEpoch(s))
           /\ ~IsPartiallyWithdrawable(v, balance)
  <2>1. y = x
    BY <1>3, <1>7
  <2>2. NothingLeft(s, x, i)
    BY <1>7 DEF NothingLeft, balance
  <2> QED BY <2>1, <2>2 DEF i, y
<1> QED BY <1>5, <1>6, <1>7

\* One validator more.
LEMMA SweptStep ==
  ASSUME NEW s \in RegistryState, Indexed(s), NEW k \in Nat \ {0}, NEW x \in CoveredPayments(s),
         SweptTo(s, k - 1, x)
  PROVE  SweptTo(s, k, SweepNext(s, k, x))
<1> DEFINE i == At(s, k - 1)
           y == SweepNext(s, k, x)
           full == MaxWithdrawalsPerPayload
<1>1. /\ x \in Seq(Payment) /\ Len(x) \in Nat /\ full \in Nat
      /\ k - 1 \in Nat /\ i \in Nat
  <2>1. x \in Seq(Payment)
    BY DEF CoveredPayments
  <2>2. full \in Nat
    BY RegistryAssumption
  <2>3. k - 1 \in Nat /\ Len(s.validators) \in Nat
    BY ValidatorFields
  <2>4. i \in 1..Len(s.validators)
    BY <2>3, AtSteps
  <2> HIDE DEF i, full
  <2> QED BY <2>1, <2>2, <2>3, <2>4
<1>2. CASE Len(x) = full
  <2>1. y = x
    BY <1>1, <1>2 DEF SweepNext
  <2>2. PICK m \in 0..((k - 1) - 1) : /\ x[Len(x)].validator = At(s, m)
                                      /\ \A j \in 0..m : NothingLeft(s, x, At(s, j))
    BY <1>1, <1>2 DEF SweptTo
  <2>3. m \in 0..(k - 1)
    OBVIOUS
  <2> HIDE DEF y
  <2> QED BY <1>2, <2>1, <2>2, <2>3 DEF SweptTo, y
<1>3. CASE Len(x) < full
  <2>1. \A j \in 0..((k - 1) - 1) : NothingLeft(s, x, At(s, j))
    BY <1>1, <1>3 DEF SweptTo
  <2>2. ASSUME NEW j \in 0..(k - 1) PROVE j = k - 1 \/ j \in 0..((k - 1) - 1)
    OBVIOUS
  <2>3. \/ y = x /\ NothingLeft(s, x, i)
        \/ \E amount \in Nat : /\ y = Append(x, [validator |-> i, amount |-> amount])
                               /\ NothingLeft(s, y, i)
    BY <1>3, SweepSettlesOne
  <2> HIDE DEF y
  <2>4. CASE y = x /\ NothingLeft(s, x, i)
    <3>1. \A j \in 0..(k - 1) : NothingLeft(s, y, At(s, j))
      BY <2>1, <2>2, <2>4
    <3> QED BY <1>3, <2>4, <3>1 DEF SweptTo, y
  <2>5. ASSUME NEW amount \in Nat, y = Append(x, [validator |-> i, amount |-> amount]),
               NothingLeft(s, y, i)
        PROVE  SweptTo(s, k, y)
    <3> HIDE DEF i
    <3>1. /\ Len(y) = Len(x) + 1 /\ y[Len(y)].validator = i
          /\ \A j : j # i => AmountFor(y, j) = AmountFor(x, j)
      BY <1>1, <2>5, PaymentAppended
    <3>2. ASSUME NEW j \in 0..(k - 1) PROVE NothingLeft(s, y, At(s, j))
      <4>1. CASE At(s, j) = i
        BY <2>5, <4>1
      <4>2. CASE At(s, j) # i
        <5>1. j \in 0..((k - 1) - 1)
          BY <2>2, <4>2 DEF i
        <5>2. NothingLeft(s, x, At(s, j)) /\ AmountFor(y, At(s, j)) = AmountFor(x, At(s, j))
          BY <2>1, <3>1, <4>2, <5>1
        <5> QED BY <5>2, NothingMoreLeft
      <4> QED BY <4>1, <4>2
    <3>3. k - 1 \in 0..(k - 1)
      BY <1>1
    <3>4. Len(y) < full \/ Len(y) = full
      BY <1>1, <1>3, <3>1
    <3>5. y[Len(y)].validator = At(s, k - 1)
      BY <3>1 DEF i
    <3> QED BY <3>2, <3>3, <3>4, <3>5 DEF SweptTo
  <2> QED BY <2>3, <2>4, <2>5 DEF y
<1> QED BY <1>1, <1>2, <1>3 DEF SweptTo

\* get_expected_withdrawals leaves nobody unsettled, up to the end of the sweep,
\* or to the last payment of a full payload.
LEMMA SweepSettles ==
  ASSUME NEW s \in RegistryState, Indexed(s)
  PROVE  SweptTo(s, SweepLimit(s), ExpectedWithdrawals(s))
<1> DEFINE n == SweepLimit(s)
<1>1. PICK r : /\ n \in Nat
               /\ ExpectedWithdrawals(s) = r[n]
               /\ r[0] = PartialWithdrawals(s).payments
               /\ \A k \in 1..n : r[k] = SweepNext(s, k, r[k - 1])
               /\ \A k \in 0..n : r[k] \in CoveredPayments(s)
  BY SweepRecursion
<1> HIDE DEF n
<1> DEFINE S == {k \in 0..n : SweptTo(s, k, r[k])}
<1>2. 0 \in S
  <2>1. Len(r[0]) < MaxWithdrawalsPerPayload
    BY <1>1, PartialWithdrawalsType DEF PartialStates
  <2>2. 0..(0 - 1) = {}
    OBVIOUS
  <2> QED BY <1>1, <2>1, <2>2 DEF SweptTo
<1>3. ASSUME NEW k \in 1..n, k - 1 \in S PROVE k \in S
  <2>1. k \in Nat \ {0} /\ k - 1 \in 0..n /\ k \in 0..n
    BY <1>1
  <2>2. SweptTo(s, k, SweepNext(s, k, r[k - 1]))
    BY <1>1, <1>3, <2>1, SweptStep
  <2> QED BY <1>1, <2>1, <2>2
<1> HIDE DEF S
<1>4. n \in S
  BY <1>1, <1>2, <1>3, BoundedInduction
<1> QED BY <1>1, <1>4 DEF S, n

\* Where the cursor goes: the validators it passes are settled.
LEMMA PassedAreSettled ==
  ASSUME NEW s \in RegistryState, Indexed(s)
  PROVE  LET x     == ExpectedWithdrawals(s)
             steps == (CursorAfter(s, x) - s.nextWithdrawalValidator) % Len(s.validators)
         IN \A k \in 0..(steps - 1) : NothingLeft(s, x, At(s, k))
<1> DEFINE x == ExpectedWithdrawals(s)
           n == Len(s.validators)
           from == s.nextWithdrawalValidator
           limit == SweepLimit(s)
           full == MaxWithdrawalsPerPayload
           cursor == CursorAfter(s, x)
           steps == (cursor - from) % n
<1>1. /\ n \in Nat \ {0} /\ from \in 1..n /\ MaxValidatorsPerSweep \in Nat
      /\ limit = IF n < MaxValidatorsPerSweep THEN n ELSE MaxValidatorsPerSweep
  <2>1. n \in Nat /\ MaxValidatorsPerSweep \in Nat /\ from \in 1..n
    BY ValidatorFields, RegistryAssumption DEF Indexed
  <2> QED BY <2>1 DEF SweepLimit, Smaller
<1>2. SweptTo(s, limit, x)
  BY SweepSettles
<1>3. cursor = IF Len(x) = full THEN NthFrom(x[Len(x)].validator, 1, s)
               ELSE At(s, MaxValidatorsPerSweep)
  BY DEF CursorAfter, At
<1>4. /\ \A k \in Nat : At(s, k) \in 1..n
      /\ \A k \in 0..n : (At(s, k) - from) % n \in 0..k
      /\ \A k \in 0..(n - 1) : NthFrom(At(s, k), 1, s) = At(s, k + 1)
  BY AtSteps
<1>5. \/ Len(x) < full /\ \A j \in 0..(limit - 1) : NothingLeft(s, x, At(s, j))
      \/ /\ Len(x) = full
         /\ \E m \in 0..(limit - 1) : /\ x[Len(x)].validator = At(s, m)
                                      /\ \A j \in 0..m : NothingLeft(s, x, At(s, j))
  BY <1>2 DEF SweptTo
<1> SUFFICES \A k \in 0..(steps - 1) : NothingLeft(s, x, At(s, k))
  OBVIOUS
<1>6. CASE Len(x) = full /\ \E m \in 0..(limit - 1) :
                              /\ x[Len(x)].validator = At(s, m)
                              /\ \A j \in 0..m : NothingLeft(s, x, At(s, j))
  <2>1. PICK m \in 0..(limit - 1) : /\ x[Len(x)].validator = At(s, m)
                                    /\ \A j \in 0..m : NothingLeft(s, x, At(s, j))
    BY <1>6
  <2>2. m \in 0..(n - 1) /\ m + 1 \in 0..n /\ m \in Nat
    <3> HIDE DEF n, limit
    <3> QED BY <1>1
  <2>3. cursor = At(s, m + 1)
    BY <1>3, <1>4, <1>6, <2>1, <2>2
  <2>4. steps \in 0..(m + 1)
    BY <1>4, <2>2, <2>3
  <2> HIDE DEF steps
  <2>5. \A k \in 0..(steps - 1) : k \in 0..m
    BY <2>2, <2>4
  <2> QED BY <2>1, <2>5
<1>7. CASE Len(x) < full /\ \A j \in 0..(limit - 1) : NothingLeft(s, x, At(s, j))
  <2>1. cursor = At(s, MaxValidatorsPerSweep)
    <3>1. full \in Nat /\ Len(x) # full
      <4>1. full \in Nat /\ x \in Seq(Payment)
        BY RegistryAssumption, ExpectedWithdrawalsType DEF CoveredPayments
      <4>2. Len(x) \in Nat
        BY <4>1
      <4> HIDE DEF x
      <4> QED BY <1>7, <4>1, <4>2
    <3> QED BY <1>3, <3>1
  <2>2. steps \in Nat /\ steps <= limit
    <3>1. CASE MaxValidatorsPerSweep < n
      <4>1. limit = MaxValidatorsPerSweep /\ MaxValidatorsPerSweep \in 0..n
        <5> HIDE DEF limit, n
        <5> QED BY <1>1, <3>1
      <4>2. steps \in 0..MaxValidatorsPerSweep
        BY <1>4, <2>1, <4>1
      <4> HIDE DEF steps, limit
      <4> QED BY <1>1, <4>1, <4>2
    <3>2. CASE ~(MaxValidatorsPerSweep < n)
      <4>1. limit = n
        <5> HIDE DEF limit, n
        <5> QED BY <1>1, <3>2
      <4>2. cursor \in 1..n
        BY <1>1, <1>4, <2>1
      <4>3. steps \in 0..(n - 1)
        <5> DEFINE y == cursor - from
        <5>1. y \in Int
          BY <1>1, <4>2
        <5> HIDE DEF y, n
        <5>2. y % n \in 0..(n - 1)
          BY <1>1, <5>1
        <5> QED BY <5>2 DEF y, n
      <4> HIDE DEF steps, limit, n
      <4> QED BY <1>1, <4>1, <4>3
    <3> QED BY <3>1, <3>2
  <2> HIDE DEF steps
  <2>3. \A k \in 0..(steps - 1) : k \in 0..(limit - 1)
    <3>1. limit \in Nat
      BY <1>1
    <3> HIDE DEF limit
    <3> QED BY <2>2, <3>1
  <2> QED BY <1>7, <2>3
<1> QED BY <1>5, <1>6, <1>7

\* process_withdrawals moves the cursor, and leaves each balance what the
\* payments left of it.
LEMMA WithdrawalsPaid ==
  ASSUME NEW s, Sound(s)
  PROVE  LET t == ProcessWithdrawals(s)
             x == ExpectedWithdrawals(s)
         IN /\ t.validators = s.validators
            /\ t.nextWithdrawalValidator = CursorAfter(s, x)
            /\ \A i \in 1..Len(s.validators) :
                 t.balances[i] = BalanceAfterWithdrawals(s, i, x)
<1> DEFINE t == ProcessWithdrawals(s)
           x == ExpectedWithdrawals(s)
           queue == s.pendingPartialWithdrawals
           n == Len(s.validators)
           cursor == CursorAfter(s, x)
           left == SubSeq(queue, PartialWithdrawals(s).processed + 1, Len(queue))
           b == [i \in DOMAIN s.balances |-> SaturatingSub(s.balances[i], PaidTo(x, i))]
<1>1. s \in RegistryState /\ Indexed(s)
  BY DEF Sound
<1>2. DOMAIN s.balances = 1..n /\ \A i \in 1..n : s.balances[i] \in Nat
  BY <1>1, ValidatorFields DEF Indexed
<1>3. x \in Seq(Payment) /\ \A i \in 1..n : AmountFor(x, i) <= s.balances[i]
  BY <1>1, ExpectedWithdrawalsType DEF CoveredPayments
<1>4. t = [s EXCEPT !.balances = b, !.pendingPartialWithdrawals = left,
                    !.nextWithdrawalValidator = cursor]
  BY DEF ProcessWithdrawals
<1> HIDE DEF t, cursor, left, x
<1>5. t.validators = s.validators /\ t.nextWithdrawalValidator = cursor /\ t.balances = b
  <2> HIDE DEF b
  <2> QED BY <1>1, <1>4 DEF RegistryState
<1>6. ASSUME NEW i \in 1..n PROVE b[i] = BalanceAfterWithdrawals(s, i, x)
  <2>1. AmountFor(x, i) \in Nat /\ AmountFor(x, i) <= s.balances[i] /\ s.balances[i] \in Nat
    BY <1>2, <1>3, PaymentAppended
  <2>2. b[i] = SaturatingSub(s.balances[i], PaidTo(x, i))
    BY <1>2
  <2> QED BY <2>1, <2>2 DEF SaturatingSub, BalanceAfterWithdrawals, PaidTo
<1> QED BY <1>5, <1>6 DEF t, x, cursor

\* Of the steps, only the start of a block goes from stage 0 to stage 1.
LEMMA BlockBegins ==
  ASSUME [Next]_vars, stage = 0, stage' = 1
  PROVE  state' = ProcessWithdrawals(state)
<1>1. CASE NextSlot \/ \E finalized \in FinalizedChoices, i \in Known, delta \in Deltas :
                         NextEpoch(finalized, i, delta)
  BY <1>1 DEF NextSlot, NextEpoch
<1>2. CASE BeginBlock
  BY <1>2 DEF BeginBlock
<1>3. \A kind \in 1..7 : ~Operation(kind)
  BY DEF Operation
<1>4. CASE \E i \in Offenders \cap Known, proposer \in Proposers \cap Known :
             ProcessSlashing(i, proposer)
  BY <1>3, <1>4 DEF ProcessSlashing
<1>5. CASE \E i \in Leavers \cap Known : ProcessVoluntaryExit(i) \/ FullExitRequest(i)
  BY <1>3, <1>5 DEF ProcessVoluntaryExit, FullExitRequest
<1>6. CASE \E i \in Known : ProcessBlsToExecutionChange(i) \/ ProcessSwitchToCompounding(i)
  BY <1>3, <1>6 DEF ProcessBlsToExecutionChange, ProcessSwitchToCompounding
<1>7. CASE \E request \in DepositRequests : ProcessDepositRequest(request)
  BY <1>3, <1>7 DEF ProcessDepositRequest
<1>8. CASE \E i \in Known, amount \in PartialAmounts : PartialWithdrawalRequest(i, amount)
  <2>1. Operation(6)
    BY <1>8 DEF PartialWithdrawalRequest
  <2> QED BY <1>3, <2>1
<1>9. CASE \E c \in Consolidations : ProcessConsolidationRequest(c[1], c[2])
  <2>1. Operation(7)
    BY <1>9 DEF ProcessConsolidationRequest
  <2> QED BY <1>3, <2>1
<1>10. CASE UNCHANGED vars
  BY <1>10 DEF vars
<1> QED
  BY <1>1, <1>2, <1>4, <1>5, <1>6, <1>7, <1>8, <1>9, <1>10 DEF Next

\* The withdrawal cursor skips nobody: whatever the limits of a payload and of
\* the sweep are, and whatever partial withdrawals took part of the payload, each
\* validator process_withdrawals moves the cursor past has nothing left to pay.
THEOREM CursorSkipsNobody == Spec => [][SweepSkipsNobody]_vars
<1>1. ASSUME RegistryInv, [Next]_vars PROVE SweepSkipsNobody
  <2> SUFFICES ASSUME stage = 0, stage' = 1 PROVE SweepSkipsNobody
    BY DEF SweepSkipsNobody
  <2> DEFINE s == state
             t == state'
             x == ExpectedWithdrawals(s)
             from == s.nextWithdrawalValidator
             steps == (t.nextWithdrawalValidator - from) % Len(s.validators)
  <2>1. Sound(s) /\ s \in RegistryState /\ Indexed(s)
    BY <1>1 DEF RegistryInv, Sound
  <2>2. t = ProcessWithdrawals(s)
    BY <1>1, BlockBegins
  <2>3. /\ t.validators = s.validators
        /\ t.nextWithdrawalValidator = CursorAfter(s, x)
        /\ \A i \in 1..Len(s.validators) : t.balances[i] = BalanceAfterWithdrawals(s, i, x)
    BY <2>1, <2>2, WithdrawalsPaid
  <2>4. \A k \in 0..(steps - 1) : NothingLeft(s, x, At(s, k))
    BY <2>1, <2>3, PassedAreSettled
  <2>5. \A k \in Nat : At(s, k) \in 1..Len(s.validators)
    BY <2>1, AtSteps
  <2> HIDE DEF steps, x
  <2>6. ASSUME NEW k \in 0..(steps - 1)
        PROVE  LET i == NthFrom(from, k, s)
                   v == t.validators[i]
               IN /\ ~IsFullyWithdrawable(v, t.balances[i], CurrentEpoch(s))
                  /\ ~IsPartiallyWithdrawable(v, t.balances[i])
    <3>1. k \in Nat /\ NthFrom(from, k, s) = At(s, k)
      BY DEF At
    <3>2. t.balances[At(s, k)] = BalanceAfterWithdrawals(s, At(s, k), x)
      BY <2>3, <2>5, <3>1
    <3> QED BY <2>3, <2>4, <3>1, <3>2 DEF NothingLeft
  <2> QED BY <2>6 DEF SweepSkipsNobody, steps
<1> QED BY <1>1, GenesisInv, RegistryInductive, PTL DEF Spec

=============================================================================
