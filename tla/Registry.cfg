CONSTANTS
  SlotsPerEpoch = 1
  FarFutureEpoch = 1000
  EffectiveBalanceIncrement = 4
  MinActivationBalance = 8
  MaxEffectiveBalance = 16
  EjectionBalance = 4
  HysteresisQuotient = 4
  HysteresisDownward = 1
  HysteresisUpward = 5
  MinPerEpochChurnLimit = 4
  MaxPerEpochActivationExitChurnLimit = 4
  ChurnLimitQuotient = 2
  MaxSeedLookahead = 0
  MinValidatorWithdrawabilityDelay = 1
  ShardCommitteePeriod = 1
  EpochsPerSlashingsVector = 4
  MinSlashingPenaltyQuotient = 4
  WhistleblowerRewardQuotient = 8
  ProportionalSlashingMultiplier = 3
  MaxPendingDepositsPerEpoch = 2
  MaxWithdrawalsPerPayload = 3
  MaxPendingPartialsPerSweep = 2
  MaxValidatorsPerSweep = 3
  PendingPartialWithdrawalsLimit = 2
  PendingConsolidationsLimit = 2
  InitialValidators <- MCLeaving
  InitialBalances <- MCLeavingBalances
  MaxSlot = 8
  MaxValidators = 4
  MaxQueue = 0
  FinalityLags <- MCNone
  Deltas <- MCLosses
  DepositRequests <- MCNone
  PartialAmounts <- MCNone
  Leavers = {1, 2}
  Offenders = {2, 3}
  Proposers = {2}
  Consolidations <- MCNone
SPECIFICATION MCSpec
INVARIANTS
  WithdrawableAfterDelay
  ExitChurnBounded
  ValueConserved
  QueuesInOrder
  WithdrawalsKeepStake
PROPERTIES
  ExitsAreFinal
  PenaltyTakenOnce
  SweepGoesOn
CHECK_DEADLOCK FALSE
