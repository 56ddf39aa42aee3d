SPECIFICATION MCSpec
CONSTANTS
  v1 = v1
  Root = {1, 2, 3}
  Validator <- MCValidator
  EffectiveBalance <- MCEffectiveBalance
  EffectiveBalanceIncrement = 1
  SlotsPerEpoch = 2
  SlotsPerHistoricalRoot = 8192
  SlotDuration = 2
  AttestationDue = 1
  ProposerScoreBoost = 40
  MaxTime = 16
  AnchorRoot = 1
  AnchorSlot = 4
  AnchorState <- MCCheckpointSummary
  TickTimes <- MCCheckpointTimes
  BlockSlots <- MCCheckpointSlots
  RootsInOrder = TRUE
  WireAttesters <- MCNone
  BodyAttesters <- MCNone
  WireSlashings <- MCNone
INVARIANTS
  TypeOK
  CheckpointsOrdered
  PulledUpTipsRealized
  BoostIsCurrent
  HeadFailureExplained
  VotesBacked
PROPERTIES
  BoostGoesToFirst
  AbortedLeafStopsBlocks
  EquivocatorsSilenced
