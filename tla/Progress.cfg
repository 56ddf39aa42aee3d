SPECIFICATION ProgressSpec
CONSTANTS
  v1 = v1
  v2 = v2
  v3 = v3
  Root = {1, 2, 3, 4}
  Validator <- MCValidator
  EffectiveBalance <- MCEffectiveBalance
  EffectiveBalanceIncrement = 1
  SlotsPerEpoch = 2
  SlotsPerHistoricalRoot = 8192
  SlotDuration = 2
  AttestationDue = 1
  ProposerScoreBoost = 40
  MaxTime = 16
  AnchorRoot = 1
  AnchorSlot = 0
  AnchorState <- MCGenesisSummary
  AnchorBeaconState <- GenesisState
  TickTimes <- MCFinalityTimes
  BlockSlots <- MCFinalitySlots
  RootsInOrder = TRUE
  InclusionDelay = 1
  StrayRoots = {0}
  Faulty <- MCFaulty
  BodyAttesters <- MCAll
  WireAttesters <- MCNone
  WireSlashings <- MCNone
PROPERTIES
  EventuallyRealized
CHECK_DEADLOCK FALSE
