CONSTANTS
  tui = tui
  bot = bot
  early = early
  late = late
  Module = {tui, bot}
  Stage = {early, late}
  NoStage = NoStage
  Manifest <- Manifests
  Trusted = {tui}
  LegacySecret = 1
  ProcessSecret = 0
  MaxMoves = 1
  MaxFaults = 1
SPECIFICATION FairSpec
CHECK_DEADLOCK FALSE
INVARIANTS
  TypeOK
  SecretIsStable
  ApprovalIsKept
  
PROPERTIES
  OperatorMoveIsKept
  OrderingReachesPipeline
  
