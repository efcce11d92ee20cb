SPECIFICATION Spec
CONSTANTS
  m1 = m1
  m2 = m2
  score = score
  censor = censor
  tts = tts
  display = display
  NoMsg = NoMsg
  NoModule = NoModule
  NoPoint = NoPoint
  NoReason = NoReason
  Msg <- OneMessage
  Module = {score, tts, censor, display}
  PreModules = {score}
  InModules <- TwoChain
  PostModules = {display}
  CommandScoped = {tts}
  CatchAll = {score}
  WantsPlain = {}
  CommandOwner <- TtsOwnsM1
  MaxResends = 1
  Critical = {}
  Abandoning = {}
  DrainWindows = {}
  StartPaused = TRUE
  StartBlocked = NoReason
  Outages = {}
  MaxRequests = 2
  MaxFlags = 0
  MaxCrashes = 1
  MaxFaults = 0
INVARIANT NoDoubleDispatch
INVARIANT NoOrphanRow
INVARIANT HeldImpliesGated
PROPERTY KeepsLifecycle
CHECK_DEADLOCK FALSE
