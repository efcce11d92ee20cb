SPECIFICATION Spec
CONSTANTS
  m1 = m1
  m2 = m2
  score = score
  censor = censor
  tts = tts
  display = display
  NoMsg = NoMsg
  NoModule = NoModule
  NoPoint = NoPoint
  NoReason = NoReason
  Msg <- OneMessage
  Module = {score, censor, tts}
  PreModules = {score, censor}
  InModules <- TtsChain
  PostModules = {}
  CommandScoped = {}
  CatchAll = {}
  WantsPlain = {}
  CommandOwner <- PlainChat
  MaxResends = 1
  Critical = {}
  Abandoning = {}
  DrainWindows = {}
  StartPaused = FALSE
  StartBlocked = NoReason
  Outages = {}
  MaxRequests = 0
  MaxFlags = 1
  MaxCrashes = 0
  MaxFaults = 0
INVARIANT NoStuckMessage
 
CHECK_DEADLOCK FALSE
