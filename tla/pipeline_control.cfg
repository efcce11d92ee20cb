SPECIFICATION Spec
CONSTANTS
  m1 = m1
  m2 = m2
  score = score
  censor = censor
  tts = tts
  display = display
  NoMsg = NoMsg
  NoModule = NoModule
  NoPoint = NoPoint
  NoReason = NoReason
  Msg <- OneMessage
  Module = {tts}
  PreModules = {}
  InModules <- TtsChain
  PostModules = {}
  CommandScoped = {}
  CatchAll = {}
  WantsPlain = {}
  CommandOwner <- PlainChat
  MaxResends = 1
  Critical = {}
  Abandoning = {}
  DrainWindows = {"claim", "write"}
  StartPaused = TRUE
  StartBlocked = "timeline_db"
  Outages = {"user_db"}
  MaxRequests = 1
  MaxFlags = 0
  MaxCrashes = 0
  MaxFaults = 1
INVARIANT NoStuckMessage
CHECK_DEADLOCK FALSE
