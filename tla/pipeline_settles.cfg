SPECIFICATION FairSpec
CONSTANTS
  m1 = m1
  m2 = m2
  score = score
  censor = censor
  tts = tts
  display = display
  NoMsg = NoMsg
  NoModule = NoModule
  NoPoint = NoPoint
  NoReason = NoReason
  Msg <- TwoMessages
  Module = {tts}
  PreModules = {}
  InModules <- TtsChain
  PostModules = {}
  CommandScoped = {}
  CatchAll = {}
  WantsPlain = {}
  CommandOwner <- PlainChat
  MaxResends = 1
  Critical = {tts}
  Abandoning = {tts}
  DrainWindows = {}
  StartPaused = FALSE
  StartBlocked = NoReason
  Outages = {}
  MaxRequests = 0
  MaxFlags = 0
  MaxCrashes = 0
  MaxFaults = 0
INVARIANT TypeOK
 
PROPERTY QueuedIsSettled
