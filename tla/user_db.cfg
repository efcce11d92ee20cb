CONSTANTS
  ann = ann
  bob = bob
  twitch = twitch
  kick = kick
  tui = tui
  mods = mods
  User = {ann, bob}
  Handle = {twitch, kick}
  Nobody = Nobody
  StartScore = 1
  MaxFaults = 1
  Admin = {tui, mods}
  Tui = tui
  MaxOps = 3
  Gated = TRUE
SYMMETRY Accounts
SPECIFICATION Spec
CHECK_DEADLOCK FALSE
INVARIANTS
  TypeOK
  NoAnswerIsSwapped
  
  ScoreIsAccounted
  

  
