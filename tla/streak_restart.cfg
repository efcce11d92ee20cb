SPECIFICATION Spec
CONSTANTS
  ann = ann
  bob = bob
  twitch = twitch
  kick = kick
  User = {ann, bob}
  Conn = {twitch, kick}
  Main = Main
  MaxStreams = 3
  MaxBoots = 1
  MaxFaults = 0
SYMMETRY Alike
PROPERTY StreakGoesOn
CHECK_DEADLOCK FALSE
