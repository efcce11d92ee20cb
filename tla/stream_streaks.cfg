\* Four streams, two restarts of either kind, one failing database call.
SPECIFICATION Spec
CONSTANTS
  ann = ann
  bob = bob
  twitch = twitch
  kick = kick
  User = {ann, bob}
  Conn = {twitch, kick}
  Main = Main
  MaxStreams = 4
  MaxBoots = 2
  MaxFaults = 1
SYMMETRY Alike
INVARIANTS
  TypeOK
  StreakIsEarned
  AttendanceIsSaved
PROPERTY PaidAsCounted
\* The engine may be down for good.
CHECK_DEADLOCK FALSE
