\* Two connections with two queries between them, and one frame of the
\* engine's own.
SPECIFICATION FairSpec
CONSTANTS
  Conn = {c1, c2}
  Capacity = 1
  MaxQueries = 2
  MaxPushes = 1
INVARIANTS
  
  UncrowdedIsAnswered
PROPERTY RequestIsHonoured
\* The process exits, or nobody asks it to.
CHECK_DEADLOCK FALSE
