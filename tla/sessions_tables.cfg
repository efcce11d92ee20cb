\* Three connections of two processes of one module, one probe, one handshake
\* whose reply cannot be sent.
SPECIFICATION Spec
CONSTANTS
  Socket = {c1, c2, c3}
  NoSocket = NoSocket
  i1 = i1
  i2 = i2
  n1 = n1
  Instance <- MCInstance
  NoInstance = NoInstance
  Name <- MCName
  NameOf <- MCNameOf
  MaxProbes = 1
  MaxFailures = 1
SYMMETRY Symmetry
INVARIANTS
  TypeOK
  UndisturbedIsRegistered
  NoGhostSession
PROPERTIES
  SessionIsLostToNewcomers
\* The connections are finitely many.
CHECK_DEADLOCK FALSE
