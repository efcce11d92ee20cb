CONSTANTS
  Task = {sync, writer}
  NoTask = NoTask
  Sync = sync
  NoiseRows <- AllRows
  KeepNoise = 1
  CheckOnOpen = TRUE
  BackupChecks = {TRUE, FALSE}
  OracleMisses = FALSE
  MaxRows = 2
  MaxPanics = 1
  MaxOpenFailures = 1
  MaxCrashes = 2
  MaxFaults = 1
SPECIFICATION FairSpec
CHECK_DEADLOCK FALSE
INVARIANTS
  TypeOK
  LossIsExplained
  LateCallsAreServed
PROPERTIES
  NoTornFileIsAdopted
  CullIsSafe
  EventuallyUp
