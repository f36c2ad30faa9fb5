SPECIFICATION Spec
CONSTANTS
  Configurations <- AllModes
  TimeLimit <- MCTimeLimit
  RecoveryDelay = 0
  RecoveryInterval = 1
  SetupTimeout = 1
  AgeBound = 3
  PollReads <- StatusOnly
  MaxWrites = 1
  MaxPending = 2
INVARIANTS
  EngineTypeOK
  ErrorStopsMotion
  PollsAfterSetup
  HomingStatusFresh
  DisabledIsLast
  SetupAlive
PROPERTIES
  MarkerIsLast
