SPECIFICATION Spec
CONSTANTS
  Configurations <- EmergencyOnly
  TimeLimit <- MCTimeLimit
  RecoveryDelay = 0
  RecoveryInterval = 1
  SetupTimeout = 1
  AgeBound = 3
  PollReads <- StatusOnly
  MaxWrites = 1
  MaxPending = 2
PROPERTIES
  EmergencyHolds
