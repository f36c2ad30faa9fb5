SPECIFICATION Spec
CONSTANTS
  move100 = move100
  status = status
  temperature = temperature
  home = home
  estop = estop
  restart = restart
  Command <- MCCommand
  Commandtype <- MCCommandtype
  Requests <- ReentrancyRequests
  Requester = {r1, r2}
  TimeoutMs = 1
  BackgroundPenalty = 1
  IdlePenalty = 2
  ClockWrap = 5
  MaxQueue = 2
  MaxCalls = 2
SYMMETRY RequesterSymmetry
INVARIANTS
  TypeOK
  SingleFlight
  DeferredSafe
  NeverIdle
  CallbackConservation
  PollingBounded
  TimelyTimeout
PROPERTIES
  NoSendWhileNotifying
  RecoveryRespected
  ImplementsLedger
