SPECIFICATION Spec
CONSTANTS
  move100 = move100
  status = status
  temperature = temperature
  home = home
  estop = estop
  restart = restart
  Command <- MCCommand
  Commandtype <- MCCommandtype
  Requests <- OrderRequests
  Requester = {r1, r2}
  TimeoutMs = 0
  BackgroundPenalty = 1
  IdlePenalty = 1
  ClockWrap = 3
  MaxQueue = 3
  MaxCalls = 0
SYMMETRY RequesterSymmetry
PROPERTIES
  SendOrder
  ImplementsFlow
