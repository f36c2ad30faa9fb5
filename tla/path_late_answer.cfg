SPECIFICATION PathSpec
CONSTANTS
  move100 = move100
  move200 = move200
  enable = enable
  disable = disable
  status = status
  estop = estop
  Command <- MCCommand
  Commandtype <- MCCommandtype
  FunctionCode <- MCFunctionCode
  Registers <- MCRegisters
  Requests <- MoveRequests
  Requester = {r1}
  TimeoutMs = 1
  ResponseTimeoutMs = 0
  BackgroundPenalty = 1
  IdlePenalty = 1
  ClockWrap = 4
  MaxQueue = 2
  MaxCalls = 1
  MaxHub = 2
  HubRejects = FALSE
PROPERTY LateAnswerIgnored
