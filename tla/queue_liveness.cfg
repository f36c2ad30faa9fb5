SPECIFICATION FairSpec
CONSTANTS
  move100 = move100
  status = status
  temperature = temperature
  home = home
  estop = estop
  restart = restart
  Command <- MCCommand
  Commandtype <- MCCommandtype
  Requests <- LivenessRequests
  Requester = {r1}
  TimeoutMs = 0
  BackgroundPenalty = 1
  IdlePenalty = 2
  ClockWrap = 8
  MaxQueue = 3
  MaxCalls = 1
INVARIANT BoundedWait
PROPERTY EveryCallbackCalled
