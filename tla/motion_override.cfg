SPECIFICATION MotionSpec
CONSTANTS
  TicksPerRev = 10
  AxisValues = 16
  Automations <- ReturningOnly
  MaxMoves = 2
  None = None
INVARIANT
  LatestTargetWins
