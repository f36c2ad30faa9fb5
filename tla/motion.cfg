SPECIFICATION MotionSpec
CONSTANTS
  TicksPerRev = 10
  AxisValues = 16
  Automations <- MCAutomations
  MaxMoves = 2
  None = None
INVARIANTS
  MotionTypeOK
  ReachedExactly
  TargetAsAsked
  SkippedIsReached
  LostOnlyInHaste
  SpeedNearest
  RampNearest
