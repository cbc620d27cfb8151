CONSTANTS
  Length = 5
  Needed = 2
  Frames <- MCFrames
  NULL = NULL

SPECIFICATION DetectorSpec

CHECK_DEADLOCK FALSE

INVARIANTS DetectorTypeOK ValidatorIsSteady SteadyHasMarker CenterWhenSteady DiesOnlyOnAxis
PROPERTY ImplementsSlidingWindow
