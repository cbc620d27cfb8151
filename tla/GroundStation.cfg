CONSTANTS
  Threads <- MCThreads
  Resilient <- MCResilient
  MaxCalls = 3
  MaxOpened = 3
  NONE = NONE

SPECIFICATION Spec

CHECK_DEADLOCK FALSE

INVARIANTS OneEach OrderUnlessRaced ClosedAtExit
