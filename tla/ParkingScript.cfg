CONSTANTS
  Messages <- MCMessages
  MaxSent = 3
  NONE = NONE

SPECIFICATION Spec

CHECK_DEADLOCK FALSE

INVARIANTS TypeOK SteersDiagonally
PROPERTY ImplementsLossyChannel
