CONSTANTS
  Byte <- MCByte
  HEADER_SIZE_SHORT = 3
  HEADER_SIZE_LONG = 5
  MaxPayload = 2
  MaxFrames = 3
  NONE = NONE
  NaN = NaN

SPECIFICATION Spec

CHECK_DEADLOCK FALSE

INVARIANTS TypeOK EmitsWhole NoGaps NothingWithheld
PROPERTY ImplementsByteQueue
