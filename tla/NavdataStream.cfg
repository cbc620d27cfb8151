CONSTANTS
  MaxSeq = 5
  MaxInAir = 3
  MaxReboots = 1

SPECIFICATION FairSpec

INVARIANT TypeOK
PROPERTIES ImplementsLossyChannel AsksUntilStreaming
