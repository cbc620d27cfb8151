CONSTANTS
  MaxOutages = 2
  SIGNATURE = 2
  HEADER = 2
  CRC = 1
  Layouts <- SomeLayouts
  MaxPngs = 2

SPECIFICATION FairSpec

INVARIANTS TypeOK NeverAbandoned ExactlyOnePng
PROPERTY Recovers

CHECK_DEADLOCK FALSE
