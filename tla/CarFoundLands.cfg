CONSTANTS
  Messages = {"drone_carFound", "drone_center"}
  MaxSent = 2
  NONE = NONE

SPECIFICATION FairSpec

CHECK_DEADLOCK FALSE

PROPERTY CarFoundLands
