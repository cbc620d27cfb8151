CONSTANTS
  Cmds = {c1, c2}
  NONE = NONE
  Kinds = {"CTRL"}
  MaxCmds = 0
  MaxInAir = 2

SPECIFICATION FairSpec

PROPERTY ResetIsReached
