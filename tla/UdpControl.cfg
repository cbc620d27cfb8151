CONSTANTS
  Cmds = {c1, c2, c3}
  NONE = NONE
  Kinds <- MCKinds
  MaxCmds = 2

SPECIFICATION UdpFairSpec

INVARIANTS AssertionsHold SettledOnce
PROPERTIES ImplementsConfigQueue SentIsSettled
