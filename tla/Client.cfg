CONSTANTS
  Pairs <- OnePair
  Speeds = {1}
  Callbacks = {k1}
  Calls = {a1, a2}
  Times = 2
  MaxCmds = 1

SPECIFICATION FairSpec

INVARIANTS TypeOK RepeatsExact TrimsEnd
PROPERTIES EachRepeated ToldIsAsked EmergencyIsRequested

CHECK_DEADLOCK FALSE
