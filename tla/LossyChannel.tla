---------------------------- MODULE LossyChannel ----------------------------
(***************************************************************************)
(* A channel that may drop messages but never goes back in time: once a    *)
(* message was emitted, nothing sent before it is emitted any more, and    *)
(* nothing is emitted twice. It is what UdpNavdataStream promises its      *)
(* 'data' listeners, and what the script DroneParkingSystem.js makes of    *)
(* the lines the ground station writes to it.                              *)
(***************************************************************************)
EXTENDS Naturals, Sequences

CONSTANTS
  Payloads,  \* what can be sent
  None,      \* nothing emitted yet
  MaxInAir   \* bound: messages on their way at a time

VARIABLES
  chan,  \* payloads on their way, in the order they were sent
  got    \* the payload emitted last, initially None

vars == <<chan, got>>

Init ==
  /\ chan = <<>>
  /\ got = None

Send(m) ==
  /\ Len(chan) < MaxInAir
  /\ chan' = Append(chan, m)
  /\ UNCHANGED got

\* Message i reaches the listeners; those sent before it are overtaken.
Emit(i) ==
  /\ i \in 1 .. Len(chan)
  /\ got' = chan[i]
  /\ chan' = SubSeq(chan, i + 1, Len(chan))

Lose(i) ==
  /\ i \in 1 .. Len(chan)
  /\ chan' = SubSeq(chan, 1, i - 1) \o SubSeq(chan, i + 1, Len(chan))
  /\ UNCHANGED got

\* The first i messages are lost together.
LoseFirst(i) ==
  /\ i \in 1 .. Len(chan)
  /\ chan' = SubSeq(chan, i + 1, Len(chan))
  /\ UNCHANGED got

Next ==
  \/ \E m \in Payloads : Send(m)
  \/ \E i \in 1 .. MaxInAir : Emit(i) \/ Lose(i) \/ LoseFirst(i)

Spec == Init /\ [][Next]_vars
=============================================================================
