---------------------------- MODULE ControlLink ----------------------------
(***************************************************************************)
(* UdpControl and the drone, joined as Client joins them: flushed datagrams*)
(* travel to the drone, the drone's navdata travels back and Client's      *)
(* _handleNavdata turns its ACK bit into ack() or ackReset(). The navdata  *)
(* stream is represented by what it promises, LossyChannel.                *)
(*                                                                         *)
(* The drone (external) has one ACK bit for all commands: a CONFIG sets    *)
(* it, CTRL(5, 0) clears it, and it may still be set when the client       *)
(* starts, which is why Client.resume() begins with a CTRL(5, 0).          *)
(***************************************************************************)
EXTENDS UdpControl, SequencesExt

CONSTANT MaxInAir  \* bound: navdata packets on their way at a time

\* Of the non-blocking commands only CTRL has to do with the ACK bit.
ASSUME LinkAssumption ==
  /\ Kinds = {"CTRL"}
  /\ "CTRL" \notin Cmds
  /\ MaxInAir \in Nat

VARIABLES
  chan, got,   \* those of LossyChannel: ACK bits on their way, last one seen
  air,         \* datagrams on their way to the drone
  ackBit,      \* the drone's controlCommandAck
  reliable,    \* the network delivers every datagram to the drone, in order
  received,    \* history: the blocking commands the drone received
  leftOver     \* history: the ACK bit was set when the client started

navdata == <<chan, got>>
drone == <<ackBit, received>>
link == <<reliable, leftOver>>
vars == <<control, navdata, air, drone, link>>

Navdata == INSTANCE LossyChannel WITH Payloads <- BOOLEAN, None <- NONE

TypeOK ==
  /\ UdpTypeOK
  /\ chan \in Seq(BOOLEAN)
  /\ got \in BOOLEAN \cup {NONE}
  /\ air \in Seq(Seq(Kinds) \cup Seq(Cmds))
  /\ ackBit \in BOOLEAN
  /\ received \subseteq Cmds
  /\ reliable \in BOOLEAN
  /\ leftOver \in BOOLEAN

\* Client.resume() queues a CTRL(5, 0) before anything is flushed.
Init ==
  /\ cmds = <<"CTRL">>
  /\ Idle
  /\ Navdata!Init
  /\ air = <<>>
  /\ ackBit \in BOOLEAN
  /\ received = {}
  /\ leftOver = ackBit
  /\ reliable \in BOOLEAN

-----------------------------------------------------------------------------
\* Client.config(), by resume() or by the program that uses the client.
ClientConfig(c) ==
  /\ Config(c)
  /\ UNCHANGED <<navdata, air, drone, link>>

\* The end of Client._sendCommands(), every 30 ms.
SendCommands ==
  /\ Flush
  /\ air' = air \o Datagrams
  /\ UNCHANGED <<navdata, drone, link>>

TimerFires ==
  /\ \E t \in Cmds : AckTimeout(t) \/ CtrlTick(t)
  /\ UNCHANGED <<navdata, air, drone, link>>

\* Mutant of HandleAckBit: never calls ackReset().
HandleSetBit(bit) ==
  \/ bit /\ Ack
  \/ ~(bit /\ state = WAITING_FOR_ACK) /\ UNCHANGED control

\* Client._handleNavdata(): ack() if the ACK bit is set, else ackReset(). Each
\* of the two returns at once in a state that does not wait for it.
HandleAckBit(bit) ==
  \/ bit /\ Ack
  \/ ~bit /\ AckReset
  \/ /\ state # IF bit THEN WAITING_FOR_ACK
                 ELSE WAITING_FOR_ACK_RESET
     /\ UNCHANGED control

NavdataArrives(i) ==
  /\ Navdata!Emit(i)
  /\ HandleAckBit(chan[i])
  /\ UNCHANGED <<air, drone, link>>

NavdataLost(i) ==
  /\ Navdata!Lose(i)
  /\ UNCHANGED <<control, air, drone, link>>

-----------------------------------------------------------------------------
DroneSendsNavdata ==
  /\ Navdata!Send(ackBit)
  /\ UNCHANGED <<control, air, drone, link>>

Commands(datagram) == {datagram[i] : i \in DOMAIN datagram}

\* A datagram has either CTRLs or one CONFIG.
DroneReceives(i) ==
  /\ i \in DOMAIN air
  /\ reliable => i = 1
  /\ air' = RemoveAt(air, i)
  /\ ackBit' = ("CTRL" \notin Commands(air[i]))
  /\ received' = received \cup (Commands(air[i]) \ {"CTRL"})
  /\ UNCHANGED <<control, navdata, link>>

DatagramLost(i) ==
  /\ ~reliable
  /\ i \in DOMAIN air
  /\ air' = RemoveAt(air, i)
  /\ UNCHANGED <<control, navdata, drone, link>>

Next ==
  \/ \E c \in Cmds : ClientConfig(c)
  \/ SendCommands
  \/ TimerFires
  \/ \E i \in DOMAIN chan : NavdataArrives(i) \/ NavdataLost(i)
  \/ DroneSendsNavdata
  \/ \E i \in DOMAIN air : DroneReceives(i) \/ DatagramLost(i)

\* Client's interval and expired timers run; the drone keeps streaming; either
\* direction of the network loses some packets, not all of them.
Fairness ==
  /\ WF_vars(SendCommands)
  /\ WF_vars(TimerFires)
  /\ WF_vars(DroneSendsNavdata)
  /\ SF_vars(\E i \in DOMAIN chan : NavdataArrives(i))
  /\ SF_vars(DroneReceives(1))

Spec == Init /\ [][Next]_vars
FairSpec == Spec /\ Fairness

-----------------------------------------------------------------------------
\* A callback is told "ok" only if the drone received that command, or if the
\* bit that was taken for its ACK belongs to a command that had timed out
\* before, or was left over from an earlier session. Without such a leftover,
\* one ACK bit is enough for any number of commands.
AckMeansReceived ==
  \A c \in Cmds : calls[c] = <<"ok">> =>
    \/ c \in received
    \/ \E d \in received : calls[d] = <<"timeout">>
    \/ leftOver

\* If no datagram to the drone is lost, every command that was submitted is
\* sent in the end and its callback called, whatever navdata is lost.
EverySettled ==
  \A c \in Cmds : (reliable /\ ~Fresh(c)) ~> calls[c] # <<>>

\* UdpControl.js:65, "Send ctrl(5, 0) every 50 ms until we get an ACK reset":
\* a client that waits for the reset gets it, although datagrams are lost.
ResetIsReached ==
  (state = WAITING_FOR_ACK_RESET) ~> (state = NOT_BLOCKED)
=============================================================================
