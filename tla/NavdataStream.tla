---------------------------- MODULE NavdataStream ----------------------------
(***************************************************************************)
(* node drone/ar-drone/lib/navdata/UdpNavdataStream.js: asks the drone for *)
(* navdata, drops packets that do not parse or come out of order, passes   *)
(* the others on, and asks again when nothing valid came for a while.      *)
(*                                                                         *)
(* The network between the two loses, reorders and duplicates packets.     *)
(* The drone (external) streams once it was asked to, numbers its packets  *)
(* from 1, and may restart, which stops the stream and the numbering.      *)
(***************************************************************************)
EXTENDS Naturals, Sequences, FiniteSets, Positions

CONSTANTS
  MaxSeq,     \* bound: the drone numbers packets up to MaxSeq
  MaxInAir,   \* bound: packets on their way at a time
  MaxReboots  \* bound: restarts of the drone

ASSUME BoundsAssumption ==
  MaxSeq \in Nat /\ MaxInAir \in Nat /\ MaxReboots \in Nat

VARIABLES
  initialized,     \* this._initialized: the socket listens
  sequenceNumber,  \* this._sequenceNumber
  timer,           \* this._timer is pending
  emitted,         \* the last packet passed to the 'data' listeners
  request,         \* a request is on its way to the drone
  net,             \* navdata packets on their way to the client
  streaming,       \* external: the drone sends navdata
  droneSeq,        \* external: number of the drone's last packet
  boots            \* external: how often the drone restarted

stream == <<initialized, sequenceNumber, timer, emitted>>
drone == <<streaming, droneSeq, boots>>
vars == <<stream, request, net, drone>>

\* valid: parseNavdata accepts the header, the options and the checksum.
Packet == [seq : 1 .. MaxSeq, boot : 0 .. MaxReboots, valid : BOOLEAN]
NoPacket == [seq |-> 0, boot |-> 0, valid |-> FALSE]

TypeOK ==
  /\ initialized \in BOOLEAN
  /\ sequenceNumber \in 0 .. MaxSeq
  /\ timer \in BOOLEAN
  /\ emitted \in Packet \cup {NoPacket}
  /\ request \in BOOLEAN
  /\ net \subseteq Packet
  /\ streaming \in BOOLEAN
  /\ droneSeq \in 0 .. MaxSeq
  /\ boots \in 0 .. MaxReboots

Init ==
  /\ initialized = FALSE
  /\ sequenceNumber = 0
  /\ timer = FALSE
  /\ emitted = NoPacket
  /\ request = FALSE
  /\ net = {}
  /\ streaming = FALSE
  /\ droneSeq = 0
  /\ boots = 0

-----------------------------------------------------------------------------
\* Mutant of RequestNavdata: asks once and sets no timer.
RequestOnce ==
  /\ request' = TRUE
  /\ timer' = FALSE

\* _requestNavdata(): send the request and restart the timer.
RequestNavdata ==
  /\ request' = TRUE
  /\ timer' = TRUE

Resume ==
  /\ initialized' = TRUE
  /\ RequestNavdata
  /\ UNCHANGED <<sequenceNumber, emitted, net, drone>>

\* The timer set by _setTimeout fires.
RequestAgain ==
  /\ timer
  /\ RequestNavdata
  /\ UNCHANGED <<initialized, sequenceNumber, emitted, net, drone>>

\* Mutant of InOrder: lets the last packet through again.
InOrderOrEqual(p) == p.seq >= sequenceNumber

InOrder(p) == p.seq > sequenceNumber

\* Mutant of Accept: expects the next packet already.
AcceptAhead(p) == sequenceNumber' = p.seq + 1 /\ emitted' = p

Accept(p) == sequenceNumber' = p.seq /\ emitted' = p

\* _handleMessage() of a packet that does not parse returns early and leaves
\* the timer alone; any other packet restarts it, the ignored ones as well.
HandleMessage(p) ==
  /\ initialized
  /\ IF p.valid /\ InOrder(p)
     THEN Accept(p)
     ELSE UNCHANGED <<sequenceNumber, emitted>>
  /\ timer' = (timer \/ p.valid)
  /\ UNCHANGED initialized

\* The network delivers p, and may still hold a copy of it.
Deliver(p) ==
  /\ p \in net
  /\ HandleMessage(p)
  /\ net' \in {net, net \ {p}}
  /\ UNCHANGED <<request, drone>>

-----------------------------------------------------------------------------
LosePacket(p) ==
  /\ p \in net
  /\ net' = net \ {p}
  /\ UNCHANGED <<stream, request, drone>>

LoseRequest ==
  /\ request
  /\ request' = FALSE
  /\ UNCHANGED <<stream, net, drone>>

DroneGetsRequest ==
  /\ request
  /\ request' = FALSE
  /\ streaming' = TRUE
  /\ UNCHANGED <<stream, net, droneSeq, boots>>

DroneSends ==
  /\ streaming
  /\ droneSeq < MaxSeq
  /\ Cardinality(net) < MaxInAir
  /\ droneSeq' = droneSeq + 1
  /\ \E ok \in BOOLEAN :
       net' = net \cup {[seq |-> droneSeq', boot |-> boots, valid |-> ok]}
  /\ UNCHANGED <<stream, request, streaming, boots>>

\* A restart takes seconds: what was on its way by then is lost.
DroneReboots ==
  /\ boots < MaxReboots
  /\ droneSeq < MaxSeq
  /\ boots' = boots + 1
  /\ droneSeq' = 0
  /\ streaming' = FALSE
  /\ net' = {}
  /\ UNCHANGED <<stream, request>>

Next ==
  \/ Resume
  \/ RequestAgain
  \/ \E p \in net : Deliver(p) \/ LosePacket(p)
  \/ LoseRequest
  \/ DroneGetsRequest
  \/ DroneSends
  \/ DroneReboots

\* The event loop runs the timer if nothing restarts it, that is, while no
\* packet is on its way; the network loses some requests but not all of them.
Fairness ==
  /\ WF_vars(net = {} /\ ~streaming /\ RequestAgain)
  /\ SF_vars(DroneGetsRequest)

Spec == Init /\ [][Next]_vars
FairSpec == Spec /\ Fairness

-----------------------------------------------------------------------------
\* Listeners see navdata in the order the drone sent it, each packet at most
\* once, however the network reorders and duplicates ("Ignore out of order
\* messages", line 70). Packets the filter would ignore are not on their way.
Numbers(P) == {p.seq : p \in P}
BySeq(P) ==
  [i \in 1 .. Cardinality(Numbers(P)) |->
     CHOOSE p \in P : p.seq = Ascending(Numbers(P))[i]]
Pending == {p \in net : p.valid /\ InOrder(p)}
OnTheirWay == BySeq(Pending)
Channel ==
  INSTANCE LossyChannel WITH
    Payloads <- Packet, None <- NoPacket, chan <- OnTheirWay, got <- emitted
ImplementsLossyChannel == Channel!Spec

\* A client that listens gets the drone to stream, although requests are lost
\* and the drone forgets, when it restarts, that it was asked.
AsksUntilStreaming == (initialized /\ ~streaming) ~> streaming
=============================================================================
