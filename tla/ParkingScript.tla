--------------------------- MODULE ParkingScript ---------------------------
(***************************************************************************)
(* node drone/ar-drone/examples/DroneParkingSystem.js: the script between  *)
(* the ground station and the drone. It obeys the lines it reads from TCP  *)
(* port 5000 by setting the client's flags, listens to navdata after its   *)
(* second timer and lands the drone after its third.                       *)
(*                                                                         *)
(* TCP keeps the bytes in order but not the boundaries of the writes: a    *)
(* 'data' event gets any first part of the bytes on their way. The script  *)
(* trims that chunk and compares all of it with the commands it knows. A   *)
(* message is two tokens here, so that a chunk may end inside it, and its  *)
(* end of line is a third.                                                 *)
(*                                                                         *)
(* A callback that throws ends the process: nothing catches.               *)
(***************************************************************************)
EXTENDS Naturals, Sequences, FiniteSets, SequencesExt, Positions

CONSTANTS
  Messages,    \* what the ground station writes
  MaxSent,     \* bound: messages written in all
  NONE         \* nothing obeyed yet

ASSUME BoundsAssumption == MaxSent \in Nat

VARIABLES
  wire,         \* tokens of the connection not yet read
  written,      \* number of messages written so far
  timer,        \* how many of the client.after() callbacks were called
  alive,        \* the process has not ended with an exception
  markerFound,
  fly,          \* client._ref.fly
  pcmd,         \* the keys of client._pcmd
  obeyed        \* history: the last message that was recognised

process == <<timer, alive, markerFound, fly, pcmd, obeyed>>
vars == <<wire, written, process>>

\* The n-th message written.
Sent == [n : 1 .. MaxSent, text : Messages]
Token == [msg : Sent, part : {"head", "tail", "eol"}]
Line(m) == <<[msg |-> m, part |-> "head"], [msg |-> m, part |-> "tail"],
             [msg |-> m, part |-> "eol"]>>

Directions == {"front", "back", "left", "right"}

TypeOK ==
  /\ wire \in Seq(Token)
  /\ written \in 0 .. MaxSent
  /\ timer \in 0 .. 3
  /\ alive \in BOOLEAN
  /\ markerFound \in BOOLEAN
  /\ fly \in BOOLEAN
  /\ pcmd \subseteq Directions
  /\ obeyed \in Sent \cup {NONE}

Init ==
  /\ wire = <<>>
  /\ written = 0
  /\ timer = 0
  /\ alive = TRUE
  /\ markerFound = FALSE
  /\ fly = FALSE
  /\ pcmd = {}
  /\ obeyed = NONE

-----------------------------------------------------------------------------
\* The ground station's PrintWriter writes and flushes one line.
Write(text) ==
  /\ written < MaxSent
  /\ written' = written + 1
  /\ wire' = wire \o Line([n |-> written', text |-> text])
  /\ UNCHANGED process

IsEol(token) == token.part = "eol"

\* data.trim(): line ends go from both ends of the chunk, not from its inside.
Trim(chunk) ==
  LET kept == {i \in DOMAIN chunk : ~IsEol(chunk[i])}
  IN  IF kept = {} THEN <<>>
      ELSE SubSeq(chunk, CHOOSE i \in kept : \A j \in kept : i <= j,
                         CHOOSE i \in kept : \A j \in kept : i >= j)

\* The chunk is this message and nothing else.
Is(chunk, m) == Trim(chunk) = SubSeq(Line(m), 1, 2)

\* What client.front(speed), back, left and right do to the keys.
Opposite == [front |-> "back", back |-> "front", left |-> "right", right |-> "left"]

\* Mutant of Move: the opposite direction stays.
MoveKeepingOther(keys, d) == keys \cup {d}

Move(keys, d) == (keys \cup {d}) \ {Opposite[d]}

Steering ==
  [drone_upleft    |-> <<"front", "left">>,  drone_upright   |-> <<"front", "right">>,
   drone_downleft  |-> <<"back", "left">>,   drone_downright |-> <<"back", "right">>]

Stopping == {"drone_center", "drone_stop"}
Keys(text) ==
  CASE text \in DOMAIN Steering ->
         Move(Move(pcmd, Steering[text][1]), Steering[text][2])
    [] text \in Stopping -> {}
    [] OTHER -> pcmd

Landing == {"drone_land", "drone_carFound"}
Flies(text) ==
  CASE text = "drone_takeoff" -> TRUE
    [] text \in Landing -> FALSE
    [] OTHER -> fly

\* The texts the script compares a chunk with.
Commands ==
  DOMAIN Steering \cup Stopping \cup Landing \cup {"drone_takeoff", "drone_found"}

Obey(m) ==
  /\ pcmd' = Keys(m.text)
  /\ fly' = Flies(m.text)
  /\ markerFound' = (markerFound \/ m.text = "drone_found")
  /\ obeyed' = m

\* Mutant of Rest: a chunk that was read is read again.
Unread(n) == wire

Rest(n) == SubSeq(wire, n + 1, Len(wire))

\* The 'data' event of the socket, with the first n tokens on the wire.
Data(n) ==
  /\ alive
  /\ wire' = Rest(n)
  /\ LET chunk == SubSeq(wire, 1, n)
         meant == {m \in {token.msg : token \in ToSet(chunk)} :
                     m.text \in Commands /\ Is(chunk, m)}
     IN  \/ \E m \in meant : Obey(m)
         \/ meant = {} /\ UNCHANGED <<markerFound, fly, pcmd, obeyed>>
  /\ UNCHANGED <<written, timer, alive>>

\* Mutant of Pending: setInterval() instead of setTimeout().
AlwaysPending == TRUE

Pending == timer < 3

\* client.after(): the offsets add up, so the callbacks come in this order, at
\* 2500, 2600 and 8600 ms. The first does nothing, the second adds the navdata
\* listener.
After ==
  /\ alive
  /\ Pending
  /\ timer' = timer + 1
  /\ fly' = (fly /\ timer' < 3)
  /\ UNCHANGED <<wire, written, alive, markerFound, pcmd, obeyed>>

\* The listener compares the destination with latitude and longitude, which no
\* one declares: a ReferenceError, whatever the destination and the navdata.
\* What follows the comparison is never reached.
Navdata ==
  /\ alive
  /\ timer >= 2
  /\ alive' = markerFound
  /\ UNCHANGED <<wire, written, timer, markerFound, fly, pcmd, obeyed>>

Next ==
  \/ \E text \in Messages : Write(text)
  \/ \E n \in DOMAIN wire : Data(n)
  \/ After
  \/ Navdata

\* Whatever is on the wire is read, and timers fire. Nothing obliges the drone
\* to send navdata or the ground station to write.
Fairness ==
  /\ WF_vars(\E n \in DOMAIN wire : Data(n))
  /\ WF_vars(After)

Spec == Init /\ [][Next]_vars
FairSpec == Spec /\ Fairness

-----------------------------------------------------------------------------
\* Each line is obeyed at most once and none after a later one, however the
\* bytes are split and joined; a line whose chunk was not exactly that line is
\* lost, and so are those that share a chunk with it.
Heads == Kept(wire, {i \in DOMAIN wire : wire[i].part = "head"})
Channel ==
  INSTANCE LossyChannel WITH
    Payloads <- Sent, None <- NONE, MaxInAir <- MaxSent, got <- obeyed,
    chan <- [i \in DOMAIN Heads |-> Heads[i].msg]
ImplementsLossyChannel == Channel!Spec

\* The script steers along diagonals or not at all: no direction of an earlier
\* command stays in force on one axis with those of a later one.
SteersDiagonally ==
  pcmd # {} => /\ Cardinality(pcmd \cap {"front", "back"}) = 1
               /\ Cardinality(pcmd \cap {"left", "right"}) = 1

\* Every chunk that was read ended where a line ends: no line is split.
NoneSplit == wire = <<>> \/ Head(wire).part = "head"

\* Detector.java:61, "pronaden je i drugi marker i sada mozes sletiti" (the
\* second marker has been found too and you may land now): the message that
\* says so is obeyed unless the script has ended. This is asked only of a
\* connection that splits no line; it may join lines.
CarFoundLands ==
  []NoneSplit =>
    \A m \in Sent : m.text = "drone_carFound" =>
      ((\E i \in DOMAIN Heads : Heads[i].msg = m) ~> (obeyed = m \/ ~alive))
=============================================================================
