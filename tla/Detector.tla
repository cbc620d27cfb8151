------------------------------ MODULE Detector ------------------------------
(***************************************************************************)
(* src/hr/parkingsystem/main/Detector.java and Helper.java: each frame of  *)
(* the drone's camera is searched for marker 1, the parking place, and     *)
(* marker 2, the car. The detector sends "drone_carFound" and              *)
(* "drone_center" to the drone's script.                                   *)
(*                                                                         *)
(* MarkerDetector (JavaCV, external) returns the markers of a frame in     *)
(* some order; a frame is that sequence. findMarker() runs on the video    *)
(* thread only: it is one action. An exception it does not catch ends that *)
(* thread.                                                                 *)
(*                                                                         *)
(* Abstracted: drawing on the image; whether a message handed to           *)
(* SocketMessage leaves the computer; a null image, which changes nothing. *)
(***************************************************************************)
EXTENDS Integers, Sequences, ValidFrame

CONSTANTS
  Frames,   \* what MarkerDetector can find: sequences of Markers
  NULL      \* null

\* A marker's id and the pixel its center is in.
Marker == [id : Nat, x : Int, y : Int]
Directions == {"center", "upright", "downright", "upleft", "downleft"}

ASSUME FramesAssumption ==
  /\ Frames \subseteq Seq(Marker)
  /\ NULL \notin Marker \cup Directions

VARIABLES
  marker,    \* this.marker: the last marker with id 1 seen
  alive,     \* the video thread has not ended with an exception
  frame,     \* history: the last frame
  messages   \* history: what findMarker() sent for it

detectorVars == <<poljeSlika, pozicija, marker, alive, frame, messages>>

centerX == 320
centerY == 180

insideCircle(x, y) ==
  (x - centerX) * (x - centerX) + (y - centerY) * (y - centerY) < 30 * 30

\* A marker exactly above, below or beside the center is in none.
Quadrant(x, y) ==
  CASE centerX < x /\ centerY > y -> "upright"
    [] centerX < x /\ centerY < y -> "downright"
    [] centerX > x /\ centerY > y -> "upleft"
    [] centerX > x /\ centerY < y -> "downleft"
    [] OTHER                      -> NULL

\* Mutant of getDirection: forgets the circle.
QuadrantOnly(x, y) == Quadrant(x, y)

getDirection(x, y) == IF insideCircle(x, y) THEN "center" ELSE Quadrant(x, y)

DetectorTypeOK ==
  /\ RingTypeOK
  /\ marker \in Marker \cup {NULL}
  /\ alive \in BOOLEAN
  /\ frame \in Frames \cup {<<>>}
  /\ messages \in Seq({"drone_carFound", "drone_center"})

DetectorInit ==
  /\ RingInit
  /\ marker = NULL
  /\ alive = TRUE
  /\ frame = <<>>
  /\ messages = <<>>

-----------------------------------------------------------------------------
Places(f) == {i \in DOMAIN f : f[i].id = 1}

\* The loop sends "drone_carFound" for every marker 2 it comes to after a
\* marker 1.
CarsAfterPlace(f) ==
  {i \in DOMAIN f : f[i].id = 2 /\ \E j \in Places(f) : j < i}

CarMessages(f) == [n \in 1 .. Cardinality(CarsAfterPlace(f)) |-> "drone_carFound"]

\* Mutant of Track: a frame without marker 1 clears the old one.
TrackOrForget(f) ==
  \/ Places(f) = {} /\ marker' = NULL
  \/ \E i \in Places(f) : (\A j \in Places(f) : j <= i) /\ marker' = f[i]

\* The last marker 1 of the frame is remembered; without one, the old one is.
Track(f) ==
  \/ Places(f) = {} /\ UNCHANGED marker
  \/ \E i \in Places(f) : (\A j \in Places(f) : j <= i) /\ marker' = f[i]

Direction(m) == getDirection(m.x, m.y)

\* With the marker steady in view, the direction is computed from this.marker
\* whether or not it is in this frame; toString() of no direction throws.
Report(f) ==
  \/ /\ ~getValidator'
     /\ messages' = CarMessages(f)
     /\ UNCHANGED alive
  \/ /\ getValidator'
     /\ marker' # NULL
     /\ Direction(marker') # NULL
     /\ messages' = Append(CarMessages(f), "drone_center")
     /\ UNCHANGED alive
  \/ /\ getValidator'
     /\ marker' = NULL \/ Direction(marker') = NULL
     /\ messages' = CarMessages(f)
     /\ alive' = FALSE

findMarker(f) ==
  /\ alive
  /\ Track(f)
  /\ valid(Places(f) # {})
  /\ frame' = f
  /\ Report(f)

DetectorNext == \E f \in Frames : findMarker(f)

DetectorSpec == DetectorInit /\ [][DetectorNext]_detectorVars

-----------------------------------------------------------------------------
\* The stale marker is never a missing one: getValidator() is true only when
\* some marker was stored, though the two are kept apart.
SteadyHasMarker == getValidator => marker # NULL

\* "drone_center", which stops the drone, goes out only when enough of the
\* last frames showed the parking place, and with it after each such frame
\* the thread survives.
CenterWhenSteady ==
  (\E i \in DOMAIN messages : messages[i] = "drone_center")
    <=> Window!Steady /\ alive

\* The one thing that ends the video thread: a steady marker, off the circle,
\* exactly on one of the two axes.
DiesOnlyOnAxis ==
  ~alive => /\ Window!Steady
            /\ marker.x = centerX \/ marker.y = centerY
            /\ ~insideCircle(marker.x, marker.y)
=============================================================================
