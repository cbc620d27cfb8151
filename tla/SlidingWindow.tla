--------------------------- MODULE SlidingWindow ---------------------------
(***************************************************************************)
(* What ValidFrame promises the detector: it knows of each of the last     *)
(* Width frames, oldest first, whether the marker was found in it, and     *)
(* says whether there were at least Needed of them. Before Width frames    *)
(* have been seen, the missing ones count as frames without the marker.    *)
(***************************************************************************)
EXTENDS Naturals, FiniteSets

CONSTANTS Width, Needed

VARIABLE window   \* window[1] is the oldest of the last Width frames

Init == window = [i \in 1 .. Width |-> FALSE]

Shift(found) ==
  window' = [i \in 1 .. Width |-> IF i = Width THEN found ELSE window[i + 1]]

Next == \E found \in BOOLEAN : Shift(found)

Spec == Init /\ [][Next]_window

Steady == Cardinality({i \in 1 .. Width : window[i]}) >= Needed
=============================================================================
