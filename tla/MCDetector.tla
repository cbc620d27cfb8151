----------------------------- MODULE MCDetector -----------------------------
(***************************************************************************)
(* Frames with none, one or both of the markers, in both orders, with the  *)
(* parking place at the center, at 29 and at 30 pixels from it on an axis, *)
(* and in each quadrant; a marker of another id; and two parking places.   *)
(***************************************************************************)
EXTENDS Detector

Positions ==
  {<<320, 180>>, <<349, 180>>, <<350, 180>>, <<320, 150>>,
   <<400, 100>>, <<400, 300>>, <<200, 100>>, <<200, 300>>}
Place(p) == [id |-> 1, x |-> p[1], y |-> p[2]]
Car == [id |-> 2, x |-> 10, y |-> 10]
Other == [id |-> 3, x |-> 10, y |-> 10]

MCFrames ==
  {<<>>, <<Car>>, <<Other>>}
    \cup {<<Place(p)>> : p \in Positions}
    \cup {<<Place(<<200, 100>>), Car>>, <<Car, Place(<<200, 100>>)>>,
          <<Place(<<350, 180>>), Place(<<400, 300>>), Car>>}
=============================================================================
