--------------------------- MODULE MCParseNavdata ---------------------------
(***************************************************************************)
(* Two small options, a larger and an unknown one, each with a length that *)
(* is absurd, one byte short, exact and a little long; datagrams that end  *)
(* before, inside and after a header, an option and a checksum, large      *)
(* enough for four small options or for the larger one and the checksum.   *)
(***************************************************************************)
EXTENDS ParseNavdata

timeId == 1
physMeasuresId == 3
eulerAnglesId == 5
unknownId == 28
SomeIds == {timeId, physMeasuresId, eulerAnglesId, unknownId, CHECKSUM}

PayloadOf(id) ==
  IF id = CHECKSUM THEN uint32 ELSE IF Known(id) THEN Width(id) ELSE 0
SomeLengths == [id \in SomeIds |-> {0} \cup {PayloadOf(id) + n : n \in {3, 4, 6}}]

SomeSizes == {15, 16, 19, 20, 23, 24, 28, 30, 32, 35, 36, 40, 44, 56, 69, 70}
=============================================================================
