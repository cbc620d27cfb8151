------------------------------ MODULE MCClient ------------------------------
(***************************************************************************)
(* One pair of directions; one callback, which may wait for a landing or a *)
(* hovering and be passed again once it was called; two repeated commands, *)
(* enough for one to start and to end while the other is at each step.     *)
(***************************************************************************)
EXTENDS Client

OnePair == {<<"up", "down">>}
=============================================================================
