-------------------------- MODULE MCParkingScript --------------------------
(***************************************************************************)
(* Two opposite diagonals and one that shares an axis with each, one       *)
(* command of every other kind, and "drone_start", which the ground        *)
(* station's Start button sends and the script does not know. Three lines  *)
(* are enough for one to be split, one to be joined with it and one to     *)
(* come after them.                                                        *)
(***************************************************************************)
EXTENDS ParkingScript

MCMessages ==
  {"drone_upleft", "drone_downright", "drone_upright", "drone_center",
   "drone_takeoff", "drone_carFound", "drone_found", "drone_start"}
=============================================================================
