---------------------------- MODULE MCUdpControl ----------------------------
(***************************************************************************)
(* Three commands: enough for one that is settled, one that is in flight   *)
(* and one that waits behind it.                                           *)
(***************************************************************************)
EXTENDS UdpControl

MCKinds == {"CTRL", "REF"}
=============================================================================
