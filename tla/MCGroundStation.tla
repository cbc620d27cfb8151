-------------------------- MODULE MCGroundStation --------------------------
(***************************************************************************)
(* The video thread and the event dispatch thread, three messages each:    *)
(* one that the script refuses, one sent in the race for the first         *)
(* connection and one after it. A third connection would be one too many.  *)
(***************************************************************************)
EXTENDS GroundStation

MCThreads == {"video", "dispatch"}
MCResilient == {"dispatch"}
=============================================================================
