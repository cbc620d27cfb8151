-------------------------- MODULE MCVideoPipeline --------------------------
(***************************************************************************)
(* Images of three chunks, of two and of one; a byte of CRC and two of     *)
(* header and signature, so that each part can be cut.                     *)
(***************************************************************************)
EXTENDS VideoPipeline

SomeLayouts == {<<6, 11, 14>>, <<6, 9>>, <<5>>}
=============================================================================
