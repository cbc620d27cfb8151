---------------------------- MODULE MCPaVEParser ----------------------------
(***************************************************************************)
(* Headers of 3 and 5 bytes and payloads of up to 2: a frame, and a frame  *)
(* with the first byte of the next, may be shorter than a long header.     *)
(* Three frames in all sizes, cut in all ways, so that the buffer grows,   *)
(* is reused and grows again.                                              *)
(***************************************************************************)
EXTENDS PaVEParser

MCByte == [of : Frame, place : 1 .. HEADER_SIZE_LONG + MaxPayload]
=============================================================================
