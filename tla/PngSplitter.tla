----------------------------- MODULE PngSplitter -----------------------------
(***************************************************************************)
(* node drone/ar-drone/lib/video/PngSplitter.js: cuts the output of ffmpeg *)
(* into PNG images. An image is a signature and chunks; a chunk is a       *)
(* header with its length and type, its data and a CRC; the last chunk of  *)
(* an image is the one of type IEND. The pipe delivers any part of it.     *)
(*                                                                         *)
(* The layout of an image is the sequence of the places at which its       *)
(* chunks end, and a byte is named by its image and its place there. The   *)
(* sizes are scaled down: 8, 8 and 4 bytes in the code. write() runs its   *)
(* loop to the end and is one action.                                      *)
(***************************************************************************)
EXTENDS Naturals, Sequences

CONSTANTS
  SIGNATURE, HEADER, CRC,  \* bytes of these parts
  Layouts                  \* the layouts of the images

VARIABLES
  buffer,          \* this._buffer
  offset,          \* this._offset
  pngStartOffset,  \* this._pngStartOffset
  state,           \* this._state
  chunk,           \* this._chunk
  pngs             \* history: the buffers emitted as 'data'

splitter == <<buffer, offset, pngStartOffset, state, chunk, pngs>>

SplitterInit ==
  /\ buffer = <<>>
  /\ offset = 0
  /\ pngStartOffset = 0
  /\ state = "header"
  /\ chunk = [length |-> 0, last |-> FALSE]
  /\ pngs = <<>>

\* Where the i-th chunk begins: behind the signature or the chunk before.
Begin(layout, i) == IF i = 1 THEN SIGNATURE ELSE layout[i - 1]
Length(layout, i) == layout[i] - Begin(layout, i) - HEADER - CRC

\* Every chunk has its header and its CRC.
IsLayout(layout) ==
  /\ layout \in Seq(Nat) \ {<<>>}
  /\ \A i \in DOMAIN layout :
       /\ SIGNATURE + HEADER + CRC <= layout[i]
       /\ \A j \in 1 .. i - 1 : layout[j] + HEADER + CRC <= layout[i]

\* The bytes of image n: the header of a chunk begins with a byte that tells
\* the length of its data and whether it is the last.
Size(layout) == layout[Len(layout)]
Headed(layout, k) == {i \in DOMAIN layout : k = Begin(layout, i) + 1}
Byte(n, layout, k) ==
  LET headed == Headed(layout, k)
  IN  [png |-> n, place |-> k,
       length |-> IF headed = {} THEN 0
                  ELSE Length(layout, CHOOSE i \in headed : TRUE),
       last |-> Len(layout) \in headed]
Png(n, layout) == [k \in 1 .. Size(layout) |-> Byte(n, layout, k)]

-----------------------------------------------------------------------------
\* The loop of write(); at is where it stands, in a buffer that grows no more.
remainingBytes(at) == Len(at.buffer) - at.offset

\* Mutant of ChunkSize: forgets the CRC.
DataSize(c) == c.length

ChunkSize(c) == c.length + CRC

ReadSignature(at) ==
  [at EXCEPT !.offset = @ + SIGNATURE, !.state = "chunk.header"]

\* Four bytes of length, four of type.
ReadChunkHeader(at) ==
  LET byte == at.buffer[at.offset + 1]
  IN  [at EXCEPT !.chunk = [length |-> byte.length, last |-> byte.last],
                 !.offset = @ + HEADER, !.state = "chunk.data"]

ReadChunkData(at) ==
  LET end == at.offset + ChunkSize(at.chunk)
  IN  IF at.chunk.last
      THEN [at EXCEPT !.pngs = Append(@, SubSeq(at.buffer, at.start + 1, end)),
                      !.buffer = SubSeq(@, end + 1, Len(@)),
                      !.offset = 0, !.state = "header"]
      ELSE [at EXCEPT !.offset = end, !.state = "chunk.header"]

Turn(at) ==
  LET from == IF at.state = "header" THEN [at EXCEPT !.start = at.offset] ELSE at
  IN  CASE at.state = "header" /\ remainingBytes(at) >= SIGNATURE -> ReadSignature(from)
        [] at.state = "chunk.header" /\ remainingBytes(at) >= HEADER ->
             ReadChunkHeader(from)
        [] at.state = "chunk.data" /\ remainingBytes(at) >= ChunkSize(at.chunk) ->
             ReadChunkData(from)
        [] OTHER -> from

\* Every turn but the one that returns takes at least a byte.
Loop(start) ==
  LET turns == Len(start.buffer) + 1
      after[k \in 0 .. turns] == IF k = 0 THEN start ELSE Turn(after[k - 1])
  IN  after[turns]

Standing(b) ==
  [buffer |-> b, offset |-> offset, start |-> pngStartOffset,
   state |-> state, chunk |-> chunk, pngs |-> pngs]

\* write(bytes)
SplitterWrite(bytes) ==
  LET end == Loop(Standing(buffer \o bytes))
  IN  /\ buffer' = end.buffer
      /\ offset' = end.offset
      /\ pngStartOffset' = end.start
      /\ state' = end.state
      /\ chunk' = end.chunk
      /\ pngs' = end.pngs
=============================================================================
