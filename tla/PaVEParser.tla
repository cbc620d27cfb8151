----------------------------- MODULE PaVEParser -----------------------------
(***************************************************************************)
(* node drone/ar-drone/lib/video/PaVEParser.js: cuts the drone's TCP video *)
(* stream into frames. A frame is a header and a payload; TCP delivers any *)
(* part of the stream as a chunk. The stream may be joined inside a frame. *)
(*                                                                         *)
(* Each byte is named by its frame and its place in it, and the sizes are  *)
(* scaled down; SizesAssumption says what matters of them. The first       *)
(* bytes of a header are its signature, which is in no payload. One        *)
(* write() runs its loop to the end and is one action; someone listens for *)
(* 'error', which would end the process otherwise.                         *)
(***************************************************************************)
EXTENDS Reader, FiniteSets

CONSTANTS
  HEADER_SIZE_SHORT, HEADER_SIZE_LONG,
  MaxPayload,   \* bound: bytes in a payload
  MaxFrames,    \* bound: frames in the stream
  NONE          \* undefined

ASSUME SizesAssumption ==
  /\ {HEADER_SIZE_SHORT, HEADER_SIZE_LONG, MaxPayload, MaxFrames} \subseteq Nat
  /\ 0 < HEADER_SIZE_SHORT /\ HEADER_SIZE_SHORT < HEADER_SIZE_LONG
  /\ HEADER_SIZE_LONG <= 2 * HEADER_SIZE_SHORT  \* 64 and 68 in the code

Frame == [n : 1 .. MaxFrames,
          header_size : {HEADER_SIZE_SHORT, HEADER_SIZE_LONG},
          payload_size : 0 .. MaxPayload]

ASSUME BytesAssumption ==
  [of : Frame, place : 1 .. HEADER_SIZE_LONG + MaxPayload] \subseteq Byte

VARIABLES
  state,     \* this._state
  frame,     \* this._frame: the frame whose header was read last
  wire,      \* the bytes of the stream not yet delivered
  sent,      \* the frames of the stream so far
  joined,    \* history: the stream was joined inside its first frame
  emitted,   \* history: the frames emitted, with their payloads
  failed     \* history: an 'error' was emitted

vars == <<readerVars, state, frame, wire, sent, joined, emitted, failed>>

Size(f) == f.header_size + f.payload_size
Bytes(f) == [i \in 1 .. Size(f) |-> [of |-> f, place |-> i]]
Payload(f) == SubSeq(Bytes(f), f.header_size + 1, Size(f))

TypeOK ==
  /\ ReaderTypeOK
  /\ state \in {"header", "payload"}
  /\ frame \in Frame \cup {NONE}
  /\ wire \in Seq(Byte)
  /\ sent \in Seq(Frame)
  /\ {joined, failed} \subseteq BOOLEAN
  /\ emitted \in Seq([frame : Frame, payload : Seq(Byte)])

Init ==
  /\ ReaderInit
  /\ state = "header"
  /\ frame = NONE
  /\ \E f \in {f \in Frame : f.n = 1} : \E missed \in 0 .. Size(f) - 1 :
       /\ sent = <<f>>
       /\ wire = SubSeq(Bytes(f), missed + 1, Size(f))
       /\ joined = (missed > 0)
  /\ emitted = <<>>
  /\ failed = FALSE

\* The drone sends another frame.
DroneSends(f) ==
  /\ f.n = Len(sent) + 1
  /\ sent' = Append(sent, f)
  /\ wire' = wire \o Bytes(f)
  /\ UNCHANGED <<readerVars, state, frame, joined, emitted, failed>>

-----------------------------------------------------------------------------
\* The loop of write() reads from a buffer b that does not change; at is the
\* rest of the parser's state.
Ahead(b, at) == Len(b) - at.offset

\* Mutants of HeaderIsThere: waits for one byte more, or for a short header.
HeaderAndMore(b, at) == Ahead(b, at) > HEADER_SIZE_LONG
ShortHeaderIsThere(b, at) == Ahead(b, at) >= HEADER_SIZE_SHORT

HeaderIsThere(b, at) == Ahead(b, at) >= HEADER_SIZE_LONG

\* Mutant of Signed: the signature is not looked at.
AnyBytes(byte) == TRUE

Signed(byte) == byte.place = 1

\* Mutant of HeaderSize: without the kludge for issue 159.
NoKludge(f) == HEADER_SIZE_SHORT

HeaderSize(f) == f.header_size

\* With a wrong signature the code leaves what it took for a header in _frame,
\* which is not read before the next header replaces it.
ReadHeader(b, at) ==
  LET first == b[at.offset + 1]
  IN  IF Signed(first)
      THEN [at EXCEPT !.frame = first.of, !.state = "payload",
                      !.offset = @ + HeaderSize(first.of)]
      ELSE [at EXCEPT !.offset = @ + HEADER_SIZE_SHORT, !.failed = TRUE,
                      !.returned = TRUE]

ReadPayload(b, at) ==
  LET end == at.offset + at.frame.payload_size
  IN  [at EXCEPT !.state = "header", !.frame = NONE, !.offset = end,
                 !.emitted = Append(@, [frame |-> at.frame,
                                        payload |-> SubSeq(b, at.offset + 1, end)])]

Pass(b, at) ==
  CASE at.returned -> at
    [] ~at.returned /\ at.state = "header" /\ HeaderIsThere(b, at) ->
         ReadHeader(b, at)
    [] ~at.returned /\ at.state = "payload"
         /\ Ahead(b, at) >= at.frame.payload_size -> ReadPayload(b, at)
    [] OTHER -> [at EXCEPT !.returned = TRUE]

\* Every second pass takes at least a byte, so the loop has returned by then.
Loop(b, start) ==
  LET after[k \in 0 .. 2 * Len(b) + 2] ==
        IF k = 0 THEN start ELSE Pass(b, after[k - 1])
  IN  after[2 * Len(b) + 2]

\* A 'data' event brings the first n bytes on the wire: write(buffer).
Write(n) ==
  LET chunk == SubSeq(wire, 1, n)
      b == WrittenBuffer(chunk)
      end == Loop(b, [offset |-> WrittenOffset(chunk), state |-> state,
                      frame |-> frame, emitted |-> emitted, failed |-> failed,
                      returned |-> FALSE])
  IN  /\ buffer' = b
      /\ written' = written \o chunk
      /\ offset' = end.offset
      /\ state' = end.state
      /\ frame' = end.frame
      /\ emitted' = end.emitted
      /\ failed' = end.failed
      /\ wire' = SubSeq(wire, n + 1, Len(wire))
      /\ UNCHANGED <<sent, joined>>

Next ==
  \/ \E f \in Frame : DroneSends(f)
  \/ \E n \in DOMAIN wire : Write(n)

Spec == Init /\ [][Next]_vars

-----------------------------------------------------------------------------
\* A frame is emitted with its own payload and nothing else, however the stream
\* was cut into chunks and wherever it was joined.
EmitsWhole == \A i \in DOMAIN emitted : emitted[i].payload = Payload(emitted[i].frame)

\* From the first frame emitted on, none is skipped or repeated.
NoGaps ==
  \A i \in DOMAIN emitted :
    emitted[i].frame = sent[emitted[1].frame.n + i - 1]

\* A stream joined at its start never fails, and its frames are emitted as soon
\* as they have arrived. The one exception: the parser waits for a long header,
\* so a last frame shorter than that is kept until more bytes come, which may
\* be the first ones of the next frame.
Complete == {f \in 1 .. Len(sent) :
               \A i \in DOMAIN wire : wire[i].of.n # f}
NothingWithheld ==
  ~joined =>
    /\ ~failed
    /\ \/ Len(emitted) = Cardinality(Complete)
       \/ /\ Len(emitted) = Cardinality(Complete) - 1
          /\ Size(sent[Cardinality(Complete)]) <= bytesAhead
          /\ bytesAhead < HEADER_SIZE_LONG

\* The Reader under the parser is a queue of bytes.
ImplementsByteQueue == Queue!Spec
=============================================================================
