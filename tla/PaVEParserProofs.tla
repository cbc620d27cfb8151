-------------------------- MODULE PaVEParserProofs --------------------------
(***************************************************************************)
(* For any stream of frames, joined anywhere and cut into any chunks: what *)
(* the parser emits are frames of the stream, whole, in order and without  *)
(* gaps; from its start on, all that have arrived. And its Reader is a     *)
(* ByteQueue, under the parser as under any user that reads what is ahead. *)
(*                                                                         *)
(* IInv relates the parser's place in the buffer to the stream: the bytes  *)
(* ahead, those in the buffer and then those on the wire, are an end of    *)
(* the stream (IsStream), and the parser stands at the beginning of the    *)
(* frame it has to emit next, or in that frame behind its header (InStep). *)
(* Neither depends on where the Reader keeps the bytes (StreamMoves,       *)
(* InStepMoves), so write() preserves them; every pass of the loop does    *)
(* (PassKeeps), so their iteration does (LoopIsRight), which has returned  *)
(* after all its passes because each one makes progress.                   *)
(***************************************************************************)
EXTENDS PaVEParser, SequenceLemmas

\* The Reader's invariant: what is unread in its buffer are the last bytes of all
\* that was written.
IsRest ==
  /\ bytesAhead <= Len(written)
  /\ \A i \in 1 .. bytesAhead :
       buffer[offset + i] = written[Len(written) - bytesAhead + i]

ReaderIInv == ReaderTypeOK /\ IsRest

-----------------------------------------------------------------------------
\* Reusing the buffer: the unread bytes move back by the length of the chunk,
\* and the chunk follows them.
LEMMA ReuseAppends ==
  ASSUME ReaderTypeOK, NEW chunk \in Seq(Byte), reuseBuffer(chunk)
  PROVE  /\ Reused(chunk) \in Seq(Byte)
         /\ Len(Reused(chunk)) = Len(buffer)
         /\ \A i \in 1 .. bytesAhead :
              Reused(chunk)[offset - Len(chunk) + i] = buffer[offset + i]
         /\ \A i \in 1 .. Len(chunk) :
              Reused(chunk)[offset - Len(chunk) + bytesAhead + i] = chunk[i]
<1> DEFINE L == Len(buffer)
           C == Len(chunk)
           b == [i \in 1 .. L |-> IF i <= L - C THEN CopiedBack(chunk)[i]
                                  ELSE chunk[i - (L - C)]]
<1>1. L \in Nat /\ C \in Nat /\ offset \in 0 .. L /\ C <= offset
  BY DEF ReaderTypeOK, reuseBuffer
<1>2. Reused(chunk) = b
  BY DEF Reused
<1>3. \A i \in 1 .. L : CopiedBack(chunk)[i] \in Byte
  BY <1>1 DEF CopiedBack, ReaderTypeOK
<1>4. \A i \in 1 .. L : b[i] \in Byte
  BY <1>1, <1>3
<1>5. b \in Seq(Byte) /\ Len(b) = L
  BY <1>1, <1>4
<1>6. \A i \in 1 .. bytesAhead :
        /\ offset - C + i \in 1 .. L - C
        /\ CopiedBack(chunk)[offset - C + i] = buffer[offset + i]
  BY <1>1 DEF CopiedBack, bytesAhead
<1>7. \A i \in 1 .. C : b[L - C + i] = chunk[i]
  BY <1>1
<1>8. offset - C + bytesAhead = L - C
  BY <1>1 DEF bytesAhead
<1> QED
  BY <1>1, <1>2, <1>5, <1>6, <1>7, <1>8, SMTT(30)

\* Growing it: the unread bytes come first, and the chunk follows them.
LEMMA GrowAppends ==
  ASSUME ReaderTypeOK, NEW chunk \in Seq(Byte)
  PROVE  /\ Grown(chunk) \in Seq(Byte)
         /\ Len(Grown(chunk)) = bytesAhead + Len(chunk)
         /\ \A i \in 1 .. bytesAhead : Grown(chunk)[i] = buffer[offset + i]
         /\ \A i \in 1 .. Len(chunk) : Grown(chunk)[bytesAhead + i] = chunk[i]
<1>1. /\ Len(buffer) \in Nat /\ Len(chunk) \in Nat
      /\ offset \in 0 .. Len(buffer) /\ bytesAhead \in Nat
  BY DEF ReaderTypeOK, bytesAhead
<1>2. \A i \in 1 .. bytesAhead : buffer[offset + i] \in Byte
  BY <1>1 DEF ReaderTypeOK, bytesAhead
<1>3. \A i \in 1 .. bytesAhead + Len(chunk) : Grown(chunk)[i] \in Byte
  BY <1>1, <1>2 DEF Grown
<1> QED
  BY <1>1, <1>3 DEF Grown

\* write() keeps the unread bytes, in order, and puts the chunk behind them.
LEMMA WriteAppends ==
  ASSUME ReaderTypeOK, NEW chunk \in Seq(Byte)
  PROVE  /\ WrittenBuffer(chunk) \in Seq(Byte)
         /\ WrittenOffset(chunk) \in 0 .. Len(WrittenBuffer(chunk))
         /\ WrittenOffset(chunk) \in Nat /\ bytesAhead \in Nat
         /\ Len(WrittenBuffer(chunk)) - WrittenOffset(chunk)
              = bytesAhead + Len(chunk)
         /\ \A i \in 1 .. bytesAhead :
              WrittenBuffer(chunk)[WrittenOffset(chunk) + i] = buffer[offset + i]
         /\ \A i \in 1 .. Len(chunk) :
              WrittenBuffer(chunk)[WrittenOffset(chunk) + bytesAhead + i] = chunk[i]
<1> DEFINE b == WrittenBuffer(chunk)
           o == WrittenOffset(chunk)
<1>1. /\ Len(buffer) \in Nat /\ Len(chunk) \in Nat /\ offset \in 0 .. Len(buffer)
      /\ bytesAhead \in Nat /\ bytesAhead = Len(buffer) - offset
  BY DEF ReaderTypeOK, bytesAhead
<1> HIDE DEF b, o
<1>2. CASE reuseBuffer(chunk)
  <2>1. b = Reused(chunk) /\ o = offset - Len(chunk) /\ offset >= Len(chunk)
    BY <1>2 DEF WrittenBuffer, WrittenOffset, reuseBuffer, b, o
  <2>2. /\ Reused(chunk) \in Seq(Byte) /\ Len(Reused(chunk)) = Len(buffer)
        /\ \A i \in 1 .. bytesAhead :
             Reused(chunk)[offset - Len(chunk) + i] = buffer[offset + i]
        /\ \A i \in 1 .. Len(chunk) :
             Reused(chunk)[offset - Len(chunk) + bytesAhead + i] = chunk[i]
    BY <1>2, ReuseAppends
  <2>3. /\ b \in Seq(Byte) /\ Len(b) = Len(buffer)
        /\ \A i \in 1 .. bytesAhead : b[o + i] = buffer[offset + i]
        /\ \A i \in 1 .. Len(chunk) : b[o + bytesAhead + i] = chunk[i]
    BY <2>1, <2>2
  <2>4. Len(b) - o = bytesAhead + Len(chunk) /\ o \in 0 .. Len(b) /\ o \in Nat
    BY <1>1, <2>1, <2>3
  <2> QED
    BY <1>1, <2>3, <2>4 DEF b, o
<1>3. CASE ~reuseBuffer(chunk)
  <2>1. b = Grown(chunk) /\ o = 0
    BY <1>3 DEF WrittenBuffer, WrittenOffset, b, o
  <2>2. /\ b \in Seq(Byte) /\ Len(b) = bytesAhead + Len(chunk)
        /\ \A i \in 1 .. bytesAhead : b[i] = buffer[offset + i]
        /\ \A i \in 1 .. Len(chunk) : b[bytesAhead + i] = chunk[i]
    BY <2>1, GrowAppends
  <2>3. ASSUME NEW i \in 1 .. bytesAhead PROVE b[o + i] = buffer[offset + i]
    <3>1. o + i = i
      BY <1>1, <2>1
    <3> QED
      BY <2>2, <3>1
  <2>4. ASSUME NEW i \in 1 .. Len(chunk) PROVE b[o + bytesAhead + i] = chunk[i]
    <3>1. o + bytesAhead + i = bytesAhead + i
      BY <1>1, <2>1
    <3> QED
      BY <2>2, <3>1
  <2> QED
    BY <1>1, <2>1, <2>2, <2>3, <2>4 DEF b, o
<1> QED
  BY <1>2, <1>3

\* What was written is read from where it was put, in its order: IsRest after
\* a write() and the reads that follow it.
LEMMA WriteThenRead ==
  ASSUME ReaderIInv, NEW chunk \in Seq(Byte),
         buffer' = WrittenBuffer(chunk), written' = written \o chunk,
         offset' \in Nat, WrittenOffset(chunk) <= offset', offset' <= Len(buffer')
  PROVE  /\ ReaderIInv'
         /\ Queue!Extends(written', written)
         /\ Len(written') - bytesAhead' >= Len(written) - bytesAhead
<1> DEFINE o == WrittenOffset(chunk)
           rest == Len(written) - bytesAhead
<1>1. /\ buffer' \in Seq(Byte) /\ o \in 0 .. Len(buffer') /\ o \in Nat
      /\ bytesAhead \in Nat /\ Len(buffer') - o = bytesAhead + Len(chunk)
      /\ \A i \in 1 .. bytesAhead : buffer'[o + i] = buffer[offset + i]
      /\ \A i \in 1 .. Len(chunk) : buffer'[o + bytesAhead + i] = chunk[i]
  BY WriteAppends DEF ReaderIInv
<1>2. /\ written' \in Seq(Byte) /\ Len(chunk) \in Nat /\ Len(written) \in Nat
      /\ Len(written') = Len(written) + Len(chunk)
      /\ \A i \in 1 .. Len(written) : written'[i] = written[i]
      /\ \A i \in 1 .. Len(chunk) : written'[Len(written) + i] = chunk[i]
  BY DEF ReaderIInv, ReaderTypeOK
<1>3. /\ bytesAhead <= Len(written)
      /\ \A i \in 1 .. bytesAhead : buffer[offset + i] = written[rest + i]
  BY DEF ReaderIInv, IsRest
<1>4. PICK p \in Nat : p = offset'
  OBVIOUS
<1> DEFINE L == Len(buffer')
           W == Len(written')
           A == bytesAhead
           C == Len(chunk)
<1>5. /\ L \in Nat /\ p >= o /\ p <= L /\ p \in 0 .. L /\ W \in Nat
      /\ A \in Nat /\ C \in Nat /\ o \in Nat /\ rest \in Nat
      /\ W = rest + A + C /\ L - o = A + C
  <2>1. L \in Nat /\ o <= p /\ p <= L
    BY <1>1, <1>4
  <2> HIDE DEF o, L
  <2> QED
    BY <1>1, <1>2, <1>3, <2>1 DEF L
<1>6. bytesAhead' = L - p
  BY <1>4 DEF bytesAhead
<1> HIDE DEF o, L, W, A, C, rest
<1>7. ASSUME NEW j \in 1 .. A + C PROVE buffer'[o + j] = written'[rest + j]
  <2>1. CASE j <= A
    <3>1. j \in 1 .. A /\ rest + j \in 1 .. Len(written)
      BY <1>2, <1>3, <1>5, <2>1 DEF A, rest
    <3> QED
      BY <1>1, <1>2, <1>3, <3>1 DEF A, o, rest
  <2>2. CASE j > A
    <3> DEFINE i == j - A
    <3>1. /\ i \in 1 .. C /\ o + A + i = o + j
          /\ Len(written) + i = rest + j
      BY <1>2, <1>5, <2>2 DEF A, rest
    <3>2. buffer'[o + A + i] = chunk[i] /\ written'[Len(written) + i] = chunk[i]
      BY <1>1, <1>2, <3>1 DEF A, C, o
    <3> QED
      BY <3>1, <3>2
  <2>3. j <= A \/ j > A
    BY <1>5
  <2> QED
    BY <2>1, <2>2, <2>3
<1>8. ASSUME NEW i \in 1 .. L - p PROVE buffer'[p + i] = written'[W - (L - p) + i]
  <2> DEFINE j == p - o + i
  <2>1. j \in 1 .. A + C /\ o + j = p + i /\ rest + j = W - (L - p) + i
    BY <1>5
  <2> HIDE DEF j
  <2>2. buffer'[o + j] = written'[rest + j]
    BY <1>7, <2>1
  <2> QED
    BY <2>1, <2>2
<1>9. L - p <= W /\ W - (L - p) >= rest
  BY <1>5
<1>10. IsRest'
  BY <1>4, <1>6, <1>8, <1>9 DEF IsRest, W
<1> QED
  BY <1>1, <1>2, <1>4, <1>5, <1>6, <1>9, <1>10
  DEF ReaderIInv, ReaderTypeOK, Queue!Extends, W, L, rest

\* A read takes the next bytes.
LEMMA ReadTakes ==
  ASSUME ReaderIInv, UNCHANGED <<buffer, written>>, offset' \in offset .. Len(buffer)
  PROVE  /\ ReaderIInv'
         /\ Queue!Extends(written', written)
         /\ Len(written') - bytesAhead' >= Len(written) - bytesAhead
<1>1. /\ Len(buffer) \in Nat /\ Len(written) \in Nat
      /\ offset \in 0 .. Len(buffer)
      /\ bytesAhead \in 0 .. Len(written)
  BY DEF ReaderIInv, ReaderTypeOK, IsRest, bytesAhead
<1>2. PICK n \in 0 .. bytesAhead :
        offset' = offset + n /\ buffer' = buffer /\ written' = written
  <2>1. PICK p \in offset .. Len(buffer) : p = offset'
    OBVIOUS
  <2>2. /\ p - offset \in 0 .. bytesAhead /\ offset + (p - offset) = p
    <3>1. /\ p \in Int /\ offset <= p /\ p <= Len(buffer)
      BY <1>1
    <3>2. offset \in Int /\ Len(buffer) \in Int
      BY <1>1
    <3>3. p - offset \in Int /\ 0 <= p - offset /\ offset + (p - offset) = p
      BY <3>1, <3>2
    <3>4. p - offset <= bytesAhead
      BY <3>1, <3>2 DEF bytesAhead
    <3> QED
      BY <1>1, <3>3, <3>4
  <2>3. buffer' = buffer /\ written' = written
    OBVIOUS
  <2> QED
    BY <2>1, <2>2, <2>3
<1>3. ReaderTypeOK' /\ bytesAhead' = bytesAhead - n
  BY <1>1, <1>2 DEF ReaderIInv, ReaderTypeOK, bytesAhead
<1>4. ASSUME NEW i \in 1 .. bytesAhead'
      PROVE  buffer'[offset' + i] = written'[Len(written') - bytesAhead' + i]
  <2>1. /\ n + i \in 1 .. bytesAhead
        /\ offset + (n + i) = offset' + i
        /\ Len(written) - bytesAhead + (n + i) = Len(written') - bytesAhead' + i
    BY <1>1, <1>2, <1>3
  <2>2. buffer[offset + (n + i)] = written[Len(written) - bytesAhead + (n + i)]
    BY <2>1 DEF ReaderIInv, IsRest
  <2> QED
    BY <1>2, <2>1, <2>2
<1> QED
  BY <1>1, <1>2, <1>3, <1>4 DEF ReaderIInv, IsRest, Queue!Extends

\* What is unread is what was written after the bytes already read.
LEMMA UnreadIsRest ==
  ASSUME ReaderIInv
  PROVE  /\ Unread(buffer, offset) = Queue!After(written, Len(written) - bytesAhead)
         /\ Len(Unread(buffer, offset)) = bytesAhead
         /\ bytesAhead \in 0 .. Len(written)
<1>1. /\ Len(buffer) \in Nat /\ Len(written) \in Nat
      /\ offset \in 0 .. Len(buffer)
      /\ bytesAhead = Len(buffer) - offset
      /\ bytesAhead \in 0 .. Len(written)
  BY DEF ReaderIInv, ReaderTypeOK, IsRest, bytesAhead
<1>2. Unread(buffer, offset) = [i \in 1 .. bytesAhead |-> buffer[offset + i]]
  BY <1>1 DEF Unread
<1>3. Queue!After(written, Len(written) - bytesAhead)
        = [i \in 1 .. bytesAhead |-> written[Len(written) - bytesAhead + i]]
  BY <1>1 DEF Queue!After
<1>4. Unread(buffer, offset) = Queue!After(written, Len(written) - bytesAhead)
  BY <1>1, <1>2, <1>3, ZenonT(30) DEF ReaderIInv, IsRest
<1> QED
  BY <1>1, <1>2, <1>4

\* Bytes added at the end, and the unread ones still its end: a step of the queue.
LEMMA QueueSteps ==
  ASSUME ReaderIInv, ReaderIInv', Queue!Extends(written', written),
         Len(written') - bytesAhead' >= Len(written) - bytesAhead
  PROVE  Queue!Next
<1>1. /\ Len(Unread(buffer, offset)) = bytesAhead
      /\ bytesAhead \in 0 .. Len(written)
      /\ Len(written) \in Nat
  BY UnreadIsRest DEF ReaderIInv, ReaderTypeOK
<1>2. /\ Unread(buffer, offset)' = Queue!After(written', Len(written') - bytesAhead')
      /\ bytesAhead' \in 0 .. Len(written')
      /\ Len(written') \in Nat
  <2>1. Unread(buffer, offset)' = Unread(buffer', offset')
    BY DEF Unread
  <2>2. /\ Len(buffer') \in Nat /\ Len(written') \in Nat
        /\ offset' \in 0 .. Len(buffer')
        /\ bytesAhead' = Len(buffer') - offset'
        /\ bytesAhead' \in 0 .. Len(written')
    BY DEF ReaderIInv, ReaderTypeOK, IsRest, bytesAhead
  <2>3. Unread(buffer', offset')
          = [i \in 1 .. bytesAhead' |-> buffer'[offset' + i]]
    BY <2>2 DEF Unread
  <2>4. Queue!After(written', Len(written') - bytesAhead')
          = [i \in 1 .. bytesAhead' |-> written'[Len(written') - bytesAhead' + i]]
    BY <2>2 DEF Queue!After
  <2>5. \A i \in 1 .. bytesAhead' :
          buffer'[offset' + i] = written'[Len(written') - bytesAhead' + i]
    BY DEF ReaderIInv, IsRest
  <2> QED
    BY <2>1, <2>2, <2>3, <2>4, <2>5, ZenonT(30)
<1> QED
  BY <1>1, <1>2 DEF Queue!Next

-----------------------------------------------------------------------------
\* The initial state satisfies the invariant.
LEMMA ReaderInitInv == ReaderInit => ReaderIInv
BY DEF ReaderInit, ReaderIInv, ReaderTypeOK, IsRest, bytesAhead

\* Every step preserves the invariant, and is a step of the queue or none.
LEMMA ReaderNextInv ==
  ASSUME ReaderIInv, [ReaderNext]_readerVars,
         [UNCHANGED <<buffer, written>> => offset' \in offset .. Len(buffer)]_readerVars
  PROVE  ReaderIInv' /\ [Queue!Next]_<<written, Unread(buffer, offset)>>
<1>1. ASSUME NEW chunk \in Seq(Byte), write(chunk) PROVE ReaderIInv' /\ Queue!Next
  <2>1. /\ buffer' = WrittenBuffer(chunk) /\ written' = written \o chunk
        /\ offset' = WrittenOffset(chunk)
    BY <1>1 DEF write, Inside, ReaderIInv, ReaderTypeOK
  <2>2. WrittenOffset(chunk) \in 0 .. Len(buffer') /\ Len(buffer') \in Nat
    BY <2>1, WriteAppends DEF ReaderIInv
  <2>3. /\ offset' \in Nat /\ WrittenOffset(chunk) <= offset'
        /\ offset' <= Len(buffer')
    BY <2>1, <2>2
  <2> QED
    BY <2>1, <2>3, WriteThenRead, QueueSteps
<1>2. CASE UNCHANGED readerVars
  BY <1>2 DEF readerVars, ReaderIInv, ReaderTypeOK, IsRest, bytesAhead, Unread
<1>3. ASSUME (\E n \in Int : read(n)) \/ readUnterminated, ~UNCHANGED readerVars
      PROVE  ReaderIInv' /\ Queue!Next
  <2>1. UNCHANGED <<buffer, written>>
    BY <1>3 DEF read, readUnterminated
  <2>2. offset' \in offset .. Len(buffer)
    BY <1>3, <2>1
  <2> QED
    BY <2>1, <2>2, ReadTakes, QueueSteps
<1> QED
  BY <1>1, <1>2, <1>3 DEF ReaderNext

\* The invariant holds in every reachable state.
THEOREM ReaderInvariant == ReaderSpec /\ ReadsWhatIsAhead => []ReaderIInv
<1>1. /\ ReaderIInv /\ [ReaderNext]_readerVars
      /\ [UNCHANGED <<buffer, written>> => offset' \in offset .. Len(buffer)]_readerVars
      => ReaderIInv'
  BY ReaderNextInv
<1> QED
  BY <1>1, ReaderInitInv, PTL DEF ReaderSpec, ReadsWhatIsAhead

\* For a user that reads only what is ahead Reader.js implements the queue of
\* bytes, whatever it writes and reads: nothing is lost, repeated or reordered by
\* the reuse of the buffer.
THEOREM ReaderRefinement == ReaderSpec /\ ReadsWhatIsAhead => Queue!Spec
<1>1. ReaderInit => Queue!Init
  BY DEF ReaderInit, Queue!Init, Unread
<1>2. /\ ReaderIInv /\ [ReaderNext]_readerVars
      /\ [UNCHANGED <<buffer, written>> => offset' \in offset .. Len(buffer)]_readerVars
      => [Queue!Next]_Queue!vars
  BY ReaderNextInv DEF Queue!vars
<1> QED
  BY <1>1, <1>2, ReaderInvariant, PTL
  DEF ReaderSpec, ReadsWhatIsAhead, Queue!Spec

-----------------------------------------------------------------------------
Emission == [frame : Frame, payload : Seq(Byte)]

\* The parser's part of the state, as the loop of write() has it.
At == [offset : Nat, state : {"header", "payload"}, frame : Frame \cup {NONE},
       emitted : Seq(Emission), failed : BOOLEAN, returned : BOOLEAN]

Now(returned) ==
  [offset |-> offset, state |-> state, frame |-> frame, emitted |-> emitted,
   failed |-> failed, returned |-> returned]

\* x[i] is in a frame of the stream s, and the last byte of that frame is the
\* one at FrameEnd(x, i).
FrameEnd(x, i) == i - x[i].place + Size(x[i].of)

InFrame(x, i, s) ==
  /\ x[i] = [of |-> x[i].of, place |-> x[i].place]
  /\ x[i].of.n \in 1 .. Len(s)
  /\ x[i].of = s[x[i].of.n]
  /\ x[i].place \in 1 .. Size(x[i].of)

\* x[j] is in the frame of x[i], or the first byte of the next one.
SameFrame(x, i, j) == x[j].of = x[i].of /\ x[j].place = j - i + x[i].place
NextFrame(x, i, j) == x[j].place = 1 /\ x[j].of.n = x[i].of.n + 1
LastByte(x, s) == x[Len(x)].of.n = Len(s) /\ x[Len(x)].place = Size(x[Len(x)].of)

\* The bytes of x after its first o are an end of the stream of the frames s.
IsStream(x, o, s) ==
  /\ \A i \in o + 1 .. Len(x) : InFrame(x, i, s)
  /\ \A i, j \in o + 1 .. Len(x) : i <= j => x[i].of.n <= x[j].of.n
  /\ \A i, j \in o + 1 .. Len(x) :
       j - i + x[i].place \in 1 .. Size(x[i].of) => SameFrame(x, i, j)
  /\ \A i, j \in o + 1 .. Len(x) : j = FrameEnd(x, i) + 1 => NextFrame(x, i, j)
  /\ o < Len(x) => LastByte(x, s)

\* After the first o bytes of x the stream goes on with the frame n.
FrameBegins(x, o, n, s) ==
  IF o < Len(x) THEN x[o + 1].place = 1 /\ x[o + 1].of.n = n ELSE n = Len(s) + 1

\* The number of the frame to be emitted next: known from the first one on, and
\* before that only in a stream joined at its start.
Due(em) == IF em = <<>> THEN 1 ELSE em[1].frame.n + Len(em)
Known(em) == em # <<>> \/ ~joined

\* The parser stands where it should in the bytes x of the stream s.
InStep(x, s, at) ==
  /\ at.state = "header" /\ Known(at.emitted) =>
       FrameBegins(x, at.offset, Due(at.emitted), s)
  /\ at.state = "payload" =>
       /\ at.frame \in Frame
       /\ at.frame.n \in 1 .. Len(s) /\ at.frame = s[at.frame.n]
       /\ \A i \in 1 .. at.frame.payload_size :
            /\ at.offset + i <= Len(x)
            /\ x[at.offset + i].of = at.frame
            /\ x[at.offset + i].place = at.frame.header_size + i
       /\ FrameBegins(x, at.offset + at.frame.payload_size, at.frame.n + 1, s)
       /\ Known(at.emitted) => at.frame.n = Due(at.emitted)
  /\ ~joined => ~at.failed

\* What was emitted is right.
EmittedOf(s, em, i) ==
  /\ em[i].payload = Payload(em[i].frame)
  /\ em[1].frame.n + i - 1 \in 1 .. Len(s)
  /\ em[i].frame = s[em[1].frame.n + i - 1]
EmitsRight(s, em) ==
  /\ \A i \in 1 .. Len(em) : EmittedOf(s, em, i)
  /\ em # <<>> /\ ~joined => em[1].frame.n = 1

\* There are not enough bytes in the buffer b to go on.
Stuck(b, at) ==
  /\ at.state = "header" => ~HeaderIsThere(b, at)
  /\ at.state = "payload" => Ahead(b, at) < at.frame.payload_size

IInv ==
  /\ TypeOK
  /\ IsRest
  /\ Len(sent) > 0 /\ \A k \in 1 .. Len(sent) : sent[k].n = k
  /\ IsStream(buffer \o wire, offset, sent)
  /\ InStep(buffer \o wire, sent, Now(TRUE))
  /\ EmitsRight(sent, emitted)
  /\ ~joined => Stuck(buffer, Now(TRUE))

-----------------------------------------------------------------------------
\* The sizes of a frame, and its bytes.
LEMMA FrameSizes ==
  ASSUME NEW f \in Frame
  PROVE  /\ f.n \in Nat
         /\ f.header_size \in Nat /\ f.header_size \in 1 .. HEADER_SIZE_LONG
         /\ f.header_size >= HEADER_SIZE_SHORT
         /\ f.payload_size \in Nat
         /\ Size(f) = f.header_size + f.payload_size
         /\ Size(f) \in Nat /\ Size(f) \in 1 .. HEADER_SIZE_LONG + MaxPayload
<1>1. /\ f.n \in 1 .. MaxFrames /\ f.payload_size \in 0 .. MaxPayload
      /\ f.header_size \in {HEADER_SIZE_SHORT, HEADER_SIZE_LONG}
  BY DEF Frame
<1>2. /\ HEADER_SIZE_SHORT \in Nat /\ HEADER_SIZE_LONG \in Nat
      /\ MaxPayload \in Nat /\ MaxFrames \in Nat
      /\ 0 < HEADER_SIZE_SHORT /\ HEADER_SIZE_SHORT < HEADER_SIZE_LONG
  BY SizesAssumption
<1> QED
  BY <1>1, <1>2 DEF Size

LEMMA FrameBytes ==
  ASSUME NEW f \in Frame
  PROVE  /\ Bytes(f) \in Seq(Byte) /\ Len(Bytes(f)) = Size(f)
         /\ \A i \in 1 .. Size(f) : Bytes(f)[i] = [of |-> f, place |-> i]
         /\ Payload(f) \in Seq(Byte) /\ Len(Payload(f)) = f.payload_size
         /\ \A i \in 1 .. f.payload_size :
              Payload(f)[i] = [of |-> f, place |-> f.header_size + i]
<1> DEFINE n == f.header_size
           m == Size(f)
<1>1. n \in Nat /\ m \in Nat /\ f.payload_size \in Nat /\ m = n + f.payload_size
      /\ m <= HEADER_SIZE_LONG + MaxPayload /\ n >= 1
      /\ HEADER_SIZE_LONG + MaxPayload \in Nat
  BY FrameSizes, SizesAssumption
<1>2. ASSUME NEW i \in 1 .. m PROVE [of |-> f, place |-> i] \in Byte
  BY <1>1, BytesAssumption
<1>3. /\ Bytes(f) \in Seq(Byte) /\ Len(Bytes(f)) = m
      /\ \A i \in 1 .. m : Bytes(f)[i] = [of |-> f, place |-> i]
  BY <1>1, <1>2 DEF Bytes
<1>4. \A i \in n + 1 .. m : Bytes(f)[i] \in Byte
  BY <1>1, <1>2, <1>3
<1>5. n + 1 \in Int /\ m \in Int
  BY <1>1
<1> HIDE DEF n, m
<1>6. /\ SubSeq(Bytes(f), n + 1, m) \in Seq(Byte)
      /\ Len(SubSeq(Bytes(f), n + 1, m)) = IF n + 1 <= m THEN m - (n + 1) + 1 ELSE 0
      /\ \A i \in 1 .. m - (n + 1) + 1 :
           SubSeq(Bytes(f), n + 1, m)[i] = Bytes(f)[n + 1 + i - 1]
  BY <1>4, <1>5, SubSeqProperties
<1>7. Payload(f) = SubSeq(Bytes(f), n + 1, m)
  BY DEF Payload, n, m
<1>8. ASSUME NEW i \in 1 .. f.payload_size
      PROVE  Payload(f)[i] = [of |-> f, place |-> n + i]
  <2>1. i \in 1 .. m - (n + 1) + 1 /\ n + 1 + i - 1 = n + i /\ n + i \in 1 .. m
    BY <1>1
  <2> QED
    BY <1>3, <1>6, <1>7, <2>1
<1>9. Payload(f) \in Seq(Byte) /\ Len(Payload(f)) = f.payload_size
  <2>1. Len(SubSeq(Bytes(f), n + 1, m)) = f.payload_size
    BY <1>1, <1>6
  <2> QED
    BY <1>6, <1>7, <2>1
<1> QED
  BY <1>3, <1>8, <1>9 DEF n, m

\* What is known of a byte of the stream. A frame is there to its end: the
\* stream ends with a frame.
LEMMA ByteOfStream ==
  ASSUME NEW s \in Seq(Frame), NEW x \in Seq(Byte), NEW o \in Nat, IsStream(x, o, s),
         NEW i \in o + 1 .. Len(x)
  PROVE  /\ i \in Nat /\ InFrame(x, i, s)
         /\ x[i].of \in Frame /\ x[i].of.n \in Nat /\ x[i].of.n \in 1 .. Len(s)
         /\ x[i].place \in 1 .. Size(x[i].of) /\ x[i].place \in Nat
         /\ Size(x[i].of) \in Nat
         /\ FrameEnd(x, i) \in i .. Len(x) /\ FrameEnd(x, i) \in Nat
         /\ FrameEnd(x, i) = i - x[i].place + Size(x[i].of)
<1>1. InFrame(x, i, s) /\ Len(x) \in Nat /\ i \in Nat /\ Len(s) \in Nat
  BY DEF IsStream
<1>2. /\ x[i].of \in Frame /\ x[i].of.n \in 1 .. Len(s) /\ Size(x[i].of) \in Nat
      /\ x[i].place \in 1 .. Size(x[i].of)
  BY <1>1, FrameSizes DEF InFrame
<1> DEFINE e == FrameEnd(x, i)
           L == Len(x)
           S == Size(x[i].of)
           q == x[i].place
<1>3. e \in Int /\ i <= e /\ e = i - q + S
  BY <1>1, <1>2 DEF FrameEnd
<1>4. ASSUME e > L PROVE FALSE
  <2>1. L \in o + 1 .. Len(x) /\ o < Len(x)
    BY <1>1
  <2>2. S \in Nat /\ q \in 1 .. S /\ L \in Nat /\ i <= L
    BY <1>1, <1>2
  <2> HIDE DEF e, S, q
  <2>3. L - i + q \in 1 .. S /\ L - i + q # S
    BY <1>1, <1>3, <1>4, <2>2
  <2>4. SameFrame(x, i, L)
    BY <2>1, <2>3 DEF IsStream, q, S
  <2>5. LastByte(x, s)
    BY <2>1 DEF IsStream
  <2>6. x[L].place = L - i + q /\ x[L].place = S
    BY <2>4, <2>5 DEF SameFrame, LastByte, q, S
  <2> QED
    BY <2>3, <2>6
<1> QED
  BY <1>1, <1>2, <1>3, <1>4

\* Behind a frame the next one begins.
LEMMA FrameFollows ==
  ASSUME NEW s \in Seq(Frame), NEW x \in Seq(Byte), NEW o \in Nat, IsStream(x, o, s),
         NEW i \in o + 1 .. Len(x)
  PROVE  FrameBegins(x, FrameEnd(x, i), x[i].of.n + 1, s)
<1> DEFINE e == FrameEnd(x, i)
           L == Len(x)
           S == Size(x[i].of)
           q == x[i].place
<1>1. /\ e \in i .. L /\ L \in Nat /\ x[i].of.n \in Nat /\ i \in Nat
      /\ S \in Nat /\ q \in 1 .. S /\ e = i - q + S
  BY ByteOfStream
<1> HIDE DEF e, S, q
<1>2. CASE e < L
  <2>1. e + 1 \in o + 1 .. Len(x)
    BY <1>1, <1>2
  <2>2. NextFrame(x, i, e + 1)
    BY <2>1 DEF IsStream, e
  <2> QED
    BY <1>2, <2>2 DEF FrameBegins, NextFrame, e
<1>3. CASE e = L
  <2>1. L \in o + 1 .. Len(x) /\ o < Len(x)
    BY <1>1
  <2>2. L - i + q \in 1 .. S
    BY <1>1, <1>3
  <2>3. SameFrame(x, i, L)
    BY <2>1, <2>2 DEF IsStream, q, S
  <2>4. LastByte(x, s)
    BY <2>1 DEF IsStream
  <2>5. x[i].of.n = Len(s)
    BY <2>3, <2>4 DEF SameFrame, LastByte
  <2> QED
    BY <1>1, <1>3, <2>5 DEF FrameBegins, e
<1> QED
  BY <1>1, <1>2, <1>3

\* Only the bytes that are still ahead matter: the stream may lie elsewhere.
LEMMA StreamMoves ==
  ASSUME NEW s \in Seq(Frame), NEW x \in Seq(Byte), NEW y \in Seq(Byte),
         NEW o \in 0 .. Len(x), NEW p \in 0 .. Len(y),
         Len(x) - o = Len(y) - p,
         \A i \in 1 .. Len(x) - o : y[p + i] = x[o + i],
         IsStream(x, o, s)
  PROVE  IsStream(y, p, s)
<1> DEFINE d == o - p
<1>1. /\ Len(x) \in Nat /\ Len(y) \in Nat /\ o \in Nat /\ p \in Nat /\ d \in Int
      /\ o = p + d /\ Len(x) = Len(y) + d
  OBVIOUS
<1> HIDE DEF d
<1>2. ASSUME NEW i \in p + 1 .. Len(y)
      PROVE  /\ i \in Int /\ i + d \in o + 1 .. Len(x) /\ y[i] = x[i + d]
             /\ x[i + d].place \in Nat /\ Size(x[i + d].of) \in Nat
             /\ FrameEnd(x, i + d) \in Int
             /\ FrameEnd(y, i) = FrameEnd(x, i + d) - d
  <2>1. i + d \in o + 1 .. Len(x) /\ i \in Int
    BY <1>1
  <2>2. i - p \in 1 .. Len(x) - o /\ p + (i - p) = i /\ o + (i - p) = i + d
    BY <1>1
  <2>3. y[i] = x[i + d]
    BY <2>2
  <2> DEFINE j == i + d
  <2>4. j \in o + 1 .. Len(x)
    BY <2>1
  <2> HIDE DEF j
  <2>5. /\ x[j].place \in Nat /\ Size(x[j].of) \in Nat /\ FrameEnd(x, j) \in Nat
        /\ FrameEnd(x, j) = j - x[j].place + Size(x[j].of)
    BY <1>1, <2>4, ByteOfStream
  <2>6. y[i] = x[j] /\ j = i + d
    BY <2>3 DEF j
  <2>7. FrameEnd(y, i) = i - x[j].place + Size(x[j].of)
    BY <2>6 DEF FrameEnd
  <2>8. FrameEnd(y, i) = FrameEnd(x, j) - d /\ FrameEnd(x, j) \in Int
    BY <1>1, <2>1, <2>5, <2>6, <2>7, SMTT(30)
  <2> QED
    BY <2>1, <2>3, <2>5, <2>8 DEF j
<1>3. ASSUME NEW i \in p + 1 .. Len(y) PROVE InFrame(y, i, s)
  <2>1. InFrame(x, i + d, s)
    BY <1>2 DEF IsStream
  <2> QED
    BY <1>2, <2>1 DEF InFrame
<1>4. ASSUME NEW i \in p + 1 .. Len(y), NEW j \in p + 1 .. Len(y)
      PROVE  /\ i <= j => i + d <= j + d
             /\ (j + d) - (i + d) = j - i
             /\ SameFrame(x, i + d, j + d) => SameFrame(y, i, j)
             /\ NextFrame(x, i + d, j + d) => NextFrame(y, i, j)
  <2>1. (j + d) - (i + d) = j - i /\ (i <= j => i + d <= j + d)
    <3>1. i \in Int /\ j \in Int /\ d \in Int
      BY <1>1, <1>2
    <3> QED
      BY <3>1
  <2>2. y[i] = x[i + d] /\ y[j] = x[j + d]
    BY <1>2
  <2> QED
    BY <2>1, <2>2 DEF SameFrame, NextFrame
<1>5. ASSUME NEW i \in p + 1 .. Len(y), NEW j \in p + 1 .. Len(y), i <= j
      PROVE  y[i].of.n <= y[j].of.n
  <2>1. y[i] = x[i + d] /\ y[j] = x[j + d] /\ i + d <= j + d
    BY <1>2, <1>4, <1>5
  <2>2. i + d \in o + 1 .. Len(x) /\ j + d \in o + 1 .. Len(x)
    BY <1>2
  <2> QED
    BY <2>1, <2>2 DEF IsStream
<1>6. ASSUME NEW i \in p + 1 .. Len(y), NEW j \in p + 1 .. Len(y),
             j - i + y[i].place \in 1 .. Size(y[i].of)
      PROVE  SameFrame(y, i, j)
  <2>1. i + d \in o + 1 .. Len(x) /\ j + d \in o + 1 .. Len(x)
    BY <1>2
  <2>2. (j + d) - (i + d) + x[i + d].place \in 1 .. Size(x[i + d].of)
    BY <1>2, <1>4, <1>6
  <2>3. SameFrame(x, i + d, j + d)
    BY <2>1, <2>2 DEF IsStream
  <2> QED
    BY <1>4, <2>3
<1>7. ASSUME NEW i \in p + 1 .. Len(y), NEW j \in p + 1 .. Len(y),
             j = FrameEnd(y, i) + 1
      PROVE  NextFrame(y, i, j)
  <2>1. i + d \in o + 1 .. Len(x) /\ j + d \in o + 1 .. Len(x)
    BY <1>2
  <2>2. FrameEnd(x, i + d) \in Int /\ FrameEnd(y, i) = FrameEnd(x, i + d) - d
    BY <1>2
  <2>3. j + d = FrameEnd(x, i + d) + 1
    BY <1>1, <1>7, <2>2, SMTT(30)
  <2>4. NextFrame(x, i + d, j + d)
    BY <2>1, <2>3 DEF IsStream
  <2> QED
    BY <1>4, <2>4
<1>8. ASSUME p < Len(y) PROVE LastByte(y, s)
  <2>1. Len(y) \in p + 1 .. Len(y) /\ o < Len(x) /\ Len(y) + d = Len(x)
    BY <1>1, <1>8
  <2>2. LastByte(x, s) /\ y[Len(y)] = x[Len(x)]
    BY <1>2, <2>1 DEF IsStream
  <2> QED
    BY <2>2 DEF LastByte
<1> QED
  BY <1>3, <1>5, <1>6, <1>7, <1>8 DEF IsStream

\* So does the place where a frame begins.
LEMMA FrameBeginsMoves ==
  ASSUME NEW s \in Seq(Frame), NEW x \in Seq(Byte), NEW y \in Seq(Byte),
         NEW o \in 0 .. Len(x), NEW p \in 0 .. Len(y),
         Len(x) - o = Len(y) - p,
         \A i \in 1 .. Len(x) - o : y[p + i] = x[o + i],
         NEW k \in 0 .. Len(x) - o, NEW n, FrameBegins(x, o + k, n, s)
  PROVE  FrameBegins(y, p + k, n, s)
<1>1. o + k < Len(x) <=> p + k < Len(y)
  OBVIOUS
<1>2. ASSUME o + k < Len(x) PROVE x[o + k + 1] = y[p + k + 1]
  <2>1. k + 1 \in 1 .. Len(x) - o /\ p + (k + 1) = p + k + 1 /\ o + (k + 1) = o + k + 1
    BY <1>2
  <2> QED
    BY <2>1, SMTT(30)
<1> QED
  BY <1>1, <1>2 DEF FrameBegins

\* The bytes of x and then those of another frame.
LEMMA BytesAppended ==
  ASSUME NEW x \in Seq(Byte), NEW f \in Frame
  PROVE  /\ x \o Bytes(f) \in Seq(Byte)
         /\ Len(x \o Bytes(f)) = Len(x) + Size(f)
         /\ \A i \in 1 .. Len(x) : (x \o Bytes(f))[i] = x[i]
         /\ \A i \in Len(x) + 1 .. Len(x) + Size(f) :
              (x \o Bytes(f))[i] = [of |-> f, place |-> i - Len(x)]
<1>1. /\ Bytes(f) \in Seq(Byte) /\ Len(Bytes(f)) = Size(f)
      /\ \A i \in 1 .. Size(f) : Bytes(f)[i] = [of |-> f, place |-> i]
  BY FrameBytes
<1>2. Size(f) \in Nat /\ Len(x) \in Nat
  BY FrameSizes
<1> DEFINE b == Bytes(f)
           S == Size(f)
           L == Len(x)
<1> HIDE DEF b, S
<1>3. x \o b \in Seq(Byte) /\ Len(x \o b) = L + Len(b)
      /\ \A i \in 1 .. L + Len(b) : (x \o b)[i] = IF i <= L THEN x[i] ELSE b[i - L]
  BY <1>1, ConcatProperties DEF b
<1>4. Len(b) = S /\ S \in Nat /\ L \in Nat
      /\ \A i \in 1 .. S : b[i] = [of |-> f, place |-> i]
  BY <1>1, <1>2 DEF b, S
<1>5. ASSUME NEW i \in 1 .. L PROVE (x \o b)[i] = x[i]
  BY <1>3, <1>4
<1>6. ASSUME NEW i \in L + 1 .. L + S PROVE (x \o b)[i] = [of |-> f, place |-> i - L]
  <2>1. i - L \in 1 .. S /\ i \in 1 .. L + Len(b) /\ ~(i <= L)
    BY <1>4
  <2> QED
    BY <1>3, <1>4, <2>1
<1> QED
  BY <1>3, <1>4, <1>5, <1>6 DEF b, S

\* The stream goes on with a frame.
LEMMA StreamGrows ==
  ASSUME NEW s \in Seq(Frame), NEW x \in Seq(Byte), NEW o \in 0 .. Len(x),
         IsStream(x, o, s), NEW f \in Frame, f.n = Len(s) + 1
  PROVE  IsStream(x \o Bytes(f), o, Append(s, f))
<1> DEFINE y == x \o Bytes(f)
           t == Append(s, f)
           L == Len(x)
           S == Size(f)
<1>1. /\ t \in Seq(Frame) /\ Len(t) = Len(s) + 1 /\ Len(s) \in Nat
      /\ \A k \in 1 .. Len(s) : t[k] = s[k]
      /\ t[Len(s) + 1] = f
  BY AppendProperties
<1>2. /\ y \in Seq(Byte) /\ Len(y) = L + S
      /\ \A i \in 1 .. L : y[i] = x[i]
      /\ \A i \in L + 1 .. L + S : y[i] = [of |-> f, place |-> i - L]
  BY BytesAppended
<1>3. L \in Nat /\ o \in Nat /\ o <= L /\ S \in Nat /\ S >= 1
  BY FrameSizes
<1> HIDE DEF y, t, S
<1>4. ASSUME NEW i \in o + 1 .. Len(y), i <= L
      PROVE  /\ y[i] = x[i] /\ i \in o + 1 .. Len(x) /\ i \in Nat
             /\ InFrame(x, i, s) /\ x[i].of.n \in 1 .. Len(s)
             /\ x[i].place \in Nat /\ Size(x[i].of) \in Nat
             /\ FrameEnd(x, i) \in i .. L
             /\ FrameEnd(x, i) = i - x[i].place + Size(x[i].of)
             /\ FrameEnd(y, i) = FrameEnd(x, i)
  <2>1. i \in o + 1 .. L /\ i \in 1 .. L /\ i \in Nat
    BY <1>2, <1>3, <1>4
  <2>2. y[i] = x[i]
    BY <1>2, <2>1
  <2>3. FrameEnd(y, i) = FrameEnd(x, i)
    BY <2>2 DEF FrameEnd
  <2> QED
    BY <1>3, <2>1, <2>2, <2>3, ByteOfStream
<1>5. ASSUME NEW i \in o + 1 .. Len(y), i > L
      PROVE  /\ i \in Nat /\ y[i] = [of |-> f, place |-> i - L]
             /\ y[i].of = f /\ y[i].place = i - L /\ i - L \in 1 .. S
             /\ FrameEnd(y, i) = L + S
  <2>1. i \in L + 1 .. L + S /\ i \in Nat
    BY <1>2, <1>3, <1>5
  <2>2. y[i] = [of |-> f, place |-> i - L]
    BY <1>2, <2>1
  <2>3. y[i].of = f /\ y[i].place = i - L
    BY <2>2
  <2>4. FrameEnd(y, i) = i - (i - L) + S
    BY <2>3 DEF FrameEnd, S
  <2> QED
    BY <1>3, <2>1, <2>2, <2>3, <2>4
<1>6. ASSUME NEW i \in o + 1 .. Len(y) PROVE InFrame(y, i, t)
  <2>1. CASE i <= L
    <3>1. y[i] = x[i] /\ InFrame(x, i, s) /\ x[i].of.n \in 1 .. Len(s)
      BY <1>4, <2>1
    <3> QED
      BY <1>1, <3>1 DEF InFrame
  <2>2. CASE i > L
    <3>1. /\ y[i] = [of |-> f, place |-> i - L] /\ y[i].of = f
          /\ y[i].place = i - L /\ i - L \in 1 .. S
      BY <1>5, <2>2
    <3>2. f.n \in 1 .. Len(t) /\ t[f.n] = f
      BY <1>1
    <3> QED
      BY <3>1, <3>2 DEF InFrame, S
  <2> QED
    BY <1>2, <1>3, <2>1, <2>2
<1>7. ASSUME NEW i \in o + 1 .. Len(y), NEW j \in o + 1 .. Len(y), i <= j
      PROVE  y[i].of.n <= y[j].of.n
  <2>1. i \in Int /\ j \in Int
    BY <1>2, <1>3
  <2>2. CASE j <= L
    <3>1. i <= L
      BY <1>3, <1>7, <2>1, <2>2
    <3>2. y[i] = x[i] /\ y[j] = x[j] /\ i \in o + 1 .. Len(x) /\ j \in o + 1 .. Len(x)
      BY <1>4, <2>2, <3>1
    <3> QED
      BY <1>7, <3>2 DEF IsStream
  <2>3. CASE i <= L /\ j > L
    <3>1. y[i].of.n \in 1 .. Len(s) /\ y[j].of.n = Len(s) + 1
      BY <1>4, <1>5, <2>3
    <3> QED
      BY <1>1, <3>1
  <2>4. CASE i > L /\ j > L
    <3>1. y[i].of.n = Len(s) + 1 /\ y[j].of.n = Len(s) + 1
      BY <1>5, <2>4
    <3> QED
      BY <1>1, <3>1
  <2> QED
    BY <1>3, <2>1, <2>2, <2>3, <2>4
<1>8. ASSUME NEW i \in o + 1 .. Len(y), NEW j \in o + 1 .. Len(y),
             j - i + y[i].place \in 1 .. Size(y[i].of)
      PROVE  SameFrame(y, i, j)
  <2>1. i \in Nat /\ j \in Nat
    BY <1>2, <1>3
  <2>2. CASE i <= L
    <3> DEFINE q == x[i].place
               T == Size(x[i].of)
               e == FrameEnd(x, i)
    <3>1. y[i] = x[i] /\ q \in Nat /\ T \in Nat /\ e \in i .. L /\ e = i - q + T
      BY <1>4, <2>2
    <3>2. j - i + q \in 1 .. T
      BY <1>8, <3>1
    <3> HIDE DEF q, T, e
    <3>3. j <= L
      BY <1>3, <2>1, <3>1, <3>2
    <3>4. y[j] = x[j] /\ i \in o + 1 .. Len(x) /\ j \in o + 1 .. Len(x)
      BY <1>4, <2>2, <3>3
    <3>5. SameFrame(x, i, j)
      BY <3>2, <3>4 DEF IsStream, q, T
    <3> QED
      BY <3>1, <3>4, <3>5 DEF SameFrame
  <2>3. CASE i > L
    <3>1. y[i].of = f /\ y[i].place = i - L
      BY <1>5, <2>3
    <3>2. j - i + (i - L) \in 1 .. S
      BY <1>8, <3>1 DEF S
    <3>3. j > L /\ j - i + (i - L) = j - L
      BY <1>3, <2>1, <3>2
    <3>4. y[j].of = f /\ y[j].place = j - L
      BY <1>5, <3>3
    <3> QED
      BY <3>1, <3>3, <3>4 DEF SameFrame
  <2> QED
    BY <1>3, <2>1, <2>2, <2>3
<1>9. ASSUME NEW i \in o + 1 .. Len(y), NEW j \in o + 1 .. Len(y),
             j = FrameEnd(y, i) + 1
      PROVE  NextFrame(y, i, j)
  <2>1. i \in Nat /\ j \in Nat /\ j <= L + S
    BY <1>2, <1>3
  <2>2. CASE i <= L /\ j <= L
    <3>1. /\ y[i] = x[i] /\ i \in o + 1 .. Len(x) /\ FrameEnd(y, i) = FrameEnd(x, i)
          /\ y[j] = x[j] /\ j \in o + 1 .. Len(x)
      BY <1>4, <2>2
    <3>2. NextFrame(x, i, j)
      BY <1>9, <3>1 DEF IsStream
    <3> QED
      BY <3>1, <3>2 DEF NextFrame
  <2>3. CASE i <= L /\ j > L
    <3>1. /\ y[i] = x[i] /\ i \in o + 1 .. Len(x) /\ x[i].of.n \in 1 .. Len(s)
          /\ FrameEnd(y, i) = FrameEnd(x, i) /\ FrameEnd(x, i) \in i .. L
      BY <1>4, <2>3
    <3>2. FrameEnd(x, i) = L /\ j = L + 1
      BY <1>3, <1>9, <2>1, <2>3, <3>1, SMTT(30)
    <3>3. FrameBegins(x, L, x[i].of.n + 1, s)
      BY <1>3, <3>1, <3>2, FrameFollows
    <3>4. x[i].of.n + 1 = Len(s) + 1
      BY <1>3, <3>3 DEF FrameBegins
    <3>5. y[j].of = f /\ y[j].place = j - L
      BY <1>5, <2>3
    <3> QED
      BY <1>3, <3>1, <3>2, <3>4, <3>5 DEF NextFrame
  <2>4. CASE i > L
    <3>1. FrameEnd(y, i) = L + S
      BY <1>5, <2>4
    <3> QED
      BY <1>3, <1>9, <2>1, <3>1
  <2> QED
    BY <1>3, <2>1, <2>2, <2>3, <2>4
<1>10. LastByte(y, t)
  <2> DEFINE e == Len(y)
  <2>1. e \in o + 1 .. Len(y) /\ e > L /\ e - L = S
    BY <1>2, <1>3
  <2>2. y[e].of = f /\ y[e].place = e - L
    BY <1>5, <2>1
  <2> QED
    BY <1>1, <2>1, <2>2 DEF LastByte, S
<1> QED
  BY <1>6, <1>7, <1>8, <1>9, <1>10 DEF IsStream, y, t

LEMMA FrameBeginsGrows ==
  ASSUME NEW s \in Seq(Frame), NEW x \in Seq(Byte), NEW o \in 0 .. Len(x), NEW n,
         FrameBegins(x, o, n, s), NEW f \in Frame, f.n = Len(s) + 1
  PROVE  FrameBegins(x \o Bytes(f), o, n, Append(s, f))
<1> DEFINE y == x \o Bytes(f)
           L == Len(x)
           S == Size(f)
<1>1. S \in Nat /\ S >= 1 /\ L \in Nat
  BY FrameSizes
<1>2. /\ Len(y) = L + S
      /\ \A i \in 1 .. L : y[i] = x[i]
      /\ \A i \in L + 1 .. L + S : y[i] = [of |-> f, place |-> i - L]
  BY BytesAppended
<1> HIDE DEF y, S
<1>3. o < Len(y) /\ o \in Nat
  BY <1>1, <1>2
<1>4. CASE o < L
  <2>1. y[o + 1] = x[o + 1]
    BY <1>1, <1>2, <1>4
  <2> QED
    BY <1>3, <1>4, <2>1 DEF FrameBegins, y
<1>5. CASE o = L
  <2>1. L + 1 \in L + 1 .. L + S /\ (L + 1) - L = 1
    BY <1>1
  <2>2. y[L + 1] = [of |-> f, place |-> 1]
    BY <1>2, <2>1
  <2>3. n = Len(s) + 1
    BY <1>1, <1>5 DEF FrameBegins
  <2> QED
    BY <1>3, <1>5, <2>2, <2>3 DEF FrameBegins, y
<1> QED
  BY <1>1, <1>4, <1>5

-----------------------------------------------------------------------------
\* The loop of write(), in a buffer b which the wire's bytes w follow: from o on
\* they are the stream of the frames s.
Right(b, w, s, o) ==
  {at \in At : /\ at.offset \in o .. Len(b)
               /\ InStep(b \o w, s, at)
               /\ EmitsRight(s, at.emitted)
               /\ at.returned => at.failed \/ Stuck(b, at)}

\* A header is read where one is, or else an error is emitted.
LEMMA ReadHeaderKeeps ==
  ASSUME NEW s \in Seq(Frame), NEW b \in Seq(Byte), NEW w \in Seq(Byte), NEW o \in Nat,
         IsStream(b \o w, o, s),
         NEW at \in Right(b, w, s, o), ~at.returned, at.state = "header",
         HeaderIsThere(b, at)
  PROVE  /\ ReadHeader(b, at) \in Right(b, w, s, o)
         /\ ~ReadHeader(b, at).returned =>
              /\ ReadHeader(b, at).state = "payload"
              /\ ReadHeader(b, at).offset > at.offset
<1> DEFINE x == b \o w
           L == Len(b)
           p == at.offset
           first == b[p + 1]
           f == first.of
<1>1. /\ x \in Seq(Byte) /\ L \in Nat /\ Len(x) \in Nat /\ L <= Len(x)
      /\ \A i \in 1 .. L : x[i] = b[i]
  BY ConcatProperties
<1>2. /\ at \in At /\ p \in o .. L /\ p \in Nat
      /\ InStep(x, s, at) /\ EmitsRight(s, at.emitted)
  BY DEF Right, At
<1>3. /\ HEADER_SIZE_LONG \in Nat /\ HEADER_SIZE_SHORT \in Nat
      /\ HEADER_SIZE_SHORT < HEADER_SIZE_LONG /\ 0 < HEADER_SIZE_SHORT
      /\ L - p >= HEADER_SIZE_LONG
  BY SizesAssumption DEF HeaderIsThere, Ahead
<1>4. p + 1 \in o + 1 .. Len(x) /\ p < Len(x) /\ x[p + 1] = first
  BY <1>1, <1>2, <1>3, SMTT(30)
<1> HIDE DEF x, L, p, first
<1>5. /\ InFrame(x, p + 1, s) /\ f \in Frame /\ f.n \in 1 .. Len(s)
      /\ f = s[f.n]
      /\ FrameEnd(x, p + 1) \in p + 1 .. Len(x)
      /\ FrameEnd(x, p + 1) = p + 1 - first.place + Size(f)
  <2>1. IsStream(x, o, s)
    BY DEF x
  <2> DEFINE OK(i) == /\ InFrame(x, i, s) /\ x[i].of \in Frame
                      /\ x[i].of.n \in 1 .. Len(s)
                      /\ x[i].place \in Nat /\ Size(x[i].of) \in Nat
                      /\ FrameEnd(x, i) \in i .. Len(x)
                      /\ FrameEnd(x, i) = i - x[i].place + Size(x[i].of)
  <2>2. OK(p + 1)
    <3>1. \A i \in o + 1 .. Len(x) : OK(i)
      BY <1>1, <2>1, ByteOfStream
    <3> HIDE DEF OK
    <3> QED
      BY <1>4, <3>1
  <2>3. x[p + 1].of = s[x[p + 1].of.n]
    BY <2>2 DEF InFrame
  <2>4. first = x[p + 1] /\ f = x[p + 1].of
    BY <1>4
  <2> HIDE DEF f
  <2>5. InFrame(x, p + 1, s) /\ f \in Frame /\ f.n \in 1 .. Len(s) /\ f = s[f.n]
    BY <2>2, <2>3, <2>4
  <2>6. FrameEnd(x, p + 1) \in p + 1 .. Len(x)
    BY <2>2
  <2>7. FrameEnd(x, p + 1) = p + 1 - first.place + Size(f)
    <3> DEFINE q == first.place
    <3>1. /\ x[p + 1].place = q /\ Size(x[p + 1].of) = Size(f)
          /\ p \in Nat /\ q \in Nat /\ Size(f) \in Nat
      BY <1>2, <2>2, <2>4
    <3> HIDE DEF q
    <3>2. FrameEnd(x, p + 1) = p + 1 - q + Size(f)
      BY <2>2, <3>1
    <3> QED
      BY <3>2 DEF q
  <2> QED
    BY <2>5, <2>6, <2>7
<1>6. /\ f.header_size \in 1 .. HEADER_SIZE_LONG
      /\ f.payload_size \in Nat /\ f.n \in Nat
      /\ Size(f) = f.header_size + f.payload_size
  BY <1>5, FrameSizes
<1> HIDE DEF f
<1>7. CASE Signed(first)
  <2> DEFINE h == f.header_size
             m == f.payload_size
             q == p + h
             new == [at EXCEPT !.frame = f, !.state = "payload",
                               !.offset = @ + f.header_size]
  <2>1. ReadHeader(b, at) = new
    BY <1>7 DEF ReadHeader, HeaderSize, p, f, first
  <2>2. /\ new \in At /\ new.offset = q /\ new.state = "payload" /\ new.frame = f
        /\ new.emitted = at.emitted /\ new.failed = at.failed
        /\ new.returned = at.returned
    <3>1. at.offset + h = q /\ q \in Nat
      BY <1>2, <1>6 DEF p
    <3> HIDE DEF h, q
    <3> QED
      BY <1>2, <1>5, <3>1 DEF At, h
  <2> HIDE DEF new, h, m
  <2>3. /\ h \in 1 .. HEADER_SIZE_LONG /\ m \in Nat /\ Size(f) = h + m
        /\ q \in o .. L /\ q > p /\ q \in Nat /\ f.n \in Nat
    BY <1>1, <1>2, <1>3, <1>6, SMTT(30) DEF h, m
  <2>4. first.place = 1 /\ FrameEnd(x, p + 1) = q + m
    BY <1>2, <1>5, <1>7, <2>3 DEF Signed
  <2>5. ASSUME NEW i \in 1 .. m
        PROVE  q + i <= Len(x) /\ x[q + i].of = f /\ x[q + i].place = h + i
    <3> DEFINE j == q + i
    <3>1. j \in o + 1 .. Len(x)
      BY <1>1, <1>2, <1>5, <2>3, <2>4
    <3>2. j - (p + 1) + first.place = h + i /\ h + i \in 1 .. Size(f)
      <4>1. first.place = 1 /\ p \in Nat /\ h \in Nat /\ h >= 1 /\ m \in Nat
            /\ Size(f) = h + m /\ i \in Nat /\ i >= 1 /\ i <= m
        BY <1>2, <2>3, <2>4
      <4> QED
        BY <4>1
    <3> HIDE DEF j
    <3>3. SameFrame(x, p + 1, j)
      BY <1>4, <3>1, <3>2 DEF IsStream, x, f
    <3> QED
      BY <1>4, <3>1, <3>2, <3>3 DEF SameFrame, j, f
  <2>6. FrameBegins(x, q + m, f.n + 1, s)
    BY <1>1, <1>4, <2>4, FrameFollows DEF x, f
  <2>7. Known(at.emitted) => f.n = Due(at.emitted)
    BY <1>2, <1>4 DEF InStep, FrameBegins, p, f
  <2>8. InStep(x, s, new)
    BY <1>2, <1>5, <2>2, <2>5, <2>6, <2>7 DEF InStep, h, m
  <2> QED
    BY <1>2, <2>1, <2>2, <2>3, <2>8 DEF Right, x, L, p
<1>8. CASE ~Signed(first)
  <2> DEFINE q == p + HEADER_SIZE_SHORT
             new == [at EXCEPT !.offset = @ + HEADER_SIZE_SHORT, !.failed = TRUE,
                               !.returned = TRUE]
  <2>1. ReadHeader(b, at) = new
    BY <1>8 DEF ReadHeader, p, first
  <2>2. /\ new \in At /\ new.offset = q /\ new.state = "header"
        /\ new.emitted = at.emitted /\ new.failed /\ new.returned
    <3>1. at.offset + HEADER_SIZE_SHORT = q /\ q \in Nat
      BY <1>2, <1>3 DEF p
    <3> HIDE DEF q
    <3> QED
      BY <1>2, <3>1 DEF At
  <2> HIDE DEF new
  <2>3. q \in o .. L
    BY <1>1, <1>2, <1>3
  <2>4. ~Known(at.emitted)
    BY <1>2, <1>4, <1>8 DEF InStep, FrameBegins, Signed, p
  <2>5. InStep(x, s, new)
    BY <2>2, <2>4 DEF InStep, Known
  <2> QED
    BY <1>2, <2>1, <2>2, <2>3, <2>5 DEF Right, x, L
<1> QED
  BY <1>7, <1>8

\* The payload read is the one of the frame whose header was read.
LEMMA ReadPayloadKeeps ==
  ASSUME NEW s \in Seq(Frame), NEW b \in Seq(Byte), NEW w \in Seq(Byte), NEW o \in Nat,
         IsStream(b \o w, o, s),
         NEW at \in Right(b, w, s, o), ~at.returned, at.state = "payload",
         Ahead(b, at) >= at.frame.payload_size
  PROVE  /\ ReadPayload(b, at) \in Right(b, w, s, o)
         /\ ReadPayload(b, at).state = "header"
         /\ ReadPayload(b, at).offset >= at.offset
<1> DEFINE x == b \o w
           L == Len(b)
           p == at.offset
           f == at.frame
           m == f.payload_size
           em == at.emitted
           e == [frame |-> f, payload |-> SubSeq(b, p + 1, p + m)]
           new == [at EXCEPT !.state = "header", !.frame = NONE, !.offset = p + m,
                             !.emitted = Append(@, e)]
<1>1. /\ x \in Seq(Byte) /\ L \in Nat /\ Len(x) \in Nat /\ L <= Len(x)
      /\ \A i \in 1 .. L : x[i] = b[i]
  BY ConcatProperties
<1>2. /\ at \in At /\ p \in o .. L /\ p \in Nat
      /\ InStep(x, s, at) /\ EmitsRight(s, em) /\ em \in Seq(Emission)
  BY DEF Right, At
<1>3. /\ f \in Frame /\ f.n \in 1 .. Len(s) /\ f = s[f.n]
      /\ \A i \in 1 .. m : /\ p + i <= Len(x) /\ x[p + i].of = f
                           /\ x[p + i].place = f.header_size + i
      /\ FrameBegins(x, p + m, f.n + 1, s)
      /\ Known(em) => f.n = Due(em)
  BY <1>2 DEF InStep
<1>4. m \in Nat /\ f.n \in Nat /\ p + m \in o .. L /\ p + m \in Nat
  <2>1. m \in Nat /\ f.n \in Nat
    BY <1>3, FrameSizes
  <2>2. L - p >= m
    BY DEF Ahead
  <2> HIDE DEF m, p, L, f
  <2> QED
    BY <1>1, <1>2, <2>1, <2>2
<1>5. /\ Payload(f) \in Seq(Byte) /\ Len(Payload(f)) = m
      /\ \A i \in 1 .. m : Payload(f)[i] = [of |-> f, place |-> f.header_size + i]
  BY <1>3, FrameBytes
<1>6. /\ e.payload \in Seq(Byte) /\ Len(e.payload) = m
      /\ \A i \in 1 .. m : e.payload[i] = b[p + i]
  <2>1. p + 1 \in Int /\ p + m \in Int /\ p + 1 + m - 1 = p + m
        /\ (p + m) - (p + 1) + 1 = m
    <3>1. p \in Nat /\ m \in Nat
      BY <1>2, <1>4
    <3> HIDE DEF p, m
    <3> QED
      BY <3>1
  <2>2. ASSUME NEW i \in p + 1 .. p + m PROVE b[i] \in Byte
    <3>1. i \in 1 .. L
      BY <1>2, <1>4
    <3> QED
      BY <3>1, ElementOfSeq
  <2>3. /\ SubSeq(b, p + 1, p + m) \in Seq(Byte)
        /\ Len(SubSeq(b, p + 1, p + m))
             = IF p + 1 <= p + m THEN (p + m) - (p + 1) + 1 ELSE 0
        /\ \A i \in 1 .. (p + m) - (p + 1) + 1 :
             SubSeq(b, p + 1, p + m)[i] = b[p + 1 + i - 1]
    BY <2>1, <2>2, SubSeqProperties, SMTT(30)
  <2> HIDE DEF p, m
  <2>4. Len(SubSeq(b, p + 1, p + m)) = m
    <3>1. (IF p + 1 <= p + m THEN (p + m) - (p + 1) + 1 ELSE 0) = m
      BY <1>2, <1>4
    <3> QED
      BY <2>3, <3>1
  <2>5. ASSUME NEW i \in 1 .. m PROVE SubSeq(b, p + 1, p + m)[i] = b[p + i]
    <3>1. i \in 1 .. (p + m) - (p + 1) + 1 /\ p + 1 + i - 1 = p + i
      BY <1>2, <1>4
    <3> QED
      BY <2>3, <3>1
  <2> QED
    BY <2>3, <2>4, <2>5
<1>7. ASSUME NEW i \in 1 .. m PROVE e.payload[i] = Payload(f)[i]
  <2> DEFINE j == p + i
  <2>1. j \in o + 1 .. Len(x) /\ j \in 1 .. L
    <3> HIDE DEF x, L, p, m
    <3> QED
      BY <1>1, <1>2, <1>4
  <2>2. x[j].of = f /\ x[j].place = f.header_size + i
    BY <1>3
  <2> HIDE DEF j
  <2>3. InFrame(x, j, s)
    BY <2>1 DEF IsStream
  <2>4. b[j] = [of |-> f, place |-> f.header_size + i]
    BY <1>1, <2>1, <2>2, <2>3 DEF InFrame
  <2> QED
    BY <1>5, <1>6, <2>4 DEF j
<1>8. e.payload = Payload(f) /\ e \in Emission /\ e.frame = f
  <2>1. e.payload = Payload(f)
    BY <1>5, <1>6, <1>7, SeqEqual
  <2> QED
    BY <1>3, <1>6, <2>1 DEF Emission
<1> HIDE DEF e
<1> DEFINE ed == Append(em, e)
<1>9. /\ ed \in Seq(Emission) /\ Len(ed) = Len(em) + 1 /\ Len(em) \in Nat
      /\ \A i \in 1 .. Len(em) : ed[i] = em[i]
      /\ ed[Len(em) + 1] = e
      /\ ed # <<>>
  <2>1. /\ ed \in Seq(Emission) /\ Len(ed) = Len(em) + 1 /\ Len(em) \in Nat
        /\ \A i \in 1 .. Len(em) : ed[i] = em[i]
        /\ ed[Len(em) + 1] = e
    BY <1>2, <1>8, AppendProperties
  <2> QED
    BY <2>1, EmptySeq
<1>10. /\ Len(em) = 0 => em = <<>>
       /\ Len(em) > 0 => em # <<>> /\ ed[1] = em[1] /\ em[1] \in Emission
  <2>1. Len(em) > 0 => 1 \in 1 .. Len(em)
    BY <1>9
  <2> QED
    BY <1>2, <1>9, <2>1, EmptySeq, ElementOfSeq
<1>11. /\ ReadPayload(b, at) = new
       /\ new \in At /\ new.offset = p + m /\ new.state = "header"
       /\ new.emitted = ed /\ new.failed = at.failed /\ new.returned = at.returned
  BY <1>2, <1>4, <1>9 DEF ReadPayload, At, e
<1> HIDE DEF ed
<1>12. /\ Due(ed) = f.n + 1
       /\ ed[1].frame.n + Len(em) = f.n
       /\ ~joined => ed[1].frame.n = 1
  <2>1. CASE Len(em) = 0
    <3>1. ed[1] = e /\ Len(ed) = 1
      BY <1>9, <2>1
    <3>2. ~joined => f.n = 1
      BY <1>3, <1>10, <2>1 DEF Known, Due
    <3> QED
      BY <1>4, <1>8, <1>9, <2>1, <3>1, <3>2 DEF Due
  <2>2. CASE Len(em) > 0
    <3>1. f.n = em[1].frame.n + Len(em)
      BY <1>3, <1>10, <2>2 DEF Known, Due
    <3>2. em[1].frame.n \in Nat
      BY <1>10, <2>2, FrameSizes DEF Emission
    <3>3. Due(ed) = em[1].frame.n + (Len(em) + 1)
      BY <1>9, <1>10, <2>2 DEF Due
    <3>4. ~joined => em[1].frame.n = 1
      BY <1>2, <1>10, <2>2 DEF EmitsRight
    <3> DEFINE k == em[1].frame.n
    <3>5. /\ k \in Nat /\ f.n = k + Len(em) /\ Due(ed) = k + (Len(em) + 1)
          /\ ed[1].frame.n = k /\ (~joined => k = 1)
      BY <1>10, <2>2, <3>1, <3>2, <3>3, <3>4
    <3> HIDE DEF k, f, em
    <3> QED
      BY <1>9, <3>5
  <2> QED
    BY <1>9, <2>1, <2>2
<1>13. EmitsRight(s, ed)
  <2>1. ASSUME NEW i \in 1 .. Len(em) PROVE EmittedOf(s, ed, i)
    <3>1. EmittedOf(s, em, i) /\ Len(em) > 0
      BY <1>2, <1>9 DEF EmitsRight
    <3> QED
      BY <1>9, <1>10, <3>1 DEF EmittedOf
  <2>2. EmittedOf(s, ed, Len(em) + 1)
    <3>1. ed[1].frame.n + (Len(em) + 1) - 1 = f.n
      <4>1. 1 \in 1 .. Len(ed)
        BY <1>9
      <4>2. ed[1] \in Emission
        BY <1>9, <4>1, ElementOfSeq
      <4>3. ed[1].frame.n \in Nat
        BY <4>2, FrameSizes DEF Emission
      <4> HIDE DEF f, em
      <4> QED
        BY <1>9, <1>12, <4>3
    <3> QED
      BY <1>3, <1>8, <1>9, <3>1 DEF EmittedOf
  <2>3. \A i \in 1 .. Len(em) + 1 : i \in 1 .. Len(em) \/ i = Len(em) + 1
    BY <1>9
  <2> QED
    BY <1>9, <1>12, <2>1, <2>2, <2>3 DEF EmitsRight
<1>14. InStep(x, s, new)
  BY <1>2, <1>3, <1>11, <1>12 DEF InStep
<1>15. p + m >= p
  <2> HIDE DEF p, m
  <2> QED
    BY <1>2, <1>4
<1> HIDE DEF new
<1> QED
  BY <1>2, <1>4, <1>11, <1>13, <1>14, <1>15 DEF Right

\* How far the loop has come: every pass that does not return gets further.
Progress(at) == 2 * at.offset + (IF at.state = "header" THEN 1 ELSE 0)

LEMMA PassKeeps ==
  ASSUME NEW s \in Seq(Frame), NEW b \in Seq(Byte), NEW w \in Seq(Byte), NEW o \in Nat,
         IsStream(b \o w, o, s), NEW at \in Right(b, w, s, o)
  PROVE  /\ Pass(b, at) \in Right(b, w, s, o)
         /\ Progress(at) \in 0 .. 2 * Len(b) + 1
         /\ Pass(b, at).returned \/ Progress(Pass(b, at)) >= Progress(at) + 1
<1>1. /\ at \in At /\ at.offset \in Nat /\ Len(b) \in Nat /\ at.offset <= Len(b)
      /\ at.state \in {"header", "payload"} /\ at.returned \in BOOLEAN
  BY DEF Right, At
<1>2. /\ Progress(at) \in 0 .. 2 * Len(b) + 1
      /\ at.state = "header" => Progress(at) = 2 * at.offset + 1
      /\ at.state = "payload" => Progress(at) = 2 * at.offset
  BY <1>1 DEF Progress
<1>3. CASE at.returned
  BY <1>2, <1>3 DEF Pass
<1>4. CASE ~at.returned /\ at.state = "header" /\ HeaderIsThere(b, at)
  <2> DEFINE new == ReadHeader(b, at)
  <2>1. Pass(b, at) = new
    BY <1>4 DEF Pass
  <2>2. /\ new \in Right(b, w, s, o)
        /\ ~new.returned => new.state = "payload" /\ new.offset > at.offset
    BY <1>4, ReadHeaderKeeps
  <2> HIDE DEF new
  <2>3. new.offset \in Nat
    BY <2>2 DEF Right, At
  <2>4. ~new.returned => Progress(new) >= Progress(at) + 1
    BY <1>1, <1>2, <1>4, <2>2, <2>3, SMTT(30) DEF Progress
  <2> QED
    BY <1>2, <2>1, <2>2, <2>4
<1>5. CASE /\ ~at.returned /\ at.state = "payload"
           /\ Ahead(b, at) >= at.frame.payload_size
  <2> DEFINE new == ReadPayload(b, at)
  <2>1. Pass(b, at) = new
    BY <1>5 DEF Pass
  <2>2. /\ new \in Right(b, w, s, o)
        /\ new.state = "header" /\ new.offset >= at.offset
    BY <1>5, ReadPayloadKeeps
  <2> HIDE DEF new
  <2>3. new.offset \in Nat
    BY <2>2 DEF Right, At
  <2>4. Progress(new) >= Progress(at) + 1
    BY <1>1, <1>2, <1>5, <2>2, <2>3, SMTT(30) DEF Progress
  <2> QED
    BY <1>2, <2>1, <2>2, <2>4
<1>6. CASE /\ ~at.returned
           /\ ~(at.state = "header" /\ HeaderIsThere(b, at))
           /\ ~(at.state = "payload" /\ Ahead(b, at) >= at.frame.payload_size)
  <2> DEFINE new == [at EXCEPT !.returned = TRUE]
  <2>1. Pass(b, at) = new
    BY <1>6 DEF Pass
  <2>2. /\ new \in At /\ new.offset = at.offset /\ new.state = at.state
        /\ new.frame = at.frame /\ new.emitted = at.emitted
        /\ new.failed = at.failed /\ new.returned
    BY <1>1 DEF At
  <2> HIDE DEF new
  <2>3. at.state = "payload" => Ahead(b, at) < at.frame.payload_size
    <3> SUFFICES ASSUME at.state = "payload" PROVE Ahead(b, at) < at.frame.payload_size
      OBVIOUS
    <3>1. at.frame \in Frame
      BY DEF Right, InStep
    <3>2. at.frame.payload_size \in Nat /\ Ahead(b, at) \in Int
      BY <1>1, <3>1, FrameSizes DEF Ahead
    <3> QED
      BY <1>6, <3>2
  <2>4. Stuck(b, new)
    BY <1>6, <2>2, <2>3 DEF Stuck, HeaderIsThere, Ahead
  <2>5. InStep(b \o w, s, new) /\ EmitsRight(s, new.emitted)
    BY <2>2 DEF InStep, Right
  <2> QED
    BY <1>2, <2>1, <2>2, <2>4, <2>5 DEF Right
<1> QED
  BY <1>3, <1>4, <1>5, <1>6

Passes(b) == 2 * Len(b) + 2

\* g[k] is what k passes lead to, and the loop ends with the last of them.
PassesOf(g, b, S, start) ==
  /\ g \in [0 .. Passes(b) -> S]
  /\ g[0] = start
  /\ \A k \in 1 .. Passes(b) : g[k] = Pass(b, g[k - 1])
  /\ Loop(b, start) = g[Passes(b)]

\* The loop is the passes one after the other.
LEMMA LoopIsPasses ==
  ASSUME NEW b, Len(b) \in Nat, NEW S, NEW start \in S,
         \A at \in S : Pass(b, at) \in S
  PROVE  \E g : PassesOf(g, b, S, start)
<1> DEFINE N == Passes(b)
           F == [at \in S |-> Pass(b, at)]
           Turns(h) == h = [k \in 0 .. N |->
                              IF k = 0 THEN start ELSE Pass(b, h[k - 1])]
<1>1. N \in Nat /\ 2 * Len(b) + 2 = N
  BY DEF Passes
<1>2. F \in [S -> S] /\ \A at \in S : F[at] = Pass(b, at)
  OBVIOUS
<1> HIDE DEF F, N
<1>3. PICK g : Iterates(g, N, S, start, F)
  BY <1>1, <1>2, Iteration
<1>4. \A k \in 1 .. N : g[k] = Pass(b, g[k - 1])
  <2> SUFFICES ASSUME NEW k \in 1 .. N PROVE g[k] = Pass(b, g[k - 1])
    OBVIOUS
  <2>1. g[k - 1] \in S
    BY <1>1, <1>3 DEF Iterates
  <2> QED
    BY <1>2, <1>3, <2>1 DEF Iterates
<1>5. Turns(g)
  <2> DEFINE e == [k \in 0 .. N |-> IF k = 0 THEN start ELSE Pass(b, g[k - 1])]
  <2>1. \A k \in 0 .. N : g[k] = e[k]
    BY <1>1, <1>3, <1>4 DEF Iterates
  <2> QED
    BY <1>3, <2>1 DEF Iterates
<1>6. PICK h : Turns(h) /\ Loop(b, start) = h[N]
  BY <1>1, <1>5 DEF Loop
<1>7. \A k \in 0 .. N : h[k] = IF k = 0 THEN start ELSE Pass(b, h[k - 1])
  BY <1>6
<1> DEFINE T == {k \in 0 .. N : h[k] \in S}
<1>8. 0 \in T
  BY <1>1, <1>7
<1>9. ASSUME NEW k \in 0 .. N - 1, k \in T PROVE k + 1 \in T
  <2>1. h[k] \in S /\ k + 1 \in 0 .. N /\ k + 1 # 0 /\ (k + 1) - 1 = k
    BY <1>1, <1>9
  <2>2. h[k + 1] = Pass(b, h[k])
    BY <1>7, <2>1
  <2> QED
    BY <2>1, <2>2
<1> HIDE DEF T
<1>10. \A k \in 0 .. N : k \in T
  BY <1>1, <1>8, <1>9, Induction
<1>11. h \in [0 .. N -> S]
  BY <1>6, <1>10 DEF T
<1>12. \A k \in 1 .. N : h[k] = Pass(b, h[k - 1])
  BY <1>1, <1>7
<1>13. h[0] = start
  BY <1>1, <1>7
<1>14. PassesOf(h, b, S, start)
  BY <1>6, <1>11, <1>12, <1>13 DEF PassesOf, N
<1> QED
  BY <1>14

\* The loop returns, and where it stands then is right.
LEMMA LoopIsRight ==
  ASSUME NEW s \in Seq(Frame), NEW b \in Seq(Byte), NEW w \in Seq(Byte), NEW o \in Nat,
         IsStream(b \o w, o, s), NEW start \in Right(b, w, s, o)
  PROVE  Loop(b, start) \in Right(b, w, s, o) /\ Loop(b, start).returned
<1> DEFINE S == Right(b, w, s, o)
           N == Passes(b)
<1>1. /\ \A at \in S : Pass(b, at) \in S
      /\ \A at \in S : Progress(at) \in 0 .. 2 * Len(b) + 1
      /\ \A at \in S : \/ Pass(b, at).returned
                       \/ Progress(Pass(b, at)) >= Progress(at) + 1
  BY PassKeeps
<1>2. Len(b) \in Nat /\ N \in Nat /\ N = 2 * Len(b) + 2
  BY DEF Passes
<1>3. start \in S
  OBVIOUS
<1>4. \A at \in S : at.returned => Pass(b, at) = at
  BY DEF Pass
<1> HIDE DEF S, N
<1>5. PICK g : PassesOf(g, b, S, start)
  BY <1>1, <1>2, <1>3, LoopIsPasses
<1>6. /\ \A k \in 0 .. N : g[k] \in S
      /\ \A k \in 1 .. N : g[k] = Pass(b, g[k - 1])
      /\ Loop(b, start) = g[N]
  BY <1>5 DEF PassesOf, N
<1> DEFINE T == {k \in 0 .. N : g[k].returned \/ Progress(g[k]) >= k}
<1>7. 0 \in T
  <2>1. 0 \in 0 .. N
    BY <1>2
  <2>2. Progress(g[0]) \in 0 .. 2 * Len(b) + 1
    BY <1>1, <1>6, <2>1
  <2> QED
    BY <1>2, <2>1, <2>2
<1>8. ASSUME NEW k \in 0 .. N - 1, k \in T PROVE k + 1 \in T
  <2>1. k \in 0 .. N /\ k + 1 \in 1 .. N /\ (k + 1) - 1 = k /\ k + 1 \in 0 .. N
    BY <1>2
  <2>2. g[k] \in S /\ g[k + 1] \in S /\ g[k + 1] = Pass(b, g[k])
    BY <1>6, <2>1
  <2>3. CASE g[k].returned
    BY <1>4, <2>1, <2>2, <2>3
  <2>4. CASE Progress(g[k]) >= k
    <3>1. /\ Progress(g[k]) \in Int /\ Progress(g[k + 1]) \in Int
          /\ g[k + 1].returned \/ Progress(g[k + 1]) >= Progress(g[k]) + 1
      BY <1>1, <1>2, <2>2
    <3>2. g[k + 1].returned \/ Progress(g[k + 1]) >= k + 1
      BY <2>1, <2>4, <3>1
    <3> QED
      BY <2>1, <3>2
  <2> QED
    BY <1>8, <2>3, <2>4
<1> HIDE DEF T
<1>9. N \in T
  <2>1. \A k \in 0 .. N : k \in T
    BY <1>2, <1>7, <1>8, Induction
  <2> QED
    BY <1>2, <2>1
<1>10. g[N] \in S /\ Progress(g[N]) \in 0 .. 2 * Len(b) + 1
  BY <1>1, <1>2, <1>6
<1>11. g[N].returned
  BY <1>2, <1>9, <1>10 DEF T
<1> QED
  BY <1>6, <1>10, <1>11 DEF S

-----------------------------------------------------------------------------
\* What is left of a stream is a stream.
LEMMA StreamSuffix ==
  ASSUME NEW x, Len(x) \in Nat, NEW s, NEW o \in Nat, NEW p \in Nat, o <= p,
         IsStream(x, o, s)
  PROVE  IsStream(x, p, s)
<1>1. \A i \in p + 1 .. Len(x) : i \in o + 1 .. Len(x)
  OBVIOUS
<1>2. p < Len(x) => o < Len(x)
  OBVIOUS
<1> QED
  BY <1>1, <1>2 DEF IsStream

-----------------------------------------------------------------------------
\* The frame in hand is still there to its end.
LEMMA PayloadIsThere ==
  ASSUME NEW s, NEW x, Len(x) \in Nat, NEW at \in At, InStep(x, s, at),
         at.offset <= Len(x), at.state = "payload"
  PROVE  /\ at.frame \in Frame /\ at.frame.payload_size \in Nat
         /\ at.frame.payload_size \in 0 .. Len(x) - at.offset
<1> DEFINE m == at.frame.payload_size
           o == at.offset
<1>1. at.frame \in Frame /\ \A i \in 1 .. m : o + i <= Len(x)
  BY DEF InStep
<1>2. m \in Nat /\ o \in Nat
  BY <1>1, FrameSizes DEF At
<1> HIDE DEF m, o
<1>3. o <= Len(x)
  BY DEF o
<1>4. m >= 1 => o + m <= Len(x)
  BY <1>1, <1>2
<1>5. m \in 0 .. Len(x) - o
  BY <1>2, <1>3, <1>4
<1> QED
  BY <1>1, <1>2, <1>5 DEF m, o

\* The bytes of x after its first o are those of y after its first p.
SameAhead(x, o, y, p) ==
  /\ o \in 0 .. Len(x) /\ p \in 0 .. Len(y)
  /\ Len(x) - o = Len(y) - p
  /\ \A i \in 1 .. Len(x) - o : y[p + i] = x[o + i]

\* The parser stands in the same place, but for where the bytes lie.
SamePlace(at, to) ==
  /\ to.state = at.state /\ to.frame = at.frame
  /\ to.emitted = at.emitted /\ to.failed = at.failed

\* Where the bytes lie does not matter.
LEMMA InStepMoves ==
  ASSUME NEW s \in Seq(Frame), NEW x \in Seq(Byte), NEW y \in Seq(Byte),
         NEW at \in At, NEW to \in At, SamePlace(at, to),
         SameAhead(x, at.offset, y, to.offset), InStep(x, s, at)
  PROVE  InStep(y, s, to)
<1> DEFINE o == at.offset
           p == to.offset
<1>0. /\ o \in 0 .. Len(x) /\ p \in 0 .. Len(y) /\ Len(x) - o = Len(y) - p
      /\ \A i \in 1 .. Len(x) - o : y[p + i] = x[o + i]
      /\ to.state = at.state /\ to.frame = at.frame
      /\ to.emitted = at.emitted /\ to.failed = at.failed
  BY DEF SameAhead, SamePlace
<1> HIDE DEF o, p
<1>1. Len(x) \in Nat /\ Len(y) \in Nat /\ o \in Nat /\ p \in Nat
  BY <1>0
<1>2. ASSUME NEW k \in 0 .. Len(x) - o, NEW n, FrameBegins(x, o + k, n, s)
      PROVE  FrameBegins(y, p + k, n, s)
  BY <1>0, <1>2, FrameBeginsMoves
<1>3. ASSUME at.state = "header", Known(at.emitted)
      PROVE  FrameBegins(y, p, Due(at.emitted), s)
  <2>1. 0 \in 0 .. Len(x) - o /\ o + 0 = o /\ p + 0 = p
    BY <1>0, <1>1
  <2>2. FrameBegins(x, o, Due(at.emitted), s)
    BY <1>3 DEF InStep, o
  <2>3. FrameBegins(x, o + 0, Due(at.emitted), s)
    BY <2>1, <2>2
  <2>4. FrameBegins(y, p + 0, Due(at.emitted), s)
    BY <1>2, <2>1, <2>3
  <2> QED
    BY <2>1, <2>4
<1>4. ASSUME at.state = "payload"
      PROVE  /\ FrameBegins(y, p + at.frame.payload_size, at.frame.n + 1, s)
             /\ \A i \in 1 .. at.frame.payload_size :
                  /\ p + i <= Len(y)
                  /\ y[p + i].of = at.frame
                  /\ y[p + i].place = at.frame.header_size + i
  <2> DEFINE m == at.frame.payload_size
  <2>1. m \in Nat /\ m \in 0 .. Len(x) - o
    BY <1>0, <1>1, <1>4, PayloadIsThere DEF o
  <2>2. /\ FrameBegins(x, o + m, at.frame.n + 1, s)
        /\ \A i \in 1 .. m : /\ x[o + i].of = at.frame
                             /\ x[o + i].place = at.frame.header_size + i
    BY <1>4 DEF InStep, o
  <2> HIDE DEF m
  <2>3. FrameBegins(y, p + m, at.frame.n + 1, s)
    BY <1>2, <2>1, <2>2
  <2>4. ASSUME NEW i \in 1 .. m
        PROVE  p + i <= Len(y) /\ y[p + i] = x[o + i]
    <3>1. i \in 1 .. Len(x) - o
      BY <1>1, <2>1
    <3>2. p + i <= Len(y)
      BY <1>0, <1>1, <3>1
    <3> QED
      BY <1>0, <3>1, <3>2
  <2> QED
    BY <2>2, <2>3, <2>4 DEF m
<1> QED
  BY <1>0, <1>3, <1>4 DEF InStep, p

\* Nor does it change when the stream goes on.
LEMMA InStepGrows ==
  ASSUME NEW s \in Seq(Frame), NEW x \in Seq(Byte), NEW at \in At,
         NEW o \in 0 .. Len(x), o = at.offset, InStep(x, s, at),
         NEW f \in Frame, f.n = Len(s) + 1
  PROVE  InStep(x \o Bytes(f), Append(s, f), at)
<1> DEFINE y == x \o Bytes(f)
           t == Append(s, f)
<1>1. /\ Len(x) \in Nat /\ o \in Nat /\ Size(f) \in Nat /\ Len(s) \in Nat
      /\ Len(y) = Len(x) + Size(f)
      /\ \A i \in 1 .. Len(x) : y[i] = x[i]
  BY BytesAppended, FrameSizes
<1>2. /\ Len(t) = Len(s) + 1
      /\ \A k \in 1 .. Len(s) : t[k] = s[k]
  BY AppendProperties
<1>3. ASSUME NEW p \in 0 .. Len(x), NEW n, FrameBegins(x, p, n, s)
      PROVE  FrameBegins(y, p, n, t)
  BY <1>3, FrameBeginsGrows
<1> HIDE DEF y, t
<1>4. ASSUME at.state = "header", Known(at.emitted)
      PROVE  FrameBegins(y, o, Due(at.emitted), t)
  BY <1>3, <1>4 DEF InStep
<1>5. ASSUME at.state = "payload"
      PROVE  /\ at.frame.n \in 1 .. Len(t) /\ at.frame = t[at.frame.n]
             /\ FrameBegins(y, o + at.frame.payload_size, at.frame.n + 1, t)
             /\ \A i \in 1 .. at.frame.payload_size :
                  /\ o + i <= Len(y)
                  /\ y[o + i].of = at.frame
                  /\ y[o + i].place = at.frame.header_size + i
  <2> DEFINE m == at.frame.payload_size
             n == at.frame.n
  <2>1. m \in Nat /\ m \in 0 .. Len(x) - o
    BY <1>1, <1>5, PayloadIsThere
  <2>2. /\ FrameBegins(x, o + m, n + 1, s) /\ n \in 1 .. Len(s) /\ at.frame = s[n]
        /\ \A i \in 1 .. m : /\ x[o + i].of = at.frame
                             /\ x[o + i].place = at.frame.header_size + i
    BY <1>5 DEF InStep
  <2> HIDE DEF m, n
  <2>3. o + m \in 0 .. Len(x)
    BY <1>1, <2>1
  <2>4. FrameBegins(y, o + m, n + 1, t)
    BY <1>3, <2>2, <2>3
  <2>5. ASSUME NEW i \in 1 .. m
        PROVE  o + i <= Len(y) /\ y[o + i] = x[o + i]
    <3>1. o + i \in 1 .. Len(x)
      BY <1>1, <2>1
    <3> QED
      BY <1>1, <3>1
  <2>6. n \in 1 .. Len(t) /\ at.frame = t[n]
    BY <1>1, <1>2, <2>2
  <2> QED
    BY <2>2, <2>4, <2>5, <2>6 DEF m, n
<1> QED
  BY <1>4, <1>5 DEF InStep, y, t

LEMMA EmitsRightGrows ==
  ASSUME NEW s \in Seq(Frame), NEW em, EmitsRight(s, em), NEW f \in Frame
  PROVE  EmitsRight(Append(s, f), em)
<1> DEFINE t == Append(s, f)
<1>1. /\ Len(s) \in Nat /\ Len(t) = Len(s) + 1
      /\ \A k \in 1 .. Len(s) : t[k] = s[k]
  BY AppendProperties
<1> HIDE DEF t
<1>2. ASSUME NEW i \in 1 .. Len(em) PROVE EmittedOf(t, em, i)
  <2> DEFINE k == em[1].frame.n + i - 1
  <2>1. EmittedOf(s, em, i)
    BY DEF EmitsRight
  <2>2. k \in 1 .. Len(s) /\ em[i].frame = s[k] /\ em[i].payload = Payload(em[i].frame)
    BY <2>1 DEF EmittedOf
  <2> HIDE DEF k
  <2>3. k \in 1 .. Len(t) /\ em[i].frame = t[k]
    BY <1>1, <2>2
  <2> QED
    BY <2>2, <2>3 DEF EmittedOf, k
<1> QED
  BY <1>2 DEF EmitsRight, t

\* The state is of the types the loop's lemmas ask for.
LEMMA StateTypes ==
  ASSUME TypeOK, NEW r \in BOOLEAN
  PROVE  /\ buffer \in Seq(Byte) /\ wire \in Seq(Byte) /\ sent \in Seq(Frame)
         /\ Len(buffer) \in Nat /\ Len(wire) \in Nat /\ Len(sent) \in Nat
         /\ offset \in Nat /\ offset \in 0 .. Len(buffer)
         /\ buffer \o wire \in Seq(Byte)
         /\ Len(buffer \o wire) = Len(buffer) + Len(wire)
         /\ offset \in 0 .. Len(buffer \o wire)
         /\ Now(r) \in At
         /\ Now(r).offset = offset /\ Now(r).state = state /\ Now(r).frame = frame
         /\ Now(r).emitted = emitted /\ Now(r).failed = failed
         /\ Now(r).returned = r
<1>1. /\ buffer \in Seq(Byte) /\ wire \in Seq(Byte) /\ sent \in Seq(Frame)
      /\ Len(buffer) \in Nat /\ Len(wire) \in Nat /\ Len(sent) \in Nat
      /\ offset \in Nat /\ offset \in 0 .. Len(buffer)
  BY DEF TypeOK, ReaderTypeOK
<1>2. /\ buffer \o wire \in Seq(Byte)
      /\ Len(buffer \o wire) = Len(buffer) + Len(wire)
  BY <1>1, ConcatProperties
<1>3. offset \in 0 .. Len(buffer \o wire)
  BY <1>1, <1>2
<1>4. Now(r) \in At
  BY <1>1 DEF TypeOK, Now, At, Emission
<1> QED
  BY <1>1, <1>2, <1>3, <1>4 DEF Now

-----------------------------------------------------------------------------
\* The initial state satisfies the invariant.
LEMMA InitInv == Init => IInv
<1> SUFFICES ASSUME Init PROVE IInv
  OBVIOUS
<1>1. PICK f \in Frame : f.n = 1 /\ \E missed \in 0 .. Size(f) - 1 :
        /\ sent = <<f>>
        /\ wire = SubSeq(Bytes(f), missed + 1, Size(f))
        /\ joined = (missed > 0)
  BY DEF Init
<1>2. PICK missed \in 0 .. Size(f) - 1 :
        /\ sent = <<f>>
        /\ wire = SubSeq(Bytes(f), missed + 1, Size(f))
        /\ joined = (missed > 0)
  BY <1>1
<1>3. /\ buffer = <<>> /\ offset = 0 /\ written = <<>>
      /\ state = "header" /\ frame = NONE /\ emitted = <<>> /\ failed = FALSE
  BY DEF Init, ReaderInit
<1> DEFINE S == Size(f)
           L == S - missed
<1>a. /\ S \in Nat /\ missed \in Nat /\ missed < S /\ L \in Nat /\ L >= 1
      /\ missed + 1 \in Int /\ S - (missed + 1) + 1 = L /\ L = S - missed
      /\ f.n \in Nat
  BY FrameSizes
<1>4. /\ Len(Bytes(f)) = S /\ Bytes(f) \in Seq(Byte)
      /\ \A i \in 1 .. S : Bytes(f)[i] = [of |-> f, place |-> i]
  BY FrameBytes
<1> HIDE DEF S, L
<1>5. /\ wire \in Seq(Byte) /\ Len(wire) = L
      /\ \A i \in 1 .. L : wire[i] = [of |-> f, place |-> missed + i]
  <2>1. \A i \in missed + 1 .. S : Bytes(f)[i] \in Byte
    <3>1. \A i \in missed + 1 .. S : i \in 1 .. S
      BY <1>a
    <3> QED
      BY <1>4, <3>1, ElementOfSeq
  <2>2. S \in Int /\ missed + 1 <= S
    BY <1>a
  <2>3. /\ SubSeq(Bytes(f), missed + 1, S) \in Seq(Byte)
        /\ Len(SubSeq(Bytes(f), missed + 1, S)) = S - (missed + 1) + 1
        /\ \A i \in 1 .. S - (missed + 1) + 1 :
             SubSeq(Bytes(f), missed + 1, S)[i] = Bytes(f)[missed + 1 + i - 1]
    BY <1>a, <2>1, <2>2, SubSeqProperties
  <2>4. wire = SubSeq(Bytes(f), missed + 1, S)
    BY <1>2 DEF S
  <2>5. ASSUME NEW i \in 1 .. L PROVE wire[i] = [of |-> f, place |-> missed + i]
    <3>1. missed + 1 + i - 1 = missed + i /\ missed + i \in 1 .. S
      BY <1>a
    <3> QED
      BY <1>a, <1>4, <2>3, <2>4, <3>1
  <2> QED
    BY <1>a, <2>3, <2>4, <2>5
<1> DEFINE x == buffer \o wire
<1>6. x = wire /\ bytesAhead = 0
  BY <1>3, <1>5, ConcatEmptySeq, EmptySeq DEF bytesAhead
<1>7. /\ sent \in Seq(Frame) /\ Len(sent) = 1 /\ sent[1] = f
  BY <1>2
<1>8. TypeOK
  <2>1. emitted \in Seq([frame : Frame, payload : Seq(Byte)])
    BY <1>3, EmptySeq
  <2>2. ReaderTypeOK
    BY <1>3, EmptySeq DEF ReaderTypeOK
  <2>3. {joined, failed} \subseteq BOOLEAN
    <3>1. joined = TRUE \/ joined = FALSE
      <4>1. CASE missed > 0
        BY <1>2, <4>1
      <4>2. CASE ~(missed > 0)
        BY <1>2, <4>2
      <4> QED
        BY <4>1, <4>2
    <3> QED
      BY <1>3, <3>1
  <2> QED
    BY <1>3, <1>5, <1>7, <2>1, <2>2, <2>3 DEF TypeOK
<1>9. IsRest
  <2>1. Len(written) = 0
    BY <1>3, EmptySeq
  <2> QED
    BY <1>6, <2>1 DEF IsRest
<1>10. IsStream(wire, 0, sent)
  <2>1. ASSUME NEW i \in 1 .. L
        PROVE  /\ InFrame(wire, i, sent) /\ FrameEnd(wire, i) = L
               /\ wire[i].of = f /\ wire[i].place = missed + i /\ i \in Nat
    <3>1. /\ wire[i] = [of |-> f, place |-> missed + i]
          /\ missed + i \in 1 .. S /\ i \in Nat
      BY <1>a, <1>5
    <3>2. wire[i].of = f /\ wire[i].place = missed + i
      BY <3>1
    <3>3. i - (missed + i) + S = L
      BY <1>a
    <3>4. FrameEnd(wire, i) = L
      BY <3>2, <3>3 DEF FrameEnd, S
    <3>5. InFrame(wire, i, sent)
      <4>1. wire[i] = [of |-> wire[i].of, place |-> wire[i].place]
        BY <3>1, <3>2
      <4>2. f.n \in 1 .. Len(sent) /\ f = sent[f.n]
        BY <1>1, <1>7
      <4> QED
        BY <3>1, <3>2, <4>1, <4>2 DEF InFrame, S
    <3> QED
      BY <3>1, <3>2, <3>4, <3>5
  <2>2. ASSUME NEW i \in 1 .. L, NEW j \in 1 .. L
        PROVE  /\ wire[i].of.n <= wire[j].of.n
               /\ SameFrame(wire, i, j)
               /\ j # FrameEnd(wire, i) + 1
    <3>1. missed + j = j - i + (missed + i) /\ j # L + 1
      BY <1>a
    <3>2. f.n <= f.n
      BY <1>a
    <3>3. /\ wire[i].of = f /\ wire[j].of = f /\ FrameEnd(wire, i) = L
          /\ wire[i].place = missed + i /\ wire[j].place = missed + j
      BY <2>1
    <3> QED
      BY <3>1, <3>2, <3>3 DEF SameFrame
  <2>3. LastByte(wire, sent)
    <3>1. L \in 1 .. L /\ missed + L = S
      BY <1>a
    <3> QED
      BY <1>1, <1>5, <1>7, <2>1, <3>1 DEF LastByte, S
  <2>4. 0 + 1 = 1
    OBVIOUS
  <2> QED
    BY <1>5, <2>1, <2>2, <2>3, <2>4 DEF IsStream
<1>11. InStep(wire, sent, Now(TRUE))
  <2>1. ASSUME ~joined PROVE FrameBegins(wire, 0, 1, sent)
    <3>0. ~(missed > 0)
      BY <1>2, <2>1
    <3>1. missed = 0 /\ 1 \in 1 .. L /\ 0 < L /\ missed + 1 = 1 /\ 0 + 1 = 1
      BY <1>a, <3>0
    <3>2. wire[1] = [of |-> f, place |-> 1]
      BY <1>5, <3>1
    <3> QED
      BY <1>1, <1>5, <3>1, <3>2 DEF FrameBegins
  <2> QED
    BY <1>3, <2>1 DEF InStep, Now, Known, Due
<1>12. EmitsRight(sent, emitted)
  BY <1>3 DEF EmitsRight
<1>13. Stuck(buffer, Now(TRUE))
  <2>1. Len(buffer) = 0 /\ HEADER_SIZE_LONG \in Nat /\ HEADER_SIZE_LONG > 0
    BY <1>3, SizesAssumption, EmptySeq
  <2> QED
    BY <1>3, <2>1 DEF Stuck, HeaderIsThere, Ahead, Now
<1> HIDE DEF x
<1>14. IsStream(x, offset, sent) /\ InStep(x, sent, Now(TRUE))
  BY <1>3, <1>6, <1>10, <1>11
<1>15. Len(sent) > 0 /\ \A k \in 1 .. Len(sent) : sent[k].n = k
  BY <1>1, <1>7
<1> QED
  BY <1>8, <1>9, <1>12, <1>13, <1>14, <1>15 DEF IInv, x

-----------------------------------------------------------------------------
\* The drone sends a frame: the stream grows at its end.
LEMMA DroneSendsInv ==
  ASSUME IInv, NEW f \in Frame, DroneSends(f)
  PROVE  IInv'
<1> DEFINE x == buffer \o wire
<1>1. TypeOK
  BY DEF IInv
<1>2. /\ buffer \in Seq(Byte) /\ wire \in Seq(Byte) /\ sent \in Seq(Frame)
      /\ x \in Seq(Byte) /\ offset \in 0 .. Len(x) /\ Len(sent) \in Nat
      /\ Now(TRUE) \in At /\ Now(TRUE).offset = offset
  BY <1>1, StateTypes
<1>3. /\ f.n = Len(sent) + 1 /\ sent' = Append(sent, f) /\ wire' = wire \o Bytes(f)
      /\ buffer' = buffer /\ offset' = offset /\ written' = written
      /\ state' = state /\ frame' = frame /\ joined' = joined
      /\ emitted' = emitted /\ failed' = failed
  BY DEF DroneSends, readerVars
<1>4. Bytes(f) \in Seq(Byte)
  BY FrameBytes
<1>5. /\ wire' \in Seq(Byte)
      /\ buffer' \o wire' = x \o Bytes(f)
  <2>1. wire \o Bytes(f) \in Seq(Byte)
    BY <1>2, <1>4, ConcatProperties
  <2>2. (buffer \o wire) \o Bytes(f) = buffer \o (wire \o Bytes(f))
    BY <1>2, <1>4, ConcatAssociative, SMTT(30)
  <2> QED
    BY <1>3, <2>1, <2>2
<1>6. /\ sent' \in Seq(Frame) /\ Len(sent') = Len(sent) + 1
      /\ \A k \in 1 .. Len(sent) : sent'[k] = sent[k]
      /\ sent'[Len(sent) + 1] = f
  BY <1>2, <1>3, AppendProperties
<1>7. TypeOK'
  <2>1. ReaderTypeOK' /\ ReaderTypeOK
    BY <1>1, <1>3 DEF TypeOK, ReaderTypeOK
  <2> QED
    BY <1>1, <1>3, <1>5, <1>6, <2>1 DEF TypeOK
<1>8. IsRest'
  <2>1. IsRest
    BY DEF IInv
  <2> QED
    BY <1>3, <2>1 DEF IsRest, bytesAhead
<1>9. Len(sent') > 0 /\ \A k \in 1 .. Len(sent') : sent'[k].n = k
  <2>1. \A k \in 1 .. Len(sent) : sent[k].n = k
    BY DEF IInv
  <2>2. ASSUME NEW k \in 1 .. Len(sent') PROVE sent'[k].n = k
    <3>1. k \in 1 .. Len(sent) \/ k = Len(sent) + 1
      BY <1>2, <1>6
    <3> QED
      BY <1>3, <1>6, <2>1, <3>1
  <2> QED
    BY <1>2, <1>6, <2>2
<1>10. IsStream(x \o Bytes(f), offset, sent')
  <2>1. IsStream(x, offset, sent)
    BY DEF IInv
  <2> HIDE DEF x
  <2> QED
    BY <1>2, <1>3, <2>1, StreamGrows
<1>11. InStep(x \o Bytes(f), sent', Now(TRUE))
  <2>1. InStep(x, sent, Now(TRUE))
    BY DEF IInv
  <2> HIDE DEF x
  <2> QED
    BY <1>2, <1>3, <2>1, InStepGrows
<1>12. EmitsRight(sent', emitted)
  BY <1>2, <1>3, EmitsRightGrows DEF IInv
<1>13. Now(TRUE)' = Now(TRUE)
  BY <1>3 DEF Now
<1>14. ~joined => Stuck(buffer, Now(TRUE))
  BY DEF IInv
<1>15. InStep(buffer' \o wire', sent', Now(TRUE)) => InStep(buffer \o wire, sent, Now(TRUE))'
  BY <1>3, <1>13 DEF InStep, Known, Due, FrameBegins
<1>16. EmitsRight(sent', emitted) => EmitsRight(sent, emitted)'
  BY <1>3 DEF EmitsRight, EmittedOf
<1>17. IsStream(buffer' \o wire', offset, sent') => IsStream(buffer \o wire, offset, sent)'
  BY <1>3
<1>18. (~joined => Stuck(buffer, Now(TRUE)))'
  BY <1>3, <1>13, <1>14 DEF Stuck, HeaderIsThere, Ahead
<1> HIDE DEF x
<1> QED
  BY <1>5, <1>7, <1>8, <1>9, <1>10, <1>11, <1>12, <1>15, <1>16, <1>17, <1>18 DEF IInv

\* A sequence cut in two.
LEMMA Cut ==
  ASSUME NEW S, NEW s \in Seq(S), NEW n \in 1 .. Len(s)
  PROVE  /\ SubSeq(s, 1, n) \in Seq(S) /\ Len(SubSeq(s, 1, n)) = n
         /\ \A i \in 1 .. n : SubSeq(s, 1, n)[i] = s[i]
         /\ SubSeq(s, n + 1, Len(s)) \in Seq(S)
         /\ Len(SubSeq(s, n + 1, Len(s))) = Len(s) - n
         /\ \A i \in 1 .. Len(s) - n : SubSeq(s, n + 1, Len(s))[i] = s[n + i]
<1> DEFINE L == Len(s)
           p == SubSeq(s, 1, n)
           q == SubSeq(s, n + 1, L)
<1>1. L \in Nat /\ n \in Nat /\ n >= 1 /\ n <= L /\ n \in Int /\ L \in Int
      /\ 1 \in Int /\ n + 1 \in Int /\ n - 1 + 1 = n /\ L - (n + 1) + 1 = L - n
  OBVIOUS
<1>2. /\ \A i \in 1 .. n : s[i] \in S
      /\ \A i \in n + 1 .. L : s[i] \in S
  BY <1>1, ElementOfSeq
<1> HIDE DEF L
<1>3. /\ p \in Seq(S) /\ Len(p) = IF 1 <= n THEN n - 1 + 1 ELSE 0
      /\ \A i \in 1 .. n - 1 + 1 : p[i] = s[1 + i - 1]
  BY <1>1, <1>2, SubSeqProperties
<1>4. /\ q \in Seq(S) /\ Len(q) = IF n + 1 <= L THEN L - (n + 1) + 1 ELSE 0
      /\ \A i \in 1 .. L - (n + 1) + 1 : q[i] = s[n + 1 + i - 1]
  BY <1>1, <1>2, SubSeqProperties
<1> HIDE DEF p, q
<1>5. Len(p) = n /\ Len(q) = L - n
  BY <1>1, <1>3, <1>4
<1>6. ASSUME NEW i \in 1 .. n PROVE p[i] = s[i]
  <2>1. 1 + i - 1 = i
    BY <1>1
  <2> QED
    BY <1>1, <1>3, <2>1
<1>7. ASSUME NEW i \in 1 .. L - n PROVE q[i] = s[n + i]
  <2>1. n + 1 + i - 1 = n + i
    BY <1>1
  <2> QED
    BY <1>1, <1>4, <2>1
<1> QED
  BY <1>3, <1>4, <1>5, <1>6, <1>7 DEF p, q, L

\* A chunk arrives: the bytes move, and the loop reads on from where it stood.
LEMMA WriteInv ==
  ASSUME IInv, NEW n \in 1 .. Len(wire), Write(n)
  PROVE  IInv' /\ Queue!Next
<1> DEFINE chunk == SubSeq(wire, 1, n)
           w == SubSeq(wire, n + 1, Len(wire))
           b == WrittenBuffer(chunk)
           o == WrittenOffset(chunk)
           x == buffer \o wire
           y == b \o w
           start == [offset |-> o, state |-> state, frame |-> frame,
                     emitted |-> emitted, failed |-> failed, returned |-> FALSE]
           end == Loop(b, start)
<1>1. TypeOK /\ IsRest /\ ReaderTypeOK /\ ReaderIInv
  BY DEF IInv, TypeOK, ReaderIInv
<1>2. /\ wire \in Seq(Byte) /\ buffer \in Seq(Byte) /\ sent \in Seq(Frame)
      /\ Len(wire) \in Nat /\ Len(buffer) \in Nat
      /\ offset \in 0 .. Len(buffer) /\ offset \in Nat
      /\ x \in Seq(Byte) /\ Len(x) = Len(buffer) + Len(wire)
      /\ offset \in 0 .. Len(x)
      /\ Now(TRUE) \in At /\ Now(TRUE).offset = offset /\ Now(TRUE).state = state
      /\ Now(TRUE).frame = frame /\ Now(TRUE).emitted = emitted
      /\ Now(TRUE).failed = failed
  BY <1>1, StateTypes
<1>3. n \in 1 .. Len(wire) /\ n \in Nat
  BY <1>2
<1>4. /\ chunk \in Seq(Byte) /\ Len(chunk) = n
      /\ \A i \in 1 .. n : chunk[i] = wire[i]
      /\ w \in Seq(Byte) /\ Len(w) = Len(wire) - n
      /\ \A i \in 1 .. Len(wire) - n : w[i] = wire[n + i]
  BY <1>2, <1>3, Cut
<1>5. /\ b \in Seq(Byte) /\ o \in 0 .. Len(b) /\ o \in Nat /\ bytesAhead \in Nat
      /\ Len(b) - o = bytesAhead + n
      /\ \A i \in 1 .. bytesAhead : b[o + i] = buffer[offset + i]
      /\ \A i \in 1 .. n : b[o + bytesAhead + i] = chunk[i]
  BY <1>1, <1>4, WriteAppends
<1>6. /\ buffer' = b /\ written' = written \o chunk /\ offset' = end.offset
      /\ state' = end.state /\ frame' = end.frame /\ emitted' = end.emitted
      /\ failed' = end.failed /\ wire' = w /\ sent' = sent /\ joined' = joined
  BY DEF Write
<1> HIDE DEF chunk, w, b, o, x
<1>7. /\ y \in Seq(Byte) /\ Len(y) = Len(b) + Len(w)
      /\ \A i \in 1 .. Len(b) : y[i] = b[i]
      /\ \A i \in 1 .. Len(w) : y[Len(b) + i] = w[i]
      /\ Len(b) \in Nat /\ Len(y) \in Nat /\ Len(w) \in Nat
  <2>1. Len(b) \in Nat /\ Len(w) \in Nat
    BY <1>4, <1>5
  <2>2. /\ y \in Seq(Byte) /\ Len(y) = Len(b) + Len(w)
        /\ \A i \in 1 .. Len(b) + Len(w) :
             y[i] = IF i <= Len(b) THEN b[i] ELSE w[i - Len(b)]
    <3>1. b \in Seq(Byte) /\ w \in Seq(Byte)
      BY <1>4, <1>5
    <3> QED
      BY <3>1, ConcatProperties
  <2>3. ASSUME NEW i \in 1 .. Len(w) PROVE y[Len(b) + i] = w[i]
    <3>1. /\ Len(b) + i \in 1 .. Len(b) + Len(w) /\ ~(Len(b) + i <= Len(b))
          /\ Len(b) + i - Len(b) = i
      BY <2>1
    <3> QED
      BY <2>2, <3>1
  <2>4. ASSUME NEW i \in 1 .. Len(b) PROVE y[i] = b[i]
    BY <2>1, <2>2
  <2> QED
    BY <2>1, <2>2, <2>3, <2>4
<1>8. /\ \A i \in 1 .. Len(buffer) : x[i] = buffer[i]
      /\ \A i \in 1 .. Len(wire) : x[Len(buffer) + i] = wire[i]
  BY <1>2 DEF x
<1> HIDE DEF y
<1>9. PICK p \in Nat : p = offset
  BY <1>2
<1> DEFINE A == bytesAhead
           L == Len(buffer)
           M == Len(wire)
           B == Len(b)
           W == Len(w)
<1>10. /\ A = L - p /\ A \in Nat /\ L \in Nat /\ M \in Nat /\ B \in Nat
       /\ W \in Nat /\ o \in Nat /\ n \in Nat /\ n >= 1 /\ n <= M
       /\ p <= L /\ B = o + A + n /\ W = M - n
       /\ Len(x) = L + M /\ Len(y) = B + W
  <2>1. A = L - p /\ B - o = A + n /\ A \in Nat /\ B \in Nat /\ o \in Nat /\ p <= L
    BY <1>2, <1>5, <1>9 DEF bytesAhead
  <2> HIDE DEF A, L, B, M, W
  <2>2. B = o + A + n
    BY <1>3, <2>1
  <2> QED
    BY <1>2, <1>3, <1>4, <1>7, <2>1, <2>2 DEF L, M, W, B
<1> HIDE DEF A, L, M, B, W
<1>11. /\ Len(x) - p = A + M /\ Len(y) - o = A + M /\ o \in 0 .. Len(y)
       /\ p \in 0 .. Len(x)
  <2>1. L + M - p = A + M /\ B + W - o = A + M /\ o \in 0 .. B + W
        /\ p \in 0 .. L + M
    BY <1>10
  <2> QED
    BY <1>10, <2>1
<1>12. ASSUME NEW i \in 1 .. Len(x) - p PROVE y[o + i] = x[p + i]
  <2>0. i \in 1 .. A + M
    BY <1>11
  <2>1. i \in 1 .. A \/ i - A \in 1 .. n \/ i - A - n \in 1 .. W
    BY <1>10, <2>0
  <2>2. CASE i \in 1 .. A
    <3>1. o + i \in 1 .. B /\ p + i \in 1 .. L
      BY <1>10, <2>2
    <3>2. b[o + i] = buffer[p + i]
      BY <1>5, <1>9, <2>2 DEF A
    <3> QED
      BY <1>7, <1>8, <3>1, <3>2 DEF B, L
  <2>3. CASE i - A \in 1 .. n
    <3> DEFINE j == i - A
    <3>1. /\ j \in 1 .. n /\ j \in 1 .. M /\ o + A + j = o + i
          /\ o + i \in 1 .. B /\ L + j = p + i
      BY <1>10, <2>0, <2>3
    <3> HIDE DEF j
    <3>2. b[o + A + j] = chunk[j] /\ chunk[j] = wire[j]
      BY <1>4, <1>5, <3>1 DEF A
    <3>3. y[o + i] = b[o + i] /\ x[L + j] = wire[j]
      BY <1>7, <1>8, <3>1 DEF B, L, M
    <3> QED
      BY <3>1, <3>2, <3>3
  <2>4. CASE i - A - n \in 1 .. W
    <3> DEFINE j == i - A - n
    <3>1. /\ j \in 1 .. W /\ n + j \in 1 .. M /\ j \in 1 .. M - n
          /\ B + j = o + i /\ L + (n + j) = p + i
      BY <1>10, <2>0, <2>4
    <3> HIDE DEF j
    <3>2. y[B + j] = w[j] /\ w[j] = wire[n + j] /\ x[L + (n + j)] = wire[n + j]
      BY <1>4, <1>7, <1>8, <3>1 DEF B, L, M, W
    <3> QED
      BY <3>1, <3>2
  <2> QED
    BY <2>1, <2>2, <2>3, <2>4
<1>13. IsStream(y, o, sent)
  <2>1. IsStream(x, p, sent)
    BY <1>9 DEF IInv, x
  <2> QED
    BY <1>2, <1>7, <1>11, <1>12, <2>1, StreamMoves
<1>14. /\ start \in At /\ start.offset = o /\ start.state = state
       /\ start.frame = frame /\ start.emitted = emitted /\ start.failed = failed
       /\ ~start.returned
  BY <1>1, <1>5 DEF At, TypeOK, Emission
<1> HIDE DEF start
<1>15. InStep(y, sent, start)
  <2>1. SamePlace(Now(TRUE), start)
    BY <1>2, <1>14 DEF SamePlace
  <2>2. Len(x) - p = Len(y) - o
    BY <1>11
  <2>3. SameAhead(x, p, y, o)
    BY <1>11, <1>12, <2>2 DEF SameAhead
  <2>4. SameAhead(x, Now(TRUE).offset, y, start.offset)
    BY <1>2, <1>9, <1>14, <2>3
  <2>5. InStep(x, sent, Now(TRUE))
    BY DEF IInv, x
  <2> QED
    BY <1>2, <1>7, <1>14, <2>1, <2>4, <2>5, InStepMoves
<1>16. start \in Right(b, w, sent, o)
  <2>1. EmitsRight(sent, start.emitted)
    BY <1>14 DEF IInv
  <2>2. start.offset \in o .. Len(b)
    BY <1>5, <1>7, <1>14
  <2> QED
    BY <1>14, <1>15, <2>1, <2>2 DEF Right, y
<1>17. end \in Right(b, w, sent, o) /\ end.returned
  BY <1>2, <1>4, <1>5, <1>13, <1>16, LoopIsRight DEF y
<1> HIDE DEF end
<1>18. /\ end \in At /\ end.offset \in o .. Len(b) /\ end.offset \in Nat
       /\ InStep(y, sent, end) /\ EmitsRight(sent, end.emitted)
       /\ end.failed \/ Stuck(b, end)
  BY <1>17 DEF Right, y, At
<1>19. end = [offset |-> end.offset, state |-> end.state, frame |-> end.frame,
              emitted |-> end.emitted, failed |-> end.failed, returned |-> TRUE]
  BY <1>17, <1>18 DEF At
<1>20. Now(TRUE)' = end
  BY <1>6, <1>19 DEF Now
<1>21. IsStream(y, end.offset, sent)
  <2>1. o <= end.offset
    BY <1>5, <1>7, <1>18
  <2> QED
    BY <1>5, <1>7, <1>13, <1>18, <2>1, StreamSuffix
<1>22. /\ ReaderIInv' /\ Queue!Next
  <2>1. o <= end.offset /\ end.offset <= Len(b)
    BY <1>5, <1>7, <1>18
  <2>2. /\ offset' \in Nat /\ WrittenOffset(chunk) <= offset' /\ offset' <= Len(buffer')
        /\ buffer' = WrittenBuffer(chunk)
    BY <1>6, <1>18, <2>1 DEF o, b
  <2> QED
    BY <1>1, <1>4, <1>6, <2>2, WriteThenRead, QueueSteps
<1>23. TypeOK'
  <2>1. ReaderTypeOK'
    BY <1>22 DEF ReaderIInv
  <2> QED
    BY <1>1, <1>4, <1>6, <1>18, <2>1 DEF TypeOK, At, Emission
<1>24. IsStream(buffer \o wire, offset, sent)'
  BY <1>6, <1>21 DEF y
<1>25. InStep(buffer \o wire, sent, Now(TRUE))'
  BY <1>6, <1>18, <1>20 DEF InStep, Known, Due, FrameBegins, y
<1>26. EmitsRight(sent, emitted)'
  BY <1>6, <1>18 DEF EmitsRight, EmittedOf
<1>27. (~joined => Stuck(buffer, Now(TRUE)))'
  <2>1. ~joined => ~end.failed
    BY <1>18 DEF InStep
  <2>2. Stuck(b, end) => Stuck(buffer, Now(TRUE))'
    BY <1>6, <1>20 DEF Stuck, HeaderIsThere, Ahead
  <2> QED
    BY <1>6, <1>18, <2>1, <2>2
<1>28. (Len(sent) > 0 /\ \A k \in 1 .. Len(sent) : sent[k].n = k)'
  BY <1>6 DEF IInv
<1> QED
  BY <1>22, <1>23, <1>24, <1>25, <1>26, <1>27, <1>28 DEF IInv, ReaderIInv

-----------------------------------------------------------------------------
\* Every step preserves the invariant, and is a step of the queue of bytes or none.
LEMMA NextInv ==
  ASSUME IInv, [Next]_vars
  PROVE  IInv' /\ [Queue!Next]_Queue!vars
<1>1. ASSUME NEW f \in Frame, DroneSends(f)
      PROVE  IInv' /\ UNCHANGED Queue!vars
  <2>1. UNCHANGED Queue!vars
    BY <1>1 DEF DroneSends, readerVars, Queue!vars, Unread
  <2> QED
    BY <1>1, <2>1, DroneSendsInv
<1>2. ASSUME NEW n \in DOMAIN wire, Write(n) PROVE IInv' /\ Queue!Next
  <2>1. DOMAIN wire = 1 .. Len(wire)
    BY DEF IInv, TypeOK
  <2>2. n \in 1 .. Len(wire)
    BY <2>1
  <2> QED
    BY <1>2, <2>2, WriteInv
<1>3. CASE UNCHANGED vars
  <2>1. /\ UNCHANGED readerVars
        /\ state' = state /\ frame' = frame /\ wire' = wire /\ sent' = sent
        /\ joined' = joined /\ emitted' = emitted /\ failed' = failed
    BY <1>3 DEF vars
  <2>2. buffer' = buffer /\ offset' = offset /\ written' = written
    BY <2>1 DEF readerVars
  <2> QED
    BY <2>1, <2>2, ZenonT(30) DEF IInv, TypeOK, ReaderTypeOK, IsRest, bytesAhead, IsStream,
       InFrame, LastByte, InStep, Known, Due, FrameBegins, EmitsRight, EmittedOf,
       Now, Stuck, HeaderIsThere, Ahead, Queue!vars, Unread
<1> QED
  BY <1>1, <1>2, <1>3 DEF Next

\* The invariant holds in every reachable state.
THEOREM Invariant == Spec => []IInv
<1>1. IInv /\ [Next]_vars => IInv'
  BY NextInv
<1> QED
  BY <1>1, InitInv, PTL DEF Spec

\* The state has its types.
THEOREM TypeInvariant == Spec => []TypeOK
<1>1. IInv => TypeOK
  BY DEF IInv
<1> QED
  BY <1>1, Invariant, PTL

\* Whatever the stream, wherever it was joined and however it is cut into chunks,
\* every frame is emitted with its own payload.
THEOREM EveryFrameIsWhole == Spec => []EmitsWhole
<1>1. IInv => EmitsWhole
  <2> SUFFICES ASSUME IInv PROVE EmitsWhole
    OBVIOUS
  <2>1. DOMAIN emitted = 1 .. Len(emitted)
    BY DEF IInv, TypeOK
  <2> QED
    BY <2>1 DEF IInv, EmitsRight, EmittedOf, EmitsWhole
<1> QED
  BY <1>1, Invariant, PTL

\* And the frames are emitted in their order, with none left out.
THEOREM NoFrameIsSkipped == Spec => []NoGaps
<1>1. IInv => NoGaps
  <2> SUFFICES ASSUME IInv PROVE NoGaps
    OBVIOUS
  <2>1. DOMAIN emitted = 1 .. Len(emitted)
    BY DEF IInv, TypeOK
  <2> QED
    BY <2>1 DEF IInv, EmitsRight, EmittedOf, NoGaps
<1> QED
  BY <1>1, Invariant, PTL

\* Under the parser the Reader is a queue of bytes still: one write() of the
\* parser is bytes added, and then some read.
THEOREM ParserReadsAQueue == Spec => ImplementsByteQueue
<1>1. Init => Queue!Init
  BY DEF Init, ReaderInit, Queue!Init, Unread
<1>2. IInv /\ [Next]_vars => [Queue!Next]_Queue!vars
  BY NextInv
<1> QED
  BY <1>1, <1>2, Invariant, PTL DEF Spec, ImplementsByteQueue, Queue!Spec

-----------------------------------------------------------------------------
\* The frames that have arrived are the first ones, up to the one before that of
\* the first byte on the wire.
Arrived == IF wire = <<>> THEN Len(sent) ELSE wire[1].of.n - 1

LEMMA CompleteIsArrived ==
  ASSUME IInv
  PROVE  /\ Arrived \in Nat /\ Arrived \in 0 .. Len(sent)
         /\ Cardinality(Complete) = Arrived
<1> DEFINE x == buffer \o wire
           L == Len(buffer)
           M == Len(wire)
           N == Len(sent)
           c == Arrived
<1>1. /\ wire \in Seq(Byte) /\ buffer \in Seq(Byte) /\ sent \in Seq(Frame)
      /\ M \in Nat /\ L \in Nat /\ N \in Nat /\ offset \in Nat /\ offset <= L
      /\ x \in Seq(Byte) /\ Len(x) = L + M
  <2>1. TypeOK /\ TRUE \in BOOLEAN
    BY DEF IInv
  <2>2. /\ wire \in Seq(Byte) /\ buffer \in Seq(Byte) /\ sent \in Seq(Frame)
        /\ M \in Nat /\ L \in Nat /\ N \in Nat
        /\ offset \in Nat /\ offset \in 0 .. L
        /\ x \in Seq(Byte) /\ Len(x) = L + M
    BY <2>1, StateTypes
  <2> HIDE DEF x, L, M, N
  <2> QED
    BY <2>2
<1>2. \A i \in 1 .. M : x[L + i] = wire[i]
  BY <1>1
<1>3. IsStream(x, offset, sent)
  BY DEF IInv
<1>4. DOMAIN wire = 1 .. M /\ (wire = <<>> <=> M = 0)
  BY <1>1, EmptySeq
<1> HIDE DEF x, L, M, N
<1> DEFINE OK(j) == /\ x[j].of.n \in Nat /\ x[j].of.n \in 1 .. N
                    /\ FrameEnd(x, j) \in Nat /\ FrameEnd(x, j) \in j .. Len(x)
                    /\ FrameBegins(x, FrameEnd(x, j), x[j].of.n + 1, sent)
<1>5. ASSUME NEW j \in L + 1 .. L + M PROVE j \in offset + 1 .. Len(x) /\ OK(j)
  <2>1. j \in offset + 1 .. Len(x)
    BY <1>1
  <2>2. \A i \in offset + 1 .. Len(x) : OK(i)
    BY <1>1, <1>3, ByteOfStream, FrameFollows DEF N
  <2> HIDE DEF OK
  <2> QED
    BY <2>1, <2>2
<1>6. CASE M = 0
  <2>1. c = N /\ DOMAIN wire = {}
    BY <1>1, <1>4, <1>6 DEF Arrived, N
  <2>2. Complete = 1 .. N
    BY <2>1 DEF Complete, N
  <2>3. Cardinality(1 .. N) = N
    BY <1>1, FS_Interval
  <2> QED
    BY <1>1, <2>1, <2>2, <2>3 DEF N
<1>7. CASE M > 0
  <2>1. L + 1 \in L + 1 .. L + M /\ 1 \in 1 .. M /\ wire # <<>>
    BY <1>1, <1>4, <1>7
  <2>2. x[L + 1] = wire[1] /\ OK(L + 1)
    BY <1>2, <1>5, <2>1
  <2>3. /\ c = wire[1].of.n - 1 /\ wire[1].of.n \in 1 .. N
        /\ c \in Nat /\ c \in 0 .. N - 1 /\ wire[1].of.n = c + 1
    BY <1>1, <2>1, <2>2, SMTT(30) DEF Arrived
  <2> HIDE DEF c
  <2>c. c \in Nat /\ N \in Nat /\ c + 1 <= N /\ N - c - 1 \in Nat
        /\ 0 \in 0 .. N - c - 1 /\ c + 1 + 0 = c + 1
    <3>1. c \in 0 .. N - 1
      BY <2>3
    <3> QED
      BY <1>1, <3>1
  <2>4. ASSUME NEW i \in 1 .. M PROVE wire[i].of.n \in Nat /\ wire[i].of.n >= c + 1
    <3>1. /\ L + i \in L + 1 .. L + M /\ L + 1 <= L + i
          /\ L + i \in offset + 1 .. Len(x) /\ L + 1 \in offset + 1 .. Len(x)
      BY <1>1, <2>1
    <3>2. x[L + 1].of.n <= x[L + i].of.n
      BY <1>3, <3>1 DEF IsStream
    <3>3. OK(L + i)
      BY <1>5, <3>1
    <3> QED
      BY <1>2, <2>2, <2>3, <3>2, <3>3
  <2>5. ASSUME NEW f \in 1 .. N, f <= c PROVE f \in Complete
    <3>1. \A i \in 1 .. M : wire[i].of.n # f
      BY <2>3, <2>4, <2>5
    <3> QED
      BY <1>4, <3>1 DEF Complete, N
  <2> DEFINE T == {k \in 0 .. N - c - 1 : \E i \in 1 .. M : wire[i].of.n = c + 1 + k}
  <2>6. 0 \in T
    BY <2>c, <2>1, <2>3
  <2>7. ASSUME NEW k \in 0 .. (N - c - 1) - 1, k \in T PROVE k + 1 \in T
    <3>1. PICK i \in 1 .. M : wire[i].of.n = c + 1 + k
      BY <2>7
    <3> DEFINE e == FrameEnd(x, L + i)
    <3>2. OK(L + i) /\ x[L + i].of.n = c + 1 + k
      <4>1. L + i \in L + 1 .. L + M
        BY <1>1
      <4> QED
        BY <1>2, <1>5, <3>1, <4>1
    <3>3. /\ e \in Nat /\ e \in L + i .. L + M
          /\ FrameBegins(x, e, c + 1 + k + 1, sent)
      BY <1>1, <3>2
    <3> HIDE DEF e
    <3>4. c + 1 + k + 1 # N + 1
      BY <2>c
    <3>5. e < L + M /\ x[e + 1].of.n = c + 1 + k + 1
      BY <1>1, <3>3, <3>4 DEF FrameBegins, N
    <3> DEFINE j == e + 1 - L
    <3>6. j \in 1 .. M /\ L + j = e + 1
      BY <1>1, <3>3, <3>5
    <3> HIDE DEF j
    <3>7. wire[j].of.n = c + 1 + (k + 1)
      BY <1>2, <2>3, <3>5, <3>6
    <3>8. k + 1 \in 0 .. N - c - 1
      BY <2>c
    <3> QED
      BY <3>6, <3>7, <3>8
  <2>8. \A k \in 0 .. N - c - 1 : k \in T
    <3> HIDE DEF T
    <3> QED
      BY <2>c, <2>6, <2>7, Induction
  <2>9. ASSUME NEW f \in Complete PROVE f \in 1 .. c
    <3>1. f \in 1 .. N /\ \A i \in 1 .. M : wire[i].of.n # f
      BY <1>4 DEF Complete, N
    <3>2. ASSUME f > c PROVE FALSE
      <4> DEFINE k == f - c - 1
      <4>1. k \in 0 .. N - c - 1 /\ c + 1 + k = f
        BY <2>c, <3>1, <3>2
      <4>2. k \in T
        BY <2>8, <4>1
      <4> QED
        BY <3>1, <4>1, <4>2
    <3> QED
      BY <2>c, <3>1, <3>2
  <2>10. Complete = 1 .. c
    <3>1. \A f \in 1 .. c : f \in 1 .. N /\ f <= c
      BY <2>c
    <3> QED
      BY <2>5, <2>9, <3>1
  <2>11. Cardinality(1 .. c) = c
    BY <2>c, FS_Interval
  <2>12. c \in 0 .. N
    BY <2>c
  <2> QED
    BY <2>c, <2>10, <2>11, <2>12 DEF c, N
<1> QED
  BY <1>1, <1>6, <1>7

\* What a byte of the stream tells, in one.
ByteTells(x, i, s) ==
  /\ InFrame(x, i, s) /\ x[i].place \in Nat
  /\ x[i].of \in Frame /\ x[i].of.n \in Nat /\ x[i].of = s[x[i].of.n]
  /\ Size(x[i].of) \in Nat /\ Size(x[i].of) >= HEADER_SIZE_SHORT
  /\ FrameEnd(x, i) \in i .. Len(x) /\ FrameEnd(x, i) \in Nat
  /\ FrameEnd(x, i) = i - x[i].place + Size(x[i].of)
  /\ FrameBegins(x, FrameEnd(x, i), x[i].of.n + 1, s)

LEMMA BytesTell ==
  ASSUME NEW s \in Seq(Frame), NEW x \in Seq(Byte), NEW o, o \in Nat, IsStream(x, o, s)
  PROVE  \A i \in o + 1 .. Len(x) : ByteTells(x, i, s)
<1> SUFFICES ASSUME NEW i \in o + 1 .. Len(x) PROVE ByteTells(x, i, s)
  OBVIOUS
<1>1. /\ InFrame(x, i, s) /\ x[i].place \in Nat
      /\ x[i].of \in Frame /\ x[i].of.n \in Nat
      /\ Size(x[i].of) \in Nat
      /\ FrameEnd(x, i) \in i .. Len(x) /\ FrameEnd(x, i) \in Nat
      /\ FrameEnd(x, i) = i - x[i].place + Size(x[i].of)
  BY ByteOfStream
<1>2. FrameBegins(x, FrameEnd(x, i), x[i].of.n + 1, s)
  BY FrameFollows
<1>3. x[i].of = s[x[i].of.n]
  BY <1>1 DEF InFrame
<1>4. Size(x[i].of) >= HEADER_SIZE_SHORT
  <2> DEFINE f == x[i].of
  <2>1. f \in Frame
    BY <1>1
  <2> HIDE DEF f
  <2>2. /\ Size(f) = f.header_size + f.payload_size /\ f.header_size \in Nat
        /\ f.header_size >= HEADER_SIZE_SHORT /\ f.payload_size \in Nat
        /\ HEADER_SIZE_SHORT \in Nat
    BY <2>1, FrameSizes, SizesAssumption
  <2>3. Size(f) >= HEADER_SIZE_SHORT
    BY <2>2
  <2> QED
    BY <2>3 DEF f
<1> QED
  BY <1>1, <1>2, <1>3, <1>4 DEF ByteTells

\* A frame k begins at p, in the buffer, and is not all there: the wire goes on
\* with it.
LEMMA NotAllThere ==
  ASSUME IInv, NEW x, x = buffer \o wire, NEW L, L = Len(buffer), NEW k \in Nat,
         NEW p \in Nat, offset <= p, p < L,
         x[p + 1].place = 1, x[p + 1].of.n = k, FrameEnd(x, p + 1) > L
  PROVE  Arrived = k - 1
<1> DEFINE M == Len(wire)
           S == Size(x[p + 1].of)
           e == FrameEnd(x, p + 1)
<1>1. /\ TypeOK /\ TRUE \in BOOLEAN /\ IsStream(x, offset, sent)
  BY DEF IInv
<1>2. /\ wire \in Seq(Byte) /\ buffer \in Seq(Byte) /\ sent \in Seq(Frame)
      /\ M \in Nat /\ L \in Nat /\ offset \in Nat
      /\ x \in Seq(Byte) /\ Len(x) = L + M
  BY <1>1, StateTypes
<1>3. p + 1 \in offset + 1 .. Len(x)
  BY <1>2
<1>4. /\ e \in p + 1 .. Len(x) /\ S \in Nat /\ e = p + 1 - 1 + S
  <2>1. ByteTells(x, p + 1, sent)
    BY <1>1, <1>2, <1>3, BytesTell
  <2>2. /\ e \in p + 1 .. Len(x) /\ S \in Nat /\ e = p + 1 - x[p + 1].place + S
    BY <2>1 DEF ByteTells
  <2> QED
    BY <2>2
<1> HIDE DEF M, S, e
<1>5. e > L
  BY DEF e
<1>6. L < Len(x) /\ L + 1 \in offset + 1 .. Len(x) /\ M > 0
      /\ (L + 1) - (p + 1) + 1 \in 1 .. S
  <2>1. /\ Len(x) \in Nat /\ L \in Nat /\ M \in Nat /\ S \in Nat /\ e \in Nat
        /\ L < e /\ e <= Len(x) /\ e = p + S /\ p < L /\ Len(x) = L + M
    BY <1>2, <1>3, <1>4, <1>5, SMTT(30)
  <2>2. L < Len(x) /\ M > 0 /\ (L + 1) - (p + 1) + 1 \in 1 .. S
    BY <2>1
  <2>3. L + 1 \in offset + 1 .. Len(x)
    BY <1>2, <2>1, SMTT(30)
  <2> QED
    BY <2>2, <2>3
<1>7. SameFrame(x, p + 1, L + 1)
  BY <1>1, <1>3, <1>6 DEF IsStream, S
<1>8. x[L + 1].of.n = k
  BY <1>7 DEF SameFrame
<1>9. 1 \in 1 .. M
  BY <1>2, <1>6
<1>10. wire # <<>> /\ x[L + 1] = wire[1]
  BY <1>2, <1>9, EmptySeq DEF M
<1> QED
  BY <1>8, <1>10 DEF Arrived

\* A frame k begins right behind the buffer: those before it have arrived.
LEMMA BeginsBehind ==
  ASSUME IInv, NEW k \in Nat,
         FrameBegins(buffer \o wire, Len(buffer), k, sent)
  PROVE  Arrived = k - 1
<1> DEFINE x == buffer \o wire
           L == Len(buffer)
           M == Len(wire)
<1>1. TypeOK /\ TRUE \in BOOLEAN
  BY DEF IInv
<1>2. /\ wire \in Seq(Byte) /\ buffer \in Seq(Byte) /\ Len(sent) \in Nat
      /\ M \in Nat /\ L \in Nat /\ Len(x) = L + M
  BY <1>1, StateTypes
<1>3. \A i \in 1 .. M : x[L + i] = wire[i]
  BY <1>2
<1>4. wire = <<>> <=> M = 0
  BY <1>2, EmptySeq
<1>5. FrameBegins(x, L, k, sent)
  OBVIOUS
<1> HIDE DEF x, L, M
<1>6. CASE M = 0
  <2>1. ~(L < Len(x))
    BY <1>2, <1>6
  <2>2. k = Len(sent) + 1
    BY <1>5, <2>1 DEF FrameBegins
  <2> QED
    BY <1>2, <1>4, <1>6, <2>2 DEF Arrived
<1>7. CASE M > 0
  <2>1. L < Len(x) /\ 1 \in 1 .. M /\ M # 0
    BY <1>2, <1>7
  <2>2. x[L + 1].of.n = k /\ x[L + 1] = wire[1]
    BY <1>3, <1>5, <2>1 DEF FrameBegins
  <2> QED
    BY <1>4, <2>1, <2>2 DEF Arrived
<1> QED
  BY <1>2, <1>6, <1>7

\* A stream joined at its start never fails, and its frames are emitted as soon
\* as they have arrived; only a last frame too short to be looked at is not.
THEOREM NoFrameIsWithheld == Spec => []NothingWithheld
<1>1. IInv => NothingWithheld
  <2> SUFFICES ASSUME IInv, ~joined PROVE
        /\ ~failed
        /\ \/ Len(emitted) = Cardinality(Complete)
           \/ /\ Len(emitted) = Cardinality(Complete) - 1
              /\ Size(sent[Cardinality(Complete)]) <= bytesAhead
              /\ bytesAhead < HEADER_SIZE_LONG
    BY DEF NothingWithheld
  <2> DEFINE x == buffer \o wire
             L == Len(buffer)
             M == Len(wire)
             N == Len(emitted)
  <2>1. /\ TypeOK /\ TRUE \in BOOLEAN /\ IsStream(x, offset, sent)
        /\ InStep(x, sent, Now(TRUE)) /\ EmitsRight(sent, emitted)
        /\ Stuck(buffer, Now(TRUE))
    BY DEF IInv
  <2>2. /\ wire \in Seq(Byte) /\ buffer \in Seq(Byte) /\ sent \in Seq(Frame)
        /\ M \in Nat /\ L \in Nat /\ offset \in 0 .. L /\ offset \in Nat
        /\ x \in Seq(Byte) /\ Len(x) = L + M
        /\ Now(TRUE).offset = offset /\ Now(TRUE).state = state
        /\ Now(TRUE).frame = frame /\ Now(TRUE).emitted = emitted
        /\ Now(TRUE).failed = failed /\ Now(TRUE) \in At
    BY <2>1, StateTypes
  <2>3. emitted \in Seq(Emission) /\ N \in Nat /\ state \in {"header", "payload"}
    BY <2>1 DEF TypeOK, Emission
  <2>4. Known(emitted) /\ Due(emitted) = N + 1
    <3>1. CASE emitted = <<>>
      <4>1. N = 0
        BY <3>1, EmptySeq
      <4> QED
        BY <3>1, <4>1 DEF Known, Due
    <3>2. CASE emitted # <<>>
      <4>1. emitted[1].frame.n = 1
        BY <2>1, <3>2 DEF EmitsRight
      <4> QED
        BY <2>3, <3>2, <4>1 DEF Known, Due
    <3> QED
      BY <3>1, <3>2
  <2>5. /\ ~failed
        /\ state = "header" => FrameBegins(x, offset, N + 1, sent)
                               /\ ~(L - offset >= HEADER_SIZE_LONG)
    BY <2>1, <2>2, <2>4 DEF InStep, Stuck, HeaderIsThere, Ahead
  <2>6. Arrived \in Nat /\ Cardinality(Complete) = Arrived
    BY CompleteIsArrived
  <2>7. PICK p \in Nat : p = offset /\ p <= L /\ bytesAhead = L - p
    BY <2>2 DEF bytesAhead
  <2>8. /\ HEADER_SIZE_LONG \in Nat /\ HEADER_SIZE_SHORT \in Nat
        /\ HEADER_SIZE_LONG <= 2 * HEADER_SIZE_SHORT
    BY SizesAssumption
  <2>9. \A i \in p + 1 .. Len(x) : ByteTells(x, i, sent)
    BY <2>1, <2>2, <2>7, BytesTell
  <2> HIDE DEF x, M, N
  <2>10. CASE state = "payload"
    <3> DEFINE m == frame.payload_size
               j == L - p + 1
    <3>1. /\ frame \in Frame /\ frame.n = N + 1
          /\ \A i \in 1 .. m : p + i <= Len(x) /\ x[p + i].of = frame
          /\ L - p < m
      BY <2>1, <2>2, <2>4, <2>7, <2>10 DEF InStep, Stuck, Ahead
    <3>2. m \in Nat
      BY <3>1, FrameSizes
    <3> HIDE DEF m
    <3>3. j \in 1 .. m /\ p + j = L + 1
      BY <2>2, <2>7, <3>1, <3>2
    <3> HIDE DEF j
    <3>4. L + 1 <= Len(x) /\ x[L + 1].of.n = N + 1
      BY <3>1, <3>3
    <3>5. 1 \in 1 .. M
      BY <2>2, <3>4
    <3>6. wire # <<>> /\ x[L + 1] = wire[1]
      BY <2>2, <3>5, EmptySeq DEF M, x
    <3>7. Arrived = N + 1 - 1
      <4>1. wire[1].of.n = N + 1 /\ wire # <<>>
        BY <3>4, <3>6
      <4> QED
        BY <2>3, <4>1 DEF Arrived
    <3> QED
      BY <2>3, <2>5, <2>6, <3>7 DEF N
  <2>11. CASE state = "header" /\ p = L
    <3>1. Arrived = N + 1 - 1
      BY <2>3, <2>5, <2>7, <2>11, BeginsBehind DEF x
    <3> QED
      BY <2>3, <2>5, <2>6, <3>1 DEF N
  <2>12. CASE state = "header" /\ p < L
    <3> DEFINE e == FrameEnd(x, p + 1)
               S == Size(x[p + 1].of)
    <3>1. /\ x[p + 1].place = 1 /\ x[p + 1].of.n = N + 1
          /\ L - p < HEADER_SIZE_LONG /\ p + 1 \in p + 1 .. Len(x)
      BY <2>2, <2>5, <2>7, <2>8, <2>12 DEF FrameBegins
    <3>2. ByteTells(x, p + 1, sent)
      BY <2>9, <3>1
    <3>3. /\ e \in Nat /\ S \in Nat /\ e = p + S /\ S >= HEADER_SIZE_SHORT
          /\ FrameBegins(x, e, N + 2, sent)
          /\ e \in p + 1 .. Len(x) /\ x[p + 1].of = sent[N + 1]
      <4>1. /\ e \in Nat /\ S \in Nat /\ e = p + 1 - 1 + S /\ x[p + 1].of \in Frame
            /\ FrameBegins(x, e, N + 1 + 1, sent) /\ x[p + 1].of = sent[N + 1]
            /\ e \in p + 1 .. Len(x)
        BY <3>1, <3>2 DEF ByteTells
      <4>2. S >= HEADER_SIZE_SHORT
        BY <3>2 DEF ByteTells
      <4> HIDE DEF e, S
      <4> QED
        BY <2>3, <4>1, <4>2 DEF N
    <3>4. CASE e > L
      <4>1. offset <= p
        BY <2>2, <2>7
      <4>2. N + 1 \in Nat /\ p < L
        BY <2>3, <2>12 DEF N
      <4> DEFINE k == N + 1
      <4>3. k \in Nat /\ x[p + 1].of.n = k
        BY <3>1, <4>2
      <4> HIDE DEF k
      <4>4. Arrived = k - 1
        BY <3>1, <3>4, <4>1, <4>2, <4>3, NotAllThere DEF x
      <4>5. Arrived = N + 1 - 1
        BY <2>3, <4>4 DEF k
      <4> QED
        BY <2>3, <2>5, <2>6, <4>5 DEF N
    <3>5. CASE e <= L
      <4> HIDE DEF e, S
      <4>1. Arrived = N + 2 - 1
        <5>1. CASE e = L
          BY <2>3, <3>3, <5>1, BeginsBehind DEF x, N
        <5>2. CASE e < L
          <6> DEFINE S2 == Size(x[e + 1].of)
                     e2 == FrameEnd(x, e + 1)
          <6>1. /\ x[e + 1].place = 1 /\ x[e + 1].of.n = N + 2
                /\ e + 1 \in p + 1 .. Len(x)
            BY <2>2, <3>3, <5>2 DEF FrameBegins
          <6>2. ByteTells(x, e + 1, sent)
            BY <2>9, <6>1
          <6>3. /\ S2 \in Nat /\ e2 = e + 1 - x[e + 1].place + S2
                /\ S2 >= HEADER_SIZE_SHORT
            BY <3>3, <6>2 DEF ByteTells
          <6>4. e2 = e + 1 - 1 + S2
            BY <6>1, <6>3
          <6> HIDE DEF S2, e2
          <6>5. e2 > L
            BY <2>2, <2>8, <3>1, <3>3, <6>3, <6>4
          <6>6. offset <= e /\ N + 2 \in Nat
            BY <2>2, <2>3, <2>7, <3>3 DEF N
          <6> DEFINE k == N + 2
          <6>7. k \in Nat /\ x[e + 1].of.n = k
            BY <6>1, <6>6
          <6> HIDE DEF k
          <6>8. Arrived = k - 1
            BY <3>3, <5>2, <6>1, <6>5, <6>6, <6>7, NotAllThere DEF x, e2
          <6> QED
            BY <2>3, <6>8 DEF k
        <5> QED
          BY <2>2, <3>3, <3>5, <5>1, <5>2
      <4>2. N = Arrived - 1 /\ Arrived = N + 1
        BY <2>3, <4>1 DEF N
      <4>3. S <= L - p
        BY <2>2, <3>3, <3>5
      <4> QED
        BY <2>5, <2>6, <2>7, <3>1, <3>3, <4>2, <4>3 DEF N, S
    <3> QED
      BY <2>2, <3>3, <3>4, <3>5
  <2> QED
    BY <2>2, <2>3, <2>7, <2>10, <2>11, <2>12
<1> QED
  BY <1>1, Invariant, PTL
=============================================================================
