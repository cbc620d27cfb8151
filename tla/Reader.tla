------------------------------- MODULE Reader -------------------------------
(***************************************************************************)
(* node drone/buffy/lib/Reader.js: bytes are written behind those not yet  *)
(* read. When the bytes already read have left room for the chunk, the     *)
(* unread ones are moved back inside the same buffer; otherwise a buffer   *)
(* that just holds both is allocated.                                      *)
(*                                                                         *)
(* No method asks whether the bytes it reads are there: each moves _offset *)
(* first. Past the end a number then throws, a string or a buffer is short *)
(* of bytes in silence. write() counts on an _offset inside the buffer.    *)
(*                                                                         *)
(* buffer[i + 1] is the byte at index i. Abstracted: what the bytes stand  *)
(* for: each read method of k bytes is the read of the next k.             *)
(***************************************************************************)
EXTENDS Integers, Sequences

CONSTANTS
  Byte,
  NaN   \* what an _offset is once undefined was added to it

VARIABLES
  buffer,   \* this._buffer
  offset,   \* this._offset: where the next read starts
  written   \* history: all bytes ever written

readerVars == <<buffer, offset, written>>

\* The types while the user reads only what is ahead.
ReaderTypeOK ==
  /\ buffer \in Seq(Byte)
  /\ offset \in 0 .. Len(buffer)
  /\ written \in Seq(Byte)

ReaderInit ==
  /\ buffer = <<>>
  /\ offset = 0
  /\ written = <<>>

\* What the read methods still have to return from a buffer b at an offset o.
Unread(b, o) == [i \in 1 .. Len(b) - o |-> b[o + i]]

bytesAhead == Len(buffer) - offset

-----------------------------------------------------------------------------
reuseBuffer(chunk) == offset >= Len(chunk)

\* Mutant of CopiedBack: the new bytes are copied over unread ones.
NotMoved(chunk) == buffer

\* The unread bytes are copied back by the length of the chunk.
CopiedBack(chunk) ==
  [i \in 1 .. Len(buffer) |->
     IF offset < i + Len(chunk) /\ i + Len(chunk) <= Len(buffer)
     THEN buffer[i + Len(chunk)] ELSE buffer[i]]

Reused(chunk) ==
  LET rest == Len(buffer) - Len(chunk)
  IN  [i \in 1 .. Len(buffer) |->
         IF i <= rest THEN CopiedBack(chunk)[i] ELSE chunk[i - rest]]

Grown(chunk) ==
  [i \in 1 .. bytesAhead + Len(chunk) |->
     IF i <= bytesAhead THEN buffer[offset + i] ELSE chunk[i - bytesAhead]]

WrittenBuffer(chunk) == IF reuseBuffer(chunk) THEN Reused(chunk) ELSE Grown(chunk)

WrittenOffset(chunk) == IF reuseBuffer(chunk) THEN offset - Len(chunk) ELSE 0

Moved(n) == IF offset = NaN THEN NaN ELSE offset + n

Inside == offset \in 0 .. Len(buffer)

\* With _offset outside the buffer some of the copies start or end outside it
\* too. What node does then differs between its versions: it throws, with the
\* fields as they are by then, or copies nothing, perhaps into memory that was
\* never initialised.
write(chunk) ==
  /\ \/ /\ Inside
        /\ buffer' = WrittenBuffer(chunk)
        /\ offset' = WrittenOffset(chunk)
     \/ /\ ~Inside
        /\ buffer' \in Seq(Byte)
        /\ offset' \in {offset, Moved(-Len(chunk)), 0}
  /\ written' = written \o chunk

\* uint8(), uint16LE(), ascii(n), buffer(n), ...: _offset moves by n,
\* whatever n is and whether or not the method throws in the end. A string up to
\* a null is a read of one byte more than the string.
read(n) ==
  /\ offset' = Moved(n)
  /\ UNCHANGED <<buffer, written>>

\* A string up to a null when no null is ahead: its length is undefined.
readUnterminated ==
  /\ offset' = NaN
  /\ UNCHANGED <<buffer, written>>

ReaderNext ==
  \/ \E chunk \in Seq(Byte) : write(chunk)
  \/ \E n \in Int : read(n)
  \/ readUnterminated

ReaderSpec == ReaderInit /\ [][ReaderNext]_readerVars

\* What the user has to see to, with bytesAhead(): that it reads only bytes
\* which are there, and no negative number of them.
ReadsWhatIsAhead ==
  [][UNCHANGED <<buffer, written>> => offset' \in offset .. Len(buffer)]_readerVars

Queue == INSTANCE ByteQueue WITH unread <- Unread(buffer, offset)
=============================================================================
