---------------------------- MODULE ParseNavdata ----------------------------
(***************************************************************************)
(* parseNavdata() of node drone/ar-drone/lib/navdata/parseNavdata.js: a    *)
(* header, then options, each with its id and its length, up to the        *)
(* checksum. One step is one turn of the loop.                             *)
(*                                                                         *)
(* Nothing is assumed of the datagram but its size: what stands at an      *)
(* offset is chosen when it is read. The parser never compares a length    *)
(* with the datagram. The Reader under it moves past the end without a     *)
(* complaint when an option is cut out of the datagram (the missing bytes  *)
(* are whatever the allocator left there), and throws when a number is     *)
(* read past the end.                                                      *)
(***************************************************************************)
EXTENDS NavdataOptions, Integers

CONSTANTS
  Sizes,   \* sizes of the datagrams in bytes
  Ids,     \* ids that stand in option headers
  Lengths  \* Lengths[id]: lengths that stand beside that id

ASSUME SizesAssumption == Sizes \subseteq Nat
ASSUME IdsAssumption == Ids \subseteq Nat
ASSUME LengthsAssumption == \A id \in Ids : Lengths[id] \subseteq Nat

VARIABLES
  size,     \* buffer.length
  lenient,  \* external: new Buffer(n) with n < 0 is empty, and does not throw
  offset,   \* reader._offset
  navdata,  \* navdata[id]: the bytes the option of that id was read from
  status,   \* where parseNavdata is, or how it ended
  summed    \* the bytes the checksum was computed from are 0 .. summed - 1

parser == <<size, lenient, offset, navdata, status, summed>>

HeaderSize == uint32 + mask32 + uint32 + uint32

Ended == {"returned", "thrown", "endless"}

ParserTypeOK ==
  /\ size \in Sizes
  /\ lenient \in BOOLEAN
  /\ offset \in Nat /\ (offset < HeaderSize => offset = 0)
  /\ DOMAIN navdata \subseteq {id \in Ids : Known(id)}
  /\ \A id \in DOMAIN navdata : navdata[id] \in [from : Nat, to : Nat]
  /\ status \in {"header", "options"} \cup Ended
  /\ summed \in Int

ParserInit ==
  /\ size \in Sizes
  /\ lenient \in BOOLEAN
  /\ offset = 0
  /\ navdata = [id \in {} |-> 0]
  /\ status = "header"
  /\ summed = 0

-----------------------------------------------------------------------------
\* Lines 27 to 35: header, droneState, sequenceNumber and visionFlag.
ReadHeader(isHeader) ==
  /\ status = "header"
  /\ IF isHeader /\ HeaderSize <= size
     THEN status' = "options" /\ offset' = HeaderSize
     ELSE status' = "thrown" /\ UNCHANGED offset
  /\ UNCHANGED <<size, lenient, navdata, summed>>

Throw == status' = "thrown" /\ UNCHANGED <<offset, navdata, summed>>

\* Mutant of RunOut: bytes that run out end the packet as the checksum does.
RunOutQuietly == status' = "returned" /\ UNCHANGED <<offset, navdata, summed>>

\* The numbers of an option header are read past the end.
RunOut == Throw

HeaderFits == offset + 2 * uint16 <= size

\* reader.buffer(length - 4), which may end past the end of the datagram.
AfterOption(length) == offset + length

\* Mutant of Negative: a negative size is taken for 0.
NeverNegative(length) == FALSE

\* A Buffer of a negative size is asked for, and not made.
Negative(length) == length < 4 /\ ~lenient

\* The parser of an option reads from its own part of the datagram only.
Extent(id) == [from |-> offset + 2 * uint16, to |-> offset + 2 * uint16 + Width(id)]

\* Mutant of Fits: the parser reads from the datagram itself.
FitsDatagram(id, length) == offset + 2 * uint16 + Width(id) <= size

Fits(id, length) == Width(id) <= length - 4

ParseOption(id, length) ==
  /\ Known(id)
  /\ IF Fits(id, length)
     THEN /\ navdata' = [i \in DOMAIN navdata \cup {id} |->
                           IF i = id THEN Extent(id) ELSE navdata[i]]
          /\ offset' = AfterOption(length)
          /\ UNCHANGED <<status, summed>>
     ELSE Throw

\* An id without a name leaves an Error in navdata and is passed over. With an
\* empty Buffer for a length below 4, a length of 0 is read again and again.
PassOver(length) ==
  /\ offset' = AfterOption(length)
  /\ status' = IF length = 0 THEN "endless" ELSE status
  /\ UNCHANGED <<navdata, summed>>

\* Mutant of Summed: takes the option's header for part of the sum's end.
SummedTooFew(length) == size - length - 4

Summed(length) == size - length

\* The sum is compared with the option's number, right or not.
Checksum(length) ==
  IF uint32 <= length - 4
  THEN \/ /\ status' = "returned"
          /\ summed' = Summed(length)
          /\ offset' = AfterOption(length)
          /\ UNCHANGED navdata
       \/ Throw
  ELSE Throw

\* One turn of the loop, with id and length in the option's header.
ReadOption(id, length) ==
  /\ status = "options"
  /\ IF ~HeaderFits THEN RunOut
     ELSE IF Negative(length) THEN Throw
     ELSE \/ id = CHECKSUM /\ Checksum(length)
          \/ ParseOption(id, length)
          \/ id # CHECKSUM /\ ~Known(id) /\ PassOver(length)
  /\ UNCHANGED <<size, lenient>>

ParserNext ==
  \/ \E isHeader \in BOOLEAN : ReadHeader(isHeader)
  \/ \E id \in Ids : \E length \in Lengths[id] : ReadOption(id, length)

\* parseNavdata runs to its end in one callback.
ParserSpec == ParserInit /\ [][ParserNext]_parser
ParserFairSpec == ParserSpec /\ WF_parser(ParserNext)

-----------------------------------------------------------------------------
\* What listeners are given was received: although no length is checked, and
\* options may be cut out past the end of the datagram, every option of a
\* packet that parses was read from bytes that arrived. It is the header of
\* the next option, the checksum's in the end, that proves it.
OnlyReceivedBytes ==
  status = "returned" => \A id \in DOMAIN navdata : navdata[id].to <= size

\* No byte is read for two options, so a wrong length cannot make one option
\* out of a part of another.
OptionsApart ==
  \A i, j \in DOMAIN navdata :
    i # j => navdata[i].to <= navdata[j].from \/ navdata[j].to <= navdata[i].from

\* And all of it is covered by the checksum, unless the checksum option itself
\* is the one that was cut short by the end of the datagram.
AllChecked ==
  status = "returned" /\ offset <= size =>
    \A id \in DOMAIN navdata : navdata[id].to <= summed

\* Any datagram is parsed to an end, unless the runtime makes empty Buffers of
\* negative sizes: then an unknown option of length 0 is read for ever.
ParseEnds == (status = "header") ~> (status \in {"returned", "thrown"} \/ lenient)
=============================================================================
