--------------------------- MODULE NavdataProofs ---------------------------
(***************************************************************************)
(* How navdata reaches the client, for datagrams of any size and a network *)
(* that loses, reorders and duplicates them.                               *)
(*                                                                         *)
(* Module ParseNavdata: the argument is one fact about the loop: between   *)
(* its turns no option was read past the offset (ReadBehind). The number   *)
(* read next at the offset shows that the offset is inside the datagram.   *)
(*                                                                         *)
(* Module NavdataStream: the packets on their way are numbered apart       *)
(* (Stamped), so that the set the network holds is a sequence, that of the *)
(* numbers in ascending order. A packet that is let through takes those    *)
(* before it out of that sequence, for the filter will refuse them: this   *)
(* is the step of the abstract channel.                                    *)
(***************************************************************************)
EXTENDS NavdataStream, ParseNavdata, SequenceLemmas

\* Every layout is a number of bytes.
LEMMA WidthIsNat == \A id \in Nat : Known(id) => Width(id) \in Nat
<1> USE DEF uint8, int16, uint16, int32, uint32, float32, double64, char, bool,
            matrix33, vector31, screenPoint, timesMap
<1>1. demo \in Nat
  BY DEF demo
<1>2. /\ time \in Nat /\ rawMeasures \in Nat /\ physMeasures \in Nat
      /\ gyrosOffsets \in Nat /\ eulerAngles \in Nat /\ references \in Nat
      /\ trims \in Nat /\ rcReferences \in Nat /\ pwm \in Nat
  BY DEF time, rawMeasures, physMeasures, gyrosOffsets, eulerAngles, references,
         trims, rcReferences, pwm
<1>3. /\ altitude \in Nat /\ visionRaw \in Nat /\ visionOf \in Nat
      /\ vision \in Nat /\ visionPerf \in Nat /\ trackersSend \in Nat
      /\ visionDetect \in Nat /\ watchdog \in Nat /\ adcDataFrame \in Nat
  BY DEF altitude, visionRaw, visionOf, vision, visionPerf, trackersSend,
         visionDetect, watchdog, adcDataFrame
<1>4. /\ videoStream \in Nat /\ games \in Nat /\ pressureRaw \in Nat
      /\ magneto \in Nat /\ windSpeed \in Nat /\ kalmanPressure \in Nat
      /\ hdvideoStream \in Nat /\ wifi \in Nat /\ gps \in Nat
  BY DEF videoStream, games, pressureRaw, magneto, windSpeed, kalmanPressure,
         hdvideoStream, wifi, gps
<1>5. \A id \in DOMAIN OptionWidths : OptionWidths[id] \in Nat
  BY <1>2, <1>3, <1>4 DEF OptionWidths
<1> QED
  BY <1>1, <1>5 DEF Known, Width

-----------------------------------------------------------------------------
Between ==
  /\ status = "header" => DOMAIN navdata = {}
  /\ status = "options" => HeaderSize <= offset

\* Between turns every option was read from bytes before the offset.
ReadBehind ==
  \A id \in DOMAIN navdata :
    /\ navdata[id].from <= navdata[id].to
    /\ status = "options" => navdata[id].to <= offset

ParserInv ==
  /\ ParserTypeOK
  /\ Between
  /\ ReadBehind
  /\ OptionsApart
  /\ OnlyReceivedBytes
  /\ AllChecked

LEMMA SizesOfHeaders ==
  HeaderSize = 16 /\ uint16 = 2 /\ uint32 = 4
  BY DEF HeaderSize, uint16, uint32, mask32

LEMMA ParserStart == ParserInit => ParserInv
  BY SizesOfHeaders, SizesAssumption
  DEF ParserInit, ParserInv, ParserTypeOK, Between, ReadBehind, OptionsApart, OnlyReceivedBytes,
      AllChecked, Ended

\* Giving up leaves everything as it is, and promises nothing more.
LEMMA ThrowInv ==
  ASSUME ParserInv, Throw, UNCHANGED <<size, lenient>>
  PROVE  ParserInv'
  BY DEF ParserInv, ParserTypeOK, Between, ReadBehind, OptionsApart, OnlyReceivedBytes,
         AllChecked, Throw, Ended

LEMMA HeaderInv ==
  ASSUME ParserInv, NEW isHeader \in BOOLEAN, ReadHeader(isHeader)
  PROVE  ParserInv'
  BY SizesOfHeaders
  DEF ParserInv, ParserTypeOK, Between, ReadBehind, OptionsApart, OnlyReceivedBytes,
      AllChecked, ReadHeader, Ended

\* A parser that finds its bytes in its own part reads behind the new offset,
\* and nothing that was read before.
LEMMA ParseInv ==
  ASSUME ParserInv, NEW id \in Ids, NEW length \in Nat, status = "options",
         ParseOption(id, length), UNCHANGED <<size, lenient>>
  PROVE  ParserInv'
<1>1. CASE ~Fits(id, length)
  BY <1>1, ThrowInv DEF ParseOption
<1>2. CASE Fits(id, length)
  <2> DEFINE new == Extent(id)
  <2>1. Known(id) /\ Width(id) \in Nat
    BY WidthIsNat, IdsAssumption DEF ParseOption
  <2>2. /\ DOMAIN navdata' = DOMAIN navdata \cup {id}
        /\ navdata'[id] = new
        /\ \A i \in DOMAIN navdata \ {id} : navdata'[i] = navdata[i]
        /\ offset' = offset + length
        /\ UNCHANGED <<size, lenient, status, summed>>
    BY <1>2 DEF ParseOption, AfterOption
  <2>3. /\ offset \in Nat
        /\ new.from \in Nat /\ new.to \in Nat
        /\ offset <= new.from /\ new.from <= new.to /\ new.to <= offset'
        /\ new \in [from : Nat, to : Nat]
    BY <1>2, <2>1, <2>2, SizesOfHeaders DEF ParserInv, ParserTypeOK, Extent, Fits
  <2>4. \A i \in DOMAIN navdata : /\ navdata[i] \in [from : Nat, to : Nat]
                                  /\ navdata[i].from <= navdata[i].to
                                  /\ navdata[i].to <= offset
    BY DEF ParserInv, ParserTypeOK, ReadBehind
  <2> HIDE DEF new
  <2>5. ParserTypeOK'
    BY <2>1, <2>2, <2>3, <2>4, SizesOfHeaders DEF ParserInv, ParserTypeOK, Between, Ended
  <2>6. Between' /\ ReadBehind'
    BY <2>2, <2>3, <2>4, SizesOfHeaders DEF ParserInv, Between, ReadBehind
  <2>7. OptionsApart'
    <3> SUFFICES ASSUME NEW i \in DOMAIN navdata', NEW j \in DOMAIN navdata', i # j
                 PROVE  \/ navdata'[i].to <= navdata'[j].from
                        \/ navdata'[j].to <= navdata'[i].from
      BY DEF OptionsApart
    <3>1. CASE i # id /\ j # id
      BY <3>1, <2>2 DEF ParserInv, OptionsApart
    <3>2. CASE i = id
      BY <3>2, <2>2, <2>3, <2>4
    <3>3. CASE j = id
      BY <3>3, <2>2, <2>3, <2>4
    <3> QED
      BY <3>1, <3>2, <3>3
  <2>8. OnlyReceivedBytes' /\ AllChecked'
    BY <2>2 DEF OnlyReceivedBytes, AllChecked
  <2> QED
    BY <2>5, <2>6, <2>7, <2>8 DEF ParserInv
<1> QED
  BY <1>1, <1>2

LEMMA PassOverInv ==
  ASSUME ParserInv, NEW length \in Nat, status = "options", PassOver(length),
         UNCHANGED <<size, lenient>>
  PROVE  ParserInv'
<1>1. offset \in Nat /\ HeaderSize <= offset /\ offset' = offset + length
  BY DEF ParserInv, ParserTypeOK, Between, PassOver, AfterOption
<1>2. status' \in {"options", "endless"}
  BY DEF PassOver
<1>3. ParserTypeOK' /\ Between'
  BY <1>1, <1>2, SizesOfHeaders DEF ParserInv, ParserTypeOK, Between, PassOver, Ended
<1>4. ReadBehind' /\ OptionsApart'
  BY <1>1, <1>2 DEF ParserInv, ParserTypeOK, ReadBehind, OptionsApart, PassOver
<1>5. OnlyReceivedBytes' /\ AllChecked'
  BY <1>2 DEF OnlyReceivedBytes, AllChecked
<1> QED
  BY <1>3, <1>4, <1>5 DEF ParserInv

\* The checksum's own header was read before the end of the datagram, and all
\* options before it.
LEMMA ChecksumInv ==
  ASSUME ParserInv, NEW length \in Nat, status = "options", HeaderFits,
         Checksum(length), UNCHANGED <<size, lenient>>
  PROVE  ParserInv'
<1>1. CASE Throw
  BY <1>1, ThrowInv
<1>2. CASE ~Throw
  <2>1. /\ status' = "returned"
        /\ summed' = size - length
        /\ offset' = offset + length
        /\ UNCHANGED navdata
    BY <1>2 DEF Checksum, Summed, AfterOption
  <2>2. size \in Nat /\ offset \in Nat /\ HeaderSize <= offset
    BY SizesAssumption DEF ParserInv, ParserTypeOK, Between
  <2>3. \A i \in DOMAIN navdata : /\ navdata[i] \in [from : Nat, to : Nat]
                                  /\ navdata[i].to <= offset
    BY DEF ParserInv, ParserTypeOK, ReadBehind
  <2>4. offset <= size
    BY <2>2, SizesOfHeaders DEF HeaderFits
  <2>5. ParserTypeOK' /\ Between'
    BY <2>1, <2>2, SizesOfHeaders DEF ParserInv, ParserTypeOK, Between, Ended
  <2>6. ReadBehind' /\ OptionsApart'
    BY <2>1 DEF ParserInv, ReadBehind, OptionsApart
  <2>7. OnlyReceivedBytes' /\ AllChecked'
    BY <2>1, <2>2, <2>3, <2>4 DEF OnlyReceivedBytes, AllChecked
  <2> QED
    BY <2>5, <2>6, <2>7 DEF ParserInv
<1> QED
  BY <1>1, <1>2

LEMMA ParserStep == ParserInv /\ [ParserNext]_parser => ParserInv'
<1> SUFFICES ASSUME ParserInv, [ParserNext]_parser PROVE ParserInv'
  OBVIOUS
<1>1. CASE \E isHeader \in BOOLEAN : ReadHeader(isHeader)
  BY <1>1, HeaderInv
<1>2. CASE \E id \in Ids : \E length \in Lengths[id] : ReadOption(id, length)
  <2>1. PICK id \in Ids, length \in Nat : ReadOption(id, length)
    BY <1>2, LengthsAssumption
  <2>2. status = "options" /\ UNCHANGED <<size, lenient>>
    BY <2>1 DEF ReadOption
  <2>3. CASE Throw
    BY <2>2, <2>3, ThrowInv
  <2>4. CASE HeaderFits /\ Checksum(length)
    BY <2>2, <2>4, ChecksumInv
  <2>5. CASE ParseOption(id, length)
    BY <2>2, <2>5, ParseInv
  <2>6. CASE PassOver(length)
    BY <2>2, <2>6, PassOverInv
  <2> QED
    BY <2>1, <2>3, <2>4, <2>5, <2>6 DEF ReadOption, RunOut
<1>3. CASE UNCHANGED parser
  BY <1>3 DEF parser, ParserInv, ParserTypeOK, Between, ReadBehind, OptionsApart,
              OnlyReceivedBytes, AllChecked
<1> QED
  BY <1>1, <1>2, <1>3 DEF ParserNext

LEMMA ParserInvariant == ParserSpec => []ParserInv
  BY ParserStart, ParserStep, PTL DEF ParserSpec

-----------------------------------------------------------------------------
\* parseNavdata() stays within its types for datagrams of any size.
THEOREM ParserTypeCorrect == ParserSpec => []ParserTypeOK
<1>1. ParserInv => ParserTypeOK
  BY DEF ParserInv
<1> QED
  BY <1>1, ParserInvariant, PTL

\* Every option of a packet that parses was read from bytes that arrived.
THEOREM ReceivedOnly == ParserSpec => []OnlyReceivedBytes
<1>1. ParserInv => OnlyReceivedBytes
  BY DEF ParserInv
<1> QED
  BY <1>1, ParserInvariant, PTL

\* No two options are read from the same byte.
THEOREM Apart == ParserSpec => []OptionsApart
<1>1. ParserInv => OptionsApart
  BY DEF ParserInv
<1> QED
  BY <1>1, ParserInvariant, PTL

\* A checksum that arrived whole covers every option of the packet.
THEOREM Checked == ParserSpec => []AllChecked
<1>1. ParserInv => AllChecked
  BY DEF ParserInv
<1> QED
  BY <1>1, ParserInvariant, PTL

-----------------------------------------------------------------------------
\* The numbers of the packets in s ascend.
SeqAscends(s) ==
  \A k, l \in 1 .. Len(s) : k < l => s[k].seq < s[l].seq

\* Packets that are numbered apart come in one order only.
LEMMA BySeqUnique ==
  ASSUME NEW s \in Seq(Packet), SeqAscends(s), NEW P, P = {s[k] : k \in 1 .. Len(s)}
  PROVE  BySeq(P) = s
<1> DEFINE n == Len(s)
           f == [k \in 1 .. n |-> s[k].seq]
<1>1. n \in Nat /\ s = [k \in 1 .. n |-> s[k]]
  OBVIOUS
<1>2. \A k \in 1 .. n : s[k] \in Packet
  BY ElementOfSeq
<1>3. \A k, l \in 1 .. n : k < l => s[k].seq < s[l].seq
  BY DEF SeqAscends
<1>4. P = {s[k] : k \in 1 .. n}
  OBVIOUS
<1> HIDE DEF n
<1>5. \A k \in 1 .. n : s[k].seq \in Nat
  BY <1>2, BoundsAssumption DEF Packet
<1>6. f \in [1 .. n -> Nat] /\ \A k, l \in 1 .. n : k < l => f[k] < f[l]
  BY <1>3, <1>5
<1>7. \A k \in 1 .. n : f[k] = s[k].seq
  OBVIOUS
<1>8. Numbers(P) = {f[k] : k \in 1 .. n}
  <2>1. \A x : x \in Numbers(P) <=> \E k \in 1 .. n : x = s[k].seq
    BY <1>4, Zenon DEF Numbers
  <2>2. \A x : x \in Numbers(P) <=> \E k \in 1 .. n : x = f[k]
    BY <1>7, <2>1
  <2> QED
    BY <2>2, Zenon
<1> HIDE DEF f
<1>9. Cardinality(Numbers(P)) = n /\ Ascending(Numbers(P)) = f
  BY <1>1, <1>6, <1>8, AscendingUnique
<1>10. ASSUME NEW k \in 1 .. n PROVE (CHOOSE p \in P : p.seq = f[k]) = s[k]
  <2>1. s[k] \in P /\ s[k].seq = f[k]
    BY <1>4, <1>7
  <2>2. ASSUME NEW p \in P, p.seq = f[k] PROVE p = s[k]
    <3>1. PICK l \in 1 .. n : p = s[l]
      BY <1>4
    <3>2. s[l].seq = s[k].seq /\ s[l].seq \in Nat
      BY <1>5, <1>7, <2>2, <3>1
    <3>3. ~(s[k].seq < s[l].seq) /\ ~(s[l].seq < s[k].seq)
      BY <3>2
    <3>4. ~(k < l) /\ ~(l < k)
      BY <1>3, <3>3
    <3>5. k = l
      BY <3>4
    <3> QED
      BY <3>1, <3>5
  <2> QED
    BY <2>1, <2>2
<1>11. BySeq(P) = [k \in 1 .. n |-> s[k]]
  BY <1>9, <1>10 DEF BySeq
<1> QED
  BY <1>1, <1>11

\* No two packets of P bear the same number.
NumberedApart(P) == \A p, q \in P : p.seq = q.seq => p = q

\* They are ordered by it.
LEMMA BySeqProperties ==
  ASSUME NEW P \in SUBSET Packet, IsFiniteSet(P), NumberedApart(P)
  PROVE  /\ BySeq(P) \in Seq(Packet) /\ SeqAscends(BySeq(P))
         /\ Len(BySeq(P)) \in Nat /\ Len(BySeq(P)) = Cardinality(P)
         /\ P = {BySeq(P)[k] : k \in 1 .. Len(BySeq(P))}
<1> DEFINE N == Numbers(P)
           c == Cardinality(N)
           s == BySeq(P)
           number == [p \in P |-> p.seq]
<1>1. \A p \in P : p.seq \in Nat /\ p.seq \in N
  BY BoundsAssumption DEF Packet, Numbers
<1>2. N \in SUBSET Nat /\ \A n \in N : \E p \in P : p.seq = n
  BY <1>1 DEF Numbers
<1> HIDE DEF N
<1>3. IsFiniteSet(N) /\ Cardinality(N) = Cardinality(P)
  <2>1. number \in [P -> N]
    BY <1>1
  <2>2. \A p, q \in P : number[p] = number[q] => p = q
    BY DEF NumberedApart
  <2>3. \A n \in N : \E p \in P : number[p] = n
    BY <1>2
  <2>4. number \in Bijection(P, N)
    BY <2>1, <2>2, <2>3 DEF Bijection, Injection, Surjection, IsInjective
  <2> QED
    BY <2>4, FS_Bijection DEF ExistsBijection
<1>4. /\ c \in Nat
      /\ Ascending(N) \in [1 .. c -> N]
      /\ \A n \in N : Rank(N, n) \in 1 .. c /\ Ascending(N)[Rank(N, n)] = n
      /\ \A k, l \in 1 .. c : k < l => Ascending(N)[k] < Ascending(N)[l]
  BY <1>2, <1>3, RankProperties, AscendingProperties
<1>5. s = [i \in 1 .. c |-> CHOOSE p \in P : p.seq = Ascending(N)[i]]
  BY DEF BySeq, N
<1> HIDE DEF c, s
<1>6. ASSUME NEW k \in 1 .. c PROVE s[k] \in P /\ s[k].seq = Ascending(N)[k]
  <2>1. \E p \in P : p.seq = Ascending(N)[k]
    BY <1>2, <1>4
  <2> QED
    BY <1>5, <2>1
<1>7. s \in Seq(Packet) /\ Len(s) = c
  <2>1. \A k \in 1 .. c : s[k] \in Packet
    BY <1>6
  <2>2. s = [k \in 1 .. c |-> s[k]]
    <3> DEFINE at(i) == CHOOSE p \in P : p.seq = Ascending(N)[i]
    <3>1. s = [i \in 1 .. c |-> at(i)]
      BY <1>5
    <3> HIDE DEF at
    <3> QED
      BY <3>1
  <2> QED
    BY <1>4, <2>1, <2>2
<1>8. SeqAscends(s)
  BY <1>4, <1>6, <1>7 DEF SeqAscends
<1>9. ASSUME NEW p \in P PROVE \E k \in 1 .. c : s[k] = p
  <2>1. PICK k \in 1 .. c : Ascending(N)[k] = p.seq
    BY <1>1, <1>4
  <2> QED
    BY <1>6, <2>1 DEF NumberedApart
<1>10. P = {s[k] : k \in 1 .. c}
  <2>1. \A p : p \in P <=> \E k \in 1 .. c : p = s[k]
    BY <1>6, <1>9
  <2> QED
    BY <2>1, Zenon
<1> QED
  BY <1>3, <1>4, <1>7, <1>8, <1>10 DEF c, s

\* A packet with a greater number comes last.
LEMMA BySeqAppend ==
  ASSUME NEW P \in SUBSET Packet, IsFiniteSet(P), NumberedApart(P),
         NEW p \in Packet, \A q \in P : q.seq < p.seq
  PROVE  BySeq(P \cup {p}) = Append(BySeq(P), p)
<1> DEFINE s == BySeq(P)
           n == Len(s)
           t == Append(s, p)
<1>1. /\ s \in Seq(Packet) /\ n \in Nat /\ SeqAscends(s)
      /\ P = {s[k] : k \in 1 .. n}
  BY BySeqProperties
<1> HIDE DEF s
<1>2. /\ t \in Seq(Packet) /\ Len(t) = n + 1 /\ t[n + 1] = p
      /\ \A k \in 1 .. n : t[k] = s[k]
  BY <1>1
<1> HIDE DEF t
<1>3. \A k \in 1 .. n + 1 : k \in 1 .. n \/ k = n + 1
  BY <1>1
<1>4. SeqAscends(t)
  <2> SUFFICES ASSUME NEW k \in 1 .. n + 1, NEW l \in 1 .. n + 1, k < l
               PROVE  t[k].seq < t[l].seq
    BY <1>2 DEF SeqAscends
  <2>1. k \in 1 .. n
    BY <1>1
  <2>2. CASE l \in 1 .. n
    BY <1>1, <1>2, <2>1, <2>2 DEF SeqAscends
  <2>3. CASE l = n + 1
    BY <1>1, <1>2, <2>1, <2>3
  <2> QED
    BY <1>3, <2>2, <2>3
<1>5. P \cup {p} = {t[k] : k \in 1 .. Len(t)}
  <2>1. \A k \in 1 .. n : k \in 1 .. n + 1
    BY <1>1
  <2>2. n + 1 \in 1 .. n + 1
    BY <1>1
  <2>3. ASSUME NEW q \in P \cup {p} PROVE \E k \in 1 .. n + 1 : q = t[k]
    BY <1>1, <1>2, <2>1, <2>2
  <2>4. ASSUME NEW k \in 1 .. n + 1 PROVE t[k] \in P \cup {p}
    BY <1>1, <1>2, <1>3
  <2>5. \A q : q \in P \cup {p} <=> \E k \in 1 .. n + 1 : q = t[k]
    BY <2>3, <2>4
  <2>6. P \cup {p} = {t[k] : k \in 1 .. n + 1}
    BY <2>5, Zenon
  <2> QED
    BY <1>2, <2>6
<1>6. BySeq(P \cup {p}) = t
  BY <1>2, <1>4, <1>5, BySeqUnique
<1> QED
  BY <1>6 DEF s, t

\* The packets numbered above the i-th are those behind it.
LEMMA BySeqAbove ==
  ASSUME NEW P \in SUBSET Packet, IsFiniteSet(P), NumberedApart(P),
         NEW i \in 1 .. Len(BySeq(P)),
         NEW Q, Q = {q \in P : q.seq > BySeq(P)[i].seq}
  PROVE  BySeq(Q) = SubSeq(BySeq(P), i + 1, Len(BySeq(P)))
<1> DEFINE s == BySeq(P)
           n == Len(s)
           t == SubSeq(s, i + 1, n)
<1>1. /\ s \in Seq(Packet) /\ n \in Nat /\ SeqAscends(s)
      /\ P = {s[k] : k \in 1 .. n}
  BY BySeqProperties
<1>2. i \in 1 .. n /\ Q = {q \in P : q.seq > s[i].seq}
  OBVIOUS
<1> HIDE DEF s
<1>3. \A k \in 1 .. n : s[k] \in Packet /\ s[k].seq \in Nat
  <2>1. \A k \in 1 .. n : s[k] \in Packet
    BY <1>1, ElementOfSeq
  <2> QED
    BY <2>1, BoundsAssumption DEF Packet
<1>4. /\ t \in Seq(Packet) /\ Len(t) = n - i
      /\ \A k \in 1 .. n - i : k + i \in 1 .. n /\ t[k] = s[k + i]
  BY <1>1, <1>2
<1> HIDE DEF t
<1>5. SeqAscends(t)
  <2> SUFFICES ASSUME NEW k \in 1 .. n - i, NEW l \in 1 .. n - i, k < l
               PROVE  t[k].seq < t[l].seq
    BY <1>4 DEF SeqAscends
  <2>1. k + i < l + i
    BY <1>2
  <2>2. s[k + i].seq < s[l + i].seq
    BY <1>1, <1>4, <2>1 DEF SeqAscends
  <2> QED
    BY <1>4, <2>2
<1>6. \A k \in 1 .. n : s[k].seq > s[i].seq <=> i < k
  <2> SUFFICES ASSUME NEW k \in 1 .. n PROVE s[k].seq > s[i].seq <=> i < k
    OBVIOUS
  <2>1. s[k].seq \in Nat /\ s[i].seq \in Nat
    BY <1>2, <1>3
  <2>2. CASE i < k
    <3>1. s[i].seq < s[k].seq
      BY <1>1, <1>2, <2>2 DEF SeqAscends
    <3> QED
      BY <2>1, <2>2, <3>1
  <2>3. CASE k < i
    <3>1. s[k].seq < s[i].seq
      BY <1>1, <1>2, <2>3 DEF SeqAscends
    <3>2. ~(s[k].seq > s[i].seq) /\ ~(i < k)
      BY <1>2, <2>1, <2>3, <3>1
    <3> QED
      BY <3>2
  <2>4. CASE k = i
    <3>1. ~(s[k].seq > s[i].seq) /\ ~(i < k)
      BY <1>2, <2>1, <2>4
    <3> QED
      BY <3>1
  <2> QED
    BY <1>2, <2>2, <2>3, <2>4
<1>7. Q = {t[k] : k \in 1 .. Len(t)}
  <2>1. ASSUME NEW q \in Q PROVE \E k \in 1 .. n - i : q = t[k]
    <3>1. PICK k \in 1 .. n : q = s[k]
      BY <1>1, <1>2
    <3>2. i < k
      BY <1>2, <1>6, <3>1
    <3>3. k - i \in 1 .. n - i /\ (k - i) + i = k
      BY <1>1, <1>2, <3>2
    <3> QED
      BY <1>4, <3>1, <3>3
  <2>2. ASSUME NEW k \in 1 .. n - i PROVE t[k] \in Q
    <3>1. k + i \in 1 .. n /\ t[k] = s[k + i] /\ i < k + i
      BY <1>2, <1>4
    <3>2. s[k + i] \in P /\ s[k + i].seq > s[i].seq
      BY <1>1, <1>6, <3>1
    <3> QED
      BY <1>2, <3>1, <3>2
  <2>3. \A q : q \in Q <=> \E k \in 1 .. n - i : q = t[k]
    BY <2>1, <2>2
  <2>4. Q = {t[k] : k \in 1 .. n - i}
    BY <2>3, Zenon
  <2> QED
    BY <1>4, <2>4
<1>8. BySeq(Q) = t
  BY <1>4, <1>5, <1>7, BySeqUnique
<1> QED
  BY <1>8 DEF s, t

\* Without the i-th packet those behind it move up.
LEMMA BySeqRemove ==
  ASSUME NEW P \in SUBSET Packet, IsFiniteSet(P), NumberedApart(P),
         NEW i \in 1 .. Len(BySeq(P)),
         NEW Q, Q = P \ {BySeq(P)[i]}
  PROVE  BySeq(Q) = SubSeq(BySeq(P), 1, i - 1) \o SubSeq(BySeq(P), i + 1, Len(BySeq(P)))
<1> DEFINE s == BySeq(P)
           n == Len(s)
           t == SubSeq(s, 1, i - 1) \o SubSeq(s, i + 1, n)
           at(k) == IF k < i THEN k ELSE k + 1
<1>1. /\ s \in Seq(Packet) /\ n \in Nat /\ SeqAscends(s)
      /\ P = {s[k] : k \in 1 .. n}
  BY BySeqProperties
<1>2. i \in 1 .. n /\ Q = P \ {s[i]}
  OBVIOUS
<1> HIDE DEF s
<1>3. /\ t \in Seq(Packet) /\ Len(t) = n - 1
      /\ \A k \in 1 .. n - 1 : t[k] = s[at(k)]
  <2> DEFINE q == SubSeq(s, 1, i - 1)
             r == SubSeq(s, i + 1, n)
  <2>1. q \in Seq(Packet) /\ Len(q) = i - 1 /\ \A k \in 1 .. i - 1 : q[k] = s[k]
    BY <1>1, <1>2
  <2>2. r \in Seq(Packet) /\ Len(r) = n - i /\ \A k \in 1 .. n - i : r[k] = s[k + i]
    BY <1>1, <1>2
  <2> HIDE DEF q, r
  <2>3. /\ q \o r \in Seq(Packet) /\ Len(q \o r) = Len(q) + Len(r)
        /\ \A k \in 1 .. Len(q) + Len(r) :
             (q \o r)[k] = IF k <= Len(q) THEN q[k] ELSE r[k - Len(q)]
    BY <2>1, <2>2, ConcatProperties, Zenon
  <2>4. Len(q) + Len(r) = n - 1
    BY <1>1, <1>2, <2>1, <2>2
  <2>5. ASSUME NEW k \in 1 .. n - 1 PROVE (q \o r)[k] = s[at(k)]
    <3>1. CASE k < i
      <4>1. k \in 1 .. i - 1 /\ k <= Len(q)
        BY <1>2, <2>1, <3>1
      <4>2. (q \o r)[k] = q[k]
        BY <2>3, <2>4, <4>1
      <4> QED
        BY <2>1, <3>1, <4>1, <4>2
    <3>2. CASE ~(k < i)
      <4>1. /\ k - (i - 1) \in 1 .. n - i /\ ~(k <= i - 1)
            /\ (k - (i - 1)) + i = k + 1
        BY <1>1, <1>2, <3>2
      <4>2. (q \o r)[k] = r[k - (i - 1)]
        BY <2>1, <2>3, <2>4, <4>1
      <4>3. r[k - (i - 1)] = s[k + 1]
        BY <2>2, <4>1
      <4> QED
        BY <3>2, <4>2, <4>3
    <3> QED
      BY <3>1, <3>2
  <2> QED
    BY <2>3, <2>4, <2>5 DEF q, r
<1> HIDE DEF t
<1>4. /\ \A k \in 1 .. n - 1 : at(k) \in 1 .. n /\ at(k) # i
      /\ \A k, l \in 1 .. n - 1 : k < l => at(k) < at(l)
  BY <1>1, <1>2
<1>5. \A l \in 1 .. n : l # i => \E k \in 1 .. n - 1 : at(k) = l
  <2> SUFFICES ASSUME NEW l \in 1 .. n, l # i PROVE \E k \in 1 .. n - 1 : at(k) = l
    OBVIOUS
  <2>1. CASE l < i
    <3>1. l \in 1 .. n - 1 /\ at(l) = l
      BY <1>1, <1>2, <2>1
    <3> QED
      BY <3>1
  <2>2. CASE l > i
    <3>1. l - 1 \in 1 .. n - 1 /\ at(l - 1) = l
      BY <1>1, <1>2, <2>2
    <3> QED
      BY <3>1
  <2> QED
    BY <1>1, <1>2, <2>1, <2>2
<1> HIDE DEF at
<1>6. SeqAscends(t)
  <2> SUFFICES ASSUME NEW k \in 1 .. n - 1, NEW l \in 1 .. n - 1, k < l
               PROVE  t[k].seq < t[l].seq
    BY <1>3 DEF SeqAscends
  <2>1. s[at(k)].seq < s[at(l)].seq
    BY <1>1, <1>4 DEF SeqAscends
  <2> QED
    BY <1>3, <2>1
<1>7. \A k \in 1 .. n : k # i => s[k] # s[i]
  <2> SUFFICES ASSUME NEW k \in 1 .. n, k # i PROVE s[k] # s[i]
    OBVIOUS
  <2>1. s[k].seq < s[i].seq \/ s[i].seq < s[k].seq
    BY <1>1, <1>2 DEF SeqAscends
  <2>2. s[i].seq \in Nat
    <3>1. s[i] \in Packet
      BY <1>1, <1>2, ElementOfSeq
    <3> QED
      BY <3>1, BoundsAssumption DEF Packet
  <2>3. ~(s[i].seq < s[i].seq)
    BY <2>2
  <2> QED
    BY <2>1, <2>3
<1>8. Q = {t[k] : k \in 1 .. Len(t)}
  <2>1. ASSUME NEW q \in Q PROVE \E k \in 1 .. n - 1 : q = t[k]
    <3>1. PICK l \in 1 .. n : q = s[l]
      BY <1>1, <1>2
    <3>2. PICK k \in 1 .. n - 1 : at(k) = l
      BY <1>2, <1>5, <3>1
    <3> QED
      BY <1>3, <3>1, <3>2
  <2>2. ASSUME NEW k \in 1 .. n - 1 PROVE t[k] \in Q
    <3>1. at(k) \in 1 .. n /\ at(k) # i /\ t[k] = s[at(k)]
      BY <1>3, <1>4
    <3>2. s[at(k)] \in P /\ s[at(k)] # s[i]
      BY <1>1, <1>7, <3>1
    <3> QED
      BY <1>2, <3>1, <3>2
  <2>3. \A q : q \in Q <=> \E k \in 1 .. n - 1 : q = t[k]
    BY <2>1, <2>2
  <2>4. Q = {t[k] : k \in 1 .. n - 1}
    BY <2>3, Zenon
  <2> QED
    BY <1>3, <2>4
<1>9. BySeq(Q) = t
  BY <1>3, <1>6, <1>8, BySeqUnique
<1> QED
  BY <1>9 DEF s, t

-----------------------------------------------------------------------------
\* The drone has numbered the packets on their way apart, and they are few.
Stamped ==
  /\ IsFiniteSet(net) /\ Cardinality(net) <= MaxInAir
  /\ NumberedApart(net)
  /\ \A p \in net : p.seq <= droneSeq

StreamInv == TypeOK /\ Stamped

\* What is on its way is a sequence of packets within the bound.
LEMMA PendingProperties ==
  ASSUME StreamInv
  PROVE  /\ Pending \in SUBSET Packet /\ IsFiniteSet(Pending)
         /\ NumberedApart(Pending)
         /\ OnTheirWay \in Seq(Packet) /\ Len(OnTheirWay) \in 0 .. MaxInAir
         /\ Len(OnTheirWay) <= Cardinality(net) /\ Cardinality(net) \in Nat
         /\ \A p \in Pending : \E i \in 1 .. Len(OnTheirWay) : OnTheirWay[i] = p
<1>1. Pending \in SUBSET net /\ Pending \in SUBSET Packet
  BY DEF StreamInv, TypeOK, Pending
<1>2. IsFiniteSet(Pending) /\ Cardinality(Pending) <= Cardinality(net)
  BY <1>1, FS_Subset DEF StreamInv, Stamped
<1>3. NumberedApart(Pending)
  BY <1>1 DEF StreamInv, Stamped, NumberedApart
<1>4. /\ OnTheirWay \in Seq(Packet) /\ Len(OnTheirWay) \in Nat
      /\ Len(OnTheirWay) = Cardinality(Pending)
      /\ Pending = {OnTheirWay[k] : k \in 1 .. Len(OnTheirWay)}
  BY <1>1, <1>2, <1>3, BySeqProperties DEF OnTheirWay
<1>5. Cardinality(net) \in Nat /\ Cardinality(net) <= MaxInAir
  BY FS_CardinalityType DEF StreamInv, Stamped
<1>6. Len(OnTheirWay) \in 0 .. MaxInAir /\ Len(OnTheirWay) <= Cardinality(net)
  BY <1>2, <1>4, <1>5, BoundsAssumption
<1>7. \A p \in Pending : \E i \in 1 .. Len(OnTheirWay) : OnTheirWay[i] = p
  BY <1>4
<1> QED
  BY <1>1, <1>2, <1>3, <1>4, <1>5, <1>6, <1>7

\* The network holds nothing at first.
LEMMA StreamStart == Init => StreamInv
<1> SUFFICES ASSUME Init PROVE StreamInv
  OBVIOUS
<1>1. TypeOK
  <2>1. 0 \in 0 .. MaxSeq /\ 0 \in 0 .. MaxReboots
    BY BoundsAssumption
  <2> QED
    BY <2>1 DEF Init, TypeOK
<1>2. IsFiniteSet(net) /\ Cardinality(net) = 0
  BY FS_EmptySet DEF Init
<1>3. Stamped
  BY <1>2, BoundsAssumption DEF Init, Stamped, NumberedApart
<1> QED
  BY <1>1, <1>3 DEF StreamInv

\* Packets that leave the network leave the others numbered apart.
LEMMA FewerStamped ==
  ASSUME Stamped, net' \in SUBSET net, UNCHANGED droneSeq
  PROVE  Stamped'
<1>1. IsFiniteSet(net') /\ Cardinality(net') <= Cardinality(net)
  BY FS_Subset DEF Stamped
<1>2. Cardinality(net') \in Nat /\ Cardinality(net) \in Nat
  BY <1>1, FS_CardinalityType DEF Stamped
<1>3. Cardinality(net') <= MaxInAir
  BY <1>1, <1>2, BoundsAssumption DEF Stamped
<1> QED
  BY <1>1, <1>3 DEF Stamped, NumberedApart

\* The drone's next packet bears a number of its own.
LEMMA SendsStamped ==
  ASSUME StreamInv, NEW ok \in BOOLEAN, Cardinality(net) < MaxInAir,
         droneSeq < MaxSeq, droneSeq' = droneSeq + 1, boots' = boots,
         net' = net \cup {[seq |-> droneSeq', boot |-> boots, valid |-> ok]}
  PROVE  \E p \in Packet : /\ p.valid = ok /\ p.seq = droneSeq'
                           /\ net' = net \cup {p}
                           /\ \A q \in net : q.seq < p.seq
                           /\ Stamped'
<1>1. /\ droneSeq \in Nat /\ droneSeq + 1 \in 1 .. MaxSeq
      /\ boots \in 0 .. MaxReboots /\ net \in SUBSET Packet
  BY BoundsAssumption DEF StreamInv, TypeOK
<1>2. PICK p \in Packet : p = [seq |-> droneSeq', boot |-> boots, valid |-> ok]
  BY <1>1 DEF Packet
<1>3. p.valid = ok /\ p.seq = droneSeq' /\ net' = net \cup {p}
  BY <1>2
<1>4. \A q \in net : q.seq \in Nat /\ q.seq < p.seq
  <2>1. \A q \in net : q.seq \in Nat
    BY <1>1, BoundsAssumption DEF Packet
  <2> QED
    BY <1>1, <1>3, <2>1 DEF StreamInv, Stamped
<1>5. IsFiniteSet(net') /\ Cardinality(net') <= MaxInAir
  <2>1. IsFiniteSet(net) /\ Cardinality(net) \in Nat
    BY FS_CardinalityType DEF StreamInv, Stamped
  <2>2. /\ IsFiniteSet(net \cup {p})
        /\ Cardinality(net \cup {p})
             = IF p \in net THEN Cardinality(net) ELSE Cardinality(net) + 1
    BY <2>1, FS_AddElement
  <2>3. /\ Cardinality(net \cup {p}) \in Nat
        /\ Cardinality(net \cup {p}) <= Cardinality(net) + 1
    BY <2>1, <2>2
  <2>4. Cardinality(net \cup {p}) <= MaxInAir
    BY <2>1, <2>3, BoundsAssumption
  <2> QED
    BY <1>3, <2>2, <2>4
<1>6. NumberedApart(net')
  <2> SUFFICES ASSUME NEW q \in net \cup {p}, NEW r \in net \cup {p}, q.seq = r.seq
               PROVE  q = r
    BY <1>3 DEF NumberedApart
  <2>1. \A m \in net : m.seq # p.seq
    BY <1>1, <1>3, <1>4
  <2> QED
    BY <2>1 DEF StreamInv, Stamped, NumberedApart
<1>7. \A q \in net' : q.seq <= droneSeq'
  BY <1>1, <1>3, <1>4
<1> QED
  BY <1>3, <1>4, <1>5, <1>6, <1>7 DEF Stamped

LEMMA StreamStep == StreamInv /\ [Next]_vars => StreamInv'
<1> SUFFICES ASSUME StreamInv, [Next]_vars PROVE StreamInv'
  OBVIOUS
<1> USE DEF stream, drone
<1>0. TypeOK /\ Stamped
  BY DEF StreamInv
<1>1. CASE Resume \/ RequestAgain \/ LoseRequest \/ DroneGetsRequest
  <2>1. UNCHANGED <<net, droneSeq>>
    BY <1>1 DEF Resume, RequestAgain, LoseRequest, DroneGetsRequest
  <2>2. TypeOK'
    BY <1>0, <1>1 DEF TypeOK, Resume, RequestAgain, RequestNavdata, LoseRequest,
                      DroneGetsRequest
  <2> QED
    BY <1>0, <2>1, <2>2, FewerStamped DEF StreamInv
<1>2. ASSUME NEW p \in net, Deliver(p) PROVE StreamInv'
  <2>1. net' \in SUBSET net /\ UNCHANGED <<request, droneSeq, drone>>
    BY <1>2 DEF Deliver
  <2>2. p \in Packet /\ p.seq \in 0 .. MaxSeq /\ p.valid \in BOOLEAN
    BY <1>0, BoundsAssumption DEF TypeOK, Packet
  <2>3. sequenceNumber' \in 0 .. MaxSeq /\ emitted' \in Packet \cup {NoPacket}
    BY <1>0, <1>2, <2>2 DEF TypeOK, Deliver, HandleMessage, Accept
  <2>4. timer' \in BOOLEAN /\ initialized' \in BOOLEAN
    BY <1>0, <1>2 DEF TypeOK, Deliver, HandleMessage
  <2>5. TypeOK'
    BY <1>0, <2>1, <2>3, <2>4 DEF TypeOK
  <2> QED
    BY <1>0, <2>1, <2>5, FewerStamped DEF StreamInv
<1>3. ASSUME NEW p \in net, LosePacket(p) PROVE StreamInv'
  <2>1. net' \in SUBSET net /\ UNCHANGED droneSeq
    BY <1>3 DEF LosePacket
  <2>2. TypeOK'
    BY <1>0, <1>3 DEF TypeOK, LosePacket
  <2> QED
    BY <1>0, <2>1, <2>2, FewerStamped DEF StreamInv
<1>4. CASE DroneSends
  <2>1. PICK ok \in BOOLEAN :
          net' = net \cup {[seq |-> droneSeq', boot |-> boots, valid |-> ok]}
    BY <1>4 DEF DroneSends
  <2>2. /\ Cardinality(net) < MaxInAir /\ droneSeq < MaxSeq
        /\ droneSeq' = droneSeq + 1
        /\ UNCHANGED <<initialized, sequenceNumber, timer, emitted, request,
                       streaming, boots>>
    BY <1>4 DEF DroneSends
  <2>3. PICK p \in Packet : net' = net \cup {p} /\ Stamped'
    BY <2>1, <2>2, SendsStamped
  <2>4. droneSeq' \in 0 .. MaxSeq
    BY <1>0, <2>2, BoundsAssumption DEF TypeOK
  <2>5. TypeOK'
    BY <1>0, <2>2, <2>3, <2>4 DEF TypeOK
  <2> QED
    BY <2>3, <2>5 DEF StreamInv
<1>5. CASE DroneReboots
  <2>1. net' = {} /\ droneSeq' = 0 /\ boots' = boots + 1 /\ boots < MaxReboots
    BY <1>5 DEF DroneReboots
  <2>2. boots' \in 0 .. MaxReboots
    BY <1>0, <2>1, BoundsAssumption DEF TypeOK
  <2>3. TypeOK'
    <3>1. droneSeq' \in 0 .. MaxSeq
      BY <2>1, BoundsAssumption
    <3> QED
      BY <1>0, <1>5, <2>1, <2>2, <3>1 DEF TypeOK, DroneReboots
  <2>4. Stamped'
    <3>1. IsFiniteSet(net') /\ Cardinality(net') = 0
      BY <2>1, FS_EmptySet
    <3> QED
      BY <2>1, <3>1, BoundsAssumption DEF Stamped, NumberedApart
  <2> QED
    BY <2>3, <2>4 DEF StreamInv
<1>6. CASE UNCHANGED vars
  BY <1>0, <1>6 DEF vars, StreamInv, TypeOK, Stamped
<1> QED
  BY <1>1, <1>2, <1>3, <1>4, <1>5, <1>6 DEF Next

LEMMA StreamInvariant == Spec => []StreamInv
BY StreamStart, StreamStep, PTL DEF Spec

\* The stream, the network and the drone keep their types, for any bounds.
THEOREM StreamTypeCorrect == Spec => []TypeOK
<1>1. StreamInv => TypeOK
  BY DEF StreamInv
<1> QED
  BY <1>1, StreamInvariant, PTL

-----------------------------------------------------------------------------
\* Steps of the stream as steps of the channel.
LEMMA DeliverImplements ==
  ASSUME StreamInv, NEW p \in net, Deliver(p)
  PROVE  Channel!Next \/ UNCHANGED <<OnTheirWay, emitted>>
<1>0. /\ p \in Packet /\ p.seq \in Nat /\ p.valid \in BOOLEAN
      /\ sequenceNumber \in Nat /\ net \in SUBSET Packet
  BY BoundsAssumption DEF StreamInv, TypeOK, Packet
<1>1. net' \in SUBSET net /\ \A q \in net : q # p => q \in net'
  BY DEF Deliver
<1>2. CASE p \in Pending
  <2>1. p.valid /\ p.seq > sequenceNumber
    BY <1>2 DEF Pending, InOrder
  <2>2. sequenceNumber' = p.seq /\ emitted' = p
    BY <2>1 DEF Deliver, HandleMessage, InOrder, Accept
  <2>3. PICK i \in 1 .. Len(OnTheirWay) : OnTheirWay[i] = p
    BY <1>2, PendingProperties
  <2>4. Pending' = {q \in Pending : q.seq > p.seq}
    <3>1. ASSUME NEW q \in net
          PROVE  q \in net' /\ q.seq > p.seq
                   <=> q.seq > sequenceNumber /\ q.seq > p.seq
      <4>1. q.seq \in Nat
        BY <1>0, BoundsAssumption DEF Packet
      <4>2. q.seq > p.seq => q # p /\ q.seq > sequenceNumber
        BY <1>0, <2>1, <4>1
      <4> QED
        BY <1>1, <4>2
    <3>2. Pending' = {q \in net' : q.valid /\ q.seq > p.seq}
      BY <2>2 DEF Pending, InOrder
    <3>3. Pending = {q \in net : q.valid /\ q.seq > sequenceNumber}
      BY DEF Pending, InOrder
    <3> QED
      BY <1>1, <3>1, <3>2, <3>3
  <2>5. OnTheirWay' = SubSeq(OnTheirWay, i + 1, Len(OnTheirWay))
    <3> DEFINE P == Pending
               Q == Pending'
    <3>1. P \in SUBSET Packet /\ IsFiniteSet(P) /\ NumberedApart(P)
      BY PendingProperties
    <3>2. i \in 1 .. Len(BySeq(P)) /\ Q = {q \in P : q.seq > BySeq(P)[i].seq}
      BY <2>3, <2>4 DEF OnTheirWay
    <3> HIDE DEF P, Q
    <3>3. BySeq(Q) = SubSeq(BySeq(P), i + 1, Len(BySeq(P)))
      BY <3>1, <3>2, BySeqAbove
    <3> QED
      BY <3>3 DEF OnTheirWay, P, Q
  <2>6. i \in 1 .. MaxInAir
    BY PendingProperties, BoundsAssumption
  <2>7. Channel!Emit(i)
    BY <2>2, <2>3, <2>5 DEF Channel!Emit
  <2> QED
    BY <2>6, <2>7 DEF Channel!Next
<1>3. CASE p \notin Pending
  <2>1. ~(p.valid /\ p.seq > sequenceNumber)
    BY <1>3 DEF Pending, InOrder
  <2>2. sequenceNumber' = sequenceNumber /\ emitted' = emitted
    BY <2>1 DEF Deliver, HandleMessage, InOrder
  <2>3. Pending' = Pending
    BY <1>1, <2>1, <2>2 DEF Pending, InOrder
  <2> QED
    BY <2>2, <2>3 DEF OnTheirWay
<1> QED
  BY <1>2, <1>3

LEMMA LosePacketImplements ==
  ASSUME StreamInv, NEW p \in net, LosePacket(p)
  PROVE  Channel!Next \/ UNCHANGED <<OnTheirWay, emitted>>
<1>1. net' = net \ {p} /\ sequenceNumber' = sequenceNumber /\ emitted' = emitted
  BY DEF LosePacket, stream
<1>2. Pending' = Pending \ {p}
  BY <1>1 DEF Pending, InOrder
<1>3. CASE p \in Pending
  <2>1. PICK i \in 1 .. Len(OnTheirWay) : OnTheirWay[i] = p
    BY <1>3, PendingProperties
  <2>2. OnTheirWay' = SubSeq(OnTheirWay, 1, i - 1)
                        \o SubSeq(OnTheirWay, i + 1, Len(OnTheirWay))
    <3> DEFINE P == Pending
               Q == Pending'
    <3>1. P \in SUBSET Packet /\ IsFiniteSet(P) /\ NumberedApart(P)
      BY PendingProperties
    <3>2. i \in 1 .. Len(BySeq(P)) /\ Q = P \ {BySeq(P)[i]}
      BY <1>2, <2>1 DEF OnTheirWay
    <3> HIDE DEF P, Q
    <3>3. BySeq(Q) = SubSeq(BySeq(P), 1, i - 1)
                       \o SubSeq(BySeq(P), i + 1, Len(BySeq(P)))
      BY <3>1, <3>2, BySeqRemove
    <3> QED
      BY <3>3 DEF OnTheirWay, P, Q
  <2>3. i \in 1 .. MaxInAir
    BY PendingProperties, BoundsAssumption
  <2>4. Channel!Lose(i)
    BY <1>1, <2>1, <2>2 DEF Channel!Lose
  <2> QED
    BY <2>3, <2>4 DEF Channel!Next
<1>4. CASE p \notin Pending
  <2>1. Pending' = Pending
    BY <1>2, <1>4
  <2> QED
    BY <1>1, <2>1 DEF OnTheirWay
<1> QED
  BY <1>3, <1>4

LEMMA SendImplements ==
  ASSUME StreamInv, DroneSends
  PROVE  Channel!Next \/ UNCHANGED <<OnTheirWay, emitted>>
<1>1. PICK ok \in BOOLEAN :
        net' = net \cup {[seq |-> droneSeq', boot |-> boots, valid |-> ok]}
  BY DEF DroneSends
<1>2. /\ Cardinality(net) < MaxInAir /\ droneSeq < MaxSeq
      /\ droneSeq' = droneSeq + 1 /\ boots' = boots
      /\ sequenceNumber' = sequenceNumber /\ emitted' = emitted
  BY DEF DroneSends, stream
<1>3. PICK p \in Packet : /\ p.valid = ok /\ net' = net \cup {p}
                          /\ \A q \in net : q.seq < p.seq
  BY <1>1, <1>2, SendsStamped
<1>4. CASE p.valid /\ p.seq > sequenceNumber
  <2>1. Pending' = Pending \cup {p}
    BY <1>2, <1>3, <1>4 DEF Pending, InOrder
  <2>2. OnTheirWay' = Append(OnTheirWay, p)
    <3> DEFINE P == Pending
    <3>1. P \in SUBSET Packet /\ IsFiniteSet(P) /\ NumberedApart(P)
      BY PendingProperties
    <3>2. \A q \in P : q.seq < p.seq
      BY <1>3 DEF Pending
    <3> HIDE DEF P
    <3>3. BySeq(P \cup {p}) = Append(BySeq(P), p)
      BY <3>1, <3>2, BySeqAppend
    <3> QED
      BY <2>1, <3>3 DEF OnTheirWay, P
  <2>3. Len(OnTheirWay) < MaxInAir
    BY <1>2, PendingProperties, BoundsAssumption
  <2>4. Channel!Send(p)
    BY <1>2, <2>2, <2>3 DEF Channel!Send
  <2> QED
    BY <2>4 DEF Channel!Next
<1>5. CASE ~(p.valid /\ p.seq > sequenceNumber)
  <2>1. Pending' = Pending
    BY <1>2, <1>3, <1>5 DEF Pending, InOrder
  <2> QED
    BY <1>2, <2>1 DEF OnTheirWay
<1> QED
  BY <1>4, <1>5

\* A restart of the drone loses all that is on its way.
LEMMA RebootImplements ==
  ASSUME StreamInv, DroneReboots
  PROVE  Channel!Next \/ UNCHANGED <<OnTheirWay, emitted>>
<1> DEFINE c == Len(OnTheirWay)
           s == OnTheirWay
<1>1. Pending' = {} /\ emitted' = emitted
  BY DEF DroneReboots, Pending, stream
<1>2. s \in Seq(Packet) /\ c = Len(s) /\ c \in 0 .. MaxInAir
  BY PendingProperties
<1>3. CASE c = 0
  <2>1. Pending = {}
    BY <1>3, PendingProperties
  <2> QED
    BY <1>1, <2>1 DEF OnTheirWay
<1>4. CASE c # 0
  <2>1. OnTheirWay' = <<>>
    <3>1. BySeq({}) = <<>>
      <4>1. <<>> \in Seq(Packet) /\ Len(<<>>) = 0 /\ SeqAscends(<<>>)
        BY DEF SeqAscends
      <4>2. {} = {<<>>[k] : k \in 1 .. Len(<<>>)}
        BY <4>1
      <4> QED
        BY <4>1, <4>2, BySeqUnique
    <3> QED
      BY <1>1, <3>1 DEF OnTheirWay
  <2>2. c \in 1 .. MaxInAir /\ c \in 1 .. Len(s)
    BY <1>2, <1>4, BoundsAssumption
  <2> HIDE DEF c, s
  <2>3. SubSeq(s, c + 1, Len(s)) = <<>>
    BY <1>2
  <2>4. Channel!LoseFirst(c)
    BY <1>1, <2>1, <2>2, <2>3 DEF Channel!LoseFirst, s
  <2> QED
    BY <2>2, <2>4 DEF Channel!Next
<1> QED
  BY <1>3, <1>4

LEMMA StreamStepImplements ==
  StreamInv /\ [Next]_vars => [Channel!Next]_(Channel!vars)
<1> SUFFICES ASSUME StreamInv, [Next]_vars
             PROVE  Channel!Next \/ UNCHANGED <<OnTheirWay, emitted>>
  BY DEF Channel!vars
<1>1. CASE \/ Resume \/ RequestAgain \/ LoseRequest \/ DroneGetsRequest
           \/ UNCHANGED vars
  BY <1>1 DEF Resume, RequestAgain, LoseRequest, DroneGetsRequest, vars, stream,
              OnTheirWay, Pending, InOrder
<1> QED
  BY <1>1, DeliverImplements, LosePacketImplements, SendImplements,
     RebootImplements DEF Next

\* Listeners see navdata in the order the drone sent it, each packet at most
\* once: the stream is a channel that loses packets but never goes back.
THEOREM StreamRefinement == Spec => ImplementsLossyChannel
<1>1. ASSUME Init PROVE Channel!Init
  <2>1. Pending = {} /\ emitted = NoPacket
    BY <1>1 DEF Init, Pending
  <2>2. StreamInv
    BY <1>1, StreamStart
  <2>3. OnTheirWay = <<>>
    <3> DEFINE s == OnTheirWay
    <3>1. s \in Seq(Packet) /\ Len(s) = 0
      <4>1. net = {} /\ Cardinality({}) = 0
        BY <1>1, FS_EmptySet DEF Init
      <4> QED
        BY <2>2, <4>1, PendingProperties
    <3> HIDE DEF s
    <3>2. s = <<>>
      BY <3>1
    <3> QED
      BY <3>2 DEF s
  <2> QED
    BY <2>1, <2>3 DEF Channel!Init
<1> QED
  BY <1>1, StreamStepImplements, StreamInvariant, PTL
     DEF Spec, ImplementsLossyChannel, Channel!Spec
=============================================================================
