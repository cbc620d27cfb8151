------------------------ MODULE ParkingScriptProofs ------------------------
(***************************************************************************)
(* For any messages and any number of them, however TCP cuts the bytes:    *)
(* the script is type correct, steers along diagonals or not at all, and   *)
(* implements LossyChannel: it obeys each line at most once and none after *)
(* a later one.                                                            *)
(*                                                                         *)
(* A message is on its way in the abstract channel while its head is on    *)
(* the wire. What a 'data' event reads takes the first heads off the wire  *)
(* (HeadsAfter), none of them, or some that are lost together, unless the  *)
(* chunk is a message: then its head is the only one (OnlyHead).           *)
(***************************************************************************)
EXTENDS ParkingScript, SequenceLemmas

\* No keys, or one direction on each axis.
Diagonal(keys) ==
  keys = {} \/ \E a \in {"front", "back"}, b \in {"left", "right"} : keys = {a, b}

\* Where the heads are, and where the k-th of them is.
HeadPlaces == {i \in DOMAIN wire : wire[i].part = "head"}
Place(k) == Ascending(HeadPlaces)[k]

IInv == TypeOK /\ Diagonal(pcmd) /\ Len(Heads) <= written

-----------------------------------------------------------------------------
\* A line is three tokens, of which the first is the head.
LEMMA LineProperties ==
  ASSUME NEW m \in Sent
  PROVE  /\ Line(m) \in Seq(Token) /\ Len(Line(m)) = 3
         /\ Line(m)[1] = [msg |-> m, part |-> "head"]
         /\ Line(m)[2] = [msg |-> m, part |-> "tail"]
         /\ Line(m)[3] = [msg |-> m, part |-> "eol"]
<1>1. /\ [msg |-> m, part |-> "head"] \in Token
      /\ [msg |-> m, part |-> "tail"] \in Token
      /\ [msg |-> m, part |-> "eol"] \in Token
  BY DEF Token
<1> QED
  BY <1>1 DEF Line

\* The heads on the wire are tokens, each message's once.
LEMMA HeadsType ==
  ASSUME wire \in Seq(Token)
  PROVE  Heads \in Seq(Token) /\ Len(Heads) \in Nat
<1> DEFINE P == {i \in DOMAIN wire : wire[i].part = "head"}
<1>1. P \in SUBSET (DOMAIN wire)
  OBVIOUS
<1> HIDE DEF P
<1>2. Kept(wire, P) \in Seq(Token) /\ Len(Kept(wire, P)) \in Nat
  BY <1>1, KeptProperties
<1> QED
  BY <1>2 DEF Heads, P

\* A line that is written puts its head behind the others.
LEMMA HeadsWritten ==
  ASSUME wire \in Seq(Token), NEW m \in Sent, wire' = wire \o Line(m)
  PROVE  /\ wire' \in Seq(Token)
         /\ Heads' = Append(Heads, [msg |-> m, part |-> "head"])
<1> DEFINE P == {i \in DOMAIN wire : wire[i].part = "head"}
           l == Line(m)
           w == wire \o l
<1>1. /\ l \in Seq(Token) /\ Len(l) = 3 /\ l[1] = [msg |-> m, part |-> "head"]
      /\ l[1].part = "head" /\ l[2].part # "head" /\ l[3].part # "head"
  <2>1. /\ l \in Seq(Token) /\ Len(l) = 3 /\ l[1] = [msg |-> m, part |-> "head"]
        /\ l[2] = [msg |-> m, part |-> "tail"] /\ l[3] = [msg |-> m, part |-> "eol"]
    BY LineProperties
  <2> HIDE DEF l
  <2> QED
    BY <2>1
<1> HIDE DEF l
<1>2. /\ w \in Seq(Token) /\ Len(w) = Len(wire) + 3 /\ Len(wire) \in Nat
      /\ \A i \in 1 .. Len(w) :
           w[i] = IF i <= Len(wire) THEN wire[i] ELSE l[i - Len(wire)]
  <2>1. l \in Seq(Token) /\ Len(l) \in Nat /\ Len(wire) \in Nat
    BY <1>1
  <2>2. /\ w \in Seq(Token) /\ Len(w) = Len(wire) + Len(l)
        /\ \A i \in 1 .. Len(wire) + Len(l) :
             w[i] = IF i <= Len(wire) THEN wire[i] ELSE l[i - Len(wire)]
    BY <2>1, ConcatProperties, Zenon
  <2> HIDE DEF w
  <2> QED
    BY <1>1, <2>1, <2>2
<1>3. DOMAIN wire = 1 .. Len(wire) /\ DOMAIN w = 1 .. Len(w)
  BY <1>2
<1> HIDE DEF w
<1>4. {i \in DOMAIN w : w[i].part = "head"} = P \cup {Len(wire) + 1}
  <2>1. ASSUME NEW i \in 1 .. Len(wire) PROVE i \in DOMAIN w /\ w[i] = wire[i]
    BY <1>2, <1>3
  <2>2. /\ Len(wire) + 1 \in DOMAIN w /\ w[Len(wire) + 1] = l[1]
        /\ w[Len(wire) + 2] = l[2] /\ w[Len(wire) + 3] = l[3]
    <3>1. ASSUME NEW k \in 1 .. 3
          PROVE  Len(wire) + k \in DOMAIN w /\ w[Len(wire) + k] = l[k]
      <4>1. /\ Len(wire) + k \in 1 .. Len(w) /\ ~(Len(wire) + k <= Len(wire))
            /\ (Len(wire) + k) - Len(wire) = k
        BY <1>2
      <4> QED
        BY <1>2, <1>3, <4>1
    <3> QED
      BY <3>1
  <2>3. \A i \in DOMAIN w : \/ i \in 1 .. Len(wire)
                            \/ i = Len(wire) + 1
                            \/ i = Len(wire) + 2
                            \/ i = Len(wire) + 3
    BY <1>2, <1>3
  <2> QED
    BY <1>1, <1>3, <2>1, <2>2, <2>3, ZenonT(30)
<1>5. P \in SUBSET (DOMAIN wire) /\ 1 \in DOMAIN l
  BY <1>1
<1> HIDE DEF P
<1> DEFINE Q == P \cup {Len(wire) + 1}
<1>6. Kept(wire \o l, Q) = Append(Kept(wire, P), l[1])
  <2>1. l \in Seq(Token) /\ Q = P \cup {Len(wire) + 1} /\ wire \in Seq(Token)
    BY <1>1
  <2> HIDE DEF Q
  <2>2. ASSUME NEW q \in Seq(Token), NEW R \in SUBSET (DOMAIN wire), 1 \in DOMAIN q
        PROVE  Kept(wire \o q, R \cup {Len(wire) + 1}) = Append(Kept(wire, R), q[1])
    BY <2>1, <2>2, KeptAppend, SMTT(30)
  <2> QED
    BY <1>5, <2>1, <2>2
<1>7. wire' = w
  BY DEF w, l
<1> QED
  BY <1>1, <1>2, <1>4, <1>6, <1>7 DEF Heads, P, w

-----------------------------------------------------------------------------
\* A 'data' event with the first n tokens takes the first h heads off the
\* wire: those among the n tokens.
LEMMA HeadsAfter ==
  ASSUME wire \in Seq(Token), NEW n \in DOMAIN wire, wire' = Rest(n)
  PROVE  /\ wire' \in Seq(Token)
         /\ \E h \in 0 .. Len(Heads) :
              /\ Heads' = SubSeq(Heads, h + 1, Len(Heads))
              /\ \A k \in 1 .. Len(Heads) : Place(k) <= n <=> k <= h
<1> DEFINE P == HeadPlaces
           Q == {i \in 1 .. Len(wire) - n : i + n \in P}
           c == Cardinality(P)
<1>1. n \in 1 .. Len(wire) /\ Len(wire) \in Nat /\ n \in 0 .. Len(wire)
  OBVIOUS
<1>2. /\ wire' = SubSeq(wire, n + 1, Len(wire))
      /\ wire' \in Seq(Token)
      /\ DOMAIN wire' = 1 .. Len(wire) - n
      /\ \A i \in 1 .. Len(wire) - n : wire'[i] = wire[i + n]
  BY <1>1 DEF Rest
<1>3. P \in SUBSET (DOMAIN wire) /\ Heads = Kept(wire, P)
  BY DEF HeadPlaces, Heads
<1>4. {i \in DOMAIN wire' : wire'[i].part = "head"} = Q
  <2>1. \A i \in 1 .. Len(wire) - n : i + n \in DOMAIN wire
    BY <1>1
  <2> QED
    BY <1>2, <2>1 DEF HeadPlaces
<1> HIDE DEF P
<1>5. Len(Heads) = c
  BY <1>3, KeptProperties
<1>6. PICK h \in 0 .. c :
        /\ \A k \in 1 .. c : Ascending(P)[k] <= n <=> k <= h
        /\ Kept(SubSeq(wire, n + 1, Len(wire)), Q) = SubSeq(Kept(wire, P), h + 1, c)
  BY <1>1, <1>3, KeptSuffix
<1>7. Heads' = Kept(wire', Q)
  BY <1>4 DEF Heads
<1>8. Heads' = SubSeq(Heads, h + 1, c)
  BY <1>2, <1>3, <1>6, <1>7
<1>9. \A k \in 1 .. c : Place(k) <= n <=> k <= h
  BY <1>6 DEF Place, P
<1> QED
  BY <1>2, <1>5, <1>8, <1>9

\* A chunk that is a message holds one head, that message's.
LEMMA OnlyHead ==
  ASSUME wire \in Seq(Token), NEW n \in DOMAIN wire, NEW m \in Sent,
         Is(SubSeq(wire, 1, n), m)
  PROVE  \E a \in 1 .. n : /\ wire[a] = [msg |-> m, part |-> "head"]
                           /\ \A i \in 1 .. n : wire[i].part = "head" => i = a
<1> DEFINE chunk == SubSeq(wire, 1, n)
           kept == {i \in DOMAIN chunk : ~IsEol(chunk[i])}
           message == SubSeq(Line(m), 1, 2)
<1>1. n \in 1 .. Len(wire) /\ Len(wire) \in Nat
  OBVIOUS
<1>2. /\ chunk \in Seq(Token) /\ Len(chunk) = n /\ DOMAIN chunk = 1 .. n
      /\ \A i \in 1 .. n : chunk[i] = wire[i]
  BY <1>1
<1>3. /\ message \in Seq(Token) /\ Len(message) = 2
      /\ message[1] = [msg |-> m, part |-> "head"]
      /\ message[2] = [msg |-> m, part |-> "tail"]
  <2> DEFINE l == Line(m)
  <2>1. /\ l \in Seq(Token) /\ Len(l) = 3
        /\ l[1] = [msg |-> m, part |-> "head"] /\ l[2] = [msg |-> m, part |-> "tail"]
    BY LineProperties
  <2> HIDE DEF l
  <2>2. /\ SubSeq(l, 1, 2) \in Seq(Token) /\ Len(SubSeq(l, 1, 2)) = 2
        /\ SubSeq(l, 1, 2)[1] = l[1] /\ SubSeq(l, 1, 2)[2] = l[2]
    <3>1. \A i \in 1 .. 3 : l[i] \in Token
      BY <2>1, ElementOfSeq
    <3>0. 1 \in 1 .. 3 /\ 2 \in 1 .. 3 /\ \A i \in 1 .. 2 : i = 1 \/ i = 2
      OBVIOUS
    <3>2. \A i \in 1 .. 2 : l[i] \in Token
      BY <3>0, <3>1, Zenon
    <3>3. /\ SubSeq(l, 1, 2) \in Seq(Token) /\ Len(SubSeq(l, 1, 2)) = 2 - 1 + 1
          /\ \A i \in 1 .. 2 - 1 + 1 : SubSeq(l, 1, 2)[i] = l[1 + i - 1]
      BY <3>1, <3>2, SubSeqProperties
    <3> QED
      BY <3>3
  <2> QED
    BY <2>1, <2>2 DEF l
<1>4. Trim(chunk) = message
  BY DEF Is
<1> HIDE DEF chunk, message
<1> DEFINE a == CHOOSE i \in kept : \A j \in kept : i <= j
           b == CHOOSE i \in kept : \A j \in kept : i >= j
<1>5. kept \in SUBSET (1 .. n)
  BY <1>2
<1>6. kept # {}
  <2>1. SUFFICES ASSUME kept = {} PROVE FALSE
    OBVIOUS
  <2>2. Trim(chunk) = <<>>
    BY <2>1 DEF Trim
  <2> QED
    BY <1>3, <1>4, <2>2
<1>7. Trim(chunk) = SubSeq(chunk, a, b)
  BY <1>6 DEF Trim
<1>8. a \in kept /\ \A j \in kept : a <= j
  <2>1. kept \in SUBSET Nat
    BY <1>5
  <2> HIDE DEF kept
  <2>2. \E i \in kept : \A j \in kept : i <= j
    BY <1>6, <2>1, LeastNumber
  <2> QED
    BY <2>2
<1>9. b \in kept /\ \A j \in kept : j <= b
  <2>1. kept \in SUBSET (0 .. n) /\ n \in Nat
    BY <1>1, <1>5
  <2> HIDE DEF kept
  <2>2. \E i \in kept : \A j \in kept : j <= i
    BY <1>6, <2>1, GreatestNumber
  <2>3. \E i \in kept : \A j \in kept : i >= j
    BY <2>1, <2>2
  <2>4. b \in kept /\ \A j \in kept : b >= j
    BY <2>3
  <2> QED
    BY <2>1, <2>4
<1> HIDE DEF a, b
<1>10. a \in 1 .. n /\ b \in 1 .. n /\ a <= b
  BY <1>5, <1>8, <1>9
<1>11. Len(SubSeq(chunk, a, b)) = b - a + 1 /\ SubSeq(chunk, a, b)[1] = chunk[a]
  BY <1>1, <1>2, <1>10
<1>12. b = a + 1
  BY <1>3, <1>4, <1>7, <1>10, <1>11
<1>13. SubSeq(chunk, a, b)[2] = chunk[b]
  BY <1>1, <1>2, <1>10, <1>12
<1>14. wire[a] = [msg |-> m, part |-> "head"] /\ wire[b] = [msg |-> m, part |-> "tail"]
  BY <1>2, <1>3, <1>4, <1>7, <1>10, <1>11, <1>13
<1>15. ASSUME NEW i \in 1 .. n, wire[i].part = "head" PROVE i = a
  <2>1. i \in kept
    BY <1>2, <1>15 DEF IsEol
  <2>2. a <= i /\ i <= b
    BY <1>8, <1>9, <2>1
  <2>3. i # b
    BY <1>14, <1>15
  <2> QED
    BY <1>10, <1>12, <2>2, <2>3
<1> QED
  BY <1>10, <1>14, <1>15

-----------------------------------------------------------------------------
\* The messages on their way, as the abstract channel sees them.
Lines == [i \in DOMAIN Heads |-> Heads[i].msg]

LEMMA LinesType ==
  ASSUME wire \in Seq(Token)
  PROVE  /\ Lines \in Seq(Sent) /\ Len(Lines) = Len(Heads)
         /\ \A k \in 1 .. Len(Heads) : Lines[k] = Heads[k].msg
<1>1. Heads \in Seq(Token) /\ Len(Heads) \in Nat
  BY HeadsType
<1>2. DOMAIN Heads = 1 .. Len(Heads)
  BY <1>1
<1>3. ASSUME NEW k \in 1 .. Len(Heads) PROVE Heads[k].msg \in Sent
  <2>1. Heads[k] \in Token
    BY <1>1, ElementOfSeq
  <2> QED
    BY <2>1 DEF Token
<1> QED
  BY <1>1, <1>2, <1>3 DEF Lines

\* The first h messages leave the channel.
LEMMA LinesAfter ==
  ASSUME wire \in Seq(Token), wire' \in Seq(Token), NEW h \in 0 .. Len(Heads),
         Heads' = SubSeq(Heads, h + 1, Len(Heads))
  PROVE  Lines' = SubSeq(Lines, h + 1, Len(Lines))
<1> DEFINE c == Len(Heads)
           q == Heads
           r == Heads'
           l == Lines
<1>1. q \in Seq(Token) /\ Len(q) = c /\ c \in Nat /\ h \in 0 .. c
  BY HeadsType
<1>2. l \in Seq(Sent) /\ Len(l) = c /\ \A k \in 1 .. c : l[k] = q[k].msg
  BY LinesType
<1>3. r = SubSeq(q, h + 1, c)
  OBVIOUS
<1>4. Lines' = [i \in DOMAIN r |-> r[i].msg]
  BY DEF Lines
<1> HIDE DEF c, q, r, l
<1>5. DOMAIN r = 1 .. c - h /\ \A i \in 1 .. c - h : r[i] = q[i + h]
  BY <1>1, <1>3
<1>6. SubSeq(l, h + 1, c) = [i \in 1 .. c - h |-> l[i + h]]
  BY <1>1, <1>2
<1>7. \A i \in 1 .. c - h : i + h \in 1 .. c
  BY <1>1
<1>8. \A i \in 1 .. c - h : r[i].msg = l[i + h]
  BY <1>2, <1>5, <1>7
<1>9. Lines' = SubSeq(l, h + 1, c)
  BY <1>4, <1>5, <1>6, <1>8
<1> QED
  BY <1>2, <1>9 DEF l

\* A message that is written enters the channel behind the others.
LEMMA LinesWritten ==
  ASSUME wire \in Seq(Token), NEW m \in Sent,
         Heads' = Append(Heads, [msg |-> m, part |-> "head"])
  PROVE  Lines' = Append(Lines, m)
<1> DEFINE c == Len(Heads)
           q == Heads
           r == Heads'
           l == Lines
           e == [msg |-> m, part |-> "head"]
<1>1. q \in Seq(Token) /\ Len(q) = c /\ c \in Nat
  BY HeadsType
<1>2. l \in Seq(Sent) /\ Len(l) = c /\ \A k \in 1 .. c : l[k] = q[k].msg
  BY LinesType
<1>3. r = Append(q, e) /\ e.msg = m /\ e \in Token
  BY DEF Token
<1>4. Lines' = [i \in DOMAIN r |-> r[i].msg]
  BY DEF Lines
<1> HIDE DEF c, q, r, l, e
<1>5. /\ DOMAIN r = 1 .. c + 1 /\ r[c + 1] = e
      /\ \A i \in 1 .. c : r[i] = q[i]
  BY <1>1, <1>3
<1>6. /\ Append(l, m) \in Seq(Sent) /\ Len(Append(l, m)) = c + 1
      /\ Append(l, m)[c + 1] = m
      /\ \A i \in 1 .. c : Append(l, m)[i] = l[i]
  BY <1>1, <1>2
<1> DEFINE a == Append(l, m)
<1> HIDE DEF a
<1>7. ASSUME NEW i \in 1 .. c + 1 PROVE r[i].msg = a[i]
  <2>1. i \in 1 .. c \/ i = c + 1
    BY <1>1
  <2>2. CASE i \in 1 .. c
    BY <1>2, <1>5, <1>6, <2>2 DEF a
  <2>3. CASE i = c + 1
    BY <1>3, <1>5, <1>6, <2>3 DEF a
  <2> QED
    BY <2>1, <2>2, <2>3
<1>8. a = [i \in 1 .. c + 1 |-> a[i]]
  <2>1. a \in Seq(Sent) /\ Len(a) = c + 1
    BY <1>6 DEF a
  <2> QED
    BY <2>1
<1>9. Lines' = a
  BY <1>4, <1>5, <1>7, <1>8
<1> QED
  BY <1>9 DEF a, l

-----------------------------------------------------------------------------
\* The commands that steer leave one direction on each axis.
LEMMA KeysDiagonal ==
  ASSUME NEW text, Diagonal(pcmd)
  PROVE  Diagonal(Keys(text)) /\ Keys(text) \subseteq Directions
<1>1. pcmd \subseteq Directions
  BY DEF Diagonal, Directions
<1>2. CASE text \in DOMAIN Steering
  <2>1. Keys(text) = Move(Move(pcmd, Steering[text][1]), Steering[text][2])
    <3>1. text \notin Stopping
      BY <1>2 DEF Steering, Stopping
    <3> QED
      BY <1>2, <3>1 DEF Keys
  <2>2. /\ Steering[text][1] \in {"front", "back"}
        /\ Steering[text][2] \in {"left", "right"}
    BY <1>2 DEF Steering
  <2>3. ASSUME NEW a \in {"front", "back"}, NEW b \in {"left", "right"}
        PROVE  Move(Move(pcmd, a), b) = {a, b}
    <3>1. /\ Opposite["front"] = "back" /\ Opposite["back"] = "front"
          /\ Opposite["left"] = "right" /\ Opposite["right"] = "left"
      BY DEF Opposite
    <3>2. pcmd \subseteq {"front", "back", "left", "right"}
      BY <1>1 DEF Directions
    <3>3. Move(Move(pcmd, a), b)
            = (((pcmd \cup {a}) \ {Opposite[a]}) \cup {b}) \ {Opposite[b]}
      BY DEF Move
    <3> QED
      BY <3>1, <3>2, <3>3
  <2> QED
    BY <2>1, <2>2, <2>3 DEF Diagonal, Directions
<1>3. CASE text \notin DOMAIN Steering /\ text \in Stopping
  <2>1. Keys(text) = {}
    BY <1>3 DEF Keys
  <2> QED
    BY <2>1 DEF Diagonal
<1>4. CASE text \notin DOMAIN Steering /\ text \notin Stopping
  <2>1. Keys(text) = pcmd
    BY <1>4 DEF Keys
  <2> QED
    BY <1>1, <2>1
<1> QED
  BY <1>2, <1>3, <1>4

\* The messages a chunk may be are among those that were sent.
LEMMA MeantType ==
  ASSUME wire \in Seq(Token), NEW n \in DOMAIN wire,
         NEW m \in {token.msg : token \in ToSet(SubSeq(wire, 1, n))}
  PROVE  m \in Sent
<1>1. n \in 1 .. Len(wire) /\ Len(wire) \in Nat
  OBVIOUS
<1>2. PICK i \in DOMAIN SubSeq(wire, 1, n) : m = SubSeq(wire, 1, n)[i].msg
  BY DEF ToSet
<1>3. SubSeq(wire, 1, n) \in Seq(Token)
  BY <1>1
<1>4. SubSeq(wire, 1, n)[i] \in Token
  BY <1>3
<1> QED
  BY <1>2, <1>4 DEF Token

\* A 'data' event obeys the message its chunk is, or changes nothing but the
\* wire.
LEMMA DataObeys ==
  ASSUME wire \in Seq(Token), NEW n \in DOMAIN wire, Data(n)
  PROVE  /\ wire' = Rest(n) /\ UNCHANGED <<written, timer, alive>>
         /\ \/ \E m \in Sent : Is(SubSeq(wire, 1, n), m) /\ Obey(m)
            \/ UNCHANGED <<markerFound, fly, pcmd, obeyed>>
<1>1. wire' = Rest(n) /\ UNCHANGED <<written, timer, alive>>
  BY DEF Data
<1>2. \/ \E m \in {token.msg : token \in ToSet(SubSeq(wire, 1, n))} :
           Is(SubSeq(wire, 1, n), m) /\ Obey(m)
      \/ UNCHANGED <<markerFound, fly, pcmd, obeyed>>
  BY DEF Data
<1> QED
  BY <1>1, <1>2, MeantType

-----------------------------------------------------------------------------
\* The initial state satisfies the invariant.
LEMMA InitInv == Init => IInv
<1> SUFFICES ASSUME Init PROVE IInv
  OBVIOUS
<1> USE DEF Init
<1>1. TypeOK
  <2>1. wire \in Seq(Token) /\ written \in 0 .. MaxSent /\ timer \in 0 .. 3
    BY BoundsAssumption
  <2>2. pcmd \subseteq Directions /\ obeyed \in Sent \cup {NONE}
    OBVIOUS
  <2>3. alive \in BOOLEAN /\ markerFound \in BOOLEAN /\ fly \in BOOLEAN
    BY Zenon
  <2> QED
    BY <2>1, <2>2, <2>3, Zenon DEF TypeOK
<1>2. Diagonal(pcmd)
  BY DEF Diagonal
<1>3. Len(Heads) <= written
  <2> DEFINE P == {i \in DOMAIN wire : wire[i].part = "head"}
  <2>1. P = {} /\ wire \in Seq(Token)
    OBVIOUS
  <2>2. P \in SUBSET (DOMAIN wire)
    OBVIOUS
  <2>3. Heads = Kept(wire, P)
    BY DEF Heads
  <2> HIDE DEF P
  <2>4. Len(Heads) = Cardinality(P)
    BY <2>1, <2>2, <2>3, KeptProperties
  <2> QED
    BY <2>1, <2>4, FS_EmptySet
<1> QED
  BY <1>1, <1>2, <1>3 DEF IInv

\* Every step preserves the invariant.
LEMMA NextInv == IInv /\ [Next]_vars => IInv'
<1> SUFFICES ASSUME IInv, [Next]_vars PROVE IInv'
  OBVIOUS
<1> USE DEF IInv
<1>0. wire \in Seq(Token) /\ Len(Heads) \in Nat /\ Heads \in Seq(Token)
  BY HeadsType DEF TypeOK
<1>1. ASSUME NEW text \in Messages, Write(text) PROVE IInv'
  <2> DEFINE m == [n |-> written', text |-> text]
  <2>1. /\ written' = written + 1 /\ written' \in 1 .. MaxSent
        /\ wire' = wire \o Line(m) /\ UNCHANGED process
    BY <1>1, BoundsAssumption DEF Write, TypeOK
  <2>2. m \in Sent
    BY <2>1 DEF Sent
  <2> HIDE DEF m
  <2>3. wire' \in Seq(Token) /\ Heads' = Append(Heads, [msg |-> m, part |-> "head"])
    BY <1>0, <2>1, <2>2, HeadsWritten
  <2>4. Len(Heads') = Len(Heads) + 1
    <3> DEFINE q == Heads
               e == [msg |-> m, part |-> "head"]
    <3>1. q \in Seq(Token)
      BY <1>0
    <3> HIDE DEF q, e
    <3>2. Len(Append(q, e)) = Len(q) + 1
      BY <3>1
    <3> QED
      BY <2>3, <3>2 DEF q, e
  <2>5. Len(Heads') <= written'
    BY <1>0, <2>1, <2>4 DEF TypeOK
  <2>6. TypeOK'
    BY <2>1, <2>3 DEF TypeOK, process
  <2> QED
    BY <2>1, <2>5, <2>6 DEF process, Diagonal
<1>2. ASSUME NEW n \in DOMAIN wire, Data(n) PROVE IInv'
  <2>1. /\ wire' = Rest(n) /\ UNCHANGED <<written, timer, alive>>
        /\ \/ \E m \in Sent : Is(SubSeq(wire, 1, n), m) /\ Obey(m)
           \/ UNCHANGED <<markerFound, fly, pcmd, obeyed>>
    BY <1>0, <1>2, DataObeys
  <2>2. /\ wire' \in Seq(Token)
        /\ Len(Heads') \in Nat /\ Len(Heads') <= Len(Heads)
    <3> DEFINE q == Heads
               c == Len(q)
    <3>1. /\ wire' \in Seq(Token)
          /\ \E h \in 0 .. c : Heads' = SubSeq(q, h + 1, c)
      BY <1>0, <2>1, HeadsAfter
    <3>2. PICK h \in 0 .. c : Heads' = SubSeq(q, h + 1, c)
      BY <3>1
    <3>3. q \in Seq(Token) /\ c \in Nat /\ c = Len(q)
      BY <1>0
    <3> HIDE DEF q, c
    <3>4. Len(SubSeq(q, h + 1, c)) = c - h
      BY <3>3
    <3> QED
      BY <3>1, <3>2, <3>3, <3>4 DEF q, c
  <2>3. /\ markerFound' \in BOOLEAN /\ fly' \in BOOLEAN
        /\ obeyed' \in Sent \cup {NONE} /\ pcmd' \subseteq Directions
        /\ Diagonal(pcmd')
    <3>1. ASSUME NEW m \in Sent, Obey(m)
          PROVE  /\ markerFound' \in BOOLEAN /\ fly' \in BOOLEAN
                 /\ obeyed' \in Sent \cup {NONE} /\ pcmd' \subseteq Directions
                 /\ Diagonal(pcmd')
      <4>1. pcmd' = Keys(m.text) /\ fly' = Flies(m.text) /\ obeyed' = m
        BY <3>1 DEF Obey
      <4>2. markerFound' \in BOOLEAN
        BY <3>1 DEF Obey, TypeOK
      <4>3. fly' \in BOOLEAN
        <5>1. ~("drone_takeoff" \in Landing)
          BY DEF Landing
        <5>2. Flies(m.text) \in {TRUE, FALSE, fly}
          BY <5>1 DEF Flies
        <5> QED
          BY <4>1, <5>2 DEF TypeOK
      <4> QED
        BY <4>1, <4>2, <4>3, KeysDiagonal
    <3>2. CASE UNCHANGED <<markerFound, fly, pcmd, obeyed>>
      BY <3>2 DEF TypeOK
    <3> QED
      BY <2>1, <3>1, <3>2
  <2>4. TypeOK'
    BY <2>1, <2>2, <2>3 DEF TypeOK
  <2>5. written' \in Nat /\ Len(Heads') <= written'
    <3>1. Len(Heads') \in Nat
      BY <2>2
    <3>2. written \in Nat /\ written' = written
      BY <2>1, BoundsAssumption DEF TypeOK
    <3> QED
      BY <1>0, <2>2, <3>1, <3>2
  <2> QED
    BY <2>3, <2>4, <2>5 DEF Diagonal
<1>3. CASE After
  <2>1. UNCHANGED <<wire, written, alive, markerFound, pcmd, obeyed>>
    BY <1>3 DEF After
  <2>2. timer' \in 0 .. 3
    BY <1>3 DEF After, Pending, TypeOK
  <2>3. fly' \in BOOLEAN
    BY <1>3 DEF After, TypeOK
  <2> QED
    BY <2>1, <2>2, <2>3 DEF TypeOK, Diagonal, Heads
<1>4. CASE Navdata
  BY <1>4 DEF Navdata, TypeOK, Diagonal, Heads
<1>5. CASE UNCHANGED vars
  BY <1>5 DEF vars, process, TypeOK, Diagonal, Heads
<1> QED
  BY <1>1, <1>2, <1>3, <1>4, <1>5 DEF Next

\* The invariant holds in every reachable state.
THEOREM Invariant == Spec => []IInv
BY InitInv, NextInv, PTL DEF Spec

\* The wire, the timers and the client's flags keep their types, for any
\* messages.
THEOREM TypeInvariant == Spec => []TypeOK
BY Invariant, PTL DEF IInv

\* No direction of an earlier command stays in force on one axis with those of
\* a later one.
THEOREM SteersAlongDiagonals == Spec => []SteersDiagonally
<1>1. ASSUME Diagonal(pcmd) PROVE SteersDiagonally
  <2>1. ASSUME NEW a \in {"front", "back"}, NEW b \in {"left", "right"},
               pcmd = {a, b}
        PROVE  SteersDiagonally
    <3>1. pcmd \cap {"front", "back"} = {a} /\ pcmd \cap {"left", "right"} = {b}
      BY <2>1
    <3> QED
      BY <3>1, FS_Singleton DEF SteersDiagonally
  <2> QED
    BY <1>1, <2>1 DEF Diagonal, SteersDiagonally
<1>2. IInv => SteersDiagonally
  BY <1>1 DEF IInv
<1> QED
  BY <1>2, Invariant, PTL

-----------------------------------------------------------------------------
\* Each step of the script and its connection is a step of the channel that
\* may lose messages, or leaves the channel alone.
LEMMA StepImplements == IInv /\ [Next]_vars => [Channel!Next]_(Channel!vars)
<1> SUFFICES ASSUME IInv, [Next]_vars
             PROVE  Channel!Next \/ UNCHANGED <<Lines, obeyed>>
  BY DEF Channel!vars, Lines
<1>0. /\ wire \in Seq(Token) /\ Len(Heads) \in Nat
      /\ Lines \in Seq(Sent) /\ Len(Lines) = Len(Heads)
      /\ Len(Lines) <= written /\ written \in 0 .. MaxSent
  BY HeadsType, LinesType DEF IInv, TypeOK
<1>1. ASSUME NEW text \in Messages, Write(text) PROVE Channel!Next
  <2>1. /\ written < MaxSent /\ written' \in 1 .. MaxSent
        /\ wire' = wire \o Line([n |-> written', text |-> text]) /\ UNCHANGED process
    BY <1>0, <1>1, BoundsAssumption DEF Write
  <2>2. PICK m \in Sent : m = [n |-> written', text |-> text]
    BY <2>1 DEF Sent
  <2>3. Lines' = Append(Lines, m)
    BY <1>0, <2>1, <2>2, HeadsWritten, LinesWritten
  <2>4. Len(Lines) < MaxSent
    BY <1>0, <2>1, BoundsAssumption
  <2>5. obeyed' = obeyed
    BY <2>1 DEF process
  <2>6. Channel!Send(m)
    BY <2>3, <2>4, <2>5 DEF Channel!Send, Lines
  <2> QED
    BY <2>2, <2>6 DEF Channel!Next
<1>2. ASSUME NEW n \in DOMAIN wire, Data(n)
      PROVE  Channel!Next \/ UNCHANGED <<Lines, obeyed>>
  <2>1. /\ wire' = Rest(n)
        /\ \/ \E m \in Sent : Is(SubSeq(wire, 1, n), m) /\ Obey(m)
           \/ UNCHANGED <<markerFound, fly, pcmd, obeyed>>
    BY <1>0, <1>2, DataObeys
  <2>2. wire' \in Seq(Token)
    BY <1>0, <2>1, HeadsAfter
  <2>3. PICK h \in 0 .. Len(Heads) :
          /\ Heads' = SubSeq(Heads, h + 1, Len(Heads))
          /\ \A k \in 1 .. Len(Heads) : Place(k) <= n <=> k <= h
    BY <1>0, <2>1, HeadsAfter
  <2>4. Lines' = SubSeq(Lines, h + 1, Len(Lines))
    BY <1>0, <2>2, <2>3, LinesAfter
  <2>5. h \in 0 .. Len(Lines) /\ (h # 0 => h \in 1 .. MaxSent)
    BY <1>0, BoundsAssumption
  <2>6. ASSUME NEW m \in Sent, Is(SubSeq(wire, 1, n), m), Obey(m)
        PROVE  Channel!Next
    <3>1. PICK a \in 1 .. n : /\ wire[a] = [msg |-> m, part |-> "head"]
                              /\ \A i \in 1 .. n : wire[i].part = "head" => i = a
      BY <1>0, <2>6, OnlyHead
    <3>2. h = 1 /\ Lines[1] = m
      <4>1. HeadPlaces \in SUBSET (DOMAIN wire) /\ Heads = Kept(wire, HeadPlaces)
        BY DEF HeadPlaces, Heads
      <4>2. /\ Len(Heads) = Cardinality(HeadPlaces)
            /\ \A k \in 1 .. Len(Heads) : Place(k) \in HeadPlaces /\ Heads[k] = wire[Place(k)]
            /\ \A i \in HeadPlaces : \E k \in 1 .. Len(Heads) : Place(k) = i
            /\ \A k, l \in 1 .. Len(Heads) : k < l => Place(k) < Place(l)
        BY <1>0, <4>1, KeptProperties DEF Place
      <4>3. a \in HeadPlaces
        <5>1. a \in DOMAIN wire
          BY <1>0
        <5>2. wire[a].part = "head"
          BY <3>1
        <5> QED
          BY <5>1, <5>2 DEF HeadPlaces
      <4>4. PICK k \in 1 .. Len(Heads) : Place(k) = a
        BY <4>2, <4>3
      <4>5. ASSUME NEW l \in 1 .. Len(Heads), l <= h PROVE l = k
        <5>1. Place(l) <= n /\ Place(l) \in HeadPlaces
          BY <2>3, <4>2, <4>5
        <5>2. Place(l) \in 1 .. n /\ wire[Place(l)].part = "head"
          BY <1>0, <5>1 DEF HeadPlaces
        <5>3. Place(l) = Place(k)
          BY <3>1, <4>4, <5>2
        <5>4. ~(l < k) /\ ~(k < l)
          BY <4>2, <5>2, <5>3
        <5> QED
          BY <5>4
      <4>6. k <= h
        BY <2>3, <4>4
      <4>7. 1 \in 1 .. Len(Heads) /\ 1 <= h /\ h \in 1 .. Len(Heads) /\ h <= h
        BY <1>0, <4>6
      <4>8. k = 1 /\ h = 1
        BY <4>5, <4>7
      <4>9. Heads[1].msg = m
        BY <3>1, <4>2, <4>4, <4>8
      <4> QED
        BY <1>0, <4>7, <4>8, <4>9, LinesType
    <3>3. obeyed' = m
      BY <2>6 DEF Obey
    <3>4. 1 \in 1 .. Len(Lines) /\ 1 \in 1 .. MaxSent
      BY <1>0, <2>5, <3>2
    <3>5. Channel!Emit(1)
      BY <2>4, <3>2, <3>3, <3>4 DEF Channel!Emit, Lines
    <3> QED
      BY <3>4, <3>5 DEF Channel!Next
  <2>7. ASSUME UNCHANGED <<markerFound, fly, pcmd, obeyed>>
        PROVE  Channel!Next \/ UNCHANGED <<Lines, obeyed>>
    <3>1. CASE h = 0
      <4> DEFINE l == Lines
      <4>1. l \in Seq(Sent)
        BY <1>0
      <4> HIDE DEF l
      <4>2. SubSeq(l, 1, Len(l)) = l
        BY <4>1
      <4>3. Lines' = Lines
        BY <2>4, <3>1, <4>2 DEF l
      <4> QED
        BY <2>7, <4>3
    <3>2. CASE h # 0
      <4>1. h \in 1 .. Len(Lines) /\ h \in 1 .. MaxSent
        BY <1>0, <2>5, <3>2
      <4>2. Channel!LoseFirst(h)
        BY <2>4, <2>7, <4>1 DEF Channel!LoseFirst, Lines
      <4> QED
        BY <4>1, <4>2 DEF Channel!Next
    <3> QED
      BY <3>1, <3>2
  <2> QED
    BY <2>1, <2>6, <2>7
<1>3. ASSUME After \/ Navdata \/ UNCHANGED vars PROVE UNCHANGED <<Lines, obeyed>>
  BY <1>3 DEF After, Navdata, vars, process, Lines, Heads
<1> QED
  BY <1>1, <1>2, <1>3 DEF Next

\* The lines reach the script as over a channel that loses messages but never
\* goes back: each is obeyed at most once, and none after a later one.
THEOREM Refinement == Spec => ImplementsLossyChannel
<1>1. ASSUME Init PROVE Channel!Init
  <2>1. IInv /\ written = 0 /\ wire \in Seq(Token)
    BY <1>1, InitInv DEF Init, IInv, TypeOK
  <2>2. Len(Heads) = 0
    BY <2>1, HeadsType DEF IInv
  <2>3. Lines = <<>>
    <3> DEFINE l == Lines
    <3>1. l \in Seq(Sent) /\ Len(l) = 0
      BY <2>1, <2>2, LinesType
    <3> HIDE DEF l
    <3>2. l = <<>>
      BY <3>1
    <3> QED
      BY <3>2 DEF l
  <2> QED
    BY <1>1, <2>3 DEF Init, Channel!Init, Lines
<1> QED
  BY <1>1, StepImplements, Invariant, PTL DEF Spec, ImplementsLossyChannel, Channel!Spec
=============================================================================
