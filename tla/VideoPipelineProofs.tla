------------------------ MODULE VideoPipelineProofs ------------------------
(***************************************************************************)
(* For any images of any number of chunks, and any order of refusals,      *)
(* resets, FINs, timeouts and cuts of the pipe: the types, NeverAbandoned  *)
(* and ExactlyOnePng.                                                      *)
(*                                                                         *)
(* The splitter: the bytes of the buffer and then of the pipe are those of *)
(* the images not yet emitted, one behind the other (Images), and the      *)
(* splitter stands before an image or, in the first of them, before a      *)
(* chunk or behind the header of one (Right). A turn of the loop keeps     *)
(* this and, unless it returns, takes bytes (TurnKeeps); so the loop of a  *)
(* write() has returned after as many turns as there are bytes             *)
(* (LoopIsRight), and it waits for bytes then: an image that is there to   *)
(* its last byte has been emitted (ReceivedIsEmitted).                     *)
(*                                                                         *)
(* The connection: NeverAbandoned is inductive, but not the bound on the   *)
(* timers in TypeOK. VideoInv adds that a connection which is made or      *)
(* there has its idle timer, which the retry for it replaces, and that an  *)
(* open one whose drone has gone still has room for the retry of its FIN.  *)
(***************************************************************************)
EXTENDS VideoPipeline, SequenceLemmas

\* A byte as PngSplitter names it.
PngByte == [png : Nat, place : Nat, length : Nat, last : BOOLEAN]

\* A chunk has its header, its data and its CRC, one chunk follows the other,
\* and the byte its header begins with tells its length and whether it is the
\* last one.
LEMMA ChunkPlaces ==
  ASSUME NEW l, Encoder!IsLayout(l), NEW i \in DOMAIN l
  PROVE  /\ l \in Seq(Nat) /\ Len(l) \in Nat \ {0} /\ i \in 1 .. Len(l)
         /\ l[i] \in Nat /\ Encoder!Size(l) \in Nat /\ l[i] <= Encoder!Size(l)
         /\ Encoder!Begin(l, i) \in Nat /\ Encoder!Length(l, i) \in Nat
         /\ Encoder!Begin(l, i) + HEADER + Encoder!Length(l, i) + CRC = l[i]
         /\ Encoder!Begin(l, i) + HEADER + CRC <= l[i]
         /\ i < Len(l) => i + 1 \in DOMAIN l /\ Encoder!Begin(l, i + 1) = l[i]
<1>1. /\ l \in Seq(Nat) /\ Len(l) \in Nat \ {0} /\ DOMAIN l = 1 .. Len(l)
      /\ SIGNATURE \in Nat /\ HEADER \in Nat /\ CRC \in Nat
      /\ \A k \in 1 .. Len(l) : l[k] \in Nat
  BY PartsAssumption, SMTT(30) DEF Encoder!IsLayout
<1>2. \A k \in 1 .. Len(l) :
        /\ SIGNATURE + HEADER + CRC <= l[k]
        /\ \A j \in 1 .. k - 1 : l[j] + HEADER + CRC <= l[k]
  BY <1>1 DEF Encoder!IsLayout
<1>3. i \in 1 .. Len(l) /\ i \in Nat /\ l[i] \in Nat
  BY <1>1
<1>4. Encoder!Size(l) = l[Len(l)] /\ Encoder!Size(l) \in Nat
  BY <1>1 DEF Encoder!Size
<1>5. l[i] <= Encoder!Size(l)
  <2>1. CASE i = Len(l)
    BY <1>4, <2>1
  <2>2. CASE i < Len(l)
    <3>1. i \in 1 .. Len(l) - 1 /\ Len(l) \in 1 .. Len(l)
      BY <1>1, <1>3, <2>2
    <3>2. l[i] + HEADER + CRC <= l[Len(l)]
      BY <1>2, <3>1
    <3> QED
      BY <1>1, <1>3, <1>4, <3>2
  <2> QED
    BY <1>1, <1>3, <2>1, <2>2
<1>6. /\ Encoder!Begin(l, i) \in Nat
      /\ Encoder!Begin(l, i) + HEADER + CRC <= l[i]
  <2>1. CASE i = 1
    BY <1>1, <1>2, <1>3, <2>1 DEF Encoder!Begin
  <2>2. CASE i # 1
    <3>1. i - 1 \in 1 .. i - 1 /\ i - 1 \in 1 .. Len(l)
      BY <1>1, <1>3, <2>2
    <3>2. l[i - 1] \in Nat /\ l[i - 1] + HEADER + CRC <= l[i]
      BY <1>1, <1>2, <1>3, <3>1
    <3> QED
      BY <2>2, <3>2 DEF Encoder!Begin
  <2> QED
    BY <2>1, <2>2
<1>7. /\ Encoder!Length(l, i) \in Nat
      /\ Encoder!Begin(l, i) + HEADER + Encoder!Length(l, i) + CRC = l[i]
  BY <1>1, <1>3, <1>6 DEF Encoder!Length
<1>8. ASSUME i < Len(l) PROVE i + 1 \in DOMAIN l /\ Encoder!Begin(l, i + 1) = l[i]
  <2>1. i + 1 \in 1 .. Len(l) /\ i + 1 # 1 /\ (i + 1) - 1 = i
    BY <1>1, <1>3, <1>8
  <2> QED
    BY <1>1, <2>1 DEF Encoder!Begin
<1> QED
  BY <1>1, <1>3, <1>4, <1>5, <1>6, <1>7, <1>8

\* The byte at which a chunk begins, and no other of its image, is its head.
LEMMA ChunkHead ==
  ASSUME NEW l, Encoder!IsLayout(l), NEW i \in DOMAIN l, NEW n \in Nat
  PROVE  /\ Encoder!Byte(n, l, Encoder!Begin(l, i) + 1).length = Encoder!Length(l, i)
         /\ Encoder!Byte(n, l, Encoder!Begin(l, i) + 1).last = (i = Len(l))
<1>1. ASSUME NEW j \in DOMAIN l, NEW k \in DOMAIN l, j < k
      PROVE  Encoder!Begin(l, j) < Encoder!Begin(l, k)
  <2>1. /\ Encoder!Begin(l, j) \in Nat /\ Encoder!Begin(l, j) + HEADER + CRC <= l[j]
        /\ j \in 1 .. Len(l) /\ Len(l) \in Nat /\ l[j] \in Nat
    BY ChunkPlaces
  <2>2. k \in 1 .. Len(l)
    BY ChunkPlaces
  <2>3. k - 1 \in DOMAIN l /\ Encoder!Begin(l, k) = l[k - 1] /\ l[k - 1] \in Nat
    <3>1. k - 1 \in DOMAIN l /\ k # 1
      BY <1>1, <2>1, <2>2 DEF Encoder!IsLayout
    <3> QED
      BY <3>1, ChunkPlaces DEF Encoder!Begin
  <2>4. l[j] <= l[k - 1]
    <3>1. CASE j = k - 1
      BY <2>1, <3>1
    <3>2. CASE j < k - 1
      <4>1. j \in 1 .. (k - 1) - 1
        BY <2>1, <2>2, <3>2
      <4>2. l[j] + HEADER + CRC <= l[k - 1]
        BY <2>3, <4>1 DEF Encoder!IsLayout
      <4> QED
        BY <2>1, <2>3, <4>2, PartsAssumption, SMTT(30)
    <3> QED
      BY <1>1, <2>1, <2>2, <3>1, <3>2
  <2> QED
    BY <2>1, <2>3, <2>4, PartsAssumption, SMTT(30)
<1>2. /\ Encoder!Begin(l, i) \in Nat /\ DOMAIN l = 1 .. Len(l) /\ Len(l) \in Nat
      /\ \A k \in DOMAIN l : Encoder!Begin(l, k) \in Nat
  BY ChunkPlaces
<1>3. ASSUME NEW k \in DOMAIN l, Encoder!Begin(l, i) + 1 = Encoder!Begin(l, k) + 1
      PROVE  k = i
  <2>1. ~(k < i) /\ ~(i < k)
    BY <1>1, <1>2, <1>3
  <2> QED
    BY <1>2, <2>1
<1>4. Encoder!Headed(l, Encoder!Begin(l, i) + 1) = {i}
  BY <1>3 DEF Encoder!Headed
<1>5. (CHOOSE k \in {i} : TRUE) = i
  OBVIOUS
<1>6. (Len(l) \in {i}) = (i = Len(l))
  OBVIOUS
<1> QED
  BY <1>4, <1>5, <1>6 DEF Encoder!Byte

\* The bytes of an image.
LEMMA PngBytes ==
  ASSUME NEW l, Encoder!IsLayout(l), NEW n \in Nat
  PROVE  /\ Encoder!Png(n, l) \in Seq(PngByte)
         /\ Len(Encoder!Png(n, l)) = Encoder!Size(l)
         /\ Encoder!Size(l) \in Nat \ {0}
         /\ \A k \in 1 .. Encoder!Size(l) :
              /\ Encoder!Png(n, l)[k] = Encoder!Byte(n, l, k)
              /\ Encoder!Byte(n, l, k) \in PngByte
              /\ Encoder!Byte(n, l, k).png = n
<1>1. Encoder!Size(l) \in Nat \ {0}
  <2>1. Len(l) \in DOMAIN l
    BY DEF Encoder!IsLayout
  <2>2. /\ l[Len(l)] \in Nat /\ Encoder!Begin(l, Len(l)) \in Nat
        /\ Encoder!Begin(l, Len(l)) + HEADER + CRC <= l[Len(l)]
    BY <2>1, ChunkPlaces
  <2> QED
    BY <2>2, PartsAssumption DEF Encoder!Size
<1>2. ASSUME NEW k \in 1 .. Encoder!Size(l)
      PROVE  Encoder!Byte(n, l, k) \in PngByte /\ Encoder!Byte(n, l, k).png = n
  <2> DEFINE headed == Encoder!Headed(l, k)
             length == IF headed = {} THEN 0
                       ELSE Encoder!Length(l, CHOOSE i \in headed : TRUE)
  <2>1. length \in Nat
    <3>1. CASE headed = {}
      BY <3>1
    <3>2. CASE headed # {}
      <4>1. (CHOOSE i \in headed : TRUE) \in headed
        BY <3>2
      <4>2. (CHOOSE i \in headed : TRUE) \in DOMAIN l
        BY <4>1 DEF Encoder!Headed
      <4> QED
        BY <3>2, <4>2, ChunkPlaces
    <3> QED
      BY <3>1, <3>2
  <2>2. Encoder!Byte(n, l, k) = [png |-> n, place |-> k, length |-> length,
                                 last |-> Len(l) \in headed]
    BY DEF Encoder!Byte
  <2>3. k \in Nat /\ (Len(l) \in headed) \in BOOLEAN
    BY <1>1
  <2> HIDE DEF headed, length
  <2> QED
    BY <2>1, <2>2, <2>3 DEF PngByte
<1> QED
  BY <1>1, <1>2 DEF Encoder!Png

-----------------------------------------------------------------------------
\* The images numbered from m + 1 to the last, one behind the other, are x, and
\* ends[i] is where the i-th of them ends.
Laid(x, m, ls, ends) ==
  /\ ends \in [m .. Len(ls) -> 0 .. Len(x)]
  /\ ends[m] = 0 /\ ends[Len(ls)] = Len(x)
  /\ \A i \in m + 1 .. Len(ls) :
       /\ ends[i] = ends[i - 1] + Encoder!Size(ls[i])
       /\ \A k \in 1 .. Encoder!Size(ls[i]) :
            x[ends[i - 1] + k] = Encoder!Byte(i, ls[i], k)
  /\ \A i, j \in m .. Len(ls) : i <= j => ends[i] <= ends[j]
Images(x, m, ls) == \E ends : Laid(x, m, ls, ends)

\* What PartsAssumption says of the i-th image.
LEMMA LayoutOf ==
  ASSUME NEW ls \in Seq(Layouts), NEW i \in 1 .. Len(ls)
  PROVE  /\ ls[i] \in Layouts /\ Encoder!IsLayout(ls[i])
         /\ Encoder!Size(ls[i]) \in Nat \ {0}
         /\ \A k \in 1 .. Encoder!Size(ls[i]) :
              Encoder!Byte(i, ls[i], k) \in PngByte /\ Encoder!Byte(i, ls[i], k).png = i
<1>1. ls[i] \in Layouts
  OBVIOUS
<1>2. Encoder!IsLayout(ls[i]) /\ i \in Nat
  BY <1>1, PartsAssumption
<1> QED
  BY <1>1, <1>2, PngBytes

\* While there are bytes, they begin with the image after the m-th.
LEMMA FirstImage ==
  ASSUME NEW x \in Seq(PngByte), NEW ls \in Seq(Layouts), NEW m \in 0 .. Len(ls),
         Images(x, m, ls)
  PROVE  /\ Len(x) > 0 => m < Len(ls)
         /\ m < Len(ls) =>
              /\ m + 1 \in 1 .. Len(ls)
              /\ Encoder!Size(ls[m + 1]) <= Len(x)
              /\ \A k \in 1 .. Encoder!Size(ls[m + 1]) :
                   x[k] = Encoder!Byte(m + 1, ls[m + 1], k)
<1>1. PICK ends : Laid(x, m, ls, ends)
  BY DEF Images
<1>2. Len(x) \in Nat /\ Len(ls) \in Nat /\ m \in Nat
  OBVIOUS
<1>3. Len(x) > 0 => m < Len(ls)
  BY <1>1, <1>2 DEF Laid
<1>4. ASSUME m < Len(ls)
      PROVE  /\ m + 1 \in 1 .. Len(ls)
             /\ Encoder!Size(ls[m + 1]) <= Len(x)
             /\ \A k \in 1 .. Encoder!Size(ls[m + 1]) :
                  x[k] = Encoder!Byte(m + 1, ls[m + 1], k)
  <2> DEFINE z == Encoder!Size(ls[m + 1])
  <2>1. /\ m + 1 \in 1 .. Len(ls) /\ m + 1 \in m + 1 .. Len(ls)
        /\ m + 1 \in m .. Len(ls) /\ (m + 1) - 1 = m
    BY <1>2, <1>4
  <2>2. z \in Nat
    BY <2>1, LayoutOf
  <2>3. /\ ends[m] = 0 /\ ends[m + 1] = ends[m] + z /\ ends[m + 1] \in 0 .. Len(x)
        /\ \A k \in 1 .. z : x[ends[m] + k] = Encoder!Byte(m + 1, ls[m + 1], k)
    BY <1>1, <2>1 DEF Laid
  <2> HIDE DEF z
  <2>4. z <= Len(x) /\ \A k \in 1 .. z : 0 + k = k
    BY <1>2, <2>2, <2>3
  <2> QED
    BY <2>1, <2>3, <2>4 DEF z
<1> QED
  BY <1>3, <1>4

\* Without its bytes, those of the next images.
LEMMA ImageTaken ==
  ASSUME NEW x \in Seq(PngByte), NEW ls \in Seq(Layouts), NEW m \in 0 .. Len(ls),
         Images(x, m, ls), m < Len(ls),
         NEW y \in Seq(PngByte), Len(y) = Len(x) - Encoder!Size(ls[m + 1]),
         \A k \in 1 .. Len(y) : y[k] = x[Encoder!Size(ls[m + 1]) + k]
  PROVE  Images(y, m + 1, ls)
<1> DEFINE z == Encoder!Size(ls[m + 1])
           L == Len(ls)
<1>1. PICK ends : Laid(x, m, ls, ends)
  BY DEF Images
<1>2. Len(x) \in Nat /\ L \in Nat /\ m \in Nat /\ m + 1 \in 1 .. L /\ z \in Nat
  <2>1. Len(x) \in Nat /\ L \in Nat /\ m \in Nat /\ m + 1 \in 1 .. L
    OBVIOUS
  <2> QED
    BY <2>1, LayoutOf
<1> DEFINE rest == [i \in m + 1 .. L |-> ends[i] - z]
<1> HIDE DEF z
<1>3. /\ \A i \in m .. L : ends[i] \in 0 .. Len(x)
      /\ ends[m] = 0 /\ ends[L] = Len(x)
      /\ \A i \in m + 1 .. L :
           /\ ends[i] = ends[i - 1] + Encoder!Size(ls[i])
           /\ \A k \in 1 .. Encoder!Size(ls[i]) :
                x[ends[i - 1] + k] = Encoder!Byte(i, ls[i], k)
      /\ \A i, j \in m .. L : i <= j => ends[i] <= ends[j]
  BY <1>1 DEF Laid
<1> HIDE DEF L
<1>4. ends[m + 1] = z
  <2>1. m + 1 \in m + 1 .. L /\ (m + 1) - 1 = m
    BY <1>2
  <2> QED
    BY <1>2, <1>3, <2>1 DEF z
<1>5. Len(y) = Len(x) - z /\ \A k \in 1 .. Len(y) : y[k] = x[z + k]
  BY DEF z
<1>6. ASSUME NEW i \in m + 1 .. L
      PROVE  /\ i \in m .. L /\ ends[i] \in Nat /\ z <= ends[i] /\ ends[i] <= Len(x)
             /\ rest[i] = ends[i] - z /\ rest[i] \in 0 .. Len(y)
  <2>1. i \in m .. L /\ m + 1 \in m .. L /\ m + 1 <= i
    BY <1>2
  <2>2. z <= ends[i]
    BY <1>3, <1>4, <2>1
  <2>3. ends[i] \in 0 .. Len(x)
    BY <1>3, <2>1
  <2> QED
    BY <1>2, <1>5, <2>1, <2>2, <2>3
<1>7. rest \in [m + 1 .. L -> 0 .. Len(y)]
  BY <1>6
<1>8. rest[m + 1] = 0 /\ rest[L] = Len(y)
  <2>1. m + 1 \in m + 1 .. L /\ L \in m + 1 .. L
    BY <1>2
  <2>2. rest[m + 1] = z - z /\ rest[L] = Len(x) - z
    BY <1>3, <1>4, <1>6, <2>1
  <2> QED
    BY <1>2, <1>5, <2>2
<1> HIDE DEF rest
<1>9. ASSUME NEW i \in (m + 1) + 1 .. L
      PROVE  /\ rest[i] = rest[i - 1] + Encoder!Size(ls[i])
             /\ \A k \in 1 .. Encoder!Size(ls[i]) :
                  y[rest[i - 1] + k] = Encoder!Byte(i, ls[i], k)
  <2> DEFINE s == Encoder!Size(ls[i])
  <2>1. i \in m + 1 .. L /\ i - 1 \in m + 1 .. L /\ i \in 1 .. L
    BY <1>2
  <2>2. s \in Nat
    BY <2>1, LayoutOf DEF L
  <2>3. /\ ends[i] = ends[i - 1] + s
        /\ \A k \in 1 .. s : x[ends[i - 1] + k] = Encoder!Byte(i, ls[i], k)
    BY <1>3, <2>1
  <2> HIDE DEF s
  <2>4. /\ ends[i] \in Nat /\ ends[i] <= Len(x) /\ ends[i - 1] \in Nat
        /\ z <= ends[i - 1]
        /\ rest[i] = ends[i] - z /\ rest[i - 1] = ends[i - 1] - z
    BY <1>6, <2>1
  <2>5. rest[i] = rest[i - 1] + s
    BY <1>2, <2>2, <2>3, <2>4
  <2>6. ASSUME NEW k \in 1 .. s PROVE y[rest[i - 1] + k] = Encoder!Byte(i, ls[i], k)
    <3> DEFINE e == ends[i - 1]
               f == ends[i]
    <3>1. /\ e \in Nat /\ f \in Nat /\ f <= Len(x) /\ z <= e /\ f = e + s
          /\ rest[i - 1] = e - z
      BY <2>3, <2>4
    <3> HIDE DEF e, f
    <3>2. k \in Nat /\ 1 <= k /\ e + k <= f
      BY <2>2, <3>1
    <3>3. rest[i - 1] + k \in 1 .. Len(y) /\ z + (rest[i - 1] + k) = e + k
      <4> DEFINE r == rest[i - 1]
                 a == Len(x)
                 c == Len(y)
      <4>1. /\ r = e - z /\ a \in Nat /\ z \in Nat /\ c = a - z
            /\ e \in Nat /\ f \in Nat /\ f <= a /\ z <= e
        BY <1>2, <1>5, <3>1
      <4> HIDE DEF r, a, c
      <4>2. r + k \in 1 .. c /\ z + (r + k) = e + k
        BY <3>2, <4>1
      <4> QED
        BY <4>2 DEF r, c
    <3> QED
      BY <1>5, <2>3, <3>3 DEF e
  <2> QED
    BY <2>5, <2>6 DEF s
<1>10. ASSUME NEW i \in m + 1 .. L, NEW j \in m + 1 .. L, i <= j
       PROVE  rest[i] <= rest[j]
  <2> DEFINE a == ends[i]
             c == ends[j]
  <2>1. a <= c
    BY <1>3, <1>6, <1>10
  <2>2. rest[i] = a - z /\ rest[j] = c - z /\ a \in Nat /\ c \in Nat /\ z \in Nat
    BY <1>2, <1>6
  <2> HIDE DEF a, c
  <2>3. a - z <= c - z
    BY <2>1, <2>2
  <2> QED
    BY <2>2, <2>3
<1>11. Laid(y, m + 1, ls, rest)
  BY <1>7, <1>8, <1>9, <1>10 DEF Laid, L
<1> QED
  BY <1>11 DEF Images

\* ffmpeg makes another image, whose bytes follow.
LEMMA ImageMade ==
  ASSUME NEW x \in Seq(PngByte), NEW ls \in Seq(Layouts), NEW m \in 0 .. Len(ls),
         Images(x, m, ls), NEW l \in Layouts
  PROVE  Images(x \o Encoder!Png(Len(ls) + 1, l), m, Append(ls, l))
<1> DEFINE L == Len(ls)
           z == Encoder!Size(l)
           y == x \o Encoder!Png(L + 1, l)
           all == Append(ls, l)
<1>1. PICK ends : Laid(x, m, ls, ends)
  BY DEF Images
<1>2. Len(x) \in Nat /\ L \in Nat /\ m \in Nat /\ m <= L
  OBVIOUS
<1>3. /\ z \in Nat
      /\ Len(y) = Len(x) + z
      /\ \A k \in 1 .. Len(x) : y[k] = x[k]
      /\ \A k \in 1 .. z : y[Len(x) + k] = Encoder!Byte(L + 1, l, k)
  <2> DEFINE png == Encoder!Png(L + 1, l)
  <2>1. /\ png \in Seq(PngByte) /\ Len(png) = z /\ z \in Nat
        /\ \A k \in 1 .. z : png[k] = Encoder!Byte(L + 1, l, k)
    BY <1>2, PngBytes, PartsAssumption
  <2>2. /\ y = x \o png
        /\ Len(x \o png) = Len(x) + Len(png)
        /\ \A k \in 1 .. Len(x) + Len(png) :
             (x \o png)[k] = IF k <= Len(x) THEN x[k] ELSE png[k - Len(x)]
    BY <2>1, ConcatProperties
  <2> HIDE DEF png, y, z
  <2>3. ASSUME NEW k \in 1 .. z PROVE y[Len(x) + k] = png[k]
    <3>1. Len(x) + k \in 1 .. Len(x) + z /\ ~(Len(x) + k <= Len(x))
          /\ (Len(x) + k) - Len(x) = k
      BY <1>2, <2>1
    <3> QED
      BY <2>1, <2>2, <3>1
  <2>4. ASSUME NEW k \in 1 .. Len(x) PROVE y[k] = x[k]
    <3>1. k \in 1 .. Len(x) + z /\ k <= Len(x)
      BY <1>2, <2>1
    <3> QED
      BY <2>1, <2>2, <3>1
  <2> QED
    BY <2>1, <2>2, <2>3, <2>4
<1>4. /\ Len(all) = L + 1 /\ all[L + 1] = l
      /\ \A i \in 1 .. L : all[i] = ls[i]
  OBVIOUS
<1> DEFINE more == [i \in m .. L + 1 |-> IF i = L + 1 THEN Len(y) ELSE ends[i]]
<1>5. /\ \A i \in m .. L : ends[i] \in 0 .. Len(x)
      /\ ends[m] = 0 /\ ends[L] = Len(x)
      /\ \A i \in m + 1 .. L :
           /\ ends[i] = ends[i - 1] + Encoder!Size(ls[i])
           /\ \A k \in 1 .. Encoder!Size(ls[i]) :
                x[ends[i - 1] + k] = Encoder!Byte(i, ls[i], k)
      /\ \A i, j \in m .. L : i <= j => ends[i] <= ends[j]
  BY <1>1 DEF Laid
<1>6. /\ more[L + 1] = Len(x) + z
      /\ \A i \in m .. L : more[i] = ends[i]
  <2>1. L + 1 \in m .. L + 1
    BY <1>2
  <2>2. \A i \in m .. L : i \in m .. L + 1 /\ i # L + 1
    BY <1>2
  <2> QED
    BY <1>3, <2>1, <2>2
<1>7. DOMAIN more = m .. L + 1
  OBVIOUS
<1>8. more = [i \in m .. L + 1 |-> more[i]]
  OBVIOUS
<1> HIDE DEF L, z, y, all, more
<1>9. ASSUME NEW i \in m .. L + 1 PROVE i = L + 1 \/ i \in m .. L
  BY <1>2
<1>10. more \in [m .. L + 1 -> 0 .. Len(y)]
  <2>1. ASSUME NEW i \in m .. L + 1 PROVE more[i] \in 0 .. Len(y)
    <3>1. more[i] = Len(x) + z \/ more[i] \in 0 .. Len(x)
      BY <1>5, <1>6, <1>9
    <3> QED
      BY <1>2, <1>3, <3>1
  <2> QED
    BY <1>8, <2>1
<1>11. more[m] = 0 /\ more[L + 1] = Len(y)
  <2>1. m \in m .. L
    BY <1>2
  <2> QED
    BY <1>3, <1>5, <1>6, <2>1
<1>12. ASSUME NEW i \in m + 1 .. L + 1
       PROVE  /\ more[i] = more[i - 1] + Encoder!Size(all[i])
              /\ \A k \in 1 .. Encoder!Size(all[i]) :
                   y[more[i - 1] + k] = Encoder!Byte(i, all[i], k)
  <2>1. CASE i = L + 1
    <3>1. i - 1 = L /\ L \in m .. L
      BY <1>2, <2>1
    <3>2. more[i - 1] = Len(x) /\ all[i] = l
      BY <1>4, <1>5, <1>6, <2>1, <3>1
    <3> QED
      BY <1>3, <1>6, <2>1, <3>2 DEF z
  <2>2. CASE i # L + 1
    <3>1. i \in m + 1 .. L /\ i \in m .. L /\ i - 1 \in m .. L /\ i \in 1 .. L
      BY <1>2, <2>2
    <3> DEFINE s == Encoder!Size(ls[i])
               e == ends[i - 1]
    <3>2. s \in Nat
      BY <3>1, LayoutOf DEF L
    <3>3. /\ all[i] = ls[i] /\ more[i] = ends[i] /\ more[i - 1] = e
          /\ e \in 0 .. Len(x) /\ ends[i] \in 0 .. Len(x) /\ ends[i] = e + s
          /\ \A k \in 1 .. s : x[e + k] = Encoder!Byte(i, ls[i], k)
      BY <1>4, <1>5, <1>6, <3>1
    <3> HIDE DEF s, e
    <3>4. ASSUME NEW k \in 1 .. s PROVE y[e + k] = Encoder!Byte(i, ls[i], k)
      <4>1. e + k \in 1 .. Len(x)
        BY <1>2, <3>2, <3>3
      <4> QED
        BY <1>3, <3>3, <4>1
    <3> QED
      BY <3>3, <3>4 DEF s
  <2> QED
    BY <2>1, <2>2
<1>13. ASSUME NEW i \in m .. L + 1, NEW j \in m .. L + 1, i <= j
       PROVE  more[i] <= more[j]
  <2>1. CASE j = L + 1
    <3>1. more[i] \in 0 .. Len(y) /\ more[j] = Len(y)
      BY <1>10, <1>11, <2>1
    <3> QED
      BY <1>2, <1>3, <3>1
  <2>2. CASE j \in m .. L
    <3>1. i \in m .. L
      BY <1>2, <1>13, <2>2
    <3> QED
      BY <1>5, <1>6, <1>13, <2>2, <3>1
  <2> QED
    BY <1>9, <2>1, <2>2
<1>14. Laid(y, m, all, more)
  BY <1>4, <1>10, <1>11, <1>12, <1>13 DEF Laid
<1> QED
  BY <1>14 DEF Images, y, all, L

-----------------------------------------------------------------------------
\* Where the loop of a write() stands, with w the bytes still in the pipe.
At == [buffer : Seq(PngByte), offset : Nat, start : {0},
       state : {"header", "chunk.header", "chunk.data"},
       chunk : [length : Nat, last : BOOLEAN], pngs : Seq(Seq(PngByte))]

\* Before an image, or in it before a chunk or behind the header of one.
InChunk(at, l) ==
  \E i \in DOMAIN l :
    \/ /\ at.state = "chunk.header"
       /\ at.offset = Encoder!Begin(l, i)
    \/ /\ at.state = "chunk.data"
       /\ at.offset = Encoder!Begin(l, i) + HEADER
       /\ at.chunk.length = Encoder!Length(l, i)
       /\ at.chunk.last = (i = Len(l))
InStep(at, ls) ==
  \/ at.state = "header" /\ at.offset = 0
  \/ Len(at.pngs) < Len(ls) /\ InChunk(at, ls[Len(at.pngs) + 1])

Right(w, ls) ==
  {at \in At : /\ at.offset <= Len(at.buffer)
               /\ Len(at.pngs) <= Len(ls)
               /\ \A i \in 1 .. Len(at.pngs) : at.pngs[i] = Encoder!Png(i, ls[i])
               /\ Images(at.buffer \o w, Len(at.pngs), ls)
               /\ InStep(at, ls)}

\* A turn returns: it would need more bytes.
Stuck(at) ==
  /\ at.state = "header" => Encoder!remainingBytes(at) < SIGNATURE
  /\ at.state = "chunk.header" => Encoder!remainingBytes(at) < HEADER
  /\ at.state = "chunk.data" =>
       Encoder!remainingBytes(at) < Encoder!ChunkSize(at.chunk)

\* What Right says of the sizes of things.
LEMMA RightFacts ==
  ASSUME NEW ls \in Seq(Layouts), NEW w \in Seq(PngByte), NEW at \in Right(w, ls)
  PROVE  /\ at \in At /\ at.buffer \in Seq(PngByte) /\ at.offset \in 0 .. Len(at.buffer)
         /\ Len(at.buffer) \in Nat /\ Len(at.pngs) \in 0 .. Len(ls)
         /\ at.pngs \in Seq(Seq(PngByte))
         /\ at.chunk \in [length : Nat, last : BOOLEAN]
         /\ Encoder!remainingBytes(at) = Len(at.buffer) - at.offset
         /\ Encoder!remainingBytes(at) \in Nat
         /\ at.buffer \o w \in Seq(PngByte)
         /\ Len(at.buffer \o w) = Len(at.buffer) + Len(w)
         /\ \A k \in 1 .. Len(at.buffer) : (at.buffer \o w)[k] = at.buffer[k]
<1>1. /\ at \in At /\ at.buffer \in Seq(PngByte) /\ at.offset \in Nat
      /\ at.offset <= Len(at.buffer) /\ at.pngs \in Seq(Seq(PngByte))
      /\ at.chunk \in [length : Nat, last : BOOLEAN]
      /\ Len(at.pngs) <= Len(ls)
  BY DEF Right, At
<1>2. /\ Len(at.buffer) \in Nat /\ Len(at.pngs) \in Nat /\ Len(ls) \in Nat
      /\ Len(w) \in Nat
  BY <1>1
<1>3. /\ at.buffer \o w \in Seq(PngByte)
      /\ Len(at.buffer \o w) = Len(at.buffer) + Len(w)
      /\ \A k \in 1 .. Len(at.buffer) + Len(w) :
           (at.buffer \o w)[k] = IF k <= Len(at.buffer) THEN at.buffer[k]
                                 ELSE w[k - Len(at.buffer)]
  BY <1>1, ConcatProperties
<1>4. ASSUME NEW k \in 1 .. Len(at.buffer) PROVE (at.buffer \o w)[k] = at.buffer[k]
  <2>1. k \in 1 .. Len(at.buffer) + Len(w) /\ k <= Len(at.buffer)
    BY <1>2
  <2> QED
    BY <1>3, <2>1
<1>5. at.offset \in 0 .. Len(at.buffer) /\ Len(at.pngs) \in 0 .. Len(ls)
  BY <1>1, <1>2
<1>6. /\ Encoder!remainingBytes(at) = Len(at.buffer) - at.offset
      /\ Encoder!remainingBytes(at) \in Nat
  BY <1>1, <1>2 DEF Encoder!remainingBytes
<1> QED
  BY <1>1, <1>2, <1>3, <1>4, <1>5, <1>6

\* A signature is read where an image begins.
LEMMA SignatureKeeps ==
  ASSUME NEW ls \in Seq(Layouts), NEW w \in Seq(PngByte), NEW at \in Right(w, ls),
         at.state = "header", Encoder!remainingBytes(at) >= SIGNATURE
  PROVE  /\ Encoder!Turn(at) \in Right(w, ls)
         /\ Encoder!remainingBytes(Encoder!Turn(at)) < Encoder!remainingBytes(at)
<1> DEFINE m == Len(at.pngs)
           new == [at EXCEPT !.offset = SIGNATURE, !.state = "chunk.header"]
<1>1. /\ at \in At /\ Len(at.buffer) \in Nat /\ m \in 0 .. Len(ls)
      /\ Encoder!remainingBytes(at) = Len(at.buffer) - at.offset
      /\ at.buffer \o w \in Seq(PngByte)
      /\ Len(at.buffer \o w) = Len(at.buffer) + Len(w)
  BY RightFacts
<1>2. /\ at.offset = 0 /\ at.start = 0 /\ Images(at.buffer \o w, m, ls)
  BY DEF Right, At, InStep, InChunk
<1>3. SIGNATURE \in Nat \ {0} /\ Len(at.buffer) >= SIGNATURE /\ Len(w) \in Nat
  BY <1>1, <1>2, PartsAssumption
<1>4. Encoder!Turn(at) = new
  <2>1. [at EXCEPT !.start = at.offset] = at
    BY <1>1, <1>2 DEF At
  <2>2. Encoder!Turn(at) = Encoder!ReadSignature(at)
    BY <2>1 DEF Encoder!Turn
  <2>3. 0 + SIGNATURE = SIGNATURE
    BY <1>3
  <2> QED
    BY <1>1, <1>2, <2>2, <2>3 DEF Encoder!ReadSignature, At
<1>5. /\ new \in At /\ new.offset = SIGNATURE /\ new.state = "chunk.header"
      /\ new.buffer = at.buffer /\ new.pngs = at.pngs
  BY <1>1, <1>3 DEF At
<1> HIDE DEF new
<1>6. m < Len(ls) /\ m + 1 \in 1 .. Len(ls)
  <2>1. Len(at.buffer \o w) > 0
    BY <1>1, <1>3
  <2> QED
    BY <1>1, <1>2, <2>1, FirstImage
<1>7. InChunk(new, ls[m + 1])
  <2> DEFINE l == ls[m + 1]
  <2>1. 1 \in DOMAIN l
    BY <1>6, LayoutOf DEF Encoder!IsLayout
  <2>2. Encoder!Begin(l, 1) = SIGNATURE
    BY DEF Encoder!Begin
  <2> QED
    BY <1>5, <2>1, <2>2 DEF InChunk
<1>8. new \in Right(w, ls)
  BY <1>3, <1>5, <1>6, <1>7 DEF Right, InStep
<1>9. Encoder!remainingBytes(new) < Encoder!remainingBytes(at)
  BY <1>1, <1>2, <1>3, <1>5 DEF Encoder!remainingBytes
<1> QED
  BY <1>4, <1>8, <1>9

\* The header of a chunk is read where one begins, and tells the chunk.
LEMMA ChunkHeaderKeeps ==
  ASSUME NEW ls \in Seq(Layouts), NEW w \in Seq(PngByte), NEW at \in Right(w, ls),
         at.state = "chunk.header", Encoder!remainingBytes(at) >= HEADER
  PROVE  /\ Encoder!Turn(at) \in Right(w, ls)
         /\ Encoder!remainingBytes(Encoder!Turn(at)) < Encoder!remainingBytes(at)
<1> DEFINE m == Len(at.pngs)
           l == ls[m + 1]
           x == at.buffer \o w
           byte == at.buffer[at.offset + 1]
           read == [length |-> byte.length, last |-> byte.last]
           new == [at EXCEPT !.chunk = read, !.offset = at.offset + HEADER,
                             !.state = "chunk.data"]
<1>1. /\ at \in At /\ Len(at.buffer) \in Nat /\ m \in 0 .. Len(ls)
      /\ at.offset \in 0 .. Len(at.buffer)
      /\ Encoder!remainingBytes(at) = Len(at.buffer) - at.offset
      /\ x \in Seq(PngByte) /\ \A k \in 1 .. Len(at.buffer) : x[k] = at.buffer[k]
  BY RightFacts
<1>2. Images(x, m, ls) /\ m < Len(ls) /\ InChunk(at, l)
  BY DEF Right, InStep
<1>3. /\ m + 1 \in 1 .. Len(ls)
      /\ \A k \in 1 .. Encoder!Size(l) : x[k] = Encoder!Byte(m + 1, l, k)
  BY <1>1, <1>2, FirstImage
<1>4. PICK i \in DOMAIN l : at.offset = Encoder!Begin(l, i)
  BY <1>2 DEF InChunk
<1>5. HEADER \in Nat \ {0} /\ CRC \in Nat /\ Len(at.buffer) - at.offset >= HEADER
  BY <1>1, PartsAssumption
<1>6. Encoder!IsLayout(l) /\ m + 1 \in Nat
  BY <1>3, LayoutOf
<1>7. at.offset + 1 \in 1 .. Encoder!Size(l) /\ at.offset + 1 \in 1 .. Len(at.buffer)
  <2>1. /\ Encoder!Begin(l, i) \in Nat /\ Encoder!Begin(l, i) + HEADER + CRC <= l[i]
        /\ l[i] <= Encoder!Size(l) /\ l[i] \in Nat /\ Encoder!Size(l) \in Nat
    BY <1>6, ChunkPlaces
  <2> DEFINE o == at.offset
             n == Len(at.buffer)
             z == Encoder!Size(l)
             e == l[i]
  <2>2. /\ o \in Nat /\ n \in Nat /\ z \in Nat /\ e \in Nat
        /\ n - o >= HEADER /\ HEADER \in Nat \ {0} /\ CRC \in Nat
        /\ o + HEADER + CRC <= e /\ e <= z
    BY <1>1, <1>4, <1>5, <2>1
  <2> HIDE DEF o, n, z, e
  <2>3. o + 1 \in 1 .. z /\ o + 1 \in 1 .. n
    BY <2>2
  <2> QED
    BY <2>3 DEF o, n, z
<1>8. byte.length = Encoder!Length(l, i) /\ byte.last = (i = Len(l))
  <2>1. byte = Encoder!Byte(m + 1, l, Encoder!Begin(l, i) + 1)
    BY <1>1, <1>3, <1>4, <1>7
  <2> HIDE DEF byte, m, l
  <2> QED
    BY <1>6, <2>1, ChunkHead
<1>9. read \in [length : Nat, last : BOOLEAN]
  <2>1. Encoder!Length(l, i) \in Nat
    BY <1>6, ChunkPlaces
  <2> QED
    BY <1>8, <2>1
<1>10. Encoder!Turn(at) = new
  BY DEF Encoder!Turn, Encoder!ReadChunkHeader
<1> HIDE DEF read
<1>11. /\ new \in At /\ new.offset = at.offset + HEADER /\ new.state = "chunk.data"
       /\ new.buffer = at.buffer /\ new.pngs = at.pngs /\ new.chunk = read
  <2>1. at.offset + HEADER \in Nat
    BY <1>1, <1>5
  <2> QED
    BY <1>1, <1>9, <2>1 DEF At
<1> HIDE DEF new
<1>12. InChunk(new, l)
  BY <1>4, <1>8, <1>11 DEF InChunk, read
<1>13. new \in Right(w, ls)
  <2>1. new.offset <= Len(new.buffer)
    BY <1>1, <1>5, <1>11
  <2> QED
    BY <1>2, <1>11, <1>12, <2>1 DEF Right, InStep
<1>14. Encoder!remainingBytes(new) < Encoder!remainingBytes(at)
  BY <1>1, <1>5, <1>11 DEF Encoder!remainingBytes
<1> QED
  BY <1>10, <1>13, <1>14

\* The data of a chunk are read: the next one begins there, or the image ends
\* there, is emitted, and leaves the buffer.
LEMMA ChunkDataKeeps ==
  ASSUME NEW ls \in Seq(Layouts), NEW w \in Seq(PngByte), NEW at \in Right(w, ls),
         at.state = "chunk.data",
         Encoder!remainingBytes(at) >= Encoder!ChunkSize(at.chunk)
  PROVE  /\ Encoder!Turn(at) \in Right(w, ls)
         /\ Encoder!remainingBytes(Encoder!Turn(at)) < Encoder!remainingBytes(at)
<1> DEFINE m == Len(at.pngs)
           l == ls[m + 1]
           b == at.buffer
           x == b \o w
           end == at.offset + Encoder!ChunkSize(at.chunk)
<1>1. /\ at \in At /\ b \in Seq(PngByte) /\ Len(b) \in Nat /\ m \in 0 .. Len(ls)
      /\ at.offset \in 0 .. Len(b) /\ at.pngs \in Seq(Seq(PngByte))
      /\ at.chunk \in [length : Nat, last : BOOLEAN]
      /\ Encoder!remainingBytes(at) = Len(b) - at.offset
      /\ x \in Seq(PngByte) /\ Len(x) = Len(b) + Len(w)
      /\ \A k \in 1 .. Len(b) : x[k] = b[k]
  BY RightFacts
<1>2. /\ Images(x, m, ls) /\ m < Len(ls) /\ InChunk(at, l) /\ at.start = 0
      /\ \A i \in 1 .. m : at.pngs[i] = Encoder!Png(i, ls[i])
  BY DEF Right, InStep, At
<1>3. /\ m + 1 \in 1 .. Len(ls)
      /\ Encoder!Size(l) <= Len(x)
      /\ \A k \in 1 .. Encoder!Size(l) : x[k] = Encoder!Byte(m + 1, l, k)
  BY <1>1, <1>2, FirstImage
<1>4. PICK i \in DOMAIN l : /\ at.offset = Encoder!Begin(l, i) + HEADER
                            /\ at.chunk.length = Encoder!Length(l, i)
                            /\ at.chunk.last = (i = Len(l))
  BY <1>2 DEF InChunk
<1>5. Encoder!IsLayout(l) /\ m + 1 \in Nat
  BY <1>3, LayoutOf
<1>6. /\ end = l[i] /\ end \in Nat /\ end > at.offset /\ end <= Len(b)
      /\ i \in 1 .. Len(l) /\ Len(l) \in Nat
      /\ i < Len(l) => i + 1 \in DOMAIN l /\ Encoder!Begin(l, i + 1) = end
  <2>1. /\ Encoder!Begin(l, i) \in Nat /\ Encoder!Length(l, i) \in Nat /\ l[i] \in Nat
        /\ Encoder!Begin(l, i) + HEADER + Encoder!Length(l, i) + CRC = l[i]
        /\ i \in 1 .. Len(l) /\ Len(l) \in Nat
        /\ i < Len(l) => i + 1 \in DOMAIN l /\ Encoder!Begin(l, i + 1) = l[i]
    BY <1>5, ChunkPlaces
  <2>2. Encoder!ChunkSize(at.chunk) = Encoder!Length(l, i) + CRC
    BY <1>4 DEF Encoder!ChunkSize
  <2> DEFINE n == Len(b)
             size == Encoder!ChunkSize(at.chunk)
             o == at.offset
             bg == Encoder!Begin(l, i)
             len == Encoder!Length(l, i)
             e == l[i]
  <2>3. /\ n \in Nat /\ o \in 0 .. n /\ n - o >= size /\ CRC \in Nat \ {0}
    BY <1>1, PartsAssumption
  <2>4. end = o + size /\ size = len + CRC /\ o = bg + HEADER
    BY <1>4, <2>2
  <2>5. bg \in Nat /\ len \in Nat /\ e \in Nat /\ bg + HEADER + len + CRC = e
    BY <2>1
  <2> HIDE DEF l, n, end, size, o, bg, len, e
  <2>6. end = e /\ end > o
    BY <2>3, <2>4, <2>5, PartsAssumption, SMTT(30)
  <2>7. end <= n /\ end \in Nat
    BY <2>3, <2>4, <2>5, SMTT(30)
  <2> QED
    BY <2>1, <2>6, <2>7 DEF n, o, e
<1>7. Encoder!Turn(at) = Encoder!ReadChunkData(at)
  BY DEF Encoder!Turn
<1>8. CASE ~at.chunk.last
  <2> DEFINE new == [at EXCEPT !.offset = end, !.state = "chunk.header"]
  <2>1. Encoder!Turn(at) = new
    BY <1>7, <1>8 DEF Encoder!ReadChunkData
  <2> HIDE DEF end
  <2>2. /\ new \in At /\ new.offset = end /\ new.state = "chunk.header"
        /\ new.buffer = b /\ new.pngs = at.pngs
    BY <1>1, <1>6 DEF At
  <2> HIDE DEF new
  <2>3. i < Len(l)
    <3>1. i # Len(l)
      BY <1>4, <1>8
    <3> HIDE DEF l
    <3> QED
      BY <1>6, <3>1
  <2>4. InChunk(new, l)
    BY <1>6, <2>2, <2>3 DEF InChunk
  <2>5. new \in Right(w, ls)
    BY <1>2, <1>6, <2>2, <2>4 DEF Right, InStep
  <2>6. Encoder!remainingBytes(new) < Encoder!remainingBytes(at)
    BY <1>1, <1>6, <2>2, SMTT(30) DEF Encoder!remainingBytes
  <2> QED
    BY <2>1, <2>5, <2>6
<1>9. CASE at.chunk.last
  <2> DEFINE png == SubSeq(b, 1, end)
             rest == SubSeq(b, end + 1, Len(b))
             new == [at EXCEPT !.pngs = Append(@, png), !.buffer = rest,
                               !.offset = 0, !.state = "header"]
  <2>1. Encoder!Turn(at) = new
    <3>1. Encoder!ReadChunkData(at)
            = [at EXCEPT !.pngs = Append(@, SubSeq(at.buffer, at.start + 1, end)),
                         !.buffer = SubSeq(@, end + 1, Len(@)),
                         !.offset = 0, !.state = "header"]
      BY <1>9 DEF Encoder!ReadChunkData
    <3>2. at.start + 1 = 1
      BY <1>2
    <3> HIDE DEF end
    <3> QED
      BY <1>1, <1>7, <3>1, <3>2 DEF At
  <2> HIDE DEF end
  <2>2. i = Len(l) /\ end = Encoder!Size(l)
    BY <1>4, <1>6, <1>9 DEF Encoder!Size
  <2>3. /\ png \in Seq(PngByte) /\ Len(png) = end
        /\ \A k \in 1 .. end : png[k] = b[k]
    BY <1>1, <1>6, SMTT(30)
  <2>4. /\ rest \in Seq(PngByte) /\ Len(rest) = Len(b) - end
        /\ \A k \in 1 .. Len(b) - end : rest[k] = b[end + k]
    <3>1. b \in Seq(PngByte) /\ end \in Nat /\ Len(b) \in Nat /\ end <= Len(b)
      BY <1>1, <1>6
    <3> HIDE DEF b
    <3> QED
      BY <3>1
  <2> HIDE DEF png, rest
  <2>5. /\ new \in At /\ new.offset = 0 /\ new.state = "header"
        /\ new.buffer = rest /\ new.pngs = Append(at.pngs, png)
    <3>1. png \in Seq(PngByte)
      BY <2>3
    <3>2. Append(at.pngs, png) \in Seq(Seq(PngByte))
      BY <1>1, <3>1
    <3> QED
      BY <1>1, <2>4, <3>2 DEF At
  <2> HIDE DEF new
  <2>6. png = Encoder!Png(m + 1, l)
    <3> DEFINE p == Encoder!Png(m + 1, l)
    <3>1. /\ p \in Seq(PngByte) /\ Len(p) = end
          /\ \A k \in 1 .. end : p[k] = Encoder!Byte(m + 1, l, k)
      BY <1>5, <2>2, PngBytes
    <3>2. ASSUME NEW k \in 1 .. end PROVE png[k] = p[k]
      <4>1. k \in 1 .. Len(b)
        BY <1>1, <1>6
      <4>2. b[k] = Encoder!Byte(m + 1, l, k)
        BY <1>1, <1>3, <2>2, <4>1
      <4> QED
        BY <2>3, <3>1, <4>2
    <3> HIDE DEF p
    <3>3. png = p
      BY <2>3, <3>1, <3>2, SeqEqual
    <3> QED
      BY <3>3 DEF p
  <2>7. /\ Len(new.pngs) = m + 1 /\ new.pngs[m + 1] = png
        /\ \A k \in 1 .. m : new.pngs[k] = at.pngs[k]
    BY <1>1, <2>3, <2>5
  <2>8. \A k \in 1 .. m + 1 : new.pngs[k] = Encoder!Png(k, ls[k])
    <3>1. \A k \in 1 .. m + 1 : k = m + 1 \/ k \in 1 .. m
      BY <1>1
    <3> QED
      BY <1>2, <2>6, <2>7, <3>1
  <2>9. Images(rest \o w, m + 1, ls)
    <3> DEFINE y == rest \o w
    <3>1. /\ y \in Seq(PngByte) /\ Len(y) = Len(rest) + Len(w)
          /\ \A k \in 1 .. Len(rest) + Len(w) :
               y[k] = IF k <= Len(rest) THEN rest[k] ELSE w[k - Len(rest)]
      BY <2>4, ConcatProperties
    <3>2. \A k \in 1 .. Len(b) + Len(w) :
            x[k] = IF k <= Len(b) THEN b[k] ELSE w[k - Len(b)]
      BY <1>1, ConcatProperties
    <3>3. Len(w) \in Nat
      OBVIOUS
    <3> HIDE DEF y, x, b
    <3>4. Len(y) = Len(x) - end
      BY <1>1, <1>6, <2>4, <3>1, <3>3
    <3>5. ASSUME NEW k \in 1 .. Len(y) PROVE y[k] = x[end + k]
      <4>1. /\ k \in 1 .. Len(rest) + Len(w) /\ end + k \in 1 .. Len(b) + Len(w)
            /\ k <= Len(rest) <=> end + k <= Len(b)
            /\ k - Len(rest) = (end + k) - Len(b)
        <5> DEFINE r == Len(rest)
                   n == Len(b)
                   v == Len(w)
        <5>1. /\ end \in Nat /\ end <= n /\ n \in Nat /\ v \in Nat /\ r = n - end
              /\ k \in 1 .. r + v
          BY <1>1, <1>6, <2>4, <3>1, <3>3
        <5> HIDE DEF r, n, v
        <5>2. /\ k \in 1 .. r + v /\ end + k \in 1 .. n + v
              /\ k <= r <=> end + k <= n
              /\ k - r = (end + k) - n
          BY <5>1
        <5> QED
          BY <5>2 DEF r, n, v
      <4>2. CASE k <= Len(rest)
        <5>1. k \in 1 .. Len(b) - end
          BY <2>4, <4>2, <3>3, <4>1
        <5> QED
          BY <2>4, <3>1, <3>2, <4>1, <4>2, <5>1
      <4>3. CASE ~(k <= Len(rest))
        BY <3>1, <3>2, <4>1, <4>3
      <4> QED
        BY <4>2, <4>3
    <3>6. Images(y, m + 1, ls)
      BY <1>1, <1>2, <2>2, <3>1, <3>4, <3>5, ImageTaken
    <3> QED
      BY <3>6 DEF y
  <2>10. new \in Right(w, ls)
    <3>1. new.offset <= Len(new.buffer) /\ Len(new.pngs) <= Len(ls)
      BY <1>1, <1>3, <2>4, <2>5, <2>7
    <3> QED
      BY <2>5, <2>7, <2>8, <2>9, <3>1 DEF Right, InStep
  <2>11. Encoder!remainingBytes(new) < Encoder!remainingBytes(at)
    BY <1>1, <1>6, <2>4, <2>5, SMTT(30) DEF Encoder!remainingBytes
  <2> QED
    BY <2>1, <2>10, <2>11
<1> QED
  BY <1>8, <1>9

\* A turn stays right, and takes bytes unless it returns.
LEMMA TurnKeeps ==
  ASSUME NEW ls \in Seq(Layouts), NEW w \in Seq(PngByte), NEW at \in Right(w, ls)
  PROVE  /\ Encoder!Turn(at) \in Right(w, ls)
         /\ Stuck(at) => Encoder!Turn(at) = at
         /\ ~Stuck(at) => Encoder!remainingBytes(Encoder!Turn(at))
                            < Encoder!remainingBytes(at)
<1>1. /\ at \in At /\ Encoder!remainingBytes(at) \in Nat
      /\ at.chunk.length \in Nat
      /\ at.state \in {"header", "chunk.header", "chunk.data"}
  BY RightFacts DEF At
<1>2. /\ SIGNATURE \in Nat /\ HEADER \in Nat
      /\ Encoder!ChunkSize(at.chunk) \in Nat
  BY <1>1, PartsAssumption DEF Encoder!ChunkSize
<1>3. CASE Stuck(at)
  <2>1. at.state = "header" => [at EXCEPT !.start = at.offset] = at
    BY <1>1 DEF Right, At, InStep, InChunk
  <2>2. /\ at.state = "header" => ~(Encoder!remainingBytes(at) >= SIGNATURE)
        /\ at.state = "chunk.header" => ~(Encoder!remainingBytes(at) >= HEADER)
        /\ at.state = "chunk.data" =>
             ~(Encoder!remainingBytes(at) >= Encoder!ChunkSize(at.chunk))
    BY <1>1, <1>2, <1>3 DEF Stuck
  <2>3. Encoder!Turn(at) = at
    BY <1>1, <2>1, <2>2 DEF Encoder!Turn
  <2> QED
    BY <1>3, <2>3
<1>4. CASE ~Stuck(at)
  <2>1. \/ at.state = "header" /\ Encoder!remainingBytes(at) >= SIGNATURE
        \/ at.state = "chunk.header" /\ Encoder!remainingBytes(at) >= HEADER
        \/ /\ at.state = "chunk.data"
           /\ Encoder!remainingBytes(at) >= Encoder!ChunkSize(at.chunk)
    BY <1>1, <1>2, <1>4 DEF Stuck
  <2> QED
    BY <1>4, <2>1, SignatureKeeps, ChunkHeaderKeeps, ChunkDataKeeps
<1> QED
  BY <1>3, <1>4

\* What the turns of a loop lead to, one after the other.
TurnsOf(g, S, start) ==
  LET turns == Len(start.buffer) + 1
  IN  /\ g \in [0 .. turns -> S]
      /\ g[0] = start
      /\ \A k \in 1 .. turns : g[k] = Encoder!Turn(g[k - 1])
      /\ Encoder!Loop(start) = g[turns]

\* The loop takes these turns: the function its definition chooses is theirs.
LEMMA LoopIsTurns ==
  ASSUME NEW S, NEW start \in S, Len(start.buffer) \in Nat,
         \A at \in S : Encoder!Turn(at) \in S
  PROVE  \E g : TurnsOf(g, S, start)
<1> DEFINE N == Len(start.buffer) + 1
           F == [at \in S |-> Encoder!Turn(at)]
           Turns(h) == h = [k \in 0 .. N |->
                              IF k = 0 THEN start ELSE Encoder!Turn(h[k - 1])]
<1>1. N \in Nat /\ Len(start.buffer) + 1 = N
  OBVIOUS
<1>2. F \in [S -> S] /\ \A at \in S : F[at] = Encoder!Turn(at)
  OBVIOUS
<1> HIDE DEF F, N
<1>3. PICK g : Iterates(g, N, S, start, F)
  BY <1>1, <1>2, Iteration
<1>4. \A k \in 1 .. N : g[k] = Encoder!Turn(g[k - 1])
  <2> SUFFICES ASSUME NEW k \in 1 .. N PROVE g[k] = Encoder!Turn(g[k - 1])
    OBVIOUS
  <2>1. g[k - 1] \in S
    BY <1>1, <1>3 DEF Iterates
  <2> QED
    BY <1>2, <1>3, <2>1 DEF Iterates
<1>5. Turns(g)
  <2> DEFINE e == [k \in 0 .. N |-> IF k = 0 THEN start ELSE Encoder!Turn(g[k - 1])]
  <2>1. \A k \in 0 .. N : g[k] = e[k]
    BY <1>1, <1>3, <1>4 DEF Iterates
  <2> QED
    BY <1>3, <2>1 DEF Iterates
<1>6. PICK h : Turns(h) /\ Encoder!Loop(start) = h[N]
  BY <1>1, <1>5 DEF Encoder!Loop
<1>7. \A k \in 0 .. N : h[k] = IF k = 0 THEN start ELSE Encoder!Turn(h[k - 1])
  BY <1>6
<1> DEFINE T == {k \in 0 .. N : h[k] \in S}
<1>8. 0 \in T
  BY <1>1, <1>7
<1>9. ASSUME NEW k \in 0 .. N - 1, k \in T PROVE k + 1 \in T
  <2>1. h[k] \in S /\ k + 1 \in 0 .. N /\ k + 1 # 0 /\ (k + 1) - 1 = k
    BY <1>1, <1>9
  <2>2. h[k + 1] = Encoder!Turn(h[k])
    BY <1>7, <2>1
  <2> QED
    BY <2>1, <2>2
<1> HIDE DEF T
<1>10. \A k \in 0 .. N : k \in T
  BY <1>1, <1>8, <1>9, Induction
<1>11. h \in [0 .. N -> S]
  BY <1>6, <1>10 DEF T
<1>12. \A k \in 1 .. N : h[k] = Encoder!Turn(h[k - 1])
  BY <1>1, <1>7
<1>13. h[0] = start
  BY <1>1, <1>7
<1>14. TurnsOf(h, S, start)
  BY <1>6, <1>11, <1>12, <1>13 DEF TurnsOf, N
<1> QED
  BY <1>14

\* The loop returns, and stands right then.
LEMMA LoopIsRight ==
  ASSUME NEW ls \in Seq(Layouts), NEW w \in Seq(PngByte), NEW start \in Right(w, ls)
  PROVE  Encoder!Loop(start) \in Right(w, ls) /\ Stuck(Encoder!Loop(start))
<1> DEFINE S == Right(w, ls)
           n == Len(start.buffer)
           Left(at) == Encoder!remainingBytes(at)
<1>1. /\ \A at \in S : Encoder!Turn(at) \in S /\ Left(at) \in Nat
      /\ \A at \in S : Stuck(at) => Encoder!Turn(at) = at
      /\ \A at \in S : ~Stuck(at) => Left(Encoder!Turn(at)) < Left(at)
  BY TurnKeeps, RightFacts
<1>2. n \in Nat /\ start \in S /\ Left(start) <= n
  BY RightFacts
<1> HIDE DEF S, Left
<1>3. PICK g : TurnsOf(g, S, start)
  BY <1>1, <1>2, LoopIsTurns
<1>4. /\ \A k \in 0 .. n + 1 : g[k] \in S
      /\ g[0] = start
      /\ \A k \in 1 .. n + 1 : g[k] = Encoder!Turn(g[k - 1])
      /\ Encoder!Loop(start) = g[n + 1]
  BY <1>3 DEF TurnsOf
<1> HIDE DEF n
<1> DEFINE T == {k \in 0 .. n + 1 : Stuck(g[k]) \/ Left(g[k]) + k <= n}
<1>5. 0 \in T
  BY <1>1, <1>2, <1>4
<1>6. ASSUME NEW k \in 0 .. (n + 1) - 1, k \in T PROVE k + 1 \in T
  <2>1. /\ k \in 0 .. n + 1 /\ k + 1 \in 1 .. n + 1 /\ k + 1 \in 0 .. n + 1
        /\ (k + 1) - 1 = k
    BY <1>2
  <2>2. g[k] \in S /\ g[k + 1] = Encoder!Turn(g[k])
    BY <1>4, <2>1
  <2>3. CASE Stuck(g[k])
    BY <1>1, <2>1, <2>2, <2>3
  <2>4. CASE ~Stuck(g[k])
    <3>1. /\ Left(g[k]) \in Nat /\ Left(g[k + 1]) \in Nat
          /\ Left(g[k + 1]) < Left(g[k])
      BY <1>1, <2>2, <2>4
    <3>2. Left(g[k]) + k <= n
      BY <1>6, <2>4
    <3>3. Left(g[k + 1]) + (k + 1) <= n
      BY <1>2, <2>1, <3>1, <3>2
    <3> QED
      BY <2>1, <3>3
  <2> QED
    BY <2>3, <2>4
<1> HIDE DEF T
<1>7. n + 1 \in T
  <2>1. n + 1 \in Nat /\ n + 1 \in 0 .. n + 1
    BY <1>2
  <2>2. \A k \in 0 .. n + 1 : k \in T
    BY <1>5, <1>6, <2>1, Induction
  <2> QED
    BY <2>1, <2>2
<1>8. g[n + 1] \in S /\ Left(g[n + 1]) \in Nat
  BY <1>1, <1>2, <1>4
<1>9. Stuck(g[n + 1])
  BY <1>2, <1>7, <1>8 DEF T
<1> QED
  BY <1>4, <1>8, <1>9 DEF S

-----------------------------------------------------------------------------
\* A loop that waits for more bytes has emitted every image that has come to
\* its last byte.
LEMMA ReceivedIsEmitted ==
  ASSUME NEW ls \in Seq(Layouts), NEW w \in Seq(PngByte), NEW at \in Right(w, ls),
         Stuck(at), NEW i \in 1 .. Len(ls), \A k \in DOMAIN w : w[k].png # i
  PROVE  i <= Len(at.pngs)
<1> DEFINE b == at.buffer
           x == b \o w
           m == Len(at.pngs)
           l == ls[m + 1]
           n == Len(b)
           v == Len(w)
           z == Encoder!Size(l)
<1>1. SUFFICES ASSUME i > m PROVE FALSE
  BY RightFacts
<1>2. /\ at \in At /\ b \in Seq(PngByte) /\ n \in Nat /\ v \in Nat /\ m \in Nat
      /\ at.offset \in 0 .. n
      /\ Encoder!remainingBytes(at) = n - at.offset
      /\ x \in Seq(PngByte) /\ Len(x) = n + v
      /\ Len(ls) \in Nat /\ i \in Nat
  BY RightFacts
<1>3. \A k \in 1 .. n + v : x[k] = IF k <= n THEN b[k] ELSE w[k - n]
  BY <1>2, ConcatProperties
<1>4. Images(x, m, ls) /\ InStep(at, ls)
  BY DEF Right
<1>5. PICK ends : Laid(x, m, ls, ends)
  BY <1>4 DEF Images
<1> HIDE DEF x, n, v, m
<1>6. /\ i \in m + 1 .. Len(ls) /\ i \in m .. Len(ls) /\ i - 1 \in m .. Len(ls)
      /\ m + 1 \in m + 1 .. Len(ls) /\ m + 1 \in m .. Len(ls) /\ m + 1 \in 1 .. Len(ls)
      /\ m \in m .. Len(ls) /\ (m + 1) - 1 = m /\ m + 1 <= i
  BY <1>1, <1>2
<1>7. ends[i] <= n
  <2> DEFINE s == Encoder!Size(ls[i])
             e == ends[i - 1]
  <2>1. /\ s \in Nat \ {0}
        /\ \A k \in 1 .. s : Encoder!Byte(i, ls[i], k).png = i
    BY LayoutOf
  <2>2. /\ ends[i] = e + s /\ ends[i] \in 0 .. Len(x) /\ e \in 0 .. Len(x)
        /\ \A k \in 1 .. s : x[e + k] = Encoder!Byte(i, ls[i], k)
    BY <1>5, <1>6 DEF Laid
  <2> HIDE DEF s, e
  <2>3. x[ends[i]].png = i
    <3>1. s \in 1 .. s
      BY <2>1
    <3> QED
      BY <2>1, <2>2, <3>1
  <2>4. ASSUME ends[i] > n PROVE FALSE
    <3>1. ends[i] \in 1 .. n + v /\ ~(ends[i] <= n) /\ ends[i] - n \in 1 .. v
      BY <1>2, <2>2, <2>4, SMTT(30)
    <3>2. x[ends[i]] = w[ends[i] - n] /\ ends[i] - n \in DOMAIN w
      BY <1>3, <3>1 DEF v
    <3> QED
      BY <2>3, <3>2
  <2>5. ends[i] \in Nat
    BY <1>2, <2>2
  <2> QED
    BY <1>2, <2>4, <2>5
<1>8. z <= n /\ Encoder!IsLayout(l)
  <2>1. Encoder!IsLayout(l) /\ z \in Nat
    BY <1>6, LayoutOf
  <2>2. ends[m + 1] = ends[m] + Encoder!Size(ls[m + 1]) /\ ends[m] = 0
    BY <1>5, <1>6 DEF Laid
  <2>3. ends[m + 1] <= ends[i] /\ ends[i] \in 0 .. Len(x)
    BY <1>5, <1>6 DEF Laid
  <2>4. z <= ends[i]
    BY <2>1, <2>2, <2>3
  <2> HIDE DEF z
  <2> QED
    BY <1>2, <1>7, <2>1, <2>3, <2>4
<1>9. CASE at.state = "header" /\ at.offset = 0
  <2>1. Len(l) \in DOMAIN l
    BY <1>8 DEF Encoder!IsLayout
  <2>2. z \in Nat /\ SIGNATURE + HEADER + CRC <= z
    BY <1>8, <2>1, ChunkPlaces DEF Encoder!IsLayout, Encoder!Size
  <2>3. n - 0 < SIGNATURE
    BY <1>2, <1>9 DEF Stuck
  <2> HIDE DEF z
  <2> QED
    BY <1>2, <1>8, <2>2, <2>3, PartsAssumption, SMTT(30)
<1>10. CASE InChunk(at, l)
  <2>1. PICK j \in DOMAIN l :
          \/ /\ at.state = "chunk.header"
             /\ at.offset = Encoder!Begin(l, j)
          \/ /\ at.state = "chunk.data"
             /\ at.offset = Encoder!Begin(l, j) + HEADER
             /\ at.chunk.length = Encoder!Length(l, j)
    BY <1>10 DEF InChunk
  <2> DEFINE bg == Encoder!Begin(l, j)
             len == Encoder!Length(l, j)
             e == l[j]
             o == at.offset
  <2>2. /\ bg \in Nat /\ len \in Nat /\ e \in Nat /\ z \in Nat
        /\ bg + HEADER + len + CRC = e /\ bg + HEADER + CRC <= e /\ e <= z
    BY <1>8, ChunkPlaces
  <2>3. \/ o = bg /\ n - o < HEADER
        \/ o = bg + HEADER /\ n - o < len + CRC
    BY <1>2, <2>1 DEF Stuck, Encoder!ChunkSize
  <2>4. HEADER \in Nat /\ CRC \in Nat \ {0} /\ n \in Nat /\ o \in 0 .. n /\ z <= n
    BY <1>2, <1>8, PartsAssumption
  <2> HIDE DEF bg, len, z, e, o
  <2> QED
    BY <2>2, <2>3, <2>4
<1> QED
  BY <1>4, <1>9, <1>10 DEF InStep, m

\* What holds between two writes: the splitter stands right for the bytes of
\* the pipe, and waits for more of them.
EncoderInv ==
  /\ ffmpeg \in {"none", "running", "exited"}
  /\ ending \in BOOLEAN
  /\ told \in {"nothing", "end", "error"}
  /\ layouts \in Seq(Layouts)
  /\ stdout \in Seq(PngByte)
  /\ buffer \in Seq(PngByte)
  /\ Encoder!Standing(buffer) \in Right(stdout, layouts)
  /\ Stuck(Encoder!Standing(buffer))

\* The conditions of EncoderInv, in the variables of the splitter.
LEMMA StandingFacts ==
  ASSUME NEW b
  PROVE  /\ Encoder!Standing(b).buffer = b /\ Encoder!Standing(b).offset = offset
         /\ Encoder!Standing(b).start = pngStartOffset
         /\ Encoder!Standing(b).state = state /\ Encoder!Standing(b).chunk = chunk
         /\ Encoder!Standing(b).pngs = pngs
BY DEF Encoder!Standing

\* The two properties of the encoder that the runs check.
LEMMA EncoderInvImplies ==
  ASSUME EncoderInv
  PROVE  Encoder!EncoderTypeOK /\ ExactlyOnePng
<1> DEFINE at == Encoder!Standing(buffer)
<1>1. /\ at \in Right(stdout, layouts) /\ Stuck(at)
      /\ layouts \in Seq(Layouts) /\ stdout \in Seq(PngByte)
      /\ at.buffer = buffer /\ at.offset = offset /\ at.start = pngStartOffset
      /\ at.state = state /\ at.pngs = pngs
  BY StandingFacts DEF EncoderInv
<1> HIDE DEF at
<1>2. /\ at \in At /\ at.offset \in 0 .. Len(at.buffer)
      /\ Len(at.pngs) \in 0 .. Len(layouts) /\ at.pngs \in Seq(Seq(PngByte))
      /\ Len(at.buffer) \in Nat
  BY <1>1, RightFacts
<1>3. Encoder!EncoderTypeOK
  <2>1. offset \in 0 .. Len(buffer) /\ pngStartOffset = 0
        /\ state \in {"header", "chunk.header", "chunk.data"}
    BY <1>1, <1>2 DEF At
  <2> QED
    BY <2>1 DEF Encoder!EncoderTypeOK, EncoderInv
<1>4. ASSUME NEW i \in DOMAIN pngs PROVE pngs[i] = Encoder!Png(i, layouts[i])
  <2>1. i \in 1 .. Len(at.pngs)
    BY <1>1, <1>2
  <2> QED
    BY <1>1, <2>1 DEF Right
<1>5. ASSUME NEW i \in DOMAIN layouts, Encoder!Received(i) PROVE Encoder!Emitted(i)
  <2>1. i \in 1 .. Len(layouts) /\ \A k \in DOMAIN stdout : stdout[k].png # i
    BY <1>1, <1>5 DEF Encoder!Received
  <2>2. i <= Len(at.pngs)
    BY <1>1, <2>1, ReceivedIsEmitted
  <2> QED
    BY <1>1, <2>2 DEF Encoder!Emitted
<1> QED
  BY <1>3, <1>4, <1>5 DEF ExactlyOnePng, Encoder!ExactlyOnePng

\* Nothing has been made, delivered or emitted.
LEMMA EncoderInitInv == Encoder!EncoderInit => EncoderInv
<1> SUFFICES ASSUME Encoder!EncoderInit PROVE EncoderInv
  OBVIOUS
<1> DEFINE at == Encoder!Standing(buffer)
<1>1. /\ buffer = <<>> /\ stdout = <<>> /\ layouts = <<>> /\ pngs = <<>>
      /\ offset = 0 /\ pngStartOffset = 0 /\ state = "header"
      /\ chunk = [length |-> 0, last |-> FALSE]
  BY DEF Encoder!EncoderInit, Encoder!SplitterInit
<1>2. /\ at = [buffer |-> <<>>, offset |-> 0, start |-> 0, state |-> "header",
               chunk |-> [length |-> 0, last |-> FALSE], pngs |-> <<>>]
      /\ <<>> \in Seq(PngByte) /\ <<>> \in Seq(Seq(PngByte)) /\ <<>> \in Seq(Layouts)
  BY <1>1 DEF Encoder!Standing
<1>3. at \in At
  BY <1>2 DEF At
<1>4. /\ at.buffer = <<>> /\ at.offset = 0 /\ at.state = "header" /\ at.pngs = <<>>
  BY <1>2
<1> HIDE DEF at
<1>5. Images(<<>> \o <<>>, 0, layouts)
  <2>1. Laid(<<>>, 0, layouts, [i \in 0 .. 0 |-> 0])
    BY <1>1 DEF Laid
  <2>2. Images(<<>>, 0, layouts)
    BY <2>1 DEF Images
  <2>3. <<>> \o <<>> = <<>>
    BY <1>2, ConcatEmptySeq
  <2> QED
    BY <2>2, <2>3
<1>6. at \in Right(stdout, layouts)
  <2>1. Len(at.pngs) = 0 /\ Len(at.buffer) = 0 /\ Len(layouts) = 0
    BY <1>1, <1>4
  <2>2. Images(at.buffer \o stdout, Len(at.pngs), layouts)
    BY <1>1, <1>4, <1>5, <2>1
  <2>3. /\ at.offset <= Len(at.buffer) /\ Len(at.pngs) <= Len(layouts)
        /\ \A i \in 1 .. Len(at.pngs) : at.pngs[i] = Encoder!Png(i, layouts[i])
    BY <1>4, <2>1
  <2>4. InStep(at, layouts)
    BY <1>4 DEF InStep
  <2> QED
    BY <1>3, <2>2, <2>3, <2>4 DEF Right
<1>7. Stuck(at)
  BY <1>4, PartsAssumption DEF Stuck, Encoder!remainingBytes
<1> QED
  BY <1>1, <1>2, <1>6, <1>7 DEF EncoderInv, at, Encoder!EncoderInit

\* Another image is made: its bytes are behind those of the pipe.
LEMMA FfmpegMakesPngKeeps ==
  ASSUME EncoderInv, NEW layout \in Layouts, Encoder!FfmpegMakesPng(layout)
  PROVE  EncoderInv'
<1> DEFINE at == Encoder!Standing(buffer)
           m == Len(at.pngs)
           png == Encoder!Png(Len(layouts) + 1, layout)
<1>1. /\ layouts' = Append(layouts, layout) /\ layouts \in Seq(Layouts)
      /\ stdout' = stdout \o Encoder!Png(Len(layouts'), layout)
      /\ stdout \in Seq(PngByte) /\ buffer \in Seq(PngByte)
      /\ UNCHANGED <<buffer, offset, pngStartOffset, state, chunk, pngs>>
      /\ UNCHANGED <<ffmpeg, ending, told>>
      /\ at \in Right(stdout, layouts) /\ Stuck(at) /\ at.buffer = buffer
  BY StandingFacts DEF Encoder!FfmpegMakesPng, Encoder!splitter, EncoderInv
<1>2. /\ Len(layouts') = Len(layouts) + 1 /\ layouts' \in Seq(Layouts)
      /\ Len(layouts) \in Nat /\ \A i \in 1 .. Len(layouts) : layouts'[i] = layouts[i]
  BY <1>1
<1>3. png \in Seq(PngByte) /\ stdout' = stdout \o png /\ stdout' \in Seq(PngByte)
  <2>1. Len(layouts) + 1 \in Nat /\ Encoder!IsLayout(layout)
    BY <1>2, PartsAssumption
  <2>2. png \in Seq(PngByte)
    BY <2>1, PngBytes
  <2> QED
    BY <1>1, <1>2, <2>2, ConcatProperties
<1>4. Encoder!Standing(buffer)' = at
  BY <1>1 DEF Encoder!Standing
<1> HIDE DEF at, png
<1>5. /\ at \in At /\ m \in 0 .. Len(layouts) /\ at.offset <= Len(at.buffer)
      /\ \A i \in 1 .. m : at.pngs[i] = Encoder!Png(i, layouts[i])
      /\ Images(at.buffer \o stdout, m, layouts)
      /\ InStep(at, layouts)
  BY <1>1, RightFacts DEF Right
<1> HIDE DEF m
<1>6. Images(at.buffer \o stdout', m, layouts')
  <2>1. at.buffer \o stdout \in Seq(PngByte)
    BY <1>1, ConcatProperties
  <2>2. Images((at.buffer \o stdout) \o png, m, layouts')
    BY <1>1, <1>5, <2>1, ImageMade DEF png
  <2>3. (at.buffer \o stdout) \o png = at.buffer \o (stdout \o png)
    BY <1>1, <1>3, ConcatAssociative, SMTT(30)
  <2> QED
    BY <1>3, <2>2, <2>3
<1>7. InStep(at, layouts')
  <2>1. CASE at.state = "header" /\ at.offset = 0
    BY <2>1 DEF InStep
  <2>2. CASE m < Len(layouts) /\ InChunk(at, layouts[m + 1])
    <3>1. m + 1 \in 1 .. Len(layouts) /\ m < Len(layouts')
      BY <1>2, <1>5, <2>2
    <3> QED
      BY <1>2, <2>2, <3>1 DEF InStep, m
  <2> QED
    BY <1>5, <2>1, <2>2 DEF InStep, m
<1>8. at \in Right(stdout', layouts')
  <2>1. m <= Len(layouts') /\ \A i \in 1 .. m : i \in 1 .. Len(layouts)
    BY <1>2, <1>5
  <2>2. \A i \in 1 .. m : at.pngs[i] = Encoder!Png(i, layouts'[i])
    BY <1>2, <1>5, <2>1
  <2> QED
    BY <1>5, <1>6, <1>7, <2>1, <2>2 DEF Right, m
<1>9. Stuck(Encoder!Standing(buffer))'
  <2>1. Stuck(Encoder!Standing(buffer))' <=> Stuck(Encoder!Standing(buffer)')
    BY DEF Stuck, Encoder!remainingBytes, Encoder!ChunkSize
  <2> QED
    BY <1>1, <1>4, <2>1
<1>10. (Encoder!Standing(buffer) \in Right(stdout, layouts))'
  BY <1>4, <1>8
<1>11. /\ ffmpeg' \in {"none", "running", "exited"}
       /\ ending' \in BOOLEAN
       /\ told' \in {"nothing", "end", "error"}
       /\ buffer' \in Seq(PngByte)
  BY <1>1 DEF EncoderInv
<1> QED
  BY <1>2, <1>3, <1>9, <1>10, <1>11 DEF EncoderInv

\* The pipe delivers the next n bytes: the loop starts where the splitter
\* stands, with these bytes behind those of the buffer.
LEMMA PipeDeliversKeeps ==
  ASSUME EncoderInv, NEW n \in DOMAIN stdout, Encoder!PipeDelivers(n)
  PROVE  EncoderInv'
<1> DEFINE at == Encoder!Standing(buffer)
           m == Len(at.pngs)
           p == SubSeq(stdout, 1, n)
           w == SubSeq(stdout, n + 1, Len(stdout))
           b == buffer \o p
           start == Encoder!Standing(b)
           end == Encoder!Loop(start)
<1>1. /\ layouts \in Seq(Layouts) /\ stdout \in Seq(PngByte) /\ buffer \in Seq(PngByte)
      /\ at \in Right(stdout, layouts) /\ at.buffer = buffer
      /\ n \in 1 .. Len(stdout) /\ Len(stdout) \in Nat
  BY StandingFacts DEF EncoderInv
<1>2. /\ stdout' = w /\ layouts' = layouts
      /\ buffer' = end.buffer /\ offset' = end.offset /\ pngStartOffset' = end.start
      /\ state' = end.state /\ chunk' = end.chunk /\ pngs' = end.pngs
      /\ UNCHANGED <<ffmpeg, ending, told>>
  BY DEF Encoder!PipeDelivers, Encoder!SplitterWrite
<1>3. p \in Seq(PngByte) /\ w \in Seq(PngByte) /\ p \o w = stdout
  <2>1. /\ p \in Seq(PngByte) /\ Len(p) = n
        /\ \A k \in 1 .. n : p[k] = stdout[k]
    BY <1>1
  <2>2. /\ w \in Seq(PngByte) /\ Len(w) = Len(stdout) - n
        /\ \A k \in 1 .. Len(stdout) - n : w[k] = stdout[n + k]
    BY <1>1
  <2> HIDE DEF p, w
  <2>3. /\ p \o w \in Seq(PngByte) /\ Len(p \o w) = Len(p) + Len(w)
        /\ \A k \in 1 .. Len(p) + Len(w) :
             (p \o w)[k] = IF k <= Len(p) THEN p[k] ELSE w[k - Len(p)]
    BY <2>1, <2>2, ConcatProperties
  <2>4. Len(p) + Len(w) = Len(stdout)
    BY <1>1, <2>1, <2>2
  <2>5. ASSUME NEW k \in 1 .. Len(stdout) PROVE (p \o w)[k] = stdout[k]
    <3>1. k \in 1 .. Len(p) + Len(w)
      BY <2>4
    <3>2. CASE k <= n
      <4>1. k \in 1 .. n
        BY <1>1, <3>2
      <4> QED
        BY <2>1, <2>3, <3>1, <3>2, <4>1
    <3>3. CASE ~(k <= n)
      <4>1. k - n \in 1 .. Len(stdout) - n /\ n + (k - n) = k
        BY <1>1, <3>3
      <4> QED
        BY <2>1, <2>2, <2>3, <3>1, <3>3, <4>1
    <3> QED
      BY <3>2, <3>3
  <2>6. p \o w = stdout
    <3> DEFINE q == p \o w
    <3>1. q \in Seq(PngByte) /\ Len(q) = Len(stdout)
      BY <2>3, <2>4
    <3>2. \A k \in 1 .. Len(q) : q[k] = stdout[k]
      BY <2>5, <3>1
    <3> HIDE DEF q
    <3>3. q = stdout
      BY <1>1, <3>1, <3>2, SeqEqual
    <3> QED
      BY <3>3 DEF q
  <2> QED
    BY <2>1, <2>2, <2>6
<1> HIDE DEF p, w
<1>4. /\ b \in Seq(PngByte) /\ b \o w = buffer \o stdout
      /\ Len(b) = Len(buffer) + Len(p) /\ Len(p) \in Nat /\ Len(buffer) \in Nat
  <2>1. b \in Seq(PngByte) /\ Len(b) = Len(buffer) + Len(p)
    BY <1>1, <1>3, ConcatProperties
  <2>2. (buffer \o p) \o w = buffer \o (p \o w)
    <3>1. buffer \in Seq(PngByte) /\ p \in Seq(PngByte) /\ w \in Seq(PngByte)
      BY <1>1, <1>3
    <3> QED
      BY <3>1, ConcatAssociative
  <2>3. b \o w = buffer \o stdout
    BY <1>3, <2>2
  <2>4. Len(p) \in Nat /\ Len(buffer) \in Nat
    BY <1>1, <1>3
  <2> QED
    BY <2>1, <2>3, <2>4
<1> HIDE DEF b
<1>5. start = [at EXCEPT !.buffer = b]
  BY DEF Encoder!Standing
<1> HIDE DEF at, start, end
<1>6. /\ at \in At /\ m \in 0 .. Len(layouts) /\ at.offset <= Len(at.buffer)
      /\ at.offset \in Nat
      /\ \A i \in 1 .. m : at.pngs[i] = Encoder!Png(i, layouts[i])
      /\ Images(buffer \o stdout, m, layouts)
      /\ InStep(at, layouts)
  BY <1>1, RightFacts DEF Right, At
<1>7. /\ start \in At /\ start.buffer = b /\ start.offset = at.offset
      /\ start.state = at.state /\ start.chunk = at.chunk /\ start.pngs = at.pngs
  BY <1>4, <1>5, <1>6 DEF At
<1>8. InStep(start, layouts)
  BY <1>6, <1>7 DEF InStep, InChunk
<1>9. start \in Right(w, layouts)
  <2>1. start.offset <= Len(start.buffer) /\ Len(start.pngs) <= Len(layouts)
    BY <1>1, <1>4, <1>6, <1>7
  <2> QED
    BY <1>4, <1>6, <1>7, <1>8, <2>1 DEF Right
<1>10. end \in Right(w, layouts) /\ Stuck(end)
  BY <1>1, <1>3, <1>9, LoopIsRight DEF end
<1>11. Encoder!Standing(buffer)' = end
  <2>1. end \in At
    BY <1>10 DEF Right
  <2> QED
    BY <1>2, <2>1 DEF Encoder!Standing, At
<1>12. Stuck(Encoder!Standing(buffer))'
  <2>1. Stuck(Encoder!Standing(buffer))' <=> Stuck(Encoder!Standing(buffer)')
    BY DEF Stuck, Encoder!remainingBytes, Encoder!ChunkSize
  <2> QED
    BY <1>10, <1>11, <2>1
<1>13. (Encoder!Standing(buffer) \in Right(stdout, layouts))'
  BY <1>2, <1>10, <1>11
<1>14. /\ layouts' \in Seq(Layouts) /\ stdout' \in Seq(PngByte)
       /\ buffer' \in Seq(PngByte)
  <2>1. end \in At
    BY <1>10 DEF Right
  <2> QED
    BY <1>1, <1>2, <1>3, <2>1 DEF At
<1>15. /\ ffmpeg' \in {"none", "running", "exited"}
       /\ ending' \in BOOLEAN
       /\ told' \in {"nothing", "end", "error"}
  BY <1>2 DEF EncoderInv
<1> QED
  BY <1>12, <1>13, <1>14, <1>15 DEF EncoderInv

-----------------------------------------------------------------------------
Timer == {"retry", "idle"}
Pends(timer, ts) == \E i \in DOMAIN ts : ts[i] = timer

\* What holds of the connection: one that is made or there has its idle timer,
\* and what the drone's absence will cost a retry is already counted.
VideoInv ==
  /\ Video!TypeOK
  /\ NeverAbandoned
  /\ socket = "none" => timers = <<>>
  /\ socket \in {"connecting", "open", "half"} => Pends("idle", timers)
  /\ socket = "open" /\ ~up => Len(timers) <= outages

\* Refreshing, and retrying for an idle timer, add no timer.
LEMMA TimerFacts ==
  ASSUME NEW ts \in Seq(Timer)
  PROVE  /\ Video!WithoutIdle(ts) \in Seq(Timer)
         /\ Len(Video!WithoutIdle(ts)) <= Len(ts)
         /\ Pends("idle", ts) => Len(Video!WithoutIdle(ts)) <= Len(ts) - 1
<1> DEFINE P == {i \in DOMAIN ts : ts[i] = "retry"}
<1>1. Video!WithoutIdle(ts) = Kept(ts, P)
  BY DEF Video!WithoutIdle, Video!Kept, Video!Ascending, Video!Rank, Video!Cardinality,
         Kept, Ascending, Rank, Cardinality
<1>2. Len(ts) \in Nat /\ DOMAIN ts = 1 .. Len(ts) /\ P \in SUBSET (DOMAIN ts)
  OBVIOUS
<1> HIDE DEF P
<1>3. /\ Kept(ts, P) \in Seq(Timer) /\ Len(Kept(ts, P)) = Cardinality(P)
      /\ Cardinality(P) \in 0 .. Len(ts)
  BY <1>2, KeptProperties
<1>4. ASSUME Pends("idle", ts) PROVE Cardinality(P) <= Len(ts) - 1
  <2>1. PICK i \in DOMAIN ts : ts[i] = "idle"
    BY <1>4 DEF Pends
  <2>2. i \notin P
    BY <2>1 DEF P
  <2> DEFINE n == Len(ts)
  <2>3. n \in Int /\ 1 \in Int /\ n >= 1 - 1 /\ n - 1 + 1 = n
    BY <1>2
  <2> HIDE DEF n
  <2>4. IsFiniteSet(1 .. n) /\ Cardinality(1 .. n) = n
    BY <2>3, FS_Interval
  <2>5. P \in SUBSET (1 .. n) /\ i \in 1 .. n
    BY <1>2, <2>1 DEF n
  <2>6. Cardinality(P) <= n /\ Cardinality(P) # n
    BY <2>2, <2>4, <2>5, FS_Subset
  <2> QED
    BY <1>2, <1>3, <2>6 DEF n
<1> QED
  BY <1>1, <1>2, <1>3, <1>4

\* A timer that is started pends, like those before it.
LEMMA AppendedTimer ==
  ASSUME NEW ts \in Seq(Timer), NEW timer \in Timer
  PROVE  /\ Append(ts, timer) \in Seq(Timer)
         /\ Len(Append(ts, timer)) = Len(ts) + 1
         /\ Pends(timer, Append(ts, timer))
         /\ \A other : Pends(other, ts) => Pends(other, Append(ts, timer))
<1> DEFINE new == Append(ts, timer)
           n == Len(ts)
<1>1. /\ n \in Nat /\ DOMAIN ts = 1 .. n
      /\ new \in Seq(Timer) /\ Len(new) = n + 1 /\ DOMAIN new = 1 .. n + 1
      /\ new[n + 1] = timer /\ \A i \in 1 .. n : new[i] = ts[i]
  OBVIOUS
<1> HIDE DEF new, n
<1>2. Pends(timer, new)
  <2>1. n + 1 \in 1 .. n + 1
    BY <1>1
  <2> QED
    BY <1>1, <2>1 DEF Pends
<1>3. ASSUME NEW other, Pends(other, ts) PROVE Pends(other, new)
  <2>1. PICK i \in 1 .. n : ts[i] = other
    BY <1>1, <1>3 DEF Pends
  <2>2. i \in 1 .. n + 1 /\ new[i] = other
    BY <1>1, <2>1
  <2> QED
    BY <1>1, <2>2 DEF Pends
<1> QED
  BY <1>1, <1>2, <1>3 DEF new, n

\* Refreshing the idle timer adds one only where there was none.
LEMMA RefreshedFacts ==
  ASSUME NEW ts \in Seq(Timer)
  PROVE  /\ Video!Refreshed(ts) \in Seq(Timer)
         /\ Pends("idle", Video!Refreshed(ts))
         /\ Len(Video!Refreshed(ts)) <= Len(ts) + 1
         /\ Pends("idle", ts) => Len(Video!Refreshed(ts)) <= Len(ts)
<1> DEFINE kept == Video!WithoutIdle(ts)
<1>1. /\ kept \in Seq(Timer) /\ Len(kept) <= Len(ts)
      /\ Pends("idle", ts) => Len(kept) <= Len(ts) - 1
  BY TimerFacts
<1> HIDE DEF kept
<1>2. /\ Append(kept, "idle") \in Seq(Timer)
      /\ Len(Append(kept, "idle")) = Len(kept) + 1
      /\ Pends("idle", Append(kept, "idle"))
  BY <1>1, AppendedTimer DEF Timer
<1>3. Video!Refreshed(ts) = Append(kept, "idle")
  BY DEF Video!Refreshed, kept
<1>4. Len(ts) \in Nat /\ Len(kept) \in Nat
  BY <1>1
<1> QED
  BY <1>1, <1>2, <1>3, <1>4

\* A failure closes the socket and leaves a retry, in the place of the idle timer.
LEMMA FailedFacts ==
  ASSUME NEW ts \in Seq(Timer), Video!Failed(ts)
  PROVE  /\ socket' = "closed" /\ timers' \in Seq(Timer)
         /\ Pends("retry", timers')
         /\ Len(timers') <= Len(ts) + 1
         /\ Pends("idle", ts) => Len(timers') <= Len(ts)
<1> DEFINE kept == Video!WithoutIdle(ts)
<1>1. /\ kept \in Seq(Timer) /\ Len(kept) <= Len(ts)
      /\ Pends("idle", ts) => Len(kept) <= Len(ts) - 1
  BY TimerFacts
<1> HIDE DEF kept
<1>2. /\ Append(kept, "retry") \in Seq(Timer)
      /\ Len(Append(kept, "retry")) = Len(kept) + 1
      /\ Pends("retry", Append(kept, "retry"))
  BY <1>1, AppendedTimer DEF Timer
<1>3. socket' = "closed" /\ timers' = Append(kept, "retry")
  BY DEF Video!Failed, Video!Retry, kept
<1>4. Len(ts) \in Nat /\ Len(kept) \in Nat
  BY <1>1
<1> QED
  BY <1>1, <1>2, <1>3, <1>4

\* connect() ends in a connection that is being made, with its idle timer, or
\* in a failure with a retry; from a closed socket it costs a timer.
LEMMA ConnectFacts ==
  ASSUME NEW ts \in Seq(Timer), Video!Connect(ts)
  PROVE  /\ timers' \in Seq(Timer) /\ handlers' = 1
         /\ Len(timers') <= Len(ts) + 1
         /\ \/ socket' = "connecting" /\ Pends("idle", timers')
            \/ socket' = "closed" /\ Pends("retry", timers')
<1>1. handlers' = 1
  BY DEF Video!Connect, Video!Listeners
<1>2. CASE socket \in {"none", "closed"}
  <2>1. socket' = "connecting" /\ timers' = Video!Refreshed(ts)
    BY <1>2 DEF Video!Connect
  <2> QED
    BY <1>1, <2>1, RefreshedFacts
<1>3. CASE socket \notin {"none", "closed"}
  <2>1. Video!Failed(ts)
    BY <1>3 DEF Video!Connect
  <2> QED
    BY <1>1, <2>1, FailedFacts
<1> QED
  BY <1>2, <1>3

\* What VideoInv asks, part by part.
LEMMA VideoFacts ==
  VideoInv <=> /\ socket \in Video!SocketStates
               /\ timers \in Seq(Timer) /\ Len(timers) <= outages + 1
               /\ handlers \in 0 .. 1 /\ up \in BOOLEAN /\ outages \in 0 .. MaxOutages
               /\ socket \in {"closed", "half"} => Pends("retry", timers)
               /\ socket = "none" => timers = <<>>
               /\ socket \in {"connecting", "open", "half"} => Pends("idle", timers)
               /\ socket = "open" /\ ~up => Len(timers) <= outages
BY DEF VideoInv, Video!TypeOK, NeverAbandoned, Video!NeverAbandoned, Pends, Timer

\* Before the first connect() there are no timers.
LEMMA VideoInitInv == Video!Init => VideoInv
<1> SUFFICES ASSUME Video!Init PROVE VideoInv
  OBVIOUS
<1>1. /\ socket = "none" /\ timers = <<>> /\ handlers = 0 /\ up \in BOOLEAN /\ outages = 0
      /\ MaxOutages \in Nat
  BY PartsAssumption DEF Video!Init
<1>2. timers \in Seq(Timer) /\ Len(timers) = 0
  BY <1>1
<1>3. socket \in Video!SocketStates
  BY <1>1 DEF Video!SocketStates
<1> QED
  BY <1>1, <1>2, <1>3, VideoFacts

\* Every event of the connection keeps its invariant.
LEMMA VideoNextInv ==
  ASSUME VideoInv, Video!Next
  PROVE  VideoInv'
<1>1. /\ socket \in Video!SocketStates
      /\ timers \in Seq(Timer) /\ Len(timers) <= outages + 1 /\ Len(timers) \in Nat
      /\ handlers \in 0 .. 1 /\ up \in BOOLEAN /\ outages \in 0 .. MaxOutages
      /\ socket \in {"closed", "half"} => Pends("retry", timers)
      /\ socket = "none" => timers = <<>>
      /\ socket \in {"connecting", "open", "half"} => Pends("idle", timers)
      /\ socket = "open" /\ ~up => Len(timers) <= outages
      /\ MaxOutages \in Nat /\ outages \in Nat
  BY VideoFacts, PartsAssumption
<1>2. SUFFICES /\ socket' \in Video!SocketStates
               /\ timers' \in Seq(Timer) /\ Len(timers') <= outages' + 1
               /\ handlers' \in 0 .. 1 /\ up' \in BOOLEAN /\ outages' \in 0 .. MaxOutages
               /\ socket' \in {"closed", "half"} => Pends("retry", timers')
               /\ socket' = "none" => timers' = <<>>
               /\ socket' \in {"connecting", "open", "half"} => Pends("idle", timers')
               /\ socket' = "open" /\ ~up' => Len(timers') <= outages'
  BY DEF VideoInv, Video!TypeOK, NeverAbandoned, Video!NeverAbandoned, Pends, Timer
<1>3. {"closed", "connecting", "open", "half"} \subseteq Video!SocketStates
  BY DEF Video!SocketStates
<1>4. CASE Video!GetVideoStream
  <2>1. /\ Video!Connect(timers) /\ socket = "none"
        /\ up' = up /\ outages' = outages /\ Len(timers) = 0
    BY <1>1, <1>4 DEF Video!GetVideoStream, Video!drone
  <2>2. /\ timers' \in Seq(Timer) /\ handlers' = 1
        /\ Len(timers') <= Len(timers) + 1
        /\ \/ socket' = "connecting" /\ Pends("idle", timers')
           \/ socket' = "closed" /\ Pends("retry", timers')
    BY <1>1, <2>1, ConnectFacts
  <2>3. Len(timers') <= outages' + 1
    BY <1>1, <2>1, <2>2
  <2> QED
    BY <1>1, <1>3, <2>1, <2>2, <2>3
<1>5. CASE Video!Connected \/ Video!Data
  <2>1. /\ up /\ socket \in {"connecting", "open"} /\ socket' = "open"
        /\ timers' = Video!Refreshed(timers)
        /\ handlers' = handlers /\ up' = up /\ outages' = outages
    BY <1>5 DEF Video!Connected, Video!Data, Video!drone
  <2>2. /\ timers' \in Seq(Timer) /\ Pends("idle", timers')
        /\ Len(timers') <= Len(timers)
    BY <1>1, <2>1, RefreshedFacts
  <2>3. Len(timers') <= outages' + 1
    BY <1>1, <2>1, <2>2
  <2> QED
    BY <1>1, <1>3, <2>1, <2>2, <2>3
<1>6. CASE Video!SocketError
  <2>1. /\ socket \in {"connecting", "open", "half"} /\ Video!Failed(timers)
        /\ handlers' = handlers /\ up' = up /\ outages' = outages
    BY <1>6 DEF Video!SocketError, Video!drone
  <2>2. /\ socket' = "closed" /\ timers' \in Seq(Timer) /\ Pends("retry", timers')
        /\ Len(timers') <= Len(timers)
    BY <1>1, <2>1, FailedFacts
  <2>3. Len(timers') <= outages' + 1
    BY <1>1, <2>1, <2>2
  <2> QED
    BY <1>1, <1>3, <2>1, <2>2, <2>3
<1>7. CASE Video!Fin
  <2> DEFINE ts == Video!Refreshed(timers)
  <2>1. /\ ~up /\ socket = "open" /\ socket' = "half"
        /\ timers' = Append(ts, "retry")
        /\ handlers' = handlers /\ up' = up /\ outages' = outages
    BY <1>7 DEF Video!Fin, Video!Retry, Video!drone
  <2>2. ts \in Seq(Timer) /\ Pends("idle", ts) /\ Len(ts) <= Len(timers)
    BY <1>1, <2>1, RefreshedFacts
  <2> HIDE DEF ts
  <2>3. /\ timers' \in Seq(Timer) /\ Len(timers') = Len(ts) + 1
        /\ Pends("retry", timers') /\ Pends("idle", timers')
    BY <2>1, <2>2, AppendedTimer DEF Timer
  <2>4. Len(timers') <= outages' + 1
    <3>1. Len(ts) \in Nat
      BY <2>2
    <3> QED
      BY <1>1, <2>1, <2>2, <2>3, <3>1
  <2> QED
    BY <1>1, <1>3, <2>1, <2>3, <2>4
<1>8. ASSUME NEW timer \in Timer, Video!Due(timer)
      PROVE  Tail(timers) \in Seq(Timer) /\ Len(Tail(timers)) = Len(timers) - 1
  BY <1>1, <1>8 DEF Video!Due
<1>9. CASE Video!RetryExpires
  <2>1. /\ Video!Due("retry") /\ Video!Connect(Tail(timers))
        /\ up' = up /\ outages' = outages
    BY <1>9 DEF Video!RetryExpires, Video!drone
  <2>2. Tail(timers) \in Seq(Timer) /\ Len(Tail(timers)) = Len(timers) - 1
    BY <1>8, <2>1 DEF Timer
  <2>3. /\ timers' \in Seq(Timer) /\ handlers' = 1
        /\ Len(timers') <= Len(Tail(timers)) + 1
        /\ \/ socket' = "connecting" /\ Pends("idle", timers')
           \/ socket' = "closed" /\ Pends("retry", timers')
    BY <2>1, <2>2, ConnectFacts
  <2>4. Len(timers') <= outages' + 1
    BY <1>1, <2>1, <2>2, <2>3
  <2> QED
    BY <1>1, <1>3, <2>1, <2>3, <2>4
<1>10. CASE Video!Timeout
  <2>1. /\ Video!Due("idle") /\ Video!Failed(Tail(timers))
        /\ handlers' = handlers /\ up' = up /\ outages' = outages
    BY <1>10 DEF Video!Timeout, Video!drone
  <2>2. Tail(timers) \in Seq(Timer) /\ Len(Tail(timers)) = Len(timers) - 1
    BY <1>8, <2>1 DEF Timer
  <2>3. /\ socket' = "closed" /\ timers' \in Seq(Timer) /\ Pends("retry", timers')
        /\ Len(timers') <= Len(Tail(timers)) + 1
    BY <2>1, <2>2, FailedFacts
  <2>4. Len(timers') <= outages' + 1
    BY <1>1, <2>1, <2>2, <2>3
  <2> QED
    BY <1>1, <1>3, <2>1, <2>3, <2>4
<1>11. CASE Video!DroneComes
  BY <1>1, <1>11 DEF Video!DroneComes
<1>12. CASE Video!DroneGoes
  <2>1. /\ up' = FALSE /\ outages < MaxOutages /\ outages' = outages + 1
        /\ socket' = socket /\ timers' = timers /\ handlers' = handlers
    BY <1>12 DEF Video!DroneGoes
  <2>2. outages' \in 0 .. MaxOutages /\ Len(timers') <= outages'
    BY <1>1, <2>1
  <2>3. Len(timers') <= outages' + 1
    BY <1>1, <2>1
  <2> QED
    BY <1>1, <2>1, <2>2, <2>3
<1> QED
  BY <1>4, <1>5, <1>6, <1>7, <1>9, <1>10, <1>11, <1>12 DEF Video!Next

-----------------------------------------------------------------------------
\* The inductive invariant: that of the connection and that of the encoder,
\* which share no variable.
IInv ==
  /\ VideoInv
  /\ EncoderInv
  /\ {pngStream, listened, alive} \subseteq BOOLEAN

\* The initial states satisfy the invariant.
LEMMA InitInv == Init => IInv
BY VideoInitInv, EncoderInitInv DEF Init, IInv

\* Steps that leave the splitter and the pipe alone.
LEMMA EncoderUnchanged ==
  ASSUME EncoderInv,
         UNCHANGED <<buffer, offset, pngStartOffset, state, chunk, pngs>>,
         UNCHANGED <<layouts, stdout>>,
         ffmpeg' \in {"none", "running", "exited"}, ending' \in BOOLEAN,
         told' \in {"nothing", "end", "error"}
  PROVE  EncoderInv'
<1>1. Encoder!Standing(buffer)' = Encoder!Standing(buffer)
  BY DEF Encoder!Standing
<1>2. Stuck(Encoder!Standing(buffer))' <=> Stuck(Encoder!Standing(buffer)')
  BY DEF Stuck, Encoder!remainingBytes, Encoder!ChunkSize
<1>3. Stuck(Encoder!Standing(buffer))'
  BY <1>1, <1>2 DEF EncoderInv
<1>4. (Encoder!Standing(buffer) \in Right(stdout, layouts))'
  BY <1>1 DEF EncoderInv
<1> QED
  BY <1>3, <1>4 DEF EncoderInv

\* Steps of the encoder leave the connection alone.
LEMMA VideoUnchanged == VideoInv /\ UNCHANGED video => VideoInv'
BY DEF VideoInv, video, Video!TypeOK, Pends, NeverAbandoned, Video!NeverAbandoned

\* Every step preserves the invariant.
LEMMA NextInv == IInv /\ [Next]_vars => IInv'
<1> SUFFICES ASSUME IInv, [Next]_vars PROVE IInv'
  OBVIOUS
<1>1. /\ VideoInv /\ EncoderInv
      /\ pngStream \in BOOLEAN /\ listened \in BOOLEAN /\ alive \in BOOLEAN
      /\ ffmpeg \in {"none", "running", "exited"} /\ ending \in BOOLEAN
      /\ told \in {"nothing", "end", "error"}
  BY DEF IInv, EncoderInv
<1>2. Video!Next \/ UNCHANGED video => VideoInv'
  BY <1>1, VideoNextInv, VideoUnchanged
<1>3. UNCHANGED encoder => EncoderInv'
  BY <1>1, EncoderUnchanged DEF encoder
<1>4. SUFFICES /\ VideoInv' /\ EncoderInv'
               /\ pngStream' \in BOOLEAN /\ listened' \in BOOLEAN /\ alive' \in BOOLEAN
  BY DEF IInv
<1>5. CASE GetVideoStream
  BY <1>1, <1>2, <1>3, <1>5 DEF GetVideoStream, client, Video!Next
<1>6. CASE GetPngStream
  BY <1>1, <1>2, <1>3, <1>6 DEF GetPngStream, Video!Next
<1>7. CASE EndPngStream
  <2>1. EncoderInv'
    BY <1>1, <1>7, EncoderUnchanged
       DEF EndPngStream, Encoder!EncoderEnd, Encoder!splitter
  <2> QED
    BY <1>1, <1>2, <1>7, <2>1 DEF EndPngStream, client
<1>8. CASE Data
  <2>1. EncoderInv'
    <3>1. CASE pngStream
      BY <1>1, <1>8, <3>1, EncoderUnchanged
         DEF Data, Encoder!EncoderWrite, Encoder!splitter
    <3>2. CASE ~pngStream
      BY <1>3, <1>8, <3>2 DEF Data
    <3> QED
      BY <3>1, <3>2
  <2> QED
    BY <1>1, <1>2, <1>8, <2>1 DEF Data, client, Video!Next
<1>9. CASE ConnectionStep
  BY <1>1, <1>2, <1>3, <1>9 DEF ConnectionStep, client, Video!Next
<1>10. ASSUME NEW n \in DOMAIN stdout, PipeDelivers(n) PROVE IInv'
  <2>1. EncoderInv'
    BY <1>1, <1>10, PipeDeliversKeeps DEF PipeDelivers
  <2> QED
    BY <1>1, <1>2, <1>10, <2>1 DEF PipeDelivers, client, IInv
<1>11. ASSUME NEW code \in {0, 1}, FfmpegExits(code) PROVE IInv'
  <2>1. EncoderInv'
    BY <1>1, <1>11, EncoderUnchanged
       DEF FfmpegExits, Encoder!FfmpegExits, Encoder!splitter
  <2> QED
    BY <1>1, <1>2, <1>11, <2>1 DEF FfmpegExits, IInv
<1>12. CASE DroneStep
  BY <1>1, <1>2, <1>3, <1>12 DEF DroneStep, client, Video!Next
<1>13. ASSUME NEW layout \in Layouts, FfmpegMakesPng(layout) PROVE IInv'
  <2>1. EncoderInv'
    BY <1>1, <1>13, FfmpegMakesPngKeeps DEF FfmpegMakesPng
  <2> QED
    BY <1>1, <1>2, <1>13, <2>1 DEF FfmpegMakesPng, client, IInv
<1>14. CASE UNCHANGED vars
  BY <1>1, <1>2, <1>3, <1>14 DEF vars, client
<1> QED
  BY <1>5, <1>6, <1>7, <1>8, <1>9, <1>10, <1>11, <1>12, <1>13, <1>14 DEF Next, IInv

\* Nothing the connection, its timers, the pipe or ffmpeg does makes a second
\* 'data' listener, more retries than the drone has been away, or a splitter
\* that stands behind its buffer.
THEOREM TypeCorrect == Spec => []TypeOK
<1>1. IInv => TypeOK
  BY EncoderInvImplies DEF IInv, VideoInv, TypeOK
<1> QED
  BY InitInv, NextInv, <1>1, PTL DEF Spec

\* Without a connection a retry is pending, whatever came of the last one.
THEOREM NeverAbandonedHolds == Spec => []NeverAbandoned
<1>1. IInv => NeverAbandoned
  BY DEF IInv, VideoInv
<1> QED
  BY InitInv, NextInv, <1>1, PTL DEF Spec

\* Every 'data' event of the PNG stream is one whole image, in order, and comes
\* with the last byte of it, for images of any number of chunks of any length
\* and any cuts of the pipe.
THEOREM ExactlyOnePngHolds == Spec => []ExactlyOnePng
<1>1. IInv => ExactlyOnePng
  BY EncoderInvImplies DEF IInv
<1> QED
  BY InitInv, NextInv, <1>1, PTL DEF Spec
=============================================================================
