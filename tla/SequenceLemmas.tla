--------------------------- MODULE SequenceLemmas ---------------------------
(***************************************************************************)
(* Facts the proofs of several components rest on: induction over the      *)
(* numbers, functions defined by recursion, and sequences that keep some   *)
(* positions of others.                                                    *)
(*                                                                         *)
(* The library's theorems on induction take the property as an operator.   *)
(* Here it is a set, the numbers that have the property, and the lemmas    *)
(* follow from the library's WFMin: "<" is well founded on Nat, so a       *)
(* nonempty set of numbers has a least element.                            *)
(***************************************************************************)
EXTENDS Positions, SequenceTheorems, FiniteSetTheorems, TLAPS

LessThan == {ss \in Nat \X Nat : ss[1] < ss[2]}

\* "<" is well founded.
LEMMA LessThanWellFounded == IsWellFoundedOn(LessThan, Nat)
<1>1. OpToRel(<, Nat) = LessThan
  BY DEF OpToRel, LessThan
<1> QED
  BY <1>1, NatLessThanWellFounded

\* A nonempty set of numbers has a least element.
LEMMA LeastNumber ==
  ASSUME NEW T \in SUBSET Nat, T # {}
  PROVE  \E n \in T : \A m \in T : n <= m
<1>1. \E n \in T : \A m \in T : ~ (<<m, n>> \in LessThan)
  BY LessThanWellFounded, WFMin
<1>2. PICK n \in T : \A m \in T : ~ (<<m, n>> \in LessThan)
  BY <1>1
<1>3. ASSUME NEW m \in T PROVE n <= m
  <2>1. <<m, n>> \in Nat \X Nat /\ <<m, n>>[1] = m /\ <<m, n>>[2] = n
    OBVIOUS
  <2>2. m < n => <<m, n>> \in LessThan
    BY <2>1 DEF LessThan
  <2> QED
    BY <1>2, <2>2
<1> QED
  BY <1>3

\* A nonempty set of numbers up to a bound has a greatest element.
LEMMA GreatestNumber ==
  ASSUME NEW N \in Nat, NEW T \in SUBSET (0 .. N), T # {}
  PROVE  \E n \in T : \A m \in T : m <= n
<1> DEFINE Down == {k \in 0 .. N : N - k \in T}
<1>1. PICK t \in T : TRUE
  OBVIOUS
<1>2. N - t \in Down /\ Down \in SUBSET Nat
  OBVIOUS
<1>3. PICK k \in Down : \A l \in Down : k <= l
  BY <1>2, LeastNumber
<1>4. ASSUME NEW m \in T PROVE m <= N - k
  <2>1. N - m \in Down /\ m \in 0 .. N /\ k \in 0 .. N
    OBVIOUS
  <2>2. k <= N - m
    BY <1>3, <2>1
  <2> QED
    BY <2>1, <2>2
<1>5. N - k \in T
  OBVIOUS
<1> QED
  BY <1>4, <1>5

\* Induction up to a bound: S holds the numbers that have the property.
LEMMA Induction ==
  ASSUME NEW N \in Nat, NEW S, 0 \in S, \A n \in 0 .. N - 1 : n \in S => n + 1 \in S
  PROVE  \A n \in 0 .. N : n \in S
<1> DEFINE T == {n \in 0 .. N : n \notin S}
<1>1. SUFFICES ASSUME T # {} PROVE FALSE
  OBVIOUS
<1>2. PICK n \in T : \A m \in T : n <= m
  <2>1. T \in SUBSET Nat
    OBVIOUS
  <2> QED
    BY <1>1, <2>1, LeastNumber
<1>3. n \in 1 .. N
  OBVIOUS
<1>4. n - 1 \in 0 .. N - 1 /\ n - 1 \notin T
  BY <1>2, <1>3
<1> QED
  BY <1>3, <1>4

\* g counts the steps of F from start: g[n] is what n steps lead to.
Iterates(g, n, S, start, F) ==
  /\ g \in [0 .. n -> S]
  /\ g[0] = start
  /\ \A k \in 1 .. n : g[k] = F[g[k - 1]]

\* A step from S to S can be taken any number of times.
LEMMA Iteration ==
  ASSUME NEW N \in Nat, NEW S, NEW start \in S, NEW F \in [S -> S]
  PROVE  \E g : Iterates(g, N, S, start, F)
<1> DEFINE Counts(g, n) == Iterates(g, n, S, start, F)
           T == {n \in 0 .. N : \E g : Counts(g, n)}
<1>1. 0 \in T
  <2>1. Counts([k \in 0 .. 0 |-> start], 0)
    BY DEF Iterates
  <2> HIDE DEF Counts
  <2>2. \E g : Counts(g, 0)
    BY <2>1
  <2> QED
    BY <2>2
<1>2. ASSUME NEW n \in 0 .. N - 1, n \in T PROVE n + 1 \in T
  <2>1. PICK g : Counts(g, n)
    BY <1>2
  <2> DEFINE h == [k \in 0 .. n + 1 |-> IF k <= n THEN g[k] ELSE F[g[n]]]
  <2>2. h \in [0 .. n + 1 -> S] /\ h[0] = start
    BY <2>1 DEF Iterates
  <2>3. ASSUME NEW k \in 1 .. n + 1 PROVE h[k] = F[h[k - 1]]
    BY <2>1 DEF Iterates
  <2>4. Counts(h, n + 1)
    BY <2>2, <2>3 DEF Iterates
  <2> HIDE DEF Counts
  <2>5. \E f : Counts(f, n + 1)
    BY <2>4
  <2> QED
    BY <2>5
<1> HIDE DEF T
<1>3. N \in T
  BY <1>1, <1>2, Induction
<1> QED
  BY <1>3 DEF T

-----------------------------------------------------------------------------
\* The rank of an element is its place in the ascending order.
LEMMA RankProperties ==
  ASSUME NEW P \in SUBSET Nat, IsFiniteSet(P)
  PROVE  /\ Cardinality(P) \in Nat
         /\ \A i \in P : Rank(P, i) \in 1 .. Cardinality(P)
         /\ \A i, j \in P : i < j => Rank(P, i) < Rank(P, j)
         /\ \A k \in 1 .. Cardinality(P) : \E i \in P : Rank(P, i) = k
<1> DEFINE Below(i) == {j \in P : j <= i}
<1>1. Cardinality(P) \in Nat
  BY FS_CardinalityType
<1>2. ASSUME NEW i \in P PROVE Rank(P, i) \in 1 .. Cardinality(P)
  <2>1. IsFiniteSet(Below(i)) /\ Cardinality(Below(i)) <= Cardinality(P)
    BY FS_Subset
  <2>2. i \in Below(i)
    OBVIOUS
  <2>3. Cardinality(Below(i)) \in Nat /\ Cardinality(Below(i)) # 0
    BY <2>1, <2>2, FS_CardinalityType, FS_EmptySet
  <2> QED
    BY <1>1, <2>1, <2>3 DEF Rank
<1>3. ASSUME NEW i \in P, NEW j \in P, i < j PROVE Rank(P, i) < Rank(P, j)
  <2>1. IsFiniteSet(Below(j)) /\ Below(i) \in SUBSET Below(j)
    <3>1. Below(j) \in SUBSET P
      OBVIOUS
    <3>2. ASSUME NEW m \in Below(i) PROVE m \in Below(j)
      <4>1. m \in P /\ m \in Nat /\ m <= i /\ i \in Nat /\ j \in Nat
        OBVIOUS
      <4> QED
        BY <1>3, <4>1
    <3> QED
      BY <3>1, <3>2, FS_Subset
  <2>2. j \in Below(j) /\ j \notin Below(i)
    BY <1>3
  <2>3. Cardinality(Below(i)) <= Cardinality(Below(j))
        /\ Cardinality(Below(i)) # Cardinality(Below(j))
    BY <2>1, <2>2, FS_Subset
  <2>4. Rank(P, i) \in Nat /\ Rank(P, j) \in Nat
    BY <1>1, <1>2
  <2> QED
    BY <2>3, <2>4 DEF Rank
<1> DEFINE rank == [i \in P |-> Rank(P, i)]
           T == 1 .. Cardinality(P)
<1>4. rank \in Injection(P, T)
  <2>1. rank \in [P -> T]
    BY <1>2
  <2>2. ASSUME NEW i \in P, NEW j \in P, rank[i] = rank[j] PROVE i = j
    <3>1. Rank(P, i) \in Nat /\ Rank(P, j) \in Nat /\ Rank(P, i) = Rank(P, j)
      BY <1>1, <1>2, <2>2
    <3>2. ~(i < j) /\ ~(j < i)
      BY <1>3, <3>1
    <3> QED
      BY <3>2
  <2> QED
    BY <2>1, <2>2 DEF Injection, IsInjective
<1>5. IsFiniteSet(T) /\ Cardinality(T) = Cardinality(P)
  BY <1>1, FS_Interval
<1>6. rank \in Surjection(P, T)
  BY <1>4, <1>5, FS_Injection
<1>7. ASSUME NEW k \in T PROVE \E i \in P : Rank(P, i) = k
  BY <1>6 DEF Surjection
<1> QED
  BY <1>1, <1>2, <1>3, <1>7

\* Ascending(P) holds each element of P once, at its rank.
LEMMA AscendingProperties ==
  ASSUME NEW P \in SUBSET Nat, IsFiniteSet(P)
  PROVE  /\ Ascending(P) \in [1 .. Cardinality(P) -> P]
         /\ \A k \in 1 .. Cardinality(P) : Rank(P, Ascending(P)[k]) = k
         /\ \A i \in P : Ascending(P)[Rank(P, i)] = i
         /\ \A k, l \in 1 .. Cardinality(P) :
              k < l => Ascending(P)[k] < Ascending(P)[l]
<1>1. ASSUME NEW k \in 1 .. Cardinality(P)
      PROVE  Ascending(P)[k] \in P /\ Rank(P, Ascending(P)[k]) = k
  BY RankProperties DEF Ascending
<1>2. Ascending(P) \in [1 .. Cardinality(P) -> P]
  BY <1>1 DEF Ascending
<1>3. ASSUME NEW i \in P, NEW j \in P, Rank(P, i) = Rank(P, j) PROVE i = j
  <2>1. Rank(P, i) \in Nat /\ ~(Rank(P, i) < Rank(P, j)) /\ ~(Rank(P, j) < Rank(P, i))
    BY <1>3, RankProperties
  <2>2. ~(i < j) /\ ~(j < i)
    BY <2>1, RankProperties
  <2> QED
    BY <2>2
<1>4. ASSUME NEW i \in P PROVE Ascending(P)[Rank(P, i)] = i
  <2>1. Rank(P, i) \in 1 .. Cardinality(P)
    BY RankProperties
  <2> QED
    BY <1>1, <1>3, <2>1
<1>5. ASSUME NEW k \in 1 .. Cardinality(P), NEW l \in 1 .. Cardinality(P), k < l
      PROVE  Ascending(P)[k] < Ascending(P)[l]
  <2> DEFINE i == Ascending(P)[k]
             j == Ascending(P)[l]
  <2>1. i \in P /\ j \in P /\ Rank(P, i) = k /\ Rank(P, j) = l
    BY <1>1
  <2> HIDE DEF i, j
  <2>2. i # j /\ ~(j < i)
    BY <1>5, <2>1, RankProperties
  <2>3. i < j
    BY <2>1, <2>2
  <2> QED
    BY <2>3 DEF i, j
<1> QED
  BY <1>1, <1>2, <1>4, <1>5

\* No other sequence does: one that ascends is the ascending order of its
\* elements.
LEMMA AscendingUnique ==
  ASSUME NEW n \in Nat, NEW f \in [1 .. n -> Nat],
         \A k, l \in 1 .. n : k < l => f[k] < f[l],
         NEW P, P = {f[k] : k \in 1 .. n}
  PROVE  /\ IsFiniteSet(P) /\ Cardinality(P) = n
         /\ Ascending(P) = f
<1>1. ASSUME NEW k \in 1 .. n, NEW l \in 1 .. n
      PROVE  f[k] <= f[l] <=> k <= l
  <2>1. f[k] \in Nat /\ f[l] \in Nat
    OBVIOUS
  <2>2. CASE k < l
    <3>1. f[k] < f[l]
      BY <2>2
    <3> QED
      BY <2>1, <2>2, <3>1
  <2>3. CASE l < k
    <3>1. f[l] < f[k]
      BY <2>3
    <3> QED
      BY <2>1, <2>3, <3>1
  <2>4. CASE k = l
    BY <2>1, <2>4
  <2> QED
    BY <2>2, <2>3, <2>4
<1>2. ASSUME NEW m \in 0 .. n
      PROVE  /\ IsFiniteSet({f[k] : k \in 1 .. m})
             /\ Cardinality({f[k] : k \in 1 .. m}) = m
  <2> DEFINE g == [k \in 1 .. m |-> f[k]]
             Q == {f[k] : k \in 1 .. m}
  <2>1. g \in [1 .. m -> Q]
    OBVIOUS
  <2>2. \A k, l \in 1 .. m : g[k] = g[l] => k = l
    <3> SUFFICES ASSUME NEW k \in 1 .. m, NEW l \in 1 .. m, f[k] = f[l] PROVE k = l
      OBVIOUS
    <3>1. k \in 1 .. n /\ l \in 1 .. n /\ f[k] \in Nat /\ f[l] \in Nat
      OBVIOUS
    <3>2. k <= l /\ l <= k
      BY <1>1, <3>1
    <3> QED
      BY <3>2
  <2>3. \A q \in Q : \E k \in 1 .. m : g[k] = q
    OBVIOUS
  <2>4. g \in Bijection(1 .. m, Q)
    BY <2>1, <2>2, <2>3 DEF Bijection, Injection, Surjection, IsInjective
  <2>5. IsFiniteSet(1 .. m) /\ Cardinality(1 .. m) = m
    BY FS_Interval
  <2> QED
    BY <2>4, <2>5, FS_Bijection DEF ExistsBijection
<1>3. IsFiniteSet(P) /\ Cardinality(P) = n /\ P \in SUBSET Nat
  BY <1>2
<1>4. ASSUME NEW k \in 1 .. n PROVE f[k] \in P /\ Rank(P, f[k]) = k
  <2>1. {j \in P : j <= f[k]} = {f[l] : l \in 1 .. k}
    BY <1>1
  <2>2. k \in 0 .. n /\ f[k] \in P
    OBVIOUS
  <2>3. Cardinality({f[l] : l \in 1 .. k}) = k
    BY <1>2, <2>2
  <2> QED
    BY <2>1, <2>2, <2>3 DEF Rank
<1>5. ASSUME NEW k \in 1 .. n PROVE Ascending(P)[k] = f[k]
  BY <1>3, <1>4, AscendingProperties, ZenonT(30)
<1>6. Ascending(P) \in [1 .. n -> P]
  BY <1>3, AscendingProperties
<1> QED
  BY <1>3, <1>5, <1>6, SMTT(30)

\* A greater number comes last.
LEMMA AscendingAppend ==
  ASSUME NEW P \in SUBSET Nat, IsFiniteSet(P), NEW n \in Nat, \A j \in P : j < n,
         NEW Q, Q = P \cup {n}
  PROVE  /\ IsFiniteSet(Q) /\ Cardinality(Q) = Cardinality(P) + 1
         /\ Cardinality(P) \in Nat
         /\ \A k \in 1 .. Cardinality(P) : Ascending(Q)[k] = Ascending(P)[k]
         /\ Ascending(Q)[Cardinality(P) + 1] = n
<1> DEFINE c == Cardinality(P)
           asc == Ascending(P)
           f == [k \in 1 .. c + 1 |-> IF k <= c THEN asc[k] ELSE n]
<1>1. /\ c \in Nat
      /\ \A k \in 1 .. c : asc[k] \in P
      /\ \A j \in P : \E k \in 1 .. c : asc[k] = j
      /\ \A k, l \in 1 .. c : k < l => asc[k] < asc[l]
  BY RankProperties, AscendingProperties
<1> HIDE DEF c, asc
<1>2. c + 1 \in Nat /\ f \in [1 .. c + 1 -> Nat]
  <2>1. \A k \in 1 .. c : asc[k] \in Nat
    BY <1>1
  <2>2. \A k \in 1 .. c + 1 : k <= c => k \in 1 .. c
    BY <1>1
  <2>3. \A k \in 1 .. c + 1 : (IF k <= c THEN asc[k] ELSE n) \in Nat
    BY <2>1, <2>2
  <2> QED
    BY <1>1, <2>3
<1>3. \A k \in 1 .. c : f[k] = asc[k]
  BY <1>1
<1>4. c + 1 \in 1 .. c + 1 /\ f[c + 1] = n
  BY <1>1
<1>5. \A k \in 1 .. c + 1 : k \in 1 .. c \/ k = c + 1
  BY <1>1
<1> HIDE DEF f
<1>6. ASSUME NEW k \in 1 .. c + 1, NEW l \in 1 .. c + 1, k < l PROVE f[k] < f[l]
  <2>1. k \in 1 .. c
    BY <1>1, <1>6
  <2>2. CASE l \in 1 .. c
    BY <1>1, <1>3, <1>6, <2>1, <2>2
  <2>3. CASE l = c + 1
    BY <1>1, <1>3, <1>4, <2>1, <2>3
  <2> QED
    BY <1>5, <2>2, <2>3
<1>7. Q = {f[k] : k \in 1 .. c + 1}
  <2>1. ASSUME NEW k \in 1 .. c + 1 PROVE f[k] \in Q
    BY <1>1, <1>3, <1>4, <1>5
  <2>2. ASSUME NEW j \in P PROVE \E k \in 1 .. c + 1 : f[k] = j
    <3>1. PICK k \in 1 .. c : asc[k] = j
      BY <1>1
    <3>2. k \in 1 .. c + 1
      BY <1>1
    <3> QED
      BY <1>3, <3>1, <3>2
  <2>3. \E k \in 1 .. c + 1 : f[k] = n
    BY <1>4
  <2> QED
    BY <2>1, <2>2, <2>3
<1>8. IsFiniteSet(Q) /\ Cardinality(Q) = c + 1 /\ Ascending(Q) = f
  BY <1>2, <1>6, <1>7, AscendingUnique
<1> QED
  BY <1>1, <1>3, <1>4, <1>8 DEF c, asc

\* Kept(s, P) is s at the positions in P, each once and in their order.
LEMMA KeptProperties ==
  ASSUME NEW S, NEW s \in Seq(S), NEW P \in SUBSET (DOMAIN s)
  PROVE  /\ IsFiniteSet(P) /\ Cardinality(P) \in 0 .. Len(s)
         /\ Kept(s, P) \in Seq(S) /\ Len(Kept(s, P)) = Cardinality(P)
         /\ \A k \in 1 .. Cardinality(P) :
              Ascending(P)[k] \in P /\ Kept(s, P)[k] = s[Ascending(P)[k]]
         /\ \A i \in P : \E k \in 1 .. Cardinality(P) : Ascending(P)[k] = i
         /\ \A k, l \in 1 .. Cardinality(P) :
              k < l => Ascending(P)[k] < Ascending(P)[l]
<1>1. Len(s) \in Nat /\ DOMAIN s = 1 .. Len(s)
  OBVIOUS
<1>2. /\ IsFiniteSet(P) /\ Cardinality(P) <= Len(s)
      /\ Cardinality(P) \in Nat /\ P \in SUBSET Nat
  <2> DEFINE n == Len(s)
  <2>1. n \in Int /\ 1 \in Int /\ n >= 1 - 1 /\ n - 1 + 1 = n
    BY <1>1
  <2> HIDE DEF n
  <2>2. IsFiniteSet(1 .. n) /\ Cardinality(1 .. n) = n
    BY <2>1, FS_Interval
  <2> USE DEF n
  <2>3. IsFiniteSet(P) /\ Cardinality(P) <= Len(s)
    BY <1>1, <2>2, FS_Subset
  <2> QED
    BY <1>1, <2>3, FS_CardinalityType
<1>3. \A k \in 1 .. Cardinality(P) : Ascending(P)[k] \in P
  BY <1>2, AscendingProperties
<1>4. ASSUME NEW k \in 1 .. Cardinality(P)
      PROVE  Kept(s, P)[k] = s[Ascending(P)[k]] /\ Kept(s, P)[k] \in S
  BY <1>3 DEF Kept
<1>5. Kept(s, P) \in Seq(S) /\ Len(Kept(s, P)) = Cardinality(P)
  BY <1>2, <1>4 DEF Kept
<1>6. ASSUME NEW i \in P PROVE \E k \in 1 .. Cardinality(P) : Ascending(P)[k] = i
  <2>1. Rank(P, i) \in 1 .. Cardinality(P) /\ Ascending(P)[Rank(P, i)] = i
    BY <1>2, RankProperties, AscendingProperties
  <2> QED
    BY <2>1
<1>7. \A k, l \in 1 .. Cardinality(P) :
        k < l => Ascending(P)[k] < Ascending(P)[l]
  BY <1>2, AscendingProperties
<1> QED
  BY <1>1, <1>2, <1>3, <1>4, <1>5, <1>6, <1>7

\* Appending to a sequence and keeping one of the new positions appends it to
\* what was kept.
LEMMA KeptAppend ==
  ASSUME NEW S, NEW s \in Seq(S), NEW t \in Seq(S), NEW P \in SUBSET (DOMAIN s),
         NEW i \in DOMAIN t, NEW Q, Q = P \cup {Len(s) + i}
  PROVE  Kept(s \o t, Q) = Append(Kept(s, P), t[i])
<1> DEFINE n == Len(s)
           c == Cardinality(P)
           w == s \o t
<1>1. /\ n \in Nat /\ Len(t) \in Nat /\ DOMAIN s = 1 .. n /\ DOMAIN t = 1 .. Len(t)
      /\ i \in 1 .. Len(t)
  OBVIOUS
<1>2. /\ c \in 0 .. n
      /\ Kept(s, P) \in Seq(S) /\ Len(Kept(s, P)) = c
      /\ \A k \in 1 .. c : Ascending(P)[k] \in P /\ Kept(s, P)[k] = s[Ascending(P)[k]]
      /\ \A j \in P : \E k \in 1 .. c : Ascending(P)[k] = j
      /\ \A k, l \in 1 .. c : k < l => Ascending(P)[k] < Ascending(P)[l]
  BY KeptProperties
<1>3. /\ w \in Seq(S) /\ Len(w) = n + Len(t)
      /\ \A j \in 1 .. n + Len(t) : w[j] = IF j <= n THEN s[j] ELSE t[j - n]
  BY ConcatProperties
<1> HIDE DEF n, c, w
<1>4. ASSUME NEW k \in 1 .. c
      PROVE  Ascending(P)[k] \in 1 .. n /\ w[Ascending(P)[k]] = Kept(s, P)[k]
  <2> DEFINE j == Ascending(P)[k]
  <2>1. j \in P /\ Kept(s, P)[k] = s[j]
    BY <1>2
  <2> HIDE DEF j
  <2>2. j \in 1 .. n
    BY <1>1, <2>1
  <2>3. w[j] = s[j]
    BY <1>1, <1>3, <2>2
  <2> QED
    BY <2>1, <2>2, <2>3 DEF j
<1>5. P \in SUBSET Nat /\ IsFiniteSet(P) /\ c \in Nat /\ n + i \in Nat
  BY <1>1, <1>2, KeptProperties
<1>6. Q = P \cup {n + i} /\ \A j \in P : j < n + i
  <2>1. \A j \in P : j \in 1 .. n
    BY <1>1
  <2> QED
    BY <1>1, <2>1 DEF n
<1>7. /\ Cardinality(Q) = c + 1
      /\ \A k \in 1 .. c : Ascending(Q)[k] = Ascending(P)[k]
      /\ Ascending(Q)[c + 1] = n + i
  <2> DEFINE e == n + i
  <2>1. e \in Nat /\ Q = P \cup {e} /\ \A j \in P : j < e
    BY <1>5, <1>6
  <2> HIDE DEF e
  <2>2. /\ Cardinality(Q) = Cardinality(P) + 1
        /\ \A k \in 1 .. Cardinality(P) : Ascending(Q)[k] = Ascending(P)[k]
        /\ Ascending(Q)[Cardinality(P) + 1] = e
    BY <1>5, <2>1, AscendingAppend, SMTT(30)
  <2> QED
    BY <2>2 DEF c, e
<1>8. ASSUME NEW k \in 1 .. c + 1
       PROVE  w[Ascending(Q)[k]] = IF k <= c THEN Kept(s, P)[k] ELSE t[i]
  <2>1. CASE k \in 1 .. c
    <3>1. Ascending(Q)[k] = Ascending(P)[k]
      BY <1>7, <2>1
    <3>2. w[Ascending(P)[k]] = Kept(s, P)[k] /\ k <= c
      BY <1>4, <1>5, <2>1
    <3> QED
      BY <3>1, <3>2
  <2>2. CASE k = c + 1
    <3>1. Ascending(Q)[k] = n + i /\ ~(k <= c)
      BY <1>5, <1>7, <2>2
    <3>2. n + i \in 1 .. n + Len(t) /\ ~(n + i <= n) /\ (n + i) - n = i
      BY <1>1
    <3> QED
      BY <1>3, <3>1, <3>2
  <2> QED
    BY <1>5, <2>1, <2>2
<1>9. Kept(w, Q) = [k \in 1 .. c + 1 |-> IF k <= c THEN Kept(s, P)[k] ELSE t[i]]
  BY <1>7, <1>8 DEF Kept
<1>10. Append(Kept(s, P), t[i])
         = [k \in 1 .. c + 1 |-> IF k <= c THEN Kept(s, P)[k] ELSE t[i]]
  <2> DEFINE q == Kept(s, P)
  <2>1. q \in Seq(S) /\ Len(q) = c
    BY <1>2
  <2> HIDE DEF q
  <2> DEFINE e == t[i]
             g == Append(q, e)
  <2>2. e \in S /\ c \in Nat
    BY <1>1, <1>2
  <2> HIDE DEF e
  <2>3. /\ g \in Seq(S) /\ Len(g) = c + 1
        /\ \A k \in 1 .. c + 1 : g[k] = IF k <= c THEN q[k] ELSE e
    BY <2>1, <2>2
  <2> HIDE DEF g
  <2>4. g = [k \in 1 .. c + 1 |-> g[k]]
    BY <2>3
  <2>5. g = [k \in 1 .. c + 1 |-> IF k <= c THEN q[k] ELSE e]
    BY <2>3, <2>4, Zenon
  <2> QED
    BY <2>5 DEF q, e, g
<1> QED
  BY <1>9, <1>10 DEF w

\* Dropping the first n elements drops what was kept of them.
LEMMA KeptSuffix ==
  ASSUME NEW S, NEW s \in Seq(S), NEW P \in SUBSET (DOMAIN s), NEW n \in 0 .. Len(s)
  PROVE  \E h \in 0 .. Cardinality(P) :
           /\ \A k \in 1 .. Cardinality(P) : Ascending(P)[k] <= n <=> k <= h
           /\ Kept(SubSeq(s, n + 1, Len(s)), {i \in 1 .. Len(s) - n : i + n \in P})
                = SubSeq(Kept(s, P), h + 1, Cardinality(P))
<1> DEFINE c == Cardinality(P)
           asc == Ascending(P)
           Q == {i \in 1 .. Len(s) - n : i + n \in P}
           T == {k \in 0 .. c : k = 0 \/ asc[k] <= n}
<1>1. Len(s) \in Nat /\ DOMAIN s = 1 .. Len(s) /\ n \in Nat
  OBVIOUS
<1>2. /\ c \in 0 .. Len(s)
      /\ Kept(s, P) \in Seq(S) /\ Len(Kept(s, P)) = c
      /\ \A k \in 1 .. c : asc[k] \in P /\ Kept(s, P)[k] = s[asc[k]]
      /\ \A j \in P : \E k \in 1 .. c : asc[k] = j
      /\ \A k, l \in 1 .. c : k < l => asc[k] < asc[l]
  BY KeptProperties
<1> HIDE DEF c, asc
<1>3. \A k \in 1 .. c : asc[k] \in 1 .. Len(s)
  BY <1>1, <1>2
<1>4. PICK h \in T : \A k \in T : k <= h
  <2>1. T \in SUBSET (0 .. c) /\ 0 \in T /\ c \in Nat
    BY <1>2
  <2> HIDE DEF T
  <2> QED
    BY <2>1, GreatestNumber
<1>5. h \in 0 .. c
  OBVIOUS
<1>6. ASSUME NEW k \in 1 .. c PROVE asc[k] <= n <=> k <= h
  <2>1. asc[k] <= n => k <= h
    BY <1>4
  <2>2. ASSUME k <= h PROVE asc[k] <= n
    <3>1. h \in 1 .. c /\ asc[h] <= n /\ (k = h \/ k < h)
      BY <1>2, <1>4, <2>2
    <3>2. k < h => asc[k] < asc[h]
      BY <1>2, <3>1
    <3>3. asc[k] \in Nat /\ asc[h] \in Nat
      BY <1>1, <1>3, <3>1
    <3> QED
      BY <1>1, <3>1, <3>2, <3>3
  <2> QED
    BY <2>1, <2>2
<1> HIDE DEF T
<1> DEFINE m == c - h
           f == [k \in 1 .. m |-> asc[k + h] - n]
<1>7. m \in Nat /\ h \in Nat /\ c \in Nat
  BY <1>2, <1>5
<1>8. ASSUME NEW k \in 1 .. m
      PROVE  /\ k + h \in 1 .. c /\ asc[k + h] \in n + 1 .. Len(s)
             /\ f[k] \in 1 .. Len(s) - n /\ f[k] + n = asc[k + h]
  <2>1. k + h \in 1 .. c /\ ~(k + h <= h)
    BY <1>2, <1>5
  <2>2. asc[k + h] \in 1 .. Len(s) /\ ~(asc[k + h] <= n)
    BY <1>3, <1>6, <2>1
  <2>3. f[k] = asc[k + h] - n
    OBVIOUS
  <2> QED
    BY <1>1, <2>1, <2>2, <2>3
<1>9. f \in [1 .. m -> Nat]
  BY <1>1, <1>8
<1>10. \A k, l \in 1 .. m : k < l => f[k] < f[l]
  <2> SUFFICES ASSUME NEW k \in 1 .. m, NEW l \in 1 .. m, k < l PROVE f[k] < f[l]
    OBVIOUS
  <2>1. asc[k + h] < asc[l + h]
    <3>1. k + h < l + h
      BY <1>5
    <3> QED
      BY <1>2, <1>8, <3>1
  <2>2. f[k] + n = asc[k + h] /\ f[l] + n = asc[l + h] /\ f[k] \in Nat /\ f[l] \in Nat
    BY <1>8, <1>9
  <2> QED
    BY <1>1, <2>1, <2>2
<1>11. Q = {f[k] : k \in 1 .. m}
  <2>1. ASSUME NEW k \in 1 .. m PROVE f[k] \in Q
    BY <1>2, <1>8
  <2>2. ASSUME NEW i \in Q PROVE \E k \in 1 .. m : f[k] = i
    <3>1. PICK l \in 1 .. c : asc[l] = i + n
      BY <1>2
    <3>2. ~(l <= h)
      BY <1>1, <1>6, <3>1
    <3>3. l - h \in 1 .. m /\ (l - h) + h = l
      BY <1>2, <1>5, <3>2
    <3>4. f[l - h] = i
      BY <1>1, <3>1, <3>3
    <3> QED
      BY <3>3, <3>4
  <2> QED
    BY <2>1, <2>2
<1> HIDE DEF f, Q, m
<1>12. Cardinality(Q) = m /\ Ascending(Q) = f
  BY <1>7, <1>9, <1>10, <1>11, AscendingUnique
<1> DEFINE r == SubSeq(s, n + 1, Len(s))
<1>13. ASSUME NEW k \in 1 .. m PROVE r[f[k]] = Kept(s, P)[k + h]
  <2>1. \A i \in 1 .. Len(s) - n : r[i] = s[i + n]
    BY <1>1
  <2>2. r[f[k]] = s[asc[k + h]]
    BY <1>8, <2>1
  <2> HIDE DEF r
  <2> QED
    BY <1>2, <1>8, <2>2
<1>14. SubSeq(Kept(s, P), h + 1, c) = [k \in 1 .. m |-> Kept(s, P)[k + h]]
  <2> DEFINE q == Kept(s, P)
  <2>1. q \in Seq(S) /\ Len(q) = c /\ c \in Nat /\ h \in Nat /\ h <= c
    BY <1>2, <1>5, <1>7
  <2> HIDE DEF q
  <2>2. SubSeq(q, h + 1, c) = [k \in 1 .. c - h |-> q[k + h]]
    BY <2>1
  <2> QED
    BY <2>2 DEF q, m
<1>15. Kept(r, Q) = SubSeq(Kept(s, P), h + 1, c)
  BY <1>12, <1>13, <1>14 DEF Kept
<1> QED
  BY <1>5, <1>6, <1>15 DEF c, asc, Q
=============================================================================
