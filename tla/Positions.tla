----------------------------- MODULE Positions -----------------------------
(***************************************************************************)
(* Sets of numbers in ascending order, and what a sequence keeps at some   *)
(* of its positions: Array.prototype.filter() and the like. They stand     *)
(* where SelectSeq and SetToSortSeq could, which take an operator and so   *)
(* cannot be reasoned about.                                               *)
(***************************************************************************)
EXTENDS Naturals, Sequences, FiniteSets

\* How many elements of P are no greater than i.
Rank(P, i) == Cardinality({j \in P : j <= i})

\* The numbers of a finite set in ascending order.
Ascending(P) == [k \in 1 .. Cardinality(P) |-> CHOOSE i \in P : Rank(P, i) = k]

\* The elements of s at the positions in P, in their order.
Kept(s, P) == [k \in 1 .. Cardinality(P) |-> s[Ascending(P)[k]]]
=============================================================================
