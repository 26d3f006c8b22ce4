-------------------------------- MODULE Vec --------------------------------
(***************************************************************************)
(* The operations of Rust's Vec that the pool's code uses, as operators on *)
(* sequences.  They are written without recursion: the element that comes  *)
(* j-th among the positions I is the one with exactly j positions of I at  *)
(* or before it.                                                           *)
(***************************************************************************)
EXTENDS Naturals, Sequences, FiniteSets

\* How many positions of I are at or before i.
Rank(I, i) == Cardinality({k \in I : k <= i})

\* The j-th smallest position of I.
Nth(I, j) == CHOOSE i \in I : Rank(I, i) = j

\* Vec::retain: the elements of s at the positions I, in their order.
Retain(s, I) == [j \in 1..Cardinality(I) |-> s[Nth(I, j)]]

=============================================================================
