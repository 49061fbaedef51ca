------------------------------- MODULE Sorting -------------------------------
(***************************************************************************)
(* Python's sort of distinct items, by a strict order given as a set of    *)
(* pairs: the k-th item is the one with k - 1 items before it.             *)
(***************************************************************************)
EXTENDS Integers, FiniteSets

SortedBy(S, before) ==
  [k \in 1..Cardinality(S) |->
     CHOOSE x \in S : Cardinality({y \in S : <<y, x>> \in before}) = k - 1]

\* Positions of a list, from the first to the last.
InOrder(I) == SortedBy(I, {p \in I \X I : p[1] < p[2]})
=============================================================================
