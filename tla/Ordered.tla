-------------------------------- MODULE Ordered --------------------------------
(***************************************************************************)
(* Sequences made of sets of numbers, by counting and not by recursion, so *)
(* that proofs can tell what is in them: those of the library are defined  *)
(* by functions that recurse over the set or the sequence.                 *)
(***************************************************************************)
EXTENDS Naturals, FiniteSets

\* The elements of a finite set of numbers, the smallest first: the k-th has
\* k - 1 below it.
InOrder(S) ==
  [k \in 1..Cardinality(S) |-> CHOOSE i \in S : Cardinality({j \in S : j < i}) = k - 1]

\* What a sequence has at these positions, in its order.
AtPositions(seq, positions) ==
  [k \in 1..Cardinality(positions) |-> seq[InOrder(positions)[k]]]
=============================================================================
