-------------------------------- MODULE Ranks --------------------------------
(* The elements of a set of numbers in ascending order: what a loop over a  *)
(* sequence of inputs does to those of its positions that meet a condition. *)
EXTENDS Naturals, FiniteSets

\* How many elements of S there are up to k.
Rank(S, k) == Cardinality({j \in S : j <= k})

\* The positions in S, in the order of the loop.
InOrder(S) == [i \in 1 .. Cardinality(S) |-> CHOOSE k \in S : Rank(S, k) = i]
=============================================================================
