---------------------------- MODULE Subsequences ----------------------------
(***************************************************************************)
(* A subsequence by the positions of its elements, without recursion: so    *)
(* that its type can be proved.                                             *)
(***************************************************************************)
EXTENDS Integers, Sequences, FiniteSetsExt

\* The position of the k-th of them.
Position(positions, k) == Min({i \in positions : Cardinality({j \in positions : j <= i}) >= k})

\* The elements of seq at the positions, in their order.
At(seq, positions) == [k \in 1..Cardinality(positions) |-> seq[Position(positions, k)]]
=============================================================================
