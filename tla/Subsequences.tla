---------------------------- MODULE Subsequences ----------------------------
(***************************************************************************)
(* What a filter makes of a sequence, said by positions and so without the  *)
(* recursion of SelectSeq, which the provers cannot unfold.                 *)
(***************************************************************************)
EXTENDS Naturals, Sequences, FiniteSets

\* The place of i among the positions in keep.
Rank(keep, i) == Cardinality({j \in keep : j <= i})

\* The elements of s at the positions in keep, in their order.
Picked(s, keep) ==
    [k \in 1..Cardinality(keep) |-> s[CHOOSE i \in keep : Rank(keep, i) = k]]

=============================================================================
