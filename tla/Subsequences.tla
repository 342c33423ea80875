---------------------------- MODULE Subsequences ----------------------------
(***************************************************************************)
(* What is left of a sequence.                                             *)
(***************************************************************************)
EXTENDS Naturals, Sequences, FiniteSets

\* The elements at some places, in their order.
Subsequence(s, places) ==
    [n \in 1..Cardinality(places) |->
        s[CHOOSE i \in places : Cardinality(places \cap (1..i)) = n]]
=============================================================================
