------------------------------- MODULE Picks -------------------------------
(***************************************************************************)
(* What is left of a sequence when a loop of the program skips, or erases, *)
(* some of its elements.                                                   *)
(***************************************************************************)
EXTENDS Integers, FiniteSets, Sequences

\* The elements of s at the positions S, in their order.
Picked(s, S) ==
    [i \in 1 .. Cardinality(S) |->
        s[CHOOSE k \in S : Cardinality({j \in S : j <= k}) = i]]

\* The elements of s that are in the set S, in their order.
Kept(s, S) == Picked(s, {i \in DOMAIN s : s[i] \in S})
=============================================================================
