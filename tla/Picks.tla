-------------------------------- MODULE Picks --------------------------------
(***************************************************************************)
(* What filter leaves of an array, by the places of what it keeps.         *)
(***************************************************************************)
EXTENDS Naturals, Sequences, FiniteSets

\* The members of s at the places in kept, in their order.
Pick(s, kept) ==
    [k \in 1..Cardinality(kept) |->
        s[CHOOSE i \in kept : Cardinality({j \in kept : j <= i}) = k]]
=============================================================================
