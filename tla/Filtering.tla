----------------------------- MODULE Filtering -----------------------------
(***************************************************************************)
(* Loops that go through a list and keep some of its entries.  They are    *)
(* described by counting, as SelectSeq is, by recursion, nothing that a    *)
(* prover could use.                                                       *)
(***************************************************************************)
EXTENDS Integers, Sequences, FiniteSets

\* Of the places up to i, how many there are.
Rank(i, places) == Cardinality({j \in places : j <= i})

\* The entries of a list that are in a set, in their order.
Places(list, set) == {i \in DOMAIN list : list[i] \in set}

Kept(list, set) ==
    LET places == Places(list, set)
    IN  [r \in 1..Cardinality(places) |->
            list[CHOOSE i \in places : Rank(i, places) = r]]

=============================================================================
