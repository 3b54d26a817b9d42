------------------------------- MODULE Lists -------------------------------
(* The loops over slices, in terms of the positions they are after: the    *)
(* first of them, 0 for none; the entries at them, in their order; and the *)
(* list without the entry at one of them.                                  *)
EXTENDS Naturals, Sequences, FiniteSets

First(pos) == IF pos = {} THEN 0 ELSE CHOOSE i \in pos : \A j \in pos : i <= j
Kept(list, pos) ==
    [n \in 1..Cardinality(pos) |->
        list[CHOOSE i \in pos : Cardinality({j \in pos : j <= i}) = n]]
Without(list, k) == Kept(list, DOMAIN list \ {k})
=============================================================================
