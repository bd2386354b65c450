----------------------------- MODULE Selections -----------------------------
(***************************************************************************)
(* What is chosen from a collection and brought into an order.  Both are   *)
(* given by ranks: the provers can expand them, which they cannot do with  *)
(* SelectSeq and SortSeq.                                                  *)
(***************************************************************************)
EXTENDS Integers, Sequences, FiniteSets

\* A set in a total order: at every position the element that as many precede.
Ordered(S, Precedes(_, _)) ==
    LET ranked == {<<Cardinality({d \in S : Precedes(d, e)}), e>> : e \in S}
    IN  [i \in 1..Cardinality(S) |-> (CHOOSE r \in ranked : r[1] = i - 1)[2]]

\* Numbers from the least to the greatest.
Ascending(S) == Ordered(S, <)

\* The elements of a list at some of its places, and those that pass a test, in their order.
Chosen(list, places) ==
    LET order == Ascending(places) IN [i \in 1..Cardinality(places) |-> list[order[i]]]
Where(list, Test(_)) == Chosen(list, {i \in DOMAIN list : Test(list[i])})
=============================================================================
