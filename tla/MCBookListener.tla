--------------------------- MODULE MCBookListener ---------------------------
EXTENDS BookListener, TLC

Symmetry == Permutations(Ids)

(* Recaps of an empty book, an empty level, one entry and two. *)
MCRecaps ==
    {NoBook} \cup {[q \in {p} |-> [id \in S |-> 1]] : p \in Prices, S \in SUBSET Ids}
=============================================================================
