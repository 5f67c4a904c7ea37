------------------------------ MODULE Selection ------------------------------
(***************************************************************************)
(* Part of a list.  A loop that takes some elements out of a list            *)
(* (list_for_each with list_remove_element, in common/c_cpp/src/c/list.c)     *)
(* leaves the others in their order.                                        *)
(***************************************************************************)
EXTENDS Integers, Sequences, FiniteSets

(* The place of position i among the positions K. *)
Place(K, i) == Cardinality({j \in K : j <= i})

(* The positions K in order. *)
Origin(K) == [k \in 1 .. Cardinality(K) |-> CHOOSE i \in K : Place(K, i) = k]

(* The elements of s at the positions K, in order: what SelectSeq gives, said   *)
(* without recursion so that it can be reasoned about.                       *)
At(s, K) == [k \in 1 .. Cardinality(K) |-> s[Origin(K)[k]]]
=============================================================================
