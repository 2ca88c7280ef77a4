----------------------------- MODULE Selections ------------------------------
(***************************************************************************)
(* The selection of some elements of a sequence, in the order in which     *)
(* they are: what a filter or retain of the code leaves of a list. Written *)
(* without recursion, by the number of selected places up to a place.      *)
(***************************************************************************)
EXTENDS Naturals, Sequences, FiniteSets

(* The elements of s at the places K. *)
Selected(s, K) ==
  [i \in 1..Cardinality(K) |->
     s[CHOOSE k \in K : Cardinality({j \in K : j <= k}) = i]]

=============================================================================
