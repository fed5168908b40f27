------------------------------ MODULE Filtering ------------------------------
(***************************************************************************)
(* What an array's filter returns, without the recursion of SelectSeq.     *)
(***************************************************************************)
EXTENDS Naturals, FiniteSets

(* The elements of s at these places, in their order.                      *)
At(s, places) ==
  [n \in 1..Cardinality(places) |->
     s[CHOOSE i \in places : Cardinality({j \in places : j <= i}) = n]]
==============================================================================
