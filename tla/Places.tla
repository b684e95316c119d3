------------------------------- MODULE Places -------------------------------
(***************************************************************************)
(* What stands at some places of a text, in the order of the places, and   *)
(* what numbers at places come to: how the definitions that look at a      *)
(* whole text say what a loop over it should have found.                   *)
(***************************************************************************)
EXTENDS Integers, FiniteSetsExt

Nth(places, n)        == CHOOSE i \in places : Cardinality({j \in places : j <= i}) = n
InOrder(places, item) == [n \in 1 .. Cardinality(places) |-> item[Nth(places, n)]]
SumOver(f, places)    == MapThenSumSet(LAMBDA i : f[i], places)
=============================================================================
