-------------------------------- MODULE Lists ---------------------------------
(***************************************************************************)
(* The part of a list at some of its positions, in the list's order.  SelectSeq *)
(* says it for the elements with a property; it is defined by recursion, and      *)
(* what is said here of a set of positions can be proved about.                    *)
(***************************************************************************)
EXTENDS Naturals, FiniteSets

Nth(I, k) == CHOOSE i \in I : Cardinality({j \in I : j <= i}) = k
Picked(list, I) == [k \in 1 .. Cardinality(I) |-> list[Nth(I, k)]]
=============================================================================
