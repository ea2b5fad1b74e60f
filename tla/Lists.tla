------------------------------- MODULE Lists -------------------------------
(***************************************************************************)
(* Some elements of a list, in their order: what Array.filter returns of   *)
(* the positions whose elements pass.                                      *)
(***************************************************************************)
EXTENDS Naturals, FiniteSets

NthOf(where, k) == CHOOSE n \in where : Cardinality({m \in where : m <= n}) = k

Picked(list, where) == [k \in 1..Cardinality(where) |-> list[NthOf(where, k)]]
=============================================================================
