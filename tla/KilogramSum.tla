---------------------------- MODULE KilogramSum ----------------------------
(***************************************************************************)
(* SUM(quantity_kg) over a set of ledger rows.  A quantity is a positive   *)
(* number of kilograms (numeric(14,3), counted in its smallest unit) and   *)
(* at most MaxKg, so the sum is the number of pairs <<row, k-th kilogram>>. *)
(***************************************************************************)
EXTENDS Naturals, FiniteSets

CONSTANT MaxKg  \* 1000000: the ceiling of every quantity CHECK

ASSUME MaxKgAssumption == MaxKg \in Nat

Kilograms(rows) == {p \in rows \X (1 .. MaxKg) : p[2] <= p[1].kg}
SumKg(rows) == Cardinality(Kilograms(rows))
=============================================================================
