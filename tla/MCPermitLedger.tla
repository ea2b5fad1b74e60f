--------------------------- MODULE MCPermitLedger ---------------------------
(* Small instances of PermitLedger for TLC. *)
EXTENDS PermitLedger, TLC

CONSTANTS p1, p2, s1, s2, i1, i2, i3, i4

(* Ids, sessions and permits are interchangeable: safety runs only. *)
Symmetry == Permutations(Ids) \cup Permutations(Sessions) \cup Permutations(Permits)
=============================================================================
