------------------------- MODULE MCReservationLedger -------------------------
(* A small instance of ReservationLedger for TLC. *)
EXTENDS ReservationLedger

CONSTANTS b1, buyer1, exporter1, s1, s2, i1, i2
=============================================================================
