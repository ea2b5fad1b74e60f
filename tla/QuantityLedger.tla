--------------------------- MODULE QuantityLedger ---------------------------
(***************************************************************************)
(* What docs/OPTION_B_SEAM_CONTRACT.md (seam 2) asks of a quantity kept as *)
(* a ledger: several pools (inventory batches, permits), each with a       *)
(* capacity and an amount held against it.  An admission may raise what is *)
(* held, and never past the capacity; anything may be given back at any    *)
(* time; an administrator may set a capacity to whatever he likes.         *)
(*                                                                         *)
(* The ledgers of migrations 44 and 40 read, check and write in several    *)
(* steps of several transactions.  They implement this specification, in   *)
(* which an admission is one step.                                         *)
(***************************************************************************)
EXTENDS Naturals

CONSTANT Pools

VARIABLES capacity,  \* capacity[p]: the most that may be held against p
          held       \* held[p]: the amount held against p now

vars == <<capacity, held>>

(* A ledger begins empty. *)
Init == /\ capacity \in [Pools -> Nat]
        /\ held = [p \in Pools |-> 0]

(* An admission: more is held against p, within the capacity p has now. *)
Admit(p) == /\ held'[p] \in held[p] .. capacity[p]
            /\ held' = [held EXCEPT ![p] = held'[p]]
            /\ UNCHANGED capacity

(* Holds are released, reversed, or lapse together as time passes. *)
GiveBack == /\ held' \in [Pools -> Nat]
            /\ \A p \in Pools : held'[p] <= held[p]
            /\ UNCHANGED capacity

(* The capacity of p is edited; nothing ties it to what is held. *)
Resize(p) == /\ capacity'[p] \in Nat
             /\ capacity' = [capacity EXCEPT ![p] = capacity'[p]]
             /\ UNCHANGED held

Next == GiveBack \/ \E p \in Pools : Admit(p) \/ Resize(p)

Spec == Init /\ [][Next]_vars
=============================================================================
