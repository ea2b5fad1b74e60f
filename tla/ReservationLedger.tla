-------------------------- MODULE ReservationLedger --------------------------
(***************************************************************************)
(* The marketplace reservation ledger of 44_RESERVATION_LEDGER_HARDENING.  *)
(*                                                                         *)
(* A reservation is a row, its ending is another row, and what a batch has *)
(* left is a SUM computed when asked.  Inserting a reservation is a        *)
(* transaction of several statements (the BEFORE INSERT trigger            *)
(* fn_enforce_reservation_availability), each of which reads the rows      *)
(* committed when it runs (READ COMMITTED); sessions interleave between    *)
(* the statements.  The trigger locks the batch row with SELECT ... FOR    *)
(* UPDATE; an edit of the batch needs the same row lock.  now() is the     *)
(* start of the transaction, however long it then waits for the lock.      *)
(***************************************************************************)
EXTENDS Naturals, FiniteSets, KilogramSum

CONSTANTS Batches,      \* rows of inventory_batches
          Orgs,         \* organisations; a member of o acts as the caller o
          BuyerOrgs,    \* the organisations whose org_type is 'buyer'
          DDP,          \* the caller that is_ddp_admin() accepts
          Callers,      \* who calls: DDP, members of organisations
          VerificationStates,  \* the states of organisations.verification_state
          Sessions,     \* database sessions that insert reservations
          Ids,          \* gen_random_uuid()
          HoldPeriod,   \* interval '7 days'
          Requests,     \* bound: the quantities callers ask for
          BatchKgs,     \* bound: the quantities a batch is given
          MaxTime,      \* bound: the last instant
          NoRow, NoSession

ASSUME ReservationAssumption ==
  /\ HoldPeriod \in Nat
  /\ MaxTime \in Nat
  /\ BuyerOrgs \subseteq Orgs
  /\ Callers \subseteq Orgs \cup {DDP}
  /\ Requests \subseteq 1 .. MaxKg
  /\ BatchKgs \subseteq Nat
  /\ NoSession \notin Sessions

VARIABLES
  now,           \* the clock
  batches,       \* batches[b]: quantity_kg and client_visible
  verification,  \* verification[o]: organisations.verification_state
  reservations,  \* committed rows of public.reservations
  releases,      \* committed rows of public.reservation_releases
  log,           \* committed rows of public.commercial_audit_log
  phase,         \* phase[s]: how far session s is in its INSERT
  row,           \* row[s]: NEW, the row session s is inserting
  seenKg,        \* seenKg[s]: v_qty, read with the lock
  lockedBy       \* lockedBy[b]: the session that holds the row lock of b

ledger == <<reservations, releases, log>>
session == <<phase, row, seenKg>>
vars == <<now, batches, verification, ledger, session, lockedBy>>

Kinds == {"released", "cancelled", "converted"}
Row == {r \in [id : Ids, batch : Batches, org : Orgs, kg : 1 .. MaxKg,
               createdAt : Nat, expiresAt : Nat, by : Callers] :
          r.createdAt < r.expiresAt /\ r.expiresAt <= r.createdAt + HoldPeriod}
-----------------------------------------------------------------------------
(* Computed state: active, reserved, usable.                               *)

IsReleased(r) == \E x \in releases : x.reservation = r.id

(* Neither ended by a release row nor lapsed at instant t. *)
reservation_is_active(r, t) == r.expiresAt > t /\ ~IsReleased(r)

ActiveRows(b, t) ==
  {r \in reservations : r.batch = b /\ reservation_is_active(r, t)}

batch_reserved_kg(b, t) == SumKg(ActiveRows(b, t))

Usable(kg) == kg > 0 /\ kg <= MaxKg

batch_available_kg(b, t) ==
  LET reserved == batch_reserved_kg(b, t)
  IN IF Usable(batches[b].kg) /\ reserved < batches[b].kg
       THEN batches[b].kg - reserved ELSE 0

UsedIds == {r.id : r \in reservations} \cup
           {row[s].id : s \in {t \in Sessions : row[t] # NoRow}}
-----------------------------------------------------------------------------
Init ==
  /\ now = 0
  /\ batches \in [Batches -> [kg : BatchKgs, visible : BOOLEAN]]
  /\ verification \in [Orgs -> VerificationStates]
  /\ reservations = {} /\ releases = {} /\ log = {}
  /\ phase = [s \in Sessions |-> "idle"]
  /\ row = [s \in Sessions |-> NoRow]
  /\ seenKg = [s \in Sessions |-> 0]
  /\ lockedBy = [b \in Batches |-> NoSession]

EndSession_KeepsLock(s) ==
  /\ phase' = [phase EXCEPT ![s] = "idle"]
  /\ row' = [row EXCEPT ![s] = NoRow]
  /\ seenKg' = [seenKg EXCEPT ![s] = 0]
  /\ UNCHANGED lockedBy

(* Session s ends its transaction: its row and its lock are gone. *)
EndSession(s) ==
  /\ phase' = [phase EXCEPT ![s] = "idle"]
  /\ row' = [row EXCEPT ![s] = NoRow]
  /\ seenKg' = [seenKg EXCEPT ![s] = 0]
  /\ lockedBy' = [b \in Batches |->
                     IF lockedBy[b] = s THEN NoSession ELSE lockedBy[b]]

(* INSERT INTO reservations: whatever created_at the caller sends becomes  *)
(* the transaction's start, the hold is at most HoldPeriod, and the caller *)
(* is DDP or a member of the organisation the hold is for.                 *)
BeginReservation_TrustsCreatedAt(s, r) ==
  /\ phase[s] = "idle"
  /\ r.id \notin UsedIds
  /\ r.by \in {DDP, r.org}
  /\ r.createdAt < r.expiresAt /\ r.expiresAt <= r.createdAt + HoldPeriod
  /\ row' = [row EXCEPT ![s] = r]
  /\ phase' = [phase EXCEPT ![s] = "waiting"]
  /\ UNCHANGED <<now, batches, verification, ledger, seenKg, lockedBy>>

BeginReservation(s, r) ==
  /\ phase[s] = "idle"
  /\ r.id \notin UsedIds
  /\ r.by \in {DDP, r.org}
  /\ now < r.expiresAt /\ r.expiresAt <= now + HoldPeriod
  /\ row' = [row EXCEPT ![s] = [r EXCEPT !.createdAt = now]]
  /\ phase' = [phase EXCEPT ![s] = "waiting"]
  /\ UNCHANGED <<now, batches, verification, ledger, seenKg, lockedBy>>

BatchAdmits(b) == batches[b].visible /\ Usable(batches[b].kg)

LockBatch_WithoutForUpdate(s) ==
  /\ phase[s] = "waiting"
  /\ BatchAdmits(row[s].batch)
  /\ seenKg' = [seenKg EXCEPT ![s] = batches[row[s].batch].kg]
  /\ phase' = [phase EXCEPT ![s] = "locked"]
  /\ UNCHANGED <<now, batches, verification, ledger, row, lockedBy>>

(* SELECT ... FOR UPDATE: once nobody holds the row, lock it and read it.  *)
LockBatch(s) ==
  /\ phase[s] = "waiting"
  /\ LET b == row[s].batch
     IN /\ lockedBy[b] = NoSession
        /\ BatchAdmits(b)
        /\ lockedBy' = [lockedBy EXCEPT ![b] = s]
        /\ seenKg' = [seenKg EXCEPT ![s] = batches[b].kg]
  /\ phase' = [phase EXCEPT ![s] = "locked"]
  /\ UNCHANGED <<now, batches, verification, ledger, row>>

(* The batch is unpublished or has no usable quantity. *)
RefuseBatch(s) ==
  /\ phase[s] = "waiting"
  /\ lockedBy[row[s].batch] = NoSession
  /\ ~BatchAdmits(row[s].batch)
  /\ EndSession(s)
  /\ UNCHANGED <<now, batches, verification, ledger>>

MayHoldStock(o) == o \in BuyerOrgs /\ verification[o] = "verified"

(* The organisation is read without a lock. *)
ReadBuyer(s) ==
  /\ phase[s] = "locked"
  /\ MayHoldStock(row[s].org)
  /\ phase' = [phase EXCEPT ![s] = "cleared"]
  /\ UNCHANGED <<now, batches, verification, ledger, row, seenKg, lockedBy>>

RefuseBuyer(s) ==
  /\ phase[s] = "locked"
  /\ ~MayHoldStock(row[s].org)
  /\ EndSession(s)
  /\ UNCHANGED <<now, batches, verification, ledger>>

(* v_reserved + NEW.quantity_kg <= v_qty, measured at v_now. *)
Fits(s) ==
  batch_reserved_kg(row[s].batch, row[s].createdAt) + row[s].kg <= seenKg[s]

CheckAvailability(s) ==
  /\ phase[s] = "cleared"
  /\ Fits(s)
  /\ phase' = [phase EXCEPT ![s] = "checked"]
  /\ UNCHANGED <<now, batches, verification, ledger, row, seenKg, lockedBy>>

RefuseAvailability(s) ==
  /\ phase[s] = "cleared"
  /\ ~Fits(s)
  /\ EndSession(s)
  /\ UNCHANGED <<now, batches, verification, ledger>>

(* COMMIT: the row and its audit row become visible, the lock is dropped.  *)
Commit(s) ==
  /\ phase[s] = "checked"
  /\ reservations' = reservations \cup {row[s]}
  /\ log' = log \cup {[action |-> "reservation_created",
                       reservation |-> row[s].id, actor |-> row[s].by]}
  /\ EndSession(s)
  /\ UNCHANGED <<now, batches, verification, releases>>

(* The client goes away, or the server: nothing of the row remains. *)
Abort(s) ==
  /\ phase[s] # "idle"
  /\ EndSession(s)
  /\ UNCHANGED <<now, batches, verification, ledger>>

(* INSERT INTO reservation_releases.  reservation_id is UNIQUE, a buyer    *)
(* may only cancel its own, and nothing asks whether the hold has lapsed.  *)
Release(r, kind, caller) ==
  /\ ~IsReleased(r)
  /\ caller = DDP \/ (kind = "cancelled" /\ caller = r.org)
  /\ releases' = releases \cup {[reservation |-> r.id, kind |-> kind]}
  /\ log' = log \cup {[action |-> "reservation_released",
                       reservation |-> r.id, actor |-> caller]}
  /\ UNCHANGED <<now, batches, verification, reservations, session, lockedBy>>

(* UPDATE inventory_batches: it needs the row lock and reads no reservation. *)
EditBatch(b, kg, visible) ==
  /\ lockedBy[b] = NoSession
  /\ batches' = [batches EXCEPT ![b] = [kg |-> kg, visible |-> visible]]
  /\ UNCHANGED <<now, verification, ledger, session, lockedBy>>

(* UPDATE organisations by DDP: any state to any state. *)
SetVerification(o, state) ==
  /\ verification' = [verification EXCEPT ![o] = state]
  /\ UNCHANGED <<now, batches, ledger, session, lockedBy>>

(* Time passes: a hold lapses with nothing written anywhere. *)
Tick ==
  /\ now < MaxTime
  /\ now' = now + 1
  /\ UNCHANGED <<batches, verification, ledger, session, lockedBy>>

(* Bound: the dates a caller sends lie at most HoldPeriod + 1 ahead. *)
Insert(s) ==
  \/ \E i \in Ids, b \in Batches, o \in Orgs, kg \in Requests,
       claimed, end \in now .. now + HoldPeriod + 1, by \in Callers :
       BeginReservation(s, [id |-> i, batch |-> b, org |-> o, kg |-> kg,
                            createdAt |-> claimed, expiresAt |-> end,
                            by |-> by])
  \/ LockBatch(s) \/ RefuseBatch(s)
  \/ ReadBuyer(s) \/ RefuseBuyer(s)
  \/ CheckAvailability(s) \/ RefuseAvailability(s)
  \/ Commit(s) \/ Abort(s)

Next ==
  \/ \E s \in Sessions : Insert(s)
  \/ \E r \in reservations, kind \in Kinds, caller \in Callers :
       Release(r, kind, caller)
  \/ \E b \in Batches, kg \in BatchKgs, visible \in BOOLEAN :
       EditBatch(b, kg, visible)
  \/ \E o \in Orgs, state \in VerificationStates : SetVerification(o, state)
  \/ Tick

Spec == Init /\ [][Next]_vars
-----------------------------------------------------------------------------
(* Properties.                                                             *)

(* Each variable holds what its column may hold. *)
TypeOK ==
  /\ now \in Nat
  /\ batches \in [Batches -> [kg : Nat, visible : BOOLEAN]]
  /\ verification \in [Orgs -> VerificationStates]
  /\ reservations \subseteq Row /\ IsFiniteSet(reservations)
  /\ releases \subseteq [reservation : Ids, kind : Kinds]
  /\ log \subseteq [action : {"reservation_created", "reservation_released"},
                    reservation : Ids, actor : Callers]
  /\ phase \in [Sessions -> {"idle", "waiting", "locked", "cleared", "checked"}]
  /\ row \in [Sessions -> Row \cup {NoRow}]
  /\ seenKg \in [Sessions -> Nat]
  /\ lockedBy \in [Batches -> Sessions \cup {NoSession}]

(* 44:389-393.  What the trigger read with the lock is what the batch has  *)
(* until the transaction ends, and now() is never in the future.           *)
SeenIsCurrent ==
  \A s \in Sessions :
    /\ phase[s] # "idle" => row[s] \in Row /\ row[s].createdAt <= now
    /\ phase[s] \in {"locked", "cleared", "checked"} =>
         /\ lockedBy[row[s].batch] = s
         /\ seenKg[s] = batches[row[s].batch].kg /\ Usable(seenKg[s])

(* 44:344-347.  From the check to the commit, whatever other sessions, the *)
(* clock and the administrators do, the kilograms of the checked row are   *)
(* still among those that batch_available_kg tells any reader are left.    *)
CheckedStillFits ==
  \A s \in Sessions : phase[s] = "checked" =>
    row[s].kg <= batch_available_kg(row[s].batch, now)

Oversold(b) == batch_reserved_kg(b, now) > batches[b].kg

(* 44:43-44, the oversell guard.  No interleaving of reservations makes a  *)
(* batch oversold: only an edit that takes kilograms off a batch can.      *)
OversoldOnlyByEdit ==
  [][\A b \in Batches : ~Oversold(b) /\ Oversold(b)' =>
       batches'[b].kg < batches[b].kg]_vars

(* Seam 2: several steps of several sessions amount to atomic admissions.  *)
Abstract == INSTANCE QuantityLedger WITH
              Pools <- Batches,
              capacity <- [b \in Batches |-> batches[b].kg],
              held <- [b \in Batches |-> batch_reserved_kg(b, now)]
ImplementsQuantityLedger == Abstract!Spec

(* 44:349-350, 389-400.  Whatever edits race with it, a hold is recorded   *)
(* only on a batch that is published, and has a usable quantity, then.     *)
HeldOnlyWhilePublished ==
  [][\A r \in reservations' \ reservations : BatchAdmits(r.batch)]_vars

(* 44:346-347, "makes the second transaction wait": the wait always ends.  *)
EveryInsertEnds == \A s \in Sessions : phase[s] = "waiting" ~> phase[s] = "idle"

(* The statements of a transaction run; a freed row lock is handed to each *)
(* of its waiters in turn.                                                 *)
FairSpec ==
  /\ Spec
  /\ \A s \in Sessions :
       /\ SF_vars(LockBatch(s) \/ RefuseBatch(s))
       /\ WF_vars(ReadBuyer(s) \/ RefuseBuyer(s))
       /\ WF_vars(CheckAvailability(s) \/ RefuseAvailability(s))
       /\ WF_vars(Commit(s))
=============================================================================
