----------------------------- MODULE PermitLedger -----------------------------
(***************************************************************************)
(* The permit draw-down ledger of 40_LICENCES_AND_PERMITS_HARDENING.       *)
(*                                                                         *)
(* A permit authorises a quantity.  Every draw is a row, a correction is a *)
(* row that reverses a draw in full, and what is drawn is the SUM of draws *)
(* minus reversals.  An INSERT runs fn_enforce_permit_headroom, which      *)
(* locks the permit row and then reads, under READ COMMITTED, what other   *)
(* sessions have committed; DDP may edit the permit whenever no            *)
(* transaction holds its row.                                              *)
(***************************************************************************)
EXTENDS Integers, FiniteSets, KilogramSum

CONSTANTS Permits,        \* rows of public.permits
          Sessions,       \* DDP sessions that insert draw-downs
          Ids,            \* gen_random_uuid()
          Requests,       \* bound: the quantities drawn
          Limits,         \* bound: the values of quantity_limit_kg
          States,         \* the values of permits.state
          Dates,          \* bound: the dates of the model
          IssueDates,     \* bound: the values of issued_on
          NoRow, NoDraw, NoSession

ASSUME PermitAssumption ==
  /\ Requests \subseteq 1 .. MaxKg
  /\ Limits \subseteq 1 .. MaxKg
  /\ Dates \subseteq Nat /\ IssueDates \subseteq Dates
  /\ "active" \in States
  /\ NoSession \notin Sessions
  /\ NoDraw \notin Ids

VARIABLES
  today,      \* current_date
  permits,    \* permits[p]: quantity_limit_kg, state, issued_on, expires_on
  drawdowns,  \* committed rows of public.permit_drawdowns
  phase,      \* phase[s]: how far session s is in its INSERT
  row,        \* row[s]: NEW
  seen,       \* seen[s]: v_limit, read with the lock
  lockedBy    \* lockedBy[p]: the session that holds the row lock of p

session == <<phase, row, seen>>
vars == <<today, permits, drawdowns, session, lockedBy>>

PermitRow == [limit : Limits, state : States,
              issuedOn : IssueDates, expiresOn : Dates]
Permit == {p \in PermitRow : p.expiresOn >= p.issuedOn}
-----------------------------------------------------------------------------
(* Validity and quantity, computed when asked.                             *)

permit_is_valid(p, asOf) ==
  /\ permits[p].state = "active"
  /\ asOf >= permits[p].issuedOn /\ asOf <= permits[p].expiresOn

DrawsOf(p) == {d \in drawdowns : d.permit = p /\ d.reversalOf = NoDraw}
ReversalsOf(p) == {d \in drawdowns : d.permit = p /\ d.reversalOf # NoDraw}

(* SUM(CASE WHEN reversal_of IS NULL THEN quantity_kg ELSE -quantity_kg END) *)
permit_drawn_kg(p) == SumKg(DrawsOf(p)) - SumKg(ReversalsOf(p))

UsedIds == {d.id : d \in drawdowns} \cup
           {row[s].id : s \in {t \in Sessions : row[t] # NoRow}}
-----------------------------------------------------------------------------
Init ==
  /\ today \in Dates
  /\ permits \in [Permits -> Permit]
  /\ drawdowns = {}
  /\ phase = [s \in Sessions |-> "idle"]
  /\ row = [s \in Sessions |-> NoRow]
  /\ seen = [s \in Sessions |-> 0]
  /\ lockedBy = [p \in Permits |-> NoSession]

EndSession(s) ==
  /\ phase' = [phase EXCEPT ![s] = "idle"]
  /\ row' = [row EXCEPT ![s] = NoRow]
  /\ seen' = [seen EXCEPT ![s] = 0]
  /\ lockedBy' = [p \in Permits |->
                    IF lockedBy[p] = s THEN NoSession ELSE lockedBy[p]]

(* INSERT INTO permit_drawdowns, a draw or the reversal of any row. *)
BeginInsert(s, d) ==
  /\ phase[s] = "idle"
  /\ d.id \notin UsedIds
  /\ row' = [row EXCEPT ![s] = d]
  /\ phase' = [phase EXCEPT ![s] = "waiting"]
  /\ UNCHANGED <<today, permits, drawdowns, seen, lockedBy>>

LockPermit_WithoutForUpdate(s) ==
  /\ phase[s] = "waiting"
  /\ seen' = [seen EXCEPT ![s] = permits[row[s].permit].limit]
  /\ phase' = [phase EXCEPT ![s] = "locked"]
  /\ UNCHANGED <<today, permits, drawdowns, row, lockedBy>>

(* SELECT ... FOR UPDATE: once nobody holds the row, lock it and read it.  *)
LockPermit(s) ==
  /\ phase[s] = "waiting"
  /\ LET p == row[s].permit
     IN /\ lockedBy[p] = NoSession
        /\ lockedBy' = [lockedBy EXCEPT ![p] = s]
        /\ seen' = [seen EXCEPT ![s] = permits[p].limit]
  /\ phase' = [phase EXCEPT ![s] = "locked"]
  /\ UNCHANGED <<today, permits, drawdowns, row>>

(* A reversal restores a whole draw of the same permit.  Neither the state *)
(* of the permit nor its limit is asked for.                               *)
ReversalAdmitted(r) ==
  \E d \in drawdowns : /\ d.id = r.reversalOf
                       /\ d.permit = r.permit
                       /\ d.reversalOf = NoDraw
                       /\ d.kg = r.kg

(* v_state is 'active' (read with the lock, which no edit can change under  *)
(* it) and the draw fits.  v_expires is read and not used.                  *)
DrawAdmitted(s) ==
  /\ permits[row[s].permit].state = "active"
  /\ permit_drawn_kg(row[s].permit) + row[s].kg <= seen[s]

InsertAdmitted(s) ==
  IF row[s].reversalOf # NoDraw THEN ReversalAdmitted(row[s]) ELSE DrawAdmitted(s)

CheckInsert(s) ==
  /\ phase[s] = "locked"
  /\ InsertAdmitted(s)
  /\ phase' = [phase EXCEPT ![s] = "checked"]
  /\ UNCHANGED <<today, permits, drawdowns, row, seen, lockedBy>>

RefuseInsert(s) ==
  /\ phase[s] = "locked"
  /\ ~InsertAdmitted(s)
  /\ EndSession(s)
  /\ UNCHANGED <<today, permits, drawdowns>>

(* uq_permit_drawdowns_one_reversal. *)
BreaksUniqueness(r) ==
  r.reversalOf # NoDraw /\ \E x \in drawdowns : x.reversalOf = r.reversalOf

Commit(s) ==
  /\ phase[s] = "checked"
  /\ ~BreaksUniqueness(row[s])
  /\ drawdowns' = drawdowns \cup {row[s]}
  /\ EndSession(s)
  /\ UNCHANGED <<today, permits>>

(* A second reversal, a dropped connection, a crash: nothing remains. *)
Abort(s) ==
  /\ phase[s] # "idle"
  /\ EndSession(s)
  /\ UNCHANGED <<today, permits, drawdowns>>

EditPermit_IgnoresLock(p, version) ==
  /\ version \in Permit
  /\ permits' = [permits EXCEPT ![p] = version]
  /\ UNCHANGED <<today, drawdowns, session, lockedBy>>

(* UPDATE permits by DDP, to any row the CHECKs allow; it needs the row     *)
(* lock and asks nothing of what is drawn.                                  *)
EditPermit(p, version) ==
  /\ lockedBy[p] = NoSession
  /\ version \in Permit
  /\ permits' = [permits EXCEPT ![p] = version]
  /\ UNCHANGED <<today, drawdowns, session, lockedBy>>

NextDay ==
  /\ today + 1 \in Dates
  /\ today' = today + 1
  /\ UNCHANGED <<permits, drawdowns, session, lockedBy>>

Next ==
  \/ \E s \in Sessions :
       \/ \E d \in [id : Ids, permit : Permits, kg : Requests,
                    reversalOf : Ids \cup {NoDraw}] :
            BeginInsert(s, d)
       \/ LockPermit(s) \/ CheckInsert(s) \/ RefuseInsert(s)
       \/ Commit(s) \/ Abort(s)
  \/ \E p \in Permits, version \in PermitRow : EditPermit(p, version)
  \/ NextDay

Spec == Init /\ [][Next]_vars
-----------------------------------------------------------------------------
(* Properties.                                                             *)

(* 40:433-438.  Whatever edits race with it, a draw is recorded only while *)
(* its permit is active.                                                   *)
DrawsOnActivePermits ==
  [][\A d \in drawdowns' \ drawdowns :
       d.reversalOf = NoDraw => permits[d.permit].state = "active"]_vars

(* 40:45-52.  Several steps of several sessions amount to atomic           *)
(* admissions within the limit the permit has at the commit.               *)
Abstract == INSTANCE QuantityLedger WITH
              Pools <- Permits,
              capacity <- [p \in Permits |-> permits[p].limit],
              held <- [p \in Permits |-> permit_drawn_kg(p)]
ImplementsQuantityLedger == Abstract!Spec

(* 40:433-435, "A draw against a permit that is not in force is refused    *)
(* here as well as at the gate": in force is permit_is_valid.              *)
DrawsInForce ==
  [][\A d \in drawdowns' \ drawdowns :
       d.reversalOf = NoDraw => permit_is_valid(d.permit, today)]_vars
=============================================================================
