----------------------- MODULE ReservationLedgerProofs -----------------------
(***************************************************************************)
(* Theorems about ReservationLedger, for every value of its constants: the *)
(* types, the invariants of the oversell guard, and that the ledger        *)
(* implements QuantityLedger.                                              *)
(***************************************************************************)
EXTENDS ReservationLedger, CountingProofs

USE DEF ledger, session
-----------------------------------------------------------------------------
(* CheckedStillFits without the cut-offs of batch_available_kg. *)
RoomLeft ==
  \A s \in Sessions : phase[s] = "checked" =>
    batch_reserved_kg(row[s].batch, now) + row[s].kg <= batches[row[s].batch].kg

(* The inductive invariant: types, what a session saw, what it checked.    *)
IInv == TypeOK /\ SeenIsCurrent /\ RoomLeft

(* Next, with the quantified row of an INSERT named once for every proof.  *)
LEMMA NextCases ==
  ASSUME Next, ReservationAssumption, now \in Nat
  PROVE  \/ \E s \in Sessions :
              \/ \E r : /\ [r EXCEPT !.createdAt = now] \in Row
                       /\ BeginReservation(s, r)
              \/ LockBatch(s) \/ RefuseBatch(s)
              \/ ReadBuyer(s) \/ RefuseBuyer(s)
              \/ CheckAvailability(s) \/ RefuseAvailability(s)
              \/ Commit(s) \/ Abort(s)
         \/ \E r \in reservations, kind \in Kinds, caller \in Callers :
              Release(r, kind, caller)
         \/ \E b \in Batches, kg \in BatchKgs, visible \in BOOLEAN :
              EditBatch(b, kg, visible)
         \/ \E o \in Orgs, state \in VerificationStates :
              SetVerification(o, state)
         \/ Tick
<1>1. ASSUME NEW s \in Sessions, NEW i \in Ids, NEW b \in Batches, NEW o \in Orgs,
             NEW kg \in Requests, NEW claimed \in now .. now + HoldPeriod + 1,
             NEW end \in now .. now + HoldPeriod + 1, NEW by \in Callers,
             NEW r, r = [id |-> i, batch |-> b, org |-> o, kg |-> kg,
                         createdAt |-> claimed, expiresAt |-> end, by |-> by],
             BeginReservation(s, r)
      PROVE  [r EXCEPT !.createdAt = now] \in Row
  <2>1. kg \in 1 .. MaxKg /\ end \in Nat
    BY ReservationAssumption
  <2>2. now < end /\ end <= now + HoldPeriod
    BY <1>1 DEF BeginReservation
  <2> QED
    BY <1>1, <2>1, <2>2 DEF Row
<1> QED
  BY <1>1 DEF Next, Insert

(* The end of a transaction, committed or not, leaves the types right.     *)
LEMMA EndSessionTypes ==
  ASSUME TypeOK, NEW s \in Sessions, EndSession(s)
  PROVE  /\ phase' \in [Sessions -> {"idle", "waiting", "locked", "cleared", "checked"}]
         /\ row' \in [Sessions -> Row \cup {NoRow}]
         /\ seenKg' \in [Sessions -> Nat]
         /\ lockedBy' \in [Batches -> Sessions \cup {NoSession}]
  BY DEF TypeOK, EndSession

(* Every step of the ledger keeps the columns' types. *)
LEMMA TypeStep ==
  ASSUME TypeOK, SeenIsCurrent, [Next]_vars
  PROVE  TypeOK'
<1> USE ReservationAssumption
<1>1. CASE UNCHANGED vars
  BY <1>1 DEF TypeOK, vars
<1>2. ASSUME NEW s \in Sessions, NEW r, [r EXCEPT !.createdAt = now] \in Row,
             BeginReservation(s, r)
      PROVE  TypeOK'
  BY <1>2 DEF TypeOK, BeginReservation
<1>3. ASSUME NEW s \in Sessions, LockBatch(s)
      PROVE  TypeOK'
  <2>1. row[s] \in Row
    BY <1>3 DEF SeenIsCurrent, LockBatch
  <2>2. row[s].batch \in Batches
    BY <2>1 DEF Row
  <2> QED
    BY <1>3, <2>2 DEF TypeOK, LockBatch
<1>4. ASSUME NEW s \in Sessions, ReadBuyer(s) \/ CheckAvailability(s)
      PROVE  TypeOK'
  BY <1>4 DEF TypeOK, ReadBuyer, CheckAvailability
<1>5. ASSUME NEW s \in Sessions,
             RefuseBatch(s) \/ RefuseBuyer(s) \/ RefuseAvailability(s) \/ Abort(s)
      PROVE  TypeOK'
  <2>1. EndSession(s) /\ UNCHANGED <<now, batches, verification, ledger>>
    BY <1>5 DEF RefuseBatch, RefuseBuyer, RefuseAvailability, Abort
  <2> QED
    BY <2>1, EndSessionTypes DEF TypeOK
<1>6. ASSUME NEW s \in Sessions, Commit(s)
      PROVE  TypeOK'
  <2>1. row[s] \in Row
    BY <1>6 DEF SeenIsCurrent, Commit
  <2>2. row[s].id \in Ids /\ row[s].by \in Callers
    BY <2>1 DEF Row
  <2>3. reservations' \subseteq Row /\ IsFiniteSet(reservations')
    BY <1>6, <2>1, FS_AddElement DEF TypeOK, Commit
  <2>4. EndSession(s) /\ UNCHANGED <<now, batches, verification, releases>>
    BY <1>6 DEF Commit
  <2> QED
    BY <1>6, <2>2, <2>3, <2>4, EndSessionTypes DEF TypeOK, Commit
<1>7. ASSUME NEW r \in reservations, NEW kind \in Kinds, NEW caller \in Callers,
             Release(r, kind, caller)
      PROVE  TypeOK'
  <2>1. r.id \in Ids
    BY DEF TypeOK, Row
  <2> QED
    BY <1>7, <2>1 DEF TypeOK, Release
<1>8. ASSUME NEW b \in Batches, NEW kg \in BatchKgs, NEW visible \in BOOLEAN,
             EditBatch(b, kg, visible)
      PROVE  TypeOK'
  BY <1>8 DEF TypeOK, EditBatch
<1>9. ASSUME NEW o \in Orgs, NEW state \in VerificationStates,
             SetVerification(o, state)
      PROVE  TypeOK'
  BY <1>9 DEF TypeOK, SetVerification
<1>10. CASE Tick
  BY <1>10 DEF TypeOK, Tick
<1>11. now \in Nat
  BY DEF TypeOK
<1> QED
  BY <1>1, <1>2, <1>3, <1>4, <1>5, <1>6, <1>7, <1>8, <1>9, <1>10, <1>11, NextCases
-----------------------------------------------------------------------------
(* The lock: a session that ends touches no other session and gives up only *)
(* its own lock.                                                            *)
LEMMA EndSessionIsLocal ==
  ASSUME TypeOK, NEW s \in Sessions, EndSession(s)
  PROVE  /\ phase'[s] = "idle"
         /\ \A t \in Sessions \ {s} : /\ phase'[t] = phase[t]
                                     /\ row'[t] = row[t]
                                     /\ seenKg'[t] = seenKg[t]
         /\ \A b \in Batches : lockedBy[b] # s => lockedBy'[b] = lockedBy[b]
  BY DEF TypeOK, EndSession

(* What a session saw stays current through a step that ends a session and *)
(* touches neither the clock nor the batches.                              *)
LEMMA SeenAfterEnd ==
  ASSUME TypeOK, SeenIsCurrent, NEW s \in Sessions, EndSession(s),
         UNCHANGED <<now, batches>>
  PROVE  SeenIsCurrent'
<1> SUFFICES ASSUME NEW t \in Sessions
             PROVE  /\ phase'[t] # "idle" => row'[t] \in Row /\ row'[t].createdAt <= now'
                    /\ phase'[t] \in {"locked", "cleared", "checked"} =>
                         /\ lockedBy'[row'[t].batch] = t
                         /\ seenKg'[t] = batches'[row'[t].batch].kg
                         /\ Usable(seenKg'[t])
  BY DEF SeenIsCurrent, Usable
<1>1. CASE t = s
  BY <1>1, EndSessionIsLocal
<1>2. CASE t # s
  <2>1. phase'[t] = phase[t] /\ row'[t] = row[t] /\ seenKg'[t] = seenKg[t]
    BY <1>2, EndSessionIsLocal
  <2>2. CASE phase[t] \in {"locked", "cleared", "checked"}
    <3>1. row[t] \in Row /\ lockedBy[row[t].batch] = t
      BY <2>2 DEF SeenIsCurrent
    <3>2. row[t].batch \in Batches
      BY <3>1 DEF Row
    <3>3. lockedBy'[row[t].batch] = t
      BY <1>2, <3>1, <3>2, EndSessionIsLocal
    <3> QED
      BY <2>1, <2>2, <3>1, <3>3 DEF SeenIsCurrent
  <2>3. CASE phase[t] \notin {"locked", "cleared", "checked"}
    BY <2>1, <2>3 DEF SeenIsCurrent
  <2> QED
    BY <2>2, <2>3
<1> QED
  BY <1>1, <1>2

(* Every step of the ledger keeps what the lock holders saw current. *)
LEMMA SeenStep ==
  ASSUME TypeOK, SeenIsCurrent, [Next]_vars
  PROVE  SeenIsCurrent'
<1> USE ReservationAssumption
<1>1. CASE UNCHANGED vars
  BY <1>1 DEF SeenIsCurrent, vars
<1>2. ASSUME NEW s \in Sessions, NEW r, [r EXCEPT !.createdAt = now] \in Row,
             BeginReservation(s, r)
      PROVE  SeenIsCurrent'
  <2> DEFINE new == [r EXCEPT !.createdAt = now]
  <2>1. new.createdAt = now /\ new \in Row /\ now \in Nat
    BY <1>2 DEF Row, TypeOK
  <2>2. /\ phase' = [phase EXCEPT ![s] = "waiting"] /\ row' = [row EXCEPT ![s] = new]
        /\ UNCHANGED <<now, batches, seenKg, lockedBy>>
    BY <1>2 DEF BeginReservation
  <2> HIDE DEF new
  <2> QED
    BY <2>1, <2>2 DEF SeenIsCurrent, TypeOK
<1>3. ASSUME NEW s \in Sessions, LockBatch(s)
      PROVE  SeenIsCurrent'
  <2>1. row[s] \in Row
    BY <1>3 DEF SeenIsCurrent, LockBatch
  <2>2. row[s].batch \in Batches
    BY <2>1 DEF Row
  <2>3. \A t \in Sessions : phase[t] \in {"locked", "cleared", "checked"} =>
          row[t] \in Row /\ row[t].batch \in Batches /\ row[t].batch # row[s].batch
    BY <1>3, ReservationAssumption DEF SeenIsCurrent, LockBatch, Row
  <2> QED
    BY <1>3, <2>1, <2>2, <2>3 DEF SeenIsCurrent, TypeOK, LockBatch, BatchAdmits, Usable
<1>4. ASSUME NEW s \in Sessions, ReadBuyer(s) \/ CheckAvailability(s)
      PROVE  SeenIsCurrent'
  BY <1>4 DEF SeenIsCurrent, TypeOK, ReadBuyer, CheckAvailability
<1>5. ASSUME NEW s \in Sessions,
             RefuseBatch(s) \/ RefuseBuyer(s) \/ RefuseAvailability(s) \/ Abort(s)
               \/ Commit(s)
      PROVE  SeenIsCurrent'
  <2>1. EndSession(s) /\ UNCHANGED <<now, batches>>
    BY <1>5 DEF RefuseBatch, RefuseBuyer, RefuseAvailability, Abort, Commit
  <2> QED
    BY <2>1, SeenAfterEnd
<1>6. ASSUME NEW r \in reservations, NEW kind \in Kinds, NEW caller \in Callers,
             Release(r, kind, caller)
      PROVE  SeenIsCurrent'
  BY <1>6 DEF SeenIsCurrent, Release
<1>7. ASSUME NEW b \in Batches, NEW kg \in BatchKgs, NEW visible \in BOOLEAN,
             EditBatch(b, kg, visible)
      PROVE  SeenIsCurrent'
  <2>1. \A t \in Sessions : phase[t] \in {"locked", "cleared", "checked"} =>
          row[t].batch # b
    BY <1>7 DEF SeenIsCurrent, EditBatch
  <2> QED
    BY <1>7, <2>1 DEF SeenIsCurrent, TypeOK, EditBatch
<1>8. ASSUME NEW o \in Orgs, NEW state \in VerificationStates,
             SetVerification(o, state)
      PROVE  SeenIsCurrent'
  BY <1>8 DEF SeenIsCurrent, SetVerification
<1>9. CASE Tick
  <2>1. \A t \in Sessions : phase[t] # "idle" =>
          row[t].createdAt \in Nat /\ row[t].createdAt <= now + 1
    BY DEF SeenIsCurrent, TypeOK, Row
  <2> QED
    BY <1>9, <2>1 DEF SeenIsCurrent, Tick
<1>10. now \in Nat
  BY DEF TypeOK
<1> QED
  BY <1>1, <1>2, <1>3, <1>4, <1>5, <1>6, <1>7, <1>8, <1>9, <1>10, NextCases
-----------------------------------------------------------------------------
(* What each kind of step does to the kilograms held.                      *)
Held(b) == batch_reserved_kg(b, now)

(* 44:245-249.  What is held against a batch is always a number. *)
LEMMA HeldIsNat ==
  ASSUME TypeOK, NEW b, NEW t
  PROVE  IsFiniteSet(ActiveRows(b, t)) /\ batch_reserved_kg(b, t) \in Nat
<1>1. ActiveRows(b, t) \subseteq reservations
  BY DEF ActiveRows
<1> QED
  BY <1>1, FS_Subset, SumIsNat DEF TypeOK, batch_reserved_kg

(* A release or the passing of time never adds to what is held. *)
LEMMA HeldShrinks ==
  ASSUME TypeOK, TypeOK', NEW b,
         reservations' = reservations, releases \subseteq releases', now <= now'
  PROVE  Held(b)' <= Held(b)
<1>1. \A r \in reservations : r.expiresAt \in Nat
  BY DEF TypeOK, Row
<1>2. now \in Nat /\ now' \in Nat
  BY DEF TypeOK
<1>3. ActiveRows(b, now)' \subseteq ActiveRows(b, now)
  BY <1>1, <1>2 DEF ActiveRows, reservation_is_active, IsReleased
<1> QED
  BY <1>3, HeldIsNat, SumIsMonotone DEF Held, batch_reserved_kg

(* 44:431-433.  Measured at the start of the transaction, what is held is   *)
(* never less than it is now: the check errs on the side of refusing.       *)
LEMMA EarlierHoldsMore ==
  ASSUME TypeOK, NEW b, NEW t \in Nat, t <= now
  PROVE  Held(b) <= batch_reserved_kg(b, t)
<1>1. \A r \in reservations : r.expiresAt \in Nat
  BY DEF TypeOK, Row
<1>2. ActiveRows(b, now) \subseteq ActiveRows(b, t)
  BY <1>1 DEF ActiveRows, reservation_is_active, TypeOK
<1> QED
  BY <1>2, HeldIsNat, SumIsMonotone DEF Held, batch_reserved_kg

(* A commit adds at most its row's kilograms, and to its own batch only.   *)
LEMMA HeldAfterCommit ==
  ASSUME IInv, TypeOK', NEW s \in Sessions, Commit(s), NEW b \in Batches
  PROVE  /\ row[s] \in Row
         /\ row[s].batch # b => Held(b)' = Held(b)
         /\ row[s].batch = b => /\ Held(b) <= Held(b)'
                                /\ Held(b)' <= Held(b) + row[s].kg
<1> DEFINE r == row[s]
           before == ActiveRows(b, now)
           after == ActiveRows(b, now)'
<1>1. r \in Row /\ r.kg \in 1 .. MaxKg
  BY DEF IInv, SeenIsCurrent, Commit, Row
<1>2. /\ reservations' = reservations \cup {r}
      /\ releases' = releases /\ now' = now
  BY DEF Commit
<1>3. CASE r.batch # b
  <2>1. after = before
    BY <1>2, <1>3 DEF ActiveRows, reservation_is_active, IsReleased
  <2> QED
    BY <1>1, <1>3, <2>1 DEF Held, batch_reserved_kg, SumKg, Kilograms
<1>4. CASE r.batch = b
  <2>1. before \subseteq after /\ after \subseteq before \cup {r}
    BY <1>2 DEF ActiveRows, reservation_is_active, IsReleased
  <2>2. IsFiniteSet(before) /\ IsFiniteSet(after) /\ IsFiniteSet(before \cup {r})
    BY <2>1, HeldIsNat, FS_AddElement, FS_Subset DEF IInv
  <2> HIDE DEF before, after
  <2>3. SumKg(before) <= SumKg(after) /\ SumKg(after) <= SumKg(before \cup {r})
    BY <2>1, <2>2, SumIsMonotone
  <2>4. SumKg(before \cup {r}) <= SumKg(before) + r.kg
    BY <1>1, <2>2, SumOfOneMore
  <2>5. SumKg(before) \in Nat /\ SumKg(after) \in Nat /\ SumKg(before \cup {r}) \in Nat
    BY <2>2, SumIsNat
  <2>6. SumKg(after) <= SumKg(before) + r.kg
    BY <1>1, <2>3, <2>4, <2>5
  <2>7. Held(b) = SumKg(before) /\ Held(b)' = SumKg(after)
    BY DEF Held, batch_reserved_kg, SumKg, Kilograms, before, after
  <2> QED
    BY <1>1, <1>4, <2>3, <2>6, <2>7
<1> QED
  BY <1>3, <1>4

(* 44:344-347.  The checked row still fits after every step. *)
LEMMA CheckedStep ==
  ASSUME IInv, TypeOK', [Next]_vars
  PROVE  RoomLeft'
<1> USE ReservationAssumption
<1> SUFFICES ASSUME NEW t \in Sessions, phase'[t] = "checked",
                    NEW b \in Batches, row'[t].batch = b
             PROVE  Held(b)' + row'[t].kg <= batches'[b].kg
  <2>1. \A t \in Sessions : phase'[t] = "checked" => row'[t].batch \in Batches
    BY SeenStep DEF IInv, SeenIsCurrent, Row
  <2> QED
    BY <2>1 DEF RoomLeft, Held
<1>1. Held(b) \in Nat /\ Held(b)' \in Nat /\ batches[b].kg \in Nat
  <2>1. Held(b) \in Nat /\ batches[b].kg \in Nat
    BY HeldIsNat DEF IInv, Held, TypeOK
  <2>2. ActiveRows(b, now)' \subseteq reservations'
    BY DEF ActiveRows
  <2>3. Held(b)' \in Nat
    BY <2>2, FS_Subset, SumIsNat DEF TypeOK, Held, batch_reserved_kg, SumKg, Kilograms
  <2> QED
    BY <2>1, <2>3
<1>2. ASSUME phase[t] = "checked", row'[t] = row[t],
             Held(b)' <= Held(b), batches'[b].kg = batches[b].kg
      PROVE  Held(b)' + row'[t].kg <= batches'[b].kg
  <2>1. row[t].kg \in Nat
    BY <1>2 DEF IInv, SeenIsCurrent, Row
  <2>2. Held(b) + row[t].kg <= batches[b].kg
    BY <1>2 DEF IInv, RoomLeft, Held
  <2> QED
    BY <1>1, <1>2, <2>1, <2>2
<1>3. ASSUME UNCHANGED <<now, reservations, releases>>
      PROVE  Held(b)' <= Held(b)
  <2>1. Held(b)' = Held(b)
    BY <1>3 DEF Held, batch_reserved_kg, ActiveRows, reservation_is_active,
                IsReleased, SumKg, Kilograms
  <2> QED
    BY <1>1, <2>1
<1>4. CASE UNCHANGED vars
  BY <1>2, <1>3, <1>4 DEF vars
<1>5. ASSUME NEW s \in Sessions, NEW r, BeginReservation(s, r)
      PROVE  Held(b)' + row'[t].kg <= batches'[b].kg
  BY <1>2, <1>3, <1>5 DEF BeginReservation, IInv, TypeOK
<1>6. ASSUME NEW s \in Sessions, LockBatch(s) \/ ReadBuyer(s)
      PROVE  Held(b)' + row'[t].kg <= batches'[b].kg
  BY <1>2, <1>3, <1>6 DEF LockBatch, ReadBuyer, IInv, TypeOK
<1>7. ASSUME NEW s \in Sessions, CheckAvailability(s)
      PROVE  Held(b)' + row'[t].kg <= batches'[b].kg
  <2>1. CASE s # t
    BY <1>2, <1>3, <1>7, <2>1 DEF CheckAvailability, IInv, TypeOK
  <2>2. CASE s = t
    <3>1. /\ row[t] \in Row /\ row[t].createdAt <= now
          /\ seenKg[t] = batches[b].kg /\ row'[t] = row[t] /\ row[t].batch = b
          /\ batches' = batches
      BY <1>7, <2>2 DEF CheckAvailability, IInv, SeenIsCurrent
    <3>2. batch_reserved_kg(b, row[t].createdAt) + row[t].kg <= batches[b].kg
      BY <1>7, <2>2, <3>1 DEF CheckAvailability, Fits
    <3>3. row[t].createdAt \in Nat /\ row[t].kg \in Nat
      BY <3>1 DEF Row
    <3>4. Held(b) <= batch_reserved_kg(b, row[t].createdAt)
      BY <3>1, <3>3, EarlierHoldsMore DEF IInv
    <3>5. batch_reserved_kg(b, row[t].createdAt) \in Nat
      BY HeldIsNat DEF IInv
    <3>6. Held(b)' <= Held(b)
      BY <1>3, <1>7 DEF CheckAvailability
    <3> QED
      BY <1>1, <3>1, <3>2, <3>3, <3>4, <3>5, <3>6
  <2> QED
    BY <2>1, <2>2
<1>8. ASSUME NEW s \in Sessions,
             RefuseBatch(s) \/ RefuseBuyer(s) \/ RefuseAvailability(s) \/ Abort(s)
      PROVE  Held(b)' + row'[t].kg <= batches'[b].kg
  <2>1. EndSession(s) /\ UNCHANGED <<now, batches, verification, ledger>>
    BY <1>8 DEF RefuseBatch, RefuseBuyer, RefuseAvailability, Abort
  <2>2. phase[t] = "checked" /\ row'[t] = row[t]
    BY <2>1, EndSessionIsLocal DEF IInv
  <2> QED
    BY <1>2, <1>3, <2>1, <2>2
<1>9. ASSUME NEW s \in Sessions, Commit(s)
      PROVE  Held(b)' + row'[t].kg <= batches'[b].kg
  <2>1. EndSession(s) /\ batches' = batches
    BY <1>9 DEF Commit
  <2>2. t # s /\ phase[t] = "checked" /\ row'[t] = row[t]
    BY <2>1, EndSessionIsLocal DEF IInv
  <2>3. row[s].batch # b
    BY <1>9, <2>2 DEF IInv, SeenIsCurrent, Commit
  <2>4. Held(b)' = Held(b)
    BY <1>9, <2>3, HeldAfterCommit
  <2> QED
    BY <1>1, <1>2, <2>1, <2>2, <2>4
<1>10. ASSUME NEW r \in reservations, NEW kind \in Kinds, NEW caller \in Callers,
              Release(r, kind, caller)
       PROVE  Held(b)' + row'[t].kg <= batches'[b].kg
  <2>1. /\ reservations' = reservations /\ releases \subseteq releases'
        /\ now' = now /\ batches' = batches /\ row' = row /\ phase' = phase
    BY <1>10 DEF Release
  <2>2. Held(b)' <= Held(b)
    BY <2>1, HeldShrinks DEF IInv, TypeOK
  <2> QED
    BY <1>2, <2>1, <2>2
<1>11. ASSUME NEW c \in Batches, NEW kg \in BatchKgs, NEW visible \in BOOLEAN,
              EditBatch(c, kg, visible)
       PROVE  Held(b)' + row'[t].kg <= batches'[b].kg
  <2>1. lockedBy[c] = NoSession /\ row' = row /\ phase' = phase
    BY <1>11 DEF EditBatch
  <2>2. b # c
    BY <2>1 DEF IInv, SeenIsCurrent
  <2>3. batches'[b] = batches[b]
    BY <1>11, <2>2 DEF EditBatch, IInv, TypeOK
  <2>4. Held(b)' <= Held(b)
    BY <1>3, <1>11 DEF EditBatch
  <2> QED
    BY <1>2, <2>1, <2>3, <2>4
<1>12. ASSUME NEW o \in Orgs, NEW state \in VerificationStates,
              SetVerification(o, state)
       PROVE  Held(b)' + row'[t].kg <= batches'[b].kg
  BY <1>2, <1>3, <1>12 DEF SetVerification
<1>13. CASE Tick
  <2>1. /\ reservations' = reservations /\ releases' = releases /\ now <= now'
        /\ batches' = batches /\ row' = row /\ phase' = phase
    BY <1>13 DEF Tick, IInv, TypeOK
  <2>2. Held(b)' <= Held(b)
    BY <2>1, HeldShrinks DEF IInv
  <2> QED
    BY <1>2, <2>1, <2>2
<1>14. now \in Nat
  BY DEF IInv, TypeOK
<1> QED
  BY <1>4, <1>5, <1>6, <1>7, <1>8, <1>9, <1>10, <1>11, <1>12, <1>13, <1>14, NextCases
-----------------------------------------------------------------------------
(* Initially nothing is reserved and no session is in a transaction. *)
LEMMA InitEstablishes == Init => IInv
<1> SUFFICES ASSUME Init PROVE IInv
  OBVIOUS
<1>1. TypeOK
  BY ReservationAssumption, FS_EmptySet DEF Init, TypeOK
<1>2. \A s \in Sessions : phase[s] = "idle"
  BY DEF Init
<1> QED
  BY <1>1, <1>2 DEF IInv, SeenIsCurrent, RoomLeft

(* The inductive invariant holds in every state of every behaviour.        *)
THEOREM Inductive == Spec => []IInv
<1>1. IInv /\ [Next]_vars => IInv'
  BY TypeStep, SeenStep, CheckedStep DEF IInv
<1> QED
  BY <1>1, InitEstablishes, PTL DEF Spec

(* Every column of every table keeps its type, and no hold is longer than  *)
(* HoldPeriod (44:383-387).                                                *)
THEOREM TypeCorrect == Spec => []TypeOK
  BY Inductive, PTL DEF IInv

(* 44:389-393.  What the trigger reads under its row lock stays true until *)
(* its transaction ends.                                                   *)
THEOREM LockKeepsReads == Spec => []SeenIsCurrent
  BY Inductive, PTL DEF IInv

(* 44:344-347.  The availability check is still true at the commit.        *)
THEOREM CheckHolds == Spec => []CheckedStillFits
<1>1. ASSUME IInv, NEW s \in Sessions, phase[s] = "checked"
      PROVE  row[s].kg <= batch_available_kg(row[s].batch, now)
  <2> DEFINE b == row[s].batch
  <2>1. /\ b \in Batches /\ row[s].kg \in Nat \ {0}
        /\ Usable(batches[b].kg) /\ batches[b].kg \in Nat
    BY <1>1 DEF IInv, SeenIsCurrent, TypeOK, Row
  <2>2. batch_reserved_kg(b, now) + row[s].kg <= batches[b].kg
    BY <1>1 DEF IInv, RoomLeft
  <2>3. batch_reserved_kg(b, now) \in Nat
    BY <1>1, HeldIsNat DEF IInv
  <2> QED
    BY <2>1, <2>2, <2>3 DEF batch_available_kg
<1>2. IInv => CheckedStillFits
  BY <1>1 DEF CheckedStillFits
<1> QED
  BY <1>2, Inductive, PTL
-----------------------------------------------------------------------------
(* The refinement mapping of Abstract. *)
MappedCapacity == [b \in Batches |-> batches[b].kg]
MappedHeld == [b \in Batches |-> batch_reserved_kg(b, now)]

(* Every step of the ledger is a step of the abstract ledger, or no step.  *)
LEMMA StepMaps ==
  ASSUME IInv, IInv', [Next]_vars
  PROVE  [Abstract!Next]_Abstract!vars
<1> USE DEF Held
<1>1. /\ MappedCapacity \in [Batches -> Nat] /\ MappedHeld \in [Batches -> Nat]
      /\ MappedCapacity' \in [Batches -> Nat]
  BY HeldIsNat DEF IInv, TypeOK, MappedCapacity, MappedHeld
<1>2. MappedHeld' \in [Batches -> Nat]
  <2>1. \A b \in Batches : ActiveRows(b, now)' \subseteq reservations'
    BY DEF ActiveRows
  <2>2. \A b \in Batches : batch_reserved_kg(b, now)' \in Nat
    BY <2>1, FS_Subset, SumIsNat
       DEF IInv, TypeOK, batch_reserved_kg, SumKg, Kilograms
  <2> QED
    BY <2>2 DEF MappedHeld
<1>3. ASSUME UNCHANGED <<now, reservations, releases>>
      PROVE  MappedHeld' = MappedHeld
  BY <1>3 DEF MappedHeld, batch_reserved_kg, ActiveRows, reservation_is_active,
              IsReleased, SumKg, Kilograms
<1>4. ASSUME batches' = batches, MappedHeld' = MappedHeld
      PROVE  UNCHANGED Abstract!vars
  BY <1>4 DEF Abstract!vars, MappedHeld
<1>5. CASE UNCHANGED vars
  BY <1>3, <1>4, <1>5 DEF vars
<1>6. ASSUME NEW s \in Sessions, NEW r,
             \/ BeginReservation(s, r) \/ LockBatch(s) \/ ReadBuyer(s)
             \/ CheckAvailability(s) \/ RefuseBatch(s) \/ RefuseBuyer(s)
             \/ RefuseAvailability(s) \/ Abort(s)
      PROVE  UNCHANGED Abstract!vars
  BY <1>3, <1>4, <1>6
     DEF BeginReservation, LockBatch, ReadBuyer, CheckAvailability,
         RefuseBatch, RefuseBuyer, RefuseAvailability, Abort
<1>7. ASSUME NEW s \in Sessions, Commit(s)
      PROVE  \E p \in Batches : Abstract!Admit(p)
  <2>1. PICK p \in Batches : row[s].batch = p
    BY <1>7 DEF IInv, SeenIsCurrent, Commit, Row
  <2>2. /\ Held(p) <= Held(p)' /\ Held(p)' <= Held(p) + row[s].kg
        /\ \A b \in Batches \ {p} : Held(b)' = Held(b)
    BY <1>7, <2>1, HeldAfterCommit DEF IInv
  <2>3. row[s].kg \in Nat /\ Held(p) + row[s].kg <= batches[p].kg
    BY <1>7, <2>1 DEF IInv, SeenIsCurrent, RoomLeft, Commit, Row
  <2>4. Held(p) \in Nat /\ Held(p)' \in Nat /\ batches[p].kg \in Nat
    BY <1>1, <1>2 DEF MappedHeld, MappedCapacity
  <2>5. MappedHeld'[p] \in MappedHeld[p] .. MappedCapacity[p]
    BY <2>2, <2>3, <2>4 DEF MappedHeld, MappedCapacity
  <2>6. MappedHeld' = [MappedHeld EXCEPT ![p] = MappedHeld'[p]]
    BY <2>2 DEF MappedHeld
  <2>7. MappedCapacity' = MappedCapacity
    BY <1>7 DEF MappedCapacity, Commit
  <2> QED
    BY <2>5, <2>6, <2>7 DEF Abstract!Admit, MappedHeld, MappedCapacity
<1>8. ASSUME reservations' = reservations, releases \subseteq releases', now <= now',
             batches' = batches
      PROVE  Abstract!GiveBack
  <2>1. \A b \in Batches : Held(b)' <= Held(b)
    BY <1>8, HeldShrinks DEF IInv
  <2> QED
    BY <1>2, <1>8, <2>1 DEF Abstract!GiveBack, MappedHeld
<1>9. ASSUME NEW r \in reservations, NEW kind \in Kinds, NEW caller \in Callers,
             Release(r, kind, caller)
      PROVE  Abstract!GiveBack
  BY <1>8, <1>9 DEF Release, IInv, TypeOK
<1>10. ASSUME NEW b \in Batches, NEW kg \in BatchKgs, NEW visible \in BOOLEAN,
              EditBatch(b, kg, visible)
       PROVE  Abstract!Resize(b)
  <2>1. MappedHeld' = MappedHeld
    BY <1>3, <1>10 DEF EditBatch
  <2>2. MappedCapacity'[b] \in Nat
    BY <1>1
  <2>3. MappedCapacity' = [MappedCapacity EXCEPT ![b] = MappedCapacity'[b]]
    BY <1>10 DEF EditBatch, MappedCapacity, IInv, TypeOK
  <2> QED
    BY <2>1, <2>2, <2>3 DEF Abstract!Resize, MappedHeld, MappedCapacity
<1>11. ASSUME NEW o \in Orgs, NEW state \in VerificationStates,
              SetVerification(o, state)
       PROVE  UNCHANGED Abstract!vars
  BY <1>3, <1>4, <1>11 DEF SetVerification
<1>12. ASSUME Tick
       PROVE  Abstract!GiveBack
  BY <1>8, <1>12 DEF Tick, IInv, TypeOK
<1>13. now \in Nat
  BY DEF IInv, TypeOK
<1>14. ASSUME Next
       PROVE  \/ UNCHANGED Abstract!vars
              \/ Abstract!GiveBack
              \/ \E p \in Batches : Abstract!Admit(p)
              \/ \E p \in Batches : Abstract!Resize(p)
  BY <1>6, <1>7, <1>9, <1>10, <1>11, <1>12, <1>13, <1>14, NextCases,
     ReservationAssumption
<1> QED
  BY <1>5, <1>14 DEF Abstract!Next

(* Seam 2.  The transactions of migration 44 amount to atomic admissions   *)
(* within the capacity of the batch at the instant of the commit.          *)
THEOREM LedgerImplements == Spec => ImplementsQuantityLedger
<1>1. ASSUME Init
      PROVE  Abstract!Init
  <2>1. \A b \in Batches : ActiveRows(b, now) = {}
    BY <1>1 DEF Init, ActiveRows
  <2>2. \A b \in Batches : batch_reserved_kg(b, now) = 0
    BY <2>1, SumOfNone DEF batch_reserved_kg
  <2>3. \A b \in Batches : batches[b].kg \in Nat
    BY <1>1, ReservationAssumption DEF Init
  <2> QED
    BY <2>2, <2>3 DEF Abstract!Init
<1> QED
  BY <1>1, Inductive, StepMaps, PTL DEF Spec, ImplementsQuantityLedger, Abstract!Spec

(* 44:43-44.  However reservations interleave with each other, with        *)
(* endings and with the clock, a batch becomes oversold only by an edit    *)
(* that takes kilograms off it.                                            *)
THEOREM OversellGuard == Spec => OversoldOnlyByEdit
<1>1. ASSUME IInv, IInv', [Next]_vars, NEW b \in Batches,
             ~Oversold(b), Oversold(b)'
      PROVE  batches'[b].kg < batches[b].kg
  <2>1. [Abstract!Next]_Abstract!vars
    BY <1>1, StepMaps
  <2>2. /\ MappedHeld[b] = batch_reserved_kg(b, now)
        /\ MappedHeld'[b] = batch_reserved_kg(b, now)'
        /\ MappedCapacity[b] = batches[b].kg /\ MappedCapacity'[b] = batches'[b].kg
    BY DEF MappedHeld, MappedCapacity
  <2>3. /\ MappedHeld[b] \in Nat /\ MappedCapacity[b] \in Nat
        /\ MappedCapacity'[b] \in Nat
    BY <1>1, <2>2, HeldIsNat DEF IInv, TypeOK
  <2>4. MappedHeld[b] <= MappedCapacity[b]
    BY <1>1, <2>2, <2>3 DEF Oversold
  <2>5. MappedHeld'[b] > MappedCapacity'[b]
    BY <1>1, <2>2 DEF Oversold
  <2>6. CASE UNCHANGED Abstract!vars
    BY <2>3, <2>4, <2>5, <2>6 DEF Abstract!vars, MappedHeld, MappedCapacity
  <2>7. CASE Abstract!GiveBack
    <3>1. MappedHeld'[b] <= MappedHeld[b] /\ MappedCapacity' = MappedCapacity
          /\ MappedHeld'[b] \in Nat
      BY <2>7 DEF Abstract!GiveBack, MappedHeld, MappedCapacity
    <3> QED
      BY <2>3, <2>4, <2>5, <3>1
  <2>8. ASSUME NEW p \in Batches, Abstract!Admit(p)
        PROVE  FALSE
    <3>1. /\ MappedHeld'[p] \in MappedHeld[p] .. MappedCapacity[p]
          /\ MappedHeld' = [MappedHeld EXCEPT ![p] = MappedHeld'[p]]
          /\ MappedCapacity' = MappedCapacity
      BY <2>8 DEF Abstract!Admit, MappedHeld, MappedCapacity
    <3>2. CASE b = p
      BY <2>3, <2>5, <3>1, <3>2
    <3>3. CASE b # p
      <4>1. MappedHeld'[b] = MappedHeld[b]
        BY <3>1, <3>3 DEF MappedHeld
      <4> QED
        BY <2>3, <2>4, <2>5, <3>1, <4>1
    <3> QED
      BY <3>2, <3>3
  <2>9. ASSUME NEW p \in Batches, Abstract!Resize(p)
        PROVE  batches'[b].kg < batches[b].kg
    <3>1. MappedHeld' = MappedHeld
      BY <2>9 DEF Abstract!Resize, MappedHeld
    <3> QED
      BY <2>2, <2>3, <2>4, <2>5, <3>1
  <2> QED
    BY <2>1, <2>6, <2>7, <2>8, <2>9, <2>3, <2>4, <2>5 DEF Abstract!Next
<1>2. IInv /\ IInv' /\ [Next]_vars =>
        \A b \in Batches : ~Oversold(b) /\ Oversold(b)' => batches'[b].kg < batches[b].kg
  BY <1>1
<1> QED
  BY <1>2, Inductive, PTL DEF Spec, OversoldOnlyByEdit
-----------------------------------------------------------------------------
(* 44:391-400, 404-411.  The batch a session holds the lock of stays       *)
(* published until the session ends.                                       *)
HeldIsPublished ==
  \A s \in Sessions : phase[s] \in {"locked", "cleared", "checked"} =>
    batches[row[s].batch].visible

LEMMA PublishedStep ==
  ASSUME IInv, HeldIsPublished, [Next]_vars
  PROVE  HeldIsPublished'
<1> USE ReservationAssumption
<1>1. CASE UNCHANGED vars
  BY <1>1 DEF HeldIsPublished, vars
<1>2. ASSUME NEW s \in Sessions, NEW r, BeginReservation(s, r)
      PROVE  HeldIsPublished'
  BY <1>2 DEF HeldIsPublished, IInv, TypeOK, BeginReservation
<1>3. ASSUME NEW s \in Sessions, LockBatch(s)
      PROVE  HeldIsPublished'
  BY <1>3 DEF HeldIsPublished, IInv, TypeOK, LockBatch, BatchAdmits
<1>4. ASSUME NEW s \in Sessions, ReadBuyer(s) \/ CheckAvailability(s)
      PROVE  HeldIsPublished'
  BY <1>4 DEF HeldIsPublished, IInv, TypeOK, ReadBuyer, CheckAvailability
<1>5. ASSUME NEW s \in Sessions,
             RefuseBatch(s) \/ RefuseBuyer(s) \/ RefuseAvailability(s) \/ Abort(s)
               \/ Commit(s)
      PROVE  HeldIsPublished'
  <2>1. EndSession(s) /\ UNCHANGED batches
    BY <1>5 DEF RefuseBatch, RefuseBuyer, RefuseAvailability, Abort, Commit
  <2> QED
    BY <2>1, EndSessionIsLocal DEF HeldIsPublished, IInv
<1>6. ASSUME NEW r \in reservations, NEW kind \in Kinds, NEW caller \in Callers,
             Release(r, kind, caller)
      PROVE  HeldIsPublished'
  BY <1>6 DEF HeldIsPublished, Release
<1>7. ASSUME NEW b \in Batches, NEW kg \in BatchKgs, NEW visible \in BOOLEAN,
             EditBatch(b, kg, visible)
      PROVE  HeldIsPublished'
  <2>1. \A t \in Sessions : phase[t] \in {"locked", "cleared", "checked"} =>
          row[t].batch # b
    BY <1>7 DEF IInv, SeenIsCurrent, EditBatch
  <2> QED
    BY <1>7, <2>1 DEF HeldIsPublished, IInv, TypeOK, EditBatch
<1>8. ASSUME NEW o \in Orgs, NEW state \in VerificationStates,
             SetVerification(o, state)
      PROVE  HeldIsPublished'
  BY <1>8 DEF HeldIsPublished, SetVerification
<1>9. CASE Tick
  BY <1>9 DEF HeldIsPublished, Tick
<1>10. now \in Nat
  BY DEF IInv, TypeOK
<1> QED
  BY <1>1, <1>2, <1>3, <1>4, <1>5, <1>6, <1>7, <1>8, <1>9, <1>10, NextCases

(* A row appears at a commit, and the committing session holds the lock.   *)
LEMMA OnlyCommitsHold ==
  ASSUME IInv, HeldIsPublished, [Next]_vars, NEW r \in reservations' \ reservations
  PROVE  BatchAdmits(r.batch)
<1>1. PICK s \in Sessions : Commit(s)
  <2>1. IInv /\ now \in Nat
    BY DEF IInv, TypeOK
  <2> QED
    BY <2>1, NextCases, ReservationAssumption
       DEF vars, BeginReservation, LockBatch, RefuseBatch, ReadBuyer, RefuseBuyer,
           CheckAvailability, RefuseAvailability, Abort, Release, EditBatch,
           SetVerification, Tick
<1>2. r = row[s]
  BY <1>1 DEF Commit
<1> QED
  BY <1>1, <1>2 DEF Commit, IInv, SeenIsCurrent, HeldIsPublished, BatchAdmits

(* 44:349-350.  A hold is recorded only on a batch published at that       *)
(* moment, however many edits wait for or follow the row lock.             *)
THEOREM HoldsOnPublished == Spec => HeldOnlyWhilePublished
<1>1. Init => HeldIsPublished
  BY DEF Init, HeldIsPublished
<1>2. IInv /\ HeldIsPublished /\ [Next]_vars => HeldIsPublished'
  BY PublishedStep
<1>3. IInv /\ HeldIsPublished /\ [Next]_vars =>
        \A r \in reservations' \ reservations : BatchAdmits(r.batch)
  BY OnlyCommitsHold
<1> QED
  BY <1>1, <1>2, <1>3, Inductive, PTL DEF Spec, HeldOnlyWhilePublished
=============================================================================
