-------------------------- MODULE PermitLedgerProofs --------------------------
(***************************************************************************)
(* Theorems about PermitLedger, for every value of its constants: what a   *)
(* session reads under the lock of a permit, what it checked and what the  *)
(* committed rows are, hence that the ledger implements QuantityLedger and *)
(* that a draw is recorded only on an active permit.                       *)
(***************************************************************************)
EXTENDS PermitLedger, CountingProofs

USE DEF session
-----------------------------------------------------------------------------
(* A row of public.permit_drawdowns. *)
Drawdown == [id : Ids, permit : Permits, kg : Requests,
             reversalOf : Ids \cup {NoDraw}]

TypeOK ==
  /\ today \in Dates
  /\ permits \in [Permits -> Permit]
  /\ drawdowns \subseteq Drawdown /\ IsFiniteSet(drawdowns)
  /\ phase \in [Sessions -> {"idle", "waiting", "locked", "checked"}]
  /\ row \in [Sessions -> Drawdown \cup {NoRow}]
  /\ seen \in [Sessions -> Nat]
  /\ lockedBy \in [Permits -> Sessions \cup {NoSession}]

(* What was read with the lock is what the permit says until the end. *)
SeenIsCurrent ==
  \A s \in Sessions :
    /\ phase[s] # "idle" => row[s] \in Drawdown
    /\ phase[s] \in {"locked", "checked"} =>
         /\ lockedBy[row[s].permit] = s
         /\ seen[s] = permits[row[s].permit].limit

(* What a session checked still holds when it commits. *)
CheckedIsAdmitted ==
  \A s \in Sessions : phase[s] = "checked" => InsertAdmitted(s)

(* 40:410-430.  Each reversal restores a draw of its own, in full. *)
ReversalsMatchDraws ==
  \A r \in drawdowns : r.reversalOf # NoDraw =>
    /\ ReversalAdmitted(r)
    /\ \A x \in drawdowns : x.reversalOf = r.reversalOf => x = r

IInv == TypeOK /\ SeenIsCurrent /\ CheckedIsAdmitted /\ ReversalsMatchDraws

(* Next, with the quantified row of an INSERT named once for every proof.  *)
LEMMA NextCases ==
  ASSUME Next
  PROVE  \/ \E s \in Sessions :
              \/ \E d \in Drawdown : BeginInsert(s, d)
              \/ LockPermit(s) \/ CheckInsert(s) \/ RefuseInsert(s)
              \/ Commit(s) \/ Abort(s)
         \/ \E p \in Permits, version \in PermitRow : EditPermit(p, version)
         \/ NextDay
  BY DEF Next, Drawdown
-----------------------------------------------------------------------------
(* The end of a transaction touches no other session and gives up only its *)
(* own lock.                                                               *)
LEMMA EndSessionIsLocal ==
  ASSUME TypeOK, NEW s \in Sessions, EndSession(s)
  PROVE  /\ phase' \in [Sessions -> {"idle", "waiting", "locked", "checked"}]
         /\ row' \in [Sessions -> Drawdown \cup {NoRow}]
         /\ seen' \in [Sessions -> Nat]
         /\ lockedBy' \in [Permits -> Sessions \cup {NoSession}]
         /\ phase'[s] = "idle"
         /\ \A t \in Sessions \ {s} : /\ phase'[t] = phase[t]
                                     /\ row'[t] = row[t]
                                     /\ seen'[t] = seen[t]
         /\ \A p \in Permits : lockedBy[p] # s => lockedBy'[p] = lockedBy[p]
  BY DEF TypeOK, EndSession

(* 40:194-195.  The quantity a permit authorises is a number. *)
LEMMA LimitIsNat ==
  ASSUME TypeOK, NEW p \in Permits
  PROVE  permits[p].limit \in Nat
<1>1. permits[p] \in PermitRow
  BY DEF TypeOK, Permit
<1>2. permits[p].limit \in Limits
  BY <1>1 DEF PermitRow
<1>3. permits[p].limit \in 1 .. MaxKg
  BY <1>2, PermitAssumption
<1> QED
  BY <1>3, MaxKgAssumption

(* Every step of the ledger keeps the columns' types. *)
LEMMA TypeStep ==
  ASSUME TypeOK, SeenIsCurrent, [Next]_vars
  PROVE  TypeOK'
<1> USE PermitAssumption
<1>1. CASE UNCHANGED vars
  BY <1>1 DEF TypeOK, vars
<1>2. ASSUME NEW s \in Sessions, NEW d \in Drawdown, BeginInsert(s, d)
      PROVE  TypeOK'
  BY <1>2 DEF TypeOK, BeginInsert
<1>3. ASSUME NEW s \in Sessions, LockPermit(s)
      PROVE  TypeOK'
  <2>1. row[s].permit \in Permits
    BY <1>3 DEF SeenIsCurrent, LockPermit, Drawdown
  <2>2. permits[row[s].permit].limit \in Nat
    BY <2>1, LimitIsNat
  <2> QED
    BY <1>3, <2>1, <2>2 DEF TypeOK, LockPermit
<1>4. ASSUME NEW s \in Sessions, CheckInsert(s)
      PROVE  TypeOK'
  BY <1>4 DEF TypeOK, CheckInsert
<1>5. ASSUME NEW s \in Sessions, RefuseInsert(s) \/ Abort(s)
      PROVE  TypeOK'
  <2>1. EndSession(s) /\ UNCHANGED <<today, permits, drawdowns>>
    BY <1>5 DEF RefuseInsert, Abort
  <2> QED
    BY <2>1, EndSessionIsLocal DEF TypeOK
<1>6. ASSUME NEW s \in Sessions, Commit(s)
      PROVE  TypeOK'
  <2>1. row[s] \in Drawdown
    BY <1>6 DEF SeenIsCurrent, Commit
  <2>2. drawdowns' \subseteq Drawdown /\ IsFiniteSet(drawdowns')
    BY <1>6, <2>1, FS_AddElement DEF TypeOK, Commit
  <2>3. EndSession(s) /\ UNCHANGED <<today, permits>>
    BY <1>6 DEF Commit
  <2> QED
    BY <2>2, <2>3, EndSessionIsLocal DEF TypeOK
<1>7. ASSUME NEW p \in Permits, NEW version \in PermitRow, EditPermit(p, version)
      PROVE  TypeOK'
  BY <1>7 DEF TypeOK, EditPermit
<1>8. CASE NextDay
  BY <1>8 DEF TypeOK, NextDay
<1> QED
  BY <1>1, <1>2, <1>3, <1>4, <1>5, <1>6, <1>7, <1>8, NextCases

(* 40:399-404.  What a session read with the lock stays current.           *)
LEMMA SeenStep ==
  ASSUME TypeOK, SeenIsCurrent, [Next]_vars
  PROVE  SeenIsCurrent'
<1> USE PermitAssumption
<1>1. CASE UNCHANGED vars
  BY <1>1 DEF SeenIsCurrent, vars
<1>2. ASSUME NEW s \in Sessions, NEW d \in Drawdown, BeginInsert(s, d)
      PROVE  SeenIsCurrent'
  BY <1>2 DEF SeenIsCurrent, TypeOK, BeginInsert
<1>3. ASSUME NEW s \in Sessions, LockPermit(s)
      PROVE  SeenIsCurrent'
  <2>1. row[s] \in Drawdown /\ row[s].permit \in Permits
    BY <1>3 DEF SeenIsCurrent, LockPermit, Drawdown
  <2>2. \A t \in Sessions : phase[t] \in {"locked", "checked"} =>
          row[t].permit # row[s].permit
    BY <1>3 DEF SeenIsCurrent, LockPermit
  <2> QED
    BY <1>3, <2>1, <2>2 DEF SeenIsCurrent, TypeOK, LockPermit
<1>4. ASSUME NEW s \in Sessions, CheckInsert(s)
      PROVE  SeenIsCurrent'
  BY <1>4 DEF SeenIsCurrent, TypeOK, CheckInsert
<1>5. ASSUME NEW s \in Sessions, RefuseInsert(s) \/ Abort(s) \/ Commit(s)
      PROVE  SeenIsCurrent'
  <2>1. EndSession(s) /\ permits' = permits
    BY <1>5 DEF RefuseInsert, Abort, Commit
  <2> SUFFICES ASSUME NEW t \in Sessions
               PROVE  /\ phase'[t] # "idle" => row'[t] \in Drawdown
                      /\ phase'[t] \in {"locked", "checked"} =>
                           /\ lockedBy'[row'[t].permit] = t
                           /\ seen'[t] = permits'[row'[t].permit].limit
    BY DEF SeenIsCurrent
  <2>2. CASE t = s
    BY <2>1, <2>2, EndSessionIsLocal
  <2>3. CASE t # s
    <3>1. phase'[t] = phase[t] /\ row'[t] = row[t] /\ seen'[t] = seen[t]
      BY <2>1, <2>3, EndSessionIsLocal
    <3>2. ASSUME phase[t] \in {"locked", "checked"}
          PROVE  lockedBy'[row[t].permit] = t
      <4>1. row[t].permit \in Permits /\ lockedBy[row[t].permit] = t
        BY <3>2 DEF SeenIsCurrent, Drawdown
      <4> QED
        BY <2>1, <2>3, <4>1, EndSessionIsLocal
    <3> QED
      BY <2>1, <3>1, <3>2 DEF SeenIsCurrent
  <2> QED
    BY <2>2, <2>3
<1>6. ASSUME NEW p \in Permits, NEW version \in PermitRow, EditPermit(p, version)
      PROVE  SeenIsCurrent'
  <2>1. \A t \in Sessions : phase[t] \in {"locked", "checked"} => row[t].permit # p
    BY <1>6 DEF SeenIsCurrent, EditPermit
  <2> QED
    BY <1>6, <2>1 DEF SeenIsCurrent, TypeOK, EditPermit
<1>7. CASE NextDay
  BY <1>7 DEF SeenIsCurrent, NextDay
<1> QED
  BY <1>1, <1>2, <1>3, <1>4, <1>5, <1>6, <1>7, NextCases
-----------------------------------------------------------------------------
(* What each kind of step does to the kilograms drawn.                     *)

(* 40:338-350.  Draws and reversals are finite sets of committed rows. *)
LEMMA RowsAreFinite ==
  ASSUME NEW p, IsFiniteSet(drawdowns)
  PROVE  /\ IsFiniteSet(DrawsOf(p)) /\ IsFiniteSet(ReversalsOf(p))
         /\ SumKg(DrawsOf(p)) \in Nat /\ SumKg(ReversalsOf(p)) \in Nat
<1>1. DrawsOf(p) \subseteq drawdowns /\ ReversalsOf(p) \subseteq drawdowns
  BY DEF DrawsOf, ReversalsOf
<1> QED
  BY <1>1, FS_Subset, SumIsNat

(* 40:338-350.  Rows that each restore a row of their own restore no more   *)
(* than was drawn.                                                         *)
LEMMA RestoredIsDrawn ==
  ASSUME NEW draws, NEW reversals, IsFiniteSet(draws),
         \A r \in reversals : \E d \in draws : d.id = r.reversalOf /\ d.kg = r.kg,
         \A q, r \in reversals : q.reversalOf = r.reversalOf => q = r
  PROVE  SumKg(reversals) <= SumKg(draws)
<1> DEFINE Restores(r, d) == d.id = r.reversalOf /\ d.kg = r.kg
           f == [r \in reversals |-> CHOOSE d \in draws : Restores(r, d)]
<1>1. \A r \in reversals : f[r] \in draws /\ Restores(r, f[r])
  OBVIOUS
<1> HIDE DEF f
<1>2. \A q, r \in reversals : f[q] = f[r] => q = r
  BY <1>1
<1>3. f \in [reversals -> draws]
  BY <1>1 DEF f
<1>4. f \in Injection(reversals, draws)
  BY <1>2, <1>3 DEF Injection, IsInjective
<1>5. \A r \in reversals : f[r].kg = r.kg
  BY <1>1
<1> QED
  BY <1>4, <1>5, SumOfMatched

(* 40:338-350.  What is drawn on a permit is never below zero, before a     *)
(* step and after it.                                                       *)
LEMMA DrawnIsNat ==
  ASSUME IInv, IInv', NEW p
  PROVE  permit_drawn_kg(p) \in Nat /\ permit_drawn_kg(p)' \in Nat
<1>1. SumKg(ReversalsOf(p)) <= SumKg(DrawsOf(p))
  <2>1. \A r \in ReversalsOf(p) :
          \E d \in DrawsOf(p) : d.id = r.reversalOf /\ d.kg = r.kg
    BY DEF IInv, ReversalsMatchDraws, ReversalAdmitted, ReversalsOf, DrawsOf
  <2>2. \A q, r \in ReversalsOf(p) : q.reversalOf = r.reversalOf => q = r
    BY DEF IInv, ReversalsMatchDraws, ReversalsOf
  <2> QED
    BY <2>1, <2>2, RowsAreFinite, RestoredIsDrawn DEF IInv, TypeOK
<1>2. SumKg(ReversalsOf(p)') <= SumKg(DrawsOf(p)')
  <2>1. \A r \in ReversalsOf(p)' :
          \E d \in DrawsOf(p)' : d.id = r.reversalOf /\ d.kg = r.kg
    BY DEF IInv, ReversalsMatchDraws, ReversalAdmitted, ReversalsOf, DrawsOf
  <2>2. \A q, r \in ReversalsOf(p)' : q.reversalOf = r.reversalOf => q = r
    BY DEF IInv, ReversalsMatchDraws, ReversalsOf
  <2>3. IsFiniteSet(DrawsOf(p)')
    BY FS_Subset DEF IInv, TypeOK, DrawsOf
  <2> QED
    BY <2>1, <2>2, <2>3, RestoredIsDrawn
<1>3. SumKg(DrawsOf(p)) \in Nat /\ SumKg(ReversalsOf(p)) \in Nat
  BY RowsAreFinite DEF IInv, TypeOK
<1>4. SumKg(DrawsOf(p)') \in Nat /\ SumKg(ReversalsOf(p)') \in Nat
  <2>1. DrawsOf(p)' \subseteq drawdowns' /\ ReversalsOf(p)' \subseteq drawdowns'
    BY DEF DrawsOf, ReversalsOf
  <2> QED
    BY <2>1, FS_Subset, SumIsNat DEF IInv, TypeOK
<1>5. permit_drawn_kg(p)' = SumKg(DrawsOf(p)') - SumKg(ReversalsOf(p)')
  BY DEF permit_drawn_kg, SumKg, Kilograms
<1> QED
  BY <1>1, <1>2, <1>3, <1>4, <1>5 DEF permit_drawn_kg

(* The committed rows decide what is drawn. *)
LEMMA DrawnIsUnchanged ==
  ASSUME drawdowns' = drawdowns, NEW p
  PROVE  permit_drawn_kg(p)' = permit_drawn_kg(p)
  BY DEF permit_drawn_kg, DrawsOf, ReversalsOf, SumKg, Kilograms

(* A commit touches the permit of its row only: a draw adds at most its     *)
(* kilograms and takes none away, a reversal adds none.                     *)
LEMMA DrawnAfterCommit ==
  ASSUME IInv, TypeOK', NEW s \in Sessions, Commit(s), NEW p \in Permits
  PROVE  /\ row[s].permit # p => permit_drawn_kg(p)' = permit_drawn_kg(p)
         /\ row[s].permit = p /\ row[s].reversalOf = NoDraw =>
              /\ permit_drawn_kg(p) <= permit_drawn_kg(p)'
              /\ permit_drawn_kg(p)' <= permit_drawn_kg(p) + row[s].kg
         /\ row[s].permit = p /\ row[s].reversalOf # NoDraw =>
              permit_drawn_kg(p)' <= permit_drawn_kg(p)
<1> DEFINE r == row[s]
           draws == DrawsOf(p)
           reversals == ReversalsOf(p)
           drawsAfter == DrawsOf(p)'
           reversalsAfter == ReversalsOf(p)'
<1>1. drawdowns' = drawdowns \cup {r}
  BY DEF Commit
<1>2. r \in Drawdown /\ r.kg \in 1 .. MaxKg /\ r.kg \in Nat
  <2>1. r \in Drawdown
    BY DEF IInv, SeenIsCurrent, Commit
  <2>2. r.kg \in Requests
    BY <2>1 DEF Drawdown
  <2>3. r.kg \in 1 .. MaxKg
    BY <2>2, PermitAssumption
  <2> QED
    BY <2>1, <2>3, MaxKgAssumption
<1>3. /\ permit_drawn_kg(p) = SumKg(draws) - SumKg(reversals)
      /\ permit_drawn_kg(p)' = SumKg(drawsAfter) - SumKg(reversalsAfter)
  BY DEF permit_drawn_kg, SumKg, Kilograms
<1>4. /\ IsFiniteSet(draws) /\ IsFiniteSet(reversals)
      /\ SumKg(draws) \in Nat /\ SumKg(reversals) \in Nat
  BY RowsAreFinite DEF IInv, TypeOK
<1>5. /\ IsFiniteSet(drawsAfter) /\ IsFiniteSet(reversalsAfter)
      /\ SumKg(drawsAfter) \in Nat /\ SumKg(reversalsAfter) \in Nat
  <2>1. drawsAfter \subseteq drawdowns' /\ reversalsAfter \subseteq drawdowns'
    BY DEF DrawsOf, ReversalsOf
  <2> QED
    BY <2>1, FS_Subset, SumIsNat DEF TypeOK
<1>6. CASE r.permit # p
  <2>1. drawsAfter = draws /\ reversalsAfter = reversals
    BY <1>1, <1>6 DEF DrawsOf, ReversalsOf
  <2> QED
    BY <1>3, <1>6, <2>1
<1>7. CASE r.permit = p /\ r.reversalOf = NoDraw
  <2>1. drawsAfter = draws \cup {r} /\ reversalsAfter = reversals
    BY <1>1, <1>7 DEF DrawsOf, ReversalsOf
  <2> HIDE DEF draws, drawsAfter, reversals, reversalsAfter, r
  <2>2. SumKg(draws) <= SumKg(drawsAfter) /\ SumKg(drawsAfter) <= SumKg(draws) + r.kg
    BY <1>2, <1>4, <1>5, <2>1, SumOfOneMore, SumIsMonotone
  <2> QED
    BY <1>2, <1>3, <1>4, <1>5, <1>7, <2>1, <2>2 DEF r
<1>8. CASE r.permit = p /\ r.reversalOf # NoDraw
  <2>1. drawsAfter = draws /\ reversals \subseteq reversalsAfter
    BY <1>1, <1>8 DEF DrawsOf, ReversalsOf
  <2> HIDE DEF draws, drawsAfter, reversals, reversalsAfter, r
  <2>2. SumKg(reversals) <= SumKg(reversalsAfter)
    BY <1>5, <2>1, SumIsMonotone
  <2> QED
    BY <1>3, <1>4, <1>5, <1>8, <2>1, <2>2 DEF r
<1> QED
  BY <1>6, <1>7, <1>8
-----------------------------------------------------------------------------
(* 40:410-430.  The draw that a reversal restores stays committed.         *)
LEMMA ReversalStaysAdmitted ==
  ASSUME drawdowns \subseteq drawdowns', NEW r, ReversalAdmitted(r)
  PROVE  ReversalAdmitted(r)'
  BY DEF ReversalAdmitted

(* A checked row stays admitted when its permit, what is drawn on it and    *)
(* what the session saw stay as they are.                                   *)
LEMMA StaysAdmitted ==
  ASSUME drawdowns \subseteq drawdowns', NEW s \in Sessions, InsertAdmitted(s),
         row'[s] = row[s], seen'[s] = seen[s], NEW p, row[s].permit = p,
         permits'[p] = permits[p], permit_drawn_kg(p)' = permit_drawn_kg(p)
  PROVE  InsertAdmitted(s)'
<1>1. ReversalAdmitted(row[s]) => ReversalAdmitted(row[s])'
  BY ReversalStaysAdmitted
<1>2. DrawAdmitted(s) => DrawAdmitted(s)'
  BY DEF DrawAdmitted
<1> QED
  BY <1>1, <1>2 DEF InsertAdmitted, ReversalAdmitted

(* 40:45-52.  From the check to the commit no other session, edit or day    *)
(* takes away what a session checked.                                       *)
LEMMA CheckedStep ==
  ASSUME IInv, TypeOK', [Next]_vars
  PROVE  CheckedIsAdmitted'
<1> USE PermitAssumption
<1> SUFFICES ASSUME NEW t \in Sessions, phase'[t] = "checked",
                    NEW q, row'[t].permit = q
             PROVE  InsertAdmitted(t)'
  BY DEF CheckedIsAdmitted
<1>1. ASSUME phase[t] = "checked", UNCHANGED <<permits, drawdowns>>,
             row'[t] = row[t], seen'[t] = seen[t]
      PROVE  InsertAdmitted(t)'
  <2>1. InsertAdmitted(t)
    BY <1>1 DEF IInv, CheckedIsAdmitted
  <2>2. permit_drawn_kg(q)' = permit_drawn_kg(q)
    BY <1>1, DrawnIsUnchanged
  <2> QED
    BY <1>1, <2>1, <2>2, StaysAdmitted
<1>2. CASE UNCHANGED vars
  BY <1>1, <1>2 DEF vars
<1>3. ASSUME NEW s \in Sessions, NEW d \in Drawdown, BeginInsert(s, d)
      PROVE  InsertAdmitted(t)'
  BY <1>1, <1>3 DEF BeginInsert, IInv, TypeOK
<1>4. ASSUME NEW s \in Sessions, LockPermit(s)
      PROVE  InsertAdmitted(t)'
  BY <1>1, <1>4 DEF LockPermit, IInv, TypeOK
<1>5. ASSUME NEW s \in Sessions, CheckInsert(s)
      PROVE  InsertAdmitted(t)'
  <2>1. CASE s # t
    BY <1>1, <1>5, <2>1 DEF CheckInsert, IInv, TypeOK
  <2>2. CASE s = t
    <3>1. /\ InsertAdmitted(t) /\ row' = row /\ seen' = seen
          /\ permits' = permits /\ drawdowns' = drawdowns
      BY <1>5, <2>2 DEF CheckInsert
    <3>2. permit_drawn_kg(q)' = permit_drawn_kg(q)
      BY <3>1, DrawnIsUnchanged
    <3> QED
      BY <3>1, <3>2, StaysAdmitted
  <2> QED
    BY <2>1, <2>2
<1>6. ASSUME NEW s \in Sessions, RefuseInsert(s) \/ Abort(s)
      PROVE  InsertAdmitted(t)'
  <2>1. EndSession(s) /\ UNCHANGED <<today, permits, drawdowns>>
    BY <1>6 DEF RefuseInsert, Abort
  <2>2. phase[t] = "checked" /\ row'[t] = row[t] /\ seen'[t] = seen[t]
    BY <2>1, EndSessionIsLocal DEF IInv
  <2> QED
    BY <1>1, <2>1, <2>2
<1>7. ASSUME NEW s \in Sessions, Commit(s)
      PROVE  InsertAdmitted(t)'
  <2>1. /\ EndSession(s) /\ permits' = permits /\ drawdowns \subseteq drawdowns'
        /\ phase[s] = "checked"
    BY <1>7 DEF Commit
  <2>2. t # s /\ phase[t] = "checked" /\ row'[t] = row[t] /\ seen'[t] = seen[t]
    BY <2>1, EndSessionIsLocal DEF IInv
  <2>3. row[t] \in Drawdown /\ q # row[s].permit
    BY <2>1, <2>2 DEF IInv, SeenIsCurrent
  <2>4. q \in Permits
    BY <2>2, <2>3 DEF Drawdown
  <2>5. permit_drawn_kg(q)' = permit_drawn_kg(q)
    BY <1>7, <2>3, <2>4, DrawnAfterCommit
  <2>6. InsertAdmitted(t)
    BY <2>2 DEF IInv, CheckedIsAdmitted
  <2> QED
    BY <2>1, <2>2, <2>5, <2>6, StaysAdmitted
<1>8. ASSUME NEW p \in Permits, NEW version \in PermitRow, EditPermit(p, version)
      PROVE  InsertAdmitted(t)'
  <2>1. /\ phase[t] = "checked" /\ row' = row /\ seen' = seen /\ drawdowns' = drawdowns
        /\ lockedBy[p] = NoSession
        /\ permits' = [permits EXCEPT ![p] = version]
    BY <1>8 DEF EditPermit
  <2>2. q # p
    BY <2>1 DEF IInv, SeenIsCurrent
  <2>3. q \in Permits
    BY <2>1 DEF IInv, SeenIsCurrent, Drawdown
  <2>4. permits'[q] = permits[q]
    BY <2>1, <2>2, <2>3 DEF IInv, TypeOK
  <2>5. permit_drawn_kg(q)' = permit_drawn_kg(q)
    BY <2>1, DrawnIsUnchanged
  <2>6. InsertAdmitted(t)
    BY <2>1 DEF IInv, CheckedIsAdmitted
  <2> QED
    BY <2>1, <2>4, <2>5, <2>6, StaysAdmitted
<1>9. CASE NextDay
  BY <1>1, <1>9 DEF NextDay
<1> QED
  BY <1>2, <1>3, <1>4, <1>5, <1>6, <1>7, <1>8, <1>9, NextCases

(* A committed reversal was admitted, and no committed row reversed its     *)
(* draw before it.                                                          *)
LEMMA MatchStep ==
  ASSUME IInv, [Next]_vars
  PROVE  ReversalsMatchDraws'
<1>1. ASSUME drawdowns' = drawdowns
      PROVE  ReversalsMatchDraws'
  BY <1>1 DEF IInv, ReversalsMatchDraws, ReversalAdmitted
<1>2. ASSUME NEW s \in Sessions, Commit(s)
      PROVE  ReversalsMatchDraws'
  <2>1. /\ drawdowns' = drawdowns \cup {row[s]} /\ ~BreaksUniqueness(row[s])
        /\ InsertAdmitted(s)
    BY <1>2 DEF Commit, IInv, CheckedIsAdmitted
  <2>2. row[s].reversalOf # NoDraw => ReversalAdmitted(row[s])
    BY <2>1 DEF InsertAdmitted
  <2>3. \A r \in drawdowns' : r.reversalOf # NoDraw => ReversalAdmitted(r)'
    BY <2>1, <2>2, ReversalStaysAdmitted DEF IInv, ReversalsMatchDraws
  <2>4. \A r, x \in drawdowns' :
          r.reversalOf # NoDraw /\ x.reversalOf = r.reversalOf => x = r
    BY <2>1 DEF IInv, ReversalsMatchDraws, BreaksUniqueness
  <2> QED
    BY <2>3, <2>4 DEF ReversalsMatchDraws
<1>3. \/ drawdowns' = drawdowns
      \/ \E s \in Sessions : Commit(s)
  BY NextCases DEF vars, BeginInsert, LockPermit, CheckInsert, RefuseInsert, Abort,
                   EditPermit, NextDay
<1> QED
  BY <1>1, <1>2, <1>3
-----------------------------------------------------------------------------
(* Initially nothing is drawn and no session is in a transaction. *)
LEMMA InitEstablishes == Init => IInv
<1> SUFFICES ASSUME Init PROVE IInv
  OBVIOUS
<1>1. TypeOK
  BY PermitAssumption, FS_EmptySet DEF Init, TypeOK
<1>2. (\A s \in Sessions : phase[s] = "idle") /\ drawdowns = {}
  BY DEF Init
<1> QED
  BY <1>1, <1>2 DEF IInv, SeenIsCurrent, CheckedIsAdmitted, ReversalsMatchDraws

(* The inductive invariant holds in every state of every behaviour.        *)
THEOREM Inductive == Spec => []IInv
<1>1. IInv /\ [Next]_vars => IInv'
  BY TypeStep, SeenStep, CheckedStep, MatchStep DEF IInv
<1> QED
  BY <1>1, InitEstablishes, PTL DEF Spec

(* Every column keeps its type. *)
THEOREM TypeCorrect == Spec => []TypeOK
  BY Inductive, PTL DEF IInv

(* 40:410-430.  Each reversal restores one draw of its permit in full, and  *)
(* no draw is restored twice.                                               *)
THEOREM ReversalsAreReal == Spec => []ReversalsMatchDraws
  BY Inductive, PTL DEF IInv

(* 40:433-438.  A draw is recorded only while its permit is active, however *)
(* edits, other draws and reversals interleave with it.                     *)
THEOREM DrawsAreOnActivePermits == Spec => DrawsOnActivePermits
<1>1. ASSUME IInv, Next, NEW d \in drawdowns' \ drawdowns, d.reversalOf = NoDraw
      PROVE  permits[d.permit].state = "active"
  <2>1. \/ drawdowns' = drawdowns
        \/ \E s \in Sessions : Commit(s)
    BY <1>1, NextCases
       DEF BeginInsert, LockPermit, CheckInsert, RefuseInsert, Abort, EditPermit, NextDay
  <2>2. PICK s \in Sessions : Commit(s)
    BY <1>1, <2>1
  <2>3. d = row[s] /\ InsertAdmitted(s)
    BY <1>1, <2>2 DEF Commit, IInv, CheckedIsAdmitted
  <2> QED
    BY <1>1, <2>3 DEF InsertAdmitted, DrawAdmitted
<1>2. IInv /\ [Next]_vars =>
        [\A d \in drawdowns' \ drawdowns :
           d.reversalOf = NoDraw => permits[d.permit].state = "active"]_vars
  BY <1>1
<1> QED
  BY <1>2, Inductive, PTL DEF Spec, DrawsOnActivePermits
-----------------------------------------------------------------------------
(* The refinement mapping of Abstract. *)
MappedCapacity == [p \in Permits |-> permits[p].limit]
MappedHeld == [p \in Permits |-> permit_drawn_kg(p)]

(* Every step of the ledger is a step of the abstract ledger, or no step.  *)
LEMMA StepMaps ==
  ASSUME IInv, IInv', [Next]_vars
  PROVE  [Abstract!Next]_Abstract!vars
<1>1. /\ MappedCapacity \in [Permits -> Nat] /\ MappedHeld \in [Permits -> Nat]
      /\ MappedCapacity' \in [Permits -> Nat]
  <2>1. \A p \in Permits : permits[p].limit \in Nat /\ permit_drawn_kg(p) \in Nat
    BY LimitIsNat, DrawnIsNat DEF IInv
  <2>2. \A p \in Permits : permits'[p].limit \in Nat
    <3>1. \A p \in Permits : permits'[p] \in PermitRow
      BY DEF IInv, TypeOK, Permit
    <3>2. \A p \in Permits : permits'[p].limit \in Limits
      BY <3>1 DEF PermitRow
    <3>3. \A p \in Permits : permits'[p].limit \in 1 .. MaxKg
      BY <3>2, PermitAssumption
    <3> QED
      BY <3>3, MaxKgAssumption
  <2> QED
    BY <2>1, <2>2 DEF MappedCapacity, MappedHeld
<1>2. ASSUME drawdowns' = drawdowns
      PROVE  MappedHeld' = MappedHeld
  BY <1>2, DrawnIsUnchanged DEF MappedHeld
<1>3. ASSUME permits' = permits, drawdowns' = drawdowns
      PROVE  UNCHANGED Abstract!vars
  BY <1>2, <1>3 DEF Abstract!vars, MappedHeld
<1>4. CASE UNCHANGED vars
  BY <1>3, <1>4 DEF vars
<1>5. ASSUME NEW s \in Sessions, NEW d,
             \/ BeginInsert(s, d) \/ LockPermit(s) \/ CheckInsert(s)
             \/ RefuseInsert(s) \/ Abort(s)
      PROVE  UNCHANGED Abstract!vars
  BY <1>3, <1>5 DEF BeginInsert, LockPermit, CheckInsert, RefuseInsert, Abort
<1>6. ASSUME NEW s \in Sessions, Commit(s)
      PROVE  Abstract!GiveBack \/ \E p \in Permits : Abstract!Admit(p)
  <2>1. PICK p \in Permits : row[s].permit = p
    BY <1>6 DEF IInv, SeenIsCurrent, Commit, Drawdown
  <2>2. MappedCapacity' = MappedCapacity
    BY <1>6 DEF MappedCapacity, Commit
  <2>3. \A q \in Permits \ {p} : permit_drawn_kg(q)' = permit_drawn_kg(q)
    BY <1>6, <2>1, DrawnAfterCommit DEF IInv
  <2>4. \A q \in Permits : permit_drawn_kg(q) \in Nat
    BY DrawnIsNat
  <2>5. CASE row[s].reversalOf = NoDraw
    <3>1. /\ permit_drawn_kg(p) <= permit_drawn_kg(p)'
          /\ permit_drawn_kg(p)' <= permit_drawn_kg(p) + row[s].kg
      BY <1>6, <2>1, <2>5, DrawnAfterCommit DEF IInv
    <3>2. permit_drawn_kg(p) + row[s].kg <= permits[p].limit
      BY <1>6, <2>1, <2>5
         DEF Commit, IInv, CheckedIsAdmitted, SeenIsCurrent, InsertAdmitted, DrawAdmitted
    <3>3. row[s].kg \in Nat /\ permits[p].limit \in Nat
      <4>1. row[s].kg \in Requests
        BY <1>6 DEF Commit, IInv, SeenIsCurrent, Drawdown
      <4>2. row[s].kg \in 1 .. MaxKg
        BY <4>1, PermitAssumption
      <4> QED
        BY <4>2, MaxKgAssumption, LimitIsNat DEF IInv
    <3>4. permit_drawn_kg(p)' \in Nat
      BY DrawnIsNat
    <3>5. MappedHeld'[p] \in MappedHeld[p] .. MappedCapacity[p]
      BY <2>4, <3>1, <3>2, <3>3, <3>4 DEF MappedHeld, MappedCapacity
    <3>6. MappedHeld' = [MappedHeld EXCEPT ![p] = MappedHeld'[p]]
      BY <2>3 DEF MappedHeld
    <3>7. Abstract!Admit(p)
      BY <2>2, <3>5, <3>6 DEF Abstract!Admit, MappedHeld, MappedCapacity
    <3> QED
      BY <3>7
  <2>6. CASE row[s].reversalOf # NoDraw
    <3>1. permit_drawn_kg(p)' <= permit_drawn_kg(p)
      BY <1>6, <2>1, <2>6, DrawnAfterCommit DEF IInv
    <3>2. \A q \in Permits : permit_drawn_kg(q)' <= permit_drawn_kg(q)
      BY <2>3, <2>4, <3>1
    <3>3. \A q \in Permits : permit_drawn_kg(q)' \in Nat
      BY DrawnIsNat
    <3> QED
      BY <2>2, <3>2, <3>3 DEF Abstract!GiveBack, MappedCapacity
  <2> QED
    BY <2>5, <2>6
<1>7. ASSUME NEW p \in Permits, NEW version \in PermitRow, EditPermit(p, version)
      PROVE  Abstract!Resize(p)
  <2>1. MappedHeld' = MappedHeld
    BY <1>2, <1>7 DEF EditPermit
  <2>2. MappedCapacity'[p] \in Nat
    BY <1>1
  <2>3. MappedCapacity' = [MappedCapacity EXCEPT ![p] = MappedCapacity'[p]]
    BY <1>7 DEF EditPermit, MappedCapacity, IInv, TypeOK
  <2> QED
    BY <2>1, <2>2, <2>3 DEF Abstract!Resize, MappedHeld, MappedCapacity
<1>8. ASSUME NextDay
      PROVE  UNCHANGED Abstract!vars
  BY <1>3, <1>8 DEF NextDay
<1>9. ASSUME Next
      PROVE  \/ UNCHANGED Abstract!vars
             \/ Abstract!GiveBack
             \/ \E p \in Permits : Abstract!Admit(p)
             \/ \E p \in Permits : Abstract!Resize(p)
  <2>1. CASE \E s \in Sessions :
               \/ \E d \in Drawdown : BeginInsert(s, d)
               \/ LockPermit(s) \/ CheckInsert(s) \/ RefuseInsert(s) \/ Abort(s)
    BY <1>5, <2>1
  <2>2. CASE \E s \in Sessions : Commit(s)
    BY <1>6, <2>2
  <2>3. CASE \E p \in Permits, version \in PermitRow : EditPermit(p, version)
    BY <1>7, <2>3
  <2> QED
    BY <1>8, <1>9, <2>1, <2>2, <2>3, NextCases
<1> QED
  BY <1>4, <1>9 DEF Abstract!Next

(* 40:45-52.  The transactions of migration 40 amount to atomic admissions *)
(* within the limit of the permit at the instant of the commit; reversals  *)
(* give back, and never more than was drawn.                               *)
THEOREM LedgerImplements == Spec => ImplementsQuantityLedger
<1>1. ASSUME Init
      PROVE  Abstract!Init
  <2>1. \A p \in Permits : DrawsOf(p) = {} /\ ReversalsOf(p) = {}
    BY <1>1 DEF Init, DrawsOf, ReversalsOf
  <2>2. \A p \in Permits : permit_drawn_kg(p) = 0
    BY <2>1, SumOfNone DEF permit_drawn_kg
  <2>3. \A p \in Permits : permits[p].limit \in Nat
    BY <1>1, InitEstablishes, LimitIsNat DEF IInv
  <2> QED
    BY <2>2, <2>3 DEF Abstract!Init
<1> QED
  BY <1>1, Inductive, StepMaps, PTL DEF Spec, ImplementsQuantityLedger, Abstract!Spec
=============================================================================
