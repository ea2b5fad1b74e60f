--------------------------- MODULE ExportGateProofs ---------------------------
(***************************************************************************)
(* Theorems about the rulesets of a market, about the gate that asks for   *)
(* the one in force and about the overrides of what it answered, for any   *)
(* administrators, people, files and dates.                                *)
(***************************************************************************)
EXTENDS ExportGate, DestinationRulesets, GateOverrides, TLAPS

-----------------------------------------------------------------------------
(* The rulesets.                                                           *)

Table == [Versions -> AnyRange \cup {Absent}]
WriteRow == [stage : {"started", "checked", "written"}, version : Versions,
             range : AnyRange, insert : BOOLEAN, saw : Table]

RulesetsTypeOK ==
  /\ rulesets \in Table
  /\ write \in [Sessions -> WriteRow \cup {NoWrite}]
  /\ basis \in [Versions -> Table]

(* Range r of version v overlaps no other version of the table. *)
Clear(v, r, table) ==
  \A w \in Versions \ {v} : table[w] # Absent => ~Overlap(table[w], r)

(* What a trigger let through was clear of the table it saw, and so is the  *)
(* row that was committed.                                                  *)
LetThrough ==
  /\ \A s \in Sessions : write[s].stage \in {"checked", "written"} =>
       Clear(write[s].version, write[s].range, write[s].saw)
  /\ \A v \in Versions : rulesets[v] # Absent => Clear(v, rulesets[v], basis[v])

RulesetsInv == RulesetsTypeOK /\ LetThrough

(* 41:175-177.  Two half-open ranges with a day in common overlap. *)
LEMMA SharedDayOverlaps ==
  ASSUME NEW q \in AnyRange, NEW r \in AnyRange, NEW day \in Days,
         Covers(q, day), Covers(r, day)
  PROVE  Overlap(q, r)
<1>1. /\ q.from \in Nat /\ r.from \in Nat /\ day \in Nat
      /\ q.to \in Nat \cup {OpenEnd} /\ r.to \in Nat \cup {OpenEnd}
  BY RulesetAssumption DEF AnyRange
<1> QED
  BY <1>1 DEF Covers, Overlap

(* A session's statement under way, or none. *)
LEMMA StatementTypes ==
  ASSUME RulesetsTypeOK, NEW s \in Sessions, Busy(s)
  PROVE  write[s] \in WriteRow
  BY DEF RulesetsTypeOK, Busy, NoWrite

(* Every step of the administrators keeps what the triggers saw clear.      *)
LEMMA RulesetsStep == RulesetsInv /\ [RulesetsNext]_rulesetVars => RulesetsInv'
<1> SUFFICES ASSUME RulesetsInv, [RulesetsNext]_rulesetVars
             PROVE  RulesetsInv'
  OBVIOUS
<1> USE DEF RulesetsInv
<1>1. CASE UNCHANGED rulesetVars
  BY <1>1 DEF rulesetVars, RulesetsTypeOK, LetThrough
<1>2. ASSUME NEW s \in Sessions, NEW new \in WriteRow \cup {NoWrite},
             write' = [write EXCEPT ![s] = new], UNCHANGED <<rulesets, basis>>,
             new.stage \in {"checked", "written"} => Clear(new.version, new.range, new.saw)
      PROVE  RulesetsInv'
  <2>1. write'[s] = new /\ \A t \in Sessions \ {s} : write'[t] = write[t]
    BY <1>2 DEF RulesetsTypeOK
  <2>2. RulesetsTypeOK'
    BY <1>2 DEF RulesetsTypeOK
  <2>3. LetThrough'
    BY <1>2, <2>1 DEF LetThrough
  <2> QED
    BY <2>2, <2>3
<1>3. NoWrite.stage = "idle"
  BY DEF NoWrite
<1>4. ASSUME NEW s \in Sessions, NEW v \in Versions, NEW r \in AnyRange, BeginWrite(s, v, r)
      PROVE  RulesetsInv'
  <2> DEFINE new == [stage |-> "started", version |-> v, range |-> r,
                     insert |-> rulesets[v] = Absent, saw |-> NothingSeen]
  <2>1. new \in WriteRow /\ new.stage = "started"
    BY DEF WriteRow, NothingSeen, Table
  <2>2. write' = [write EXCEPT ![s] = new] /\ UNCHANGED <<rulesets, basis>>
    BY <1>4 DEF BeginWrite
  <2> HIDE DEF new
  <2> QED
    BY <1>2, <2>1, <2>2
<1>5. ASSUME NEW s \in Sessions, CheckOverlap(s)
      PROVE  RulesetsInv'
  <2> DEFINE r == write[s]
             others == [rulesets EXCEPT ![r.version] = Absent]
             new == [r EXCEPT !.stage = "checked", !.saw = others]
  <2>1. r \in WriteRow
    BY <1>5, StatementTypes DEF CheckOverlap, Busy
  <2>2. /\ new \in WriteRow /\ new.version = r.version /\ new.range = r.range
        /\ new.saw = others
    BY <2>1 DEF WriteRow, RulesetsTypeOK, Table
  <2>3. write' = [write EXCEPT ![s] = new] /\ UNCHANGED <<rulesets, basis>>
    BY <1>5 DEF CheckOverlap, RulesetsTypeOK
  <2>4. Clear(r.version, r.range, rulesets)
    BY <1>5 DEF CheckOverlap, Conflicts, Clear
  <2>5. Clear(r.version, r.range, others)
    BY <2>4 DEF Clear, RulesetsTypeOK, Table
  <2> HIDE DEF new, r, others
  <2> QED
    BY <1>2, <2>2, <2>3, <2>5
<1>6. ASSUME NEW s \in Sessions, Fail(s)
      PROVE  RulesetsInv'
  BY <1>2, <1>3, <1>6 DEF Fail
<1>7. ASSUME NEW s \in Sessions, Write(s)
      PROVE  RulesetsInv'
  <2> DEFINE r == write[s]
             new == [r EXCEPT !.stage = "written"]
  <2>1. r \in WriteRow /\ Clear(r.version, r.range, r.saw)
    BY <1>7, StatementTypes DEF Write, Busy, LetThrough
  <2>2. /\ new \in WriteRow /\ new.version = r.version /\ new.range = r.range
        /\ new.saw = r.saw
    BY <2>1 DEF WriteRow
  <2>3. write' = [write EXCEPT ![s] = new] /\ UNCHANGED <<rulesets, basis>>
    BY <1>7 DEF Write
  <2> HIDE DEF new, r
  <2> QED
    BY <1>2, <2>1, <2>2, <2>3
<1>8. ASSUME NEW s \in Sessions, CommitWrite(s)
      PROVE  RulesetsInv'
  <2> DEFINE r == write[s]
             v == r.version
  <2>1. r \in WriteRow /\ Clear(v, r.range, r.saw)
    BY <1>8, StatementTypes DEF CommitWrite, Written, Busy, LetThrough
  <2>2. v \in Versions /\ r.range \in AnyRange /\ r.saw \in Table
    BY <2>1 DEF WriteRow
  <2>3. /\ rulesets' = [rulesets EXCEPT ![v] = r.range]
        /\ basis' = [basis EXCEPT ![v] = r.saw]
        /\ write' = [write EXCEPT ![s] = NoWrite]
    BY <1>8 DEF CommitWrite
  <2> HIDE DEF r, v
  <2>4. RulesetsTypeOK'
    BY <2>2, <2>3 DEF RulesetsTypeOK, Table
  <2>5. /\ rulesets'[v] = r.range /\ basis'[v] = r.saw
        /\ \A w \in Versions \ {v} : rulesets'[w] = rulesets[w] /\ basis'[w] = basis[w]
        /\ write'[s] = NoWrite /\ \A t \in Sessions \ {s} : write'[t] = write[t]
    BY <2>2, <2>3 DEF RulesetsTypeOK, Table
  <2>6. LetThrough'
    BY <1>3, <2>1, <2>5 DEF LetThrough
  <2> QED
    BY <2>4, <2>6
<1>9. ASSUME NEW v \in Versions, Delete(v)
      PROVE  RulesetsInv'
  <2>1. /\ rulesets' = [rulesets EXCEPT ![v] = Absent]
        /\ basis' = [basis EXCEPT ![v] = NothingSeen]
        /\ write' = write
    BY <1>9 DEF Delete
  <2>2. NothingSeen \in Table
    BY DEF NothingSeen, Table
  <2>3. RulesetsTypeOK'
    BY <2>1, <2>2 DEF RulesetsTypeOK, Table
  <2>4. /\ rulesets'[v] = Absent
        /\ \A w \in Versions \ {v} : rulesets'[w] = rulesets[w] /\ basis'[w] = basis[w]
    BY <2>1 DEF RulesetsTypeOK, Table
  <2>5. LetThrough'
    BY <2>1, <2>4 DEF LetThrough
  <2> QED
    BY <2>3, <2>5
<1> QED
  BY <1>1, <1>4, <1>5, <1>6, <1>7, <1>8, <1>9 DEF RulesetsNext

THEOREM RulesetsInductive == RulesetsSpec => []RulesetsInv
<1>1. RulesetsInit => RulesetsInv
  BY DEF RulesetsInit, RulesetsInv, RulesetsTypeOK, LetThrough, Table, NothingSeen, NoWrite
<1> QED
  BY <1>1, RulesetsStep, PTL DEF RulesetsSpec

(* 41:150-160.  The one way to two rulesets in force on a day is the race   *)
(* of two transactions neither of whose triggers saw the other's row: no    *)
(* order of inserts, edits and deletions gets there otherwise.              *)
THEOREM TwoInForceIsARace == RulesetsSpec => []AmbiguousOnlyByRace
<1>1. ASSUME RulesetsInv, NEW v \in Versions, NEW w \in Versions, v # w,
             NEW day \in Days, {v, w} \subseteq InForce(day)
      PROVE  basis[v][w] # rulesets[w]
  <2>1. /\ Covers(rulesets[v], day) /\ rulesets[v] \in AnyRange
        /\ Covers(rulesets[w], day) /\ rulesets[w] \in AnyRange
        /\ rulesets[v] # Absent /\ rulesets[w] # Absent
    BY <1>1 DEF InForce, Covers, RulesetsInv, RulesetsTypeOK, Table
  <2>2. Overlap(rulesets[w], rulesets[v])
    BY <2>1, SharedDayOverlaps
  <2>3. Clear(v, rulesets[v], basis[v])
    BY <1>1, <2>1 DEF RulesetsInv, LetThrough
  <2> QED
    BY <1>1, <2>1, <2>2, <2>3 DEF Clear
<1>2. RulesetsInv => AmbiguousOnlyByRace
  BY <1>1 DEF AmbiguousOnlyByRace
<1> QED
  BY <1>2, RulesetsInductive, PTL

-----------------------------------------------------------------------------
(* The gate.                                                               *)

AtVerdict == {"verdict"}
AfterRequirements == {"screening"} \cup AtVerdict
AfterFailedCoa == {"requirements"} \cup AfterRequirements
AfterCoa == {"failedCoa"} \cup AfterFailedCoa
AfterLicence == {"coa"} \cup AfterCoa
AfterHeadroom == {"licence"} \cup AfterLicence
AfterPermit == {"headroom"} \cup AfterHeadroom
AfterBuyer == {"permit"} \cup AfterPermit
AfterRuleset == {"buyer"} \cup AfterBuyer
Stages == {"idle", "ruleset"} \cup AfterRuleset

(* What a call may find not to hold. *)
Conditions == {"destination_ruleset_resolved", "buyer_verified", "buyer_import_permit_valid",
               "permit_headroom_sufficient", "exporter_licence_valid", "batch_releasable",
               "ruleset_requirements_met", "screening_clear"}
Failures == SUBSET Conditions

RunRow == [stage : Stages, asOf : Dates \cup {0}, batch : BOOLEAN, failed : Failures,
           ruleset : Rulesets \cup {NoRuleset}, permit : Permits \cup {NoPermit},
           left : SUBSET UNION {x.analytes : x \in Rulesets}]

GateTypeOK ==
  /\ ruleset \in Rulesets \cup {NoRuleset}
  /\ screenings \in ScreeningFiles
  /\ run \in [Consignments -> RunRow]
  /\ quiet \in [Consignments -> BOOLEAN]
  /\ missing = [c \in Consignments |-> missing[c]]
  /\ answer = [c \in Consignments |-> answer[c]]

(* What a call without a failed condition has found, SELECT by SELECT, and  *)
(* what therefore still holds as long as no file has changed.               *)
Found(c) ==
  LET r == run[c] IN
  /\ r.stage \in AfterRuleset =>
       /\ ruleset # NoRuleset /\ r.ruleset = ruleset
       /\ \A a \in ruleset.analytes \ r.left : Covered(a)
  /\ r.stage \in AfterBuyer => buyer = "verified"
  /\ r.stage \in AfterPermit /\ ruleset.requiresPermit =>
       r.permit \in Permits /\ permit_is_valid(r.permit, r.asOf)
  /\ r.stage \in AfterHeadroom /\ ruleset.requiresPermit =>
       permits[r.permit].headroom >= Kilograms
  /\ r.stage \in AfterLicence => licensed
  /\ r.stage \in AfterCoa => r.batch /\ CleanAccepted
  /\ r.stage \in AfterFailedCoa => ~AnyFail
  /\ r.stage \in AfterRequirements => r.left = {} /\ WithinCeiling(ruleset.ceiling)
  /\ r.stage \in AtVerdict => screening_is_clear(r.asOf)

(* What is lacking under a quiet call was lacking when it began. *)
Known(c) == missing[c] = Lacking(run[c].asOf)

QuietRunsKnow ==
  \A c \in Consignments : Running(c) /\ quiet[c] =>
    Known(c) /\ (run[c].failed = {} => Found(c))

Unanswered == \A c \in Consignments : Running(c) => answer[c] = NoAnswer

GateInv == GateTypeOK /\ QuietRunsKnow /\ Unanswered /\ QuietPassLacksOnlyNeverAsked

(* 42:417-429.  The first row of the ordered screenings, whichever it is    *)
(* among equals, is clear only if some clear result is later than every     *)
(* other kind.                                                              *)
LEMMA FirstRowIsTheLatest ==
  ASSUME GateTypeOK, NEW asOf \in Nat, screening_is_clear(asOf)
  PROVE  ScreenedClear(asOf)
<1> DEFINE dated == {x \in screenings : x.until >= asOf /\ DayOf(x.at) <= asOf}
           last == {x \in dated : \A y \in dated : y.at <= x.at}
           inDate == {x \in screenings : asOf \in DayOf(x.at) .. x.until}
<1>1. \A x \in screenings : x.at \in Nat /\ x.until \in Nat /\ DayOf(x.at) \in Nat
  BY FilesAssumption DEF GateTypeOK, DayOf
<1>2. inDate = dated
  BY <1>1
<1>3. PICK x \in last : x.result = "clear"
  BY DEF screening_is_clear
<1>4. \A y \in last : y.result = "clear"
  BY DEF screening_is_clear
<1>5. ASSUME NEW y \in dated
      PROVE  y.result = "clear" \/ y.at < x.at
  <2>1. y.at <= x.at
    BY <1>3
  <2>2. CASE y.at = x.at
    BY <1>3, <1>4, <2>2
  <2> QED
    BY <1>1, <1>3, <2>1, <2>2
<1> QED
  BY <1>2, <1>3, <1>5 DEF ScreenedClear

(* 42:717-745.  What a call without a failed condition found at its verdict *)
(* leaves nothing lacking but what no SELECT asks for.                      *)
LEMMA FoundLacksNothingElse ==
  ASSUME GateTypeOK, NEW c \in Consignments, run[c].stage = "verdict", Found(c)
  PROVE  Lacking(run[c].asOf) \subseteq NeverAsked
<1> DEFINE r == run[c]
           asOf == r.asOf
<1>1. asOf \in Nat
  BY FilesAssumption DEF GateTypeOK, RunRow
<1> USE DEF AfterRuleset, AfterBuyer, AfterPermit, AfterHeadroom, AfterLicence,
            AfterCoa, AfterFailedCoa, AfterRequirements, AtVerdict
<1>2. /\ ruleset # NoRuleset /\ r.ruleset = ruleset
      /\ \A a \in ruleset.analytes : Covered(a)
      /\ buyer = "verified" /\ licensed
      /\ CleanAccepted /\ ~AnyFail
      /\ WithinCeiling(ruleset.ceiling)
      /\ screening_is_clear(asOf)
  BY DEF Found
<1>3. ruleset.requiresPermit =>
        /\ r.permit \in Permits /\ permit_is_valid(r.permit, asOf)
        /\ permits[r.permit].headroom >= Kilograms
  BY DEF Found
<1> HIDE DEF r, asOf
<1>4. ScreenedClear(asOf)
  BY <1>1, <1>2, FirstRowIsTheLatest
<1>5. ruleset.requiresPermit => PermitWithRoom(asOf)
  BY <1>3 DEF PermitWithRoom
<1>6. Releasable
  BY <1>2 DEF CleanAccepted, Accepted, AnyFail, HasFail, Releasable
<1>7. AllEvidenced(ruleset.analytes)
  BY <1>2 DEF Covered, Accepted, AllEvidenced
<1>8. ruleset.ceiling # NoCeiling => CeilingKept(ruleset.ceiling)
  BY <1>2 DEF WithinCeiling, Accepted, CeilingKept
<1>9. LackingOfMarket(asOf) \subseteq NeverAsked
  BY <1>2, <1>5, <1>7, <1>8 DEF LackingOfMarket, Unless, NeverAsked
<1> QED
  BY <1>2, <1>4, <1>6, <1>9 DEF Lacking, Unless, NeverAsked, asOf, r

-----------------------------------------------------------------------------
(* The steps of the gate.                                                  *)

(* What another call does leaves what this one found where it was. *)
LEMMA Undisturbed ==
  ASSUME UNCHANGED files, NEW t \in Consignments, run'[t] = run[t]
  PROVE  Found(t)' <=> Found(t)
BY DEF files, Found, Covered, Accepted, permit_is_valid, CleanAccepted, HasFail,
       AnyFail, WithinCeiling, screening_is_clear, DayOf

LEMMA StillKnown ==
  ASSUME UNCHANGED files, NEW t \in Consignments,
         run'[t].asOf = run[t].asOf, missing'[t] = missing[t]
  PROVE  Known(t)' <=> Known(t)
BY DEF files, Known, Lacking, LackingOfMarket, Unless, PermitWithRoom, Releasable,
       AllEvidenced, CeilingKept, permit_is_valid, ScreenedClear,
       LastScreeningIsClear, DayOf

(* One SELECT of a call, or the end of the call. *)
LEMMA OneSelect ==
  ASSUME GateInv, NEW c \in Consignments, NEW next \in RunRow,
         run' = [run EXCEPT ![c] = next], UNCHANGED <<files, answer, history, changes>>,
         next.stage # "idle" =>
           /\ Running(c) /\ next.asOf = run[c].asOf
           /\ run[c].failed = {} /\ next.failed = {} /\ Found(c) => Found(c)'
           /\ next.failed = {} => run[c].failed = {}
  PROVE  GateInv'
<1>1. run'[c] = next /\ \A t \in Consignments \ {c} : run'[t] = run[t]
  BY DEF GateInv, GateTypeOK
<1>2. GateTypeOK'
  BY DEF GateInv, GateTypeOK, files, history
<1>3. QuietPassLacksOnlyNeverAsked'
  BY DEF GateInv, QuietPassLacksOnlyNeverAsked, Passed, history
<1>4. Unanswered'
  BY <1>1 DEF GateInv, Unanswered, Running
<1>5. ASSUME NEW t \in Consignments, Running(t)', quiet'[t]
      PROVE  Known(t)' /\ (run'[t].failed = {} => Found(t)')
  <2>1. quiet[t] /\ UNCHANGED files /\ missing'[t] = missing[t]
    BY <1>5 DEF history
  <2>2. CASE t # c
    <3>1. run'[t] = run[t] /\ Running(t)
      BY <1>1, <1>5, <2>2 DEF Running
    <3>2. Known(t) /\ (run[t].failed = {} => Found(t))
      BY <2>1, <3>1 DEF GateInv, QuietRunsKnow
    <3>3. Known(t)' <=> Known(t)
      BY <2>1, <3>1, StillKnown
    <3>4. Found(t)' <=> Found(t)
      BY <2>1, <3>1, Undisturbed
    <3> QED
      BY <3>1, <3>2, <3>3, <3>4
  <2>3. CASE t = c
    <3>1. next.stage # "idle"
      BY <1>1, <1>5, <2>3 DEF Running
    <3>2. Known(c) /\ (run[c].failed = {} => Found(c))
      BY <2>1, <2>3, <3>1 DEF GateInv, QuietRunsKnow
    <3>3. run'[c].asOf = run[c].asOf
      BY <1>1, <3>1
    <3>4. Known(c)' <=> Known(c)
      BY <2>1, <2>3, <3>3, StillKnown
    <3> QED
      BY <1>1, <2>3, <3>1, <3>2, <3>4
  <2> QED
    BY <2>2, <2>3
<1>6. QuietRunsKnow'
  BY <1>5 DEF QuietRunsKnow
<1> QED
  BY <1>2, <1>3, <1>4, <1>6 DEF GateInv

LEMMA ReadRulesetStep ==
  ASSUME GateInv, NEW c \in Consignments, ReadRuleset(c)
  PROVE  GateInv'
<1> DEFINE r == run[c]
           judged == Judged(r, "destination_ruleset_resolved", ruleset # NoRuleset, "buyer")
           needs == IF ruleset = NoRuleset THEN {} ELSE ruleset.analytes
           new == [judged EXCEPT !.ruleset = ruleset, !.left = needs]
<1>1. r \in RunRow /\ r.stage = "ruleset" /\ Running(c)
  BY DEF GateInv, GateTypeOK, ReadRuleset, Reading, Running
<1>2. judged \in RunRow /\ judged.stage = "buyer" /\ judged.asOf = r.asOf
      /\ (judged.failed = {} => r.failed = {} /\ ruleset # NoRuleset)
  <2> DEFINE failed == IF ruleset # NoRuleset THEN r.failed
                       ELSE r.failed \cup {"destination_ruleset_resolved"}
  <2>1. r.failed \in Failures
    BY <1>1 DEF RunRow
  <2>2. failed \in Failures /\ (failed = {} => r.failed = {} /\ ruleset # NoRuleset)
    BY <2>1 DEF Failures, Conditions
  <2>3. judged = [r EXCEPT !.stage = "buyer", !.failed = failed]
    BY DEF Judged
  <2>4. "buyer" \in Stages
    BY DEF Stages, AfterRuleset
  <2> HIDE DEF failed, judged, r
  <2> QED
    BY <1>1, <2>1, <2>2, <2>3, <2>4 DEF RunRow
<1>3. ruleset \in Rulesets \cup {NoRuleset}
  BY DEF GateInv, GateTypeOK
<1>4. needs \in SUBSET UNION {x.analytes : x \in Rulesets}
  BY <1>3
<1>5. run' = [run EXCEPT ![c] = new] /\ UNCHANGED <<files, answer, history, changes>>
  BY DEF ReadRuleset, Reading
<1>6. /\ new \in RunRow /\ new.stage = "buyer" /\ new.asOf = r.asOf
      /\ new.failed = judged.failed /\ new.ruleset = ruleset
      /\ ruleset # NoRuleset => new.left = ruleset.analytes
  <2> HIDE DEF judged, needs
  <2> QED
    BY <1>2, <1>3, <1>4 DEF RunRow, needs
<1> HIDE DEF new, judged, r
<1>7. run'[c] = new /\ ruleset' = ruleset
  BY <1>5 DEF GateInv, GateTypeOK, files
<1>8. new.failed = {} => Found(c)'
  BY <1>2, <1>6, <1>7 DEF Found, AfterRuleset, AfterBuyer, AfterPermit, AfterHeadroom,
         AfterLicence, AfterCoa, AfterFailedCoa, AfterRequirements, AtVerdict
<1> QED
  BY <1>1, <1>2, <1>5, <1>6, <1>8, OneSelect DEF r

LEMMA ReadBuyerStep ==
  ASSUME GateInv, NEW c \in Consignments, ReadBuyer(c)
  PROVE  GateInv'
<1> DEFINE r == run[c]
           new == Judged(r, "buyer_verified",
                         buyer = "verified", "permit")
<1>1. r \in RunRow /\ r.stage = "buyer" /\ Running(c)
  BY DEF GateInv, GateTypeOK, ReadBuyer, Reading, Running
<1>2. /\ new \in RunRow /\ new.stage = "permit"
      /\ new.asOf = r.asOf /\ new.batch = r.batch /\ new.ruleset = r.ruleset
      /\ new.permit = r.permit /\ new.left = r.left
      /\ new.failed = {} => r.failed = {} /\ buyer = "verified"
  <2> DEFINE failed == IF buyer = "verified" THEN r.failed ELSE r.failed \cup {"buyer_verified"}
  <2>1. r.failed \in Failures
    BY <1>1 DEF RunRow
  <2>2. failed \in Failures /\ (failed = {} => r.failed = {} /\ buyer = "verified")
    BY <2>1 DEF Failures, Conditions
  <2>3. new = [r EXCEPT !.stage = "permit", !.failed = failed]
    BY DEF Judged
  <2>4. "permit" \in Stages
    BY DEF Stages, AfterRuleset, AfterBuyer, AfterPermit, AfterHeadroom,
             AfterLicence, AfterCoa, AfterFailedCoa, AfterRequirements, AtVerdict
  <2> HIDE DEF failed, new, r
  <2> QED
    BY <1>1, <2>1, <2>2, <2>3, <2>4 DEF RunRow
<1>3. run' = [run EXCEPT ![c] = new] /\ UNCHANGED <<files, answer, history, changes>>
  BY DEF ReadBuyer, Reading
<1> HIDE DEF new
<1>4. run'[c] = new /\ UNCHANGED files
  BY <1>3 DEF GateInv, GateTypeOK
<1>5. Found(c) /\ new.failed = {} => Found(c)'
  BY <1>1, <1>2, <1>4
    DEF files, Found, Covered, Accepted, AfterRuleset, AfterBuyer, AfterPermit, AfterHeadroom,
           AfterLicence, AfterCoa, AfterFailedCoa, AfterRequirements, AtVerdict
<1> QED
  BY <1>1, <1>2, <1>3, <1>5, OneSelect

LEMMA ReadLicenceStep ==
  ASSUME GateInv, NEW c \in Consignments, ReadLicence(c)
  PROVE  GateInv'
<1> DEFINE r == run[c]
           new == Judged(r, "exporter_licence_valid",
                         licensed, "coa")
<1>1. r \in RunRow /\ r.stage = "licence" /\ Running(c)
  BY DEF GateInv, GateTypeOK, ReadLicence, Reading, Running
<1>2. /\ new \in RunRow /\ new.stage = "coa"
      /\ new.asOf = r.asOf /\ new.batch = r.batch /\ new.ruleset = r.ruleset
      /\ new.permit = r.permit /\ new.left = r.left
      /\ new.failed = {} => r.failed = {} /\ licensed
  <2> DEFINE failed == IF licensed THEN r.failed ELSE r.failed \cup {"exporter_licence_valid"}
  <2>1. r.failed \in Failures
    BY <1>1 DEF RunRow
  <2>2. failed \in Failures /\ (failed = {} => r.failed = {} /\ licensed)
    BY <2>1 DEF Failures, Conditions
  <2>3. new = [r EXCEPT !.stage = "coa", !.failed = failed]
    BY DEF Judged
  <2>4. "coa" \in Stages
    BY DEF Stages, AfterRuleset, AfterBuyer, AfterPermit, AfterHeadroom,
             AfterLicence, AfterCoa, AfterFailedCoa, AfterRequirements, AtVerdict
  <2> HIDE DEF failed, new, r
  <2> QED
    BY <1>1, <2>1, <2>2, <2>3, <2>4 DEF RunRow
<1>3. run' = [run EXCEPT ![c] = new] /\ UNCHANGED <<files, answer, history, changes>>
  BY DEF ReadLicence, Reading
<1> HIDE DEF new
<1>4. run'[c] = new /\ UNCHANGED files
  BY <1>3 DEF GateInv, GateTypeOK
<1>5. Found(c) /\ new.failed = {} => Found(c)'
  BY <1>1, <1>2, <1>4
    DEF files, Found, Covered, Accepted, permit_is_valid, AfterRuleset, AfterBuyer, AfterPermit, AfterHeadroom,
           AfterLicence, AfterCoa, AfterFailedCoa, AfterRequirements, AtVerdict
<1> QED
  BY <1>1, <1>2, <1>3, <1>5, OneSelect

LEMMA ReadFailedCoaStep ==
  ASSUME GateInv, NEW c \in Consignments, ReadFailedCoa(c)
  PROVE  GateInv'
<1> DEFINE r == run[c]
           new == Judged(r, "batch_releasable",
                         ~AnyFail, "requirements")
<1>1. r \in RunRow /\ r.stage = "failedCoa" /\ Running(c)
  BY DEF GateInv, GateTypeOK, ReadFailedCoa, Reading, Running
<1>2. /\ new \in RunRow /\ new.stage = "requirements"
      /\ new.asOf = r.asOf /\ new.batch = r.batch /\ new.ruleset = r.ruleset
      /\ new.permit = r.permit /\ new.left = r.left
      /\ new.failed = {} => r.failed = {} /\ ~AnyFail
  <2> DEFINE failed == IF ~AnyFail THEN r.failed ELSE r.failed \cup {"batch_releasable"}
  <2>1. r.failed \in Failures
    BY <1>1 DEF RunRow
  <2>2. failed \in Failures /\ (failed = {} => r.failed = {} /\ ~AnyFail)
    BY <2>1 DEF Failures, Conditions
  <2>3. new = [r EXCEPT !.stage = "requirements", !.failed = failed]
    BY DEF Judged
  <2>4. "requirements" \in Stages
    BY DEF Stages, AfterRuleset, AfterBuyer, AfterPermit, AfterHeadroom,
             AfterLicence, AfterCoa, AfterFailedCoa, AfterRequirements, AtVerdict
  <2> HIDE DEF failed, new, r
  <2> QED
    BY <1>1, <2>1, <2>2, <2>3, <2>4 DEF RunRow
<1>3. run' = [run EXCEPT ![c] = new] /\ UNCHANGED <<files, answer, history, changes>>
  BY DEF ReadFailedCoa, Reading
<1> HIDE DEF new
<1>4. run'[c] = new /\ UNCHANGED files
  BY <1>3 DEF GateInv, GateTypeOK
<1>5. Found(c) /\ new.failed = {} => Found(c)'
  BY <1>1, <1>2, <1>4
    DEF files, Found, Covered, Accepted, permit_is_valid, CleanAccepted,
           AnyFail, HasFail, AfterRuleset, AfterBuyer, AfterPermit, AfterHeadroom,
           AfterLicence, AfterCoa, AfterFailedCoa, AfterRequirements, AtVerdict
<1> QED
  BY <1>1, <1>2, <1>3, <1>5, OneSelect

LEMMA ReadHeadroomStep ==
  ASSUME GateInv, NEW c \in Consignments, ReadHeadroom(c)
  PROVE  GateInv'
<1> DEFINE r == run[c]
           holds == \/ ~NeedsPermit(r.ruleset)
                    \/ r.permit # NoPermit /\ permits[r.permit].headroom >= Kilograms
           failed == IF holds THEN r.failed ELSE r.failed \cup {"permit_headroom_sufficient"}
           new == Judged(r, "permit_headroom_sufficient", holds, "licence")
<1>1. r \in RunRow /\ r.stage = "headroom" /\ Running(c)
  BY DEF GateInv, GateTypeOK, ReadHeadroom, Reading, Running
<1>2. /\ new \in RunRow /\ new.stage = "licence"
      /\ new.asOf = r.asOf /\ new.batch = r.batch /\ new.ruleset = r.ruleset
      /\ new.permit = r.permit /\ new.left = r.left
      /\ new.failed = {} => r.failed = {} /\ holds
  <2>1. r.failed \in Failures
    BY <1>1 DEF RunRow
  <2> HIDE DEF holds
  <2>2. failed \in Failures /\ (failed = {} => r.failed = {} /\ holds)
    BY <2>1 DEF Failures, Conditions
  <2>3. new = [r EXCEPT !.stage = "licence", !.failed = failed]
    BY DEF Judged
  <2>4. "licence" \in Stages
    BY DEF Stages, AfterRuleset, AfterBuyer, AfterPermit, AfterHeadroom,
             AfterLicence, AfterCoa, AfterFailedCoa, AfterRequirements, AtVerdict
  <2> HIDE DEF failed, new, r
  <2> QED
    BY <1>1, <2>1, <2>2, <2>3, <2>4 DEF RunRow
<1>3. run' = [run EXCEPT ![c] = new] /\ UNCHANGED <<files, answer, history, changes>>
  BY DEF ReadHeadroom, Reading
<1> HIDE DEF new
<1>4. run'[c] = new /\ UNCHANGED files
  BY <1>3 DEF GateInv, GateTypeOK
<1>5. Found(c) /\ new.failed = {} => Found(c)'
  BY <1>1, <1>2, <1>4
    DEF files, Found, Covered, Accepted, permit_is_valid, NeedsPermit, AfterRuleset, AfterBuyer, AfterPermit, AfterHeadroom,
           AfterLicence, AfterCoa, AfterFailedCoa, AfterRequirements, AtVerdict
<1> QED
  BY <1>1, <1>2, <1>3, <1>5, OneSelect

LEMMA ReadScreeningStep ==
  ASSUME GateInv, NEW c \in Consignments, ReadScreening(c)
  PROVE  GateInv'
<1> DEFINE r == run[c]
           holds == screening_is_clear(r.asOf)
           failed == IF holds THEN r.failed ELSE r.failed \cup {"screening_clear"}
           new == Judged(r, "screening_clear", holds, "verdict")
<1>1. r \in RunRow /\ r.stage = "screening" /\ Running(c)
  BY DEF GateInv, GateTypeOK, ReadScreening, Reading, Running
<1>2. /\ new \in RunRow /\ new.stage = "verdict"
      /\ new.asOf = r.asOf /\ new.batch = r.batch /\ new.ruleset = r.ruleset
      /\ new.permit = r.permit /\ new.left = r.left
      /\ new.failed = {} => r.failed = {} /\ holds
  <2>1. r.failed \in Failures
    BY <1>1 DEF RunRow
  <2> HIDE DEF holds
  <2>2. failed \in Failures /\ (failed = {} => r.failed = {} /\ holds)
    BY <2>1 DEF Failures, Conditions
  <2>3. new = [r EXCEPT !.stage = "verdict", !.failed = failed]
    BY DEF Judged
  <2>4. "verdict" \in Stages
    BY DEF Stages, AfterRuleset, AfterBuyer, AfterPermit, AfterHeadroom,
             AfterLicence, AfterCoa, AfterFailedCoa, AfterRequirements, AtVerdict
  <2> HIDE DEF failed, new, r
  <2> QED
    BY <1>1, <2>1, <2>2, <2>3, <2>4 DEF RunRow
<1>3. run' = [run EXCEPT ![c] = new] /\ UNCHANGED <<files, answer, history, changes>>
  BY DEF ReadScreening, Reading
<1> HIDE DEF new
<1>4. run'[c] = new /\ UNCHANGED files
  BY <1>3 DEF GateInv, GateTypeOK
<1>5. Found(c) /\ new.failed = {} => Found(c)'
  BY <1>1, <1>2, <1>4
    DEF files, Found, Covered, Accepted, permit_is_valid, CleanAccepted, AnyFail, HasFail,
           WithinCeiling, screening_is_clear, DayOf, AfterRuleset, AfterBuyer, AfterPermit, AfterHeadroom,
           AfterLicence, AfterCoa, AfterFailedCoa, AfterRequirements, AtVerdict
<1> QED
  BY <1>1, <1>2, <1>3, <1>5, OneSelect

LEMMA ReadCeilingStep ==
  ASSUME GateInv, NEW c \in Consignments, ReadCeiling(c)
  PROVE  GateInv'
<1> DEFINE r == run[c]
           holds == /\ r.ruleset # NoRuleset
                    /\ IF r.batch THEN WithinCeiling(r.ruleset.ceiling)
                       ELSE r.ruleset.analytes = {} /\ r.ruleset.ceiling = NoCeiling
           failed == IF holds THEN r.failed ELSE r.failed \cup {"ruleset_requirements_met"}
           new == Judged(r, "ruleset_requirements_met", holds, "screening")
<1>1. r \in RunRow /\ r.stage = "requirements" /\ Running(c)
      /\ (r.batch => r.left = {})
  BY DEF GateInv, GateTypeOK, ReadCeiling, Reading, Running
<1>2. /\ new \in RunRow /\ new.stage = "screening"
      /\ new.asOf = r.asOf /\ new.batch = r.batch /\ new.ruleset = r.ruleset
      /\ new.permit = r.permit /\ new.left = r.left
      /\ new.failed = {} => r.failed = {} /\ holds
  <2>1. r.failed \in Failures
    BY <1>1 DEF RunRow
  <2> HIDE DEF holds
  <2>2. failed \in Failures /\ (failed = {} => r.failed = {} /\ holds)
    BY <2>1 DEF Failures, Conditions
  <2>3. new = [r EXCEPT !.stage = "screening", !.failed = failed]
    BY DEF Judged
  <2>4. "screening" \in Stages
    BY DEF Stages, AfterRuleset, AfterBuyer, AfterPermit, AfterHeadroom,
             AfterLicence, AfterCoa, AfterFailedCoa, AfterRequirements, AtVerdict
  <2> HIDE DEF failed, new, r
  <2> QED
    BY <1>1, <2>1, <2>2, <2>3, <2>4 DEF RunRow
<1>3. run' = [run EXCEPT ![c] = new] /\ UNCHANGED <<files, answer, history, changes>>
  BY DEF ReadCeiling, Reading
<1> HIDE DEF new
<1>4. run'[c] = new /\ UNCHANGED files
  BY <1>3 DEF GateInv, GateTypeOK
<1>5. Found(c) /\ new.failed = {} => Found(c)'
  BY <1>1, <1>2, <1>4
    DEF files, Found, Covered, Accepted, permit_is_valid, CleanAccepted, AnyFail, HasFail, WithinCeiling, AfterRuleset, AfterBuyer, AfterPermit, AfterHeadroom,
           AfterLicence, AfterCoa, AfterFailedCoa, AfterRequirements, AtVerdict
<1> QED
  BY <1>1, <1>2, <1>3, <1>5, OneSelect

(* The permit the SELECT takes is valid, or there is none that is. *)
LEMMA LatestIsValid ==
  ASSUME NEW asOf, NEW p \in LatestPermits(asOf)
  PROVE  p = NoPermit \/ (p \in Permits /\ permit_is_valid(p, asOf))
BY DEF LatestPermits

LEMMA ReadPermitStep ==
  ASSUME GateInv, NEW c \in Consignments, ReadPermit(c)
  PROVE  GateInv'
<1> DEFINE r == run[c]
<1>1. PICK p \in LatestPermits(r.asOf) :
        Reading(c, "permit",
          [Judged(r, "buyer_import_permit_valid",
                  ~NeedsPermit(r.ruleset) \/ p # NoPermit, "headroom") EXCEPT !.permit = p])
  BY DEF ReadPermit
<1> DEFINE holds == ~NeedsPermit(r.ruleset) \/ p # NoPermit
           failed == IF holds THEN r.failed ELSE r.failed \cup {"buyer_import_permit_valid"}
           judged == Judged(r, "buyer_import_permit_valid", holds, "headroom")
           new == [judged EXCEPT !.permit = p]
<1>2. r \in RunRow /\ r.stage = "permit" /\ Running(c)
  BY <1>1 DEF GateInv, GateTypeOK, Reading, Running
<1>3. p = NoPermit \/ (p \in Permits /\ permit_is_valid(p, r.asOf))
  BY <1>1, LatestIsValid
<1>4. /\ new \in RunRow /\ new.stage = "headroom"
      /\ new.asOf = r.asOf /\ new.batch = r.batch /\ new.ruleset = r.ruleset
      /\ new.permit = p /\ new.left = r.left
      /\ new.failed = {} => r.failed = {} /\ holds
  <2>1. r.failed \in Failures
    BY <1>2 DEF RunRow
  <2> HIDE DEF holds
  <2>2. failed \in Failures /\ (failed = {} => r.failed = {} /\ holds)
    BY <2>1 DEF Failures, Conditions
  <2>3. judged = [r EXCEPT !.stage = "headroom", !.failed = failed]
    BY DEF Judged
  <2>4. "headroom" \in Stages /\ p \in Permits \cup {NoPermit}
    BY <1>3 DEF Stages, AfterRuleset, AfterBuyer, AfterPermit
  <2> HIDE DEF failed, judged, r
  <2> QED
    BY <1>2, <2>1, <2>2, <2>3, <2>4 DEF RunRow
<1>5. run' = [run EXCEPT ![c] = new] /\ UNCHANGED <<files, answer, history, changes>>
  BY <1>1 DEF Reading
<1> HIDE DEF new, judged
<1>6. run'[c] = new /\ UNCHANGED files
  BY <1>5 DEF GateInv, GateTypeOK
<1>7. Found(c) /\ new.failed = {} => Found(c)'
  BY <1>2, <1>3, <1>4, <1>6
    DEF files, Found, Covered, Accepted, permit_is_valid, NeedsPermit, AfterRuleset,
        AfterBuyer, AfterPermit, AfterHeadroom, AfterLicence, AfterCoa, AfterFailedCoa,
        AfterRequirements, AtVerdict
<1> QED
  BY <1>2, <1>4, <1>5, <1>7, OneSelect

LEMMA ReadAnalyteStep ==
  ASSUME GateInv, NEW c \in Consignments, ReadAnalyte(c)
  PROVE  GateInv'
<1> DEFINE r == run[c]
<1>1. PICK a \in r.left :
        Reading(c, "requirements",
          [Judged(r, "ruleset_requirements_met", Covered(a), "requirements")
             EXCEPT !.left = @ \ {a}])
  BY DEF ReadAnalyte
<1> DEFINE holds == Covered(a)
           failed == IF holds THEN r.failed ELSE r.failed \cup {"ruleset_requirements_met"}
           judged == Judged(r, "ruleset_requirements_met", holds, "requirements")
           new == [judged EXCEPT !.left = @ \ {a}]
<1>2. r \in RunRow /\ r.stage = "requirements" /\ Running(c)
  BY <1>1 DEF GateInv, GateTypeOK, Reading, Running
<1>3. /\ new \in RunRow /\ new.stage = "requirements"
      /\ new.asOf = r.asOf /\ new.batch = r.batch /\ new.ruleset = r.ruleset
      /\ new.permit = r.permit /\ new.left = r.left \ {a}
      /\ new.failed = {} => r.failed = {} /\ holds
  <2>1. r.failed \in Failures
    BY <1>2 DEF RunRow
  <2> HIDE DEF holds
  <2>2. failed \in Failures /\ (failed = {} => r.failed = {} /\ holds)
    BY <2>1 DEF Failures, Conditions
  <2>3. judged = [r EXCEPT !.stage = "requirements", !.failed = failed]
    BY DEF Judged
  <2>4. "requirements" \in Stages
    BY DEF Stages, AfterRuleset, AfterBuyer, AfterPermit, AfterHeadroom,
           AfterLicence, AfterCoa, AfterFailedCoa
  <2> HIDE DEF failed, judged, r
  <2> QED
    BY <1>2, <2>1, <2>2, <2>3, <2>4 DEF RunRow
<1>4. run' = [run EXCEPT ![c] = new] /\ UNCHANGED <<files, answer, history, changes>>
  BY <1>1 DEF Reading
<1> HIDE DEF new, judged
<1>5. run'[c] = new /\ UNCHANGED files
  BY <1>4 DEF GateInv, GateTypeOK
<1>6. Found(c) /\ new.failed = {} => Found(c)'
  BY <1>2, <1>3, <1>5
    DEF files, Found, Covered, Accepted, permit_is_valid, CleanAccepted, AnyFail, HasFail,
        AfterRuleset, AfterBuyer, AfterPermit, AfterHeadroom, AfterLicence, AfterCoa,
        AfterFailedCoa, AfterRequirements, AtVerdict
<1> QED
  BY <1>2, <1>3, <1>4, <1>6, OneSelect

LEMMA ReadCoaStep ==
  ASSUME GateInv, NEW c \in Consignments, ReadCoa(c)
  PROVE  GateInv'
<1> DEFINE r == run[c]
           clean == r.batch /\ CleanAccepted
           failed == r.failed \cup {"batch_releasable"}
           more == [r EXCEPT !.stage = "failedCoa"]
           known == [r EXCEPT !.stage = "requirements", !.failed = failed]
<1>1. r \in RunRow /\ r.stage = "coa" /\ Running(c)
  BY DEF GateInv, GateTypeOK, ReadCoa, Reading, Running
<1>2. UNCHANGED <<files, answer, history, changes>>
  BY DEF ReadCoa, Reading
<1>3. CASE clean
  <2>1. /\ more \in RunRow /\ more.stage = "failedCoa"
        /\ more.asOf = r.asOf /\ more.batch = r.batch /\ more.ruleset = r.ruleset
        /\ more.permit = r.permit /\ more.left = r.left /\ more.failed = r.failed
    <3>1. "failedCoa" \in Stages
      BY DEF Stages, AfterRuleset, AfterBuyer, AfterPermit, AfterHeadroom,
             AfterLicence, AfterCoa
    <3> HIDE DEF r
    <3> QED
      BY <1>1, <3>1 DEF RunRow
  <2>2. run' = [run EXCEPT ![c] = more]
    BY <1>3 DEF ReadCoa, Reading
  <2> HIDE DEF more
  <2>3. run'[c] = more /\ UNCHANGED files
    BY <1>2, <2>2 DEF GateInv, GateTypeOK
  <2>4. Found(c) => Found(c)'
    BY <1>1, <1>3, <2>1, <2>3
      DEF files, Found, Covered, Accepted, permit_is_valid, CleanAccepted, HasFail,
          AfterRuleset, AfterBuyer, AfterPermit, AfterHeadroom, AfterLicence, AfterCoa,
          AfterFailedCoa, AfterRequirements, AtVerdict
  <2> QED
    BY <1>1, <1>2, <2>1, <2>2, <2>4, OneSelect
<1>4. CASE ~clean
  <2>1. known \in RunRow /\ known.stage = "requirements" /\ known.asOf = r.asOf
        /\ known.failed # {}
    <3>1. r.failed \in Failures
      BY <1>1 DEF RunRow
    <3>2. failed \in Failures /\ failed # {}
      BY <3>1 DEF Failures, Conditions
    <3>3. "requirements" \in Stages
      BY DEF Stages, AfterRuleset, AfterBuyer, AfterPermit, AfterHeadroom,
             AfterLicence, AfterCoa, AfterFailedCoa
    <3> HIDE DEF r, failed
    <3> QED
      BY <1>1, <3>2, <3>3 DEF RunRow
  <2>2. run' = [run EXCEPT ![c] = known]
    BY <1>4 DEF ReadCoa, Reading, Judged
  <2> HIDE DEF known
  <2> QED
    BY <1>1, <1>2, <2>1, <2>2, OneSelect
<1> QED
  BY <1>3, <1>4

LEMMA IdleRow == NoCall \in RunRow /\ NoCall.stage = "idle"
BY DEF NoCall, RunRow, Stages, Failures

LEMMA NowAsBefore ==
  ASSUME UNCHANGED files, NEW c \in Consignments, NEW asOf, run'[c].asOf = asOf
  PROVE  Lacking(run[c].asOf)' = Lacking(asOf)
BY DEF files, Lacking, LackingOfMarket, Unless, PermitWithRoom, Releasable,
       AllEvidenced, CeilingKept, permit_is_valid, ScreenedClear, LastScreeningIsClear, DayOf

LEMMA BeginStep ==
  ASSUME GateInv, NEW c \in Consignments, NEW asOf \in Dates, NEW batch \in BOOLEAN,
         Begin(c, asOf, batch)
  PROVE  GateInv'
<1> DEFINE new == [NoCall EXCEPT !.stage = "ruleset", !.asOf = asOf, !.batch = batch]
<1>1. new \in RunRow /\ new.stage = "ruleset" /\ new.asOf = asOf
  BY IdleRow DEF RunRow, Stages
<1>2. /\ run' = [run EXCEPT ![c] = new]
      /\ answer' = [answer EXCEPT ![c] = NoAnswer]
      /\ quiet' = [quiet EXCEPT ![c] = TRUE]
      /\ missing' = [missing EXCEPT ![c] = Lacking(asOf)]
      /\ UNCHANGED files
  BY DEF Begin
<1> HIDE DEF new
<1>4. GateTypeOK'
  BY <1>1, <1>2 DEF GateInv, GateTypeOK, files
<1>5. /\ run'[c] = new /\ answer'[c] = NoAnswer /\ missing'[c] = Lacking(asOf)
      /\ \A t \in Consignments \ {c} : /\ run'[t] = run[t] /\ answer'[t] = answer[t]
                                       /\ quiet'[t] = quiet[t] /\ missing'[t] = missing[t]
  BY <1>2 DEF GateInv, GateTypeOK
<1>6. QuietPassLacksOnlyNeverAsked'
  BY <1>5 DEF GateInv, QuietPassLacksOnlyNeverAsked, Passed
<1>7. Unanswered'
  BY <1>5 DEF GateInv, Unanswered, Running
<1>8. ASSUME NEW t \in Consignments \ {c}, Running(t)', quiet'[t]
      PROVE  Known(t)' /\ (run'[t].failed = {} => Found(t)')
  <2>1. Running(t) /\ quiet[t]
    BY <1>5, <1>8 DEF Running
  <2>2. Known(t) /\ (run[t].failed = {} => Found(t))
    BY <2>1 DEF GateInv, QuietRunsKnow
  <2>3. Known(t)' <=> Known(t)
    BY <1>2, <1>5, StillKnown
  <2>4. Found(t)' <=> Found(t)
    BY <1>2, <1>5, Undisturbed
  <2> QED
    BY <1>5, <2>2, <2>3, <2>4
<1>9. Known(c)'
  <2>1. run'[c].asOf = asOf
    BY <1>1, <1>5
  <2>2. Lacking(run[c].asOf)' = Lacking(asOf)
    BY <1>2, <2>1, NowAsBefore
  <2> QED
    BY <1>5, <2>2 DEF Known
<1>10. Found(c)'
  BY <1>1, <1>5 DEF Found, AfterRuleset, AfterBuyer, AfterPermit, AfterHeadroom,
    AfterLicence, AfterCoa, AfterFailedCoa, AfterRequirements, AtVerdict
<1>11. QuietRunsKnow'
  BY <1>8, <1>9, <1>10 DEF QuietRunsKnow
<1> QED
  BY <1>4, <1>6, <1>7, <1>11 DEF GateInv

LEMMA ConcludeStep ==
  ASSUME GateInv, NEW c \in Consignments, Conclude(c)
  PROVE  GateInv'
<1> DEFINE row == [outcome |-> IF run[c].failed = {} THEN "pass" ELSE "blocked",
                   failed |-> run[c].failed, ruleset |-> run[c].ruleset,
                   permit |-> run[c].permit, asOf |-> run[c].asOf]
<1>1. /\ run[c].stage = "verdict" /\ run' = [run EXCEPT ![c] = NoCall]
      /\ answer' = [answer EXCEPT ![c] = row]
      /\ UNCHANGED <<files, history, changes>>
  BY DEF Conclude
<1>2. row.outcome = "pass" => run[c].failed = {}
  OBVIOUS
<1> HIDE DEF row
<1>3. GateTypeOK'
  BY <1>1, IdleRow DEF GateInv, GateTypeOK, files, history
<1>4. /\ run'[c] = NoCall /\ answer'[c] = row
      /\ \A t \in Consignments \ {c} : run'[t] = run[t] /\ answer'[t] = answer[t]
      /\ UNCHANGED <<files, quiet, missing>>
  BY <1>1 DEF GateInv, GateTypeOK, history
<1>5. ASSUME row.outcome = "pass", quiet[c]
      PROVE  missing[c] \subseteq NeverAsked
  <2>1. Running(c)
    BY <1>1 DEF Running
  <2>2. Known(c) /\ Found(c)
    BY <1>2, <1>5, <2>1 DEF GateInv, QuietRunsKnow
  <2>3. Lacking(run[c].asOf) \subseteq NeverAsked
    BY <1>1, <2>2, FoundLacksNothingElse DEF GateInv
  <2> QED
    BY <2>2, <2>3 DEF Known
<1>6. QuietPassLacksOnlyNeverAsked'
  BY <1>4, <1>5 DEF GateInv, QuietPassLacksOnlyNeverAsked, Passed
<1>7. Unanswered'
  BY <1>4, IdleRow DEF GateInv, Unanswered, Running
<1>8. ASSUME NEW t \in Consignments, Running(t)', quiet'[t]
      PROVE  Known(t)' /\ (run'[t].failed = {} => Found(t)')
  <2>1. t # c /\ run'[t] = run[t]
    BY <1>4, <1>8, IdleRow DEF Running
  <2>2. Running(t) /\ quiet[t]
    BY <1>4, <1>8, <2>1 DEF Running
  <2>3. Known(t) /\ (run[t].failed = {} => Found(t))
    BY <2>2 DEF GateInv, QuietRunsKnow
  <2>4. Known(t)' <=> Known(t)
    BY <1>4, <2>1, StillKnown
  <2>5. Found(t)' <=> Found(t)
    BY <1>4, <2>1, Undisturbed
  <2> QED
    BY <2>1, <2>3, <2>4, <2>5
<1>9. QuietRunsKnow'
  BY <1>8 DEF QuietRunsKnow
<1> QED
  BY <1>3, <1>6, <1>7, <1>9 DEF GateInv

(* Others change a file: a call under way is no longer quiet, and what it   *)
(* has found may be true no more.                                           *)
LEMMA ChangedStep ==
  ASSUME GateInv, Changed, ruleset' \in Rulesets \cup {NoRuleset},
         screenings' \in ScreeningFiles
  PROVE  GateInv'
<1>1. /\ UNCHANGED <<run, answer, missing>>
      /\ quiet' = [c \in Consignments |-> quiet[c] /\ ~Running(c)]
  BY DEF Changed
<1>2. GateTypeOK'
  <2>1. quiet' \in [Consignments -> BOOLEAN]
    BY <1>1 DEF GateInv, GateTypeOK
  <2> QED
    BY <1>1, <2>1 DEF GateInv, GateTypeOK
<1>3. \A c \in Consignments :
        quiet'[c] => quiet[c] /\ ~Running(c)
  BY <1>1
<1>4. QuietRunsKnow'
  BY <1>1, <1>3 DEF QuietRunsKnow, Running
<1>5. Unanswered'
  BY <1>1 DEF GateInv, Unanswered, Running
<1>6. QuietPassLacksOnlyNeverAsked'
  BY <1>1, <1>3 DEF GateInv, QuietPassLacksOnlyNeverAsked, Passed
<1> QED
  BY <1>2, <1>4, <1>5, <1>6 DEF GateInv

LEMMA GateStep == GateInv /\ [GateNext]_gateVars => GateInv'
<1> SUFFICES ASSUME GateInv, [GateNext]_gateVars
             PROVE  GateInv'
  OBVIOUS
<1>1. CASE UNCHANGED gateVars
  <2>1. UNCHANGED <<files, run, answer, quiet, missing>>
    BY <1>1 DEF gateVars, history
  <2>2. ASSUME NEW c \in Consignments
        PROVE  (Known(c)' <=> Known(c)) /\ (Found(c)' <=> Found(c))
    BY <2>1, StillKnown, Undisturbed
  <2>3. GateTypeOK'
    BY <2>1 DEF GateInv, GateTypeOK, files
  <2>4. Unanswered' /\ QuietPassLacksOnlyNeverAsked'
    BY <2>1 DEF GateInv, Unanswered, Running, QuietPassLacksOnlyNeverAsked, Passed
  <2>5. QuietRunsKnow'
    BY <2>1, <2>2 DEF GateInv, QuietRunsKnow, Running
  <2> QED
    BY <2>3, <2>4, <2>5 DEF GateInv
<1>2. ASSUME NEW c \in Consignments, Abort(c)
      PROVE  GateInv'
  BY <1>2, IdleRow, OneSelect DEF Abort
<1>3. ASSUME ChangeRuleset \/ ChangeBuyer \/ ChangePermit \/ ChangeLicence
               \/ ChangeCoas \/ ChangeScreenings
      PROVE  GateInv'
  <2>1. /\ Changed /\ ruleset' \in Rulesets \cup {NoRuleset}
        /\ screenings' \in ScreeningFiles
    BY <1>3 DEF ChangeRuleset, ChangeBuyer, ChangePermit, ChangeLicence, ChangeCoas,
                ChangeScreenings, GateInv, GateTypeOK
  <2> QED
    BY <2>1, ChangedStep
<1> QED
  BY <1>1, <1>2, <1>3, BeginStep, ReadRulesetStep, ReadBuyerStep, ReadPermitStep,
     ReadHeadroomStep, ReadLicenceStep, ReadCoaStep, ReadFailedCoaStep, ReadAnalyteStep,
     ReadCeilingStep, ReadScreeningStep, ConcludeStep DEF GateNext

THEOREM GateInductive == GateSpec => []GateInv
<1>1. GateInit(Rulesets, [Permits -> PermitRows], CoaFiles, ScreeningFiles, 0) => GateInv
  BY IdleRow DEF GateInit, GateInv, GateTypeOK, QuietRunsKnow, Unanswered, Running,
                 QuietPassLacksOnlyNeverAsked, Passed
<1> QED
  BY <1>1, GateStep, PTL DEF GateSpec

(* 42:35-41, fail closed.  Whatever the files, the requirements and the     *)
(* dates, and however many calls run at once: a call during which no file   *)
(* changed answers pass only about a consignment that lacked nothing but    *)
(* what the function never asks for.                                        *)
THEOREM QuietPassIsTrue == GateSpec => []QuietPassLacksOnlyNeverAsked
BY GateInductive, PTL DEF GateInv

-----------------------------------------------------------------------------
(* Overrides and their signatures.                                         *)

(* Nobody whose name is on an override is removed, and a review is signed  *)
(* by somebody live who did not approve.                                   *)
LEMMA SignaturesStep == SignaturesSurvive /\ [OverridesNext]_overrideVars => SignaturesSurvive'
<1> SUFFICES ASSUME SignaturesSurvive, [OverridesNext]_overrideVars
             PROVE  SignaturesSurvive'
  OBVIOUS
<1> USE OverrideAssumption DEF SignaturesSurvive
<1>1. ASSUME NEW actor, NEW e \in Evaluation, RecordEvaluation(actor, e)
      PROVE  SignaturesSurvive'
  BY <1>1 DEF RecordEvaluation
<1>2. ASSUME NEW actor, NEW o \in Override, InsertOverride(actor, o)
      PROVE  SignaturesSurvive'
  <2>1. overrides' = overrides \cup {o} /\ profiles' = profiles
    BY <1>2 DEF InsertOverride
  <2>2. /\ o.approvedBy \in profiles
        /\ o.review.at # NoTime => o.review.by \in profiles \ {o.approvedBy}
    BY <1>2 DEF InsertOverride, ReviewAllowed
  <2> QED BY <2>1, <2>2
<1>3. ASSUME NEW o \in overrides, NEW review \in Stamp, Review(o, review)
      PROVE  SignaturesSurvive'
  <2> DEFINE stamped == [o EXCEPT !.review = review]
  <2>1. o \in Override
    OBVIOUS
  <2>2. /\ stamped \in Override
        /\ stamped.approvedBy = o.approvedBy /\ stamped.review = review
    BY <2>1 DEF Override
  <2>3. /\ overrides' = (overrides \ {o}) \cup {stamped}
        /\ profiles' = profiles /\ ReviewAllowed(stamped)
    BY <1>3 DEF Review
  <2> HIDE DEF stamped
  <2>4. /\ stamped.approvedBy \in profiles
        /\ stamped.review.at # NoTime =>
             stamped.review.by \in profiles \ {stamped.approvedBy}
    BY <2>2, <2>3 DEF ReviewAllowed
  <2> QED BY <2>2, <2>3, <2>4
<1>4. ASSUME NEW p \in Administrators, DeleteProfile(p)
      PROVE  SignaturesSurvive'
  BY <1>4 DEF DeleteProfile
<1>5. ASSUME NEW p \in Administrators, CreateProfile(p)
      PROVE  SignaturesSurvive'
  BY <1>5 DEF CreateProfile
<1>6. ASSUME UNCHANGED overrideVars
      PROVE  SignaturesSurvive'
  BY <1>6 DEF overrideVars
<1> QED BY <1>1, <1>2, <1>3, <1>4, <1>5, <1>6 DEF OverridesNext

(* 42:217, 238-252.  In every reachable state the approver of an override  *)
(* and a different reviewer, when it has one, are profiles that exist.     *)
THEOREM SignaturesAreLive == OverridesSpec => []SignaturesSurvive
<1>1. OverridesInit => SignaturesSurvive
  BY DEF OverridesInit, SignaturesSurvive
<1> QED
  BY <1>1, SignaturesStep, PTL DEF OverridesSpec
=============================================================================
