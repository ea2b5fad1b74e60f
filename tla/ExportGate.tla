------------------------------ MODULE ExportGate ------------------------------
(***************************************************************************)
(* evaluate_export_eligibility of 42_EXPORT_ELIGIBILITY_GATE_HARDENING.    *)
(*                                                                         *)
(* The function is VOLATILE and runs under READ COMMITTED: every SELECT in *)
(* it sees what is committed when that SELECT starts.  One action is one   *)
(* SELECT, in the order of the code, and administrators, reviewers and the *)
(* permit ledger change the files it reads in between.  A call concerns    *)
(* one market and regime, one buyer, one exporter and at most one batch,   *)
(* so the files below are the rows of those.                               *)
(***************************************************************************)
EXTENDS Naturals, FiniteSets

CONSTANTS Consignments,   \* consignment_ref: the calls that may run at once
          Rulesets,       \* bound: what destination_rulesets may change to
          Contaminants,   \* the *_status columns of a COA
          Permits,        \* import permits of the buyer for the market
          PermitRows,     \* bound: the rows a permit may change to
          CoaFiles,       \* bound: the sets of COAs the batch may come to have
          ScreeningFiles, \* bound: the screening checks the buyer may come to have
          Dates,          \* bound: p_as_of
          Kilograms,      \* p_quantity_kg
          MaxChanges,     \* bound: changes to the files in a behaviour
          NoRuleset, NoPermit, NoAnswer, NotMeasured, NoCeiling

ASSUME FilesAssumption ==
  /\ Dates \subseteq Nat
  /\ ScreeningFiles \subseteq SUBSET [at : Nat, until : Nat, result : STRING]

VARIABLES
  ruleset,     \* the row destination_ruleset_in_force returns, or NoRuleset
  buyer,       \* verification_state, or "absent" when there is no such buyer
  permits,     \* permits[p]: state, issuedOn, expiresOn, headroom
  licensed,    \* some export licence of the exporter is valid
  coas,        \* farmer_documents of type coa of the batch
  screenings,  \* screening_checks of the buyer
  run,         \* run[c]: the local variables of the call about c
  answer,      \* answer[c]: the evaluation row the last call about c recorded
  quiet,       \* history: no file changed while the call about c ran
  missing,     \* history: what the consignment lacked when the call began
  changes      \* how often the files changed

files == <<ruleset, buyer, permits, licensed, coas, screenings>>
history == <<quiet, missing>>
gateVars == <<files, run, answer, history, changes>>

BuyerStates == {"absent", "unverified", "verified", "suspended"}
-----------------------------------------------------------------------------
(* What the function asks of the files.                                    *)

permit_is_valid(p, asOf) ==
  permits[p].state = "active" /\ asOf \in permits[p].issuedOn .. permits[p].expiresOn

(* ORDER BY expires_on DESC LIMIT 1; a tie may fall either way. *)
LatestPermits(asOf) ==
  LET valid == {p \in Permits : permit_is_valid(p, asOf)}
  IN IF valid = {} THEN {NoPermit}
     ELSE {p \in valid : \A q \in valid : permits[q].expiresOn <= permits[p].expiresOn}

HasFail(coa) == \E k \in Contaminants : coa.status[k] = "fail"
Accepted == {coa \in coas : coa.accepted}
CleanAccepted == \E coa \in Accepted : ~HasFail(coa)
AnyFail == \E coa \in coas : HasFail(coa)

(* An analyte that is no column of a COA is never covered. *)
Covered(a) == a \in Contaminants /\ \E coa \in Accepted : coa.status[a] = "pass"

(* max(total_thc) over the accepted COAs, which must exist. *)
WithinCeiling(limit) ==
  LET measured == {coa.thc : coa \in Accepted} \ {NotMeasured}
  IN limit = NoCeiling \/ (measured # {} /\ \A x \in measured : x <= limit)

DayOf(instant) == instant \div 2   \* bound: two instants a day

(* The screenings still in date, the most recent first, and among equal    *)
(* times those that are not clear first.                                   *)
screening_is_clear(asOf) ==
  LET dated == {x \in screenings : x.until >= asOf /\ DayOf(x.at) <= asOf}
      last == {x \in dated : \A y \in dated : y.at <= x.at}
  IN last # {} /\ \A x \in last : x.result = "clear"

NeedsPermit(rules) == rules = NoRuleset \/ rules.requiresPermit
-----------------------------------------------------------------------------
(* The reference: what a consignment may lack, at one instant.             *)

(* Some result in date is clear, and none that is not came with it or later. *)
ScreenedClear(asOf) ==
  LET inDate == {x \in screenings : asOf \in DayOf(x.at) .. x.until}
  IN \E x \in inDate : /\ x.result = "clear"
                       /\ \A y \in inDate : y.result = "clear" \/ y.at < x.at

(* The most recent screening, in date or lapsed, is clear and in date. *)
LastScreeningIsClear(asOf) ==
  LET made == {x \in screenings : DayOf(x.at) <= asOf}
      last == {x \in made : \A y \in made : y.at <= x.at}
  IN /\ \A x \in last : x.result = "clear"
     /\ \E x \in last : x.until >= asOf

PermitWithRoom(asOf) ==
  \E p \in Permits : permit_is_valid(p, asOf) /\ permits[p].headroom >= Kilograms

Releasable ==
  /\ \E coa \in coas : coa.accepted
  /\ \A coa \in coas, k \in Contaminants : coa.status[k] # "fail"

AllEvidenced(analytes) ==
  \A a \in analytes :
    a \in Contaminants /\ \E coa \in coas : coa.accepted /\ coa.status[a] = "pass"

CeilingKept(limit) ==
  /\ \E coa \in coas : coa.accepted /\ coa.thc # NotMeasured
  /\ \A coa \in coas : coa.accepted /\ coa.thc # NotMeasured => coa.thc <= limit

Unless(holds, name) == IF holds THEN {} ELSE {name}

LackingOfMarket(asOf) ==
  IF ruleset = NoRuleset THEN {"destination_ruleset_resolved"}
  ELSE Unless(ruleset.requiresPermit => PermitWithRoom(asOf), "permit_with_room")
       \cup Unless(ruleset.analytes # {}, "analytes_recorded")
       \cup Unless(AllEvidenced(ruleset.analytes), "analytes_evidenced")
       \cup Unless(ruleset.ceiling # NoCeiling => CeilingKept(ruleset.ceiling), "ceiling_kept")

Lacking(asOf) ==
  LackingOfMarket(asOf)
  \cup Unless(buyer = "verified", "buyer_verified")
  \cup Unless(licensed, "exporter_licence_valid")
  \cup Unless(Releasable, "batch_releasable")
  \cup Unless(ScreenedClear(asOf), "screening_clear")
  \cup Unless(LastScreeningIsClear(asOf), "last_screening_clear")
-----------------------------------------------------------------------------
NoCall == [stage |-> "idle", asOf |-> 0, batch |-> FALSE, failed |-> {},
           ruleset |-> NoRuleset, permit |-> NoPermit, left |-> {}]

(* The files when the first call begins, and how often they changed before. *)
GateInit(rules, rows, papers, checks, changed) ==
  /\ ruleset \in rules \cup {NoRuleset}
  /\ buyer \in BuyerStates
  /\ permits \in rows
  /\ licensed \in BOOLEAN
  /\ coas \in papers
  /\ screenings \in checks
  /\ run = [c \in Consignments |-> NoCall]
  /\ answer = [c \in Consignments |-> NoAnswer]
  /\ quiet = [c \in Consignments |-> TRUE]
  /\ missing = [c \in Consignments |-> {}]
  /\ changes = changed

(* The call; batch says whether p_inventory_batch_id names one. *)
Begin(c, asOf, batch) ==
  /\ run[c].stage = "idle"
  /\ run' = [run EXCEPT ![c] = [NoCall EXCEPT !.stage = "ruleset", !.asOf = asOf,
                                              !.batch = batch]]
  /\ answer' = [answer EXCEPT ![c] = NoAnswer]
  /\ quiet' = [quiet EXCEPT ![c] = TRUE]
  /\ missing' = [missing EXCEPT ![c] = Lacking(asOf)]
  /\ UNCHANGED <<files, changes>>

(* A condition that does not hold leaves a blocking reason. *)
Judged(r, condition, holds, next) ==
  [r EXCEPT !.stage = next, !.failed = IF holds THEN @ ELSE @ \cup {condition}]

Reading(c, stage, next) ==
  /\ run[c].stage = stage
  /\ run' = [run EXCEPT ![c] = next]
  /\ UNCHANGED <<files, answer, history, changes>>

ReadRuleset(c) ==
  Reading(c, "ruleset",
    [Judged(run[c], "destination_ruleset_resolved", ruleset # NoRuleset, "buyer")
       EXCEPT !.ruleset = ruleset,
              !.left = IF ruleset = NoRuleset THEN {} ELSE ruleset.analytes])

ReadBuyer(c) ==
  Reading(c, "buyer",
    Judged(run[c], "buyer_verified", buyer = "verified", "permit"))

ReadPermit(c) ==
  \E p \in LatestPermits(run[c].asOf) :
    Reading(c, "permit",
      [Judged(run[c], "buyer_import_permit_valid",
              ~NeedsPermit(run[c].ruleset) \/ p # NoPermit, "headroom")
         EXCEPT !.permit = p])

(* The headroom of the permit chosen one SELECT earlier. *)
ReadHeadroom(c) ==
  LET r == run[c]
  IN Reading(c, "headroom",
       Judged(r, "permit_headroom_sufficient",
              \/ ~NeedsPermit(r.ruleset)
              \/ r.permit # NoPermit /\ permits[r.permit].headroom >= Kilograms,
              "licence"))

ReadLicence(c) ==
  Reading(c, "licence",
    Judged(run[c], "exporter_licence_valid", licensed, "coa"))

(* Without a batch, or without an accepted clean COA, the answer is known; *)
(* otherwise a second SELECT looks for a failed result anywhere.           *)
ReadCoa(c) ==
  Reading(c, "coa",
    IF run[c].batch /\ CleanAccepted
    THEN [run[c] EXCEPT !.stage = "failedCoa"]
    ELSE Judged(run[c], "batch_releasable", FALSE, "requirements"))

ReadFailedCoa_AcceptedOnly(c) ==
  Reading(c, "failedCoa",
    Judged(run[c], "batch_releasable", ~ \E coa \in Accepted : HasFail(coa),
           "requirements"))

ReadFailedCoa(c) ==
  Reading(c, "failedCoa",
    Judged(run[c], "batch_releasable", ~AnyFail, "requirements"))

(* FOREACH required analyte, one SELECT each. *)
ReadAnalyte(c) ==
  /\ run[c].batch
  /\ \E a \in run[c].left :
       Reading(c, "requirements",
         [Judged(run[c], "ruleset_requirements_met", Covered(a), "requirements")
            EXCEPT !.left = @ \ {a}])

(* Then the THC ceiling.  Without a batch nothing may be required. *)
ReadCeiling(c) ==
  LET r == run[c]
      rules == r.ruleset
  IN /\ r.batch => r.left = {}
     /\ Reading(c, "requirements",
          Judged(r, "ruleset_requirements_met",
                 /\ rules # NoRuleset
                 /\ IF r.batch THEN WithinCeiling(rules.ceiling)
                    ELSE rules.analytes = {} /\ rules.ceiling = NoCeiling,
                 "screening"))

ReadScreening(c) ==
  Reading(c, "screening",
    Judged(run[c], "screening_clear", screening_is_clear(run[c].asOf), "verdict"))

(* The evaluation row, its audit row, and the commit of both. *)
Conclude(c) ==
  /\ run[c].stage = "verdict"
  /\ answer' = [answer EXCEPT ![c] =
                 [outcome |-> IF run[c].failed = {} THEN "pass" ELSE "blocked",
                  failed |-> run[c].failed, ruleset |-> run[c].ruleset,
                  permit |-> run[c].permit, asOf |-> run[c].asOf]]
  /\ run' = [run EXCEPT ![c] = NoCall]
  /\ UNCHANGED <<files, history, changes>>

(* A dropped connection rolls the call back; nothing is recorded. *)
Abort(c) ==
  /\ run[c].stage # "idle"
  /\ run' = [run EXCEPT ![c] = NoCall]
  /\ UNCHANGED <<files, answer, history, changes>>
-----------------------------------------------------------------------------
(* What others commit meanwhile: any change of one file.                   *)

Running(c) == run[c].stage # "idle"

Changed ==
  /\ changes < MaxChanges
  /\ changes' = changes + 1
  /\ quiet' = [c \in Consignments |-> quiet[c] /\ ~Running(c)]
  /\ UNCHANGED <<run, answer, missing>>

ChangeRuleset ==
  /\ \E x \in Rulesets \cup {NoRuleset} : ruleset' = x
  /\ UNCHANGED <<buyer, permits, licensed, coas, screenings>>
  /\ Changed

ChangeBuyer ==
  /\ \E x \in BuyerStates : buyer' = x
  /\ UNCHANGED <<ruleset, permits, licensed, coas, screenings>>
  /\ Changed

ChangePermit ==
  /\ \E p \in Permits, x \in PermitRows : permits' = [permits EXCEPT ![p] = x]
  /\ UNCHANGED <<ruleset, buyer, licensed, coas, screenings>>
  /\ Changed

ChangeLicence ==
  /\ licensed' = ~licensed
  /\ UNCHANGED <<ruleset, buyer, permits, coas, screenings>>
  /\ Changed

ChangeCoas ==
  /\ \E x \in CoaFiles : coas' = x
  /\ UNCHANGED <<ruleset, buyer, permits, licensed, screenings>>
  /\ Changed

ChangeScreenings ==
  /\ \E x \in ScreeningFiles : screenings' = x
  /\ UNCHANGED <<ruleset, buyer, permits, licensed, coas>>
  /\ Changed

GateNext ==
  \/ \E c \in Consignments :
       \/ \E asOf \in Dates, batch \in BOOLEAN : Begin(c, asOf, batch)
       \/ ReadRuleset(c) \/ ReadBuyer(c) \/ ReadPermit(c) \/ ReadHeadroom(c)
       \/ ReadLicence(c) \/ ReadCoa(c) \/ ReadFailedCoa(c) \/ ReadAnalyte(c)
       \/ ReadCeiling(c) \/ ReadScreening(c) \/ Conclude(c) \/ Abort(c)
  \/ ChangeRuleset \/ ChangeBuyer \/ ChangePermit
  \/ ChangeLicence \/ ChangeCoas \/ ChangeScreenings

GateSpec ==
  /\ GateInit(Rulesets, [Permits -> PermitRows], CoaFiles, ScreeningFiles, 0)
  /\ [][GateNext]_gateVars
-----------------------------------------------------------------------------
(* Properties.                                                             *)

Passed(c) == answer[c] # NoAnswer /\ answer[c].outcome = "pass"

(* What no SELECT of the function asks, though comments of the migrations   *)
(* do: an empty required_analytes "the gate treats as unresolved rather    *)
(* than as satisfied" (41:112-116), "most recent screening wins" (42:409), *)
(* where a lapsed one is dropped before the most recent is taken (42:423). *)
NeverAsked == {"analytes_recorded", "last_screening_clear"}

(* 42:35-41, fail closed.  When nothing changes under the call, a pass     *)
(* means that the consignment lacked nothing but what is never asked: no   *)
(* absent, expired, unaccepted or unmeasured record was turned into        *)
(* permission on the way.                                                  *)
QuietPassLacksOnlyNeverAsked ==
  \A c \in Consignments : Passed(c) /\ quiet[c] => missing[c] \subseteq NeverAsked

=============================================================================
