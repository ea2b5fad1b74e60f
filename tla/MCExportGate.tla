----------------------------- MODULE MCExportGate -----------------------------
(***************************************************************************)
(* The gate, its overrides and its rulesets for TLC, one at work in each   *)
(* scene.  Small files: one ruleset with every requirement and one with    *)
(* none, permits good, empty or expired, COAs and screenings of each kind  *)
(* the gate tells apart.                                                   *)
(***************************************************************************)
EXTENDS ExportGate, GateOverrides, DestinationRulesets, TLC

CONSTANTS p1, p2
VARIABLE scene \* which part is at work

exportVars == <<gateVars, overrideVars, rulesetVars, scene>>
ExportNext ==
    /\ scene' = scene
    /\ \/ scene = "gate" /\ GateNext /\ UNCHANGED <<overrideVars, rulesetVars>>
       \/ scene = "overrides" /\ OverridesNext /\ UNCHANGED <<gateVars, rulesetVars>>
       \/ scene = "rulesets" /\ RulesetsNext /\ UNCHANGED <<gateVars, overrideVars>>

---------------------------------------------------------------------------
(* The files.                                                              *)

MCContaminants == {"pesticides"}
StrictRules == [requiresPermit |-> TRUE, analytes |-> {"pesticides"}, ceiling |-> 1]
UnknownAnalyte == [requiresPermit |-> FALSE, analytes |-> {"terpenes"}, ceiling |-> NoCeiling]
OpenRules == [requiresPermit |-> FALSE, analytes |-> {}, ceiling |-> NoCeiling]
GateRules == {StrictRules, OpenRules}

PermitRow(state, issued, expires, headroom) ==
  [state |-> state, issuedOn |-> issued, expiresOn |-> expires, headroom |-> headroom]
Lapsed == PermitRow("active", 0, 0, 2)
EachPermitRow == {PermitRow("active", 0, 2, 2), PermitRow("active", 0, 3, 0),
                  Lapsed, PermitRow("active", 2, 3, 2)}
EachPermitPair == {p1 :> row @@ p2 :> Lapsed : row \in EachPermitRow} \cup
                  {p1 :> row @@ p2 :> PermitRow("active", 0, 2, 2) : row \in EachPermitRow}
FewPermitRows == {PermitRow("active", 0, 2, 2), PermitRow("active", 0, 3, 0),
                  PermitRow("revoked", 0, 2, 2)}

Coa(accepted, result, thc) ==
  [accepted |-> accepted, status |-> [k \in MCContaminants |-> result], thc |-> thc]
EachCoaFile == {{}, {Coa(TRUE, "pass", 1)}, {Coa(TRUE, "pass", 2)},
                {Coa(TRUE, "pass", NotMeasured)}, {Coa(TRUE, "not_tested", 1)},
                {Coa(FALSE, "pass", 1)},
                {Coa(TRUE, "pass", 1), Coa(FALSE, "fail", 1)}}
FewCoaFiles == {{Coa(TRUE, "pass", 1)}, {Coa(FALSE, "fail", 1)}}

Screened(at, until, result) == [at |-> at, until |-> until, result |-> result]
EachScreeningFile == {{}, {Screened(2, 2, "clear")}, {Screened(1, 0, "clear")},
                      {Screened(1, 2, "clear"), Screened(2, 2, "potential_match")},
                      {Screened(2, 2, "clear"), Screened(2, 2, "confirmed_match")},
                      {Screened(0, 2, "clear"), Screened(1, 0, "confirmed_match")}}
FewScreeningFiles == {{Screened(2, 2, "clear")},
                      {Screened(2, 2, "clear"), Screened(2, 2, "confirmed_match")}}

---------------------------------------------------------------------------
(* The scenes.                                                             *)

\* One call over each combination of files; nothing changes any more.
Verdict == GateInit({StrictRules, UnknownAnalyte, OpenRules}, EachPermitPair,
                    EachCoaFile, EachScreeningFile, MaxChanges)
           /\ buyer \in {"verified", "suspended"}
           /\ (buyer = "verified" \/ licensed)
\* A few files, and a change at any point of a call.
Interleaving == GateInit(GateRules, {p1 :> row @@ p2 :> Lapsed : row \in FewPermitRows},
                         FewCoaFiles, FewScreeningFiles, 0)
                /\ buyer = "verified" /\ licensed

\* The files while another part is at work.
NoGate == /\ GateInit({}, {p1 :> Lapsed @@ p2 :> Lapsed}, {{}}, {{}}, MaxChanges)
          /\ buyer = "absent" /\ ~licensed

ExportInit ==
    /\ OverridesInit /\ RulesetsInit
    /\ \/ scene = "gate" /\ (Verdict \/ Interleaving)
       \/ scene \in {"overrides", "rulesets"} /\ NoGate
\* Neither of the three is at work.
NoExport == OverridesInit /\ RulesetsInit /\ NoGate /\ scene = "none"
=============================================================================
