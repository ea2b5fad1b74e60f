----------------------------- MODULE PackTables -----------------------------
(***************************************************************************)
(* What decides whether the buyer pack of one batch may go out, and where  *)
(* it is kept: the append-only server tables of decisions, overrides and   *)
(* snapshots, the blocking rule alert and the laboratory results on the    *)
(* server, and the copies in the storage of each administrator's browser   *)
(* (procurementDecisionStore, procurementOverrideStore, procurementControl,*)
(* complianceRuleEnforcement, the two snapshot stores).                    *)
(*                                                                         *)
(* The migrations that create the tables are applied in an order of their  *)
(* own, so every store asks per call whether its table is there and keeps  *)
(* to the browser when it is missing. A call that is refused or lost is    *)
(* not a missing table.                                                    *)
(***************************************************************************)
EXTENDS Naturals, SequencesExt

CONSTANTS None, Decisions, Failures

ASSUME TablesAssumption ==
    /\ "progress" \in Decisions /\ None \notin Decisions
    /\ "clean" \notin Failures

\* One failed result is one content of the risk; status and evidence values
\* stand for those that clear or block and those that do not.
Results == {"clean"} \cup Failures
RiskStatuses == {"open", "resolved"}
Evidence == {"reviewed", "rejected"}
Tables == {"decisions", "packs", "overrides"}

\* The id of a risk is bound to its content: another failure, another id.
RiskId(of) == <<"risk-batch", of>>

NoStore == [log |-> <<>>, risks |-> <<>>, req |-> None, packs |-> <<>>]

\* The newest override row of an id, None without one (DISTINCT ON ... DESC).
Newest(rows, id) ==
    LET mine == SelectSeq(rows, LAMBDA r : r.id = id)
    IN IF mine = <<>> THEN None ELSE Last(mine).status
Current(log) == IF log = <<>> THEN None ELSE Last(log)

\* A read answers with the server's rows, says that its table is missing, or
\* fails; only the first two may be completed from the browser.
Answered(srv, table, value) ==
    {[up |-> FALSE, row |-> None],
     [up |-> TRUE, row |-> IF table \in srv.tables THEN value ELSE None]}

Unresolved == [source |-> "unread", val |-> None]
Unavailable == [source |-> "unavailable", val |-> None]

\* The server's row wins; the browser's entry stands only in its absence.
ResolveDecision(answer, cached) ==
    IF ~answer.up THEN Unavailable
    ELSE IF answer.row # None THEN [source |-> "server", val |-> answer.row]
    ELSE IF cached # None THEN [source |-> "local-cache", val |-> cached]
    ELSE [source |-> "none", val |-> None]

\* A decision read from the server is written through to the browser.
WriteThrough(answer, mine) ==
    IF answer.up /\ answer.row # None THEN [mine EXCEPT !.log = <<answer.row>>] ELSE mine

UnreadOverrides == [state |-> "unread", id |-> None, risk |-> None, req |-> None]
UnavailableOverrides == [UnreadOverrides EXCEPT !.state = "unavailable"]

\* Only ids that the screen derived are asked for, and nothing is asked of the
\* server when there are none: no open risk and no farm.
NothingToAsk(of, farm) == of = "clean" /\ ~farm
ResolveOverrides(up, srv, mine, of, farm) ==
    IF ~up /\ ~NothingToAsk(of, farm) THEN UnavailableOverrides
    ELSE LET there == "overrides" \in srv.tables
             first(x, y) == IF there /\ x # None THEN x ELSE y
         IN [state |-> "read", id |-> RiskId(of),
             risk |-> IF of = "clean" THEN None
                      ELSE first(Newest(srv.risks, RiskId(of)), Newest(mine.risks, RiskId(of))),
             req |-> IF farm THEN first(srv.req, mine.req) ELSE None]

\* An alert blocks while it is unresolved and its rule is approved and in force.
RuleBlocks(srv) == srv.rule = "in force" /\ srv.alert = "open"
RulesAnswer(up, srv) ==
    IF ~up THEN "unavailable" ELSE IF RuleBlocks(srv) THEN "blocked" ELSE "clear"

\* What a screen with these reads and this copy of the batch lets out: a
\* recorded "progress" and no blocker, and nothing that could not be read.
OverridesUnverified(p) == p.ov.state # "read"
\* Mutant: rules that were not read yet do not block.
RulesUnverified_OnceRead(p) == p.rules = "unavailable"
RulesUnverified(p) == p.rules \in {"unread", "unavailable"}
RiskOpen(p, of) ==
    /\ of # "clean"
    /\ ~(p.ov.id = RiskId(of) /\ p.ov.risk = "resolved")
RequirementBlocks(p, farm) == farm /\ p.ov.req = "rejected"

HasBlockingIssues(p, of, farm) ==
    \/ OverridesUnverified(p)
    \/ RulesUnverified(p)
    \/ RiskOpen(p, of)
    \/ RequirementBlocks(p, farm)
    \/ p.rules = "blocked"

\* An unavailable read resolves to no decision at all.
ProgressRecorded(p) == p.dec.val = "progress"
HumanApproved(p, of, farm) == ~HasBlockingIssues(p, of, farm) /\ ProgressRecorded(p)

\* What a snapshot may be made of: an approval, resting on a "progress".
Eligible(p, of, farm) == HumanApproved(p, of, farm) /\ p.dec.val = "progress"

\* Mutant: the caller's decision is believed.
GateDecision_Claimed(srv, claimed) == claimed = "progress"

\* The release gate of issue_buyer_pack_snapshot: the newest row of the trail,
\* then the batch's own results, whatever the caller claims.
GateDecision(srv, claimed) == Current(srv.log) = "progress"
GateResults(srv, claimed) == srv.lab = "clean"

\* One more than the newest, which the server reads under the pack's lock.
NextSnapshot(packs, by, basis) ==
    [version |-> Len(packs) + 1, prev |-> Len(packs), by |-> by, basis |-> basis]
=============================================================================
