------------------------------ MODULE AiDrafts ------------------------------
(***************************************************************************)
(* An AI draft summary of a legal update, from the button on the review    *)
(* queue to the panel that shows it. The page sends what its own list      *)
(* holds; the function reads the update again from the table and passes    *)
(* that to the provider; what the provider writes goes through the guards  *)
(* on the server and, its wording, once more in the browser. Meanwhile     *)
(* updates are decided and calls fail. Who may call, and how often, is in  *)
(* WatchtowerEndpoints.                                                    *)
(*                                                                         *)
(* A text is a sequence of tokens: a claim ("compliant", "approved"), a    *)
(* negation, a filler, a condition ("if", "must"), any other word, and the *)
(* end of a clause. A citation is a name on record or a quotation.         *)
(***************************************************************************)
EXTENDS Naturals, SequencesExt

CONSTANTS Reviewers,
          Recorded,      \* per update: the name, address and title on record
          Quoted,        \* per update: the passages of its evidence long enough to be found, with their sentences
          Replies,       \* what the provider may answer
          MaxScopeTokens, MaxReferences,
          Permission,    \* whether Cannamonitor has given its written permission
          Absent

\* A text that joins texts is a text.
IsText(s) == Len(s) \in Nat /\ DOMAIN s = 1..Len(s)
ASSUME DraftsAssumption ==
    \A reply \in Replies : reply.http = "ok" /\ reply.form \in {"object", "fenced object"} =>
        /\ IsText(reply.sections.summary) /\ IsText(FlattenSeq(reply.sections.questions))
        /\ IsText(reply.sections.citations)

VARIABLES onRecord, \* the legal updates on the server
          desk,    \* the review queue of each reviewer
          request, \* the call under way from each
          reached, \* history: the update as it was read for this call
          left     \* bounds: how often each thing may still happen

draftVars == <<onRecord, desk, request, reached, left>>

Updates == DOMAIN Recorded
NoRequest == [step |-> "idle", of |-> Absent, answer |-> Absent]
Consume(what) == left[what] > 0 /\ left' = [left EXCEPT ![what] = @ - 1]
Failed(code) == [ok |-> FALSE, code |-> code]

---------------------------------------------------------------------------
(* Whose content it is. An address is [parses, host, https, plain]; host   *)
(* is on the approved list, another of Cannamonitor's, or somebody else's, *)
(* and plain is an address with no credentials and no port.                *)

IsCannamonitorSourceUrl(url) == url.host \in {"approved", "subdomain"}

EvaluateCannamonitorPolicy(url, active) ==
    IF ~IsCannamonitorSourceUrl(url) THEN "allowed"
    ELSE IF ~url.parses THEN "malformed_url"
    ELSE IF url.host # "approved" THEN "unapproved_host"
    ELSE IF ~url.https THEN "not_https"
    ELSE IF ~url.plain THEN "credentials_or_port"
    ELSE IF Permission # "verified" THEN "permission_unverified"
    ELSE IF ~active THEN "source_inactive" ELSE "allowed"

\* The gate knows the address only, so that no source counts as active.
AiGateBlocked(url) == EvaluateCannamonitorPolicy(url, FALSE) # "allowed"

---------------------------------------------------------------------------
(* The wording guard.                                                      *)

\* The places before i, back to the end of the clause before it.
Clause(text, i) == {j \in 1..(i - 1) : \A k \in j..(i - 1) : text[k] # "stop"}

\* The negations between the claim and the nearest word of content.
Negations(text, i) ==
    {j \in Clause(text, i) : /\ text[j] = "no" /\ j + MaxScopeTokens >= i
                             /\ \A k \in j..(i - 1) : text[k] \in {"filler", "no"}}

\* A condition anywhere in the clause, or an odd number of negations.
IsNegatedContext(text, i) ==
    \/ \E j \in Clause(text, i) : text[j] = "if"
    \/ Cardinality(Negations(text, i)) % 2 = 1

GuardAiDraftedText(text) == \A i \in DOMAIN text : text[i] = "claim" => IsNegatedContext(text, i)

\* Each field on its own; the questions are one field.
GuardAiDraftedFields(sections) ==
    GuardAiDraftedText(sections.summary) /\ GuardAiDraftedText(FlattenSeq(sections.questions))

---------------------------------------------------------------------------
(* The reference guard.                                                    *)

\* What is shown of a citation: the name on record, or the whole sentence that it quotes.
Display(u, citation) ==
    IF citation \in Recorded[u] THEN citation
    ELSE IF citation \in DOMAIN Quoted[u] THEN Quoted[u][citation] ELSE Absent

VerifyReference(u, sofar, citation) ==
    LET shown == Display(u, citation)
    IN IF citation \in sofar.seen \/ Len(sofar.verified) >= MaxReferences \/ shown = Absent \/ shown \in sofar.seen
       THEN [verified |-> sofar.verified, seen |-> sofar.seen, dropped |-> sofar.dropped + 1]
       ELSE [verified |-> Append(sofar.verified, shown), seen |-> sofar.seen \cup {citation, shown},
             dropped |-> sofar.dropped]

VerifySourceReferences(u, citations) ==
    LET after[n \in 0..Len(citations)] ==
            IF n = 0 THEN [verified |-> <<>>, seen |-> {}, dropped |-> 0]
            ELSE VerifyReference(u, after[n - 1], citations[n])
    IN after[Len(citations)]

---------------------------------------------------------------------------
(* One request, in the browser or on the server.                           *)

\* The first reason not to ask.
Guard(row) ==
    IF AiGateBlocked(row.url) THEN "cannamonitor_permission_unverified"
    ELSE IF row.status # "new" THEN "unsupported_status"
    ELSE IF row.evidence = "blank" THEN "missing_evidence"
    ELSE IF row.evidence = "oversized" THEN "oversized_evidence" ELSE "allow"

\* What is not an object of the five sections is null to the caller.
ParseModelJson(reply) == IF reply.form \in {"object", "fenced object"} THEN reply.sections ELSE Absent
IsSectionsShape(sections) == sections # Absent

\* Neither layer passes on what the wording guard stopped.
Screened(sections) ==
    IF ~IsSectionsShape(sections) THEN "malformed_output"
    ELSE IF sections.summary = <<>> THEN "empty_output"
    ELSE IF ~GuardAiDraftedFields(sections) THEN "unsafe_output" ELSE "ok"

\* A configuration that the provider does not accept is told from one that is busy.
ProviderFailure(http) ==
    CASE http = "aborted" -> "provider_timeout"
      [] http = "rejected" -> "provider_rejected"
      [] OTHER -> "provider_error"

GenerateAiDraftSummary(u, reply) ==
    IF reply.http # "ok" THEN Failed(ProviderFailure(reply.http))
    ELSE LET sections == ParseModelJson(reply)
             checked == Screened(sections)
             refs == VerifySourceReferences(u, sections.citations)
         IN IF checked # "ok" THEN Failed(checked)
            ELSE [ok |-> TRUE, sections |-> sections, references |-> refs.verified, dropped |-> refs.dropped]

\* Only what was stopped before the provider is answered with a status below 500.
ResultStatus(code) ==
    CASE code \in {"provider_error", "malformed_output", "empty_output", "unsafe_output"} -> 502
      [] code \in {"server_misconfigured", "throttle_unavailable", "provider_unconfigured", "provider_rejected"} -> 503
      [] code = "provider_timeout" -> 504
      [] code = "unauthenticated" -> 401
      [] code \in {"forbidden", "cannamonitor_permission_unverified"} -> 403
      [] code \in {"oversized_request", "oversized_evidence"} -> 413
      [] code = "unsupported_status" -> 422
      [] code = "rate_limited" -> 429
      [] OTHER -> 400

\* The browser goes by the status of the answer; a draft is screened once more
\* and keeps the count of the server.
Received(answer) ==
    IF ~answer.ok
    THEN Failed(IF ResultStatus(answer.code) \in 400..499 THEN "request_invalid" ELSE "provider_error")
    ELSE IF Screened(answer.sections) # "ok" THEN Failed(Screened(answer.sections)) ELSE answer

---------------------------------------------------------------------------
(* The page.                                                               *)

Panel(r, busy, told, draft, wanted) ==
    desk' = [desk EXCEPT ![r] = [rows |-> desk[r].rows, busy |-> busy, told |-> told,
                                 draft |-> draft, wanted |-> wanted]]
Waits(r, step, u, answer) ==
    request' = [request EXCEPT ![r] = [step |-> step, of |-> u, answer |-> answer]]

EvaluateAiSummaryEligibility(r, u) == ~desk[r].busy /\ Guard(desk[r].rows[u]) = "allow"

Generate(r, u) ==
    /\ desk[r].rows[u].status = "new" /\ EvaluateAiSummaryEligibility(r, u) /\ Consume("generate")
    /\ Panel(r, TRUE, Absent, Absent, u) /\ Waits(r, "sent", u, Absent)
    /\ reached' = [reached EXCEPT ![r] = Absent]
    /\ UNCHANGED onRecord

\* The panel shows a draft as long as the page has its update as new.
ShownDraft(r) ==
    /\ desk[r].draft # Absent /\ desk[r].rows[desk[r].draft.of].status = "new"

HandleDiscardAiDraft(r) ==
    /\ ShownDraft(r) /\ Consume("discard")
    /\ Panel(r, desk[r].busy, Absent, Absent, Absent)
    /\ UNCHANGED <<onRecord, request, reached>>

\* What came of it, unless it is no longer the update that is waited for.
Conclude(r, outcome) ==
    LET u == request[r].of
        kept == outcome.ok /\ desk[r].wanted = u
        draft == [of |-> u, sections |-> outcome.sections, references |-> outcome.references,
                  dropped |-> outcome.dropped]
    IN /\ IF kept THEN Panel(r, FALSE, Absent, draft, desk[r].wanted)
          ELSE Panel(r, FALSE, IF outcome.ok THEN "stale_selection" ELSE outcome.code, Absent, desk[r].wanted)
       /\ request' = [request EXCEPT ![r] = NoRequest]

Receive(r) ==
    /\ request[r].step = "answered"
    /\ Conclude(r, Received(request[r].answer))
    /\ UNCHANGED <<onRecord, reached, left>>

\* The call fails on its way there or back.
NetworkFails(r) ==
    /\ request[r].step # "idle" /\ Consume("fault")
    /\ Conclude(r, Failed("provider_error"))
    /\ UNCHANGED <<onRecord, reached>>

---------------------------------------------------------------------------
(* The function.                                                           *)

AnswerWith(r, answer) == Waits(r, "answered", request[r].of, answer)

\* The body is the page's row; a title that the table takes may be too long for it.
ValidateAiSummaryBody(row) ==
    IF row.evidence = "oversized" THEN "oversized_request"
    ELSE IF row.longTitle THEN "invalid_field"
    ELSE IF ~row.url.parses THEN "invalid_url"
    ELSE IF row.evidence = "blank" THEN "missing_evidence" ELSE "ok"

\* The token, the role, the body, the ceiling, in this order.
Admit(r) ==
    /\ request[r].step = "sent"
    /\ LET problem == ValidateAiSummaryBody(desk[r].rows[request[r].of]) IN
       \/ /\ problem = "ok" /\ Waits(r, "admitted", request[r].of, Absent) /\ left' = left
       \/ problem # "ok" /\ AnswerWith(r, Failed(problem)) /\ left' = left
       \/ \E code \in {"server_misconfigured", "unauthenticated", "forbidden"} : AnswerWith(r, Failed(code)) /\ Consume("fault")
       \/ /\ problem = "ok" /\ Consume("fault")
          /\ \E code \in {"throttle_unavailable", "rate_limited"} : AnswerWith(r, Failed(code))
    /\ UNCHANGED <<onRecord, desk, reached>>

\* Mutant: the provider is asked about what the browser sent.
GetLegalUpdate_AsSent(r) == desk[r].rows[request[r].of]

GetLegalUpdate(r) == onRecord[request[r].of]

ReadStored(r) ==
    /\ request[r].step = "admitted"
    /\ LET row == GetLegalUpdate(r) IN
       \/ /\ Guard(row) = "allow" /\ left' = left
          /\ Waits(r, "asking", request[r].of, Absent)
          /\ reached' = [reached EXCEPT ![r] = onRecord[request[r].of]]
       \/ Guard(row) # "allow" /\ AnswerWith(r, Failed(Guard(row))) /\ UNCHANGED <<left, reached>>
       \/ /\ Consume("fault") /\ reached' = reached
          /\ \E code \in {"missing_update", "provider_unconfigured"} : AnswerWith(r, Failed(code))
    /\ UNCHANGED <<onRecord, desk>>

DraftSummary(r) ==
    /\ request[r].step = "asking"
    /\ \E reply \in Replies : AnswerWith(r, GenerateAiDraftSummary(request[r].of, reply))
    /\ UNCHANGED <<onRecord, desk, reached, left>>

---------------------------------------------------------------------------
(* The world around.                                                       *)

\* A review decides an update; only the page that did has it so.
DecidedRow(row) == [row EXCEPT !.status = "reviewed"]
DecideUpdate(r, u) ==
    /\ onRecord[u].status = "new" /\ desk[r].rows[u].status = "new" /\ Consume("decide")
    /\ onRecord' = [onRecord EXCEPT ![u] = DecidedRow(onRecord[u])]
    /\ desk' = [desk EXCEPT ![r] = [desk[r] EXCEPT !.rows = [desk[r].rows EXCEPT ![u] = DecidedRow(desk[r].rows[u])]]]
    /\ UNCHANGED <<request, reached>>

NewDesk(rows) == [rows |-> rows, busy |-> FALSE, told |-> Absent, draft |-> Absent, wanted |-> Absent]

DraftsInit(rows, budget) ==
    /\ onRecord = rows /\ left = budget
    /\ desk = [r \in Reviewers |-> NewDesk(rows)]
    /\ request = [r \in Reviewers |-> NoRequest] /\ reached = [r \in Reviewers |-> Absent]

DraftsNext ==
    \E r \in Reviewers :
        \/ HandleDiscardAiDraft(r) \/ Receive(r) \/ NetworkFails(r) \/ Admit(r) \/ ReadStored(r) \/ DraftSummary(r)
        \/ \E u \in Updates : Generate(r, u) \/ DecideUpdate(r, u)

---------------------------------------------------------------------------
(* Properties.                                                             *)

\* Everything before the claim, back to the end of the clause before it.
Denied(text, i) ==
    \E j \in 1..(i - 1) : text[j] \in {"no", "if"} /\ \A k \in j..i : text[k] # "stop"

\* A draft is shown only under the update it is about, which was new and not
\* Cannamonitor's when the server read it; no claim in it goes without a denial
\* or a condition in its own clause; each reference is on record or in the
\* evidence of that update, none twice; and those shown and those said to be
\* dropped are all that the provider cited (aiSourceReferenceGuard.ts:157,
\* complianceAiSummarisation.ts:273-308, serverAiSummary.ts:459-490).
ShownDraftIsGuarded ==
    \A r \in Reviewers : ShownDraft(r) =>
        LET d == desk[r].draft
            asserted == {d.sections.summary, FlattenSeq(d.sections.questions)}
            found == reached[r]
        IN /\ found.status = "new" /\ found.evidence = "some" /\ found.url.host = "other"
           /\ \A text \in asserted : \A i \in DOMAIN text : text[i] = "claim" => Denied(text, i)
           /\ \A n \in DOMAIN d.references :
                 d.references[n] \in Recorded[d.of] \cup {Quoted[d.of][q] : q \in DOMAIN Quoted[d.of]}
           /\ Cardinality(ToSet(d.references)) = Len(d.references)
           /\ Len(d.references) + d.dropped = Len(d.sections.citations)

=============================================================================
