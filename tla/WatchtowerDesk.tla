--------------------------- MODULE WatchtowerDesk ---------------------------
(***************************************************************************)
(* The watchtower page of an administrator with the database behind it:    *)
(* intake and drafting of legal updates, decisions on their reviews, the   *)
(* rules and the alerts. A button starts a handler that makes one call     *)
(* after another, sets the lists of the page from those it was drawn with, *)
(* and writes the audit entry last. Three busy flags allow three handlers  *)
(* of one page at a time; two pages know nothing of each other. A call may *)
(* be refused, or take effect and have its answer lost.                    *)
(*                                                                         *)
(* A row of any table is [of, status, by]: what it belongs to (an update   *)
(* to a source, a review and a rule to an update, an alert to a rule; 0 if *)
(* to none), its status, and who is named in it.                           *)
(***************************************************************************)
EXTENDS Naturals, Sequences, FiniteSets, TLC

CONSTANTS Admins,
          Items,     \* the changed entries of the feed result on the pages
          SourceOf,  \* the source each entry is from
          Decisions, \* the decisions that are taken on a review
          Nil

VARIABLES db,      \* the tables, each a sequence of rows
          page,    \* what each administrator's page holds
          job,     \* the handler that each busy flag of a page is up for
          spare,   \* bounds: how often each thing may still happen
          told,    \* history: what the handlers said in the end
          lapses,  \* history: who took which rule out of force, and heard that it was done
          outdated    \* history: the alerts that name a rule not in force when the button was pressed

deskVars == <<db, page, job, spare, told, lapses, outdated>>

Flags == {"busy", "monitoringBusy", "rssDraftBusy"}
Lists == {"updates", "reviews", "rules", "alerts"}
Row(of, status, by) == [of |-> of, status |-> status, by |-> by]
Spend(what) == spare[what] > 0 /\ spare' = [spare EXCEPT ![what] = @ - 1]

NoJob == [calls |-> <<>>, subject |-> Nil, about |-> 0, item |-> Nil, made |-> {}, view |-> <<>>, law |-> {}]
EmptyLists == [t \in Lists |-> <<>>]
ClosedPage == [open |-> FALSE, load |-> Nil, lists |-> EmptyLists, drafted |-> {}, pasted |-> FALSE]

---------------------------------------------------------------------------
(* The tables.                                                             *)

InForce(rule) == rule.status \in {"approved", "active"}
RulesInForce(d) == {r \in DOMAIN d.rules : InForce(d.rules[r])}

\* The tier of the source that a rule traces to, 0 if it traces to none.
TierOf(d, rule) ==
    IF rule.of = 0 \/ d.updates[rule.of].of = 0 THEN 0 ELSE d.sources[d.updates[rule.of].of].status

\* A call writes row id of a table, or a new row if id is 0.
Call(table, id, row) == [table |-> table, id |-> id, row |-> row]
Trail(table, action, a) == Call("trail", 0, Row(table, action, a))

InsertLegalUpdate(source) == Call("updates", 0, Row(source, "new", Nil))
UpdateLegalUpdateStatus(u, status) == Call("updates", u, Row(0, status, Nil))
InsertReview == Call("reviews", 0, Row(0, "pending", Nil))
UpdateReview(n, status, a) == Call("reviews", n, Row(0, status, a))
InsertRule(u, status, a) == Call("rules", 0, Row(u, status, a))
\* Who puts a rule in force is named in it.
UpdateRule(r, status, a) == Call("rules", r, Row(0, status, IF InForce(Row(0, status, a)) THEN a ELSE Nil))
InsertAlert(rule, status) == Call("alerts", 0, Row(rule, status, Nil))
UpdateAlert(n, status) == Call("alerts", n, Row(0, status, Nil))

\* The row a call writes: a patch keeps what it does not name.
Resolved(d, j, c) ==
    IF c.id # 0
    THEN [d[c.table][c.id] EXCEPT !.status = c.row.status, !.by = IF c.row.by = Nil THEN @ ELSE c.row.by]
    ELSE CASE c.table = "trail" -> [c.row EXCEPT !.of = <<@, j.about>>]
           [] c.table = "reviews" -> [c.row EXCEPT !.of = j.about]
           [] OTHER -> c.row

\* One rule per legal update; none in force that traces to a signal source.
Permitted(d, c, row) ==
    c.table = "rules" =>
        /\ c.id = 0 => \A r \in DOMAIN d.rules : d.rules[r].of # row.of
        /\ InForce(row) => TierOf(d, row) # 3

RowId(d, c) == IF c.id = 0 THEN Len(d[c.table]) + 1 ELSE c.id
Written(d, c, row) ==
    IF c.id = 0 THEN [d EXCEPT ![c.table] = Append(@, row)] ELSE [d EXCEPT ![c.table][c.id] = row]

---------------------------------------------------------------------------
(* A handler.                                                              *)

\* It keeps the lists it was drawn with, writes about one row of a table (0: the
\* first that it inserts), and has calls left to make. For the properties it also
\* keeps the rules that were in force when its button was pressed.
Running(a, flag) == job[a][flag].calls # <<>>
Press(a, flag, subject, about, item, lists, calls) ==
    /\ page[a].open /\ ~Running(a, flag) /\ Spend(subject)
    /\ job' = [job EXCEPT ![a][flag] = [calls |-> calls, subject |-> subject, about |-> about, item |-> item,
                   made |-> {}, view |-> [t \in lists |-> page[a].lists[t]], law |-> RulesInForce(db)]]
    /\ UNCHANGED <<db, page, told, lapses, outdated>>

\* The lists that it sets: those it was drawn with, and the rows it wrote.
Redrawn(j, t) ==
    LET wrote == {m \in j.made : m.table = t} IN
    [n \in DOMAIN j.view[t] \cup {m.id : m \in wrote} |->
        IF \E m \in wrote : m.id = n THEN (CHOOSE m \in wrote : m.id = n).row ELSE j.view[t][n]]

\* Mutant: the audit entry is written on the side.
Result_AuditAside(heard, c) == IF heard \/ c.table = "trail" THEN "saved" ELSE "failed"

Result(heard, c) == IF heard THEN "saved" ELSE "failed"

\* One call answers. The lists are set when only the audit entry is left to write.
Outcomes == {"done", "refused", "lost"}
Answer(a, flag) ==
    /\ Running(a, flag)
    /\ \E f \in Outcomes :
        LET j == job[a][flag]
            c == Head(j.calls)
            row == Resolved(db, j, c)
            ok == f # "refused" /\ Permitted(db, c, row)
            heard == ok /\ f = "done"
            next == [j EXCEPT !.calls = Tail(@), !.about = IF @ = 0 THEN RowId(db, c) ELSE @,
                              !.made = @ \cup {[table |-> c.table, id |-> RowId(db, c), row |-> row]}]
            over == ~heard \/ next.calls = <<>>
            result == Result(heard, c)
            draw == heard /\ Len(next.calls) = 1 /\ Head(next.calls).table = "trail"
        IN /\ IF f = "done" THEN spare' = spare ELSE Spend("fault")
           /\ db' = IF ok THEN Written(db, c, row) ELSE db
           /\ lapses' = lapses \cup [rule : RulesInForce(db) \ RulesInForce(db'), by : {a}, heard : {heard}]
           /\ outdated' = IF ok /\ c.table = "alerts" /\ c.id = 0 /\ row.of \notin j.law \cup {0}
                       THEN outdated \cup {[by |-> a, rule |-> row.of, status |-> row.status]} ELSE outdated
           /\ job' = [job EXCEPT ![a][flag] = IF over THEN NoJob ELSE next]
           /\ told' = IF over THEN told \cup {[by |-> a, subject |-> j.subject, about |-> next.about, result |-> result]}
                       ELSE told
           /\ page' = [page EXCEPT
                  ![a].lists = IF draw THEN [t \in Lists |-> IF t \in DOMAIN j.view THEN Redrawn(next, t) ELSE @[t]]
                               ELSE @,
                  ![a].drafted = IF over /\ result = "saved" /\ j.item # Nil THEN @ \cup {j.item} ELSE @,
                  ![a].pasted = IF over /\ result = "saved" /\ flag = "monitoringBusy" THEN FALSE ELSE @]

---------------------------------------------------------------------------
(* The buttons.                                                            *)

NewUpdate(source, a) ==
    <<InsertLegalUpdate(source), InsertReview, Trail("updates", "legal_update_created", a)>>

SubmitLegalUpdate(a) == Press(a, "busy", "updates", 0, Nil, {"updates", "reviews"}, NewUpdate(0, a))

\* A decision stands on the page until a draft of it was created.
DraftFromPasted(a) ==
    /\ page[a].pasted
    /\ \E i \in Items : Press(a, "monitoringBusy", "updates", 0, Nil, {"updates", "reviews"}, NewUpdate(SourceOf[i], a))

DecideDraftCreation(a, i) == ~Running(a, "rssDraftBusy") /\ i \notin page[a].drafted

DraftFromFeed(a) ==
    \E i \in Items :
        /\ DecideDraftCreation(a, i)
        /\ Press(a, "rssDraftBusy", "updates", 0, i, {"updates", "reviews"}, NewUpdate(SourceOf[i], a))

\* What a decision makes of the review and of the update it is about.
ReviewStatusFor(d) ==
    CASE d = "send_to_legal" -> "sent_to_legal" [] d = "reject" -> "rejected" [] d = "archive" -> "archived"
      [] OTHER -> "reviewed"
UpdateStatusFor(d) ==
    CASE d = "send_to_legal" -> "sent_to_legal" [] d = "reject" -> "rejected" [] d = "archive" -> "archived"
      [] d \in {"create_rule", "approve_rule"} -> "rule_suggested" [] OTHER -> "reviewed"

\* The rule of a decision: suggested, or in force at once under the name of the one who decides.
RuleOf(u, d, a) ==
    CASE d = "create_rule" -> <<InsertRule(u, "suggested", Nil)>>
      [] d = "approve_rule" -> <<InsertRule(u, "active", a)>>
      [] OTHER -> <<>>

AuditedAs(d, related) ==
    CASE d = "send_to_legal" -> "sent_to_legal_review" [] d = "archive" -> "legal_update_archived"
      [] d = "approve_rule" /\ related -> "rule_approved" [] d = "create_rule" /\ related -> "rule_suggested"
      [] OTHER -> "legal_update_reviewed"

UpdateReviewDecision(a, d) ==
    \E n \in DOMAIN page[a].lists.reviews :
        LET u == page[a].lists.reviews[n].of
            related == u \in DOMAIN page[a].lists.updates
        IN Press(a, "busy", "reviews", n, Nil, {"updates", "reviews", "rules"},
                 <<UpdateReview(n, ReviewStatusFor(d), a)>>
                 \o (IF related THEN <<UpdateLegalUpdateStatus(u, UpdateStatusFor(d))>> \o RuleOf(u, d, a) ELSE <<>>)
                 \o <<Trail("reviews", AuditedAs(d, related), a)>>)

UpdateRuleStatus(a) ==
    \E r \in DOMAIN page[a].lists.rules, s \in {"active", "paused", "retired", "rejected"} :
        Press(a, "busy", "rules", r, Nil, {"rules"},
              <<UpdateRule(r, s, a), Trail("rules", s, a)>>)

\* Mutant: the alert names whatever rule was chosen.
SubmitManualAlert_AnyRule(a) ==
    \E r \in DOMAIN page[a].lists.rules \cup {0} :
        Press(a, "busy", "alerts", 0, Nil, {"alerts"},
              <<InsertAlert(r, "open"), Trail("alerts", "alert_created", a)>>)

\* The alert names the chosen rule only if the page has it in force.
SubmitManualAlert(a) ==
    \E r \in DOMAIN page[a].lists.rules \cup {0} :
        LET linked == IF r # 0 /\ InForce(page[a].lists.rules[r]) THEN r ELSE 0 IN
        Press(a, "busy", "alerts", 0, Nil, {"alerts"},
              <<InsertAlert(linked, "open"), Trail("alerts", "alert_created", a)>>)

\* The page derives an alert from each rule of its own that it has in force.
DerivedAlerts(a) == {r \in DOMAIN page[a].lists.rules : page[a].lists.rules[r].of = 0 /\ InForce(page[a].lists.rules[r])}

\* A derived alert becomes a row of its own when its status is set.
UpdateAlertStatus(a) ==
    \E s \in {"in_review", "resolved"} :
        \/ \E n \in DOMAIN page[a].lists.alerts :
              Press(a, "busy", "alerts", n, Nil, {"alerts"},
                    <<UpdateAlert(n, s), Trail("alerts", s, a)>>)
        \/ \E r \in DerivedAlerts(a) :
              Press(a, "busy", "alerts", 0, Nil, {"alerts"},
                    <<InsertAlert(r, s), Trail("alerts", s, a)>>)

\* A source is given another tier; no audit entry is written.
SubmitRegulatorySource(a) ==
    \E n \in DOMAIN db.sources, tier \in {1, 3} :
        Press(a, "busy", "sources", n, Nil, {}, <<Call("sources", n, Row(0, tier, Nil))>>)

---------------------------------------------------------------------------
(* The page.                                                               *)

\* The lists are read once, when the page opens, and may arrive after the first press.
OpenPage(a) ==
    /\ ~page[a].open /\ Spend("open")
    /\ page' = [page EXCEPT ![a].open = TRUE, ![a].load = [t \in Lists |-> db[t]]]
    /\ UNCHANGED <<db, job, told, lapses, outdated>>

LoadArrives(a) ==
    /\ page[a].open /\ page[a].load # Nil
    /\ \/ page' = [page EXCEPT ![a].lists = page[a].load, ![a].load = Nil] /\ spare' = spare
       \/ page' = [page EXCEPT ![a].load = Nil] /\ Spend("fault")
    /\ UNCHANGED <<db, job, told, lapses, outdated>>

\* The tab is closed: no call follows the one under way.
ClosePage(a) ==
    /\ page[a].open /\ Spend("close")
    /\ page' = [page EXCEPT ![a] = ClosedPage]
    /\ job' = [job EXCEPT ![a] = [flag \in Flags |-> NoJob]]
    /\ UNCHANGED <<db, told, lapses, outdated>>

DeskInit(tables, pages, budget) ==
    /\ db = tables /\ page = pages /\ spare = budget
    /\ job = [a \in Admins |-> [flag \in Flags |-> NoJob]]
    /\ told = {} /\ lapses = {} /\ outdated = {}

Desk(a) ==
    \/ \E flag \in Flags : Answer(a, flag)
    \/ SubmitLegalUpdate(a) \/ DraftFromPasted(a) \/ DraftFromFeed(a)
    \/ \E d \in Decisions : UpdateReviewDecision(a, d)
    \/ UpdateRuleStatus(a) \/ SubmitManualAlert(a) \/ UpdateAlertStatus(a) \/ SubmitRegulatorySource(a)
    \/ OpenPage(a) \/ LoadArrives(a) \/ ClosePage(a)
DeskNext == \E a \in Admins : Desk(a)

---------------------------------------------------------------------------
(* Properties.                                                             *)

\* What a page said was saved has its audit entry, under the name of the
\* administrator who pressed the button, although calls fail on the way and
\* three handlers of a page overlap (DDPComplianceWatchtower.tsx:1194, 1202).
SavedMeansAudited ==
    \A t \in told : t.result = "saved" /\ t.subject # "sources" =>
        \E n \in DOMAIN db.trail : db.trail[n].of = <<t.subject, t.about>> /\ db.trail[n].by = t.by

\* An alert that names a rule which was not in force when its button was pressed
\* names one that went out of force unseen by that page: another administrator
\* took it out, or the answer was lost. What the page was told it had taken out of
\* force itself it links no more, although three of its handlers overwrite its
\* lists and the lists it opened with may arrive late (DDPComplianceWatchtower.tsx:1342).
LapsedLinkWasUnseen ==
    \A l \in outdated : \E x \in lapses : x.rule = l.rule /\ (x.by # l.by \/ ~x.heard)

\* "a rule that was paused/retired/rejected between opening the dropdown and
\* clicking submit can never be linked" (DDPComplianceWatchtower.tsx:1339-1341):
\* an alert entered by hand names no rule that was out of force at the click.
PausedRuleIsNeverLinked == \A l \in outdated : l.status # "open"

=============================================================================
