----------------------------- MODULE BuyerPacks -----------------------------
(***************************************************************************)
(* The screens that release the buyer pack of one batch, over PackTables:  *)
(* the pack page and the list of approved batches (DDPBuyerPreview), and   *)
(* the two pages that record overrides (DDPRiskRegister and                *)
(* DDPMissingDocuments), each administrator in a browser of their own.     *)
(*                                                                         *)
(* A page starts its reads when it opens; leaving it drops the reads but   *)
(* not a press under way, which runs to its end. Every press is a call     *)
(* that takes effect with its answer lost, or does not take effect.        *)
(* What a page shows of earlier snapshots and the browser's own lists of   *)
(* audit events and downloads decide nothing and are left out.             *)
(***************************************************************************)
EXTENDS PackTables, TLC

CONSTANTS Admins

VARIABLES srv,    \* the server's rows
          box,    \* the storage of each browser
          copy,   \* the batch's results as each session has loaded them
          page,   \* the page each administrator has open
          load,   \* the decision read that a page began when it opened
          job,    \* the press each administrator has under way
          left,   \* bounds: how often each thing may still happen
          setting,\* which pages are used, whose session has the farm, and
                  \* whether calls may fail
          seen,   \* history: checks that were clear since the page opened
          stood   \* history: what held on the server since a pack was pressed

packVars == <<srv, box, copy, page, load, job, left, setting, seen, stood>>

NoPage == [kind |-> "none", dec |-> Unresolved, ov |-> UnreadOverrides, due |-> FALSE,
           rules |-> "unread"]
NoLoad == [state |-> "none", up |-> FALSE, row |-> None]
NoJob == [kind |-> "none", stage |-> "none", val |-> None, here |-> FALSE]

Farm(a) == setting.farm[a]
Releases(k) == k \in {"pack", "list"}
Spend(what) == left[what] > 0 /\ left' = [left EXCEPT ![what] = @ - 1]
Up == IF setting.fails THEN BOOLEAN ELSE {TRUE}

Open(a) ==
    /\ page[a].kind = "none"
    /\ Spend("open")
    /\ \E k \in setting.pages[a] :
           /\ page' = [page EXCEPT ![a] = [NoPage EXCEPT !.kind = k, !.due = TRUE]]
           /\ load' = [load EXCEPT ![a] = IF Releases(k) THEN [NoLoad EXCEPT !.state = "sent"]
                                          ELSE NoLoad]
    /\ UNCHANGED <<srv, box, copy, job, setting>>

Leave(a) ==
    /\ page[a].kind # "none" /\ left.open > 0
    /\ page' = [page EXCEPT ![a] = NoPage]
    /\ load' = [load EXCEPT ![a] = NoLoad]
    /\ job' = [job EXCEPT ![a].here = FALSE]
    /\ UNCHANGED <<srv, box, copy, left, setting>>

\* The inventory is loaded again; the page asks for the overrides of what it
\* now shows and keeps the ones it has until they arrive.
Refresh(a) ==
    /\ copy[a] # srv.lab
    /\ copy' = [copy EXCEPT ![a] = srv.lab]
    /\ page' = [page EXCEPT ![a].due = page[a].kind # "none"]
    /\ UNCHANGED <<srv, box, load, job, left, setting>>

---------------------------------------------------------------------------
(* Reads.                                                                  *)

LoadRead(a) ==
    /\ load[a].state = "sent"
    /\ \E ans \in Answered(srv, "decisions", Current(srv.log)) :
           /\ ans.up \in Up
           /\ load' = [load EXCEPT ![a] = [state |-> "read", up |-> ans.up, row |-> ans.row]]
    /\ UNCHANGED <<srv, box, copy, page, job, left, setting>>

\* The list reads many decisions at once and writes none through.
LoadArrive(a) ==
    /\ load[a].state = "read"
    /\ page' = [page EXCEPT ![a].dec = ResolveDecision(load[a], Current(box[a].log))]
    /\ box' = [box EXCEPT ![a] = IF page[a].kind = "pack" THEN WriteThrough(load[a], @) ELSE @]
    /\ load' = [load EXCEPT ![a] = NoLoad]
    /\ UNCHANGED <<srv, copy, job, left, setting>>

ReadOverrides(a) ==
    /\ page[a].due
    /\ \E up \in Up :
           page' = [page EXCEPT ![a].due = FALSE,
                                ![a].ov = ResolveOverrides(up, srv, box[a], copy[a], Farm(a))]
    /\ UNCHANGED <<srv, box, copy, load, job, left, setting>>

ReadRules(a) ==
    /\ Releases(page[a].kind) /\ page[a].rules = "unread"
    /\ \E up \in Up :
           page' = [page EXCEPT ![a].rules = RulesAnswer(up, srv)]
    /\ UNCHANGED <<srv, box, copy, load, job, left, setting>>

---------------------------------------------------------------------------
(* Recording a decision or an override.                                    *)

Press(a, kind, val) ==
    /\ job[a].kind = "none"
    /\ job' = [job EXCEPT ![a] = [kind |-> kind, stage |-> "sent", val |-> val, here |-> TRUE]]
    /\ UNCHANGED <<srv, box, copy, page, load, setting>>

\* The reason is part of the press; the form waits for no read.
PressDecide(a) ==
    /\ page[a].kind = "pack" /\ Spend("decide")
    /\ \E d \in Decisions : Press(a, "decide", d)

\* Both override pages stay shut until the overrides were read.
RegisterOffers(a) == page[a].kind = "register" /\ page[a].ov.state = "read" /\ copy[a] # "clean"
MatrixOffers(a) == page[a].kind = "matrix" /\ page[a].ov.state = "read" /\ Farm(a)

PressRisk(a) ==
    /\ RegisterOffers(a) /\ Spend("override")
    /\ \E s \in RiskStatuses \ {IF RiskOpen(page[a], copy[a]) THEN "open" ELSE "resolved"} :
           Press(a, "risk", [id |-> RiskId(copy[a]), of |-> copy[a], status |-> s])

PressRequirement(a) ==
    /\ MatrixOffers(a) /\ Spend("override")
    /\ \E e \in Evidence : Press(a, "req", e)

\* What a store, the server's or the browser's, holds once a press is recorded.
Recorded(store, j) ==
    CASE j.kind = "decide" -> [store EXCEPT !.log = Append(@, j.val)]
      [] j.kind = "risk" -> [store EXCEPT !.risks = Append(@, j.val)]
      [] j.kind = "req" -> [store EXCEPT !.req = j.val]
Cached(mine, j) == IF j.kind = "decide" THEN [mine EXCEPT !.log = <<j.val>>] ELSE Recorded(mine, j)
TableOf(j) == IF j.kind = "decide" THEN "decisions" ELSE "overrides"

\* The pack page reads the decision again also after a refusal; the other two
\* show the error and keep what they have.
AfterError(j) == IF j.kind = "decide" THEN [j EXCEPT !.stage = "reread"] ELSE NoJob

Insert(a) ==
    /\ job[a].stage = "sent" /\ job[a].kind \in {"decide", "risk", "req"}
    /\ \/ /\ TableOf(job[a]) \in srv.tables
          /\ srv' = Recorded(srv, job[a])
          /\ job' = [job EXCEPT ![a].stage = "stored"]
          /\ box' = box
       \/ /\ TableOf(job[a]) \notin srv.tables
          /\ box' = [box EXCEPT ![a] = Cached(@, job[a])]
          /\ job' = [job EXCEPT ![a].stage = "reread"]
          /\ srv' = srv
       \/ /\ FALSE \in Up
          /\ job' = [job EXCEPT ![a] = AfterError(@)]
          /\ UNCHANGED <<srv, box>>
    /\ UNCHANGED <<copy, page, load, left, setting>>

Replied(a) ==
    /\ job[a].stage = "stored"
    /\ \/ /\ box' = [box EXCEPT ![a] = Cached(@, job[a])]
          /\ job' = [job EXCEPT ![a].stage = "reread"]
       \/ /\ FALSE \in Up
          /\ job' = [job EXCEPT ![a] = AfterError(@)]
          /\ box' = box
    /\ UNCHANGED <<srv, copy, page, load, left, setting>>

Reread(a) ==
    /\ job[a].stage = "reread"
    /\ \E up \in Up :
           IF job[a].kind = "decide"
           THEN \E ans \in Answered(srv, "decisions", Current(srv.log)) :
                    /\ ans.up = up
                    /\ page' = IF job[a].here
                               THEN [page EXCEPT ![a].dec = ResolveDecision(ans, Current(box[a].log))]
                               ELSE page
                    /\ box' = [box EXCEPT ![a] = WriteThrough(ans, @)]
           ELSE /\ page' = IF job[a].here
                           THEN [page EXCEPT ![a].ov = ResolveOverrides(up, srv, box[a], copy[a], Farm(a))]
                           ELSE page
                /\ box' = box
    /\ job' = [job EXCEPT ![a] = NoJob]
    /\ UNCHANGED <<srv, copy, load, left, setting>>

---------------------------------------------------------------------------
(* Issuing: the page reads the newest snapshot, then calls the server,     *)
(* whose function reads the trail, then the batch, and inserts under the   *)
(* pack's lock. Without the tables the pack is kept in the browser.        *)

Approved(a) == HumanApproved(page[a], copy[a], Farm(a))

\* Copying and printing wait for the approval alone; the list shows a batch
\* once all three reads settled and none was unavailable.
PackLetsOut(a) == page[a].kind = "pack" /\ Approved(a)
Listed(a) == page[a].kind = "list" /\ page[a].dec.source \notin {"unread", "unavailable"}
                 /\ Approved(a)
CanEmitOutput(a) == PackLetsOut(a) \/ Listed(a)

\* The button waits for the approval, the handler checks what it was drawn with.
PressIssue(a) ==
    /\ PackLetsOut(a) /\ Eligible(page[a], copy[a], Farm(a)) /\ Spend("issue")
    /\ Press(a, "issue", page[a].dec.val)

IssueRead(a) ==
    /\ job[a].kind = "issue" /\ job[a].stage = "sent"
    /\ \/ job' = [job EXCEPT ![a].stage = "call"]
       \/ FALSE \in Up /\ job' = [job EXCEPT ![a] = NoJob]
    /\ UNCHANGED <<srv, box, copy, page, load, left, setting>>

PacksMissing == "packs" \notin srv.tables

SaveInBrowser(a) ==
    /\ job[a].stage = "call" /\ PacksMissing
    /\ box' = [box EXCEPT ![a].packs = Append(@, NextSnapshot(@, a, stood[a]))]
    /\ job' = [job EXCEPT ![a] = NoJob]
    /\ UNCHANGED <<srv, copy, page, load, left, setting>>

GateOnDecision(a) ==
    /\ job[a].stage = "call" /\ ~PacksMissing
    /\ \/ GateDecision(srv, job[a].val) /\ job' = [job EXCEPT ![a].stage = "decided"]
       \/ ~GateDecision(srv, job[a].val) /\ job' = [job EXCEPT ![a] = NoJob]
       \/ FALSE \in Up /\ job' = [job EXCEPT ![a] = NoJob]
    /\ UNCHANGED <<srv, box, copy, page, load, left, setting>>

GateOnResults(a) ==
    /\ job[a].stage = "decided"
    /\ job' = [job EXCEPT ![a] = IF GateResults(srv, copy[a])
                                 THEN [@ EXCEPT !.stage = "checked"] ELSE NoJob]
    /\ UNCHANGED <<srv, box, copy, page, load, left, setting>>

\* The answer may be lost: the page then tells a failure and offers the button
\* again, and a second press is a second version.
Commit(a) ==
    /\ job[a].stage = "checked"
    /\ srv' = [srv EXCEPT !.packs = Append(@, NextSnapshot(@, a, stood[a]))]
    /\ job' = [job EXCEPT ![a] = NoJob]
    /\ UNCHANGED <<box, copy, page, load, left, setting>>

---------------------------------------------------------------------------
(* What others do: a new laboratory result, a rule or an alert that        *)
(* changes, a migration that is applied.                                   *)

NewResult ==
    /\ Spend("result")
    /\ \E r \in Results \ {srv.lab} : srv' = [srv EXCEPT !.lab = r]
    /\ UNCHANGED <<box, copy, page, load, job, setting>>

RuleChanges ==
    /\ Spend("rule")
    /\ \/ \E s \in {"draft", "in force"} \ {srv.rule} : srv' = [srv EXCEPT !.rule = s]
       \/ \E s \in {"open", "resolved"} \ {srv.alert} : srv' = [srv EXCEPT !.alert = s]
    /\ UNCHANGED <<box, copy, page, load, job, setting>>

\* The issuing function of today reads the trail, whose table comes first.
Migrate ==
    /\ \E t \in Tables \ srv.tables :
           /\ t = "packs" => "decisions" \in srv.tables
           /\ srv' = [srv EXCEPT !.tables = @ \cup {t}]
    /\ UNCHANGED <<box, copy, page, load, job, left, setting>>

---------------------------------------------------------------------------
(* History.                                                                *)

\* Which checks the records would clear at this moment, for a browser.
NewestRow(rows, of) ==
    LET mine == SelectSeq(rows, LAMBDA r : r.of = of)
    IN IF mine = <<>> THEN None ELSE Last(mine).status

ClearNow(s, mine, of, farm) ==
    LET row(t, x) == IF t \in s.tables THEN x ELSE None
        first(x, y) == IF x # None THEN x ELSE y
    IN {c \in {"decision", "risk", "req", "rules"} :
          CASE c = "decision" ->
                   first(row("decisions", Current(s.log)), Current(mine.log)) = "progress"
            [] c = "risk" ->
                   \/ of = "clean"
                   \/ first(row("overrides", NewestRow(s.risks, of)),
                            NewestRow(mine.risks, of)) = "resolved"
            [] c = "req" -> farm => first(row("overrides", s.req), mine.req) # "rejected"
            [] c = "rules" -> ~RuleBlocks(s)}

Standing(s) == {c \in {"progress", "clean"} :
                    IF c = "progress" THEN Current(s.log) = "progress" ELSE s.lab = "clean"}

Witnessed ==
    /\ seen' = [a \in Admins |->
           IF ~Releases(page'[a].kind) THEN {}
           ELSE ClearNow(srv', box'[a], copy'[a], Farm(a)) \cup
                IF ~Releases(page[a].kind) THEN {}
                ELSE IF copy'[a] # copy[a] THEN seen[a] \ {"risk"} ELSE seen[a]]
    /\ stood' = [a \in Admins |->
           IF job'[a].kind # "issue" THEN {}
           ELSE Standing(srv') \cup IF job[a].kind = "issue" THEN stood[a] ELSE {}]

Step ==
    \/ \E a \in Admins :
          \/ Open(a) \/ Leave(a) \/ Refresh(a)
          \/ LoadRead(a) \/ LoadArrive(a) \/ ReadOverrides(a) \/ ReadRules(a)
          \/ PressDecide(a) \/ PressRisk(a) \/ PressRequirement(a)
          \/ Insert(a) \/ Replied(a) \/ Reread(a)
          \/ PressIssue(a) \/ IssueRead(a) \/ SaveInBrowser(a)
          \/ GateOnDecision(a) \/ GateOnResults(a) \/ Commit(a)
    \/ NewResult \/ RuleChanges \/ Migrate
PacksStep == Step /\ Witnessed

\* s, b and c are what earlier use left behind, p the pages that are open, which
\* read what is on record now.
PacksInit(s, b, c, p, l, e) ==
    /\ srv = s /\ box = b /\ copy = c /\ left = l /\ setting = e
    /\ page = p
    /\ load = [a \in Admins |-> NoLoad]
    /\ job = [a \in Admins |-> NoJob]
    /\ seen = [a \in Admins |-> IF Releases(p[a].kind) THEN ClearNow(s, b[a], c[a], e.farm[a])
                                 ELSE {}]
    /\ stood = [a \in Admins |-> {}]

---------------------------------------------------------------------------
(* Properties.                                                             *)

\* A snapshot on the server rests on what the server held while it was being
\* issued: since the button was pressed the newest decision was "progress" and
\* the batch had no failed result, however old the page that pressed it.
IssuedOnStandingDecision ==
    \A i \in DOMAIN srv.packs : srv.packs[i].basis = {"progress", "clean"}

\* A page lets a pack out (copy, print, issue, list) only if since it opened
\* the records had a moment at which the decision was "progress", a moment at
\* which no rule in force blocked and, when the session has the farm, one at
\* which its evidence was not rejected: a read that is missing, fails or comes
\* late never opens it.
OutputWasCleared ==
    \A a \in Admins : CanEmitOutput(a) =>
        {"decision", "rules"} \cup (IF Farm(a) THEN {"req"} ELSE {}) \subseteq seen[a]

=============================================================================
