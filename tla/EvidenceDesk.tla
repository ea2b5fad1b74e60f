---------------------------- MODULE EvidenceDesk ----------------------------
(***************************************************************************)
(* The evidence review screen of several administrators                    *)
(* (DDPEvidenceReview): two loads that arrive apart, an open and a         *)
(* decision in flight, and the gate the screen shares with the database.   *)
(***************************************************************************)
EXTENDS BatchDesk

CONSTANT Home   \* the farm the documents belong to

VARIABLES desk,    \* what each reviewer's screen holds
          acts,    \* opens and decisions in flight
          warned   \* decisions whose reviewer was shown an error
                   \* or closed the page before their answer

evidenceVars == <<desk, acts, warned>>

NoDocs == [d \in Coas |-> "none"]
NoDesk == [due |-> {"docs", "opens"}, docs |-> NoDocs, opened |-> {}, sel |-> None,
           busy |-> None]

ListedDocs(k) == {d \in Coas : k.docs[d] # "none"}
Queue(k) == {d \in Coas : k.docs[d] \in {"pending", "awaiting_clarification"}}

\* A selection that is listed, else the head of the queue, else any document.
Selected(k) ==
    IF k.sel \in ListedDocs(k) THEN k.sel
    ELSE IF Queue(k) # {} THEN CHOOSE d \in Queue(k) : TRUE
    ELSE IF ListedDocs(k) # {} THEN CHOOSE d \in ListedDocs(k) : TRUE
    ELSE None

\* What the screen asks for before a judgement, beside a written reason.
resolveEvidenceGate(k) == k.busy # Selected(k) /\ Selected(k) \in k.opened

OnScreen(a) == page[a] = "evidence" /\ Selected(desk[a]) # None

\* The register arrives, or cannot be read and nothing is shown.
LoadDocs(a) ==
    /\ "docs" \in desk[a].due
    /\ \E ok \in BOOLEAN :
           desk' = [desk EXCEPT ![a].due = @ \ {"docs"},
                       ![a].docs = IF ok THEN [d \in Coas |-> db.register[d].status]
                                         ELSE NoDocs]
    /\ UNCHANGED <<db, pressed, page, acts, warned>>

\* Every administrator may read every open, so the answer names the documents
\* somebody opened; a failed read counts as none.
LoadOpens(a) ==
    /\ "opens" \in desk[a].due
    /\ \E ok \in BOOLEAN :
           desk' = [desk EXCEPT ![a].due = @ \ {"opens"},
                       ![a].opened = IF ok THEN {o[1] : o \in db.opens} ELSE {}]
    /\ UNCHANGED <<db, pressed, page, acts, warned>>

Choose(a) ==
    /\ OnScreen(a)
    /\ Cardinality(Queue(desk[a])) > 1
    /\ \E d \in Queue(desk[a]) :
           desk' = [desk EXCEPT ![a].sel = d]
    /\ UNCHANGED <<db, pressed, page, acts, warned>>

Send(act) ==
    /\ pressed < MaxPresses
    /\ Cardinality(acts) < MaxCalls
    /\ pressed' = pressed + 1
    /\ acts' = acts \cup {act}
    /\ UNCHANGED <<db, page, warned>>

OpenDocument(a) ==
    /\ OnScreen(a)
    /\ Send([id |-> pressed, who |-> a, doc |-> Selected(desk[a]),
             op |-> "open", step |-> "record"])
    /\ UNCHANGED desk

\* Every decision comes with a reason; returning a document to the queue asks
\* for nothing else.
PressDecide(a) ==
    /\ OnScreen(a)
    /\ \E to \in DocStatuses, n \in Notes :
           /\ IF to = "pending" THEN desk[a].docs[Selected(desk[a])] # "pending"
                                ELSE resolveEvidenceGate(desk[a])
           /\ Send([id |-> pressed, who |-> a, doc |-> Selected(desk[a]),
                    op |-> "decide", step |-> "status", to |-> to, note |-> n])
    /\ desk' = [desk EXCEPT ![a].busy = Selected(desk[a])]

Leaves(c) == acts' = acts \ {c}

\* The open shows only once it is on record.
recordDocumentOpen(c) ==
    /\ c.op = "open"
    /\ Statement(TRUE, RecordOpen(db, c.doc, c.who),
           /\ desk' = [desk EXCEPT ![c.who].opened = @ \cup {c.doc}]
           /\ Leaves(c) /\ UNCHANGED warned,
           Leaves(c) /\ UNCHANGED <<desk, warned>>)

\* After a recorded decision the register is loaded again.
Recorded(c) ==
    /\ desk' = [desk EXCEPT ![c.who].due = {"docs", "opens"}, ![c.who].busy = None]
    /\ Leaves(c)

\* Mutant: only a decision that was recorded clears the busy mark.
DecisionFails_Busy(c) ==
    /\ UNCHANGED desk
    /\ warned' = warned \cup {c.id}
    /\ Leaves(c)

\* The message is shown.
DecisionFails(c) ==
    /\ desk' = [desk EXCEPT ![c.who].busy = None]
    /\ warned' = warned \cup {c.id}
    /\ Leaves(c)

setDocumentReviewStatus(c) ==
    /\ c.op = "decide" /\ c.step = "status"
    /\ Statement(MayDecide(db, c.doc, c.who, c.to, c.note),
                 Decide(db, c.doc, c.who, c.to, c.note, c.id),
                 /\ UNCHANGED warned
                 /\ IF c.to \in {"rejected", "pending"}
                    THEN acts' = (acts \ {c}) \cup {[c EXCEPT !.step = "notify"]}
                         /\ UNCHANGED desk
                    ELSE Recorded(c),
                 DecisionFails(c))

\* The farm learns of a refusal; if it cannot, the reviewer learns that.
NotifyFarm(c) ==
    /\ c.op = "decide" /\ c.step = "notify"
    /\ Statement(TRUE, AddRequest(db, Home, c.id),
                 Recorded(c) /\ UNCHANGED warned,
                 Recorded(c) /\ warned' = warned \cup {c.id})

\* The page is loaded again; what was in flight is never answered here.
Reopen(a) ==
    /\ page[a] = "evidence"
    /\ desk' = [desk EXCEPT ![a] = NoDesk]
    /\ acts' = {c \in acts : c.who # a}
    /\ warned' = warned \cup {c.id : c \in {d \in acts : d.who = a /\ d.op = "decide"}}
    /\ UNCHANGED <<db, pressed, page>>

EvidenceInit ==
    /\ desk = [a \in Admins |-> NoDesk]
    /\ acts = {}
    /\ warned = {}

Act(c) == recordDocumentOpen(c) \/ setDocumentReviewStatus(c) \/ NotifyFarm(c)

EvidenceStep ==
    \/ \E a \in {x \in Admins : page[x] = "evidence"} :
           LoadDocs(a) \/ LoadOpens(a) \/ Choose(a)
             \/ OpenDocument(a) \/ PressDecide(a) \/ Reopen(a)
    \/ \E c \in acts : Act(c)
=============================================================================
