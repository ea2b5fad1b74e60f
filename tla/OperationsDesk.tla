--------------------------- MODULE OperationsDesk ---------------------------
(***************************************************************************)
(* The operations desk of one administrator: the loads of App.tsx that     *)
(* feed it (adminDataLoad, reviewRequestScope, complianceRefetch,          *)
(* asyncLoadGuard), the queues it builds from them (operationsDesk,        *)
(* procurementControl, complianceAlerts) and what it says when a source is *)
(* missing (operationsDeskEmptyState, DDPOperationsDeskOrganic).           *)
(*                                                                         *)
(* The lists live in App and outlast the page. Three loads fill them, each *)
(* of one or two reads of tables that farmers and other administrators     *)
(* change meanwhile; a load that is begun again is never heard of again.   *)
(* A matter is the queue it stands in, what it is about and, for a         *)
(* document, which one; labels, ages and the order of rows are left out.   *)
(***************************************************************************)
EXTENDS Naturals, FiniteSets

CONSTANTS DeskFarms, DeskBatches, Stranger, GrownBy

(* A farm and a batch are told apart by their names, as the code tells the *)
(* risks of the one from those of the other by their ids.                  *)
ASSUME DeskPeople ==
    /\ DeskFarms \cap DeskBatches = {}
    /\ Stranger \notin DeskFarms \cup DeskBatches
    /\ GrownBy \in [DeskBatches -> DeskFarms]

VARIABLES held,     \* the tables, one field for each list that is read
          lists,    \* what App holds of each load
          flight,   \* the reads under way
          at,       \* the page of the administrator
          ticked,   \* the matters selected on the desk
          rounds,   \* bounds: how often each thing may still happen
          since     \* history: matters due ever since each load began

opsVars == <<held, lists, flight, at, ticked, rounds, since>>

Loads == {"core", "requests", "compliance"}
PartsOf == [core |-> {"farms", "batches"}, requests |-> {"requests"},
            compliance |-> {"rules", "alerts"}]

Subjects == DeskFarms \cup DeskBatches
NoFarmRow == [status |-> "none", declared |-> FALSE]
NoBatchRow == [status |-> "none", coa |-> "missing"]
NoRows == [farms |-> [f \in DeskFarms |-> NoFarmRow],
           batches |-> [b \in DeskBatches |-> NoBatchRow],
           requests |-> {}, rules |-> FALSE, alerts |-> {}]
Rows(table) == {x \in DOMAIN table : table[x].status # "none"}

-----------------------------------------------------------------------------
(* The queues.                                                             *)

AwaitingReview == {"Submitted to DDP", "Under Review"}
FARM_ONLY_REQUIREMENT_TYPES == {"identity"}
Requirements == FARM_ONLY_REQUIREMENT_TYPES \cup {"coa", "custody"}

\* What no record can show is always missing (chain of custody, like a video
\* and a proof of quantity).
Missing(v, f, type) ==
    CASE type = "identity" -> ~v.farms[f].declared
      [] type = "coa" -> \A b \in Rows(v.batches) :
                             GrownBy[b] = f => v.batches[b].coa = "missing"
      [] type = "custody" -> TRUE

\* Without the inventory only what the farm itself declares can be missing.
EligibleTypes(v) == IF v.known THEN Requirements ELSE FARM_ONLY_REQUIREMENT_TYPES

DocumentQueue(v) ==
    {m \in {"document"} \X Rows(v.farms) \X EligibleTypes(v) : Missing(v, m[2], m[3])}

FarmQueues(v) ==
    {<<"farmer-approval", f>> : f \in {x \in Rows(v.farms) : v.farms[x].status \in AwaitingReview}}
    \cup {<<"onboarding", f>> : f \in {x \in Rows(v.farms) :
                                 v.farms[x].status = "Draft" /\ ~v.farms[x].declared}}
FarmFollowUps(v) ==
    {<<"follow-up farm", f>> : f \in {x \in Rows(v.farms) :
                                 v.farms[x].status = "More Information Required"}}

\* A failed result is a blocker and a missing certificate a high risk.
RiskQueue(v) ==
    {<<"risk", b>> : b \in {x \in Rows(v.batches) : v.batches[x].coa \in {"missing", "failed"}}}
    \cup {<<"risk", f>> : f \in {x \in Rows(v.farms) : v.farms[x].status = "Watchlist"}}

BatchQueues(v) ==
    {<<"coa", b>> : b \in {x \in Rows(v.batches) : v.batches[x].coa \in {"missing", "failed"}}}
    \cup {<<"inventory-review", b>> : b \in {x \in Rows(v.batches) :
                               v.batches[x].status \in {"Pending Review", "Missing Document"}}}

\* One enforced rule stands for them all: it wants a certificate of every batch.
AutoAlerts(v) ==
    {<<"auto", b>> : b \in {x \in Rows(v.batches) : v.rules /\ v.batches[x].coa = "missing"}}

\* The derived alerts are joined with the stored ones, which people raised.
ComplianceQueue(v) == AutoAlerts(v) \cup {<<"alert", s>> : s \in v.alerts}

FollowUpQueue(v) == {<<"follow-up", s>> : s \in v.requests}

\* A source that failed leaves its queue out; the others are built all the same.
buildOperationsDeskItems(v) ==
    FarmQueues(v) \cup FarmFollowUps(v) \cup DocumentQueue(v) \cup BatchQueues(v) \cup RiskQueue(v)
    \cup (IF "compliance" \in v.failed THEN {} ELSE ComplianceQueue(v))
    \cup (IF "requests" \in v.failed THEN {} ELSE FollowUpQueue(v))

-----------------------------------------------------------------------------
(* What reaches the desk.                                                  *)

State(k) == lists[k].state
Settling(k) == State(k) \in {"idle", "loading"}

\* While the load settles the desk is given nothing, not the list of before.
deskReviewRequestsView ==
    [requests |-> IF State("requests") = "ready" THEN lists.requests.requests ELSE {},
     loading |-> Settling("requests")]

\* Only a list that the current load brought is used.
deskAdminDataView ==
    [farms |-> IF "farms" \in lists.core.fresh THEN lists.core.farms ELSE NoRows.farms,
     batches |-> IF "batches" \in lists.core.fresh THEN lists.core.batches ELSE NoRows.batches,
     known |-> "batches" \in lists.core.fresh]

\* The rules and alerts stay until the next answer; only a failure takes them.
DeskInput ==
    [farms |-> deskAdminDataView.farms, batches |-> deskAdminDataView.batches,
     known |-> deskAdminDataView.known, requests |-> deskReviewRequestsView.requests,
     rules |-> lists.compliance.rules, alerts |-> lists.compliance.alerts,
     failed |-> {k \in {"requests", "compliance"} : State(k) = "failed"}]

Items == buildOperationsDeskItems(DeskInput)

FailureCount == Cardinality(DeskInput.failed) + (IF State("core") = "failed" THEN 1 ELSE 0)
PendingSources ==
    deskReviewRequestsView.loading \/ Settling("core") \/ Settling("compliance")

\* The rows of the desk are narrowed by a group; the search box is another.
resolveOperationsDeskEmptyState(shown, filtered) ==
    IF shown # {} THEN "has-matters"
    ELSE IF FailureCount > 0 THEN "failed"
    ELSE IF PendingSources THEN "loading"
    ELSE IF filtered THEN "filtered-empty"
    ELSE "all-clear"

\* The notices above the rows.
SaysIncomplete == FailureCount > 0 \/ PendingSources

\* The farm a matter is of, if the desk has it in its list.
FarmIdFor(m) ==
    LET s == m[2]
        f == IF s \in DeskFarms THEN s
             ELSE IF s \in Rows(deskAdminDataView.batches) THEN GrownBy[s] ELSE Stranger
    IN  IF m[1] # "risk" /\ f \in Rows(deskAdminDataView.farms) THEN f ELSE Stranger

\* An alert raised by hand is not worded for a farm.
Chaseable(m) == m[1] # "alert" /\ FarmIdFor(m) # Stranger
Chases == {FarmIdFor(m) : m \in {x \in ticked \cap Items : Chaseable(x)}}

\* The overview is handed the lists themselves, without the state of their load.
FARM_NEEDS_PERSON == AwaitingReview \cup {"More Information Required"}
BATCH_NEEDS_PERSON == {"Pending Review", "Missing Document"}
OverviewQueue ==
    {f \in DeskFarms : lists.core.farms[f].status \in FARM_NEEDS_PERSON}
    \cup {b \in DeskBatches : lists.core.batches[b].status \in BATCH_NEEDS_PERSON}

OverviewIsClear == OverviewQueue = {}

-----------------------------------------------------------------------------
(* What is due according to the tables.                                    *)

Due(h) == buildOperationsDeskItems(
    [farms |-> h.farms, batches |-> h.batches, known |-> TRUE, requests |-> h.requests,
     rules |-> h.rules, alerts |-> h.alerts, failed |-> {}])

\* The loads a matter is read from.
ReadFrom(m) == CASE m[1] = "alert" -> {"compliance"}
                 [] m[1] = "auto" -> {"core", "compliance"}
                 [] m[1] = "follow-up" -> {"requests"}
                 [] OTHER -> {"core"}

\* The history follows the tables; a load counts from the moment it begins.
Remember(begun) ==
    /\ since' = [k \in Loads |-> IF k \in begun THEN Due(held') ELSE since[k] \cap Due(held')]

-----------------------------------------------------------------------------
(* The loads.                                                              *)

Allow(what) == rounds[what] > 0 /\ rounds' = [rounds EXCEPT ![what] = @ - 1]
NotAsked == [st |-> "none", rows |-> {}]
Asked == [st |-> "sent", rows |-> {}]
Quiet(k) == [p \in PartsOf[k] |-> NotAsked]
Ask(k) == [p \in PartsOf[k] |-> Asked]
Flips(k) == [lists[k] EXCEPT !.state = "loading"]

\* The effect of the compliance load runs on these pages only.
LoadsCompliance(p) == p \in {"ddp-operations-desk", "supply ledger"}

\* Entering the desk turns the flag back in the render that shows it.
EnterDesk(p) ==
    IF p = "ddp-operations-desk" THEN [lists EXCEPT !.compliance = Flips("compliance")] ELSE lists

\* Leaving a page drops its load; a selection does not outlive the desk.
GoToPage(p) ==
    /\ p # at /\ Allow("go")
    /\ at' = p
    /\ ticked' = {}
    /\ lists' = EnterDesk(p)
    /\ flight' = [flight EXCEPT !.compliance =
                     IF LoadsCompliance(p) THEN Ask("compliance") ELSE Quiet("compliance")]
    /\ held' = held
    /\ Remember(IF LoadsCompliance(p) THEN {"compliance"} ELSE {})

\* A refreshed token is a new profile: everything is loaded again, and the
\* lists are not current from this render on.
NewProfile ==
    /\ Allow("refresh")
    /\ lists' = [EnterDesk(at) EXCEPT !.core.state = "loading", !.core.fresh = {},
                                     !.requests.state = "loading"]
    /\ flight' = [core |-> Ask("core"), requests |-> Ask("requests"),
                  compliance |-> IF LoadsCompliance(at) THEN Ask("compliance")
                                 ELSE flight.compliance]
    /\ UNCHANGED <<held, at, ticked>>
    /\ Remember({"core", "requests"} \cup (IF LoadsCompliance(at) THEN {"compliance"} ELSE {}))

\* One read takes place in the database, or fails.
ReadRows(k, p) ==
    /\ flight[k][p].st = "sent"
    /\ \/ /\ flight' = [flight EXCEPT ![k][p] = [st |-> "read", rows |-> held[p]]]
          /\ rounds' = rounds
       \/ /\ Allow("fail")
          /\ flight' = [flight EXCEPT ![k][p].st = "failed"]
    /\ UNCHANGED <<held, lists, at, ticked>>
    /\ Remember({})

Got(k, p) == flight[k][p].st = "read"
Fell(k) == \E p \in PartsOf[k] : flight[k][p].st = "failed"

\* Mutant: one list is enough.
AdminState_EitherWillDo == IF Got("core", "farms") \/ Got("core", "batches") THEN "ready" ELSE "failed"

AdminState == IF Got("core", "farms") /\ Got("core", "batches") THEN "ready" ELSE "failed"

\* resolveAdminDataApply: a list that was read is set, the other is cleared.
ApplyAdmin ==
    [state |-> AdminState,
     fresh |-> {p \in PartsOf.core : Got("core", p)},
     farms |-> IF Got("core", "farms") THEN flight.core.farms.rows ELSE NoRows.farms,
     batches |-> IF Got("core", "batches") THEN flight.core.batches.rows ELSE NoRows.batches]

\* runGuardedLoad of two reads that must both succeed, or of one.
ApplyWhole(k) ==
    IF Fell(k) THEN [lists[k] EXCEPT !.state = "failed"]
    ELSE IF k = "requests" THEN [state |-> "ready", requests |-> flight.requests.requests.rows]
    ELSE [state |-> "ready", rules |-> flight.compliance.rules.rows,
          alerts |-> flight.compliance.alerts.rows]

Arrive(k) ==
    /\ \A p \in PartsOf[k] : flight[k][p].st # "none"
    /\ IF k = "core" THEN \A p \in PartsOf[k] : flight[k][p].st # "sent"
       ELSE Fell(k) \/ \A p \in PartsOf[k] : Got(k, p)
    /\ lists' = [lists EXCEPT ![k] = IF k = "core" THEN ApplyAdmin ELSE ApplyWhole(k)]
    /\ flight' = [flight EXCEPT ![k] = Quiet(k)]
    /\ UNCHANGED <<held, at, ticked, rounds>>
    /\ Remember({})

-----------------------------------------------------------------------------
(* The desk, and everybody else.                                           *)

\* A box is ticked on a row that is shown.
TickRow(m) ==
    /\ at = "ddp-operations-desk" /\ m \in Items \ ticked /\ Chaseable(m)
    /\ Allow("tick")
    /\ ticked' = ticked \cup {m}
    /\ UNCHANGED <<held, lists, flight, at>>
    /\ Remember({})

\* One request for each farm; what was answered is put before the list,
\* whatever the list is at that moment.
handleChaseFarms ==
    /\ at = "ddp-operations-desk" /\ Chases # {}
    /\ \E kept \in SUBSET Chases, heard \in SUBSET Chases :
           /\ heard \subseteq kept
           /\ held' = [held EXCEPT !.requests = @ \cup kept]
           /\ lists' = [lists EXCEPT !.requests.requests = @ \cup heard]
    /\ ticked' = {}
    /\ UNCHANGED <<flight, at, rounds>>
    /\ Remember({})

\* The tables change: reviews and decisions of others, intake, rules, alerts.
Certificates == {"missing", "documented", "failed"}
FarmVerdict == {"Draft", "Submitted to DDP", "More Information Required", "Watchlist", "Approved"}
BatchVerdict == {"Pending Review", "Missing Document", "Approved"}
Toggle(S, x) == IF x \in S THEN S \ {x} ELSE S \cup {x}

FarmChanges(f) ==
    \E to \in FarmVerdict, named \in BOOLEAN :
        /\ held.farms[f].declared => named
        /\ to # "Draft" => named \/ held.farms[f].status # "none"
        /\ held.farms[f] # [status |-> to, declared |-> named]
        /\ held' = [held EXCEPT !.farms[f] = [status |-> to, declared |-> named]]
BatchChanges(b) ==
    \E to \in BatchVerdict, coa \in Certificates :
        /\ held.farms[GrownBy[b]].status # "none"
        /\ held.batches[b].coa # "missing" => coa = held.batches[b].coa
        /\ held.batches[b] # [status |-> to, coa |-> coa]
        /\ held' = [held EXCEPT !.batches[b] = [status |-> to, coa |-> coa]]
Others ==
    /\ Allow("change")
    /\ \/ \E f \in DeskFarms : FarmChanges(f)
       \/ \E b \in DeskBatches : BatchChanges(b)
       \/ \E s \in Subjects : held' = [held EXCEPT !.requests = Toggle(@, s)]
       \/ \E s \in Subjects \cup {Stranger} : held' = [held EXCEPT !.alerts = Toggle(@, s)]
       \/ held' = [held EXCEPT !.rules = ~@]
    /\ UNCHANGED <<lists, flight, at, ticked>>
    /\ Remember({})

-----------------------------------------------------------------------------
\* The administrator has signed in; these loads of the session have begun.
OpsInit(h, r, begun) ==
    /\ held = h
    /\ lists = [core |-> [state |-> "loading", fresh |-> {}, farms |-> NoRows.farms,
                          batches |-> NoRows.batches],
                requests |-> [state |-> "loading", requests |-> {}],
                compliance |-> [state |-> "idle", rules |-> FALSE, alerts |-> {}]]
    /\ flight = [k \in Loads |-> IF k \in begun THEN Ask(k) ELSE Quiet(k)]
    /\ at = "overview"
    /\ ticked = {}
    /\ rounds = r
    /\ since = [k \in Loads |-> IF k \in begun THEN Due(h) ELSE {}]

OpsStep ==
    \/ \E p \in {"ddp-operations-desk", "supply ledger", "overview"} : GoToPage(p)
    \/ NewProfile
    \/ \E k \in Loads : \E p \in PartsOf[k] : ReadRows(k, p)
    \/ \E k \in Loads : Arrive(k)
    \/ \E m \in Items : TickRow(m)
    \/ handleChaseFarms
    \/ Others

-----------------------------------------------------------------------------
(* Properties.                                                             *)

\* When the desk neither reports a failed source nor says that one is loading,
\* it lists every matter that has been due ever since the loads it is read
\* from began; in particular it never says "all clear" over such a matter.
\* Reads that fail, are superseded or run across changes of page, of profile
\* and of the tables do not make a matter disappear silently.
DeskTellsWhatWaits ==
    at = "ddp-operations-desk" =>
        LET waits == {m \in UNION {since[k] : k \in Loads} : \A k \in ReadFrom(m) : m \in since[k]}
        IN  /\ ~SaysIncomplete => waits \subseteq Items
            /\ resolveOperationsDeskEmptyState(Items, FALSE) = "all-clear" => waits = {}

\* DDPOverviewOrganic.tsx:162 of an empty queue: "Nothing is waiting. This is
\* the healthy state, not a missing feed." Of a load that has settled.
HealthyIsNotAMissingFeed ==
    at = "overview" /\ ~Settling("core") /\ OverviewIsClear =>
        ~\E m \in since["core"] : m[1] \in {"farmer-approval", "follow-up farm", "inventory-review"}
=============================================================================
