---------------------------- MODULE MCFrontOffice ---------------------------
(***************************************************************************)
(* Scenes of the administrators' work around the supply: the enquiries and *)
(* accounts, the operations desk, the buyer packs. In a scene one of them  *)
(* is at work; each scene says what is on record, who works where, and how *)
(* often each thing happens.                                               *)
(***************************************************************************)
EXTENDS BuyerPacks, SupplierOnboarding, OperationsDesk

vars == <<packVars, onboardVars, opsVars>>
Next == \/ PacksStep /\ UNCHANGED <<onboardVars, opsVars>>
        \/ OnboardStep /\ UNCHANGED <<packVars, opsVars>>
        \/ OpsStep /\ UNCHANGED <<packVars, onboardVars>>

---------------------------------------------------------------------------
(* Buyer packs.                                                            *)
MCAdmins == {"a1", "a2"}
MCDecisions == {"progress", "hold"}
MCFailures == {"metals", "microbes"}

Both(x, y) == "a1" :> x @@ "a2" :> y
Same(x) == Both(x, x)

OnServer(tables, lab) ==
    [tables |-> tables, lab |-> lab, rule |-> "in force", alert |-> "resolved"]
Tabled(tables, log, lab) == OnServer(tables, lab) @@ [NoStore EXCEPT !.log = log]

Nothing == [open |-> 0, decide |-> 0, override |-> 0, issue |-> 0, result |-> 0, rule |-> 0]
Use(pages, farm, fails) == [pages |-> pages, farm |-> farm, fails |-> fails]

\* A pack page that has read everything: a decision, and nothing that blocks.
Released == [NoPage EXCEPT !.kind = "pack", !.rules = "clear",
                           !.dec = [source |-> "server", val |-> "progress"],
                           !.ov = [UnreadOverrides EXCEPT !.state = "read", !.id = RiskId("clean")]]

\* Two administrators issue and decide while a result arrives.
Race == PacksInit(Tabled(Tables, <<"progress">>, "clean"), Same(NoStore), Same("clean"),
                  Same(Released), [Nothing EXCEPT !.decide = 1, !.issue = 2, !.result = 1],
                  Use(Same({"pack"}), Same(FALSE), FALSE))

\* One releases a failed batch while another records overrides of it.
Overridden == PacksInit(Tabled(Tables, <<"progress">>, "metals"), Same(NoStore), Same("metals"), Same(NoPage),
                        [Nothing EXCEPT !.open = 2, !.override = 2, !.result = 1],
                        Use(Both({"pack"}, {"register"}), Same(FALSE), TRUE))

\* The evidence of the farm is rejected or accepted meanwhile.
Evidenced == PacksInit(Tabled(Tables, <<"progress">>, "clean"), Same(NoStore), Same("clean"), Same(NoPage),
                       [Nothing EXCEPT !.open = 2, !.override = 2, !.rule = 1],
                       Use(Both({"pack", "list"}, {"matrix"}), Same(TRUE), TRUE))

\* One administrator, every read and write may fail.
Alone == PacksInit(Tabled(Tables, <<"hold">>, "clean"), Same(NoStore), Same("clean"), Same(NoPage),
                   [Nothing EXCEPT !.open = 2, !.decide = 2, !.issue = 1, !.rule = 1],
                   Use(Both({"pack", "list"}, {}), Same(FALSE), TRUE))

\* The migrations are applied while a browser works from its own storage.
Migrating == PacksInit(Tabled({}, <<>>, "metals"), Same(NoStore), Same("metals"), Same(NoPage),
                       [Nothing EXCEPT !.open = 2, !.decide = 1, !.override = 1, !.issue = 1],
                       Use(Both({"pack", "register"}, {}), Same(FALSE), TRUE))

---------------------------------------------------------------------------
(* Enquiries and accounts.                                                 *)
\* One IPv4 host in two spellings, and one that cannot be read.
SmallAddresses == {[form |-> "v4", net |-> 0, host |-> 1],
                   [form |-> "mapped", net |-> 0, host |-> 1],
                   [form |-> "v6", net |-> 7, host |-> 1],
                   [form |-> "bad", net |-> 0, host |-> 0]}
SmallRules == {[scope |-> "client", window |-> 1, max |-> 1],
               [scope |-> "global", window |-> 2, max |-> 2]}

\* Bound: one behaviour spends its events on visits, starting from an empty
\* queue, or on calls, starting from a queue with one enquiry in it.
VisitsToCome ==
    /\ IntakeInit
    /\ account = [p \in People |-> "confirmed"] /\ role = [p \in People |-> "farmer"]
    /\ orgs = {} /\ members = {} /\ draft = NoOrg
    /\ call = [c \in Calls |-> [Idle EXCEPT !.step = "received"]]
    /\ rows = {} /\ busy = NoRow /\ pageCall = [c \in Calls |-> NoRow]
CallsToCome ==
    /\ now = MaxTime
    /\ visit = [v \in Visits |-> [Blank EXCEPT !.step = "over"]]
    /\ attempts = {}
    /\ \E e \in Emails : requests = {[id |-> CHOOSE v \in Visits : TRUE, email |-> e, status |-> "new"]}
    /\ ProvInit
    /\ rows = {} /\ busy = NoRow /\ pageCall = [c \in Calls |-> NoRow]

---------------------------------------------------------------------------
(* The operations desk.                                                    *)
MCDeskFarms == {"f1"}
MCDeskBatches == {"b1"}
MCGrownBy == [b \in MCDeskBatches |-> "f1"]
Tabled2(farm, named, batch, coa) ==
    [farms |-> [f \in DeskFarms |-> [status |-> farm, declared |-> named]],
     batches |-> [b \in DeskBatches |-> [status |-> batch, coa |-> coa]],
     requests |-> {"b1"}, rules |-> TRUE, alerts |-> {Stranger}]
AtStart == {"core", "requests"}
Hands == [go |-> 0, refresh |-> 0, fail |-> 0, tick |-> 0, change |-> 0]

\* Reads fail and are superseded by a new profile or another page.
Unreliable == OpsInit(Tabled2("Submitted to DDP", FALSE, "Pending Review", "documented"),
                      [Hands EXCEPT !.go = 2, !.refresh = 1, !.fail = 1], AtStart)
\* A farm is chased while its records change.
Chasing == OpsInit(Tabled2("Watchlist", TRUE, "Missing Document", "missing"),
                   [Hands EXCEPT !.go = 1, !.tick = 1, !.change = 1], AtStart)
\* The tables change under the loads.
Moving == OpsInit(Tabled2("Draft", FALSE, "none", "missing"),
                  [Hands EXCEPT !.go = 1, !.fail = 1, !.change = 1], AtStart)

---------------------------------------------------------------------------
NoPacks == PacksInit(OnServer(Tables, "clean") @@ NoStore, Same(NoStore), Same("clean"),
                     Same(NoPage), Nothing, Use(Same({}), Same(FALSE), FALSE))
NoEnquiries ==
    /\ now = MaxTime
    /\ visit = [v \in Visits |-> [Blank EXCEPT !.step = "over"]]
    /\ attempts = {} /\ requests = {}
    /\ account = [p \in People |-> "confirmed"] /\ role = [p \in People |-> "farmer"]
    /\ orgs = {} /\ members = {} /\ draft = NoOrg
    /\ call = [c \in Calls |-> [Idle EXCEPT !.step = "received"]]
    /\ rows = {} /\ busy = NoRow /\ pageCall = [c \in Calls |-> NoRow]
NoOps == OpsInit(NoRows, Hands, {})

MCInit ==
    \/ (Race \/ Overridden \/ Evidenced \/ Alone \/ Migrating) /\ NoEnquiries /\ NoOps
    \/ (VisitsToCome \/ CallsToCome) /\ NoPacks /\ NoOps
    \/ (Unreliable \/ Chasing \/ Moving) /\ NoPacks /\ NoEnquiries
MCSpec == MCInit /\ [][Next]_vars

\* The administrator signs in and the list of farms cannot be read.
LostFarms == OpsInit(Tabled2("Submitted to DDP", TRUE, "Approved", "documented"),
                     [Hands EXCEPT !.go = 1, !.fail = 1], AtStart)
OverviewSpec == LostFarms /\ NoPacks /\ NoEnquiries /\ [][Next]_vars
=============================================================================
