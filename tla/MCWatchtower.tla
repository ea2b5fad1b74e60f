---------------------------- MODULE MCWatchtower ----------------------------
(***************************************************************************)
(* The parts of the watchtower for TLC, one at work in each scene.         *)
(***************************************************************************)
EXTENDS WatchtowerIngestion, WatchtowerDesk, WatchtowerEndpoints, AiDrafts, SourceMonitoring

vars == <<ingestVars, deskVars, endpointVars, draftVars, monitorVars>>
Next == \/ IngestionNext /\ UNCHANGED <<deskVars, endpointVars, draftVars, monitorVars>>
        \/ DeskNext /\ UNCHANGED <<ingestVars, endpointVars, draftVars, monitorVars>>
        \/ EndpointsNext /\ UNCHANGED <<ingestVars, deskVars, draftVars, monitorVars>>
        \/ DraftsNext /\ UNCHANGED <<ingestVars, deskVars, endpointVars, monitorVars>>
        \/ MonitoringNext /\ UNCHANGED <<ingestVars, deskVars, endpointVars, draftVars>>

---------------------------------------------------------------------------
(* The sweep.                                                              *)

MCWorkers == {"cron", "panel"}
MCSourceOrder == <<"gazette", "agency", "register">>
Entry1 == [ext |-> "n1", body |-> "b1"]
Entry2 == [ext |-> None, body |-> "b2"]
Amended == [ext |-> "n1", body |-> "b3"]
Empty == [ext |-> None, body |-> Blank]
PageWith(body) == [media |-> "html", whole |-> TRUE, entries |-> <<[ext |-> "page", body |-> body]>>]
FeedOf(entries) == [media |-> "xml", whole |-> TRUE, entries |-> entries]
Torn == [FeedOf(<<Entry1>>) EXCEPT !.whole = FALSE]
MirrorFeed == FeedOf(<<Entry1, Amended>>)
MCEditions == [gazette |-> {PageWith("p1"), PageWith("p2"), PageWith(Blank)},
               agency |-> {FeedOf(<<Entry1, Entry2>>), FeedOf(<<Entry1, Amended, Amended>>),
                           FeedOf(<<Empty, Entry2>>), Torn, PageWith("p1")},
               register |-> {MirrorFeed}]

Address(looks) == [scheme |-> "https", private |-> FALSE, port |-> FALSE, looks |-> looks]
Registry(active) ==
    "gazette" :> [active |-> "gazette" \in active, method |-> "html", url |-> Address("html")] @@
    "agency" :> [active |-> "agency" \in active, method |-> "rss", url |-> Address("atom")] @@
    "register" :> [active |-> "register" \in active, method |-> "manual", url |-> Address("html")]
Served(page1, feed) == "gazette" :> page1 @@ "agency" :> FeedOf(feed) @@ "register" :> PageWith("p1")
Still == [sweep |-> 0, fault |-> 0, crash |-> 0, publish |-> 0, deactivate |-> 0]
Swept(active, page1, feed, budget) == IngestionInit(Registry(active), Served(page1, feed), budget)

\* Two sweeps overlap, and a page changes.
Overlapping == Swept({"gazette", "agency"}, PageWith("p1"), <<Entry1>>,
                     [Still EXCEPT !.sweep = 2, !.publish = 1])
\* They overlap over one feed while calls fail and a worker may stop.
Failing == Swept({"agency"}, PageWith("p1"), <<Entry1, Entry2>>, [Still EXCEPT !.sweep = 2, !.fault = 1, !.crash = 1])
\* A feed with an amended and a repeated entry, an empty one, a source read by hand.
Assorted == Swept({"agency", "register"}, PageWith(Blank), <<Entry1, Amended, Amended>>,
                  [Still EXCEPT !.sweep = 2, !.fault = 1, !.publish = 1])
\* Two feeds bring the same entry, one of them in two versions.
Mirrored ==
    IngestionInit([s \in {"gazette", "agency", "register"} |->
                      [active |-> s # "gazette", method |-> "rss", url |-> Address("rss")]],
                  [Served(PageWith("p1"), <<Entry1>>) EXCEPT !["register"] = MirrorFeed], [Still EXCEPT !.sweep = 2])
\* A source is deactivated, and its page may turn out empty.
Withdrawn == Swept({"gazette"}, PageWith("p1"), <<Entry1>>,
                   [Still EXCEPT !.sweep = 2, !.publish = 1, !.deactivate = 1, !.fault = 1])

\* Whatever an administrator may have entered as the address and the method of a source.
Misentered ==
    /\ \E url \in [scheme : {"https", "http", "ftp"}, private : BOOLEAN, port : BOOLEAN, looks : {"html", "rss", "pdf"}],
           method \in {"html", "rss", None} :
        IngestionInit([Registry({"agency"}) EXCEPT !["agency"].url = url, !["agency"].method = method],
                      Served(PageWith("p1"), <<Entry1>>), [Still EXCEPT !.sweep = 1])

---------------------------------------------------------------------------
(* The page.                                                               *)

MCAdmins == {"a1", "a2"}
MCItems == {"n1"}
MCSourceOf == [n1 |-> 1]
MCDecisions == {"create_rule", "approve_rule", "archive"}
Pages(p1, p2) == "a1" :> p1 @@ "a2" :> p2

\* An official source and a signal source; one update of each, waiting for its decision.
Bare == [sources |-> <<Row(0, 1, Nil), Row(0, 3, Nil)>>, updates |-> <<>>, reviews |-> <<>>,
         rules |-> <<>>, alerts |-> <<>>, trail |-> <<>>]
Waiting == [Bare EXCEPT !.updates = <<Row(2, "new", Nil), Row(1, "new", Nil)>>,
                        !.reviews = <<Row(1, "pending", Nil), Row(2, "pending", Nil)>>,
                        !.rules = <<Row(0, "suggested", Nil)>>]
Drawn(tables) == [ClosedPage EXCEPT !.open = TRUE, !.lists = [t \in Lists |-> tables[t]], !.pasted = TRUE]
Quiet == [updates |-> 0, reviews |-> 0, rules |-> 0, alerts |-> 0, sources |-> 0,
          fault |-> 0, open |-> 0, close |-> 0]

\* Two decide on the same reviews.
Deciding == DeskInit(Waiting, Pages(Drawn(Waiting), Drawn(Waiting)), [Quiet EXCEPT !.reviews = 2, !.fault = 1])
\* A rule of a signal source is suggested, approved, its source given another tier.
Governing == DeskInit(Waiting, Pages(Drawn(Waiting), ClosedPage),
                      [Quiet EXCEPT !.reviews = 1, !.rules = 1, !.sources = 1])
\* Entries are drafted and drafted again.
Drafting == DeskInit(Bare, Pages(Drawn(Bare), ClosedPage),
                     [Quiet EXCEPT !.updates = 2, !.fault = 1, !.open = 1, !.close = 1])
\* Alerts are raised from rules that change hands.
Alerting == DeskInit(Waiting, Pages(Drawn(Waiting), Drawn(Waiting)),
                     [Quiet EXCEPT !.rules = 1, !.alerts = 2, !.fault = 1])
\* Alerts are raised from a rule in force that either page takes out of force.
Enforced == [Waiting EXCEPT !.rules = <<Row(0, "active", "a1"), Row(0, "suggested", Nil)>>]
Lapsing == DeskInit(Enforced, Pages(Drawn(Enforced), Drawn(Enforced)), [Quiet EXCEPT !.rules = 1, !.alerts = 1, !.fault = 1])
\* So does a page whose lists arrive at their time.
Reopened == DeskInit(Enforced, Pages(ClosedPage, ClosedPage),
                     [Quiet EXCEPT !.rules = 1, !.alerts = 1, !.reviews = 1, !.open = 1])
\* A decision and a draft of one page overlap.
Interleaved == DeskInit(Waiting, Pages(Drawn(Waiting), ClosedPage),
                        [Quiet EXCEPT !.reviews = 1, !.rules = 1, !.updates = 1, !.alerts = 1])

---------------------------------------------------------------------------
(* The server functions.                                                   *)

MCCalls == {"c1", "c2", "c3"}
MCHosts == {"gazette.gov", "elsewhere.org", "intranet"}
MCPublic == {"gazette.gov", "elsewhere.org"}
Rule(scope, window, max) == [scope |-> scope, window |-> window, max |-> max]
MCRules == [end \in {"feed-retrieve", "ai-summary"} |->
    {Rule("client", 1, 1), Rule("global", 2, 2)} \cup (IF end = "feed-retrieve" THEN {Rule("client", 2, 2)} ELSE {})]
Target(end, host, https) == [end |-> end, ready |-> TRUE, host |-> host, https |-> https]
Gazette == "gazette" :> Target("feed-retrieve", "gazette.gov", TRUE)
Update == "update" :> Target("ai-summary", "provider", TRUE)
Odd == "intranet" :> Target("feed-retrieve", "intranet", TRUE) @@ "plain" :> Target("feed-retrieve", "elsewhere.org", FALSE)
Silent == [send |-> 0, refusal |-> 0, fault |-> 0, redirect |-> 0, cut |-> 0, settle |-> 0, tick |-> 0]

\* Three calls press against the ceilings.
Crowded == EndpointsInit(Gazette @@ Update, [Silent EXCEPT !.send = 3, !.tick = 1])
\* One call meets whatever a source may answer.
Redirected == EndpointsInit(Gazette @@ Odd, [Silent EXCEPT !.send = 1, !.refusal = 1, !.fault = 1, !.redirect = 2,
                                                           !.cut = 1, !.settle = 1])
\* Two calls are cut off while what they ask about is settled.
Settled == EndpointsInit(Gazette @@ Update, [Silent EXCEPT !.send = 2, !.fault = 1, !.cut = 1, !.settle = 1])

---------------------------------------------------------------------------
(* AI drafts.                                                              *)

MCRecorded == [u1 |-> {"gazette", "notice"}, u2 |-> {"gazette", "circular"}]
MCQuoted == [u1 |-> [q1 |-> "s1", q2 |-> "s1", q3 |-> "s2"], u2 |-> [q4 |-> "s4"]]
Of(url) == [status |-> "new", url |-> url, evidence |-> "some", longTitle |-> FALSE]
Addresses == [parses : BOOLEAN, host : {"approved", "subdomain", "other"}, https : BOOLEAN, plain : BOOLEAN]
Elsewhere == [parses |-> TRUE, host |-> "other", https |-> TRUE, plain |-> TRUE]
Sections(summary, questions, citations) == [summary |-> summary, questions |-> questions, citations |-> citations]
Reply(form, sections) == [http |-> "ok", form |-> form, sections |-> sections]
Plain == <<"word">>
Texts == {<<"claim">>, <<"no", "claim">>, <<"no", "no", "claim">>, <<"if", "word", "claim">>, <<"no", "stop", "claim">>,
          <<"no", "word", "claim">>, <<"no", "filler", "claim">>, Plain}
MCReplies ==
    {[http |-> h] : h \in {"aborted", "rejected", "busy"}}
    \cup {Reply("prose", Absent), Reply("object", Sections(<<>>, <<>>, <<>>))}
    \cup {Reply("object", Sections(t, <<Plain>>, <<"gazette">>)) : t \in Texts}
    \cup {Reply("fenced object", Sections(Plain, q, c)) :
             q \in {<<<<"no">>, <<"claim">>>>, <<<<"claim">>>>, <<>>},
             c \in {<<"q1", "q2", "gazette">>, <<"q4", "q4", "notice">>, <<"rumour", "circular", "q3", "gazette">>}}
Unused == [generate |-> 0, discard |-> 0, decide |-> 0, fault |-> 0]
BothNew == "u1" :> Of(Elsewhere) @@ "u2" :> Of(Elsewhere)

\* Two ask, discard and decide.
Drafted == DraftsInit(BothNew, [Unused EXCEPT !.generate = 2, !.discard = 1, !.decide = 1])
\* One asks while calls fail.
Faulty == DraftsInit(BothNew, [Unused EXCEPT !.generate = 1, !.fault = 1])
\* Whatever an update may hold.
AnyUpdate == \E url \in Addresses, evidence \in {"blank", "some", "oversized"}, long \in BOOLEAN :
    DraftsInit([BothNew EXCEPT !["u1"] = [@ EXCEPT !.url = url, !.evidence = evidence, !.longTitle = long]],
               [Unused EXCEPT !.generate = 1])

---------------------------------------------------------------------------
(* The registry and what is watched by hand.                               *)

Located(kind, plain) == [http |-> TRUE, https |-> TRUE, kind |-> kind, plain |-> plain, commercial |-> FALSE]
StarterUrls == {StarterSources[n].url : n \in DOMAIN StarterSources}
MCAddressBook ==
    [u \in {"", "a.rss", "A.rss", "b.atom", "c.rss", "monitor.com"} \cup StarterUrls |->
        CASE u = "" -> [Located("unsupported", "") EXCEPT !.http = FALSE]
          [] u \in {"a.rss", "A.rss"} -> Located("rss", "a.rss")
          [] u = "b.atom" -> Located("atom", u)
          [] u = "c.rss" -> [Located("rss", u) EXCEPT !.https = FALSE]
          [] u = "monitor.com" -> [Located("rss", u) EXCEPT !.commercial = TRUE]
          [] OTHER -> Located(IF u \in {"sukl.feed", "eurlex.rss"} THEN "rss" ELSE "html", u)]
FeedEntry(id, links, summary, content) == [id |-> id, links |-> links, summary |-> summary, content |-> content]
Doc(root, entries) == [root |-> root, closed |-> TRUE, entries |-> entries]
Loose == FeedEntry(<<"n1">>, <<>>, <<"ban", " ", "lifted">>, <<>>)
Tight == FeedEntry(<<"n1">>, <<>>, <<" ", "ban", "lifted">>, <<>>)
Imposed == FeedEntry(<<"n1">>, <<>>, <<"ban", "imposed">>, <<>>)
Unnamed == FeedEntry(<<>>, <<[rel |-> "self", href |-> <<"l1">>], [rel |-> "alternate", href |-> <<"l2">>]>>, <<"a", "&amp;">>, <<"a", "&">>)
Hollow == FeedEntry(<<>>, <<>>, <<" ">>, <<>>)
FeedA == {Doc("rss", <<Loose>>), Doc("rss", <<Tight, Tight>>), Doc("rss", <<Imposed, Hollow>>)}
FeedB == {Doc("atom", <<Unnamed>>), [Doc("atom", <<Unnamed>>) EXCEPT !.closed = FALSE], Doc("html", <<>>)}
MCFeedEditions == [u \in DOMAIN MCAddressBook |->
    CASE u \in {"a.rss", "A.rss"} -> FeedA [] u = "b.atom" -> FeedB [] OTHER -> {Doc("html", <<>>)}]
ServedFirst == [u \in DOMAIN MCAddressBook |->
    CASE u \in {"a.rss", "A.rss"} -> Doc("rss", <<Loose>>) [] u = "b.atom" -> Doc("atom", <<Unnamed>>)
      [] OTHER -> Doc("html", <<>>)]
MCPastes == {<<"ban", " ", "lifted">>, <<"ban", "imposed">>, <<" ">>}
MCEntered == {[labelled |-> TRUE, url |-> u] : u \in {"A.rss", "c.rss"}} \cup {[tier |-> 1], [whole |-> FALSE]}

FeedSource == SourceRow("a.rss", 1, "official_gazette")
OtherSource == SourceRow("b.atom", 3, "news_media")
Untouched == [press |-> 0, edit |-> 0, type |-> 0, fault |-> 0, reload |-> 0, check |-> 0, save |-> 0, paste |-> 0, publish |-> 0]
\* Tabs that have the registry before them.
Registered(rows, budget) == MonitoringInit(rows, ServedFirst, ShowingTab(rows), budget)
Typed == [BlankForm EXCEPT !.labelled = TRUE, !.url = "b.atom"]

\* Two tabs open on a registry that lacks two of the starters, and link them.
Seeding == MonitoringInit(SubSeq(StarterSources, 3, 8), ServedFirst, OpenedTab, [Untouched EXCEPT !.press = 1, !.fault = 1])
\* Both have typed the same source, and register, edit and deactivate.
Registering == MonitoringInit(<<FeedSource>>, ServedFirst, [ShowingTab(<<FeedSource>>) EXCEPT !.form = Typed],
                              [Untouched EXCEPT !.press = 2, !.edit = 1])
\* One of them types what may be another spelling of the address on record.
Retyping == MonitoringInit(<<FeedSource>>, ServedFirst, [ShowingTab(<<FeedSource>>) EXCEPT !.form = Typed],
                           [Untouched EXCEPT !.press = 1, !.type = 1])
\* A feed is checked and saved while its source changes.
Checking == Registered(<<FeedSource, OtherSource>>,
                       [Untouched EXCEPT !.check = 3, !.save = 2, !.publish = 1])
Rerouting == Registered(<<OtherSource>>,
                        [Untouched EXCEPT !.check = 1, !.save = 1, !.press = 1, !.edit = 1, !.type = 1])
\* Texts are pasted.
Pasting == Registered(<<FeedSource, SourceRow("monitor.com", 3, "aggregator"), OtherSource>>,
                      [Untouched EXCEPT !.paste = 2, !.reload = 1])

---------------------------------------------------------------------------
NoMonitoring == Registered(<<>>, Untouched)
NoSweep == Swept({}, PageWith("p1"), <<Entry1>>, Still)
NoDesk == DeskInit(Bare, Pages(ClosedPage, ClosedPage), Quiet)
NoEndpoints == EndpointsInit(Gazette, Silent)
NoDrafts == DraftsInit(BothNew, Unused)

MCInit == \/ (Overlapping \/ Mirrored \/ Failing \/ Assorted \/ Withdrawn \/ Misentered) /\ NoDesk /\ NoEndpoints /\ NoDrafts /\ NoMonitoring
          \/ (Deciding \/ Governing \/ Drafting \/ Alerting \/ Lapsing \/ Reopened \/ Interleaved) /\ NoSweep /\ NoEndpoints /\ NoDrafts /\ NoMonitoring
          \/ (Crowded \/ Redirected \/ Settled) /\ NoSweep /\ NoDesk /\ NoDrafts /\ NoMonitoring
          \/ (Drafted \/ Faulty \/ AnyUpdate) /\ NoSweep /\ NoDesk /\ NoEndpoints /\ NoMonitoring
          \/ (Seeding \/ Registering \/ Retyping \/ Checking \/ Rerouting \/ Pasting)
                 /\ NoSweep /\ NoDesk /\ NoEndpoints /\ NoDrafts
MCSpec == MCInit /\ [][Next]_vars

\* One sweep after another over a page that changes.
ChangingPage == /\ Swept({"gazette"}, PageWith("p1"), <<Entry1>>, [Still EXCEPT !.sweep = 2, !.publish = 1])
                /\ NoDesk /\ NoEndpoints /\ NoDrafts /\ NoMonitoring
ChangedPageSpec == ChangingPage /\ [][Next]_vars

\* Two pages show a rule in force; one pauses it, the other raises an alert from it.
Pausing == /\ DeskInit(Enforced, Pages(Drawn(Enforced), Drawn(Enforced)), [Quiet EXCEPT !.rules = 1, !.alerts = 1])
           /\ NoSweep /\ NoEndpoints /\ NoDrafts /\ NoMonitoring
PausedRuleSpec == Pausing /\ [][Next]_vars
=============================================================================
