-------------------------- MODULE SourceMonitoring --------------------------
(***************************************************************************)
(* The registry of regulatory sources and what an administrator watches by *)
(* hand: registering, editing and deactivating a source, linking the       *)
(* starter sources, checking a feed against the saved baseline, pasting    *)
(* what a source says. A write to the registry is two calls: the whole     *)
(* registry is read and judged in the browser, and a row is written from   *)
(* what was read. Baselines and snapshots of pasted text are kept in the   *)
(* browser's storage, which all its tabs share and each tab reads at its   *)
(* own time.                                                               *)
(*                                                                         *)
(* A text is a sequence of tokens, Gap any run of white space. Names,      *)
(* jurisdictions, categories and methods are chosen from lists or only     *)
(* have to be there: a row says in `labelled` whether they are. The body   *)
(* of the sources' answers is read in one step, and so is a digest made.   *)
(***************************************************************************)
EXTENDS Naturals, Sequences, FiniteSets, Lists, TLC

CONSTANTS Tabs,
          AddressBook, \* address -> [http, https, kind, plain, commercial]
          FeedEditions, \* address -> the documents it may answer with
          Pastes,      \* the texts that are pasted
          Entered,     \* what is typed in the form: partial records of a row
          Unset

VARIABLES registry,  \* the table of sources, a sequence of rows
          station,   \* what each tab holds
          served,    \* address -> the document it answers with now
          shelf,     \* browser storage: source -> its baselines
          kept,    \* browser storage: source -> the words last pasted for it
          proposed,  \* history: <<source, words>> that a check proposed
          remaining  \* bounds: how often each thing may still happen

\* What is typed says nothing of activity; every address may answer with something, and
\* the entries of a document are a list.
ASSUME MonitoringAssumption ==
    /\ \A typed \in Entered : DOMAIN typed \cap {"editing", "active"} = {}
    /\ DOMAIN AddressBook \subseteq DOMAIN FeedEditions
    /\ \A a \in DOMAIN FeedEditions : \A doc \in FeedEditions[a] :
          Len(doc.entries) \in Nat /\ DOMAIN doc.entries = 1..Len(doc.entries)

monitorVars == <<registry, station, served, shelf, kept, proposed, remaining>>

Use(what) == remaining[what] > 0 /\ remaining' = [remaining EXCEPT ![what] = @ - 1]

\* A map with one value set.
Noted(map, key, value) == [k \in DOMAIN map \cup {key} |-> IF k = key THEN value ELSE map[k]]

---------------------------------------------------------------------------
(* The registry.                                                           *)

SupportedTiers == 1..3
SupportedAuthorities == {"primary_regulator", "ministry", "official_gazette", "court", "standards_body",
                         "industry_association", "news_media", "aggregator", "other"}
SignalAuthorities == {"news_media", "aggregator"}

SourceRow(url, tier, authority) ==
    [labelled |-> TRUE, url |-> url, active |-> TRUE, tier |-> tier, authority |-> authority, whole |-> TRUE]

\* The sources that a new registry is given.
StarterSources ==
    <<SourceRow("fda", 1, "primary_regulator"), SourceRow("moph", 1, "ministry"),
      SourceRow("oncb", 1, "primary_regulator"), SourceRow("customs", 1, "primary_regulator"),
      SourceRow("doa", 1, "ministry"), SourceRow("gazette", 1, "official_gazette"),
      SourceRow("sukl.feed", 1, "primary_regulator"), SourceRow("eurlex.rss", 1, "official_gazette")>>

\* Mutant: addresses are compared letter by letter.
SameAddress_Exact(a, b) == a = b

SameAddress(a, b) == AddressBook[a].plain = AddressBook[b].plain
Http(url) == url \in DOMAIN AddressBook /\ AddressBook[url].http

\* The starters that a list lacks, in their order.
MissingStarters(list) ==
    Picked(StarterSources, {n \in DOMAIN StarterSources :
               \A r \in DOMAIN list : ~SameAddress(list[r].url, StarterSources[n].url)})

\* The tier, the kind of authority and the priority have to go together.
GovernanceErrors(row) ==
    {e \in {"tier", "authority", "priority", "contradictory"} :
        CASE e = "tier" -> row.tier \notin SupportedTiers
          [] e = "authority" -> row.authority \notin SupportedAuthorities
          [] e = "priority" -> ~row.whole
          [] OTHER -> row.tier = 1 /\ row.authority \in SignalAuthorities}

\* What is wrong with a registration, as source id or as a new one (0).
RegistrationErrors(candidate, existing, id) ==
    {e \in {"unnamed", "url", "duplicate"} :
        CASE e = "unnamed" -> ~candidate.labelled
          [] e = "url" -> ~Http(candidate.url)
          [] OTHER -> /\ Http(candidate.url)
                      /\ \E r \in DOMAIN existing \ {id} : SameAddress(existing[r].url, candidate.url)}

\* A task writes source id, or a new one (0): a new source is active, another keeps
\* what it was read with where the patch says nothing.
Task(id, patch) == [id |-> id, patch |-> patch]

Patched(row, patch) ==
    [f \in DOMAIN row \cup DOMAIN patch |-> IF f \in DOMAIN patch THEN patch[f] ELSE row[f]]
CandidateOf(task, existing) ==
    IF task.id = 0 THEN Patched([active |-> TRUE], task.patch) ELSE Patched(existing[task.id], task.patch)

Governs(patch) == "tier" \in DOMAIN patch
WriteErrors(task, existing) ==
    LET candidate == CandidateOf(task, existing) IN
    IF task.id \notin {0} \cup DOMAIN existing THEN {"not_found"} ELSE
    RegistrationErrors(candidate, existing, task.id)
        \cup (IF Governs(task.patch) THEN GovernanceErrors(candidate) ELSE {})

\* The row as it is written: what governs a source is left alone unless the patch names it.
RowWritten(task, existing) ==
    LET candidate == CandidateOf(task, existing) IN
    IF task.id = 0 \/ Governs(task.patch) THEN candidate
    ELSE Patched(registry[task.id], [f \in {"labelled", "url", "active"} |-> candidate[f]])

\* The checks of the table.
StorableSource(row) == GovernanceErrors(row) = {}

---------------------------------------------------------------------------
(* A tab.                                                                  *)

\* Two chains of calls: the one that the page starts when it opens, and that of a button.
Lanes == {"effect", "press"}
Resting == [kind |-> "rest", todo |-> <<>>, read |-> Unset]
Chain(kind, todo) == [kind |-> kind, todo |-> todo, read |-> Unset]
Occupied(t) == station[t].jobs["press"].kind # "rest"

BlankForm == [editing |-> 0, labelled |-> FALSE, url |-> "", tier |-> 3, authority |-> "aggregator", whole |-> TRUE]
NoCheck == [source |-> 0, url |-> "", busy |-> FALSE, result |-> Unset, compared |-> Unset, history |-> <<>>]
NoPaste == [source |-> 0, decision |-> Unset]
OpenedTab == [list |-> <<>>, attempted |-> FALSE, form |-> BlankForm, check |-> NoCheck, paste |-> NoPaste,
              snapshots |-> kept, jobs |-> [effect |-> Chain("open", <<>>), press |-> Resting]]

\* The form: its fields take anything at any time, its buttons wait for the one before.
TypeSource(t) ==
    /\ Use("type")
    /\ \E typed \in Entered : station' = [station EXCEPT ![t].form = Patched(@, typed)]
    /\ UNCHANGED <<registry, served, shelf, kept, proposed>>

FormButtons(t) ==
    IF Occupied(t) THEN {} ELSE {"link", "save"} \cup (IF station[t].form.editing # 0 THEN {"cancel"} ELSE {})

ResetSourceForm(t) ==
    /\ "cancel" \in FormButtons(t)
    /\ station' = [station EXCEPT ![t].form = BlankForm]
    /\ UNCHANGED <<registry, served, shelf, kept, proposed, remaining>>

\* No commercial source is watched before its permission is verified.
PolicyDenies(url) == AddressBook[url].commercial

\* A feed that is checked by hand.
SelectedKind(url) == IF Http(url) THEN AddressBook[url].kind ELSE "unsupported"
Eligible(row) ==
    row.active /\ ~PolicyDenies(row.url) /\ Http(row.url) /\ SelectedKind(row.url) \in {"rss", "atom"}

RowButtons(t, s) ==
    {b \in {"edit", "deactivate", "check"} :
        CASE b = "edit" -> ~Occupied(t)
          [] b = "deactivate" -> ~Occupied(t) /\ station[t].list[s].active
          [] OTHER -> ~station[t].check.busy /\ Eligible(station[t].list[s])}

StartEditSource(t, s) ==
    /\ "edit" \in RowButtons(t, s) /\ Use("edit")
    /\ station' = [station EXCEPT ![t].form =
           [f \in DOMAIN BlankForm |-> IF f = "editing" THEN s ELSE station[t].list[s][f]]]
    /\ UNCHANGED <<registry, served, shelf, kept, proposed>>

StartChain(t, kind, todo) ==
    /\ Use("press")
    /\ station' = [station EXCEPT ![t].jobs["press"] = Chain(kind, todo)]
    /\ UNCHANGED <<registry, served, shelf, kept, proposed>>

SubmitSource(t) ==
    /\ "save" \in FormButtons(t)
    /\ LET form == station[t].form
           patch == [f \in DOMAIN form \ {"editing"} |-> form[f]]
       IN StartChain(t, "form", <<Task(form.editing, patch)>>)

SeedStarterSources(t) ==
    /\ "link" \in FormButtons(t) /\ MissingStarters(station[t].list) # <<>>
    /\ LET missing == MissingStarters(station[t].list) IN
       StartChain(t, "seed", [n \in DOMAIN missing |-> Task(0, missing[n])])

RetireSource(t, s) ==
    /\ "deactivate" \in RowButtons(t, s)
    /\ StartChain(t, "row", <<Task(s, [active |-> FALSE])>>)

\* The registry is read, and the next task judged by what it holds.
ReadForWrite(t, lane) ==
    LET job == station[t].jobs[lane] IN
    /\ job.todo # <<>> /\ job.read = Unset
    /\ \/ /\ remaining' = remaining
          /\ station' = [station EXCEPT ![t].jobs[lane] =
                 IF WriteErrors(Head(job.todo), registry) = {} THEN [job EXCEPT !.read = registry] ELSE Resting]
       \/ /\ Use("fault")
          /\ station' = [station EXCEPT ![t].jobs[lane] = Resting]
    /\ UNCHANGED <<registry, served, shelf, kept, proposed>>

\* The row is written. A refusal or a lost answer ends the chain; after the last task of a
\* list of starters the registry is read again.
InsertOrUpdate(t, lane) ==
    LET job == station[t].jobs[lane]
        task == Head(job.todo)
        row == RowWritten(task, job.read)
        id == IF task.id = 0 THEN Len(registry) + 1 ELSE task.id
        after == IF Len(job.todo) > 1 THEN Chain(job.kind, Tail(job.todo))
                 ELSE IF job.kind \in {"open", "seed"} THEN Chain("list", <<>>) ELSE Resting
        shown == job.kind \in {"form", "row"}
    IN
    /\ job.read # Unset
    /\ \E fate \in {"done", "refused", "lost"} :
        /\ IF fate = "done" THEN remaining' = remaining ELSE Use("fault")
        /\ LET ok == fate # "refused" /\ StorableSource(row)
               heard == ok /\ fate = "done"
           IN /\ registry' = IF ~ok THEN registry
                             ELSE IF task.id = 0 THEN Append(registry, row) ELSE [registry EXCEPT ![id] = row]
              /\ station' = [station EXCEPT
                     ![t].jobs[lane] = IF heard THEN after ELSE Resting,
                     ![t].list = IF ~heard \/ ~shown \/ (task.id # 0 /\ id \notin DOMAIN @) THEN @
                                 ELSE Noted(@, id, row),
                     ![t].form = IF heard /\ job.kind = "form" THEN BlankForm ELSE @]
    /\ UNCHANGED <<served, shelf, kept, proposed>>

\* The list arrives. The page that opens links the missing starters itself, once.
ListArrives(t, lane) ==
    LET job == station[t].jobs[lane]
        missing == MissingStarters(registry)
        seeds == job.kind = "open" /\ missing # <<>> /\ ~station[t].attempted
    IN
    /\ job.kind \in {"open", "list"} /\ job.todo = <<>>
    /\ \/ /\ remaining' = remaining
          /\ station' = [station EXCEPT
                 ![t].list = IF seeds THEN @ ELSE registry,
                 ![t].attempted = @ \/ seeds,
                 ![t].jobs[lane] = IF seeds THEN Chain("open", [n \in DOMAIN missing |-> Task(0, missing[n])])
                                   ELSE Resting]
       \/ /\ Use("fault")
          /\ station' = [station EXCEPT ![t].jobs[lane] = Resting]
    /\ UNCHANGED <<registry, served, shelf, kept, proposed>>

\* The tab is opened anew: its handlers are gone.
ReloadTab(t) ==
    /\ Use("reload")
    /\ station' = [station EXCEPT ![t] = OpenedTab]
    /\ UNCHANGED <<registry, served, shelf, kept, proposed>>

---------------------------------------------------------------------------
(* What is compared.                                                       *)

Gap == " "
Words(text) == SelectSeq(text, LAMBDA token : token # Gap)

\* Mutant: only the beginning of a text is compared.
Normalized_Preview(text) == SubSeq(Words(text), 1, IF Words(text) = <<>> THEN 0 ELSE 1)

Normalized(text) == Words(text)

\* The words stand for their digest. A text in blank has none.
Snapshot(text) == IF Normalized(text) = <<>> THEN Unset ELSE Normalized(text)

\* What is said of a text, given what is on record for its identity and for others.
Verdict(text, previous, others) ==
    CASE Snapshot(text) = Unset -> "invalid_source"
      [] Snapshot(text) # Unset /\ Snapshot(text) \in others -> "duplicate"
      [] Snapshot(text) # Unset /\ Snapshot(text) \notin others /\ Snapshot(text) = previous -> "unchanged"
      [] OTHER -> "changed_pending_review"

\* The text of an element: its entities decoded, nothing if it is blank.
Field(raw) ==
    LET decoded == [i \in DOMAIN raw |-> IF raw[i] = "&amp;" THEN "&" ELSE raw[i]] IN
    IF Words(decoded) = <<>> THEN <<>> ELSE decoded

\* The link that stands for the entry, or else the first there is.
AtomLink(links) ==
    LET alternates == SelectSeq(links, LAMBDA k : k.rel = "alternate") IN
    IF links = <<>> THEN <<>> ELSE Field(IF alternates # <<>> THEN alternates[1].href ELSE links[1].href)

RssItem(e) == [link |-> IF e.links = <<>> THEN <<>> ELSE Field(e.links[1].href), id |-> Field(e.id),
               summary |-> Field(e.summary), content |-> Field(e.summary)]
AtomItem(e) == [link |-> AtomLink(e.links), id |-> Field(e.id), summary |-> Field(e.summary),
                content |-> IF Field(e.content) = <<>> THEN Field(e.summary) ELSE Field(e.content)]

ParseError(doc) ==
    CASE doc.root \notin {"rss", "atom"} -> "not_a_feed"
      [] doc.root \in {"rss", "atom"} /\ ~doc.closed -> "malformed_feed"
      [] OTHER -> Unset
FeedItems(doc) ==
    [n \in DOMAIN doc.entries |-> IF doc.root = "rss" THEN RssItem(doc.entries[n]) ELSE AtomItem(doc.entries[n])]

RawText(item) == item.link \o <<Gap>> \o item.id \o <<Gap>> \o item.summary \o <<Gap>> \o item.content
StableId(item) ==
    IF Words(item.id) # <<>> THEN Words(item.id)
    ELSE IF Words(item.link) # <<>> THEN Words(item.link) ELSE <<"anon", RawText(item)>>

\* The items as the page shows them, compared with the words that a baseline has for each.
ItemViews(items, previous) ==
    [n \in DOMAIN items |->
        LET text == RawText(items[n])
            id == StableId(items[n])
            earlier == {Snapshot(RawText(items[m])) : m \in 1..(n - 1)}
        IN [id |-> id, checksum |-> Snapshot(text), words |-> Words(text),
            kind |-> Verdict(text, IF id \in DOMAIN previous THEN previous[id] ELSE Unset, earlier \ {Unset})]]

---------------------------------------------------------------------------
(* Baselines.                                                              *)

Shelved(s) == IF s \in DOMAIN shelf THEN shelf[s] ELSE <<>>
Versions(s) == {b.version : b \in {Shelved(s)[n] : n \in DOMAIN Shelved(s)}}
NextVersion(s) == 1 + (IF Versions(s) = {} THEN 0 ELSE CHOOSE v \in Versions(s) : \A w \in Versions(s) : w <= v)

\* The newest first, and the newest is the current one.
History(s) == SortSeq(Shelved(s), LAMBDA a, b : a.version > b.version)
CurrentBaseline(s) ==
    IF Shelved(s) = <<>> THEN Unset
    ELSE Shelved(s)[CHOOSE n \in DOMAIN Shelved(s) :
             \A m \in DOMAIN Shelved(s) : Shelved(s)[m].version <= Shelved(s)[n].version]

\* The words by identity: of two entries with one identity the later stands.
PreviousSnapshots(baseline) ==
    IF baseline = Unset THEN <<>>
    ELSE LET last(id) == CHOOSE n \in DOMAIN baseline.items : /\ baseline.items[n].id = id
                             /\ \A m \in DOMAIN baseline.items : baseline.items[m].id = id => m <= n
         IN [id \in {baseline.items[n].id : n \in DOMAIN baseline.items} |-> baseline.items[last(id)].checksum]

BaselineItems(result) ==
    LET valid == Picked(result.items, {n \in DOMAIN result.items : result.items[n].checksum # Unset})
    IN [k \in DOMAIN valid |-> [id |-> valid[k].id, checksum |-> valid[k].checksum]]
BaselineOf(s, url, result) == [version |-> NextVersion(s), url |-> url, items |-> BaselineItems(result)]

MaySave(t) ==
    LET check == station[t].check IN
    /\ check.result # Unset /\ check.result.ok
    /\ check.source \in DOMAIN station[t].list /\ check.result.source = check.source
    /\ BaselineItems(check.result) # <<>>

CardButtons(t) ==
    IF station[t].check.result = Unset THEN {} ELSE {"dismiss"} \cup (IF MaySave(t) THEN {"save"} ELSE {})

CheckSourceFeed(t, s) ==
    /\ "check" \in RowButtons(t, s) /\ Use("check")
    /\ station' = [station EXCEPT ![t].check =
           [source |-> s, url |-> station[t].list[s].url, busy |-> TRUE, result |-> Unset,
            compared |-> CurrentBaseline(s), history |-> History(s)]]
    /\ UNCHANGED <<registry, served, shelf, kept, proposed>>

FailedCheck(s) == [ok |-> FALSE, source |-> s, items |-> <<>>]
Completed(s, items) == [ok |-> TRUE, source |-> s, items |-> items]

\* Mutant: what the server read is taken for what was asked.
Retrieved_Trusting(row, asked) == IF row.active THEN served[row.url] ELSE Unset

\* The server reads the address that the registry has now; an answer for another is refused.
Retrieved(row, asked) == IF row.active /\ row.url = asked THEN served[row.url] ELSE Unset

\* The check of a feed, from the answer that comes back (Unset if none does).
CheckedFeed(s, url, doc, previous) ==
    IF ~AddressBook[url].https \/ doc = Unset THEN FailedCheck(s)
    ELSE IF ParseError(doc) # Unset THEN FailedCheck(s)
    ELSE Completed(s, ItemViews(FeedItems(doc), previous))

FeedArrives(t) ==
    LET check == station[t].check IN
    /\ check.busy
    /\ \E lost \in BOOLEAN :
        LET doc == IF lost THEN Unset ELSE Retrieved(registry[check.source], check.url)
            result == CheckedFeed(check.source, check.url, doc, PreviousSnapshots(check.compared))
        IN /\ IF lost THEN Use("fault") ELSE remaining' = remaining
           /\ station' = [station EXCEPT ![t].check.busy = FALSE, ![t].check.result = result]
           /\ proposed' = proposed \cup {<<check.source, result.items[n].words>> : n \in
                              {m \in DOMAIN result.items : result.items[m].kind = "changed_pending_review"}}
    /\ UNCHANGED <<registry, served, shelf, kept>>

SaveBaseline(t) ==
    /\ "save" \in CardButtons(t) /\ Use("save")
    /\ LET s == station[t].check.source
           made == BaselineOf(s, station[t].list[s].url, station[t].check.result)
       IN /\ shelf' = Noted(shelf, s, Append(Shelved(s), made))
          /\ station' = [station EXCEPT ![t].check.compared = made, ![t].check.history = <<made>> \o History(s)]
    /\ UNCHANGED <<registry, served, kept, proposed>>

DismissResult(t) ==
    /\ "dismiss" \in CardButtons(t)
    /\ station' = [station EXCEPT ![t].check = NoCheck]
    /\ UNCHANGED <<registry, served, shelf, kept, proposed, remaining>>

---------------------------------------------------------------------------
(* Pasted text.                                                            *)

\* A text is compared with what the tab has for the source, and with what it has for others;
\* nothing is looked at for a source that must not be watched.
PastedDecision(t, s, text) ==
    LET mine == station[t].snapshots
        others == {mine[r] : r \in DOMAIN mine \ {s}}
        kind == IF s = 0 THEN "invalid_source"
                ELSE Verdict(text, IF s \in DOMAIN mine THEN mine[s] ELSE Unset, others)
    IN IF s # 0 /\ PolicyDenies(station[t].list[s].url) THEN Unset ELSE [kind |-> kind, words |-> Words(text)]

RunMonitoringCheck(t) ==
    /\ Use("paste")
    /\ \E s \in DOMAIN station[t].list \cup {0}, text \in Pastes :
        LET decision == PastedDecision(t, s, text)
            taken == IF decision = Unset THEN FALSE ELSE decision.kind # "invalid_source"
            next == IF taken THEN Noted(station[t].snapshots, s, Snapshot(text)) ELSE station[t].snapshots
        IN /\ station' = [station EXCEPT ![t].snapshots = next, ![t].paste = [source |-> s, decision |-> decision]]
           /\ kept' = IF taken THEN next ELSE kept
           /\ proposed' = IF taken /\ decision.kind = "changed_pending_review"
                          THEN proposed \cup {<<s, decision.words>>} ELSE proposed
    /\ UNCHANGED <<registry, served, shelf>>

\* A source answers with another document.
ServeAnother ==
    /\ Use("publish")
    /\ \E a \in DOMAIN FeedEditions : \E doc \in FeedEditions[a] \ {served[a]} : served' = [served EXCEPT ![a] = doc]
    /\ UNCHANGED <<registry, station, shelf, kept, proposed>>

---------------------------------------------------------------------------
\* Tabs that were opened just now, or whose page shows the registry.
ShowingTab(rows) == [OpenedTab EXCEPT !.list = rows, !.attempted = TRUE, !.jobs["effect"] = Resting]
MonitoringInit(rows, docs, tab, budget) ==
    /\ registry = rows /\ served = docs
    /\ shelf = <<>> /\ kept = <<>> /\ proposed = {}
    /\ station = [t \in Tabs |-> tab]
    /\ remaining = budget

MonitoringNext ==
    \/ ServeAnother
    \/ \E t \in Tabs :
        \/ TypeSource(t) \/ ResetSourceForm(t) \/ SubmitSource(t) \/ SeedStarterSources(t) \/ ReloadTab(t)
        \/ FeedArrives(t) \/ SaveBaseline(t) \/ DismissResult(t) \/ RunMonitoringCheck(t)
        \/ \E s \in DOMAIN station[t].list : StartEditSource(t, s) \/ RetireSource(t, s) \/ CheckSourceFeed(t, s)
        \/ \E lane \in Lanes : ReadForWrite(t, lane) \/ InsertOrUpdate(t, lane) \/ ListArrives(t, lane)

---------------------------------------------------------------------------
(* Properties.                                                             *)

\* A source that was deactivated does not come back, and no address is registered twice
\* (complianceSourceRegistry.ts, updateRegulatorySource and validateRegulatorySource),
\* unless a write lands on a registry that another has changed since it was read.
Revived == \E s \in DOMAIN registry : ~registry[s].active /\ registry'[s].active
Doubled ==
    \E r, s \in DOMAIN registry' :
        /\ r < s /\ AddressBook[registry'[r].url].plain = AddressBook[registry'[s].url].plain
        /\ ~(s \in DOMAIN registry /\ AddressBook[registry[r].url].plain = AddressBook[registry[s].url].plain)
Overtaken ==
    \E t \in Tabs, lane \in Lanes :
        /\ station[t].jobs[lane].read \notin {Unset, registry}
        /\ station'[t].jobs[lane] # station[t].jobs[lane]
UndoneOnlyByOverlap == [][Revived \/ Doubled => Overtaken]_monitorVars

\* What a check calls unchanged or a duplicate was proposed for review before, in this
\* browser: by a check of that feed (runManualRssMonitoring against the saved baseline) or,
\* of pasted text, for some source (runMonitoringCheck against the kept snapshots).
KnownKinds == {"unchanged", "duplicate"}
KnownWasProposed ==
    \A t \in Tabs :
        /\ station[t].check.result # Unset =>
               \A n \in DOMAIN station[t].check.result.items :
                   LET item == station[t].check.result.items[n] IN
                   item.kind \in KnownKinds => <<station[t].check.source, item.words>> \in proposed
        /\ station[t].paste.decision # Unset =>
               (station[t].paste.decision.kind \in KnownKinds =>
                    \E p \in proposed : p[2] = station[t].paste.decision.words)

\* The result on a page is of the address that the page had for the source
\* (serverProxyRssFetch.ts refuses an answer for another).
ResultIsOfItsAddress ==
    \A t \in Tabs :
        LET check == station[t].check IN
        check.result # Unset =>
            (check.result.ok =>
                 \E doc \in FeedEditions[check.url] :
                     ParseError(doc) = Unset /\
                     [n \in DOMAIN check.result.items |-> check.result.items[n].id]
                         = [n \in DOMAIN doc.entries |-> StableId(FeedItems(doc)[n])])
=============================================================================
