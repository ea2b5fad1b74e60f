------------------------ MODULE WatchtowerIngestion ------------------------
(***************************************************************************)
(* The sweep over the registered regulatory sources, run by the scheduler  *)
(* (api/cron/ingest) and by the panel of the watchtower page: per source a *)
(* run row is opened, the source is read, each entry becomes a candidate   *)
(* legal update or is recognised, its evidence is recorded, the run is     *)
(* closed. A call to the database may be refused, or take effect and have  *)
(* its answer lost; a worker may stop anywhere, and nothing resumes it.    *)
(*                                                                         *)
(* An entry is [ext, body]: the publisher's identity and what it says. The *)
(* digest of a feed entry covers both, the digest of a page its text only. *)
(* The address of a source is [scheme, private, port, looks]: the host may *)
(* be a private one, a port may be named, the path looks like some kind of *)
(* document. What is served there is [media, whole, entries].              *)
(***************************************************************************)
EXTENDS Naturals, Sequences, Functions, FiniteSets

CONSTANTS Workers,     \* "cron" reads every active source, a panel only those with an automatic method
          SourceOrder, \* the sources, in the order compareSourcesForMonitoring gives them
          Editions,    \* what each source may come to serve
          None

VARIABLES source,  \* the registry: [active, method, url], the method None if not chosen
          site,    \* what each source serves now
          runs,    \* watchtower_ingestion_runs, by id
          items,   \* watchtower_ingestion_items
          updates, \* the legal updates that ingestion created
          worker,  \* the sweep each worker is in
          fuel,    \* bounds: how often each thing may still happen
          read     \* history: the entries that each run read

ingestVars == <<source, site, runs, items, updates, worker, fuel, read>>

Sources == Range(SourceOrder)

\* A document is a list of entries, a page a list of one (complianceHtmlWatchConnector.ts).
Document(doc) ==
    doc.entries \in Seq(Range(doc.entries)) /\ (doc.media = "html" => Len(doc.entries) = 1)
Failures == {"url_unsafe", "not_https", "unsupported_connector", "source_unavailable",
             "invalid_content_type", "malformed_feed"}
ASSUME IngestionAssumption ==
    /\ SourceOrder \in Seq(Sources) /\ None \notin Failures
    /\ \A s \in Sources : \A doc \in Editions[s] : Document(doc)

Blank == "blank"
Nothing == [hashes |-> {}, exts |-> {}]
Unknown == [decision |-> None, linked |-> FALSE]
Idle == [stage |-> "idle", todo |-> {}, known |-> Nothing, run |-> 0, feed |-> <<>>,
         seen |-> Nothing, now |-> Unknown, outs |-> <<>>, verdict |-> None, reason |-> None]
Burn(what) == fuel[what] > 0 /\ fuel' = [fuel EXCEPT ![what] = @ - 1]

\* A call either takes effect and answers; or it is refused; or only its answer is lost.
Fates == {"done", "refused", "lost"}
Fate(f) == IF f = "done" THEN fuel' = fuel ELSE Burn("fault")
Applied(f) == f # "refused"

---------------------------------------------------------------------------
(* How a source is read.                                                   *)

\* What the path of an address looks like.
InferConnectorKind(url) == IF url.scheme \in {"http", "https"} THEN url.looks ELSE "unsupported"

\* The method chosen for the source decides, else what its address looks like.
ConnectorKind(s) ==
    IF source[s].method \notin {None, "manual"} THEN source[s].method ELSE InferConnectorKind(source[s].url)
Page(s) == ConnectorKind(s) = "html"

\* An address that no request is made to.
UrlSafety(url) ==
    CASE url.scheme \notin {"http", "https"} -> "url_unsafe"
      [] url.scheme = "http" -> "not_https"
      [] url.private \/ url.port -> "url_unsafe"
      [] OTHER -> None

\* A plan is made before a request, for the kind that the address looks like: the
\* connector for feeds takes feeds, the one for pages takes pages.
Planned(s) ==
    LET taken == IF Page(s) THEN {"html"} ELSE {"rss", "atom"} IN
    IF UrlSafety(source[s].url) # None THEN UrlSafety(source[s].url)
    ELSE IF InferConnectorKind(source[s].url) \notin taken THEN "unsupported_connector" ELSE None

\* What is wrong with a document as a feed.
FeedFailure(doc) ==
    CASE doc.media # "xml" -> "invalid_content_type" [] ~doc.whole -> "malformed_feed" [] OTHER -> None

\* What is wrong with a document as a page.
PageFailure(doc) ==
    CASE doc.media # "html" -> "invalid_content_type"
      [] Head(doc.entries).body = Blank -> "source_unavailable"
      [] OTHER -> None

Hash(s, e) == IF Page(s) THEN <<e.body>> ELSE <<e.ext, e.body>>
Key(e) == IF e.ext = None THEN e.body ELSE e.ext
Identity(s, e) == IF e.ext = None THEN {} ELSE {<<s, e.ext>>}

---------------------------------------------------------------------------
(* What an entry is taken for.                                             *)

\* The connector already drops an entry that repeats an earlier one of the feed.
RepeatsEarlier(s, feed, n) ==
    \E m \in 1..(n - 1) : feed[m].body # Blank /\ Hash(s, feed[m]) = Hash(s, feed[n])

Decision(s, feed, n) ==
    CASE feed[n].body = Blank -> "invalid_source"
      [] RepeatsEarlier(s, feed, n) -> "duplicate"
      [] OTHER -> "changed_pending_review"

\* Of what is left, the content and then the identity is looked up.
Classify(s, feed, n, known, seen) ==
    CASE Decision(s, feed, n) = "invalid_source" -> "invalid"
      [] Decision(s, feed, n) = "duplicate" -> "unchanged"
      [] OTHER -> IF Hash(s, feed[n]) \in known.hashes \cup seen.hashes THEN "duplicate_content_hash"
                  ELSE IF Identity(s, feed[n]) \cap (known.exts \cup seen.exts) # {} THEN "duplicate_external_id"
                  ELSE "new"

With(index, s, e) == [hashes |-> index.hashes \cup {Hash(s, e)}, exts |-> index.exts \cup Identity(s, e)]

\* Two unique indexes decide which of two candidates comes first.
Taken(s, e) ==
    \E u \in updates : u.hash = Hash(s, e) \/ (e.ext # None /\ u.source = s /\ u.ext = e.ext)

KnownIdentity == [hashes |-> {u.hash : u \in updates},
                  exts |-> {<<u.source, u.ext>> : u \in {v \in updates : v.ext # None}}]

Count(outs, kinds) == Cardinality({n \in DOMAIN outs : outs[n] \in kinds})
Tally(outs) == [seen |-> Len(outs), new |-> Count(outs, {"new"}),
                failed |-> Count(outs, {"invalid", "error"})]
SummarizeRun(outs) == IF Tally(outs).failed > 0 THEN "partial" ELSE "succeeded"

---------------------------------------------------------------------------
(* A worker's sweep.                                                       *)

\* The sources that are left are taken in their order.
First(todo) ==
    LET at == {n \in DOMAIN SourceOrder : SourceOrder[n] \in todo}
    IN SourceOrder[CHOOSE n \in at : \A m \in at : n <= m]
Now(w) == First(worker[w].todo)
Nth(w) == Len(worker[w].outs) + 1
Entry(w) == worker[w].feed[Nth(w)]

\* On to the next source, or the sweep is over.
Onward(me) ==
    LET rest == me.todo \ {First(me.todo)} IN
    IF rest = {} THEN Idle
    ELSE [Idle EXCEPT !.stage = "open", !.todo = rest, !.known = me.known]

StartSweep(w, listed) ==
    /\ worker[w].stage = "idle" /\ Burn("sweep")
    /\ worker' = [worker EXCEPT ![w] = [Idle EXCEPT !.stage = "known",
                      !.todo = listed]]
    /\ UNCHANGED <<source, site, runs, items, updates, read>>

\* The scheduler reads the active sources. That there may be none to sweep is left out.
RunScheduledIngestion(w) ==
    LET active == {s \in Sources : source[s].active} IN
    w = "cron" /\ active # {} /\ StartSweep(w, active)

\* A panel has the active sources with an automatic method on its screen.
EnabledAutoSources == {s \in Sources : source[s].active /\ source[s].method \notin {None, "manual"}}
HandleRunIngestion(w) == w # "cron" /\ EnabledAutoSources # {} /\ StartSweep(w, EnabledAutoSources)

\* Without the known identities the whole sweep fails before any run is opened.
FetchKnownIdentity(w) ==
    /\ worker[w].stage = "known"
    /\ \E f \in Fates \ {"lost"} :
           /\ Fate(f)
           /\ worker' = [worker EXCEPT ![w] =
                  IF f = "done" THEN [@ EXCEPT !.stage = "open", !.known = KnownIdentity] ELSE Idle]
    /\ UNCHANGED <<source, site, runs, items, updates, read>>

\* A run that could not be opened is given up; its row may be there all the same.
RunRow(s) == [source |-> s, status |-> "running", reason |-> None, tally |-> Tally(<<>>)]
Open(w, opened) ==
    /\ worker[w].stage = "open"
    /\ \E f \in Fates :
           /\ Fate(f)
           /\ runs' = IF Applied(f) THEN Append(runs, RunRow(Now(w))) ELSE runs
           /\ read' = IF Applied(f) THEN Append(read, {}) ELSE read
           /\ worker' = [worker EXCEPT ![w] =
                  IF f = "done" THEN [opened EXCEPT !.run = Len(runs')] ELSE Onward(@)]
    /\ UNCHANGED <<source, site, items, updates>>

\* A source read by hand gets a run that says so.
RecordUnfetchedRun(w) ==
    /\ worker[w].todo # {} /\ source[Now(w)].method = "manual"
    /\ Open(w, [worker[w] EXCEPT !.stage = "close", !.verdict = "skipped", !.reason = "source_disabled"])

OpenRun(w) ==
    /\ worker[w].todo # {} /\ source[Now(w)].method # "manual"
    /\ Open(w, [worker[w] EXCEPT !.stage = "fetch"])

\* What keeps a worker from reading a source, None if nothing does. The server that
\* a panel reads through refuses a source deactivated meanwhile.
Unreadable(w, s) ==
    IF Planned(s) # None THEN Planned(s)
    ELSE IF w # "cron" /\ ~source[s].active THEN "source_unavailable"
    ELSE IF Page(s) THEN PageFailure(site[s]) ELSE FeedFailure(site[s])

RunConnector(w) ==
    /\ worker[w].stage = "fetch"
    /\ \E f \in Fates \ {"lost"} :
           LET s == Now(w)
               failure == IF Planned(s) = None /\ f = "refused" THEN "source_unavailable" ELSE Unreadable(w, s)
           IN /\ Fate(f)
              /\ IF failure = None
                 THEN /\ worker' = [worker EXCEPT ![w].feed = site[s].entries, ![w].stage = "entry"]
                      /\ read' = [read EXCEPT ![worker[w].run] = Range(site[s].entries)]
                 ELSE /\ worker' = [worker EXCEPT ![w].stage = "close", ![w].verdict = "failed",
                                                  ![w].reason = failure]
                      /\ read' = read
    /\ UNCHANGED <<source, site, runs, items, updates>>

Recognise(w) ==
    /\ worker[w].stage = "entry" /\ Nth(w) <= Len(worker[w].feed)
    /\ LET d == Classify(Now(w), worker[w].feed, Nth(w), worker[w].known, worker[w].seen) IN
       worker' = [worker EXCEPT ![w].now.decision = d,
                      ![w].stage = IF d = "new" THEN "candidate" ELSE "evidence",
                      ![w].seen = IF d = "new" THEN With(@, Now(w), Entry(w)) ELSE @]
    /\ UNCHANGED <<source, site, runs, items, updates, fuel, read>>

\* The legal update that an entry becomes, with the run and the item it comes from.
Candidate(w) == [source |-> Now(w), ext |-> Entry(w).ext, hash |-> Hash(Now(w), Entry(w)),
                 run |-> worker[w].run, nth |-> Nth(w)]

\* Mutant: a candidate that could not be written is taken for a known one.
InsertCandidate_FailedIsDuplicate(w) ==
    /\ worker[w].stage = "candidate"
    /\ LET e == Entry(w) IN
       \E f \in Fates :
           /\ Fate(f)
           /\ updates' = IF Applied(f) /\ ~Taken(Now(w), e) THEN updates \cup {Candidate(w)} ELSE updates
           /\ worker' = [worker EXCEPT ![w] =
                  IF f = "done" /\ ~Taken(Now(w), e)
                  THEN [@ EXCEPT !.stage = "evidence", !.now.linked = TRUE, !.known = With(worker[w].known, Now(w), e)]
                  ELSE [@ EXCEPT !.stage = "evidence",
                                 !.now.decision = "duplicate_content_hash"]]
    /\ UNCHANGED <<source, site, runs, items, read>>

\* A unique violation of either index counts as a known content, any other failure
\* as an item that failed.
InsertCandidate(w) ==
    /\ worker[w].stage = "candidate"
    /\ LET e == Entry(w) IN
       \E f \in Fates :
           /\ Fate(f)
           /\ updates' = IF Applied(f) /\ ~Taken(Now(w), e) THEN updates \cup {Candidate(w)} ELSE updates
           /\ worker' = [worker EXCEPT ![w] =
                  IF f = "done" /\ ~Taken(Now(w), e)
                  THEN [@ EXCEPT !.stage = "evidence", !.now.linked = TRUE, !.known = With(worker[w].known, Now(w), e)]
                  ELSE [@ EXCEPT !.stage = "evidence",
                                 !.now.decision = IF f = "done" THEN "duplicate_content_hash" ELSE "error"]]
    /\ UNCHANGED <<source, site, runs, items, read>>

\* One row per run and key, and only while the run is open.
Recordable(w) ==
    /\ runs[worker[w].run].status = "running"
    /\ \A i \in items : ~(i.run = worker[w].run /\ i.key = Key(Entry(w)))

\* Mutant: evidence that could not be written leaves the decision as it was.
Regraded_Kept(d, ok) == d

\* Evidence that could not be written turns a new entry, and only that, into a failure.
Regraded(d, ok) == IF ~ok /\ d = "new" THEN "error" ELSE d

ItemRow(w) == [run |-> worker[w].run, key |-> Key(Entry(w)), nth |-> Nth(w),
               decision |-> worker[w].now.decision, linked |-> worker[w].now.linked]
InsertItem(w) ==
    /\ worker[w].stage = "evidence"
    /\ \E f \in Fates :
           LET me == worker[w] IN
           /\ Fate(f)
           /\ items' = IF Applied(f) /\ Recordable(w)
                       THEN items \cup {ItemRow(w)}
                       ELSE items
           /\ worker' = [worker EXCEPT ![w].stage = "entry", ![w].now = Unknown,
                   ![w].outs = Append(@, Regraded(me.now.decision, f = "done" /\ Recordable(w)))]
    /\ UNCHANGED <<source, site, runs, updates, read>>

Summarize(w) ==
    /\ worker[w].stage = "entry" /\ Nth(w) > Len(worker[w].feed)
    /\ worker' = [worker EXCEPT ![w].stage = "close", ![w].verdict = SummarizeRun(worker[w].outs),
                   ![w].reason = IF SummarizeRun(worker[w].outs) = "partial" THEN "partial_item_failure" ELSE None]
    /\ UNCHANGED <<source, site, runs, items, updates, fuel, read>>

\* Only a running run is closed.
ClosedRow(run, me) ==
    IF run.status # "running" THEN run
    ELSE [run EXCEPT !.status = me.verdict, !.reason = me.reason, !.tally = Tally(me.outs)]

\* The worker does not care whether the run could be closed.
CloseRun(w) ==
    /\ worker[w].stage = "close"
    /\ \E f \in Fates :
           /\ Fate(f)
           /\ runs' = IF Applied(f) THEN [runs EXCEPT ![worker[w].run] = ClosedRow(@, worker[w])] ELSE runs
    /\ worker' = [worker EXCEPT ![w] = Onward(@)]
    /\ UNCHANGED <<source, site, items, updates, read>>

\* The function is cut off or the tab is closed.
Crash(w) ==
    /\ worker[w].stage # "idle" /\ Burn("crash")
    /\ worker' = [worker EXCEPT ![w] = Idle]
    /\ UNCHANGED <<source, site, runs, items, updates, read>>

---------------------------------------------------------------------------
(* The registry and the sources.                                           *)

Publish(s) ==
    /\ Burn("publish")
    /\ \E edition \in Editions[s] \ {site[s]} : site' = [site EXCEPT ![s] = edition]
    /\ UNCHANGED <<source, runs, items, updates, worker, read>>

DeactivateSource(s) ==
    /\ source[s].active /\ Burn("deactivate")
    /\ source' = [source EXCEPT ![s].active = FALSE]
    /\ UNCHANGED <<site, runs, items, updates, worker, read>>

IngestionInit(registry, served, budget) ==
    /\ source = registry /\ site = served /\ fuel = budget
    /\ runs = <<>> /\ items = {} /\ updates = {} /\ read = <<>>
    /\ worker = [w \in Workers |-> Idle]

Sweep(w) ==
    \/ RunScheduledIngestion(w) \/ HandleRunIngestion(w) \/ FetchKnownIdentity(w)
    \/ RecordUnfetchedRun(w) \/ OpenRun(w) \/ RunConnector(w) \/ Recognise(w)
    \/ InsertCandidate(w) \/ InsertItem(w) \/ Summarize(w) \/ CloseRun(w) \/ Crash(w)
IngestionNext == (\E w \in Workers : Sweep(w)) \/ (\E s \in Sources : Publish(s) \/ DeactivateSource(s))

---------------------------------------------------------------------------
(* Properties.                                                             *)

Closed(r) == runs[r].status \in {"succeeded", "partial"}
Candidates(r) == {u \in updates : u.run = r}

\* A run that reports success has left no entry behind: whatever it read is a legal
\* update, or an entry of the same source and identity is, or it came in this run after
\* an entry of its identity that another source had brought; although two sweeps overlap,
\* calls fail and the indexes refuse the later of two candidates
\* (watchtowerIngestionService.ts:178, migration 25:326).
Covers(u, s, e) == u.hash = Hash(s, e) \/ <<u.source, u.ext>> \in Identity(s, e)
Stands(s, e, entries) ==
    \E d \in entries, u \in updates :
        (d = e \/ Identity(s, d) \cap Identity(s, e) # {}) /\ Covers(u, s, d)
CleanRunMissesNothing ==
    \A r \in DOMAIN runs : runs[r].status = "succeeded" =>
        \A e \in read[r] : Stands(runs[r].source, e, read[r])

\* The counters of a closed run account for the legal updates it created: none
\* is beyond those counted new or failed, and each one counted new has its
\* update and the evidence row that links it (watchtowerIngestionService.ts:186-248).
ClosedRunAccountsForItsCandidates ==
    \A r \in DOMAIN runs : Closed(r) =>
        /\ Cardinality(Candidates(r)) <= runs[r].tally.new + runs[r].tally.failed
        /\ runs[r].tally.new <= Cardinality(
               {u \in Candidates(r) : \E i \in items : i.run = r /\ i.nth = u.nth /\ i.linked})

\* A page that a successful run found changed is put before a reviewer as a
\* legal update of its own (complianceHtmlWatchConnector.ts:17).
ChangedPageIsProposed ==
    \A r \in DOMAIN runs : (runs[r].status = "succeeded" /\ Page(runs[r].source)) =>
        \A e \in read[r] : \E u \in updates : u.hash = Hash(runs[r].source, e)
=============================================================================
