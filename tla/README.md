# Verification of the DDP brokerage platform

TLA+ models of the parts of this repository that decide who may hold, draw, ship
and release controlled stock, and of what people are shown while they do so; the
TLC runs that check them on small instances; and theorems that TLAPS checks for
every value of the constants.

The platform is a React application (`src/`) over a Supabase (Postgres) database,
with a few serverless endpoints (`api/`) and scripts (`scripts/`). Numbered
migrations at the root hold tables, triggers, row policies and functions. What
several people do to one row at once is decided in the database; what they are
shown, and what is sent on stale screens, in the browser. Calls between the two
are answered, refused, or take effect with their answer lost.

Source lines are cited as `44:389-393` for lines 389 to 393 of
`44_RESERVATION_LEDGER_HARDENING.sql`, likewise for the other numbers, and by
file name for the rest.

## 1. Inventory

| Part | State it keeps | Operations | What is hard | What makes it correct | Here |
|---|---|---|---|---|---|
| Reservation ledger (44) | reservations, releases, commercial log | insert, release, cancel, convert | two inserts race; time ends holds silently | nothing admitted past the quantity; holds only on published batches; a waiter is served | modelled, proved |
| Permit ledger (40) | permits, draw-downs | draw, reverse, edit | draws race; double or crossed reversals; expiry | draws within the limit; reversals make no headroom | permits: modelled, proved; licences are a fact of the gate |
| Export gate (42) | evaluations, overrides | evaluate, override, review | ten SELECTs without a snapshot; absent records; ON DELETE actions | a pass was earned; signatures survive | modelled, proved |
| Destination rulesets (41) | rulesets | insert, update, delete | the overlap trigger locks nothing | two in force only by the admitted race | modelled, proved |
| Organisations (39), inventory batches (54-60) | state, quantity, publication | verify, suspend, edit | edits ignore the ledger | | as the ledgers meet them |
| Batches, farms and their history (35, `db.ts`, `App.tsx`) | status, history, requests, files, photographs | submit, edit, decide, release, chase, request | a status and its history in two calls; stale screens; one handler, many calls | what is shown as done is recorded; released content stands; no failure is swallowed | modelled, proved |
| Document review (65, 68) | register, opens, decisions, trail | open, decide, notify | two reviewers; a decision whose notice fails | the trail tells every decision; a screen never stays "recording" | modelled in part, proved but for its end |
| COA reading (`coaExtraction`, `serverCoaExtraction`, ...) | extraction rows, slots | admit, read, reconcile, store | a model may reply anything; two calendars; two conventions for THC | rows can be stored; fields shown do not contradict each other | modelled in part, proved |
| Storage backup (`scripts/storage-backup`) | archives, baseline manifest | daily backup, restore | listing by offset while files come and go; empty answers without errors | what stood is archived; "verified" is true | modelled, proved |
| Enquiries, accounts (36, `server*Provisioning`) | enquiries, throttle, accounts, memberships | ask, triage, invite, provision, resend | four writes without a transaction; lost answers | nobody is told more than is recorded; a member is a buyer | modelled, proved |
| Buyer packs, decisions, overrides (10, 17, 23, 29, 30) | decisions, overrides, snapshots, browser copies | decide, override, issue | tables that may be missing; stale page; failed reads that look like empty ones | a pack goes out on a standing decision with every check read | modelled, proved |
| Operations desk (`operationsDesk`, `App.tsx`) | lists of three loads | load, refresh, chase | a failed or superseded load | the desk says what waits or that it does not know | modelled in part, proved |
| Session, page guard (`App.tsx`, `auth.ts`, guards) | session, profile, page, shared arrays | load, sign in and out, set password | late answers of somebody else's session | nobody sees another's rows; no page is reached without its role | modelled, proved |
| Farmer's forms | draft, wizard, stock form, profile | edit, save, submit | a warning acknowledged for other figures; a whole row sent back | what is handed over was shown; the status is the administrator's | modelled, proved |
| Watchtower ingestion (9, 25) | runs, items, updates | sweep, record, close | two sweeps, crash, refused insert | a clean run missed nothing | modelled, proved |
| Watchtower page (26) | updates, reviews, rules, alerts, audit | draft, decide, approve, alert | three to five calls a button; old lists | "saved" means audited; an alert links no rule its page took out of force | modelled in part, proved |
| Retrieval and AI endpoints | attempts | admit, fetch, summarise | ceilings under concurrency; redirects | calls within the ceiling | modelled, proved |
| AI drafts | drafts, updates | ask, guard, show | stale copy; wording of a model | a draft shown passed both guards | modelled in part, proved |
| Source registry, manual monitoring | sources, baselines | register, edit, check, paste | tabs over one storage; a source edited during a check | nothing is called known that was never proposed | modelled, proved |
| Evidence requests (24, 28), AI job queue (47-51), second factor (43), grants and row policies (11-15, 27, 37, 38, 58, 61, 67, 70, 71), predicates (45, 46) | | | | | not modelled, section 7 |

How they interact. An insert into `reservations` reads the batch (locked) and the
organisation (not locked). The gate reads organisations, rulesets, permits,
draw-downs, licences, documents and screenings and locks none. A batch a farmer
submits is decided on screens that hold lists loaded earlier; the same lists feed
the operations desk, the overview and the buyer pack, whose issuing function reads
decision and results again on the server. An enquiry becomes "invited" by the call
that makes its account. A sweep and the manual check share the registry of sources;
updates they propose are decided on the watchtower page, which asks the AI
endpoint for drafts; both endpoints count their calls in one table.

## 2. Modules

| Module | Models | State and actions |
|---|---|---|
| `QuantityLedger`, `KilogramSum` | what seam 2 asks of a quantity kept as a ledger | abstract: `capacity`, `held`; `Admit`, `GiveBack`, `Resize` |
| `ReservationLedger` | 44 | one action per statement of the insert trigger; releases, edits, `Tick` |
| `PermitLedger` | the ledger of 40 | `CheckInsert` is either branch of the trigger; reversals, `EditPermit`, `NextDay` |
| `ExportGate` | 42:399-745 | one action per SELECT, `Conclude`; `Change*` replaces a file by any other |
| `GateOverrides` | 42:122-393 | atomic statements; `DeleteProfile` meets CHECK, SET NULL, RESTRICT and trigger |
| `DestinationRulesets` | 41 | `Check`, `Write` with index waits, `CommitWrite` |
| `SupplierTables` | 35, 65, 68, tables of `db.ts` | operators: the tables after one statement, and when a policy lets it through |
| `BatchDesk` | handlers of `App.tsx` that write batches and farms | `view`, `banner`, `calls`: one step per statement of a handler |
| `EvidenceDesk` | `DDPEvidenceReview` | loads that arrive apart, opens, decisions and their notice |
| `SupplierFiles` | composes the three | farmer and two administrators over one set of tables |
| `CoaReading` | certificate endpoint and its checks | a call step by step, `reconcileReport`, the calendars |
| `StorageBackup` | backup, restore and the workflow | one action per page, entry and download of the walk; archive, baseline |
| `SupplierIntake`, `Provisioning`, `SupplierOnboarding` | public form and throttle; the provisioning endpoints; the enquiries page between them | each call of the database or of Admin-Auth is a step |
| `PackTables`, `BuyerPacks` | stores with their fallback to the browser; the pages | reads begun on opening, presses call by call, `migration` of tables |
| `OperationsDesk` | loads, queues, what is said of a missing source | `held` (tables), `lists` (App), `flight` (reads) |
| `PageGuard`, `BrowserSession` | where a request for a page lands; one tab of the console | events of the session, profile queries, loads, set-password link, a form under way |
| `FarmerForms` | the nine-step application, the stock form, the advanced profile, trigger 19 | edits, checks, warning, licence box, photographs, save, decision |
| `WatchtowerIngestion` | the sweep of scheduler and panel | run, read, classify, insert, evidence, close |
| `WatchtowerDesk` | `DDPComplianceWatchtower` | a handler's calls one after another, lists set from those it was drawn with |
| `WatchtowerEndpoints` | `feed-retrieve`, `ai-summary` and their throttle | admission under a lock, requests out, cut-offs |
| `AiDrafts` | a draft from button to panel | what is read, sent, replied, guarded, shown |
| `SourceMonitoring` | registry and monitoring by hand | read-judge-write of the registry, checks, baselines, pastes |
| `MC...` | instances for TLC (`MCOffice` puts `MCFrontOffice` and `MCExportGate` into one) | scenes: initial states and how often each thing may happen |
| `Lists` | `Array.filter` by positions | `Picked` |
| `ReservationLedgerProofs`, `PermitLedgerProofs`, `ExportGateProofs`, `FrontOfficeProofs`, `BrowserProofs`, `SupplierFilesProofs`, `WatchtowerProofs`, `CountingProofs` | theorems | |

Steps. In the database one action is one statement that reads or writes something
others can see (READ COMMITTED); a transaction that fails leaves nothing. In the
browser one action is what runs between two awaits: a handler up to its next
call, with the render and effects that follow it. A call has three outcomes:
answered, refused without effect, and effective with its answer lost. What a
handler read before its call is kept in its record (`calls`, `job`, `act`), so a
stale list or closure stays stale. A bound is a field of the module's last
variable (`left`, `fuel`, `spare`, `chance`, `remaining`, `rounds`), counting down
how often each kind of event may still happen.

Data. Documents, names and payloads are model values; a text is a sequence of a
few kinds of tokens where a guard reads it (`AiDrafts`, `SourceMonitoring`);
an amount is a natural number of its smallest unit; a digest is what it digests;
a path is a sequence of names.

History variables are marked as such in the modules' VARIABLES. They record what
a property has to compare with, and no action reads them.

## 3. Runs

| Run | Question | Instance | Result |
|---|---|---|---|
| `reservation` | can overlapping inserts, endings and edits promise a batch twice, or hold kilograms of one that is not published; does every insert end? | 1 batch of 1 or 2 kg, 2 sessions, 2 rows, DDP, a buyer, an exporter, instants 0 to 2 | passes |
| `permit_race` | is a draw an atomic admission, do reversals keep the sum honest? | 2 permits, 2 sessions, 4 rows, 2 dates | passes |
| `permit_expired` | are draws made only in force? | 1 permit, 1 row | violated, 5 |
| `front_office` | enquiries and accounts; the desk; packs; what is a pass of the gate worth, and the signature under an override; when do two rulesets meet? | 2 visits, 2 calls, 2 organisations; 1 farm, 1 batch; 2 administrators, 1 batch, 2 kinds of failure; every kind of file with no change, few with 1 change; 3 people, 2 overrides; 2 sessions, 2 versions, 2 days | passes |
| `healthy_overview` | may the overview call an empty queue healthy? | the desk with one failing read | violated, 5 |
| `session` | one tab under late, refused and lost answers; the farmer's forms | 5 people of each role, 2 events, 1 change by another tab; forms with 1 to 4 edits, 2 farms | passes |
| `form_outlives_session` | can a form show one farmer another's farm? | the same | violated, 5 |
| `supplier_files` | the supplier's handing in and the review of it; certificates; backup and restore | 1 batch, 3 farms, 2 documents, 2 photographs, 2 administrators, 2 or 3 presses; 2 certificate calls; 4 files in 2 buckets, pages of 2 | passes |
| `lost_certificate` | is a lost certificate shown? | the same | violated, 5 |
| `watchtower` | sweeps, page, endpoints, drafts, registry | 2 workers over 3 sources, two of which may bring the same entry; 2 administrators; 3 calls; 2 reviewers; 2 tabs | passes |
| `paused_rule` | can an alert link a rule that was paused before its button was pressed? | 2 administrators, 1 rule in force on both pages | violated, 5 |
| `changed_page` | is a changed page proposed? | 2 sweeps, 1 page | violated, 5 |

Components that share no state are put into one run as scenes: a behaviour begins
in one scene and only its part moves, so the number of states is the sum and not the
product. Deadlock is checked in the runs of the ledgers and of the
supplier's files. In the others a scene uses up its bounds, or a page is
closed for good, and the behaviour ends there: `CHECK_DEADLOCK FALSE`.

Properties.

* Ledgers. `ImplementsQuantityLedger`: the multi-statement insert is an atomic
  admission. `HeldOnlyWhilePublished`: what the insert read of its batch under the
  lock is still so when it commits. `OversoldOnlyByEdit`, `EveryInsertEnds`,
  `DrawsOnActivePermits`.
* Gate. `QuietPassLacksOnlyNeverAsked`: with still files a pass lacked nothing that
  the comments of the migrations ask for but the two things no SELECT asks (5).
  `SignaturesSurvive`, `AmbiguousOnlyByRace`.
* Front office. `ConfirmedIsQueued`: who is thanked is in the queue.
  `AnswerIsTrue`, `MembersAreBuyers`: what an administrator is told after a
  half-finished call is so, and repeating it makes no member who is not a buyer.
  `DeskTellsWhatWaits`: a matter due since a load began is on the desk, or the desk
  says it does not know. `OutputWasCleared`, `IssuedOnStandingDecision`: a pack was
  released only with each check read as clear, and issued on a decision that held
  at some moment of the press.
* Session. `OnlyOwnRows`, `DeskIsFresh`, `PasswordSetForSubject`,
  `ArrivalsAdmitted`. Forms: `HandedOverAsShown`, `StatusIsTheAdministrators`.
* Supplier files. `ToldIsRecorded`, `TransitionsAreRecorded`, `ReleasedContentStands`,
  `TrailIsWhole`, `RecordingEnds`; `RowsAreStorable`, `ReadingHoldsTogether`;
  `BackupGivesBackWhatStood`.
* Watchtower. `CleanRunMissesNothing`, `ClosedRunAccountsForItsCandidates`,
  `SavedMeansAudited`, `LapsedLinkWasUnseen`, `CallsWithinCeiling`,
  `ShownDraftIsGuarded`, `UndoneOnlyByOverlap`, `KnownWasProposed`, `ResultIsOfItsAddress`.

Every property has a mutant in `PROJECT.json`: a change to one mapped definition,
as a plausible slip in the code would make it, under which TLC finds the property
violated within the same bounds.

Why the bounds are enough for the cases in question. A lost update needs two
writers, and a third row or press shows room being made between them. Two
kilograms tell "fits" from "fits because the request was ignored"; instants 0 to 2
let a hold lapse while another transaction waits. A double reversal needs one draw
and two reversals; a fourth row uses the headroom. One change
before, during or after a call of the gate tells still files from moving ones.
A stale screen needs a second person and one press after the other's. A superseded
load needs two loads and a failure. A superseded session needs three people: whose
answer is late, who came between, and a role with fewer rights. A folder skipped
between two pages needs one entry more than a page. A ceiling needs one call more
than it admits, and a window one tick. The bounds are the named fields in the `MC` modules and `MaxKg`, `MaxTime`,
`HoldPeriod`, `MaxChanges`, `MaxPresses`, `MaxCalls`, `MaxPolls`, `MaxSends`, `MaxRedirects`, `PAGE`, `Names`.
The page of the backup is 100 in the code and 2 here; the token scope of the negation
guard is the code's 8.

Symmetry is over ids, sessions and permits in `permit_race` only, which states
no liveness.

Fairness. `ReservationLedger!FairSpec`: weak fairness of the statements after the
lock, since the server runs a statement to its end with no client in between;
strong fairness of taking the lock, since Postgres queues the waiters of a row; none
of `Abort`, `Release`, edits or `Tick`. `EveryInsertEnds` is about sessions that have
begun. `SupplierFiles!Settles`: weak fairness of the answers of a decision under way,
since a request to the database is answered or fails, and nothing of what people
press; on it rests `RecordingEnds`. The other modules state safety only.

## 4. Proofs

TLAPS checks, for every value of the constants and any number of steps:

* `ReservationLedgerProofs`: `TypeCorrect`, `LockKeepsReads` (`SeenIsCurrent`),
  `CheckHolds` (`CheckedStillFits`), `HoldsOnPublished` (`HeldOnlyWhilePublished`),
  `OversellGuard` (`OversoldOnlyByEdit`) and
  `LedgerImplements` (`ImplementsQuantityLedger`).
* `PermitLedgerProofs`: `TypeCorrect`, `ReversalsAreReal`, `DrawsAreOnActivePermits`
  (`DrawsOnActivePermits`) and `LedgerImplements` (`ImplementsQuantityLedger`).
* `ExportGateProofs`: `QuietPassIsTrue` (`QuietPassLacksOnlyNeverAsked`) and
  `TwoInForceIsARace` (`AmbiguousOnlyByRace`), for any files, dates and calls; and on
  overrides `SignaturesAreLive` (`SignaturesSurvive`).
* `FrontOfficeProofs`: `NoEnquiryIsDropped` (`ConfirmedIsQueued`),
  `AnswersAreTrue` (`AnswerIsTrue`), `OnlyBuyersAreMembers` (`MembersAreBuyers`);
  `SnapshotsRestOnWhatStood` (`IssuedOnStandingDecision`), from any records without
  snapshots, and `OutputsWereCleared` (`OutputWasCleared`), from any records and any pages read from them;
  `DeskTellsWhatIsDue` (`DeskTellsWhatWaits`), for any farms, batches and tables.
* `WatchtowerProofs`: `CeilingsHold` (`CallsWithinCeiling`), from any registered
  sources and updates; `SavedIsAudited` (`SavedMeansAudited`) and `LinksAreUnseen`
  (`LapsedLinkWasUnseen`), from any tables and any pages read from them; and of
  the registry of sources `OnlyOverlapUndoes` (`UndoneOnlyByOverlap`) and
  `ResultsAreOfTheirAddress` (`ResultIsOfItsAddress`), for any tabs and addresses, and
  `KnownIsProposed` (`KnownWasProposed`), for any documents and texts as well. Of the sweeps
  `CleanRunsMissNothing` (`CleanRunMissesNothing`) and `ClosedRunsAccount`
  (`ClosedRunAccountsForItsCandidates`), for any workers, sources and editions, however many
  overlap, fail and stop. Of the drafts `DraftsAreGuarded` (`ShownDraftIsGuarded`), for
  any reviewers, updates and replies of the provider.
* `BrowserProofs`: `FarmersSeeTheirOwn` (`OnlyOwnRows`), `AvailableRowsAreFresh`
  (`DeskIsFresh`), `PasswordIsTheSubjects` (`PasswordSetForSubject`) and
  `ArrivalsAreAdmitted` (`ArrivalsAdmitted`), for any people and any number of events
  and tabs; `StatusStaysTheirs` (`StatusIsTheAdministrators`) and
  `FormsHandOverWhatIsShown` (`HandedOverAsShown`), from any table of farms and any
  draft.
* `SupplierFilesProofs`: `FilesInvHolds` and `FilesTyped`, the inductive invariant of
  the supplier's files and its types; from it `ToldIsRecordedHolds` (`ToldIsRecorded`),
  `TrailIsWholeHolds` (`TrailIsWhole`), `TransitionsAreRecordedHolds`
  (`TransitionsAreRecorded`) and `ReleasedContentStandsHolds` (`ReleasedContentStands`),
  from any tables whose rows hold together. Of certificates `AnyReplyIsStorable`
  (`RowsAreStorable`), for any number of calls and any replies, and `ReadingIsCoherent`
  (`ReadingHoldsTogether`), for any printed date. `BackupIsWhole`
  (`BackupGivesBackWhatStood`), from any project, for any buckets, folders and pages.
* `CountingProofs`: the lemmas they share. A sum of kilograms is a natural number,
  grows with its set, and adding a row adds its kilograms; a list picked from a list
  holds the elements that pass, each once and in order; a set of natural numbers with
  0 and with every successor is all of them.

They assume the named ASSUMEs of the modules (`ReservationAssumption`,
`MaxKgAssumption`, `OverrideAssumption`, `PermitAssumption`, `RulesetAssumption`, `FilesAssumption`,
`AddressAssumption`, `IngestionAssumption`, `TriageAssumption`, `RulesAssumption`, `TablesAssumption`,
`MonitoringAssumption`, `RoleAssumption`, `SessionAssumption`, `FormsAssumption`,
`ReadingAssumption`, `DraftsAssumption`, `BackupAssumption`, `DeskPeople`), which TLC evaluates in the runs.

The argument for the ledger. `CheckedStillFits` says that a row between check and
commit still fits into what `batch_available_kg` tells a reader. `RoomLeft` is the
same without the cut-offs of that function, and is not inductive: an edit could
shrink the batch, and another session's commit could use the room. So the inductive
invariant adds `SeenIsCurrent`: a session past the lock holds it, the quantity it
read is usable and still the quantity, and its now() has passed. Edits need the
lock, so they cannot touch the batch; another commit on the batch would need the
lock too; releases and time only take rows out of the sum, by monotonicity of
`SumKg`. What was measured at an earlier instant is an upper bound of what is held
now, because a row active now was active then: this is why overwriting `created_at`
matters, and why a `now()` older than the wait does no harm. From `RoomLeft`, a
commit adds one row that fits, hence `Admit`; every other step is `GiveBack`,
`Resize` or a stutter. In the same way a batch that a session found published under
its lock stays published until that session commits (`HeldIsPublished`).

The argument for overrides. A profile leaves only when no override or evaluation
names it, so a signature stays; no update gives a row another signature.

Permits. The abstract ledger holds the draws that no reversal restores. `IInv` says
that what a session read with the lock is what the permit says until its
transaction ends (`SeenIsCurrent`), that a row that passed its check under the lock
would still be admitted (`CheckedIsAdmitted`), and that a reversal restores a draw of
its own permit in full, one that nothing else restores (`ReversalsMatchDraws`); sums
come from the lemmas of `KilogramSum`.

The gate. `QuietPassLacksOnlyNeverAsked` is about calls during which nothing changed.
`QuietRunsKnow` says of such a call, while it runs, that what its consignment lacks is
what the files as they stand leave lacking (`Known`) and, as long as it has noted no failure, that every condition it has
passed holds of them as they stand (`Found`); `Unanswered`, that a running call has no
answer yet. Together they make `Conclude` an evaluation of the files as they stand.
`RulesetsInv`: what a trigger let through was clear of the table it saw, and each row
in force is clear of the table it was judged against; so two versions in force on
one day were each written without the other in sight.

Enquiries and accounts. `QueueInv` is inductive because no step takes an address out
of the queue, and only a call that was sent, with an address, is answered. `ProvInv`
says how far each provisioning call has come (`Sound`): the organisation it named is
known, the account it promotes exists, the person it makes a member is a buyer, and
an answer is what the tables bear out. A call stays sound whatever the others do,
because no step takes back an account, a role that was given, an organisation or a
membership (`Grown`).

Packs. `PacksInv`: what the issuing function has read of decision and results stood
at some moment since the press, and the present is part of what stood; so the
snapshot rests on both. `ScreensInv` adds, for each administrator, that what a page
shows as clear, and what a read is about to show, was so at some moment since the
page opened, whether it comes from the tables or from what the browser holds
(`ScreenInv`).

Watchtower. `EndpointsInv`: each admitted call is recorded under the lock before
the request goes out (`CountedFirst`), each record is counted (`RecordedIsCounted`)
and the count before it was under the ceiling; hence the ceiling over every window,
whenever it ends. `DeskInv`: the calls a handler has yet to make patch rows that
exist and end in an audit entry about one, and a page shows only such rows. `LinkInv`:
what a page may link is in force or went out of force unseen by it (`Standing`,
`Unseen`). A handler that patches a rule makes no other call of a rule beside it, and
redraws the list in the step that hears the answer; the lists other handlers set, and
the lists a page opened with, name no rule that the page itself has taken out of force
(`DrawsOn`). So a rule linked out of force lapsed elsewhere or in an answer that was
lost. `MonitorInv`: a row that waits to be written was
judged by the registry it was read with, and no task for a source that is there sets
it active; so a write that finds the registry as it was read neither revives a source
nor doubles an address (`JudgedBeforeWritten`).

Sweeps. `SweepsInv`: no two workers are in one run (`OneOwner`), so nobody else closes
it; what a worker takes for known is in the table (`KnownHolds`); and as long as
nothing has failed, every entry it has dealt with stands (`DealtWith`), and what it
takes for seen is such an entry or the one in hand (`SeenHolds`). What stands goes on
standing, because no step takes an update back or changes how a source is read
(`Grown`). `AccountsInv`: every update of a run comes from an entry counted new or
failed, or from the one in hand, and every entry counted new has its update and its
evidence (`Accounted`); an entry has one place in its run, so counting entries counts
updates.

The session. A load works for the profile on screen. While an event last named a
farmer, the arrays hold that farmer's rows or ones that crossed, and so for the
farmer on screen; while it named anybody else, the scope is empty but for what
crossed (`RowsAreOf`). Nothing is available while an administrator's load is out
(`AvailableIsLoaded`). The set-password screen, once left, is never returned to,
because no rule of the guard, no link, no address and no held page leads there; so
no sign-in can come between its check and its saving (`ScreenInv`). The guard is
idempotent (`GuardIsIdempotent`), which is what makes arrivals admitted.

The forms. `StatusInv`: the stored status is what was decided, since an upsert of
a known farm keeps it. `ApplicationInv`: an acknowledgement is of the figures on the
screen, since every edit withdraws it, whatever draft or licence the wizard is
opened with. `PhotosHold`: a photograph with a file shows that
file, only once, and the farmer has not taken it off; one that is still being read is
neither shown nor taken off. So reading one more, dropping the fifth and taking one
off leave files and previews in step.

The desk. `DeskInv`: what is remembered as due since a load began is due
(`SinceIsDue`); each read under way that has taken its rows bears it out (`ReadsBear`),
because the tables still held it when they were read; and so does each list of a load
that counts (`ListsBear`), since only a load that nothing has superseded brings its
lists, all of one load (`ReadyIsWhole`).

Monitoring by hand. `KnownInv`: each entry of a baseline and each kept text was
proposed in this browser. A check compares with the baseline it read, and that was
saved by some tab; of two entries of a document with one identity the first decides,
so the argument goes by the least place in the list.

Drafts. `DraftsInv` says of every call what its step has established (`CallKnows`):
past the server's gate the update as it was read is fit (`WasFit`), and an answer, like
the draft on the page, is of its update and passed both guards (`Sourced`); while a call
is under way its page shows no draft. That the guard on words finds every claim that
nothing in its clause denies is a fact about a function that walks back over a text of
any length.

Supplier files. Whatever handler runs, the tables stay or change by one of a few
`Writes`. A write keeps what was recorded (`Grows`), changes a status only as the
history has it, keeps every trail one chain and touches no content that buyers can
see (`Sound`). A handler under way knows what its next call rests on (`CallStands`):
the batch it saw, the file it stored, the photograph it kept. What was recorded is
not taken back by writes, so it still stands when the call is made, and what a list
tells when it commits is recorded. Ids are fresh, and no two handlers make one farm or
file one certificate (`Fresh`, `Apart`). `FilesInv` is all of this.

Certificates. `ReadsInv`: the calls of the endpoint carry lists, and one that was
answered with success has the rows made of its reply in the table (`OnRecord`). That
every such row passes the checks of the table, and that a presentable report agrees
with itself, are facts about what the helpers compute of any reply. A year within
both calendars' ranges would need an era of 543 years twice, so a date names one day.

The backup. `BackupInv` says of a walk that every file nobody has touched since it
began, in a bucket nothing was removed from, is accounted for (`Accounted`): it is
fetched, or noted, or in a bucket still to come, or `Ahead` of a folder under way,
which means that its name is in the rest of the answer, or its rank among the names of
the folder is beyond the offset. Names that are added only move a rank up, which is why
listing by offset loses no file while none is removed; and a page with more names
beyond it is full, so the listing does not end before them. A bucket that a credential
showed as empty has no object (`Hollow`), so its count is zero, and the earlier
manifest, if it had counted one there, would have refused the run. What is packed comes
out as it went in (`PackedComesBack`), so the manifest that is stored and the one that a
restore compares with are of the objects that were fetched. A restore is verified by a
second walk, and what a walk has fetched was there at some moment since it began.
`BackupAssumption`: names sort, no path is a folder of another, no bucket is listed twice.
Only model-checked: the two liveness properties `EveryInsertEnds` and
`RecordingEnds`, since liveness under fairness is beyond this prover. Every safety
property that a run checks is stated by a theorem above.

What a theorem is about is the specification of its component: its Init, for any
parameters, and any number of its steps. The scenes of the runs are instances of it
with parts that stand still beside it. Where a theorem has hypotheses they are about
the initial state only, and every state the program can begin in has them: the tables
on file hold together, an application kept in the browser is one the wizard saved
(`IsApplication`), a legal update has an address and a state (`IsUpdate`), a printed
date is three integers (`IsDate`), a stored file has a path, and artifacts made before
hold what the theorem states (`ArchivesHold`; none is the least case). The prover knows nothing of `SelectSeq`,
`SortSeq`, the operators of `TLC` and those that take an operator as a parameter, so
modules with theorems pick from lists with `Lists` and recur with recursive
functions. What such a function computes for an input of any length is an
induction, and the library's theorem of induction takes an operator: where it is
needed (the negation guard of `AiDrafts`), the set of lengths for which the claim
holds is shown to have 0 and every successor (`NaturalsBySuccessor`).

## 5. Where the code and its comments part

Each of these is a run whose single property states what a comment or a text of
the program says; TLC's trace shows what the code does.

* `permit_expired`. 40:433-435 says a draw on a permit that is not in force is
  refused in the ledger. The trigger tests `state` and not the dates; the
  `expires_on` it reads is unused. The gate does look at the dates.
* `healthy_overview`. The overview says of its empty queue "This is the healthy
  state, not a missing feed" (`DDPOverviewOrganic.tsx:162`) over lists that a
  failed load has emptied.
* `form_outlives_session`. `App.tsx:752` says a farmer never sees other users'
  data; the `onCommitted` of a farm saved under an earlier session adds it to the
  arrays of whoever is signed in by then.
* `lost_certificate`. `App.tsx:1153-1156` says the banner carries a failed
  certificate; beginning on the photographs clears it in the same turn.
* `paused_rule`. `DDPComplianceWatchtower.tsx:1339-1341` says a rule that was paused
  or retired between opening the dropdown and clicking submit can never be linked;
  the check (1342) reads the list this page was drawn with, so a rule that another
  administrator paused is linked. What does hold is `LapsedLinkWasUnseen`.
* `changed_page`. `complianceHtmlWatchConnector.ts:17-18` asks whether the part we
  care about has changed; every version of a page has one identity, and
  `classify` calls a known identity a duplicate before it looks at the digest.

Met while modelling, stated here without a run of their own:

Ledgers and gate.

* A conversion ends a hold like a cancellation, so its kilograms are offered again
  until an administrator lowers `quantity_kg` (`44_VERIFY:303-308` expects it); and
  the buyer is looked at once, unlocked, at the insert: a suspension between that read
  and the commit does not stop the hold (44:349-352).
* A pass may hold at no single instant: each SELECT has its own snapshot (42:518),
  while 42:15-16 says every condition must be true.
* 42:409 says the most recent screening wins; the query drops lapsed screenings
  first (42:423), so an older clear decides. 41:112-116 says an empty
  `required_analytes` is unresolved; it passes (42:696). `QuietPassLacksOnlyNeverAsked`
  names these two as what a pass may lack (`NeverAsked`); without them TLC finds a
  pass that lacks one.
* 42:258-260 says a review is stamped once; the guard compares `reviewed_at`
  (42:283), so `reviewed_by` may be replaced.

Supplier's files and forms.

* Editing a batch listed in grams divides its quantity and multiplies its price by
  1000 at every save (`FarmerSubmitInventory.tsx:64-66, 164-166, 217-219`).
* `coa_file_name` and `coa_available` are written before any file is stored, though
  `App.tsx:1027-1030` says otherwise; an edit writes `coa_storage_path` null.
* A certificate uploaded from My Stock never reaches the document register, though
  `FarmerEvidence.tsx:208-226` sends farmers there; on an approved batch its UPDATE
  changes no row and no error is shown (`db.ts:900-921`).
* Submitting twice makes two batches or two farms with new ids; nothing guards a
  double press.
* Changing the licence type leaves the number under the old type as well
  (`FarmerOnboarding.tsx:208-211`); a file name alone reads back as a number.
* The application's draft is one per browser and is not cleared at sign-out
  (`data.ts:695`); the final submit clears it before the save (:271).
* "Not yet" after choosing a certificate still uploads it; a photograph still being
  read when Submit is pressed is left out; a fifth drops the oldest stored preview.
* "Request sent" and "Note saved" are shown before the write; a failed chase is
  cleared by the next farm's beginning (`App.tsx:1292`); `busy` never reaches the desk.
* `loadMyDocumentOpens` returns everybody's opens (`db.ts:1114`).
* A stale screen can make a batch visible that is no longer approved, and Reject
  leaves a batch visible (`DDPInventoryReview.tsx:376`).
* When the answer of a rejecting decision is lost, the farm is never notified; a
  decision with the same status and note is reported and not recorded.

Certificates and backup.

* The deployed extraction endpoint answers 503 to everything (`coa-extract.ts:97-103`).
* A slot is spent before the document is looked up; count and insert are two calls,
  so one document can be extracted twice, though `serverCoaExtraction.ts:61` and
  :177-181 say not; it counts by a column that table 28 does not have.
* A backup pages by offset: a folder emptied during the listing shifts the next page
  and a file that stands is skipped without an error (`storage.mjs:28-59` says "every
  object path"). `BackupGivesBackWhatStood` excepts buckets something was removed
  from during the run; without the exception TLC finds the skipped file.
* The workflow fetches the previous manifest by `download-artifact@v4` without a run
  id, which looks in the current run; every run may then count as the first one.
* A file added during the listing can be listed twice; a restore without
  `--overwrite` of such an archive ends in a mismatch.

Accounts, packs and desk.

* A failed load of farms while the inventory succeeds makes the requirement
  blockers of a pack vanish (`App.tsx:493-496`).
* The version told after issuing is computed in the browser
  (`buyerPackSnapshot.ts:234`), not the one the server gave.
* The decision read begun on opening a page may overwrite the one read after a save
  (`DDPBuyerPreview.tsx:333-345, 441-447`).
* `listLocalOnlyDecisions` and `migrateLocalDecision` are never called; an override
  cached before the migration stays effective when the server has no row.
* Three requirement types are missing for every farm, so no farm leaves the desk
  unless it is overridden in this browser.
* The desk's tile says no rule is stopping work while the alerts failed to load
  (`DDPOperationsDeskOrganic.tsx:522-524`).
* A sign-in sets the profile and leaves arrays, scope and key as they are
  (`App.tsx:943-966`): overtaken by another tab's session, it can put one farmer in
  front of another's rows until the next event. `OnlyOwnRows` excepts such answers
  (`crossed`); with more events and changes of tab the plain statement fails.
* `farmerEvidenceWaiting` and the held deep link: a link held before a late sign-in is
  not replayed (`deepLinkIntent.ts:49-52`); an error of sign-out is ignored.

Watchtower.

* Candidates of a sweep never get a `compliance_reviews` row, so they are not in the
  review queue the panel speaks of (`WatchtowerIngestionPanel.tsx:163-168`).
* A 23505 on the identity index is recorded as a duplicate of content; an insert whose
  answer is lost makes an update whose item says error; an entry amended under the
  same identity is not proposed.
* Two sources may bring the same entry, and the feed of one may hold an amended text
  of it as well. When two sweeps overlap, the index refuses the first text as known;
  the run has its identity for seen and passes the amended text over, which a sweep
  alone would have proposed: the run succeeds and nobody is shown the amendment.
  `CleanRunMissesNothing` says what does hold: an entry of that identity that the run
  read stands.
* Approving a rule after creating it fails on the UNIQUE code, after review and
  update have been changed; a status change of an automatic alert inserts a row each time.
* Review questions are joined by line ends, so a negation that ends one hides a claim
  that begins the next, though `aiComplianceGuard.ts:191-194` says fields are never joined.
* Two registrations that overlap can double an address (no unique index), and neither
  can then be deactivated; a stale edit re-activates a source.
* A baseline saved after the source's address was edited in the same tab names the new
  address for entries of the old one.

## 6. What the models leave out of the parts they model

Texts, JSON shapes, wording and layout throughout. Isolation is READ COMMITTED. By
component:

* Ledgers and gate: quantities are natural numbers of the smallest unit of
  `numeric(14,3)` with the CHECK's ceiling as `MaxKg`; NaN and infinity are refused
  before anything else. Licences and rulesets reach the gate as one fact for one date
  of shipment. Deletion of organisations and batches is refused by RESTRICT.
* Session: React's render and effects follow a state change in one step; a reload is a
  fresh Init; a sign-in returns after its event is dealt with; a failed query of a
  farmer's load is not told from an empty one, as in `getFarmerScope`.
* Forms: a figure is the leading number of its field; one page at a time; a farm's
  save is one step here and in parts in `SupplierTables`.
* Supplier files: the reason a decision needs is part of the press; the two loads of
  the evidence screen read and arrive in one step each; who works on which page is
  fixed; the internal note and the carbon flag are local state. `warned` also counts a
  page closed before the answer. The editable report fields, the digest shown and
  deletion (69) are left out.
* COA: how prose and tables are laid out is an input; so is what the model replies.
  The endpoint is modelled as its tests run it, with the two missing parts in place or not.
* Backup: sorting of the manifest; `--verify`, `--extract` and a wrong passphrase
  change nothing. A container opens with its passphrase only.
* Packs: one batch; one press per administrator at a time; the browser's own audit and
  download lists and the status of a snapshot decide nothing.
* Desk: labels, ages, priorities and order; overrides of requirements; one rule stands
  for all; a chase is one step here and in parts in `BatchDesk`.
* Watchtower: the page's five reads are one moment; starter rules; the effective window
  of rules; response sizes are part of a failed read. An empty sweep is left out.
* AI drafts: a text is a sequence of token kinds; validation of the body is by size,
  title, address and evidence.
* Source monitoring: a digest is what it digests; categories, methods and jurisdictions
  are there or not.

## 7. Not modelled

* Evidence request resolution (24, 28). No screen or endpoint of this commit calls
  its functions; next in the plan.
* AI job queue, cost, audit and prompt tables (47-51): nothing takes a job from the
  queue yet, so there is no second actor.
* Second factor (43): may refuse an override, which changes nothing.
* Event split and verified-buyer predicate (45, 46), audit log (11, 15, 27), grants,
  storage policies, auditor access (37, 38, 58, 61, 67, 70, 71): predicates and privileges without steps.
  The trigger of 19 is in `FarmerForms`, and the policies that decide who may write a
  batch, a document or a release are in `SupplierTables` and the ledgers.
* Translations, styles, public pages, rendering, `DDPOperationsDesk.tsx` and
  `DDPDocumentReview.tsx`, which no route shows, the demo build, and the scripts that
  test migrations or staging.

## 8. Plan

Done, in this order: the ledgers with their proofs; gate, overrides with proofs,
rulesets; batches, farms, files and review; enquiries and accounts; packs; the
session, page guard and desk; the watchtower; forms, COA reading, source
monitoring; backup and restore. Then the theorems of the permit ledger, the gate,
the rulesets, enquiries and accounts, packs, endpoints, the watchtower page, the
session, the forms, the registry of sources and the sweeps; last those of the
supplier's files, the desk, certificates, drafts and the backup.

Next modules: `EvidenceRequests` (24, 28): drafts claimed by another member,
attachments reserved, uploaded and finalised, terminal requests that stay terminal.
`Shipment`: gate, override, draw-down and conversion in one composition.

Next theorems: that an insert and a recording end, once a prover of liveness is at hand; that a call of
the sweep and a press on the watchtower page refine one abstract ledger of decisions; and the
theorems of the next modules. 
