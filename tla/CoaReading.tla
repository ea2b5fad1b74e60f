----------------------------- MODULE CoaReading -----------------------------
(***************************************************************************)
(* Reading a laboratory certificate by a language model: the handler of    *)
(* the endpoint (serverCoaExtraction, api/compliance/coa-extract), the     *)
(* provider call (serverCoaProvider), the rows made of a reply             *)
(* (coaExtraction) and the checks that may withhold a figure               *)
(* (coaReconcile, coaIntegrity, coaLabProfiles, thaiCalendar).             *)
(*                                                                         *)
(* As deployed the endpoint has neither a spend ceiling nor a place to     *)
(* write and refuses both; Wired is the handler with the two in place, as  *)
(* its own tests run it.                                                   *)
(***************************************************************************)
EXTENDS Integers, Sequences, FiniteSets, Lists

CONSTANTS Readers,      \* signed-in people who call the endpoint
          CoaAdmins,    \* those of them with the role ddp_admin
          Scans,        \* certificates on file
          WireReplies,  \* texts the language model may answer with
          Cannabinoids, \* readings of d9-THC, THCA and the stated total, 1/1000 %
          Numbers2026, Numbers2025,  \* report numbers of the two known layouts
          NamedInFile,  \* texts that appear in the name of the file
          Allowance,    \* slots of the spend ceiling per reader
          Unread        \* null

IsArray(list) == Len(list) \in Nat /\ DOMAIN list = 1..Len(list)
ASSUME ReadingAssumption ==
    /\ CoaAdmins \subseteq Readers /\ Allowance \in Nat
    /\ \A text \in WireReplies : text.json /\ text.list =>
           /\ IsArray(text.reports)
           /\ \A i \in DOMAIN text.reports : IsArray(text.reports[i].fields)
    /\ \A c \in Cannabinoids \ {Unread} : {c.delta9, c.thca, c.stated} \subseteq Int \cup {Unread}

VARIABLES due,      \* bound: calls of the endpoint still to come
          wired,    \* the two missing parts of the endpoint are in place
          reads,    \* calls of the endpoint, with the step each has come to
          slots,    \* slots reserved, per reader
          kept,     \* document_field_extractions: what each call has written
          printed   \* a date on a document, as <<year, month, day>> (no screen reads it yet)

coaVars == <<due, wired, reads, slots, kept, printed>>
-----------------------------------------------------------------------------
\* The reply of the language model and the rows made of it. A text is a tuple of
\* one, a date as printed a tuple of year, month and day.

MeasurementOnly == {"heavy_metals_result", "pesticides_result", "microbial_result",
    "mycotoxins_result", "residual_solvents_result", "foreign_matter_result"}
CoaFieldNames == MeasurementOnly \cup
    {"laboratory_name", "accreditation_reference", "report_number", "sample_name", "sample_id",
     "batch_reference", "test_date", "received_date", "total_thc", "total_cbd", "moisture_pct",
     "water_activity", "other"}
Threshold == 70    \* hundredths
Certain == 0..100

\* What is not JSON, or has no list of reports, is no reply; what is not an
\* object is skipped, and a value that is not a string counts as absent.
parseProviderReply(text) ==
    IF ~ text.json \/ ~ text.list THEN Unread
    ELSE LET objects == Picked(text.reports, {i \in DOMAIN text.reports : text.reports[i].object})
             Field(f) == [name |-> f.name, confidence |-> f.confidence,
                          value |-> IF f.quoted THEN f.value ELSE Unread]
         IN  [i \in DOMAIN objects |->
                 [number |-> objects[i].number,
                  fields |-> [j \in DOMAIN objects[i].fields |-> Field(objects[i].fields[j])]]]

\* Mutant: the value is kept although its certainty is no number of the range.
toExtractionRow_AnyConfidence(raw) ==
    [name |-> raw.name, provenance |-> "machine_extracted", value |-> raw.value,
     confidence |-> raw.confidence,
     warning |-> IF raw.value = Unread THEN {"not-found-in-document"} ELSE {},
     offer |-> raw.value # Unread]

\* A field as a row: an absent value and a value without a usable certainty are
\* recorded as a reason, an uncertain one is recorded and not offered.
toExtractionRow(raw) ==
    LET sure == raw.confidence \in Certain
        found == raw.value # Unread /\ sure
    IN  [name |-> raw.name, provenance |-> "machine_extracted",
         value |-> IF found THEN raw.value ELSE Unread,
         confidence |-> IF found THEN raw.confidence ELSE 0,
         warning |-> CASE raw.value = Unread -> {"not-found-in-document"}
                       [] raw.value # Unread /\ ~ sure -> {"no-usable-confidence"}
                       [] found /\ raw.confidence < Threshold -> {"low-confidence"}
                       [] OTHER -> {},
         offer |-> found /\ raw.confidence >= Threshold]

ValueOf(rows, name) ==
    LET at == {i \in DOMAIN rows : rows[i].name = name}
    IN  IF at = {} THEN Unread ELSE rows[CHOOSE i \in at : \A j \in at : i <= j].value

crossCheckAgainstFilename(number, sample) ==
    {x \in {number, sample} : x # Unread /\ x \notin NamedInFile}

buildExtractions(reports) ==
    [i \in DOMAIN reports |->
        LET fields == reports[i].fields
            known == Picked(fields, {j \in DOMAIN fields : fields[j].name \in CoaFieldNames})
            rows == [j \in DOMAIN known |-> toExtractionRow(known[j])]
        IN  [number |-> reports[i].number, rows |-> rows,
             cross |-> crossCheckAgainstFilename(reports[i].number, ValueOf(rows, "sample_id"))]]

acceptableFields(extraction) ==
    Picked(extraction.rows, {i \in DOMAIN extraction.rows : extraction.rows[i].offer})
needsReview(extraction) ==
    Picked(extraction.rows, {i \in DOMAIN extraction.rows : ~ extraction.rows[i].offer})

\* The checks of migration 28 on a stored row.
IsStorable(row) ==
    /\ row.name \in CoaFieldNames
    /\ row.provenance = "machine_extracted" => row.confidence \in Certain
    /\ row.value # Unread \/ row.warning # {}
-----------------------------------------------------------------------------
\* The checks that hold a report against itself.

LabProfiles ==
    << [id |-> "tnr-bioscience-2026", numbers |-> Numbers2026,
        notInPanel |-> <<"water_activity", "residual_solvents_result",
                         "accreditation_reference">>],
       [id |-> "tnr-bioscience-2025", numbers |-> Numbers2025,
        notInPanel |-> <<"water_activity", "residual_solvents_result", "accreditation_reference",
                         "mycotoxins_result", "pesticides_result">>] >>

profileForReportNumber(number) ==
    LET fits == {i \in DOMAIN LabProfiles : number \in LabProfiles[i].numbers}
    IN  IF number = Unread \/ fits = {} THEN Unread
        ELSE LabProfiles[CHOOSE i \in fits : \A j \in fits : i <= j]

absentFieldRows(profile, rows) ==
    LET panel == profile.notInPanel
        absent == Picked(panel, {k \in DOMAIN panel : \A i \in DOMAIN rows : rows[i].name # panel[k]})
    IN  [i \in DOMAIN absent |->
            [name |-> absent[i], provenance |-> "machine_extracted", value |-> Unread,
             confidence |-> 0, warning |-> {"not-reported-by-this-laboratory"}, offer |-> FALSE]]

\* 0.02 %, in millionths of a percent.
Tolerance == 20000

\* Mutant: a stated total that is too high is never noticed.
checkTotalThc_Signed(c) ==
    IF c.delta9 = Unread \/ c.thca = Unread \/ c.stated = Unread THEN "not_checkable"
    ELSE IF c.delta9 * 1000 + c.thca * 877 - c.stated * 1000 <= Tolerance
         THEN "consistent" ELSE "inconsistent"

\* The conversion factor is 0.877.
checkTotalThc(c) ==
    IF c.delta9 = Unread \/ c.thca = Unread \/ c.stated = Unread THEN "not_checkable"
    ELSE LET off == c.delta9 * 1000 + c.thca * 877 - c.stated * 1000
         IN  IF off <= Tolerance /\ -off <= Tolerance THEN "consistent" ELSE "inconsistent"

Leap(y) == (y % 4 = 0 /\ y % 100 # 0) \/ y % 400 = 0
daysInMonth(y, m) == IF m = 2 THEN IF Leap(y) THEN 29 ELSE 28
                     ELSE IF m \in {4, 6, 9, 11} THEN 30 ELSE 31
OnCalendar(date) == date[2] \in 1..12 /\ date[3] \in 1..daysInMonth(date[1], date[2])

\* DD/MM/YYYY as a date, kept here as <<year, month, day>>.
parseCoaDate(text) == IF text # Unread /\ Len(text) = 3 /\ OnCalendar(text) THEN text ELSE Unread

Earlier(a, b) == a[1] < b[1] \/ (a[1] = b[1] /\ (a[2] < b[2] \/ (a[2] = b[2] /\ a[3] < b[3])))

checkDateOrder(dates) ==
    LET known == Picked(dates, {i \in DOMAIN dates : dates[i] # Unread})
    IN  \A i \in 2..Len(known) : ~ Earlier(known[i], known[i - 1])

\* The report with the fields its laboratory never measures, the total withdrawn
\* when its parts contradict it, and what does not hold together.
reconcileReport(raw, cannabinoids) ==
    LET extraction == buildExtractions(<<raw>>)[1]
        profile == profileForReportNumber(raw.number)
        rows == IF profile = Unread THEN extraction.rows
                ELSE extraction.rows \o absentFieldRows(profile, extraction.rows)
        thc == IF cannabinoids = Unread THEN Unread ELSE checkTotalThc(cannabinoids)
        Withdrawn(r) == IF thc = "inconsistent" /\ r.name = "total_thc"
                        THEN [r EXCEPT !.offer = FALSE, !.warning = @ \cup {"total-disagrees"}]
                        ELSE r
    IN  [number |-> extraction.number, rows |-> [i \in DOMAIN rows |-> Withdrawn(rows[i])],
         cross |-> extraction.cross, profile |-> profile, thc |-> thc,
         integrity |->
                {w \in {"no-profile", "date-order", "total"} :
                    \/ w = "no-profile" /\ profile = Unread
                    \/ /\ w = "date-order" /\ profile # Unread
                       /\ ~ checkDateOrder(<<parseCoaDate(ValueOf(rows, "received_date")),
                                             parseCoaDate(ValueOf(rows, "test_date"))>>)
                    \/ w = "total" /\ thc \in {"inconsistent", "not_checkable"}}]

isPresentableAsFields(report) == report.integrity = {} /\ report.cross = {}
-----------------------------------------------------------------------------
\* The two calendars a date may be written in.

Offset == 543
EarliestYear == 1941
LatestYear == 2200
ConvertibleYears == EarliestYear..LatestYear
Shifted(y) == y - Offset \in ConvertibleYears

classifyEra(y) == CASE y \in ConvertibleYears /\ Shifted(y) -> "ambiguous"
                    [] y \in ConvertibleYears /\ ~ Shifted(y) -> "ce"
                    [] y \notin ConvertibleYears /\ Shifted(y) -> "be"
                    [] OTHER -> "out-of-range"

Refused(why) == [ok |-> FALSE, reason |-> why]

dualDateFrom(date, era) ==
    LET ce == IF era = "be" THEN date[1] - Offset ELSE date[1]
    IN  IF ce \notin ConvertibleYears THEN Refused("era-out-of-range")
        ELSE IF ~ OnCalendar(<<ce, date[2], date[3]>>) THEN Refused("impossible-date")
        ELSE [ok |-> TRUE, ce |-> <<ce, date[2], date[3]>>, be |-> ce + Offset]

parseDualDate(date) ==
    LET era == classifyEra(date[1])
    IN  CASE era = "ambiguous" -> Refused("era-ambiguous")
          [] era = "out-of-range" -> Refused("era-out-of-range")
          [] OTHER -> dualDateFrom(date, era)

reconcileDualYear(ce, be) == IF be = ce + Offset THEN 0 ELSE be - (ce + Offset)
reconcileDualDate(value) == reconcileDualYear(value.ce[1], value.be)

formatDualDate(value, lang) == IF lang = "th" THEN <<value.be, value.ce[2], value.ce[3]>>
                               ELSE value.ce

isExpiredAsOf(value, day) == Earlier(value.ce, day)
-----------------------------------------------------------------------------
\* The endpoint, one step for each call it waits for.

Answered(r, status) == reads' = (reads \ {r}) \cup {[r EXCEPT !.step = "done", !.status = status]}
Moves(r, step) == reads' = (reads \ {r}) \cup {[r EXCEPT !.step = step]}

CallEndpoint(who, form, scan) ==
    /\ due > 0
    /\ due' = due - 1
    /\ reads' = reads \cup {[id |-> Cardinality(reads), who |-> who, form |-> form, scan |-> scan,
                             step |-> "gate", reports |-> <<>>, status |-> 0]}
    /\ UNCHANGED <<wired, slots, kept, printed>>

\* The gates before anything is reserved: method, content type, token, role,
\* body. A token or a role that cannot be read is refused like a wrong one.
PassGates(r) ==
    /\ r.step = "gate"
    /\ CASE r.form = "method" -> Answered(r, 405)
         [] r.form = "content-type" -> Answered(r, 415)
         [] r.form = "token" -> Answered(r, 401)
         [] OTHER -> \/ Answered(r, 401)
                     \/ Answered(r, 403)
                     \/ r.who \in CoaAdmins /\ r.form = "body" /\ Answered(r, 400)
                     \/ r.who \in CoaAdmins /\ r.form = "good" /\ Moves(r, "reserve")
    /\ UNCHANGED <<due, wired, slots, kept, printed>>

\* A slot is taken before the document is looked for, whatever comes of it.
reserveExtractionSlot(r) ==
    /\ r.step = "reserve"
    /\ \/ Answered(r, 503) /\ UNCHANGED slots
       \/ wired /\ slots[r.who] >= Allowance /\ Answered(r, 429) /\ UNCHANGED slots
       \/ /\ wired /\ slots[r.who] < Allowance
          /\ slots' = [slots EXCEPT ![r.who] = @ + 1]
          /\ Moves(r, "document")
    /\ UNCHANGED <<due, wired, kept, printed>>

getDocument(r) ==
    /\ r.step = "document"
    /\ IF r.scan \in Scans THEN Moves(r, "count") \/ Answered(r, 404) ELSE Answered(r, 404)
    /\ UNCHANGED <<due, wired, slots, kept, printed>>

HasRows(k) == \E i \in DOMAIN k.rows : k.rows[i] # <<>>
countExistingExtractions(r) ==
    /\ r.step = "count"
    /\ \/ \E k \in kept : k.scan = r.scan /\ HasRows(k) /\ Answered(r, 409)
       \/ (\A k \in kept : k.scan = r.scan => ~ HasRows(k)) /\ Moves(r, "fetch")
       \/ Answered(r, 503)
    /\ UNCHANGED <<due, wired, slots, kept, printed>>

fetchDocumentBytes(r) ==
    /\ r.step = "fetch"
    /\ Moves(r, "extract") \/ Answered(r, 502)
    /\ UNCHANGED <<due, wired, slots, kept, printed>>

\* The language model is called once; a refusal, a timeout and a reply that
\* cannot be parsed are the same to the caller.
Extract(r) ==
    /\ r.step = "extract"
    /\ \/ Answered(r, 502)
       \/ \E text \in WireReplies :
              LET reports == parseProviderReply(text)
              IN  IF reports = Unread THEN Answered(r, 502)
                  ELSE IF reports = <<>> THEN Answered(r, 422)
                  ELSE reads' = (reads \ {r}) \cup
                                {[r EXCEPT !.step = "persist", !.reports = reports]}
    /\ UNCHANGED <<due, wired, slots, kept, printed>>

\* All rows of all reports go to one write, each with the report it is of;
\* where its answer is lost they are in the table and the caller is told that
\* nothing was recorded.
persistExtractions(r) ==
    LET rows == [i \in DOMAIN r.reports |-> buildExtractions(r.reports)[i].rows]
        stored == \A i \in DOMAIN rows : \A j \in DOMAIN rows[i] : IsStorable(rows[i][j])
    IN  /\ r.step = "persist"
        /\ \/ Answered(r, 503) /\ UNCHANGED kept
           \/ /\ stored
              /\ kept' = kept \cup {[id |-> r.id, scan |-> r.scan, rows |-> rows]}
              /\ Answered(r, 200) \/ Answered(r, 503)
        /\ UNCHANGED <<due, wired, slots, printed>>

CoaStep ==
    \/ \E who \in Readers, scan \in Scans \cup {"missing"},
          form \in {"good", "method", "content-type", "token", "body"} :
              CallEndpoint(who, form, scan)
    \/ \E r \in reads : \/ PassGates(r) \/ reserveExtractionSlot(r) \/ getDocument(r)
                        \/ countExistingExtractions(r) \/ fetchDocumentBytes(r)
                        \/ Extract(r) \/ persistExtractions(r)

CoaInit(n, w, date) ==
    /\ due = n
    /\ wired = w
    /\ reads = {}
    /\ slots = [p \in Readers |-> 0]
    /\ kept = {}
    /\ printed = date
-----------------------------------------------------------------------------

\* One odd field never costs the reader the whole document: every row made of
\* any reply passes the checks of the table, and a success has its rows there,
\* each one either offered or listed for review (toExtractionRow,
\* buildExtractions, handleCoaExtractRequest).
RowsAreStorable ==
    \A r \in reads :
        LET built == buildExtractions(r.reports)
        IN  /\ \A i \in DOMAIN built : \A j \in DOMAIN built[i].rows :
                   IsStorable(built[i].rows[j])
            /\ r.status = 200 =>
                   \E k \in kept :
                      /\ k.id = r.id /\ DOMAIN k.rows = DOMAIN built
                      /\ \A i \in DOMAIN built :
                            Len(k.rows[i]) = Len(acceptableFields(built[i])) + Len(needsReview(built[i]))

\* A report that may be shown as fields instead of a page: a
\* known layout, certificate dates in order, a total its parts add up to, and a
\* row for everything its laboratory does not measure
\* (reconcileReport, isPresentableAsFields).
PresentableReportHolds ==
    \A r \in reads : \A i \in DOMAIN r.reports : \A c \in Cannabinoids :
        LET done == reconcileReport(r.reports[i], c)
            received == ValueOf(done.rows, "received_date")
            tested == ValueOf(done.rows, "test_date")
        IN  isPresentableAsFields(done) =>
              /\ r.reports[i].number \in Numbers2026 \cup Numbers2025
              /\ ValueOf(done.rows, "water_activity") = Unread =>
                     \E j \in DOMAIN done.rows : done.rows[j].name = "water_activity"
              /\ parseCoaDate(received) # Unread /\ parseCoaDate(tested) # Unread
                     => ~ Earlier(tested, received)
              /\ c # Unread => LET parts == c.delta9 * 1000 + c.thca * 877
                               IN  /\ parts <= c.stated * 1000 + Tolerance
                                   /\ c.stated * 1000 <= parts + Tolerance

\* A printed date that is taken names one day: the only day it can be in either
\* calendar, the same in both ways of writing it, and valid through that day
\* (parseDualDate, reconcileDualDate, formatDualDate, isExpiredAsOf).
DateNamesOneDay ==
    LET value == parseDualDate(printed)
        Days == {<<y, printed[2], printed[3]>> : y \in {printed[1], printed[1] - Offset}}
    IN  value.ok <=> /\ {d \in Days : d[1] \in ConvertibleYears /\ OnCalendar(d)} # {}
                     /\ value.ok =>
                          /\ {d \in Days : d[1] \in ConvertibleYears} = {value.ce}
                          /\ reconcileDualDate(value) = 0
                          /\ printed \in {formatDualDate(value, l) : l \in {"th", "en"}}
                          /\ ~ isExpiredAsOf(value, value.ce)

\* What is read off a certificate and shown holds together: the fields of a
\* report do not contradict each other, and a date means one day whichever
\* calendar it was printed in (coaReconcile, coaIntegrity, dualDate).
ReadingHoldsTogether == PresentableReportHolds /\ DateNamesOneDay
=============================================================================
