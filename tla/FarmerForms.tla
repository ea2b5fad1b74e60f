---------------------------- MODULE FarmerForms ----------------------------
(***************************************************************************)
(* The three forms a farmer fills in: the nine-step application with its   *)
(* draft, its checks and its licence box; the stock form with its          *)
(* certificate and photographs; and the advanced profile, which sends a    *)
(* whole farm back while an administrator decides about it.                *)
(*                                                                         *)
(* A figure is an integer, what the field's leading number says; the other *)
(* answers are model values. Amounts are counted in thousandths.           *)
(***************************************************************************)
EXTENDS Integers, Sequences, SequencesExt, Lists

CONSTANTS Empty,      \* a field left blank
          Typed,      \* bound: Typed[f] is what is typed into field f
          Contact,    \* what the account's profile knows of the farmer
          Odd,        \* answers in no format of an address, a phone or a number
          Licences,   \* bound: licence numbers and file names, typed or blank
          Pictures,   \* the photographs on the farmer's phone
          Unfit,      \* those of a wrong type, empty or too large
          Papers,     \* the files the farmer may offer as a certificate
          Pdfs,
          Stock,      \* batches the farmer may open, as the page has them
          Amounts,    \* bound: figures typed for a quantity or a price
          Decisions,  \* the statuses administrators give a farm
          FarmIds,    \* bound: fresh ids, one per press
          MaxSends    \* bound: presses that send a stock form

Figures == Int \cup Odd \cup {Empty}
ASSUME FormsAssumption ==
    /\ Pdfs \subseteq Papers /\ Unfit \subseteq Pictures
    /\ "Submitted to DDP" \notin Decisions /\ MaxSends \in Nat
    /\ {"email", "mobileNumber", "typicalThc", "typicalCbd", "qtyAvailableNow"} \subseteq DOMAIN Typed
    /\ "qtyAvailableNow" \notin DOMAIN Contact
    /\ Typed["qtyAvailableNow"] \subseteq Figures
    /\ \A item \in Stock : /\ Len(item.photoUrls) \in Nat
                           /\ DOMAIN item.photoUrls = 1..Len(item.photoUrls)

VARIABLES draft,     \* the application kept in the browser's storage
          wizard,    \* the application on the screen
          warnedOf,  \* history: the figures a warning was shown for
          handed,    \* history: the applications handed over
          form,      \* the stock form on the screen
          dropped,   \* history: the photographs the farmer took off it
          sent,      \* history: what the stock form handed over
          farmRows,  \* the farms table: id |-> row
          decided,   \* history: the status an administrator last gave
          known,     \* the farms the page has loaded, newest first
          advanced,  \* the advanced profile on the screen
          upserts,   \* the saves under way
          left       \* bound: the pages still to be opened, the edits, the decisions

applicationVars == <<draft, warnedOf, handed>>
stockVars == <<form, dropped, sent>>
farmVars == <<farmRows, decided, known, upserts>>
formsVars == <<wizard, applicationVars, stockVars, farmVars, advanced, left>>

Use(n) == left[n] > 0 /\ left' = [left EXCEPT ![n] = @ - 1]

----------------------------------------------------------------------------
\* The checks of an application.

FIELD_STEPS(f) ==
    CASE f \in {"tradingName", "province", "district", "farmType"} -> 1
      [] f \in {"primaryContact", "position", "email", "mobileNumber", "lineId"} -> 2
      [] f \in {"qtyAvailableNow"} -> 4
      [] f \in {"typicalThc", "typicalCbd", "harvestsPerYear", "avgYieldPerHarvest",
                "annualCapacity"} -> 5
      [] f \in {"qtyAvailable30", "qtyAvailable60", "qtyAvailable90", "qtyAvailable180"} -> 6
      [] OTHER -> 1

REQUIRED_FIELDS == {"tradingName", "province", "primaryContact"}
CONTACT_FIELDS == {"email", "mobileNumber", "lineId"}
NON_NEGATIVE_FIELDS == {"qtyAvailableNow", "qtyAvailable30", "qtyAvailable60", "qtyAvailable90",
    "qtyAvailable180", "harvestsPerYear", "avgYieldPerHarvest", "annualCapacity"}
PERCENT_FIELDS == {"typicalThc", "typicalCbd"}

text(f, field) == IF field \in DOMAIN f THEN f[field] ELSE Empty
filled(f, field) == text(f, field) # Empty
isNumber(f, field) == filled(f, field) /\ text(f, field) \notin Odd

issue(field, code) == [field |-> field, step |-> FIELD_STEPS(field), code |-> code]
Warning(i) == i.code = "cannabinoids-implausible"

\* Amounts first, then percentages; "20-25%" counts as 20.
figureIssues(f) ==
    {issue(n, "not-a-number") : n \in {m \in NON_NEGATIVE_FIELDS \cup PERCENT_FIELDS :
                                          filled(f, m) /\ ~isNumber(f, m)}}
    \cup {issue(n, "negative") : n \in {m \in NON_NEGATIVE_FIELDS :
                                          isNumber(f, m) /\ text(f, m) < 0}}
    \cup {issue(n, "percent-out-of-range") : n \in {m \in PERCENT_FIELDS :
                                          isNumber(f, m) /\ text(f, m) \notin 0..100}}

\* Implausible cannabinoids are a warning, which stops nobody.
validateFarmProfile(f) ==
    {issue(n, "required") : n \in {m \in REQUIRED_FIELDS : ~filled(f, m)}}
    \cup (IF \E n \in CONTACT_FIELDS : filled(f, n) THEN {}
          ELSE {issue("email", "contact-required")})
    \cup {issue(n, "invalid") : n \in {m \in {"email", "mobileNumber"} : text(f, m) \in Odd}}
    \cup figureIssues(f)
    \cup (IF /\ \A n \in PERCENT_FIELDS : isNumber(f, n)
             /\ text(f, "typicalThc") + text(f, "typicalCbd") > 100
          THEN {issue("typicalThc", "cannabinoids-implausible")} ELSE {})

blockingIssues(found) == {i \in found : ~Warning(i)}

----------------------------------------------------------------------------
\* The application.

TOTAL_STEPS == 9
\* The inputs on the panels of steps 1 to 5, 6 and 7, and 8.
EarlyPanels(step) ==
    CASE step = 1 -> {"tradingName", "farmType", "province", "district"}
      [] step = 2 -> {"primaryContact", "position", "mobileNumber", "lineId", "email"}
      [] step = 3 -> {"facilityPhotoUrl", "productPhotoUrl"}
      [] step = 4 -> {"mainStrains", "qtyAvailableNow", "currentInventory"}
      [] step = 5 -> {"typicalThc", "typicalCbd", "harvestCycle", "harvestsPerYear",
                      "avgYieldPerHarvest", "annualCapacity"}
      [] OTHER -> {}
LatePanels(step) ==
    CASE step = 6 -> {"qtyAvailable30", "qtyAvailable60", "qtyAvailable90", "qtyAvailable180",
                      "projectedInventory"}
      [] step = 7 -> {"coaFiles", "heavyMetalsTested", "pesticidesTested", "mycotoxinsTested",
                      "microbiologyTested", "waterActivityTested"}
      [] OTHER -> {}

\* The licence box writes one of six fields, the first that is filled when a
\* draft is opened again.
LICENCE_TYPE_FIELDS == <<"cultivationLicence", "gapCert", "gacpCert", "gmpCert",
                         "organicCert", "otherCerts">>
BLANK == [f \in DOMAIN Typed \cup ToSet(LICENCE_TYPE_FIELDS) |-> Empty]
NoLicence == [type |-> 0, number |-> Empty, doc |-> Empty]
detectLicenceType(f) ==
    LET set == {t \in DOMAIN LICENCE_TYPE_FIELDS : filled(f, LICENCE_TYPE_FIELDS[t])}
    IN IF set = {} THEN 0 ELSE CHOOSE t \in set : \A u \in set : t <= u
\* "number (file)", or whichever of the two there is: a lone file name is read
\* back as a number.
combineLicenceValue(number, doc) ==
    CASE number = Empty /\ doc = Empty -> Empty
      [] number # Empty /\ doc # Empty -> <<number, doc>>
      [] OTHER -> IF number # Empty THEN <<number>> ELSE <<doc>>
splitLicenceValue(t, v) ==
    [type |-> t, number |-> v[1], doc |-> IF Len(v) = 2 THEN v[2] ELSE Empty]
licenceOf(f) ==
    LET t == detectLicenceType(f)
    IN IF t = 0 THEN NoLicence ELSE splitLicenceValue(t, f[LICENCE_TYPE_FIELDS[t]])

Closed == [open |-> FALSE]
NoWizard == [open |-> FALSE, step |-> 1, form |-> BLANK, licence |-> NoLicence,
             issues |-> {}, warningsSeen |-> FALSE]

\* The draft, and where it is blank what the profile knows.
prefilled(saved) == [f \in DOMAIN BLANK |->
    IF saved[f] = Empty /\ f \in DOMAIN Contact THEN Contact[f] ELSE saved[f]]
atDashboard == ~wizard.open /\ ~form.open /\ ~advanced.open
OpenWizard ==
    /\ Use("wizard")
    /\ atDashboard
    /\ LET start == prefilled(IF draft = Empty THEN BLANK ELSE draft) IN
       wizard' = [NoWizard EXCEPT !.open = TRUE, !.form = start, !.licence = licenceOf(start)]
    /\ UNCHANGED <<applicationVars, stockVars, farmVars, advanced>>
LeaveWizard == wizard' = NoWizard

\* Mutant: an edit leaves the warning acknowledged.
set_KeepsWarning(w, field, v) == [w EXCEPT !.form[field] = v]

\* Any edit after a warning needs a new acknowledgement.
set(w, field, v) == [w EXCEPT !.form[field] = v, !.warningsSeen = FALSE]

TypeField ==
    /\ Use("edits")
    /\ wizard.open
    /\ \E f \in EarlyPanels(wizard.step) \cup LatePanels(wizard.step) :
          f \in DOMAIN Typed /\ \E v \in Typed[f] : wizard' = set(wizard, f, v)
    /\ UNCHANGED <<applicationVars, stockVars, farmVars, advanced>>

\* "None" keeps what was committed; another type writes its own field and
\* leaves the former one as it was.
commitLicence(w, l) ==
    LET w2 == [w EXCEPT !.licence = l] IN
    IF l.type = 0 THEN w2
    ELSE set(w2, LICENCE_TYPE_FIELDS[l.type], combineLicenceValue(l.number, l.doc))
handleLicenceChange ==
    /\ Use("edits")
    /\ wizard.open /\ wizard.step = 8
    /\ \/ \E t \in {0, 1, 4} : wizard' = commitLicence(wizard, [wizard.licence EXCEPT !.type = t])
       \/ /\ wizard.licence.type # 0
          /\ \E v \in Licences : \/ wizard' = commitLicence(wizard, [wizard.licence EXCEPT !.number = v])
                                 \/ wizard' = commitLicence(wizard, [wizard.licence EXCEPT !.doc = v])
    /\ UNCHANGED <<applicationVars, stockVars, farmVars, advanced>>

saveFarmDraft == draft' = wizard.form
handleSaveDraft ==
    /\ wizard.open /\ wizard.step < TOTAL_STEPS
    /\ saveFarmDraft
    /\ UNCHANGED <<wizard, warnedOf, handed, stockVars, farmVars, advanced, left>>
handleContinueLater ==
    /\ wizard.open /\ saveFarmDraft /\ LeaveWizard
    /\ UNCHANGED <<warnedOf, handed, stockVars, farmVars, advanced, left>>
handleNext ==
    /\ wizard.open /\ saveFarmDraft
    /\ wizard.step < TOTAL_STEPS /\ wizard' = [wizard EXCEPT !.step = @ + 1]
    /\ UNCHANGED <<warnedOf, handed, stockVars, farmVars, advanced, left>>

\* Skip, Back, the rail of steps and the links of the list of issues.
Go(n) ==
    /\ Use("jumps")
    /\ wizard.open /\ n \in 1..TOTAL_STEPS /\ n # wizard.step
    /\ wizard' = [wizard EXCEPT !.step = n]
    /\ UNCHANGED <<applicationVars, stockVars, farmVars, advanced>>
GoToStep == \E n \in 1..TOTAL_STEPS : Go(n)
GoToIssue == wizard.step = TOTAL_STEPS /\ \E i \in wizard.issues : Go(i.step)

\* Another page is opened: what was not saved is gone, a save goes on.
LeavePage ==
    /\ ~atDashboard
    /\ wizard' = NoWizard /\ form' = Closed /\ advanced' = Closed
    /\ UNCHANGED <<applicationVars, dropped, sent, farmVars, left>>

freshIds == FarmIds \ ({u.id : u \in upserts} \cup DOMAIN farmRows
                       \cup {h.id : h \in handed})
warnings(f) == {<<text(f, "typicalThc"), text(f, "typicalCbd")>>}

\* A press with warnings alone shows them; the next hands the form over under
\* a fresh id, whatever became of an earlier press. The draft goes first.
handleFinalSubmit ==
    /\ wizard.open /\ wizard.step = TOTAL_STEPS
    /\ LET found == validateFarmProfile(wizard.form)
           w == [wizard EXCEPT !.issues = found]
       IN \/ /\ blockingIssues(found) # {}
             /\ wizard' = w /\ UNCHANGED <<applicationVars, farmVars, left>>
          \/ /\ blockingIssues(found) = {} /\ found # {} /\ ~wizard.warningsSeen
             /\ wizard' = [w EXCEPT !.warningsSeen = TRUE]
             /\ warnedOf' = warnedOf \cup warnings(wizard.form)
             /\ UNCHANGED <<draft, handed, farmVars, left>>
          \/ /\ blockingIssues(found) = {} /\ (found = {} \/ wizard.warningsSeen)
             /\ wizard' = w /\ draft' = Empty /\ Use("hands")
             /\ \E id \in freshIds :
                   /\ handed' = handed \cup {[id |-> id, form |-> wizard.form]}
                   /\ upserts' = upserts \cup
                        {[id |-> id, status |-> "Submitted to DDP", name |-> wizard.form["tradingName"],
                          answer |-> "pending", from |-> "wizard"]}
             /\ UNCHANGED <<warnedOf, farmRows, decided, known>>
    /\ UNCHANGED <<stockVars, advanced>>

----------------------------------------------------------------------------
\* The farms table and the page's copy of it.

Exists(id) == id \in DOMAIN farmRows

\* Mutant: the guard forgets that a farmer updates, too.
fn_protect_farm_admin_fields_InsertOnly(u) ==
    [status |-> IF Exists(u.id) THEN u.status ELSE "Submitted to DDP", name |-> u.name]

\* Whatever status a farmer's save carries, an insert starts an application
\* and an update keeps what is stored.
fn_protect_farm_admin_fields(u) ==
    [status |-> IF Exists(u.id) THEN farmRows[u.id].status ELSE "Submitted to DDP", name |-> u.name]

\* The upsert arrives, or never does; its answer may be lost.
ArriveSave ==
    \E u \in upserts :
       /\ u.answer = "pending"
       /\ \/ /\ farmRows' = [i \in DOMAIN farmRows \cup {u.id} |->
                   IF i = u.id THEN fn_protect_farm_admin_fields(u) ELSE farmRows[i]]
             /\ decided' = [i \in DOMAIN farmRows \cup {u.id} |->
                   IF Exists(i) THEN decided[i] ELSE "Submitted to DDP"]
             /\ \E a \in {"stored", "failed"} : upserts' = (upserts \ {u}) \cup {[u EXCEPT !.answer = a]}
          \/ upserts' = (upserts \ {u}) \cup {[u EXCEPT !.answer = "failed"]} /\ UNCHANGED <<farmRows, decided>>
       /\ UNCHANGED <<wizard, applicationVars, stockVars, known, advanced, left>>

\* handleFarmSubmit: a farm that was stored is shown with the status it was
\* sent with, and whatever form is open is left; a failure leaves the form standing.
AnswerSave ==
    \E u \in upserts :
       /\ u.answer # "pending" /\ upserts' = upserts \ {u}
       /\ IF u.answer = "stored"
          THEN /\ wizard' = NoWizard /\ advanced' = Closed /\ form' = Closed
               /\ known' = IF \E k \in DOMAIN known : known[k].id = u.id
                           THEN [k \in DOMAIN known |-> IF known[k].id = u.id
                                    THEN [id |-> u.id, status |-> u.status, name |-> u.name]
                                    ELSE known[k]]
                           ELSE <<[id |-> u.id, status |-> u.status, name |-> u.name]>> \o known
          ELSE UNCHANGED <<wizard, advanced, form, known>>
       /\ UNCHANGED <<applicationVars, dropped, sent, farmRows, decided, left>>

AdministratorDecides ==
    /\ Use("decisions")
    /\ \E id \in DOMAIN farmRows, s \in Decisions :
          /\ farmRows' = [farmRows EXCEPT ![id].status = s]
          /\ decided' = [decided EXCEPT ![id] = s]
    /\ UNCHANGED <<wizard, applicationVars, stockVars, known, upserts, advanced>>

\* The page is opened again: every form is gone, the farms are read afresh.
ReloadFarms ==
    /\ Use("reloads")
    /\ \E order \in SetToSeqs(DOMAIN farmRows) :
          known' = [k \in DOMAIN order |-> [id |-> order[k]] @@ farmRows[order[k]]]
    /\ wizard' = NoWizard /\ advanced' = Closed /\ upserts' = {}
    /\ form' = Closed /\ dropped' = {}
    /\ UNCHANGED <<applicationVars, sent, farmRows, decided>>

\* The advanced profile starts from the last farm of the list as the page
\* has it, and sends all of it back.
OpenAdvanced ==
    /\ Use("advanced")
    /\ atDashboard /\ known # <<>>
    /\ advanced' = [open |-> TRUE, base |-> Last(known), form |-> Last(known)]
    /\ UNCHANGED <<wizard, applicationVars, stockVars, farmVars>>
setAdvanced ==
    /\ Use("edits")
    /\ advanced.open
    /\ \E v \in Typed["tradingName"] : advanced' = [advanced EXCEPT !.form.name = v]
    /\ UNCHANGED <<wizard, applicationVars, stockVars, farmVars>>
handleSave ==
    /\ advanced.open
    /\ upserts' = upserts \cup
          {[id |-> advanced.base.id, status |-> advanced.form.status, name |-> advanced.form.name,
            answer |-> "pending", from |-> "advanced"]}
    /\ UNCHANGED <<wizard, applicationVars, stockVars, farmRows, decided, known, advanced, left>>

----------------------------------------------------------------------------
\* The stock form.

picture(preview, file) == [preview |-> preview, file |-> file]
fromStoredPreviews(urls) == [i \in DOMAIN urls |-> picture(urls[i], Empty)]
MAX_PHOTOS_PER_BATCH == 4
addPhoto(photos, p) ==
    LET all == <<picture(p, p)>> \o photos
    IN SubSeq(all, 1, IF Len(all) > MAX_PHOTOS_PER_BATCH THEN MAX_PHOTOS_PER_BATCH ELSE Len(all))

removePhotoAt(photos, i) == Picked(photos, DOMAIN photos \ {i})

toUploadFiles(photos) ==
    LET files == [i \in DOMAIN photos |-> photos[i].file]
    IN Picked(files, {i \in DOMAIN files : files[i] # Empty})
toPreviews(photos) == [i \in DOMAIN photos |-> photos[i].preview]

\* The figures of a batch are shown per kilogram whatever its unit.
initForm(item) ==
    [open |-> TRUE, item |-> item, qty |-> IF item = Empty THEN 0 ELSE item.grams,
     unit |-> IF item = Empty THEN "kg" ELSE item.unit,
     price |-> IF item = Empty THEN 0 ELSE item.perKg,
     name |-> item # Empty, coaName |-> IF item = Empty THEN Empty ELSE item.certFileName,
     coaAvailable |-> item # Empty /\ item.coaAvailable,
     coaFile |-> Empty, photos |-> IF item = Empty THEN <<>> ELSE fromStoredPreviews(item.photoUrls),
     reading |-> {}, uploading |-> FALSE, submitted |-> FALSE]

StockStep(next) == form' = next /\ UNCHANGED <<wizard, applicationVars, sent, farmVars, advanced>>
filling == form.open /\ ~form.submitted

OpenStockForm ==
    /\ Use("stock")
    /\ atDashboard /\ dropped' = {}
    /\ \E item \in Stock \cup {Empty} : StockStep(initForm(item))

TypeStockField ==
    /\ Use("edits")
    /\ filling /\ UNCHANGED dropped
    /\ \/ \E n \in Amounts : \/ StockStep([form EXCEPT !.qty = n])
                             \/ StockStep([form EXCEPT !.price = n])
       \/ \E u \in {"kg", "g"} : StockStep([form EXCEPT !.unit = u])
       \/ StockStep([form EXCEPT !.name = ~@])

\* "Not yet" hides the certificate that was chosen and keeps it.
ChooseCoa ==
    /\ Use("edits")
    /\ filling /\ UNCHANGED dropped
    /\ \E yes \in BOOLEAN : StockStep([form EXCEPT !.coaAvailable = yes])
handleCoaFile ==
    /\ Use("edits")
    /\ filling /\ form.coaAvailable /\ UNCHANGED dropped
    /\ \/ \E p \in Pdfs : form.coaName = Empty /\ StockStep([form EXCEPT !.coaFile = p, !.coaName = p])
       \/ form.coaName # Empty /\ StockStep([form EXCEPT !.coaFile = Empty, !.coaName = Empty])

\* A photograph is checked at once and shown once it has been read.
handlePhotoFile ==
    /\ Use("edits")
    /\ filling /\ UNCHANGED dropped
    /\ \E p \in Pictures \ (Unfit \cup form.reading \cup dropped) :
          /\ \A i \in DOMAIN form.photos : form.photos[i].preview # p
          /\ StockStep([form EXCEPT !.reading = @ \cup {p}])
PhotoRead ==
    /\ form.open /\ UNCHANGED <<dropped, left>>
    /\ \E p \in form.reading :
          StockStep([form EXCEPT !.reading = @ \ {p}, !.photos = addPhoto(@, p)])
RemovePhoto ==
    /\ Use("edits")
    /\ filling
    /\ \E i \in DOMAIN form.photos :
          /\ dropped' = dropped \cup {form.photos[i].preview}
          /\ StockStep([form EXCEPT !.photos = removePhotoAt(@, i)])

pricePerKg == IF form.unit = "kg" THEN form.price ELSE form.price * 1000
buildItem(isDraft) ==
    [draft |-> isDraft, grams |-> IF form.unit = "g" THEN form.qty \div 1000 ELSE form.qty,
     unit |-> form.unit, perKg |-> pricePerKg, certFileName |-> form.coaName,
     coaAvailable |-> form.coaAvailable, photoUrls |-> toPreviews(form.photos)]

\* What the page shows when a form is handed over stays with it.
Hand(isDraft, coa, files) ==
    /\ Len(sent) < MaxSends
    /\ sent' = Append(sent, [item |-> buildItem(isDraft), coa |-> coa, files |-> files,
                             shown |-> form.photos, dropped |-> dropped])
handleSaveDraftStock ==
    /\ filling /\ Hand(TRUE, Empty, <<>>)
    /\ UNCHANGED <<wizard, applicationVars, form, dropped, farmVars, advanced, left>>
handleSubmit ==
    /\ filling /\ form.name /\ ~form.uploading
    /\ Hand(FALSE, form.coaFile, toUploadFiles(form.photos))
    /\ form' = [form EXCEPT !.uploading = TRUE]
    /\ UNCHANGED <<wizard, applicationVars, dropped, farmVars, advanced, left>>
\* A batch that was saved leads to My Stock; a failure leaves the form.
SubmitAnswered ==
    /\ form.open /\ form.uploading /\ UNCHANGED <<dropped, left>>
    /\ \/ StockStep(Closed)
       \/ StockStep([form EXCEPT !.uploading = FALSE])

----------------------------------------------------------------------------
\* With a draft of an earlier visit, and farms on the page and in the table.
FormsStart(saved, rows, bounds) ==
    /\ draft = saved /\ wizard = NoWizard /\ warnedOf = {} /\ handed = {}
    /\ form = Closed /\ dropped = {} /\ sent = <<>>
    /\ farmRows = rows /\ decided = [id \in DOMAIN rows |-> rows[id].status]
    /\ \E order \in SetToSeqs(DOMAIN rows) :
          known = [k \in DOMAIN order |-> [id |-> order[k]] @@ rows[order[k]]]
    /\ advanced = Closed /\ upserts = {} /\ left = bounds


FormsStep ==
    \/ OpenWizard \/ TypeField \/ handleLicenceChange
    \/ handleSaveDraft \/ handleContinueLater \/ handleNext
    \/ GoToStep \/ GoToIssue \/ LeavePage \/ handleFinalSubmit
    \/ ArriveSave \/ AnswerSave \/ AdministratorDecides \/ ReloadFarms
    \/ OpenAdvanced \/ setAdvanced \/ handleSave
    \/ OpenStockForm \/ TypeStockField \/ ChooseCoa \/ handleCoaFile
    \/ handlePhotoFile \/ PhotoRead \/ RemovePhoto
    \/ handleSaveDraftStock \/ handleSubmit \/ SubmitAnswered

----------------------------------------------------------------------------
\* An application reaches DDP only with a name, a province, a person and a way
\* to reach them, with no figure out of range; and the farmer was shown the
\* warning about exactly the cannabinoids it claims, however often the form
\* was edited, left and opened again in between.
SubmittedFarmIsSound ==
    \A h \in handed :
       /\ \A f \in {"tradingName", "province", "primaryContact"} : h.form[f] # Empty
       /\ \E f \in {"email", "mobileNumber", "lineId"} : h.form[f] # Empty
       /\ h.form["email"] \notin Odd /\ h.form["mobileNumber"] \notin Odd
       /\ \A f \in PERCENT_FIELDS : h.form[f] = Empty \/ h.form[f] \in 0..100
       /\ h.form["qtyAvailableNow"] = Empty \/ h.form["qtyAvailableNow"] >= 0
       /\ (\A f \in PERCENT_FIELDS : h.form[f] # Empty)
             => \/ h.form["typicalThc"] + h.form["typicalCbd"] <= 100
                \/ <<h.form["typicalThc"], h.form["typicalCbd"]>> \in warnedOf

\* The photographs uploaded are those the form shows: none the farmer took
\* off, and none left out, however many were read meanwhile.
SentPhotosAreShown ==
    \A k \in DOMAIN sent : ~sent[k].item.draft =>
       /\ ToSet(sent[k].files) \cap sent[k].dropped = {}
       /\ ToSet(sent[k].files) = {p.file : p \in ToSet(sent[k].shown)} \ {Empty}

\* A form hands over what the farmer was shown and DDP can use: the
\* application and the photographs of a batch.
HandedOverAsShown == SubmittedFarmIsSound /\ SentPhotosAreShown

\* A farm's status is the one an administrator gave it last, whatever stale
\* copy of the farm a farmer's page sends back and in whatever order the saves
\* arrive.
StatusIsTheAdministrators == \A id \in DOMAIN farmRows : farmRows[id].status = decided[id]

=============================================================================
