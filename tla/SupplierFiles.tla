---------------------------- MODULE SupplierFiles ---------------------------
(***************************************************************************)
(* What a supplier hands in and what the reviewers do with it: the batch   *)
(* and farm handlers beside the evidence screens, on one set of tables.    *)
(***************************************************************************)
EXTENDS EvidenceDesk

filesVars == <<db, page, pressed, view, banner, calls, told, desk, acts, warned>>

FilesStep == \/ DeskStep /\ UNCHANGED evidenceVars
             \/ EvidenceStep /\ UNCHANGED deskVars

\* A request of the browser is settled in the end, by an answer or an error.
Settles == \A n \in 0..(MaxPresses - 1) :
    WF_filesVars(\E c \in acts : c.id = n /\ Act(c) /\ UNCHANGED deskVars)

-----------------------------------------------------------------------------

\* What a list has shown as done is in the tables, through lost answers,
\* partial failures and either deployment of the status function: a decided
\* status has its history row, a sent request its row, a listed farm its owner
\* and profile, a kept photograph and a filed certificate their bytes and their
\* row (commitMutation, handleInventorySubmit, createFarmProfile,
\* updateInventoryStatus).
Holds(claim) ==
    CASE claim[1] = "status" ->
           \E i \in DOMAIN db.history : /\ db.history[i].on = claim[2]
                                        /\ db.history[i].to = claim[3]
      [] claim[1] = "request" ->
           \E r \in db.requests : r.on = claim[2] /\ r.by = claim[3]
      [] claim[1] = "photo" -> /\ claim[3] \in db.photos[claim[2]]
                               /\ claim[3] \in db.stored
      [] claim[1] = "coa" -> /\ claim[2] \in db.stored
                             /\ db.register[claim[2]] # NoDoc
      [] claim[1] = "farm" -> db.farm[claim[2]].owner /\ db.farm[claim[2]].profile
      [] claim[1] = "batch" -> db.batch[claim[2]] # NoBatch

ToldIsRecorded == \A claim \in told : Holds(claim)

\* Where the function is deployed a status changes with its history row, and
\* the row names the status that was really left, whatever a screen believed;
\* only the farmer's own resubmission goes back to review without one
\* (record_status_transition, updateFarmProfileStatus, createInventoryBatch).
TransitionsAreRecorded ==
    [][db.rpc => \A s \in Batches \cup Farms :
          StatusOf(db', s) # StatusOf(db, s) =>
             \/ StatusOf(db', s) \in {"Pending Review", "Submitted to DDP"}
                /\ db'.history = db.history
             \/ db'.history = Append(db.history, [on |-> s, from |-> StatusOf(db, s),
                                                  to |-> StatusOf(db', s)])]_filesVars

\* While buyers can see a batch its content and its certificate stand still,
\* although the farmer's screen goes on offering Edit and Replace COA on it
\* (handleMarkClientVisible, handleInventorySubmit, handleCoaUpload).
ReleasedContentStands ==
    [][\A b \in Batches :
          db.batch[b].visible /\ db'.batch[b].visible =>
             /\ db'.batch[b].coa = db.batch[b].coa
             /\ db'.batch[b].edit = db.batch[b].edit]_filesVars

OpensSuccessPage(c) == c \in Over' \ Over

\* The same for the certificate (App.tsx: the error banner carries the upload
\* failure). Beginning on the photographs clears the banner again.
LostCertificateIsShown ==
    [][\A c \in Over' : OpensSuccessPage(c) /\ "coa" \in c.missed => banner'[Farmer]]_filesVars

\* The trail of a document is one chain from the queue to the status the
\* register shows, through reviewers on stale screens, double decisions and
\* retries (fn_farmer_document_review_event, DDPEvidenceReview.decide).
Trail(d) == {i \in DOMAIN db.reviews : db.reviews[i].doc = d}
TrailIsWhole ==
    \A d \in Coas : \A i \in Trail(d) :
        /\ (\A j \in Trail(d) : i <= j) => db.reviews[i].from = "pending"
        /\ \A j \in Trail(d) : (j < i /\ \A k \in Trail(d) : k <= j \/ i <= k)
                                   => db.reviews[i].from = db.reviews[j].to
        /\ (\A j \in Trail(d) : j <= i) => db.reviews[i].to = db.register[d].status

\* A screen does not go on saying "Recording" (DDPEvidenceReview.decide).
RecordingEnds == \A a \in Admins : desk[a].busy # None ~> desk[a].busy = None
=============================================================================
