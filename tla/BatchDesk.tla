------------------------------ MODULE BatchDesk -----------------------------
(***************************************************************************)
(* The handlers of App.tsx that write batches and farms for a farmer and   *)
(* for the administrators, over SupplierTables.                            *)
(*                                                                         *)
(* A session shows the lists it loaded and changes them only in the        *)
(* onCommitted of a write (commitMutation). Nothing disables a button      *)
(* while a write is under way, so calls of one session and of several      *)
(* overlap; every statement of a handler is a step, which is answered,     *)
(* takes effect with its answer lost, or is refused.                       *)
(***************************************************************************)
EXTENDS SupplierTables

CONSTANTS Farmer, BatchVerdicts, FarmVerdicts,
          MaxPresses,  \* bound: buttons pressed in all
          MaxCalls     \* bound: handlers running at once

ASSUME DeskAssumption ==
    /\ Farmer \notin Admins
    /\ BatchVerdicts \subseteq Statuses \ {"Pending Review"}
    /\ FarmVerdicts \subseteq FarmStatuses \ {"Submitted to DDP"}
    /\ MaxPresses \in Nat /\ MaxCalls \in Nat

VARIABLES view,     \* the lists each session shows
          banner,   \* dbError: the error banner of each session
          calls,    \* handlers under way
          told,     \* what lists have shown as committed
          pressed,  \* buttons pressed
          page      \* where each session works; nobody moves

deskVars == <<view, banner, calls, told>>

Sessions == Admins \cup {Farmer}
Listed(t) == [batch |-> t.batch, farm |-> t.farm,
              open |-> {r \in t.requests : r.status = "open"}]

Over == {c \in calls : c.step = "over"}

\* A press starts a handler; its onBegin clears the banner in the same turn.
\* A farmer who presses something else has left the page of an earlier success.
Press(w, c) ==
    /\ pressed < MaxPresses
    /\ Cardinality(calls \ Over) < MaxCalls
    /\ pressed' = pressed + 1
    /\ calls' = (IF w = Farmer THEN calls \ Over ELSE calls)
                    \cup {c}
    /\ banner' = [banner EXCEPT ![w] = FALSE]
    /\ UNCHANGED <<db, view, told, page>>

PressStatus(a) ==
    \E s \in Batches \cup Farms :
    \E to \in IF s \in Batches THEN BatchVerdicts ELSE FarmVerdicts :
        /\ StatusOf(view[a], s) # "none"
        /\ Press(a, [id |-> pressed, who |-> a, op |-> "status", step |-> "call", on |-> s,
                     from |-> StatusOf(view[a], s), to |-> to])

\* Mark Buyer-Visible waits for an approval on the screen, hiding for nothing.
PressVisible(a) ==
    \E b \in Batches :
        /\ view[a].batch[b].status # "none"
        /\ view[a].batch[b].visible \/ view[a].batch[b].status = "Approved"
        /\ Press(a, [id |-> pressed, who |-> a, op |-> "visible", step |-> "patch", on |-> b,
                     to |-> ~view[a].batch[b].visible])

PressRequest(a) ==
    \E b \in Batches :
        /\ view[a].batch[b].status # "none"
        /\ Press(a, [id |-> pressed, who |-> a, op |-> "request", step |-> "insert",
                     todo |-> {b}])

\* The operations desk chases every farm that owes something, one by one.
PressChase(a) ==
    \E fs \in SUBSET {f \in Farms : view[a].farm[f].status # "none"} :
        /\ fs # {}
        /\ Press(a, [id |-> pressed, who |-> a, op |-> "request", step |-> "insert",
                     todo |-> fs])

PressResolve ==
    \E r \in view[Farmer].open :
        Press(Farmer, [id |-> pressed, who |-> Farmer, op |-> "resolve", step |-> "patch",
                       on |-> r])

InUse == db.stored \cup {c.coa : c \in {d \in calls : d.op \in {"submit", "coa"}}}
FreshCoa == IF Coas \subseteq InUse THEN {} ELSE {CHOOSE c \in Coas \ InUse : TRUE}
TakenBatches == {b \in Batches : db.batch[b] # NoBatch}
                    \cup {c.on : c \in {d \in calls : d.op = "submit"}}

\* A new entry has a fresh id; an edited one starts from the list's row. The
\* form carries no stored path, so an edit writes none.
PressSubmit ==
    \E b \in Batches, draft \in BOOLEAN :
    \E c \in FreshCoa \cup {None}, ps \in SUBSET Photos :
        /\ b \notin TakenBatches \/ view[Farmer].batch[b] # NoBatch
        /\ draft => c = None /\ ps = {}
        /\ Press(Farmer,
                 [id |-> pressed, who |-> Farmer, op |-> "submit", step |-> "upsert",
                  on |-> b, coa |-> c, todo |-> ps, got |-> {}, missed |-> {}, draft |-> draft,
                  row |-> [status |-> "Pending Review",
                           stock |-> IF draft THEN "draft" ELSE "submitted",
                           visible |-> view[Farmer].batch[b].visible,
                           coa |-> None, edit |-> pressed + 1]])

\* My Stock offers a replacement certificate for every batch it lists.
PressCoaUpload ==
    \E b \in Batches, c \in FreshCoa :
        /\ view[Farmer].batch[b] # NoBatch
        /\ Press(Farmer, [id |-> pressed, who |-> Farmer, op |-> "coa", step |-> "store",
                          on |-> b, coa |-> c])

TakenFarms == {f \in Farms : db.farm[f] # NoFarm}
                  \cup {c.on : c \in {d \in calls : d.op = "farm"}}

PressFarm ==
    \E f \in Farms \ TakenFarms :
        Press(Farmer, [id |-> pressed, who |-> Farmer, op |-> "farm", step |-> "farm",
                       on |-> f])

-----------------------------------------------------------------------------
\* A statement is answered, takes effect unheard, or does not take effect.
Statement(may, new, done, failed) ==
    /\ \/ may /\ db' = new /\ done
       \/ may /\ db' = new /\ failed
       \/ db' = db /\ failed
    /\ UNCHANGED <<pressed, page>>

Becomes(c, d) == calls' = (calls \ {c}) \cup {d}
Goto(c, step) == Becomes(c, [c EXCEPT !.step = step]) /\ UNCHANGED <<view, banner, told>>

\* onError of commitMutation: the lists stay as they are.
Fail(c) ==
    /\ calls' = calls \ {c}
    /\ banner' = [banner EXCEPT ![c.who] = TRUE]
    /\ UNCHANGED <<view, told>>

\* onCommitted: only now do the lists show it.
Show(c, claim, lists) ==
    /\ view' = [view EXCEPT ![c.who] = lists]
    /\ told' = told \cup {claim}

Commit(c, claim, lists) ==
    Show(c, claim, lists) /\ calls' = calls \ {c} /\ UNCHANGED banner

CommitStatus(c) ==
    Commit(c, <<"status", c.on, c.to>>, SetStatus(view[c.who], c.on, c.to))

\* tryAtomicStatusTransition; a deployment without the function falls through
\* to two calls.
StatusCall(c) ==
    /\ c.op = "status" /\ c.step = "call"
    /\ IF db.rpc
       THEN Statement(TRUE, RecordTransition(db, c.on, c.from, c.to), CommitStatus(c), Fail(c))
       ELSE Statement(TRUE, db, Goto(c, "update"), Fail(c))

\* Mutant: the list is told as soon as the row is written.
StatusUpdate_Told(c) ==
    /\ c.op = "status" /\ c.step = "update"
    /\ Statement(TRUE, SetStatus(db, c.on, c.to), CommitStatus(c), Fail(c))

StatusUpdate(c) ==
    /\ c.op = "status" /\ c.step = "update"
    /\ Statement(TRUE, SetStatus(db, c.on, c.to), Goto(c, "history"), Fail(c))

StatusHistory(c) ==
    /\ c.op = "status" /\ c.step = "history"
    /\ Statement(TRUE, AddHistory(db, c.on, c.from, c.to), CommitStatus(c), Fail(c))

handleMarkClientVisible(c) ==
    /\ c.op = "visible"
    /\ LET new == SetVisible(db, c.on, c.to)
       IN  Statement(TRUE, new,
                     Commit(c, <<"batch", c.on>>,
                            SetVisible(view[c.who], c.on, c.to)),
                     Fail(c))

\* The request is written first; the batch is flagged by a second mutation.
RequestInsert(c) ==
    /\ c.op = "request" /\ c.step = "insert"
    /\ LET s == CHOOSE x \in c.todo : TRUE
           rest == c.todo \ {s}
           onto == IF rest = {} THEN calls \ {c}
                   ELSE (calls \ {c}) \cup {[c EXCEPT !.todo = rest]}
           wrote == Show(c, <<"request", s, c.id>>, view[c.who]) /\ UNCHANGED banner
           failed == /\ calls' = onto
                     /\ banner' = [banner EXCEPT ![c.who] = rest = {}]
                     /\ UNCHANGED <<view, told>>
       IN  Statement(TRUE, AddRequest(db, s, c.id),
                     /\ wrote
                     /\ IF s \in Batches THEN Becomes(c, [c EXCEPT !.step = "flag"])
                                         ELSE calls' = onto,
                     failed)

RequestFlag(c) ==
    /\ c.op = "request" /\ c.step = "flag"
    /\ LET b == CHOOSE x \in c.todo : TRUE
       IN  Statement(TRUE, FlagChanges(db, b),
                     Commit(c, <<"batch", b>>, FlagChanges(view[c.who], b)), Fail(c))

handleResolveRequest(c) ==
    /\ c.op = "resolve"
    /\ Statement(MayResolve(db, c.on), Resolve(db, c.on),
                 Commit(c, <<"request", c.on.on, c.on.by>>,
                        [view[Farmer] EXCEPT !.open = @ \ {c.on}]),
                 Fail(c))

-----------------------------------------------------------------------------
\* handleInventorySubmit: the batch, then its certificate, then its
\* photographs, each a mutation of its own.
Ended(c) == IF c.draft THEN calls' = calls \ {c}
            ELSE Becomes(c, [id |-> c.id, who |-> c.who, op |-> "submitted",
                             step |-> "over", missed |-> c.missed])

Clear(begins) == banner' = IF begins THEN [banner EXCEPT ![Farmer] = FALSE] ELSE banner

SubmitUpsert(c) ==
    /\ c.op = "submit" /\ c.step = "upsert"
    /\ Statement(MayUpsertBatch(db, c.on, c.row), UpsertBatch(db, c.on, c.row),
           /\ Show(c, <<"batch", c.on>>, UpsertBatch(view[Farmer], c.on, c.row))
           /\ Clear(c.coa # None \/ c.todo # {})
           /\ IF c.coa # None THEN Becomes(c, [c EXCEPT !.step = "coaStore"])
              ELSE IF c.todo # {} THEN Becomes(c, [c EXCEPT !.step = "photoStore"])
              ELSE Ended(c),
           Fail(c))

\* A lost certificate does not undo the batch; the photographs are begun next.
CoaFails(c) ==
    LET d == [c EXCEPT !.missed = @ \cup {"coa"}]
    IN  /\ banner' = [banner EXCEPT ![Farmer] = c.todo = {}]
        /\ IF c.todo # {} THEN Becomes(c, [d EXCEPT !.step = "photoStore"])
           ELSE calls' = (calls \ {c}) \cup
                    {[id |-> c.id, who |-> c.who, op |-> "submitted", step |-> "over",
                      missed |-> d.missed]}
        /\ UNCHANGED <<view, told>>

uploadCoaFile(c) ==
    /\ c.op = "submit" /\ c.step = "coaStore"
    /\ Statement(TRUE, StoreFile(db, c.coa), Goto(c, "coaPatch"), CoaFails(c))

patchInventoryBatch(c) ==
    /\ c.op = "submit" /\ c.step = "coaPatch"
    /\ Statement(MayPatchCoa(db, c.on, c.coa), PatchCoa(db, c.on, c.coa),
                 Goto(c, "coaRegister"), CoaFails(c))

recordCoaDocument(c) ==
    /\ c.op = "submit" /\ c.step = "coaRegister"
    /\ Statement(TRUE, RegisterCoa(db, c.on, c.coa),
           /\ Show(c, <<"coa", c.coa>>, [view[Farmer] EXCEPT !.batch[c.on].coa = c.coa])
           /\ Clear(c.todo # {})
           /\ IF c.todo # {} THEN Becomes(c, [c EXCEPT !.step = "photoStore"]) ELSE Ended(c),
           CoaFails(c))

\* One photograph that fails does not stop the others; the batch page names
\* the failures when all were tried.
NextPhoto(c, p, kept) ==
    LET d == [c EXCEPT !.todo = @ \ {p}, !.step = "photoStore",
                       !.got = IF kept THEN @ \cup {p} ELSE @,
                       !.missed = IF kept THEN @ ELSE @ \cup {"photo"}]
    IN  /\ IF d.todo # {} THEN Becomes(c, d) /\ UNCHANGED <<told, banner>>
           ELSE /\ calls' = (calls \ {c}) \cup
                        {[id |-> c.id, who |-> c.who, op |-> "submitted", step |-> "over",
                          missed |-> d.missed]}
                /\ told' = told \cup {<<"photo", c.on, q>> : q \in d.got}
                /\ banner' = [banner EXCEPT ![Farmer] = @ \/ "photo" \in d.missed]
        /\ UNCHANGED view

FirstPhoto(c) == CHOOSE p \in c.todo : TRUE

uploadBatchPhoto(c) ==
    /\ c.op = "submit" /\ c.step = "photoStore"
    /\ Statement(TRUE, StoreFile(db, FirstPhoto(c)), Goto(c, "photoRecord"),
                 NextPhoto(c, FirstPhoto(c), FALSE))

recordBatchPhoto(c) ==
    /\ c.op = "submit" /\ c.step = "photoRecord"
    /\ Statement(TRUE, RecordPhoto(db, c.on, FirstPhoto(c)),
                 NextPhoto(c, FirstPhoto(c), TRUE), NextPhoto(c, FirstPhoto(c), FALSE))

\* handleCoaUpload of My Stock: its page has an alert of its own, and the
\* register is not written.
Forget(c) == calls' = calls \ {c} /\ UNCHANGED <<view, banner, told>>

CoaUploadStore(c) ==
    /\ c.op = "coa" /\ c.step = "store"
    /\ Statement(TRUE, StoreFile(db, c.coa), Goto(c, "patch"), Forget(c))

CoaUploadPatch(c) ==
    /\ c.op = "coa" /\ c.step = "patch"
    /\ Statement(MayPatchCoa(db, c.on, c.coa), PatchCoa(db, c.on, c.coa),
                 Commit(c, <<"batch", c.on>>,
                        [view[Farmer] EXCEPT !.batch[c.on].coa = c.coa]),
                 Forget(c))

\* createFarmProfile: the farm, its owner, its profile.
FarmInsert(c) ==
    /\ c.op = "farm" /\ c.step = "farm"
    /\ Statement(TRUE, InsertFarm(db, c.on), Goto(c, "owner"), Fail(c))

FarmOwner(c) ==
    /\ c.op = "farm" /\ c.step = "owner"
    /\ Statement(TRUE, AddOwner(db, c.on), Goto(c, "profile"), Fail(c))

FarmProfile(c) ==
    /\ c.op = "farm" /\ c.step = "profile"
    /\ Statement(MayWriteProfile(db, c.on), WriteProfile(db, c.on),
                 Commit(c, <<"farm", c.on>>, InsertFarm(view[Farmer], c.on)), Fail(c))

\* The page is loaded again: its handlers are gone and its lists are fresh.
Reload(w) ==
    /\ page[w] \in {"stock", "application", "batches", "farms"}
    /\ view' = [view EXCEPT ![w] = Listed(db)]
    /\ banner' = [banner EXCEPT ![w] = FALSE]
    /\ calls' = {c \in calls : c.who # w}
    /\ UNCHANGED <<db, told, pressed, page>>

-----------------------------------------------------------------------------
DeskInit(t, where, left, under) ==
    /\ db = t
    /\ page = where
    /\ view = [w \in Sessions |-> Listed(t)]
    /\ banner = [w \in Sessions |-> FALSE]
    /\ calls = under
    /\ told = {}
    /\ pressed = MaxPresses - left

FarmerPresses ==
    \/ page[Farmer] = "stock" /\ (PressSubmit \/ PressCoaUpload \/ PressResolve)
    \/ page[Farmer] = "application" /\ (PressFarm \/ PressResolve)

AdminPresses(a) ==
    \/ page[a] = "batches" /\ (PressStatus(a) \/ PressVisible(a) \/ PressRequest(a))
    \/ page[a] = "farms" /\ (PressStatus(a) \/ PressChase(a))

Handler(c) ==
    \/ StatusCall(c) \/ StatusUpdate(c) \/ StatusHistory(c)
    \/ handleMarkClientVisible(c) \/ RequestInsert(c) \/ RequestFlag(c)
    \/ handleResolveRequest(c)
    \/ SubmitUpsert(c) \/ uploadCoaFile(c) \/ patchInventoryBatch(c)
    \/ recordCoaDocument(c) \/ uploadBatchPhoto(c) \/ recordBatchPhoto(c)
    \/ CoaUploadStore(c) \/ CoaUploadPatch(c)
    \/ FarmInsert(c) \/ FarmOwner(c) \/ FarmProfile(c)

DeskStep ==
    \/ FarmerPresses
    \/ \E a \in Admins : AdminPresses(a)
    \/ \E c \in calls : Handler(c)
    \/ \E w \in Sessions : Reload(w)
=============================================================================
