--------------------------- MODULE SupplierTables ---------------------------
(***************************************************************************)
(* The tables the supplier's and the reviewers' screens write: batches,    *)
(* farms, their status history, requests, stored files, photographs and    *)
(* the document register with its opens and its review trail.              *)
(*                                                                         *)
(* Each operator answers with the tables after one statement; a companion  *)
(* May... says when the row policies and triggers let it through. An       *)
(* UPDATE whose row a policy hides changes nothing and is no error.        *)
(***************************************************************************)
EXTENDS Naturals, Sequences, FiniteSets

CONSTANTS Batches,   \* stock a farmer may enter
          Farms,     \* farm applications, one fresh id each
          Coas,      \* certificates, one stored path each
          Photos,    \* photographs, one stored path each
          Admins,
          Notes,     \* reasons of substance
          None

ASSUME TablesAssumption ==
    /\ None \notin Coas \cup Photos \cup Notes
    /\ Batches \cap Farms = {}

VARIABLE db

Statuses == {"Pending Review", "Approved", "Missing Document", "Rejected"}
FarmStatuses == {"Submitted to DDP", "Approved", "More Information Required",
                 "Watchlist", "Strategic Partner", "Rejected"}
DocStatuses == {"pending", "awaiting_clarification", "accepted", "rejected"}
Editable == {"none", "draft", "submitted", "needs_changes"}

NoBatch == [status |-> "none", stock |-> "none", visible |-> FALSE, coa |-> None,
            edit |-> 0]
NoFarm == [status |-> "none", owner |-> FALSE, profile |-> FALSE]
NoDoc == [status |-> "none", note |-> None, batch |-> None]

EmptyTables(rpc) ==
    [batch |-> [b \in Batches |-> NoBatch],
     farm |-> [f \in Farms |-> NoFarm],
     history |-> <<>>,
     requests |-> {},
     stored |-> {},
     photos |-> [b \in Batches |-> {}],
     register |-> [c \in Coas |-> NoDoc],
     opens |-> {},
     reviews |-> <<>>,
     rpc |-> rpc]

StatusOf(t, s) == IF s \in Batches THEN t.batch[s].status ELSE t.farm[s].status

SetStatus(t, s, new) ==
    IF s \in Batches THEN [t EXCEPT !.batch[s].status = new]
                     ELSE [t EXCEPT !.farm[s].status = new]

AddHistory(t, s, old, new) ==
    [t EXCEPT !.history = Append(@, [on |-> s, from |-> old, to |-> new])]

\* Mutant: the row keeps the old status the screen sent along.
RecordTransition_Sent(t, s, sent, new) == AddHistory(SetStatus(t, s, new), s, sent, new)

\* record_status_transition reads the old status under its row lock; what the
\* screen sent is only for the path without the function.
RecordTransition(t, s, sent, new) ==
    AddHistory(SetStatus(t, s, new), s, StatusOf(t, s), new)

\* The farmer's policies on inventory_batches: USING and WITH CHECK.
FarmerMayTouch(row) == row.stock \in Editable

FarmerMayLeave(row) == /\ ~row.visible
                       /\ row.status # "Approved"
                       /\ row.stock \in Editable \cup {"archived"}

\* Mutant: a farmer's write may leave a row visible to buyers.
MayWriteAsFarmer_Visible(old, new) == old = NoBatch \/ FarmerMayTouch(old)

MayWriteAsFarmer(old, new) == /\ old = NoBatch \/ FarmerMayTouch(old)
                              /\ FarmerMayLeave(new)

\* The upsert raises on a conflicting row its policy hides ...
MayUpsertBatch(t, b, row) == MayWriteAsFarmer(t.batch[b], row)
UpsertBatch(t, b, row) == [t EXCEPT !.batch[b] = row]

\* ... and a plain update passes such a row over.
MayPatchCoa(t, b, c) ==
    FarmerMayTouch(t.batch[b]) => MayWriteAsFarmer(t.batch[b],
                                      [t.batch[b] EXCEPT !.coa = c])
PatchCoa(t, b, c) ==
    IF FarmerMayTouch(t.batch[b])
    THEN [t EXCEPT !.batch[b].coa = c]
    ELSE t

StoreFile(t, f) == [t EXCEPT !.stored = @ \cup {f}]
RecordPhoto(t, b, p) == [t EXCEPT !.photos[b] = @ \cup {p}]

\* A document enters the register undecided.
RegisterCoa(t, b, c) ==
    [t EXCEPT !.register[c] = [status |-> "pending", note |-> None, batch |-> b]]

SetVisible(t, b, on) ==
    [t EXCEPT !.batch[b].visible = on,
              !.batch[b].stock = IF on THEN "client_visible" ELSE "approved_internal"]

FlagChanges(t, b) == [t EXCEPT !.batch[b].stock = "needs_changes"]

AddRequest(t, s, n) == [t EXCEPT !.requests = @ \cup {[on |-> s, by |-> n, status |-> "open"]}]

\* A farmer cannot touch a request that is already resolved.
MayResolve(t, r) == \E q \in t.requests : q.on = r.on /\ q.by = r.by /\ q.status = "open"
Resolve(t, r) ==
    [t EXCEPT !.requests = {IF q.on = r.on /\ q.by = r.by
                            THEN [q EXCEPT !.status = "resolved"] ELSE q : q \in @}]

\* The three writes of a new farm.
InsertFarm(t, f) == [t EXCEPT !.farm[f] = [NoFarm EXCEPT !.status = "Submitted to DDP"]]
AddOwner(t, f) == [t EXCEPT !.farm[f].owner = TRUE]
MayWriteProfile(t, f) == t.farm[f].owner
WriteProfile(t, f) == [t EXCEPT !.farm[f].profile = TRUE]

RecordOpen(t, d, a) == [t EXCEPT !.opens = @ \cup {<<d, a>>}]

\* A change of status needs a reason and, unless it goes back to the queue, an
\* open by whoever decides; a note on its own cannot change.
MayDecide(t, d, a, to, note) ==
    IF to = t.register[d].status
    THEN note = t.register[d].note
    ELSE note \in Notes /\ (to = "pending" \/ <<d, a>> \in t.opens)

\* Mutant: the event takes it that a decision starts from the queue.
Decide_FromQueue(t, d, a, to, note, n) ==
    [t EXCEPT !.register[d].status = to, !.register[d].note = note,
              !.reviews = Append(@, [doc |-> d, from |-> "pending", to |-> to,
                                     by |-> a, call |-> n])]

\* The trigger appends the event of a transition, and of nothing else.
Decide(t, d, a, to, note, n) ==
    IF to = t.register[d].status THEN t
    ELSE [t EXCEPT !.register[d].status = to, !.register[d].note = note,
                   !.reviews = Append(@, [doc |-> d, from |-> t.register[d].status,
                                          to |-> to, by |-> a, call |-> n])]
=============================================================================
