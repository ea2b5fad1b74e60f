------------------------- MODULE SupplierFilesProofs -------------------------
(***************************************************************************)
(* Theorems about SupplierFiles, for every value of its constants and from *)
(* any tables on file; about CoaReading, for every reply the language      *)
(* model may give; and about StorageBackup, for any buckets and pages.     *)
(*                                                                         *)
(* The argument has two halves.  Whatever handler runs, the tables make    *)
(* one of a few Writes or stay; a write keeps what was recorded (Grows),   *)
(* changes a status only as history has it, and touches no content that    *)
(* buyers can see.  And a handler under way knows what its next call rests *)
(* on (CallStands), because it saw that recorded and writes only add to    *)
(* it; so what it tells when it commits is recorded.                       *)
(*                                                                         *)
(* Of a certificate that is read, the calls of the endpoint carry lists    *)
(* and, once answered with success, have their rows in the table           *)
(* (ReadsInv); the rest follows from what the helpers compute of any list. *)
(*                                                                         *)
(* Of a backup, every file that stood since the walk began is fetched,     *)
(* noted or still ahead of it (Accounted), because its rank among the      *)
(* sorted names of its folder only grows; and what is packed comes out as  *)
(* it went in (PackedComesBack).                                           *)
(***************************************************************************)
EXTENDS SupplierFiles, CoaReading, StorageBackup, CountingProofs, TLAPS

-----------------------------------------------------------------------------
(* The tables.                                                             *)

Subjects == Batches \cup Farms
Status == Statuses \cup FarmStatuses \cup {"none"}
Stock == Editable \cup {"archived", "client_visible", "approved_internal"}

BatchRow == [status : Statuses \cup {"none"}, stock : Stock, visible : BOOLEAN,
             coa : Coas \cup {None}, edit : Nat]
FarmRow == [status : FarmStatuses \cup {"none"}, owner : BOOLEAN, profile : BOOLEAN]
Entry == [on : Subjects, from : Status, to : Status]
Request == [on : Subjects \cup {Home}, by : Nat, status : {"open", "resolved"}]
DocRow == [status : DocStatuses \cup {"none"}, note : Notes \cup {None},
           batch : Batches \cup {None}]
Review == [doc : Coas, from : DocStatuses \cup {"none"}, to : DocStatuses,
           by : Admins, call : Nat]

Tables == [batch : [Batches -> BatchRow], farm : [Farms -> FarmRow],
           history : Seq(Entry), requests : SUBSET Request,
           stored : SUBSET (Coas \cup Photos), photos : [Batches -> SUBSET Photos],
           register : [Coas -> DocRow], opens : SUBSET (Coas \X Admins),
           reviews : Seq(Review), rpc : BOOLEAN]

Verdicts(s) == IF s \in Batches THEN BatchVerdicts ELSE FarmVerdicts

KnownBatch(t, b) == t.batch[b].status # "none"
KnownFarm(t, f) == t.farm[f].status # "none"
Known(t, s) == StatusOf(t, s) # "none"
Filed(t, d) == t.register[d].status # "none"

(* Whatever handler runs, the tables stay or change by one of these.       *)
WritesStatus(t, u) ==
  \E s \in Subjects : \E to \in Verdicts(s), from \in Status :
    /\ Known(t, s)
    /\ \/ u = RecordTransition(t, s, from, to)
       \/ ~t.rpc /\ u = SetStatus(t, s, to)
       \/ u = AddHistory(t, s, from, to)

WritesBatch(t, u) ==
  \E b \in Batches :
    \/ /\ KnownBatch(t, b)
       /\ \/ \E on \in BOOLEAN : u = SetVisible(t, b, on)
          \/ u = FlagChanges(t, b)
          \/ \E c \in Coas : MayPatchCoa(t, b, c) /\ u = PatchCoa(t, b, c)
    \/ \E entry \in BatchRow : /\ entry.status = "Pending Review"
                               /\ MayUpsertBatch(t, b, entry)
                               /\ u = UpsertBatch(t, b, entry)

WritesFarm(t, u) ==
  \E f \in Farms : \/ ~KnownFarm(t, f) /\ u = InsertFarm(t, f)
                   \/ KnownFarm(t, f) /\ u = AddOwner(t, f)
                   \/ KnownFarm(t, f) /\ u = WriteProfile(t, f)

WritesRequest(t, u) ==
  \/ \E s \in Subjects \cup {Home}, n \in Nat : u = AddRequest(t, s, n)
  \/ \E r \in Request : u = Resolve(t, r)

WritesFile(t, u) ==
  \/ \E f \in Coas \cup Photos : u = StoreFile(t, f)
  \/ \E b \in Batches, p \in Photos : u = RecordPhoto(t, b, p)

WritesDocument(t, u) ==
  \E d \in Coas :
    \/ \E b \in Batches : ~Filed(t, d) /\ d \in t.stored /\ u = RegisterCoa(t, b, d)
    \/ \E a \in Admins : u = RecordOpen(t, d, a)
    \/ \E a \in Admins, to \in DocStatuses, note \in Notes, n \in Nat :
         Filed(t, d) /\ u = Decide(t, d, a, to, note, n)

Writes(t, u) == \/ u = t \/ WritesStatus(t, u) \/ WritesBatch(t, u) \/ WritesFarm(t, u)
                \/ WritesRequest(t, u) \/ WritesFile(t, u) \/ WritesDocument(t, u)

(* Nothing recorded is taken back.                                         *)
Grows(t, u) ==
  /\ \A b \in Batches : KnownBatch(t, b) => KnownBatch(u, b)
  /\ \A f \in Farms : KnownFarm(t, f) =>
       /\ KnownFarm(u, f)
       /\ t.farm[f].owner => u.farm[f].owner
       /\ t.farm[f].profile => u.farm[f].profile
  /\ \A i \in DOMAIN t.history : i \in DOMAIN u.history /\ u.history[i] = t.history[i]
  /\ \A r \in t.requests : \E q \in u.requests : q.on = r.on /\ q.by = r.by
  /\ t.stored \subseteq u.stored
  /\ \A b \in Batches : t.photos[b] \subseteq u.photos[b]
  /\ \A d \in Coas : Filed(t, d) => Filed(u, d)
  /\ u.rpc = t.rpc
-----------------------------------------------------------------------------
(* Each write, as the tables it leaves.                                    *)

LEMMA VerdictsAreStatuses ==
  ASSUME NEW s \in Subjects, NEW to \in Verdicts(s)
  PROVE  /\ s \in Batches => to \in Statuses /\ to # "Pending Review"
         /\ s \notin Batches => s \in Farms /\ to \in FarmStatuses
         /\ to \in Status /\ to # "none"
BY DeskAssumption DEF Verdicts, Subjects, Status, Statuses, FarmStatuses

LEMMA StatusOfType ==
  ASSUME NEW t \in Tables, NEW s \in Subjects
  PROVE  StatusOf(t, s) \in Status
BY DEF StatusOf, Tables, Subjects, BatchRow, FarmRow, Status

(* One column of the tables set, the others as they were.                  *)
OthersKept(t, u, column) ==
  /\ column # "batch" => u.batch = t.batch
  /\ column # "farm" => u.farm = t.farm
  /\ column # "history" => u.history = t.history
  /\ column # "requests" => u.requests = t.requests
  /\ column # "stored" => u.stored = t.stored
  /\ column # "photos" => u.photos = t.photos
  /\ column # "register" => u.register = t.register
  /\ column # "opens" => u.opens = t.opens
  /\ column # "reviews" => u.reviews = t.reviews
  /\ column # "rpc" => u.rpc = t.rpc

LEMMA SetBatch ==
  ASSUME NEW t \in Tables, NEW x \in [Batches -> BatchRow]
  PROVE  /\ [t EXCEPT !.batch = x] \in Tables
         /\ [t EXCEPT !.batch = x].batch = x
         /\ OthersKept(t, [t EXCEPT !.batch = x], "batch")
BY DEF Tables, OthersKept

LEMMA SetFarm ==
  ASSUME NEW t \in Tables, NEW x \in [Farms -> FarmRow]
  PROVE  /\ [t EXCEPT !.farm = x] \in Tables
         /\ [t EXCEPT !.farm = x].farm = x
         /\ OthersKept(t, [t EXCEPT !.farm = x], "farm")
BY DEF Tables, OthersKept

LEMMA SetHistory ==
  ASSUME NEW t \in Tables, NEW x \in Seq(Entry)
  PROVE  /\ [t EXCEPT !.history = x] \in Tables
         /\ [t EXCEPT !.history = x].history = x
         /\ OthersKept(t, [t EXCEPT !.history = x], "history")
BY DEF Tables, OthersKept

LEMMA SetRequests ==
  ASSUME NEW t \in Tables, NEW x \in SUBSET Request
  PROVE  /\ [t EXCEPT !.requests = x] \in Tables
         /\ [t EXCEPT !.requests = x].requests = x
         /\ OthersKept(t, [t EXCEPT !.requests = x], "requests")
BY DEF Tables, OthersKept

LEMMA SetStored ==
  ASSUME NEW t \in Tables, NEW x \in SUBSET (Coas \cup Photos)
  PROVE  /\ [t EXCEPT !.stored = x] \in Tables
         /\ [t EXCEPT !.stored = x].stored = x
         /\ OthersKept(t, [t EXCEPT !.stored = x], "stored")
BY DEF Tables, OthersKept

LEMMA SetPhotos ==
  ASSUME NEW t \in Tables, NEW x \in [Batches -> SUBSET Photos]
  PROVE  /\ [t EXCEPT !.photos = x] \in Tables
         /\ [t EXCEPT !.photos = x].photos = x
         /\ OthersKept(t, [t EXCEPT !.photos = x], "photos")
BY DEF Tables, OthersKept

LEMMA SetRegister ==
  ASSUME NEW t \in Tables, NEW x \in [Coas -> DocRow]
  PROVE  /\ [t EXCEPT !.register = x] \in Tables
         /\ [t EXCEPT !.register = x].register = x
         /\ OthersKept(t, [t EXCEPT !.register = x], "register")
BY DEF Tables, OthersKept

LEMMA SetOpens ==
  ASSUME NEW t \in Tables, NEW x \in SUBSET (Coas \X Admins)
  PROVE  /\ [t EXCEPT !.opens = x] \in Tables
         /\ [t EXCEPT !.opens = x].opens = x
         /\ OthersKept(t, [t EXCEPT !.opens = x], "opens")
BY DEF Tables, OthersKept

LEMMA SetReviews ==
  ASSUME NEW t \in Tables, NEW x \in Seq(Review)
  PROVE  /\ [t EXCEPT !.reviews = x] \in Tables
         /\ [t EXCEPT !.reviews = x].reviews = x
         /\ OthersKept(t, [t EXCEPT !.reviews = x], "reviews")
BY DEF Tables, OthersKept

(* updateInventoryStatus, updateFarmProfileStatus: the status of one row,   *)
(* nothing else (db.ts:459-482, 601-606).                                  *)
LEMMA SetStatusWrites ==
  ASSUME NEW t \in Tables, NEW s \in Subjects, NEW to \in Verdicts(s)
  PROVE  LET u == SetStatus(t, s, to) IN
         /\ u \in Tables
         /\ \A b \in Batches : u.batch[b] = IF b = s THEN [t.batch[b] EXCEPT !.status = to]
                                                     ELSE t.batch[b]
         /\ \A f \in Farms : u.farm[f] = IF f = s THEN [t.farm[f] EXCEPT !.status = to]
                                                  ELSE t.farm[f]
         /\ u.history = t.history /\ u.requests = t.requests /\ u.stored = t.stored
         /\ u.photos = t.photos /\ u.register = t.register /\ u.reviews = t.reviews
         /\ u.rpc = t.rpc
<1>1. CASE s \in Batches
  <2> DEFINE x == [t.batch EXCEPT ![s] = [t.batch[s] EXCEPT !.status = to]]
  <2>1. s \notin Farms /\ to \in Statuses
    BY <1>1, VerdictsAreStatuses, TablesAssumption
  <2>2. t.batch \in [Batches -> BatchRow]
    BY DEF Tables
  <2>3. [t.batch[s] EXCEPT !.status = to] \in BatchRow
    BY <1>1, <2>1, <2>2 DEF BatchRow
  <2>4. x \in [Batches -> BatchRow]
    BY <2>2, <2>3
  <2>5. SetStatus(t, s, to) = [t EXCEPT !.batch = x]
    BY <1>1 DEF SetStatus
  <2>6. \A b \in Batches : x[b] = IF b = s THEN [t.batch[b] EXCEPT !.status = to]
                                           ELSE t.batch[b]
    BY <1>1, <2>2
  <2> HIDE DEF x
  <2> QED
    BY <2>1, <2>4, <2>5, <2>6, SetBatch DEF OthersKept
<1>2. CASE s \notin Batches
  <2> DEFINE x == [t.farm EXCEPT ![s] = [t.farm[s] EXCEPT !.status = to]]
  <2>1. s \in Farms /\ to \in FarmStatuses
    BY <1>2, VerdictsAreStatuses
  <2>2. t.farm \in [Farms -> FarmRow]
    BY DEF Tables
  <2>3. [t.farm[s] EXCEPT !.status = to] \in FarmRow
    BY <2>1, <2>2 DEF FarmRow
  <2>4. x \in [Farms -> FarmRow]
    BY <2>2, <2>3
  <2>5. SetStatus(t, s, to) = [t EXCEPT !.farm = x]
    BY <1>2 DEF SetStatus
  <2>6. \A f \in Farms : x[f] = IF f = s THEN [t.farm[f] EXCEPT !.status = to]
                                         ELSE t.farm[f]
    BY <2>1, <2>2
  <2> HIDE DEF x
  <2> QED
    BY <1>2, <2>4, <2>5, <2>6, SetFarm DEF OthersKept
<1> QED
  BY <1>1, <1>2

(* One entry more, nothing else (db.ts:482-491, 607-615).                  *)
LEMMA AddHistoryWrites ==
  ASSUME NEW t \in Tables, NEW s \in Subjects, NEW from \in Status, NEW to \in Status
  PROVE  /\ AddHistory(t, s, from, to) \in Tables
         /\ AddHistory(t, s, from, to).history =
              Append(t.history, [on |-> s, from |-> from, to |-> to])
         /\ AddHistory(t, s, from, to).batch = t.batch
         /\ AddHistory(t, s, from, to).farm = t.farm
         /\ AddHistory(t, s, from, to).requests = t.requests
         /\ AddHistory(t, s, from, to).stored = t.stored
         /\ AddHistory(t, s, from, to).photos = t.photos
         /\ AddHistory(t, s, from, to).register = t.register
         /\ AddHistory(t, s, from, to).reviews = t.reviews
         /\ AddHistory(t, s, from, to).rpc = t.rpc
<1> DEFINE entry == [on |-> s, from |-> from, to |-> to]
<1>1. entry \in Entry
  BY DEF Entry
<1>2. t.history \in Seq(Entry)
  BY DEF Tables
<1>3. Append(t.history, entry) \in Seq(Entry)
  BY <1>1, <1>2
<1> HIDE DEF entry
<1>4. AddHistory(t, s, from, to) = [t EXCEPT !.history = Append(t.history, entry)]
  BY DEF AddHistory, entry, Tables
<1>5. AddHistory(t, s, from, to) \in Tables
  BY <1>3, <1>4 DEF Tables
<1> QED
  BY <1>4, <1>5 DEF Tables, entry

(* An appended entry leaves the earlier ones where they were.              *)
LEMMA AppendKeeps ==
  ASSUME NEW S, NEW q \in Seq(S), NEW e \in S
  PROVE  /\ DOMAIN q \subseteq DOMAIN Append(q, e)
         /\ \A i \in DOMAIN q : Append(q, e)[i] = q[i]
         /\ DOMAIN Append(q, e) = DOMAIN q \cup {Len(q) + 1}
         /\ Append(q, e)[Len(q) + 1] = e
         /\ DOMAIN q = 1 .. Len(q) /\ Len(q) \in Nat
OBVIOUS

(* record_status_transition: the row's status and its history in one step  *)
(* (35_STATUS_TRANSITION_ATOMIC_HARDENING.sql:129-250).                    *)
LEMMA RecordTransitionWrites ==
  ASSUME NEW t \in Tables, NEW s \in Subjects, NEW to \in Verdicts(s), NEW from \in Status
  PROVE  LET u == RecordTransition(t, s, from, to) IN
         /\ u \in Tables
         /\ u.history = Append(t.history, [on |-> s, from |-> StatusOf(t, s), to |-> to])
         /\ u.batch = SetStatus(t, s, to).batch
         /\ u.farm = SetStatus(t, s, to).farm
         /\ u.requests = t.requests /\ u.stored = t.stored /\ u.photos = t.photos
         /\ u.register = t.register /\ u.reviews = t.reviews /\ u.rpc = t.rpc
<1>1. SetStatus(t, s, to) \in Tables
  BY SetStatusWrites
<1>2. StatusOf(t, s) \in Status /\ to \in Status
  BY StatusOfType, VerdictsAreStatuses
<1> QED
  BY <1>1, <1>2, SetStatusWrites, AddHistoryWrites DEF RecordTransition
-----------------------------------------------------------------------------
(* What a write keeps.                                                     *)

(* TransitionsAreRecorded and ReleasedContentStands, of tables t and u.    *)
StatusAsHistory(t, u) ==
  t.rpc => \A s \in Subjects : StatusOf(u, s) # StatusOf(t, s) =>
             \/ StatusOf(u, s) \in {"Pending Review", "Submitted to DDP"}
                /\ u.history = t.history
             \/ u.history = Append(t.history, [on |-> s, from |-> StatusOf(t, s),
                                               to |-> StatusOf(u, s)])

ContentStands(t, u) ==
  \A b \in Batches : t.batch[b].visible /\ u.batch[b].visible =>
    /\ u.batch[b].coa = t.batch[b].coa
    /\ u.batch[b].edit = t.batch[b].edit

(* A row without a status is no row, and what is filed has its bytes.      *)
RowsStand(t) ==
  /\ \A b \in Batches : ~KnownBatch(t, b) => t.batch[b] = NoBatch
  /\ \A d \in Coas : Filed(t, d) => d \in t.stored

(* TrailIsWhole, with what a document says that was never decided.         *)
TrailOf(t, d) == {i \in DOMAIN t.reviews : t.reviews[i].doc = d}
TrailStands(t, d) ==
  /\ TrailOf(t, d) = {} => t.register[d].status \in {"none", "pending"}
  /\ TrailOf(t, d) # {} => Filed(t, d)
  /\ \A i \in TrailOf(t, d) :
       /\ (\A j \in TrailOf(t, d) : i <= j) => t.reviews[i].from = "pending"
       /\ \A j \in TrailOf(t, d) : (j < i /\ \A k \in TrailOf(t, d) : k <= j \/ i <= k)
                                       => t.reviews[i].from = t.reviews[j].to
       /\ (\A j \in TrailOf(t, d) : j <= i) => t.reviews[i].to = t.register[d].status

TablesStand(t) == t \in Tables /\ RowsStand(t) /\ \A d \in Coas : TrailStands(t, d)

Sound(t, u) == TablesStand(u) /\ Grows(t, u) /\ StatusAsHistory(t, u) /\ ContentStands(t, u)

LEMMA TrailsKept ==
  ASSUME NEW t, NEW u, NEW d, TrailStands(t, d), u.reviews = t.reviews,
         u.register[d] = t.register[d]
  PROVE  TrailStands(u, d)
BY DEF TrailStands, TrailOf, Filed

(* Who writes neither batches nor farms changes no status and no content.  *)
LEMMA StatusKept ==
  ASSUME NEW t, NEW u, u.batch = t.batch, u.farm = t.farm
  PROVE  StatusAsHistory(t, u) /\ ContentStands(t, u)
BY DEF StatusAsHistory, ContentStands, StatusOf

(* record_status_transition, or the two calls of a deployment without it   *)
(* (db.ts:459-491, 587-615).                                               *)
LEMMA StatusWritesAreSound ==
  ASSUME NEW t, TablesStand(t), NEW u, WritesStatus(t, u)
  PROVE  Sound(t, u)
<1>1. PICK s \in Subjects : \E to \in Verdicts(s), from \in Status :
        /\ Known(t, s)
        /\ \/ u = RecordTransition(t, s, from, to)
           \/ ~t.rpc /\ u = SetStatus(t, s, to)
           \/ u = AddHistory(t, s, from, to)
  BY DEF WritesStatus
<1>2. PICK to \in Verdicts(s), from \in Status :
        /\ Known(t, s)
        /\ \/ u = RecordTransition(t, s, from, to)
           \/ ~t.rpc /\ u = SetStatus(t, s, to)
           \/ u = AddHistory(t, s, from, to)
  BY <1>1
<1>3. t \in Tables /\ RowsStand(t) /\ \A d \in Coas : TrailStands(t, d)
  BY DEF TablesStand
<1>4. /\ to # "none" /\ to \in Status
      /\ s \in Batches => s \notin Farms
      /\ s \in Farms => s \notin Batches
  BY VerdictsAreStatuses, TablesAssumption
<1>5. /\ u \in Tables
      /\ u.requests = t.requests /\ u.stored = t.stored /\ u.photos = t.photos
      /\ u.register = t.register /\ u.reviews = t.reviews /\ u.rpc = t.rpc
      /\ \/ u.history = t.history
         \/ \E e \in Entry : u.history = Append(t.history, e)
      /\ \/ u.batch = t.batch /\ u.farm = t.farm
         \/ u.batch = SetStatus(t, s, to).batch /\ u.farm = SetStatus(t, s, to).farm
  <2>1. CASE u = RecordTransition(t, s, from, to)
    <3>1. [on |-> s, from |-> StatusOf(t, s), to |-> to] \in Entry
      BY <1>3, <1>4, StatusOfType DEF Entry
    <3> QED
      BY <1>3, <2>1, <3>1, RecordTransitionWrites
  <2>2. CASE u = SetStatus(t, s, to)
    BY <1>3, <2>2, SetStatusWrites
  <2>3. CASE u = AddHistory(t, s, from, to)
    <3>1. [on |-> s, from |-> from, to |-> to] \in Entry
      BY <1>4 DEF Entry
    <3> QED
      BY <1>3, <1>4, <2>3, <3>1, AddHistoryWrites
  <2> QED
    BY <1>2, <2>1, <2>2, <2>3
<1>6. u = AddHistory(t, s, from, to) => u.batch = t.batch /\ u.farm = t.farm
  <2>1. AddHistory(t, s, from, to).batch = t.batch /\ AddHistory(t, s, from, to).farm = t.farm
    BY <1>3, <1>4, AddHistoryWrites
  <2> QED
    BY <2>1
<1>7. \A i \in DOMAIN t.history : i \in DOMAIN u.history /\ u.history[i] = t.history[i]
  BY <1>3, <1>5, AppendKeeps DEF Tables
<1>9. /\ \A b \in Batches : u.batch[b] = t.batch[b] \/
              (b = s /\ u.batch[b] = [t.batch[b] EXCEPT !.status = to])
      /\ \A f \in Farms : u.farm[f] = t.farm[f] \/
              (f = s /\ u.farm[f] = [t.farm[f] EXCEPT !.status = to])
  BY <1>3, <1>5, SetStatusWrites
<1>10. t.batch \in [Batches -> BatchRow] /\ t.farm \in [Farms -> FarmRow]
  BY <1>3 DEF Tables
<1>11. \A b \in Batches : /\ KnownBatch(t, b) => KnownBatch(u, b)
                          /\ KnownBatch(u, b) => KnownBatch(t, b)
                          /\ ~KnownBatch(t, b) => u.batch[b] = t.batch[b]
  <2> SUFFICES ASSUME NEW b \in Batches
               PROVE  /\ KnownBatch(t, b) => KnownBatch(u, b)
                      /\ KnownBatch(u, b) => KnownBatch(t, b)
                      /\ ~KnownBatch(t, b) => u.batch[b] = t.batch[b]
    OBVIOUS
  <2>1. t.batch[b] \in BatchRow
    BY <1>10
  <2>2. CASE u.batch[b] = t.batch[b]
    BY <2>2 DEF KnownBatch
  <2>3. CASE b = s /\ u.batch[b] = [t.batch[b] EXCEPT !.status = to]
    BY <1>2, <1>4, <2>1, <2>3 DEF KnownBatch, Known, StatusOf, BatchRow
  <2> QED
    BY <1>9, <2>2, <2>3
<1>12. \A f \in Farms : KnownFarm(t, f) => /\ KnownFarm(u, f)
                                          /\ u.farm[f].owner = t.farm[f].owner
                                          /\ u.farm[f].profile = t.farm[f].profile
  <2> SUFFICES ASSUME NEW f \in Farms, KnownFarm(t, f)
               PROVE  /\ KnownFarm(u, f)
                      /\ u.farm[f].owner = t.farm[f].owner
                      /\ u.farm[f].profile = t.farm[f].profile
    OBVIOUS
  <2>1. t.farm[f] \in FarmRow
    BY <1>10
  <2>2. CASE u.farm[f] = t.farm[f]
    BY <2>2 DEF KnownFarm
  <2>3. CASE f = s /\ u.farm[f] = [t.farm[f] EXCEPT !.status = to]
    BY <1>4, <2>1, <2>3 DEF KnownFarm, FarmRow
  <2> QED
    BY <1>9, <2>2, <2>3
<1>13. Grows(t, u)
  BY <1>5, <1>7, <1>11, <1>12 DEF Grows, Filed
<1>14. TablesStand(u)
  <2>1. RowsStand(u)
    BY <1>3, <1>5, <1>11 DEF RowsStand, Filed
  <2>2. \A d \in Coas : TrailStands(u, d)
    BY <1>3, <1>5, TrailsKept
  <2> QED
    BY <1>5, <2>1, <2>2 DEF TablesStand
<1>15. ContentStands(t, u)
  <2> SUFFICES ASSUME NEW b \in Batches
               PROVE  u.batch[b].coa = t.batch[b].coa /\ u.batch[b].edit = t.batch[b].edit
    BY DEF ContentStands
  <2>1. t.batch[b] \in BatchRow
    BY <1>10
  <2> QED
    BY <1>9, <2>1 DEF BatchRow
<1>16. StatusAsHistory(t, u)
  <2> SUFFICES ASSUME t.rpc, NEW x \in Subjects, StatusOf(u, x) # StatusOf(t, x)
               PROVE  u.history = Append(t.history, [on |-> x, from |-> StatusOf(t, x),
                                                     to |-> StatusOf(u, x)])
    BY DEF StatusAsHistory
  <2>1. u = RecordTransition(t, s, from, to)
    <3>1. ASSUME u = AddHistory(t, s, from, to) PROVE FALSE
      BY <1>6, <3>1 DEF StatusOf
    <3> QED
      BY <1>2, <3>1
  <2>2. u.history = Append(t.history, [on |-> s, from |-> StatusOf(t, s), to |-> to])
    BY <1>3, <2>1, RecordTransitionWrites
  <2>3. u.batch = SetStatus(t, s, to).batch /\ u.farm = SetStatus(t, s, to).farm
    BY <1>3, <2>1, RecordTransitionWrites
  <2>4. x = s /\ StatusOf(u, x) = to
    <3>1. CASE x \in Batches
      <4>1. t.batch[x] \in BatchRow
        BY <1>10, <3>1
      <4>2. u.batch[x] = IF x = s THEN [t.batch[x] EXCEPT !.status = to] ELSE t.batch[x]
        BY <1>3, <2>3, <3>1, SetStatusWrites
      <4> QED
        BY <3>1, <4>1, <4>2 DEF StatusOf, BatchRow
    <3>2. CASE x \notin Batches
      <4>1. x \in Farms /\ t.farm[x] \in FarmRow
        BY <1>10, <3>2 DEF Subjects
      <4>2. u.farm[x] = IF x = s THEN [t.farm[x] EXCEPT !.status = to] ELSE t.farm[x]
        BY <1>3, <2>3, <4>1, SetStatusWrites
      <4> QED
        BY <3>2, <4>1, <4>2 DEF StatusOf, FarmRow
    <3> QED
      BY <3>1, <3>2
  <2> QED
    BY <2>2, <2>4
<1> QED
  BY <1>13, <1>14, <1>15, <1>16 DEF Sound

(* One row of a batch written, by whoever: its status stays or goes back   *)
(* to review, and it changes no content that buyers go on seeing.          *)
LEMMA BatchRowIsSound ==
  ASSUME NEW t, TablesStand(t), NEW b \in Batches, NEW entry \in BatchRow,
         entry.status # "none",
         entry.status \in {t.batch[b].status, "Pending Review"},
         t.batch[b].visible /\ entry.visible =>
           entry.coa = t.batch[b].coa /\ entry.edit = t.batch[b].edit
  PROVE  Sound(t, [t EXCEPT !.batch = [t.batch EXCEPT ![b] = entry]])
<1> DEFINE x == [t.batch EXCEPT ![b] = entry]
           u == [t EXCEPT !.batch = x]
<1>1. t \in Tables /\ RowsStand(t) /\ \A d \in Coas : TrailStands(t, d)
  BY DEF TablesStand
<1>2. t.batch \in [Batches -> BatchRow]
  BY <1>1 DEF Tables
<1>3. x \in [Batches -> BatchRow] /\ \A c \in Batches : x[c] = IF c = b THEN entry ELSE t.batch[c]
  BY <1>2
<1> HIDE DEF x
<1>4. u \in Tables /\ u.batch = x /\ OthersKept(t, u, "batch")
  BY <1>1, <1>3, SetBatch
<1> HIDE DEF u
<1>5. /\ u.farm = t.farm /\ u.history = t.history /\ u.requests = t.requests
      /\ u.stored = t.stored /\ u.photos = t.photos /\ u.register = t.register
      /\ u.reviews = t.reviews /\ u.rpc = t.rpc
  BY <1>4 DEF OthersKept
<1>6. \A c \in Batches : /\ KnownBatch(t, c) => KnownBatch(u, c)
                         /\ ~KnownBatch(u, c) => ~KnownBatch(t, c) /\ u.batch[c] = t.batch[c]
  BY <1>3, <1>4 DEF KnownBatch
<1>7. TablesStand(u)
  <2>1. RowsStand(u)
    BY <1>1, <1>5, <1>6 DEF RowsStand, Filed
  <2>2. \A d \in Coas : TrailStands(u, d)
    BY <1>1, <1>5, TrailsKept
  <2> QED
    BY <1>4, <2>1, <2>2 DEF TablesStand
<1>8. Grows(t, u)
  BY <1>5, <1>6 DEF Grows, Filed, KnownFarm
<1>9. ContentStands(t, u)
  BY <1>3, <1>4 DEF ContentStands
<1>10. StatusAsHistory(t, u)
  BY <1>3, <1>4, <1>5 DEF StatusAsHistory, StatusOf
<1>11. Sound(t, u)
  BY <1>7, <1>8, <1>9, <1>10 DEF Sound
<1> QED
  BY <1>11 DEF u, x

(* The farmer's policies (60_BATCH_MUST_BELONG_TO_YOUR_FARM_HARDENING.sql:    *)
(* 116-144), createInventoryBatch and patchInventoryBatch.  A farmer's        *)
(* upsert or patch never leaves a row visible, so content that buyers go on  *)
(* seeing is never the farmer's write.                                     *)
LEMMA BatchWritesAreSound ==
  ASSUME NEW t, TablesStand(t), NEW u, WritesBatch(t, u)
  PROVE  Sound(t, u) \/ u = t
<1>1. PICK b \in Batches :
        \/ /\ KnownBatch(t, b)
           /\ \/ \E on \in BOOLEAN : u = SetVisible(t, b, on)
              \/ u = FlagChanges(t, b)
              \/ \E c \in Coas : MayPatchCoa(t, b, c) /\ u = PatchCoa(t, b, c)
        \/ \E entry \in BatchRow : /\ entry.status = "Pending Review"
                                   /\ MayUpsertBatch(t, b, entry)
                                   /\ u = UpsertBatch(t, b, entry)
  BY DEF WritesBatch
<1>2. t \in Tables /\ t.batch \in [Batches -> BatchRow] /\ t.batch[b] \in BatchRow
  BY DEF TablesStand, Tables
<1>3. ASSUME KnownBatch(t, b), NEW on \in BOOLEAN, u = SetVisible(t, b, on)
      PROVE  Sound(t, u)
  <2> DEFINE entry == [t.batch[b] EXCEPT !.visible = on,
                         !.stock = IF on THEN "client_visible" ELSE "approved_internal"]
  <2>1. /\ entry \in BatchRow /\ entry.status = t.batch[b].status
        /\ entry.coa = t.batch[b].coa /\ entry.edit = t.batch[b].edit
    BY <1>2 DEF BatchRow, Stock
  <2>2. u = [t EXCEPT !.batch = [t.batch EXCEPT ![b] = entry]]
    BY <1>2, <1>3 DEF SetVisible, Tables
  <2> HIDE DEF entry
  <2>3. Sound(t, [t EXCEPT !.batch = [t.batch EXCEPT ![b] = entry]])
    BY <1>3, <2>1, BatchRowIsSound DEF KnownBatch
  <2> QED
    BY <2>2, <2>3
<1>4. ASSUME KnownBatch(t, b), u = FlagChanges(t, b) PROVE Sound(t, u)
  <2> DEFINE entry == [t.batch[b] EXCEPT !.stock = "needs_changes"]
  <2>1. /\ entry \in BatchRow /\ entry.status = t.batch[b].status
        /\ entry.coa = t.batch[b].coa /\ entry.edit = t.batch[b].edit
    BY <1>2 DEF BatchRow, Stock, Editable
  <2>2. u = [t EXCEPT !.batch = [t.batch EXCEPT ![b] = entry]]
    BY <1>4 DEF FlagChanges
  <2> HIDE DEF entry
  <2>3. Sound(t, [t EXCEPT !.batch = [t.batch EXCEPT ![b] = entry]])
    BY <1>4, <2>1, BatchRowIsSound DEF KnownBatch
  <2> QED
    BY <2>2, <2>3
<1>5. ASSUME KnownBatch(t, b), NEW c \in Coas, MayPatchCoa(t, b, c), u = PatchCoa(t, b, c)
      PROVE  Sound(t, u) \/ u = t
  <2> DEFINE entry == [t.batch[b] EXCEPT !.coa = c]
  <2>1. CASE FarmerMayTouch(t.batch[b])
    <3>1. entry \in BatchRow /\ entry.status = t.batch[b].status
      BY <1>2 DEF BatchRow
    <3>2. ~entry.visible
      BY <1>5, <2>1 DEF MayPatchCoa, MayWriteAsFarmer, FarmerMayLeave
    <3>3. u = [t EXCEPT !.batch = [t.batch EXCEPT ![b] = entry]]
      BY <1>5, <2>1 DEF PatchCoa
    <3> HIDE DEF entry
    <3>4. Sound(t, [t EXCEPT !.batch = [t.batch EXCEPT ![b] = entry]])
      BY <1>5, <3>1, <3>2, BatchRowIsSound DEF KnownBatch
    <3> QED
      BY <3>3, <3>4
  <2>2. CASE ~FarmerMayTouch(t.batch[b])
    BY <1>5, <2>2 DEF PatchCoa
  <2> QED
    BY <2>1, <2>2
<1>6. ASSUME NEW entry \in BatchRow, entry.status = "Pending Review",
             MayUpsertBatch(t, b, entry), u = UpsertBatch(t, b, entry)
      PROVE  Sound(t, u)
  <2>1. ~entry.visible
    BY <1>6 DEF MayUpsertBatch, MayWriteAsFarmer, FarmerMayLeave
  <2>2. u = [t EXCEPT !.batch = [t.batch EXCEPT ![b] = entry]]
    BY <1>6 DEF UpsertBatch
  <2>3. Sound(t, [t EXCEPT !.batch = [t.batch EXCEPT ![b] = entry]])
    BY <1>6, <2>1, BatchRowIsSound
  <2> QED
    BY <2>2, <2>3
<1> QED
  BY <1>1, <1>3, <1>4, <1>5, <1>6

(* One row of a farm written.                                              *)
LEMMA FarmRowIsSound ==
  ASSUME NEW t, TablesStand(t), NEW f \in Farms, NEW entry \in FarmRow,
         entry.status # "none",
         entry.status \in {t.farm[f].status, "Submitted to DDP"},
         KnownFarm(t, f) => /\ t.farm[f].owner => entry.owner
                            /\ t.farm[f].profile => entry.profile
  PROVE  Sound(t, [t EXCEPT !.farm = [t.farm EXCEPT ![f] = entry]])
<1> DEFINE x == [t.farm EXCEPT ![f] = entry]
           u == [t EXCEPT !.farm = x]
<1>1. t \in Tables /\ RowsStand(t) /\ \A d \in Coas : TrailStands(t, d)
  BY DEF TablesStand
<1>2. t.farm \in [Farms -> FarmRow]
  BY <1>1 DEF Tables
<1>3. x \in [Farms -> FarmRow] /\ \A g \in Farms : x[g] = IF g = f THEN entry ELSE t.farm[g]
  BY <1>2
<1> HIDE DEF x
<1>4. u \in Tables /\ u.farm = x /\ OthersKept(t, u, "farm")
  BY <1>1, <1>3, SetFarm
<1> HIDE DEF u
<1>5. /\ u.batch = t.batch /\ u.history = t.history /\ u.requests = t.requests
      /\ u.stored = t.stored /\ u.photos = t.photos /\ u.register = t.register
      /\ u.reviews = t.reviews /\ u.rpc = t.rpc
  BY <1>4 DEF OthersKept
<1>6. TablesStand(u)
  <2>1. RowsStand(u)
    BY <1>1, <1>5 DEF RowsStand, Filed, KnownBatch
  <2>2. \A d \in Coas : TrailStands(u, d)
    BY <1>1, <1>5, TrailsKept
  <2> QED
    BY <1>4, <2>1, <2>2 DEF TablesStand
<1>7. Grows(t, u)
  BY <1>3, <1>4, <1>5 DEF Grows, Filed, KnownFarm, KnownBatch
<1>8. ContentStands(t, u)
  BY <1>5 DEF ContentStands
<1>9. StatusAsHistory(t, u)
  BY <1>3, <1>4, <1>5 DEF StatusAsHistory, StatusOf, Subjects
<1>10. Sound(t, u)
  BY <1>6, <1>7, <1>8, <1>9 DEF Sound
<1> QED
  BY <1>10 DEF u, x

(* createFarmProfile (db.ts:222-457).                                      *)
LEMMA FarmWritesAreSound ==
  ASSUME NEW t, TablesStand(t), NEW u, WritesFarm(t, u)
  PROVE  Sound(t, u)
<1>1. PICK f \in Farms : \/ ~KnownFarm(t, f) /\ u = InsertFarm(t, f)
                         \/ KnownFarm(t, f) /\ u = AddOwner(t, f)
                         \/ KnownFarm(t, f) /\ u = WriteProfile(t, f)
  BY DEF WritesFarm
<1>2. t.farm \in [Farms -> FarmRow] /\ t.farm[f] \in FarmRow
  BY DEF TablesStand, Tables
<1>3. CASE ~KnownFarm(t, f) /\ u = InsertFarm(t, f)
  <2> DEFINE entry == [NoFarm EXCEPT !.status = "Submitted to DDP"]
  <2>1. entry \in FarmRow /\ entry.status = "Submitted to DDP"
    BY DEF NoFarm, FarmRow, FarmStatuses
  <2>2. u = [t EXCEPT !.farm = [t.farm EXCEPT ![f] = entry]]
    BY <1>3 DEF InsertFarm
  <2> HIDE DEF entry
  <2>3. Sound(t, [t EXCEPT !.farm = [t.farm EXCEPT ![f] = entry]])
    BY <1>3, <2>1, FarmRowIsSound
  <2> QED
    BY <2>2, <2>3
<1>4. CASE KnownFarm(t, f) /\ u = AddOwner(t, f)
  <2> DEFINE entry == [t.farm[f] EXCEPT !.owner = TRUE]
  <2>1. /\ entry \in FarmRow /\ entry.status = t.farm[f].status
        /\ entry.owner /\ entry.profile = t.farm[f].profile
    BY <1>2 DEF FarmRow
  <2>2. u = [t EXCEPT !.farm = [t.farm EXCEPT ![f] = entry]]
    BY <1>4 DEF AddOwner
  <2> HIDE DEF entry
  <2>3. Sound(t, [t EXCEPT !.farm = [t.farm EXCEPT ![f] = entry]])
    BY <1>4, <2>1, FarmRowIsSound DEF KnownFarm
  <2> QED
    BY <2>2, <2>3
<1>5. CASE KnownFarm(t, f) /\ u = WriteProfile(t, f)
  <2> DEFINE entry == [t.farm[f] EXCEPT !.profile = TRUE]
  <2>1. /\ entry \in FarmRow /\ entry.status = t.farm[f].status
        /\ entry.profile /\ entry.owner = t.farm[f].owner
    BY <1>2 DEF FarmRow
  <2>2. u = [t EXCEPT !.farm = [t.farm EXCEPT ![f] = entry]]
    BY <1>5 DEF WriteProfile
  <2> HIDE DEF entry
  <2>3. Sound(t, [t EXCEPT !.farm = [t.farm EXCEPT ![f] = entry]])
    BY <1>5, <2>1, FarmRowIsSound DEF KnownFarm
  <2> QED
    BY <2>2, <2>3
<1> QED
  BY <1>1, <1>3, <1>4, <1>5

(* A write that adds to the requests, files and photographs, or that logs  *)
(* an open, takes nothing back.                                            *)
LEMMA SideWriteIsSound ==
  ASSUME NEW t, TablesStand(t), NEW u, u \in Tables,
         u.batch = t.batch, u.farm = t.farm, u.history = t.history,
         u.register = t.register, u.reviews = t.reviews, u.rpc = t.rpc,
         \A r \in t.requests : \E q \in u.requests : q.on = r.on /\ q.by = r.by,
         t.stored \subseteq u.stored,
         \A b \in Batches : t.photos[b] \subseteq u.photos[b]
  PROVE  Sound(t, u)
<1>1. RowsStand(t) /\ \A d \in Coas : TrailStands(t, d)
  BY DEF TablesStand
<1>2. RowsStand(u)
  BY <1>1 DEF RowsStand, Filed, KnownBatch
<1>3. \A d \in Coas : TrailStands(u, d)
  BY <1>1, TrailsKept
<1>4. Grows(t, u)
  BY DEF Grows, Filed, KnownBatch, KnownFarm
<1> QED
  BY <1>2, <1>3, <1>4, StatusKept DEF Sound, TablesStand

(* createReviewRequest, resolveReviewRequest (db.ts:684-735).  A resolved  *)
(* request is still the request that was sent.                             *)
LEMMA RequestWritesAreSound ==
  ASSUME NEW t, TablesStand(t), NEW u, WritesRequest(t, u)
  PROVE  Sound(t, u)
<1>1. t \in Tables /\ t.requests \subseteq Request
  BY DEF TablesStand, Tables
<1>2. ASSUME NEW x, x \subseteq Request, u = [t EXCEPT !.requests = x],
             \A r \in t.requests : \E q \in x : q.on = r.on /\ q.by = r.by
      PROVE  Sound(t, u)
  <2>1. u \in Tables /\ u.requests = x /\ OthersKept(t, u, "requests")
    BY <1>1, <1>2, SetRequests
  <2>2. /\ u.batch = t.batch /\ u.farm = t.farm /\ u.history = t.history
        /\ u.register = t.register /\ u.reviews = t.reviews /\ u.rpc = t.rpc
        /\ u.stored = t.stored /\ u.photos = t.photos
    BY <2>1 DEF OthersKept
  <2> QED
    BY <1>2, <2>1, <2>2, SideWriteIsSound
<1>3. ASSUME NEW s \in Subjects \cup {Home}, NEW n \in Nat, u = AddRequest(t, s, n)
      PROVE  Sound(t, u)
  <2> DEFINE x == t.requests \cup {[on |-> s, by |-> n, status |-> "open"]}
  <2>1. x \subseteq Request
    BY <1>1, <1>3 DEF Request
  <2>2. u = [t EXCEPT !.requests = x]
    BY <1>3 DEF AddRequest
  <2>3. \A r \in t.requests : \E q \in x : q.on = r.on /\ q.by = r.by
    OBVIOUS
  <2> QED
    BY <1>2, <2>1, <2>2, <2>3
<1>4. ASSUME NEW r \in Request, u = Resolve(t, r)
      PROVE  Sound(t, u)
  <2> DEFINE done(q) == IF q.on = r.on /\ q.by = r.by
                        THEN [q EXCEPT !.status = "resolved"] ELSE q
             x == {done(q) : q \in t.requests}
  <2>1. \A q \in Request : done(q) \in Request /\ done(q).on = q.on /\ done(q).by = q.by
    BY DEF Request
  <2>2. u = [t EXCEPT !.requests = x]
    BY <1>4 DEF Resolve
  <2>3. \A q \in t.requests : done(q) \in x
    OBVIOUS
  <2>4. x \subseteq Request
    BY <1>1, <2>1
  <2>5. \A q \in t.requests : \E d \in x : d.on = q.on /\ d.by = q.by
    BY <1>1, <2>1, <2>3
  <2> HIDE DEF x
  <2> QED
    BY <1>2, <2>2, <2>4, <2>5
<1> QED
  BY <1>3, <1>4 DEF WritesRequest

(* uploadCoaFile, uploadBatchPhoto, recordBatchPhoto (db.ts:866-880,       *)
(* 1222-1290).                                                             *)
LEMMA FileWritesAreSound ==
  ASSUME NEW t, TablesStand(t), NEW u, WritesFile(t, u)
  PROVE  Sound(t, u)
<1>1. /\ t \in Tables /\ t.stored \subseteq Coas \cup Photos
      /\ t.photos \in [Batches -> SUBSET Photos]
  BY DEF TablesStand, Tables
<1>2. \A r \in t.requests : \E q \in t.requests : q.on = r.on /\ q.by = r.by
  OBVIOUS
<1>3. ASSUME NEW f \in Coas \cup Photos, u = StoreFile(t, f)
      PROVE  Sound(t, u)
  <2> DEFINE x == t.stored \cup {f}
  <2>1. x \subseteq Coas \cup Photos /\ t.stored \subseteq x
    BY <1>1, <1>3
  <2>2. u = [t EXCEPT !.stored = x]
    BY <1>3 DEF StoreFile
  <2> HIDE DEF x
  <2>3. u \in Tables /\ u.stored = x /\ OthersKept(t, u, "stored")
    BY <1>1, <2>1, <2>2, SetStored
  <2>4. /\ u.batch = t.batch /\ u.farm = t.farm /\ u.history = t.history
        /\ u.register = t.register /\ u.reviews = t.reviews /\ u.rpc = t.rpc
        /\ u.requests = t.requests /\ u.photos = t.photos
    BY <2>3 DEF OthersKept
  <2> QED
    BY <1>2, <2>1, <2>3, <2>4, SideWriteIsSound
<1>4. ASSUME NEW b \in Batches, NEW p \in Photos, u = RecordPhoto(t, b, p)
      PROVE  Sound(t, u)
  <2> DEFINE x == [t.photos EXCEPT ![b] = t.photos[b] \cup {p}]
  <2>1. x \in [Batches -> SUBSET Photos] /\ \A c \in Batches : t.photos[c] \subseteq x[c]
    BY <1>1, <1>4
  <2>2. u = [t EXCEPT !.photos = x]
    BY <1>4 DEF RecordPhoto
  <2> HIDE DEF x
  <2>3. u \in Tables /\ u.photos = x /\ OthersKept(t, u, "photos")
    BY <1>1, <2>1, <2>2, SetPhotos
  <2>4. /\ u.batch = t.batch /\ u.farm = t.farm /\ u.history = t.history
        /\ u.register = t.register /\ u.reviews = t.reviews /\ u.rpc = t.rpc
        /\ u.requests = t.requests /\ u.stored = t.stored
    BY <2>3 DEF OthersKept
  <2> QED
    BY <1>2, <2>1, <2>3, <2>4, SideWriteIsSound
<1> QED
  BY <1>3, <1>4 DEF WritesFile

(* 65:162-170.  A document that enters the register was never decided.     *)
LEMMA RegisterIsSound ==
  ASSUME NEW t, TablesStand(t), NEW d \in Coas, NEW b \in Batches,
         ~Filed(t, d), d \in t.stored
  PROVE  Sound(t, RegisterCoa(t, b, d))
<1> DEFINE entry == [status |-> "pending", note |-> None, batch |-> b]
           x == [t.register EXCEPT ![d] = entry]
           u == RegisterCoa(t, b, d)
<1>1. t \in Tables /\ RowsStand(t) /\ \A e \in Coas : TrailStands(t, e)
  BY DEF TablesStand
<1>2. t.register \in [Coas -> DocRow]
  BY <1>1 DEF Tables
<1>3. entry \in DocRow /\ entry.status = "pending"
  BY DEF DocRow, DocStatuses
<1>4. u = [t EXCEPT !.register = x]
  BY DEF RegisterCoa
<1> HIDE DEF entry
<1>5. x \in [Coas -> DocRow] /\ \A e \in Coas : x[e] = IF e = d THEN entry ELSE t.register[e]
  BY <1>2, <1>3
<1> HIDE DEF x
<1>6. u \in Tables /\ u.register = x /\ OthersKept(t, u, "register")
  BY <1>1, <1>4, <1>5, SetRegister
<1> HIDE DEF u
<1>7. /\ u.batch = t.batch /\ u.farm = t.farm /\ u.history = t.history
      /\ u.requests = t.requests /\ u.stored = t.stored /\ u.photos = t.photos
      /\ u.reviews = t.reviews /\ u.rpc = t.rpc
  BY <1>6 DEF OthersKept
<1>8. \A e \in Coas : TrailStands(u, e)
  <2> SUFFICES ASSUME NEW e \in Coas PROVE TrailStands(u, e)
    OBVIOUS
  <2>1. CASE e # d
    BY <1>1, <1>5, <1>6, <1>7, <2>1, TrailsKept
  <2>2. CASE e = d
    <3>1. TrailOf(u, d) = {}
      BY <1>1, <1>7 DEF TrailStands, TrailOf
    <3>2. u.register[d].status = "pending"
      BY <1>3, <1>5, <1>6
    <3> QED
      BY <2>2, <3>1, <3>2 DEF TrailStands
  <2> QED
    BY <2>1, <2>2
<1>9. RowsStand(u)
  BY <1>1, <1>5, <1>6, <1>7 DEF RowsStand, Filed, KnownBatch
<1>10. Grows(t, u)
  BY <1>3, <1>5, <1>6, <1>7 DEF Grows, Filed, KnownBatch, KnownFarm
<1>11. Sound(t, u)
  BY <1>6, <1>7, <1>8, <1>9, <1>10, StatusKept DEF Sound, TablesStand
<1> QED
  BY <1>11 DEF u

(* 65:183-284.  The event of a decision leads on from where the document   *)
(* stood, whatever the reviewer's screen said.                             *)
LEMMA DecideIsSound ==
  ASSUME NEW t, TablesStand(t), NEW d \in Coas, Filed(t, d), NEW a \in Admins,
         NEW to \in DocStatuses, NEW note \in Notes, NEW n \in Nat,
         to # t.register[d].status
  PROVE  Sound(t, Decide(t, d, a, to, note, n))
<1> DEFINE entry == [t.register[d] EXCEPT !.status = to, !.note = note]
           event == [doc |-> d, from |-> t.register[d].status, to |-> to, by |-> a, call |-> n]
           x == [t.register EXCEPT ![d] = entry]
           y == Append(t.reviews, event)
           u == Decide(t, d, a, to, note, n)
           last == Len(t.reviews) + 1
<1>1. t \in Tables /\ RowsStand(t) /\ \A e \in Coas : TrailStands(t, e)
  BY DEF TablesStand
<1>2. t.register \in [Coas -> DocRow] /\ t.register[d] \in DocRow /\ t.reviews \in Seq(Review)
  BY <1>1 DEF Tables
<1>3. entry \in DocRow /\ entry.status = to
  BY <1>2 DEF DocRow
<1>4. event \in Review
  BY <1>2 DEF Review, DocRow
<1>5. u = [[t EXCEPT !.register = x] EXCEPT !.reviews = y]
  BY <1>1, <1>2 DEF Decide, Tables
<1> HIDE DEF entry
<1>6. x \in [Coas -> DocRow] /\ \A e \in Coas : x[e] = IF e = d THEN entry ELSE t.register[e]
  BY <1>2, <1>3
<1>7. event.doc = d /\ event.from = t.register[d].status /\ event.to = to
  OBVIOUS
<1> HIDE DEF event
<1>8. /\ y \in Seq(Review)
      /\ DOMAIN y = DOMAIN t.reviews \cup {last} /\ y[last] = event
      /\ \A i \in DOMAIN t.reviews : y[i] = t.reviews[i] /\ i \in Nat /\ i < last
      /\ last \in Nat
  BY <1>2, <1>4, AppendKeeps
<1> HIDE DEF x, y, u, last
<1>9. u \in Tables /\ u.register = x /\ u.reviews = y
      /\ u.batch = t.batch /\ u.farm = t.farm /\ u.history = t.history
      /\ u.requests = t.requests /\ u.stored = t.stored /\ u.photos = t.photos
      /\ u.rpc = t.rpc
  <2> DEFINE m == [t EXCEPT !.register = x]
  <2>1. m \in Tables /\ m.register = x /\ OthersKept(t, m, "register")
    BY <1>1, <1>6, SetRegister
  <2> HIDE DEF m
  <2>2. u = [m EXCEPT !.reviews = y]
    BY <1>5 DEF m
  <2>3. u \in Tables /\ u.reviews = y /\ OthersKept(m, u, "reviews")
    BY <1>8, <2>1, <2>2, SetReviews
  <2> QED
    BY <2>1, <2>3 DEF OthersKept
<1>10. TrailOf(u, d) = TrailOf(t, d) \cup {last}
  BY <1>7, <1>8, <1>9 DEF TrailOf
<1>11. \A i \in TrailOf(t, d) : u.reviews[i] = t.reviews[i] /\ i \in Nat /\ i < last
  BY <1>8, <1>9 DEF TrailOf
<1>12. u.reviews[last].from = t.register[d].status /\ u.reviews[last].to = to
  BY <1>7, <1>8, <1>9
<1>13. u.register[d].status = to /\ to # "none"
  BY <1>3, <1>6, <1>9 DEF DocStatuses
<1>14. TrailStands(t, d)
  BY <1>1
<1>15. ASSUME NEW i \in TrailOf(u, d), \A j \in TrailOf(u, d) : i <= j
       PROVE  u.reviews[i].from = "pending"
  <2>1. CASE i \in TrailOf(t, d)
    BY <1>10, <1>11, <1>14, <1>15, <2>1 DEF TrailStands
  <2>2. CASE i = last
    <3>1. TrailOf(t, d) = {}
      <4> SUFFICES ASSUME NEW j \in TrailOf(t, d) PROVE FALSE
        BY Zenon
      <4>1. j \in TrailOf(u, d)
        BY <1>10
      <4>2. last <= j /\ j < last /\ j \in Nat
        BY <1>11, <1>15, <2>2, <4>1
      <4> QED
        BY <1>8, <4>2
    <3>2. t.register[d].status = "pending"
      BY <1>14, <3>1 DEF TrailStands, Filed
    <3> QED
      BY <1>12, <2>2, <3>2
  <2> QED
    BY <1>10, <1>15, <2>1, <2>2
<1>16. ASSUME NEW i \in TrailOf(u, d), NEW j \in TrailOf(u, d), j < i,
              \A k \in TrailOf(u, d) : k <= j \/ i <= k
       PROVE  u.reviews[i].from = u.reviews[j].to
  <2>1. j \in TrailOf(t, d)
    BY <1>8, <1>10, <1>11, <1>16
  <2>2. CASE i \in TrailOf(t, d)
    BY <1>10, <1>11, <1>14, <1>16, <2>1, <2>2 DEF TrailStands
  <2>3. CASE i = last
    <3>1. \A k \in TrailOf(t, d) : k <= j
      BY <1>8, <1>10, <1>11, <1>16, <2>3
    <3>2. t.reviews[j].to = t.register[d].status
      BY <1>14, <2>1, <3>1 DEF TrailStands
    <3> QED
      BY <1>11, <1>12, <2>1, <2>3, <3>2
  <2> QED
    BY <1>10, <1>16, <2>2, <2>3
<1>17. ASSUME NEW i \in TrailOf(u, d), \A j \in TrailOf(u, d) : j <= i
       PROVE  u.reviews[i].to = u.register[d].status
  <2>1. i = last
    BY <1>8, <1>10, <1>11, <1>17
  <2> QED
    BY <1>12, <1>13, <2>1
<1>18. TrailStands(u, d)
  <2>1. TrailOf(u, d) # {} /\ Filed(u, d)
    BY <1>10, <1>13 DEF Filed
  <2> QED
    BY <1>15, <1>16, <1>17, <2>1 DEF TrailStands
<1>19. \A e \in Coas : TrailStands(u, e)
  <2> SUFFICES ASSUME NEW e \in Coas, e # d PROVE TrailStands(u, e)
    BY <1>18
  <2>1. TrailOf(u, e) = TrailOf(t, e)
    BY <1>7, <1>8, <1>9 DEF TrailOf
  <2>2. \A i \in TrailOf(t, e) : u.reviews[i] = t.reviews[i]
    BY <1>8, <1>9 DEF TrailOf
  <2>3. u.register[e] = t.register[e]
    BY <1>6, <1>9
  <2>4. TrailStands(t, e)
    BY <1>1
  <2> QED
    BY <2>1, <2>2, <2>3, <2>4 DEF TrailStands, Filed
<1>20. \A e \in Coas : Filed(u, e) <=> Filed(t, e)
  BY <1>6, <1>9, <1>13 DEF Filed
<1>21. RowsStand(u)
  BY <1>1, <1>9, <1>20 DEF RowsStand, KnownBatch
<1>22. Grows(t, u)
  BY <1>9, <1>20 DEF Grows, KnownBatch, KnownFarm
<1>23. Sound(t, u)
  BY <1>9, <1>19, <1>21, <1>22, StatusKept DEF Sound, TablesStand
<1> QED
  BY <1>23 DEF u

LEMMA DocumentWritesAreSound ==
  ASSUME NEW t, TablesStand(t), NEW u, WritesDocument(t, u)
  PROVE  Sound(t, u) \/ u = t
<1>1. PICK d \in Coas :
        \/ \E b \in Batches : ~Filed(t, d) /\ d \in t.stored /\ u = RegisterCoa(t, b, d)
        \/ \E a \in Admins : u = RecordOpen(t, d, a)
        \/ \E a \in Admins, to \in DocStatuses, note \in Notes, n \in Nat :
             Filed(t, d) /\ u = Decide(t, d, a, to, note, n)
  BY DEF WritesDocument
<1>2. ASSUME NEW b \in Batches, ~Filed(t, d), d \in t.stored, u = RegisterCoa(t, b, d)
      PROVE  Sound(t, u)
  BY <1>2, RegisterIsSound
<1>3. ASSUME NEW a \in Admins, u = RecordOpen(t, d, a) PROVE Sound(t, u)
  <2> DEFINE x == t.opens \cup {<<d, a>>}
  <2>1. t \in Tables /\ x \subseteq Coas \X Admins
    BY <1>3 DEF TablesStand, Tables
  <2>2. u = [t EXCEPT !.opens = x]
    BY <1>3 DEF RecordOpen
  <2> HIDE DEF x
  <2>3. u \in Tables /\ OthersKept(t, u, "opens")
    BY <2>1, <2>2, SetOpens
  <2>4. /\ u.batch = t.batch /\ u.farm = t.farm /\ u.history = t.history
        /\ u.register = t.register /\ u.reviews = t.reviews /\ u.rpc = t.rpc
        /\ u.requests = t.requests /\ u.stored = t.stored /\ u.photos = t.photos
    BY <2>3 DEF OthersKept
  <2> QED
    BY <2>3, <2>4, SideWriteIsSound
<1>4. ASSUME NEW a \in Admins, NEW to \in DocStatuses, NEW note \in Notes, NEW n \in Nat,
             Filed(t, d), u = Decide(t, d, a, to, note, n)
      PROVE  Sound(t, u) \/ u = t
  <2>1. CASE to = t.register[d].status
    BY <1>4, <2>1 DEF Decide
  <2>2. CASE to # t.register[d].status
    BY <1>4, <2>2, DecideIsSound
  <2> QED
    BY <2>1, <2>2
<1> QED
  BY <1>1, <1>2, <1>3, <1>4

LEMMA NothingIsSound ==
  ASSUME NEW t, TablesStand(t)
  PROVE  Sound(t, t)
BY DEF Sound, Grows, StatusAsHistory, ContentStands

(* Whatever a handler writes, nothing recorded is taken back, a status has *)
(* its history, content that buyers see stands, and the trails are whole.  *)
LEMMA WritesAreSound ==
  ASSUME NEW t, TablesStand(t), NEW u, Writes(t, u)
  PROVE  Sound(t, u)
BY StatusWritesAreSound, BatchWritesAreSound, FarmWritesAreSound, RequestWritesAreSound,
   FileWritesAreSound, DocumentWritesAreSound, NothingIsSound DEF Writes
-----------------------------------------------------------------------------
(* What the screens hold, and what a handler under way knows.              *)

Lists == [batch : [Batches -> BatchRow], farm : [Farms -> FarmRow], open : SUBSET Request]

Missed == {"coa", "photo"}
StatusCalls == [id : Nat, who : Sessions, op : {"status"}, step : {"call", "update", "history"},
                on : Subjects, from : Status, to : Status]
VisibleCalls == [id : Nat, who : Sessions, op : {"visible"}, step : {"patch"},
                 on : Batches, to : BOOLEAN]
RequestCalls == [id : Nat, who : Sessions, op : {"request"}, step : {"insert", "flag"},
                 todo : (SUBSET Subjects) \ {{}}]
ResolveCalls == [id : Nat, who : Sessions, op : {"resolve"}, step : {"patch"}, on : Request]
SubmitCalls == [id : Nat, who : Sessions, op : {"submit"},
                step : {"upsert", "coaStore", "coaPatch", "coaRegister", "photoStore", "photoRecord"},
                on : Batches, coa : Coas \cup {None}, todo : SUBSET Photos, got : SUBSET Photos,
                missed : SUBSET Missed, draft : BOOLEAN, row : BatchRow]
OverCalls == [id : Nat, who : Sessions, op : {"submitted"}, step : {"over"},
              missed : SUBSET Missed]
CoaCalls == [id : Nat, who : Sessions, op : {"coa"}, step : {"store", "patch"},
             on : Batches, coa : Coas]
FarmCalls == [id : Nat, who : Sessions, op : {"farm"}, step : {"farm", "owner", "profile"},
              on : Farms]
Calls == StatusCalls \cup VisibleCalls \cup RequestCalls \cup ResolveCalls \cup SubmitCalls
           \cup OverCalls \cup CoaCalls \cup FarmCalls

First(S) == CHOOSE x \in S : TRUE

(* What its next call rests on: what its screen showed, and what the calls *)
(* before it have recorded.                                                *)
CallStands(t, c) ==
  /\ c.op = "status" => /\ Known(t, c.on) /\ c.to \in Verdicts(c.on)
                        /\ c.step # "call" => ~t.rpc
  /\ c.op = "visible" => KnownBatch(t, c.on)
  /\ c.op = "request" => /\ \A s \in c.todo : Known(t, s)
                         /\ c.step = "flag" => First(c.todo) \in Batches
  /\ c.op = "submit" =>
       /\ c.row.status = "Pending Review"
       /\ c.step # "upsert" => KnownBatch(t, c.on)
       /\ c.step \in {"coaStore", "coaPatch", "coaRegister"} => c.coa # None
       /\ c.step \in {"coaPatch", "coaRegister"} => c.coa \in t.stored
       /\ c.step \in {"photoStore", "photoRecord"} => c.todo # {}
       /\ c.step = "photoRecord" => First(c.todo) \in t.stored
       /\ c.got \subseteq t.photos[c.on] /\ c.got \subseteq t.stored
  /\ c.op = "coa" => KnownBatch(t, c.on)
  /\ c.op = "farm" /\ c.step # "farm" => /\ KnownFarm(t, c.on)
                                         /\ c.step = "profile" => t.farm[c.on].owner

(* What it is about to make is not there yet.                              *)
Fresh(t, c) ==
  /\ c.op = "farm" /\ c.step = "farm" => ~KnownFarm(t, c.on)
  /\ c.op = "submit" /\ c.coa # None
       /\ c.step \in {"upsert", "coaStore", "coaPatch", "coaRegister"} => ~Filed(t, c.coa)

(* No two handlers make the same farm or file the same certificate.        *)
Apart(S) ==
  /\ \A c, d \in S : c.op = "farm" /\ d.op = "farm" /\ c.on = d.on => c = d
  /\ \A c, d \in S : c.op = "submit" /\ d.op = "submit" /\ c.coa = d.coa /\ c.coa # None
                        => c = d

(* A list shows only what is on file.                                      *)
ListStands(t, v) ==
  /\ \A b \in Batches : v.batch[b] # NoBatch => KnownBatch(t, b)
  /\ \A f \in Farms : v.farm[f].status # "none" => KnownFarm(t, f)

(* ToldIsRecorded, claim by claim, with what each claim is about.          *)
ClaimStands(t, claim) ==
  \/ \E x \in Subjects, to \in Status :
       /\ claim = <<"status", x, to>>
       /\ \E i \in DOMAIN t.history : t.history[i].on = x /\ t.history[i].to = to
  \/ \E x \in Subjects \cup {Home}, n \in Nat :
       /\ claim = <<"request", x, n>>
       /\ \E r \in t.requests : r.on = x /\ r.by = n
  \/ \E b \in Batches, p \in Photos :
       claim = <<"photo", b, p>> /\ p \in t.photos[b] /\ p \in t.stored
  \/ \E d \in Coas : claim = <<"coa", d>> /\ d \in t.stored /\ Filed(t, d)
  \/ \E f \in Farms : /\ claim = <<"farm", f>>
                       /\ KnownFarm(t, f) /\ t.farm[f].owner /\ t.farm[f].profile
  \/ \E b \in Batches : claim = <<"batch", b>> /\ KnownBatch(t, b)

(* The evidence screens.                                                   *)
Desks == [due : SUBSET {"docs", "opens"}, docs : [Coas -> DocStatuses \cup {"none"}],
          opened : SUBSET Coas, sel : Coas \cup {None}, busy : Coas \cup {None}]
OpenActs == [id : Nat, who : Admins, doc : Coas, op : {"open"}, step : {"record"}]
DecideActs == [id : Nat, who : Admins, doc : Coas, op : {"decide"}, step : {"status", "notify"},
               to : DocStatuses, note : Notes]
Acts == OpenActs \cup DecideActs

DeskStands(t, k) == \A d \in Coas : k.docs[d] # "none" => Filed(t, d)
ActStands(t, c) == c.op = "decide" => Filed(t, c.doc)

FilesTypeOK ==
  /\ db \in Tables
  /\ view \in [Sessions -> Lists]
  /\ calls \subseteq Calls
  /\ pressed \in Nat
  /\ desk \in [Admins -> Desks]
  /\ acts \subseteq Acts

FilesInv ==
  /\ FilesTypeOK
  /\ TablesStand(db)
  /\ \A w \in Sessions : ListStands(db, view[w])
  /\ \A c \in calls : CallStands(db, c) /\ Fresh(db, c)
  /\ Apart(calls)
  /\ \A claim \in told : ClaimStands(db, claim)
  /\ \A a \in Admins : DeskStands(db, desk[a])
  /\ \A c \in acts : ActStands(db, c)

LEMMA CallKinds ==
  ASSUME NEW c \in Calls
  PROVE  /\ c.op = "status" => c \in StatusCalls
         /\ c.op = "visible" => c \in VisibleCalls
         /\ c.op = "request" => c \in RequestCalls
         /\ c.op = "resolve" => c \in ResolveCalls
         /\ c.op = "submit" => c \in SubmitCalls
         /\ c.op = "submitted" => c \in OverCalls
         /\ c.op = "coa" => c \in CoaCalls
         /\ c.op = "farm" => c \in FarmCalls
         /\ c.op \in {"status", "visible", "request", "resolve", "submit", "submitted", "coa", "farm"}
         /\ c.who \in Sessions /\ c.id \in Nat
BY DEF Calls, StatusCalls, VisibleCalls, RequestCalls, ResolveCalls, SubmitCalls, OverCalls,
       CoaCalls, FarmCalls

(* What was known stays known, whatever others write.                      *)
LEMMA KnownStays ==
  ASSUME NEW t, NEW u, Grows(t, u), NEW x \in Subjects, Known(t, x)
  PROVE  Known(u, x)
BY DEF Grows, Known, StatusOf, KnownBatch, KnownFarm, Subjects

LEMMA CallGoesOn ==
  ASSUME NEW t, NEW u, Grows(t, u), NEW c \in Calls, CallStands(t, c)
  PROVE  CallStands(u, c)
<1>1. CASE c.op = "status"
  BY <1>1, CallKinds, KnownStays DEF CallStands, StatusCalls, Grows
<1>2. CASE c.op = "visible"
  BY <1>2, CallKinds DEF CallStands, VisibleCalls, Grows
<1>3. CASE c.op = "request"
  <2>1. c.todo \subseteq Subjects
    BY <1>3, CallKinds DEF RequestCalls
  <2> QED
    BY <1>3, <2>1, KnownStays DEF CallStands
<1>4. CASE c.op = "submit"
  <2>1. c.on \in Batches /\ c \in SubmitCalls
    BY <1>4, CallKinds DEF SubmitCalls
  <2>2. /\ t.stored \subseteq u.stored /\ t.photos[c.on] \subseteq u.photos[c.on]
        /\ KnownBatch(t, c.on) => KnownBatch(u, c.on)
    BY <2>1 DEF Grows
  <2> QED
    BY <1>4, <2>2 DEF CallStands
<1>5. CASE c.op = "coa"
  BY <1>5, CallKinds DEF CallStands, CoaCalls, Grows
<1>6. CASE c.op = "farm"
  BY <1>6, CallKinds DEF CallStands, FarmCalls, Grows
<1>7. CASE c.op \in {"resolve", "submitted"}
  BY <1>7 DEF CallStands
<1> QED
  BY <1>1, <1>2, <1>3, <1>4, <1>5, <1>6, <1>7, CallKinds

LEMMA ListGoesOn ==
  ASSUME NEW t, NEW u, Grows(t, u), NEW v, ListStands(t, v)
  PROVE  ListStands(u, v)
BY DEF Grows, ListStands

LEMMA ClaimGoesOn ==
  ASSUME NEW t, NEW u, Grows(t, u), NEW claim, ClaimStands(t, claim)
  PROVE  ClaimStands(u, claim)
<1>1. ASSUME NEW x \in Subjects, NEW to \in Status, claim = <<"status", x, to>>,
             \E i \in DOMAIN t.history : t.history[i].on = x /\ t.history[i].to = to
      PROVE  ClaimStands(u, claim)
  <2>1. \E i \in DOMAIN u.history : u.history[i].on = x /\ u.history[i].to = to
    BY <1>1 DEF Grows
  <2> QED
    BY <1>1, <2>1 DEF ClaimStands
<1>2. ASSUME NEW x \in Subjects \cup {Home}, NEW n \in Nat, claim = <<"request", x, n>>,
             \E r \in t.requests : r.on = x /\ r.by = n
      PROVE  ClaimStands(u, claim)
  <2>1. \E r \in u.requests : r.on = x /\ r.by = n
    BY <1>2 DEF Grows
  <2> QED
    BY <1>2, <2>1 DEF ClaimStands
<1>3. ASSUME NEW b \in Batches, NEW p \in Photos, claim = <<"photo", b, p>>,
             p \in t.photos[b], p \in t.stored
      PROVE  ClaimStands(u, claim)
  <2>1. p \in u.photos[b] /\ p \in u.stored
    BY <1>3 DEF Grows
  <2> QED
    BY <1>3, <2>1 DEF ClaimStands
<1>4. ASSUME NEW d \in Coas, claim = <<"coa", d>>, d \in t.stored, Filed(t, d)
      PROVE  ClaimStands(u, claim)
  <2>1. d \in u.stored /\ Filed(u, d)
    BY <1>4 DEF Grows
  <2> QED
    BY <1>4, <2>1 DEF ClaimStands
<1>5. ASSUME NEW f \in Farms, claim = <<"farm", f>>, KnownFarm(t, f),
             t.farm[f].owner, t.farm[f].profile
      PROVE  ClaimStands(u, claim)
  <2>1. KnownFarm(u, f) /\ u.farm[f].owner /\ u.farm[f].profile
    BY <1>5 DEF Grows
  <2> QED
    BY <1>5, <2>1 DEF ClaimStands
<1>6. ASSUME NEW b \in Batches, claim = <<"batch", b>>, KnownBatch(t, b)
      PROVE  ClaimStands(u, claim)
  <2>1. KnownBatch(u, b)
    BY <1>6 DEF Grows
  <2> QED
    BY <1>6, <2>1 DEF ClaimStands
<1> QED
  BY <1>1, <1>2, <1>3, <1>4, <1>5, <1>6 DEF ClaimStands
-----------------------------------------------------------------------------
(* The lists a screen shows after it changed a row of its own copy.        *)

LEMMA ListBatch ==
  ASSUME NEW t, NEW v \in Lists, ListStands(t, v), NEW b \in Batches, NEW entry \in BatchRow,
         KnownBatch(t, b)
  PROVE  LET u == [v EXCEPT !.batch = [v.batch EXCEPT ![b] = entry]]
         IN  u \in Lists /\ ListStands(t, u)
<1> DEFINE x == [v.batch EXCEPT ![b] = entry]
<1>1. v.batch \in [Batches -> BatchRow]
  BY DEF Lists
<1>2. x \in [Batches -> BatchRow] /\ \A c \in Batches : c # b => x[c] = v.batch[c]
  BY <1>1
<1> HIDE DEF x
<1>3. [v EXCEPT !.batch = x] \in Lists
  BY <1>2 DEF Lists
<1>4. [v EXCEPT !.batch = x].batch = x /\ [v EXCEPT !.batch = x].farm = v.farm
  BY DEF Lists
<1>5. ListStands(t, [v EXCEPT !.batch = x])
  BY <1>2, <1>4 DEF ListStands
<1> QED
  BY <1>3, <1>5 DEF x

LEMMA ListFarm ==
  ASSUME NEW t, NEW v \in Lists, ListStands(t, v), NEW f \in Farms, NEW entry \in FarmRow,
         KnownFarm(t, f)
  PROVE  LET u == [v EXCEPT !.farm = [v.farm EXCEPT ![f] = entry]]
         IN  u \in Lists /\ ListStands(t, u)
<1> DEFINE x == [v.farm EXCEPT ![f] = entry]
<1>1. v.farm \in [Farms -> FarmRow]
  BY DEF Lists
<1>2. x \in [Farms -> FarmRow] /\ \A g \in Farms : g # f => x[g] = v.farm[g]
  BY <1>1
<1> HIDE DEF x
<1>3. [v EXCEPT !.farm = x] \in Lists
  BY <1>2 DEF Lists
<1>4. [v EXCEPT !.farm = x].farm = x /\ [v EXCEPT !.farm = x].batch = v.batch
  BY DEF Lists
<1>5. ListStands(t, [v EXCEPT !.farm = x])
  BY <1>2, <1>4 DEF ListStands
<1> QED
  BY <1>3, <1>5 DEF x

LEMMA ListStatus ==
  ASSUME NEW t, NEW v \in Lists, ListStands(t, v), NEW x \in Subjects, Known(t, x),
         NEW to \in Verdicts(x)
  PROVE  SetStatus(v, x, to) \in Lists /\ ListStands(t, SetStatus(v, x, to))
<1>1. CASE x \in Batches
  <2> DEFINE entry == [v.batch[x] EXCEPT !.status = to]
  <2>1. to \in Statuses /\ KnownBatch(t, x)
    BY <1>1, VerdictsAreStatuses DEF Known, StatusOf, KnownBatch
  <2>2. entry \in BatchRow
    BY <1>1, <2>1 DEF Lists, BatchRow
  <2>3. SetStatus(v, x, to) = [v EXCEPT !.batch = [v.batch EXCEPT ![x] = entry]]
    BY <1>1 DEF SetStatus
  <2> HIDE DEF entry
  <2>4. LET u == [v EXCEPT !.batch = [v.batch EXCEPT ![x] = entry]]
        IN  u \in Lists /\ ListStands(t, u)
    BY <1>1, <2>1, <2>2, ListBatch
  <2> QED
    BY <2>3, <2>4
<1>2. CASE x \notin Batches
  <2> DEFINE entry == [v.farm[x] EXCEPT !.status = to]
  <2>1. x \in Farms /\ to \in FarmStatuses /\ KnownFarm(t, x)
    BY <1>2, VerdictsAreStatuses DEF Known, StatusOf, KnownFarm
  <2>2. entry \in FarmRow
    BY <2>1 DEF Lists, FarmRow
  <2>3. SetStatus(v, x, to) = [v EXCEPT !.farm = [v.farm EXCEPT ![x] = entry]]
    BY <1>2 DEF SetStatus
  <2> HIDE DEF entry
  <2>4. LET u == [v EXCEPT !.farm = [v.farm EXCEPT ![x] = entry]]
        IN  u \in Lists /\ ListStands(t, u)
    BY <2>1, <2>2, ListFarm
  <2> QED
    BY <2>3, <2>4
<1> QED
  BY <1>1, <1>2

LEMMA ListOpen ==
  ASSUME NEW t, NEW v \in Lists, ListStands(t, v), NEW x, x \subseteq Request
  PROVE  [v EXCEPT !.open = x] \in Lists /\ ListStands(t, [v EXCEPT !.open = x])
<1>1. [v EXCEPT !.open = x] \in Lists
  BY DEF Lists
<1>2. [v EXCEPT !.open = x].batch = v.batch /\ [v EXCEPT !.open = x].farm = v.farm
  BY DEF Lists
<1> QED
  BY <1>1, <1>2 DEF ListStands

-----------------------------------------------------------------------------
(* One step of a handler.                                                  *)

(* What a write brings that was not there: at most the farm or the         *)
(* certificate its own handler is about.                                   *)
NoNews(t, u) == /\ \A f \in Farms : KnownFarm(u, f) => KnownFarm(t, f)
                /\ \A d \in Coas : Filed(u, d) => Filed(t, d)

News(c) == /\ \A f \in Farms : KnownFarm(db', f) => KnownFarm(db, f) \/ (c.op = "farm" /\ f = c.on)
           /\ \A d \in Coas : Filed(db', d) => Filed(db, d) \/ (c.op = "submit" /\ d = c.coa)

Follows(c, d) == /\ d.op = "farm" => c.op = "farm" /\ d.on = c.on
                 /\ d.op = "submit" => c.op = "submit" /\ d.coa = c.coa

NextCall(c, d) == d \in Calls /\ CallStands(db', d) /\ Fresh(db', d) /\ Follows(c, d)

CallsGoOn(c) == \/ calls' \subseteq calls \ {c}
                \/ \E d \in Calls : calls' \subseteq (calls \ {c}) \cup {d} /\ NextCall(c, d)

HandlerSound(c) ==
  /\ Writes(db, db') /\ News(c)
  /\ CallsGoOn(c)
  /\ view' \in [Sessions -> Lists]
  /\ \A w \in Sessions : view'[w] = view[w] \/ ListStands(db', view'[w])
  /\ \A claim \in told' : claim \in told \/ ClaimStands(db', claim)
  /\ pressed' = pressed

LEMMA NoNewsIsNews ==
  ASSUME NEW c, NoNews(db, db')
  PROVE  News(c)
BY DEF NoNews, News

LEMMA StatusIsNoNews ==
  ASSUME NEW t \in Tables, NEW u, WritesStatus(t, u)
  PROVE  NoNews(t, u)
<1>0. PICK x \in Subjects : \E to \in Verdicts(x), from \in Status :
        /\ Known(t, x)
        /\ \/ u = RecordTransition(t, x, from, to)
           \/ ~t.rpc /\ u = SetStatus(t, x, to)
           \/ u = AddHistory(t, x, from, to)
  BY DEF WritesStatus
<1>1. PICK to \in Verdicts(x), from \in Status :
        /\ Known(t, x)
        /\ \/ u = RecordTransition(t, x, from, to)
           \/ ~t.rpc /\ u = SetStatus(t, x, to)
           \/ u = AddHistory(t, x, from, to)
  BY <1>0
<1>2. to \in Status
  BY VerdictsAreStatuses
<1>3. ASSUME u.farm = SetStatus(t, x, to).farm PROVE \A f \in Farms : KnownFarm(u, f) => KnownFarm(t, f)
  <2> SUFFICES ASSUME NEW f \in Farms, KnownFarm(u, f) PROVE KnownFarm(t, f)
    OBVIOUS
  <2>1. u.farm[f] = IF f = x THEN [t.farm[f] EXCEPT !.status = to] ELSE t.farm[f]
    BY <1>3, SetStatusWrites
  <2>2. CASE f = x
    BY <1>1, <2>2, TablesAssumption DEF Known, StatusOf, KnownFarm
  <2>3. CASE f # x
    BY <2>1, <2>3 DEF KnownFarm
  <2> QED
    BY <2>2, <2>3
<1>4. CASE u = RecordTransition(t, x, from, to)
  <2>1. u.farm = SetStatus(t, x, to).farm /\ u.register = t.register
    BY <1>4, RecordTransitionWrites
  <2> QED
    BY <1>3, <2>1 DEF NoNews, Filed
<1>5. CASE u = SetStatus(t, x, to)
  <2>1. u.farm = SetStatus(t, x, to).farm /\ u.register = t.register
    BY <1>5, SetStatusWrites
  <2> QED
    BY <1>3, <2>1 DEF NoNews, Filed
<1>6. CASE u = AddHistory(t, x, from, to)
  <2>1. u.farm = t.farm /\ u.register = t.register
    BY <1>2, <1>6, AddHistoryWrites
  <2> QED
    BY <2>1 DEF NoNews, Filed, KnownFarm
<1> QED
  BY <1>1, <1>4, <1>5, <1>6

LEMMA OthersAreNoNews ==
  ASSUME NEW t \in Tables, NEW u, u = t \/ WritesBatch(t, u) \/ WritesRequest(t, u) \/ WritesFile(t, u)
  PROVE  NoNews(t, u)
<1>1. u.farm = t.farm /\ u.register = t.register
  <2>1. CASE u = t
    BY <2>1
  <2>2. CASE WritesBatch(t, u)
    BY <2>2 DEF WritesBatch, SetVisible, FlagChanges, PatchCoa, UpsertBatch, Tables
  <2>3. CASE WritesRequest(t, u)
    BY <2>3 DEF WritesRequest, AddRequest, Resolve, Tables
  <2>4. CASE WritesFile(t, u)
    BY <2>4 DEF WritesFile, StoreFile, RecordPhoto, Tables
  <2> QED
    BY <2>1, <2>2, <2>3, <2>4
<1> QED
  BY <1>1 DEF NoNews, Filed, KnownFarm

(* A handler that ends without a word.                                     *)
LEMMA GivesUp ==
  ASSUME FilesInv, NEW c \in calls, Writes(db, db'), News(c), calls' = calls \ {c},
         UNCHANGED <<view, told, pressed>>
  PROVE  HandlerSound(c)
BY DEF HandlerSound, CallsGoOn, FilesInv, FilesTypeOK

(* A handler that goes on to its next call.                                *)
LEMMA GoesTo ==
  ASSUME FilesInv, NEW c \in calls, Writes(db, db'), News(c), NEW d, NextCall(c, d),
         calls' = (calls \ {c}) \cup {d}, UNCHANGED <<view, told, pressed>>
  PROVE  HandlerSound(c)
BY DEF HandlerSound, CallsGoOn, NextCall, FilesInv, FilesTypeOK

(* A handler that tells what it did.                                       *)
LEMMA Tells ==
  ASSUME FilesInv, NEW c \in calls, Writes(db, db'), News(c), CallsGoOn(c),
         NEW lists \in Lists, ListStands(db', lists), NEW claim, ClaimStands(db', claim),
         Show(c, claim, lists), pressed' = pressed
  PROVE  HandlerSound(c)
BY CallKinds DEF HandlerSound, Show, FilesInv, FilesTypeOK

LEMMA CallFacts ==
  ASSUME FilesInv, NEW c \in calls
  PROVE  /\ c \in Calls /\ c.who \in Sessions /\ c.id \in Nat
         /\ CallStands(db, c) /\ Fresh(db, c)
         /\ view[c.who] \in Lists /\ ListStands(db, view[c.who])
         /\ view[Farmer] \in Lists /\ ListStands(db, view[Farmer])
         /\ db \in Tables /\ TablesStand(db)
BY CallKinds DEF FilesInv, FilesTypeOK, Sessions

LEMMA WritesGrow ==
  ASSUME FilesInv, Writes(db, db')
  PROVE  Grows(db, db')
BY WritesAreSound DEF FilesInv, Sound

(* tryAtomicStatusTransition and the path without it (db.ts:90-212,        *)
(* 459-491, 587-615; App.tsx:1420-1485).                                   *)
LEMMA StatusHandlersAreSound ==
  ASSUME FilesInv, NEW c \in calls, StatusCall(c) \/ StatusUpdate(c) \/ StatusHistory(c)
  PROVE  HandlerSound(c)
<1>1. c.op = "status" /\ pressed' = pressed
  BY DEF StatusCall, StatusUpdate, StatusHistory, Statement
<1>2. c \in StatusCalls
  BY <1>1, CallFacts, CallKinds
<1>3. /\ c.on \in Subjects /\ c.from \in Status /\ c.to \in Verdicts(c.on) /\ Known(db, c.on)
      /\ c.to \in Status /\ (c.step # "call" => ~db.rpc)
  BY <1>1, <1>2, CallFacts, VerdictsAreStatuses DEF StatusCalls, CallStands
<1>4. ASSUME db' = db \/ WritesStatus(db, db')
      PROVE  Writes(db, db') /\ News(c) /\ Grows(db, db')
  <2>1. Writes(db, db')
    BY <1>4 DEF Writes
  <2>2. NoNews(db, db')
    BY <1>4, CallFacts, StatusIsNoNews, OthersAreNoNews
  <2> QED
    BY <2>1, <2>2, NoNewsIsNews, WritesGrow
<1>5. ASSUME db' = db \/ WritesStatus(db, db'), Fail(c)
      PROVE  HandlerSound(c)
  BY <1>1, <1>4, <1>5, GivesUp DEF Fail
<1>6. ASSUME WritesStatus(db, db'),
             \E i \in DOMAIN db'.history : db'.history[i].on = c.on /\ db'.history[i].to = c.to,
             CommitStatus(c)
      PROVE  HandlerSound(c)
  <2>1. Writes(db, db') /\ News(c) /\ Grows(db, db')
    BY <1>4, <1>6
  <2>2. ClaimStands(db', <<"status", c.on, c.to>>)
    BY <1>3, <1>6 DEF ClaimStands
  <2>3. ListStands(db', view[c.who]) /\ Known(db', c.on)
    BY <1>3, <2>1, CallFacts, ListGoesOn, KnownStays
  <2>4. SetStatus(view[c.who], c.on, c.to) \in Lists /\ ListStands(db', SetStatus(view[c.who], c.on, c.to))
    BY <1>3, <2>3, CallFacts, ListStatus
  <2>5. CallsGoOn(c)
    BY <1>6 DEF CommitStatus, Commit, CallsGoOn
  <2>6. Show(c, <<"status", c.on, c.to>>, SetStatus(view[c.who], c.on, c.to))
    BY <1>6 DEF CommitStatus, Commit
  <2> QED
    BY <1>1, <2>1, <2>2, <2>4, <2>5, <2>6, Tells
<1>7. ASSUME db' = db \/ WritesStatus(db, db'), ~db.rpc, NEW step \in {"update", "history"},
             Goto(c, step)
      PROVE  HandlerSound(c)
  <2> DEFINE d == [c EXCEPT !.step = step]
  <2>1. Writes(db, db') /\ News(c) /\ Grows(db, db')
    BY <1>4, <1>7
  <2>2. d \in StatusCalls /\ d.op = "status" /\ d.on = c.on /\ d.to = c.to
    BY <1>2, <1>7 DEF StatusCalls
  <2>3. calls' = (calls \ {c}) \cup {d} /\ UNCHANGED <<view, told, pressed>>
    BY <1>1, <1>7 DEF Goto, Becomes
  <2> HIDE DEF d
  <2>4. Known(db', c.on) /\ ~db'.rpc
    BY <1>3, <1>7, <2>1, KnownStays DEF Grows
  <2>5. NextCall(c, d)
    BY <1>3, <2>2, <2>4 DEF NextCall, Calls, CallStands, Fresh, Follows
  <2> QED
    BY <2>1, <2>3, <2>5, GoesTo
<1>8. ASSUME db' = RecordTransition(db, c.on, c.from, c.to) \/ db' = AddHistory(db, c.on, c.from, c.to)
      PROVE  /\ WritesStatus(db, db')
             /\ \E i \in DOMAIN db'.history : db'.history[i].on = c.on /\ db'.history[i].to = c.to
  <2>1. WritesStatus(db, db')
    BY <1>3, <1>8 DEF WritesStatus
  <2>2. PICK from \in Status :
          db'.history = Append(db.history, [on |-> c.on, from |-> from, to |-> c.to])
    <3>1. CASE db' = RecordTransition(db, c.on, c.from, c.to)
      BY <1>3, <3>1, CallFacts, RecordTransitionWrites, StatusOfType
    <3>2. CASE db' = AddHistory(db, c.on, c.from, c.to)
      BY <1>3, <3>2, CallFacts, AddHistoryWrites
    <3> QED
      BY <1>8, <3>1, <3>2
  <2>3. [on |-> c.on, from |-> from, to |-> c.to] \in Entry /\ db.history \in Seq(Entry)
    BY <1>3, CallFacts DEF Entry, Tables
  <2>4. /\ Len(db.history) + 1 \in DOMAIN db'.history
        /\ db'.history[Len(db.history) + 1] = [on |-> c.on, from |-> from, to |-> c.to]
    BY <2>2, <2>3, AppendKeeps
  <2> QED
    BY <2>1, <2>4
<1>9. CASE StatusCall(c)
  <2>1. CASE db.rpc
    BY <1>5, <1>6, <1>8, <1>9, <2>1 DEF StatusCall, Statement
  <2>2. CASE ~db.rpc
    BY <1>5, <1>7, <1>9, <2>2 DEF StatusCall, Statement
  <2> QED
    BY <2>1, <2>2
<1>10. CASE StatusUpdate(c)
  <2>1. ~db.rpc
    BY <1>3, <1>10 DEF StatusUpdate
  <2>2. db' = SetStatus(db, c.on, c.to) => WritesStatus(db, db')
    BY <1>3, <2>1 DEF WritesStatus
  <2> QED
    BY <1>5, <1>7, <1>10, <2>1, <2>2 DEF StatusUpdate, Statement
<1>11. CASE StatusHistory(c)
  BY <1>5, <1>6, <1>8, <1>11 DEF StatusHistory, Statement
<1> QED
  BY <1>9, <1>10, <1>11

(* App.tsx:1352-1371.                                                      *)
LEMMA VisibleIsSound ==
  ASSUME FilesInv, NEW c \in calls, handleMarkClientVisible(c)
  PROVE  HandlerSound(c)
<1>1. c.op = "visible" /\ pressed' = pressed
  BY DEF handleMarkClientVisible, Statement
<1>2. c.on \in Batches /\ c.to \in BOOLEAN /\ KnownBatch(db, c.on)
  BY <1>1, CallFacts, CallKinds DEF VisibleCalls, CallStands
<1>3. db' = db \/ db' = SetVisible(db, c.on, c.to)
  BY DEF handleMarkClientVisible, Statement
<1>4. db' = db \/ WritesBatch(db, db')
  BY <1>2, <1>3 DEF WritesBatch
<1>5. Writes(db, db') /\ News(c) /\ Grows(db, db')
  <2>1. Writes(db, db')
    BY <1>4 DEF Writes
  <2> QED
    BY <1>4, <2>1, CallFacts, OthersAreNoNews, NoNewsIsNews, WritesGrow
<1>6. CASE Fail(c)
  BY <1>1, <1>5, <1>6, GivesUp DEF Fail
<1>7. CASE Commit(c, <<"batch", c.on>>, SetVisible(view[c.who], c.on, c.to))
  <2> DEFINE v == view[c.who]
             entry == [v.batch[c.on] EXCEPT !.visible = c.to,
                         !.stock = IF c.to THEN "client_visible" ELSE "approved_internal"]
  <2>1. v \in Lists /\ ListStands(db', v)
    BY <1>5, CallFacts, ListGoesOn
  <2>2. KnownBatch(db', c.on)
    BY <1>2, <1>5 DEF Grows
  <2>3. entry \in BatchRow
    <3>1. v.batch[c.on] \in BatchRow
      BY <1>2, <2>1 DEF Lists
    <3> QED
      BY <1>2, <3>1 DEF BatchRow, Stock
  <2>4. SetVisible(v, c.on, c.to) = [v EXCEPT !.batch = [v.batch EXCEPT ![c.on] = entry]]
    BY <1>2, <2>1 DEF SetVisible, Lists
  <2> HIDE DEF entry, v
  <2>5. LET u == [v EXCEPT !.batch = [v.batch EXCEPT ![c.on] = entry]]
        IN  u \in Lists /\ ListStands(db', u)
    BY <1>2, <2>1, <2>2, <2>3, ListBatch
  <2>6. SetVisible(v, c.on, c.to) \in Lists /\ ListStands(db', SetVisible(v, c.on, c.to))
    BY <2>4, <2>5
  <2>7. ClaimStands(db', <<"batch", c.on>>)
    BY <1>2, <2>2 DEF ClaimStands
  <2>8. CallsGoOn(c) /\ Show(c, <<"batch", c.on>>, SetVisible(v, c.on, c.to))
    BY <1>7 DEF Commit, CallsGoOn, v
  <2> QED
    BY <1>1, <1>5, <2>6, <2>7, <2>8, Tells
<1> QED
  BY <1>6, <1>7 DEF handleMarkClientVisible, Statement

LEMMA PlainWrites ==
  ASSUME FilesInv, NEW c,
         db' = db \/ WritesBatch(db, db') \/ WritesRequest(db, db') \/ WritesFile(db, db')
  PROVE  Writes(db, db') /\ News(c) /\ Grows(db, db')
<1>1. Writes(db, db')
  BY DEF Writes
<1>2. db \in Tables
  BY DEF FilesInv, FilesTypeOK
<1> QED
  BY <1>1, <1>2, OthersAreNoNews, NoNewsIsNews, WritesGrow

(* App.tsx:1261-1335.                                                      *)
LEMMA RequestHandlersAreSound ==
  ASSUME FilesInv, NEW c \in calls, RequestInsert(c) \/ RequestFlag(c)
  PROVE  HandlerSound(c)
<1> DEFINE s == First(c.todo)
           rest == c.todo \ {s}
           more == [c EXCEPT !.todo = rest]
           flag == [c EXCEPT !.step = "flag"]
           onto == IF rest = {} THEN calls \ {c} ELSE (calls \ {c}) \cup {more}
<1>1. c.op = "request" /\ pressed' = pressed
  BY DEF RequestInsert, RequestFlag, Statement
<1>2. c \in RequestCalls /\ \A x \in c.todo : Known(db, x)
  BY <1>1, CallFacts, CallKinds DEF CallStands
<1>3. s \in c.todo /\ s \in Subjects /\ c.id \in Nat /\ c.todo \subseteq Subjects
  BY <1>2 DEF RequestCalls, First
<1>4. rest # {} /\ c.step = "insert" => /\ more \in RequestCalls /\ more.op = "request"
                                       /\ more.todo = rest /\ more.step = "insert"
  BY <1>2 DEF RequestCalls
<1>5. flag \in RequestCalls /\ flag.op = "request" /\ flag.todo = c.todo
  BY <1>2 DEF RequestCalls
<1> HIDE DEF more, flag
<1>6. CASE RequestInsert(c)
  <2>1. db' = db \/ WritesRequest(db, db')
    BY <1>3, <1>6 DEF RequestInsert, Statement, WritesRequest, First
  <2>2. Writes(db, db') /\ News(c) /\ Grows(db, db')
    BY <2>1, PlainWrites
  <2>3. c.step = "insert"
    BY <1>6 DEF RequestInsert
  <2>4. \A x \in c.todo : Known(db', x)
    BY <1>2, <1>3, <2>2, KnownStays
  <2>5. calls' = onto => CallsGoOn(c)
    <3>1. CASE rest = {}
      BY <3>1 DEF CallsGoOn
    <3>2. CASE rest # {}
      <4>1. NextCall(c, more)
        BY <1>4, <2>3, <2>4, <3>2 DEF NextCall, Calls, CallStands, Fresh, Follows
      <4>2. more \in Calls
        BY <4>1 DEF NextCall
      <4> QED
        BY <3>2, <4>1, <4>2 DEF CallsGoOn
    <3> QED
      BY <3>1, <3>2
  <2>6. CASE calls' = onto /\ UNCHANGED <<view, told>>
    BY <1>1, <2>2, <2>5, <2>6 DEF HandlerSound, FilesInv, FilesTypeOK
  <2>7. CASE /\ db' = AddRequest(db, s, c.id)
             /\ Show(c, <<"request", s, c.id>>, view[c.who])
             /\ IF s \in Batches THEN calls' = (calls \ {c}) \cup {flag} ELSE calls' = onto
    <3>1. CallsGoOn(c)
      <4>1. CASE s \in Batches
        <5>1. NextCall(c, flag)
          BY <1>5, <2>4, <4>1 DEF NextCall, Calls, CallStands, Fresh, Follows
        <5>2. flag \in Calls
          BY <5>1 DEF NextCall
        <5> QED
          BY <2>7, <4>1, <5>1, <5>2 DEF CallsGoOn
      <4> QED
        BY <2>5, <2>7, <4>1
    <3>2. [on |-> s, by |-> c.id, status |-> "open"] \in db'.requests
      BY <2>7, CallFacts DEF AddRequest, Tables
    <3>3. ClaimStands(db', <<"request", s, c.id>>)
      <4>1. \E r \in db'.requests : r.on = s /\ r.by = c.id
        BY <3>2
      <4> QED
        BY <1>3, <4>1 DEF ClaimStands
    <3>4. view[c.who] \in Lists /\ ListStands(db', view[c.who])
      BY <2>2, CallFacts, ListGoesOn
    <3> QED
      BY <1>1, <2>2, <2>7, <3>1, <3>3, <3>4, Tells
  <2> QED
    BY <1>6, <2>6, <2>7 DEF RequestInsert, Statement, First, more, flag, Becomes
<1>7. CASE RequestFlag(c)
  <2>1. s \in Batches /\ KnownBatch(db, s)
    <3>1. s \in Batches
      BY <1>1, <1>7, CallFacts DEF RequestFlag, CallStands
    <3> QED
      BY <1>2, <1>3, <3>1 DEF Known, KnownBatch, StatusOf
  <2>2. db' = db \/ WritesBatch(db, db')
    BY <1>7, <2>1 DEF RequestFlag, Statement, WritesBatch, First
  <2>3. Writes(db, db') /\ News(c) /\ Grows(db, db')
    BY <2>2, PlainWrites
  <2>4. CASE Fail(c)
    BY <1>1, <2>3, <2>4, GivesUp DEF Fail
  <2>5. CASE Commit(c, <<"batch", s>>, FlagChanges(view[c.who], s))
    <3> DEFINE v == view[c.who]
               entry == [v.batch[s] EXCEPT !.stock = "needs_changes"]
    <3>1. v \in Lists /\ ListStands(db', v)
      BY <2>3, CallFacts, ListGoesOn
    <3>2. KnownBatch(db', s)
      BY <2>1, <2>3 DEF Grows
    <3>3. entry \in BatchRow
      <4>1. v.batch[s] \in BatchRow
        BY <2>1, <3>1 DEF Lists
      <4> QED
        BY <4>1 DEF BatchRow, Stock, Editable
    <3>4. FlagChanges(v, s) = [v EXCEPT !.batch = [v.batch EXCEPT ![s] = entry]]
      BY DEF FlagChanges
    <3> HIDE DEF entry, v, s
    <3>5. LET u == [v EXCEPT !.batch = [v.batch EXCEPT ![s] = entry]]
          IN  u \in Lists /\ ListStands(db', u)
      BY <2>1, <3>1, <3>2, <3>3, ListBatch
    <3>6. FlagChanges(v, s) \in Lists /\ ListStands(db', FlagChanges(v, s))
      BY <3>4, <3>5
    <3>7. ClaimStands(db', <<"batch", s>>)
      BY <2>1, <3>2 DEF ClaimStands
    <3>8. CallsGoOn(c) /\ Show(c, <<"batch", s>>, FlagChanges(v, s))
      BY <2>5 DEF Commit, CallsGoOn, v
    <3> QED
      BY <1>1, <2>3, <3>6, <3>7, <3>8, Tells
  <2> QED
    BY <1>7, <2>4, <2>5 DEF RequestFlag, Statement, First
<1> QED
  BY <1>6, <1>7

(* App.tsx:1337-1350.                                                      *)
LEMMA ResolveIsSound ==
  ASSUME FilesInv, NEW c \in calls, handleResolveRequest(c)
  PROVE  HandlerSound(c)
<1>1. c.op = "resolve" /\ pressed' = pressed
  BY DEF handleResolveRequest, Statement
<1>2. c.on \in Request /\ c.on.on \in Subjects \cup {Home} /\ c.on.by \in Nat
  BY <1>1, CallFacts, CallKinds DEF ResolveCalls, Request
<1>3. db' = db \/ WritesRequest(db, db')
  BY <1>2 DEF handleResolveRequest, Statement, WritesRequest
<1>4. Writes(db, db') /\ News(c) /\ Grows(db, db')
  BY <1>3, PlainWrites
<1>5. CASE Fail(c)
  BY <1>1, <1>4, <1>5, GivesUp DEF Fail
<1>6. CASE /\ MayResolve(db, c.on)
           /\ Commit(c, <<"request", c.on.on, c.on.by>>,
                     [view[Farmer] EXCEPT !.open = @ \ {c.on}])
  <2> DEFINE v == view[Farmer]
             x == v.open \ {c.on}
  <2>1. v \in Lists /\ ListStands(db', v)
    BY <1>4, CallFacts, ListGoesOn
  <2>2. x \subseteq Request
    BY <2>1 DEF Lists
  <2>3. Show(c, <<"request", c.on.on, c.on.by>>, [v EXCEPT !.open = x]) /\ CallsGoOn(c)
    BY <1>6 DEF Commit, CallsGoOn
  <2> HIDE DEF v, x
  <2>4. [v EXCEPT !.open = x] \in Lists /\ ListStands(db', [v EXCEPT !.open = x])
    BY <2>1, <2>2, ListOpen
  <2>5. \E r \in db'.requests : r.on = c.on.on /\ r.by = c.on.by
    <3>1. PICK q \in db.requests : q.on = c.on.on /\ q.by = c.on.by
      BY <1>6 DEF MayResolve
    <3> QED
      BY <1>4, <3>1 DEF Grows
  <2>6. ClaimStands(db', <<"request", c.on.on, c.on.by>>)
    BY <1>2, <2>5 DEF ClaimStands
  <2> QED
    BY <1>1, <1>4, <2>3, <2>4, <2>6, Tells
<1> QED
  BY <1>5, <1>6 DEF handleResolveRequest, Statement

-----------------------------------------------------------------------------
(* handleInventorySubmit.                                                  *)

Filing == {"coaStore", "coaPatch", "coaRegister"}
Showing == {"photoStore", "photoRecord"}

(* The next call of a submission rests on what is recorded by now.         *)
LEMMA SubmitGoesOn ==
  ASSUME NEW c, c.op = "submit", NEW d \in SubmitCalls, d.on = c.on, d.coa = c.coa, d.row = c.row,
         c.row.status = "Pending Review", d.step \in Filing \cup Showing,
         KnownBatch(db', d.on), d.got \subseteq db'.photos[d.on], d.got \subseteq db'.stored,
         d.step \in Filing => d.coa # None /\ ~Filed(db', d.coa),
         d.step \in Filing \ {"coaStore"} => d.coa \in db'.stored,
         d.step \in Showing => d.todo # {},
         d.step = "photoRecord" => First(d.todo) \in db'.stored
  PROVE  NextCall(c, d)
<1>1. d.op = "submit" /\ d \in Calls
  BY DEF SubmitCalls, Calls
<1>2. CallStands(db', d)
  BY <1>1 DEF CallStands, Filing, Showing
<1>3. Fresh(db', d)
  BY <1>1 DEF Fresh, Filing, Showing
<1> QED
  BY <1>1, <1>2, <1>3 DEF NextCall, Follows

LEMMA OverGoesOn ==
  ASSUME NEW c, c.id \in Nat, c.who \in Sessions, NEW missed \in SUBSET Missed,
         calls' = (calls \ {c}) \cup {[id |-> c.id, who |-> c.who, op |-> "submitted",
                                       step |-> "over", missed |-> missed]}
  PROVE  CallsGoOn(c)
<1> DEFINE d == [id |-> c.id, who |-> c.who, op |-> "submitted", step |-> "over", missed |-> missed]
<1>1. d \in OverCalls /\ d.op = "submitted"
  BY DEF OverCalls
<1>2. calls' = (calls \ {c}) \cup {d}
  OBVIOUS
<1> HIDE DEF d
<1>3. d \in Calls /\ NextCall(c, d)
  BY <1>1 DEF NextCall, Calls, CallStands, Fresh, Follows
<1> QED
  BY <1>2, <1>3 DEF CallsGoOn

LEMMA EndedGoesOn ==
  ASSUME NEW c \in SubmitCalls, Ended(c)
  PROVE  CallsGoOn(c)
<1>1. CASE c.draft
  BY <1>1 DEF Ended, CallsGoOn
<1>2. CASE ~c.draft
  <2>1. c.id \in Nat /\ c.who \in Sessions /\ c.missed \in SUBSET Missed
    BY DEF SubmitCalls
  <2> QED
    BY <1>2, <2>1, OverGoesOn DEF Ended, Becomes
<1> QED
  BY <1>1, <1>2

LEMMA SubmitFacts ==
  ASSUME FilesInv, NEW c \in calls, c.op = "submit", Grows(db, db')
  PROVE  /\ c \in SubmitCalls /\ c.on \in Batches /\ c.id \in Nat /\ c.who \in Sessions
         /\ c.coa \in Coas \cup {None} /\ c.row \in BatchRow /\ c.row.status = "Pending Review"
         /\ c.missed \subseteq Missed /\ c.todo \subseteq Photos
         /\ c.step # "upsert" => KnownBatch(db, c.on) /\ KnownBatch(db', c.on)
         /\ c.step \in Filing => c.coa \in Coas /\ ~Filed(db, c.coa)
         /\ c.step \in Filing \ {"coaStore"} => c.coa \in db.stored /\ c.coa \in db'.stored
         /\ c.step \in Showing => c.todo # {} /\ First(c.todo) \in c.todo
         /\ c.step = "photoRecord" => First(c.todo) \in db.stored /\ First(c.todo) \in db'.stored
         /\ c.got \subseteq db'.photos[c.on] /\ c.got \subseteq db'.stored
<1>1. c \in SubmitCalls /\ CallStands(db, c) /\ Fresh(db, c)
  BY CallFacts, CallKinds
<1>2. /\ c.on \in Batches /\ c.id \in Nat /\ c.who \in Sessions
      /\ c.coa \in Coas \cup {None} /\ c.row \in BatchRow
      /\ c.missed \subseteq Missed /\ c.todo \subseteq Photos
  BY <1>1 DEF SubmitCalls
<1>3. /\ db.stored \subseteq db'.stored /\ db.photos[c.on] \subseteq db'.photos[c.on]
      /\ KnownBatch(db, c.on) => KnownBatch(db', c.on)
  BY <1>2 DEF Grows
<1> QED
  BY <1>1, <1>2, <1>3 DEF CallStands, Fresh, Filing, Showing, First

(* App.tsx:994-1024.                                                       *)
LEMMA UpsertIsSound ==
  ASSUME FilesInv, NEW c \in calls, SubmitUpsert(c)
  PROVE  HandlerSound(c)
<1>1. c.op = "submit" /\ c.step = "upsert" /\ pressed' = pressed
  BY DEF SubmitUpsert, Statement
<1>2. c.on \in Batches /\ c.row \in BatchRow /\ c.row.status = "Pending Review"
  BY <1>1, CallFacts, CallKinds DEF SubmitCalls, CallStands
<1>3. db' = db \/ WritesBatch(db, db')
  BY <1>2 DEF SubmitUpsert, Statement, WritesBatch
<1>4. Writes(db, db') /\ News(c) /\ Grows(db, db')
  BY <1>3, PlainWrites
<1>5. CASE Fail(c)
  BY <1>1, <1>4, <1>5, GivesUp DEF Fail
<1>6. CASE /\ db' = UpsertBatch(db, c.on, c.row)
           /\ Show(c, <<"batch", c.on>>, UpsertBatch(view[Farmer], c.on, c.row))
           /\ IF c.coa # None THEN Becomes(c, [c EXCEPT !.step = "coaStore"])
              ELSE IF c.todo # {} THEN Becomes(c, [c EXCEPT !.step = "photoStore"])
              ELSE Ended(c)
  <2> DEFINE v == view[Farmer]
  <2>1. KnownBatch(db', c.on)
    BY <1>2, <1>6, CallFacts DEF UpsertBatch, KnownBatch, Tables
  <2>2. v \in Lists /\ ListStands(db', v)
    BY <1>4, CallFacts, ListGoesOn
  <2>3. UpsertBatch(v, c.on, c.row) = [v EXCEPT !.batch = [v.batch EXCEPT ![c.on] = c.row]]
    BY DEF UpsertBatch
  <2>4. Show(c, <<"batch", c.on>>, UpsertBatch(v, c.on, c.row))
    BY <1>6
  <2> HIDE DEF v
  <2>5. LET u == [v EXCEPT !.batch = [v.batch EXCEPT ![c.on] = c.row]]
        IN  u \in Lists /\ ListStands(db', u)
    BY <1>2, <2>1, <2>2, ListBatch
  <2>6. UpsertBatch(v, c.on, c.row) \in Lists /\ ListStands(db', UpsertBatch(v, c.on, c.row))
    BY <2>3, <2>5
  <2>7. ClaimStands(db', <<"batch", c.on>>)
    BY <1>2, <2>1 DEF ClaimStands
  <2>8. CallsGoOn(c)
    <3>1. ASSUME NEW step \in {"coaStore", "photoStore"}, Becomes(c, [c EXCEPT !.step = step]),
                 step = "coaStore" => c.coa # None, step = "photoStore" => c.todo # {}
          PROVE  CallsGoOn(c)
      <4> DEFINE d == [c EXCEPT !.step = step]
      <4>1. /\ d \in SubmitCalls /\ d.on = c.on /\ d.coa = c.coa /\ d.row = c.row
            /\ d.step = step /\ d.got = c.got /\ d.todo = c.todo
        BY <1>1, <1>4, <3>1, SubmitFacts DEF SubmitCalls
      <4>2. calls' = (calls \ {c}) \cup {d}
        BY <3>1 DEF Becomes
      <4> HIDE DEF d
      <4>3. step = "coaStore" => ~Filed(db', c.coa)
        <5>1. c.coa # None => c.coa \in Coas /\ ~Filed(db, c.coa)
          BY <1>1, <1>4, SubmitFacts, CallFacts DEF Fresh
        <5>2. db'.register = db.register
          BY <1>6, CallFacts DEF UpsertBatch, Tables
        <5> QED
          BY <3>1, <5>1, <5>2 DEF Filed
      <4>4. NextCall(c, d)
        BY <1>1, <1>4, <2>1, <3>1, <4>1, <4>3, SubmitFacts, SubmitGoesOn DEF Filing, Showing
      <4>5. d \in Calls
        BY <4>4 DEF NextCall
      <4> QED
        BY <4>2, <4>4, <4>5 DEF CallsGoOn
    <3>2. Ended(c) => CallsGoOn(c)
      BY <1>1, <1>4, SubmitFacts, EndedGoesOn
    <3> QED
      BY <1>6, <3>1, <3>2
  <2> QED
    BY <1>1, <1>4, <2>4, <2>6, <2>7, <2>8, Tells
<1> QED
  BY <1>5, <1>6 DEF SubmitUpsert, Statement

(* App.tsx:1026-1080.                                                      *)
LEMMA CoaFailsSoundly ==
  ASSUME FilesInv, NEW c \in calls, c.op = "submit", c.step \in Filing,
         Writes(db, db'), News(c), CoaFails(c), pressed' = pressed
  PROVE  HandlerSound(c)
<1> DEFINE d == [c EXCEPT !.missed = @ \cup {"coa"}]
           e == [d EXCEPT !.step = "photoStore"]
<1>1. Grows(db, db')
  BY WritesGrow
<1>2. /\ d.missed \subseteq Missed /\ e \in SubmitCalls /\ e.on = c.on /\ e.coa = c.coa
      /\ e.row = c.row /\ e.step = "photoStore" /\ e.got = c.got /\ e.todo = c.todo
  BY <1>1, SubmitFacts DEF SubmitCalls, Missed
<1>3. /\ UNCHANGED <<view, told>>
      /\ IF c.todo # {} THEN calls' = (calls \ {c}) \cup {e}
         ELSE calls' = (calls \ {c}) \cup {[id |-> c.id, who |-> c.who, op |-> "submitted",
                                            step |-> "over", missed |-> d.missed]}
  BY DEF CoaFails, Becomes
<1> HIDE DEF d, e
<1>4. CASE c.todo # {}
  <2>1. NextCall(c, e)
    BY <1>1, <1>2, <1>4, SubmitFacts, SubmitGoesOn DEF Filing, Showing
  <2> QED
    BY <1>3, <1>4, <2>1, GoesTo
<1>5. CASE c.todo = {}
  <2>1. CallsGoOn(c)
    BY <1>1, <1>2, <1>3, <1>5, SubmitFacts, OverGoesOn
  <2> QED
    BY <1>3, <2>1 DEF HandlerSound, FilesInv, FilesTypeOK
<1> QED
  BY <1>4, <1>5

(* A submission that goes on to another step with all it holds.            *)
LEMMA SubmitSteps ==
  ASSUME FilesInv, NEW c \in calls, c.op = "submit", c.step # "upsert",
         Writes(db, db'), News(c), NEW step \in Filing \cup Showing, Goto(c, step), pressed' = pressed,
         step \in Filing => c.coa # None /\ ~Filed(db', c.coa),
         step \in Filing \ {"coaStore"} => c.coa \in db'.stored,
         step \in Showing => c.todo # {},
         step = "photoRecord" => First(c.todo) \in db'.stored
  PROVE  HandlerSound(c)
<1> DEFINE d == [c EXCEPT !.step = step]
<1>1. Grows(db, db')
  BY WritesGrow
<1>2. /\ d \in SubmitCalls /\ d.on = c.on /\ d.coa = c.coa /\ d.row = c.row
      /\ d.step = step /\ d.got = c.got /\ d.todo = c.todo
  BY <1>1, SubmitFacts DEF SubmitCalls, Filing, Showing
<1>3. calls' = (calls \ {c}) \cup {d} /\ UNCHANGED <<view, told>>
  BY DEF Goto, Becomes
<1> HIDE DEF d
<1>4. NextCall(c, d)
  BY <1>1, <1>2, SubmitFacts, SubmitGoesOn
<1> QED
  BY <1>3, <1>4, GoesTo

(* db.ts:866-898, 660-682; App.tsx:1026-1040.                              *)
LEMMA FilingStepsAreSound ==
  ASSUME FilesInv, NEW c \in calls, uploadCoaFile(c) \/ patchInventoryBatch(c)
  PROVE  HandlerSound(c)
<1>1. /\ c.op = "submit" /\ c.step \in Filing /\ c.step # "upsert"
      /\ pressed' = pressed
  BY DEF uploadCoaFile, patchInventoryBatch, Statement, Filing
<1>2. c.coa \in Coas /\ c.on \in Batches /\ KnownBatch(db, c.on) /\ ~Filed(db, c.coa)
  BY <1>1, CallFacts, CallKinds DEF CallStands, Fresh, SubmitCalls, Filing
<1>3. CASE uploadCoaFile(c)
  <2>1. db' = db \/ db' = StoreFile(db, c.coa)
    BY <1>3 DEF uploadCoaFile, Statement
  <2>2. db' = db \/ WritesFile(db, db')
    BY <1>2, <2>1 DEF WritesFile
  <2>3. Writes(db, db') /\ News(c) /\ Grows(db, db')
    BY <2>2, PlainWrites
  <2>4. ASSUME db' = StoreFile(db, c.coa), Goto(c, "coaPatch")
        PROVE  HandlerSound(c)
    <3>1. c.coa \in db'.stored /\ db'.register = db.register
      BY <2>4, CallFacts DEF StoreFile, Tables
    <3>2. ~Filed(db', c.coa)
      BY <1>2, <3>1 DEF Filed
    <3>3. c.coa # None
      BY <1>2, TablesAssumption
    <3> QED
      BY <1>1, <2>3, <2>4, <3>1, <3>2, <3>3, SubmitSteps DEF Filing, Showing
  <2>5. CoaFails(c) => HandlerSound(c)
    BY <1>1, <2>3, CoaFailsSoundly
  <2> QED
    BY <1>3, <2>4, <2>5 DEF uploadCoaFile, Statement
<1>4. CASE patchInventoryBatch(c)
  <2>1. db' = db \/ (MayPatchCoa(db, c.on, c.coa) /\ db' = PatchCoa(db, c.on, c.coa))
    BY <1>4 DEF patchInventoryBatch, Statement
  <2>2. db' = db \/ WritesBatch(db, db')
    BY <1>2, <2>1 DEF WritesBatch
  <2>3. Writes(db, db') /\ News(c) /\ Grows(db, db')
    BY <2>2, PlainWrites
  <2>4. ASSUME Goto(c, "coaRegister") PROVE HandlerSound(c)
    <3>1. db'.register = db.register
      BY <2>1, CallFacts DEF PatchCoa, Tables
    <3>2. ~Filed(db', c.coa)
      BY <1>2, <3>1 DEF Filed
    <3>3. c.coa # None
      BY <1>2, TablesAssumption
    <3>4. c.coa \in db'.stored
      <4>1. c.step = "coaPatch"
        BY <1>4 DEF patchInventoryBatch
      <4> QED
        BY <1>1, <2>3, <4>1, SubmitFacts DEF Filing
    <3> QED
      BY <1>1, <2>3, <2>4, <3>2, <3>3, <3>4, SubmitSteps DEF Filing, Showing
  <2>5. CoaFails(c) => HandlerSound(c)
    BY <1>1, <2>3, CoaFailsSoundly
  <2> QED
    BY <1>4, <2>4, <2>5 DEF patchInventoryBatch, Statement
<1> QED
  BY <1>3, <1>4

(* The lists with a certificate on a batch.                                *)
LEMMA ListCoa ==
  ASSUME NEW t, NEW v \in Lists, ListStands(t, v), NEW b \in Batches, NEW d \in Coas, KnownBatch(t, b)
  PROVE  LET u == [v EXCEPT !.batch[b].coa = d] IN u \in Lists /\ ListStands(t, u)
<1> DEFINE entry == [v.batch[b] EXCEPT !.coa = d]
<1>1. v.batch[b] \in BatchRow
  BY DEF Lists
<1>2. entry \in BatchRow
  BY <1>1 DEF BatchRow
<1>3. [v EXCEPT !.batch[b].coa = d] = [v EXCEPT !.batch = [v.batch EXCEPT ![b] = entry]]
  OBVIOUS
<1> HIDE DEF entry
<1>4. LET u == [v EXCEPT !.batch = [v.batch EXCEPT ![b] = entry]] IN u \in Lists /\ ListStands(t, u)
  BY <1>2, ListBatch
<1> QED
  BY <1>3, <1>4

(* db.ts:900-951, App.tsx:1041-1060.                                       *)
LEMMA RegisterStepIsSound ==
  ASSUME FilesInv, NEW c \in calls, recordCoaDocument(c)
  PROVE  HandlerSound(c)
<1>1. /\ c.op = "submit" /\ c.step = "coaRegister" /\ c.step \in Filing
      /\ pressed' = pressed
  BY DEF recordCoaDocument, Statement, Filing
<1>2. /\ c.coa \in Coas /\ c.on \in Batches /\ KnownBatch(db, c.on) /\ ~Filed(db, c.coa)
      /\ c.coa \in db.stored
  BY <1>1, CallFacts, CallKinds DEF CallStands, Fresh, SubmitCalls
<1>3. db' = db \/ db' = RegisterCoa(db, c.on, c.coa)
  BY DEF recordCoaDocument, Statement
<1>4. Writes(db, db')
  BY <1>2, <1>3 DEF Writes, WritesDocument
<1>5. Grows(db, db')
  BY <1>4, WritesGrow
<1>6. News(c)
  <2>1. CASE db' = db
    BY <2>1 DEF News
  <2>2. CASE db' = RegisterCoa(db, c.on, c.coa)
    <3>1. db'.farm = db.farm /\ \A d \in Coas : d # c.coa => db'.register[d] = db.register[d]
      BY <2>2, CallFacts DEF RegisterCoa, Tables
    <3> QED
      BY <1>1, <3>1 DEF News, KnownFarm, Filed
  <2> QED
    BY <1>3, <2>1, <2>2
<1>7. CoaFails(c) => HandlerSound(c)
  BY <1>1, <1>4, <1>6, CoaFailsSoundly
<1>8. CASE /\ db' = RegisterCoa(db, c.on, c.coa)
           /\ Show(c, <<"coa", c.coa>>, [view[Farmer] EXCEPT !.batch[c.on].coa = c.coa])
           /\ IF c.todo # {} THEN Becomes(c, [c EXCEPT !.step = "photoStore"]) ELSE Ended(c)
  <2> DEFINE v == view[Farmer]
             d == [c EXCEPT !.step = "photoStore"]
  <2>1. v \in Lists /\ ListStands(db', v)
    BY <1>5, CallFacts, ListGoesOn
  <2>2. KnownBatch(db', c.on) /\ c.coa \in db'.stored
    BY <1>2, <1>5 DEF Grows
  <2>3. LET u == [v EXCEPT !.batch[c.on].coa = c.coa] IN u \in Lists /\ ListStands(db', u)
    BY <1>2, <2>1, <2>2, ListCoa
  <2>4. Filed(db', c.coa)
    BY <1>2, <1>8, CallFacts DEF RegisterCoa, Filed, Tables
  <2>5. ClaimStands(db', <<"coa", c.coa>>)
    BY <1>2, <2>2, <2>4 DEF ClaimStands
  <2>6. CallsGoOn(c)
    <3>1. CASE c.todo # {}
      <4>1. /\ d \in SubmitCalls /\ d.on = c.on /\ d.coa = c.coa /\ d.row = c.row
            /\ d.step = "photoStore" /\ d.got = c.got /\ d.todo = c.todo
        BY <1>1, <1>5, SubmitFacts DEF SubmitCalls
      <4>2. calls' = (calls \ {c}) \cup {d}
        BY <1>8, <3>1 DEF Becomes
      <4> HIDE DEF d
      <4>3. NextCall(c, d)
        BY <1>1, <1>5, <3>1, <4>1, SubmitFacts, SubmitGoesOn DEF Filing, Showing
      <4>4. d \in Calls
        BY <4>3 DEF NextCall
      <4> QED
        BY <4>2, <4>3, <4>4 DEF CallsGoOn
    <3>2. CASE c.todo = {}
      BY <1>1, <1>5, <1>8, <3>2, SubmitFacts, EndedGoesOn
    <3> QED
      BY <3>1, <3>2
  <2>7. Show(c, <<"coa", c.coa>>, [v EXCEPT !.batch[c.on].coa = c.coa])
    BY <1>8
  <2> HIDE DEF v
  <2> QED
    BY <1>1, <1>4, <1>6, <2>3, <2>5, <2>6, <2>7, Tells
<1> QED
  BY <1>7, <1>8 DEF recordCoaDocument, Statement

(* App.tsx:1093-1152.  A photograph that was kept is told with the others  *)
(* when all were tried.                                                    *)
LEMMA NextPhotoIsSound ==
  ASSUME FilesInv, NEW c \in calls, c.op = "submit", c.step \in Showing,
         Writes(db, db'), News(c), NEW p \in Photos, NEW stays \in BOOLEAN, NextPhoto(c, p, stays),
         stays => p \in db'.photos[c.on] /\ p \in db'.stored, pressed' = pressed
  PROVE  HandlerSound(c)
<1> DEFINE got == IF stays THEN c.got \cup {p} ELSE c.got
           missed == IF stays THEN c.missed ELSE c.missed \cup {"photo"}
           d == [c EXCEPT !.todo = @ \ {p}, !.step = "photoStore",
                          !.got = IF stays THEN @ \cup {p} ELSE @,
                          !.missed = IF stays THEN @ ELSE @ \cup {"photo"}]
<1>1. Grows(db, db')
  BY WritesGrow
<1>2. /\ c \in SubmitCalls /\ c.on \in Batches /\ c.got \subseteq db'.photos[c.on]
      /\ c.got \subseteq db'.stored /\ c.missed \subseteq Missed /\ c.got \subseteq Photos
      /\ c.id \in Nat /\ c.who \in Sessions /\ KnownBatch(db', c.on)
  BY <1>1, SubmitFacts DEF SubmitCalls, Showing
<1>3. /\ got \subseteq db'.photos[c.on] /\ got \subseteq db'.stored /\ got \subseteq Photos
      /\ missed \in SUBSET Missed
  BY <1>2 DEF Missed
<1>4. /\ d \in SubmitCalls /\ d.on = c.on /\ d.coa = c.coa /\ d.row = c.row
      /\ d.step = "photoStore" /\ d.got = got /\ d.missed = missed
  BY <1>2, <1>3 DEF SubmitCalls
<1>5. /\ view' = view
      /\ IF d.todo # {} THEN calls' = (calls \ {c}) \cup {d} /\ told' = told
         ELSE /\ calls' = (calls \ {c}) \cup
                    {[id |-> c.id, who |-> c.who, op |-> "submitted", step |-> "over",
                      missed |-> d.missed]}
              /\ told' = told \cup {<<"photo", c.on, q>> : q \in d.got}
  BY DEF NextPhoto, Becomes
<1> HIDE DEF d, got, missed
<1>6. CASE d.todo # {}
  <2>1. NextCall(c, d)
    BY <1>1, <1>2, <1>3, <1>4, <1>6, SubmitFacts, SubmitGoesOn DEF Filing, Showing
  <2> QED
    BY <1>5, <1>6, <2>1, GoesTo
<1>7. CASE d.todo = {}
  <2>1. CallsGoOn(c)
    BY <1>2, <1>3, <1>4, <1>5, <1>7, OverGoesOn
  <2>2. \A claim \in told' : claim \in told \/ ClaimStands(db', claim)
    <3> SUFFICES ASSUME NEW q \in got PROVE ClaimStands(db', <<"photo", c.on, q>>)
      BY <1>4, <1>5, <1>7
    <3>1. q \in Photos /\ q \in db'.photos[c.on] /\ q \in db'.stored
      BY <1>3
    <3> QED
      BY <1>2, <3>1 DEF ClaimStands
  <2> QED
    BY <1>5, <2>1, <2>2 DEF HandlerSound, FilesInv, FilesTypeOK
<1> QED
  BY <1>6, <1>7

(* db.ts:1222-1290.                                                        *)
LEMMA PhotoStepsAreSound ==
  ASSUME FilesInv, NEW c \in calls, uploadBatchPhoto(c) \/ recordBatchPhoto(c)
  PROVE  HandlerSound(c)
<1> DEFINE p == FirstPhoto(c)
<1>1. c.op = "submit" /\ c.step \in Showing /\ c.step # "upsert" /\ pressed' = pressed
  BY DEF uploadBatchPhoto, recordBatchPhoto, Statement, Showing
<1>2. /\ p = First(c.todo) /\ p \in Photos /\ c.todo # {} /\ c.on \in Batches
      /\ c.step = "photoRecord" => p \in db.stored
  <2>1. c.todo # {} /\ c.todo \subseteq Photos /\ c.on \in Batches
        /\ (c.step = "photoRecord" => First(c.todo) \in db.stored)
    BY <1>1, CallFacts, CallKinds DEF CallStands, SubmitCalls, Showing
  <2> QED
    BY <2>1 DEF FirstPhoto, First
<1> HIDE DEF p
<1>3. CASE uploadBatchPhoto(c)
  <2>1. /\ db' = db \/ db' = StoreFile(db, p)
        /\ (db' = StoreFile(db, p) /\ Goto(c, "photoRecord")) \/ NextPhoto(c, p, FALSE)
    BY <1>3 DEF uploadBatchPhoto, Statement, p
  <2>2. db' = db \/ WritesFile(db, db')
    BY <1>2, <2>1 DEF WritesFile
  <2>3. Writes(db, db') /\ News(c)
    BY <2>2, PlainWrites
  <2>4. ASSUME db' = StoreFile(db, p), Goto(c, "photoRecord") PROVE HandlerSound(c)
    <3>1. p \in db'.stored
      BY <2>4, CallFacts DEF StoreFile, Tables
    <3> QED
      BY <1>1, <1>2, <2>3, <2>4, <3>1, SubmitSteps DEF Filing, Showing
  <2>5. NextPhoto(c, p, FALSE) => HandlerSound(c)
    BY <1>1, <1>2, <2>3, NextPhotoIsSound
  <2> QED
    BY <2>1, <2>4, <2>5
<1>4. CASE recordBatchPhoto(c)
  <2>1. /\ db' = db \/ db' = RecordPhoto(db, c.on, p)
        /\ (db' = RecordPhoto(db, c.on, p) /\ NextPhoto(c, p, TRUE)) \/ NextPhoto(c, p, FALSE)
    BY <1>4 DEF recordBatchPhoto, Statement, p
  <2>2. db' = db \/ WritesFile(db, db')
    BY <1>2, <2>1 DEF WritesFile
  <2>3. Writes(db, db') /\ News(c) /\ Grows(db, db')
    BY <2>2, PlainWrites
  <2>4. ASSUME db' = RecordPhoto(db, c.on, p), NextPhoto(c, p, TRUE) PROVE HandlerSound(c)
    <3>1. p \in db'.photos[c.on]
      BY <1>2, <2>4, CallFacts DEF RecordPhoto, Tables
    <3>2. p \in db'.stored
      <4>1. c.step = "photoRecord"
        BY <1>4 DEF recordBatchPhoto
      <4> QED
        BY <1>2, <2>3, <4>1 DEF Grows
    <3> QED
      BY <1>1, <1>2, <2>3, <2>4, <3>1, <3>2, NextPhotoIsSound
  <2>5. NextPhoto(c, p, FALSE) => HandlerSound(c)
    BY <1>1, <1>2, <2>3, NextPhotoIsSound
  <2> QED
    BY <2>1, <2>4, <2>5
<1> QED
  BY <1>3, <1>4

(* handleCoaUpload of My Stock (App.tsx:1159-1178).  The page has an       *)
(* alert of its own: a failure leaves nothing told.                        *)
LEMMA CoaUploadIsSound ==
  ASSUME FilesInv, NEW c \in calls, CoaUploadStore(c) \/ CoaUploadPatch(c)
  PROVE  HandlerSound(c)
<1>1. c.op = "coa" /\ pressed' = pressed
  BY DEF CoaUploadStore, CoaUploadPatch, Statement
<1>2. c \in CoaCalls /\ c.on \in Batches /\ c.coa \in Coas /\ KnownBatch(db, c.on)
  BY <1>1, CallFacts, CallKinds DEF CoaCalls, CallStands
<1>3. db' = db \/ WritesBatch(db, db') \/ WritesFile(db, db')
  <2>1. CASE CoaUploadStore(c)
    BY <1>2, <2>1 DEF CoaUploadStore, Statement, WritesFile
  <2>2. CASE CoaUploadPatch(c)
    BY <1>2, <2>2 DEF CoaUploadPatch, Statement, WritesBatch
  <2> QED
    BY <2>1, <2>2
<1>4. Writes(db, db') /\ News(c) /\ Grows(db, db')
  BY <1>3, PlainWrites
<1>5. KnownBatch(db', c.on)
  BY <1>2, <1>4 DEF Grows
<1>6. CASE Forget(c)
  BY <1>1, <1>4, <1>6, GivesUp DEF Forget
<1>7. CASE Goto(c, "patch")
  <2> DEFINE d == [c EXCEPT !.step = "patch"]
  <2>1. d \in CoaCalls /\ d.op = "coa" /\ d.on = c.on
    BY <1>2 DEF CoaCalls
  <2>2. calls' = (calls \ {c}) \cup {d} /\ UNCHANGED <<view, told>>
    BY <1>7 DEF Goto, Becomes
  <2> HIDE DEF d
  <2>3. NextCall(c, d)
    BY <1>5, <2>1 DEF NextCall, Calls, CallStands, Fresh, Follows
  <2> QED
    BY <1>1, <1>4, <2>2, <2>3, GoesTo
<1>8. CASE Commit(c, <<"batch", c.on>>, [view[Farmer] EXCEPT !.batch[c.on].coa = c.coa])
  <2> DEFINE v == view[Farmer]
  <2>1. v \in Lists /\ ListStands(db', v)
    BY <1>4, CallFacts, ListGoesOn
  <2>2. CallsGoOn(c) /\ Show(c, <<"batch", c.on>>, [v EXCEPT !.batch[c.on].coa = c.coa])
    BY <1>8 DEF Commit, CallsGoOn
  <2> HIDE DEF v
  <2>3. LET u == [v EXCEPT !.batch[c.on].coa = c.coa] IN u \in Lists /\ ListStands(db', u)
    BY <1>2, <1>5, <2>1, ListCoa
  <2>4. ClaimStands(db', <<"batch", c.on>>)
    BY <1>2, <1>5 DEF ClaimStands
  <2> QED
    BY <1>1, <1>4, <2>2, <2>3, <2>4, Tells
<1> QED
  BY <1>6, <1>7, <1>8 DEF CoaUploadStore, CoaUploadPatch, Statement

(* A farm's handler that goes on to its next write.                        *)
LEMMA FarmGoesOn ==
  ASSUME FilesInv, NEW c \in calls, c.op = "farm", Writes(db, db'), News(c),
         NEW step \in {"owner", "profile"}, Goto(c, step), pressed' = pressed,
         KnownFarm(db', c.on), step = "profile" => db'.farm[c.on].owner
  PROVE  HandlerSound(c)
<1> DEFINE d == [c EXCEPT !.step = step]
<1>1. c \in FarmCalls
  BY CallFacts, CallKinds
<1>2. d \in FarmCalls /\ d.op = "farm" /\ d.on = c.on /\ d.step = step
  BY <1>1 DEF FarmCalls
<1>3. calls' = (calls \ {c}) \cup {d} /\ UNCHANGED <<view, told>>
  BY DEF Goto, Becomes
<1> HIDE DEF d
<1>4. NextCall(c, d)
  BY <1>2 DEF NextCall, Calls, CallStands, Fresh, Follows
<1> QED
  BY <1>3, <1>4, GoesTo

(* createFarmProfile (db.ts:222-457, App.tsx:1393-1418).  The farm is listed when its owner and  *)
(* its profile are on file.                                                *)
LEMMA FarmHandlersAreSound ==
  ASSUME FilesInv, NEW c \in calls, FarmInsert(c) \/ FarmOwner(c) \/ FarmProfile(c)
  PROVE  HandlerSound(c)
<1>1. c.op = "farm" /\ pressed' = pressed
  BY DEF FarmInsert, FarmOwner, FarmProfile, Statement
<1>2. /\ c \in FarmCalls /\ c.on \in Farms
      /\ c.step # "farm" => KnownFarm(db, c.on)
      /\ c.step = "profile" => db.farm[c.on].owner
      /\ c.step = "farm" => ~KnownFarm(db, c.on)
  BY <1>1, CallFacts, CallKinds DEF FarmCalls, CallStands, Fresh
<1>3. /\ db \in Tables /\ db.farm \in [Farms -> FarmRow] /\ db.farm[c.on] \in FarmRow
  BY <1>2, CallFacts DEF Tables
<1>4. \/ db' = db
      \/ c.step = "farm" /\ db' = InsertFarm(db, c.on)
      \/ c.step = "owner" /\ db' = AddOwner(db, c.on)
      \/ c.step = "profile" /\ db' = WriteProfile(db, c.on)
  BY DEF FarmInsert, FarmOwner, FarmProfile, Statement
<1>5. Writes(db, db')
  BY <1>2, <1>4 DEF Writes, WritesFarm
<1>6. Grows(db, db')
  BY <1>5, WritesGrow
<1>7. /\ \A f \in Farms : f # c.on => db'.farm[f] = db.farm[f]
      /\ db'.register = db.register
  BY <1>3, <1>4 DEF InsertFarm, AddOwner, WriteProfile, Tables
<1>8. News(c)
  BY <1>1, <1>7 DEF News, KnownFarm, Filed
<1>9. CASE Fail(c)
  BY <1>1, <1>5, <1>8, <1>9, GivesUp DEF Fail
<1>10. CASE c.step = "farm" /\ db' = InsertFarm(db, c.on) /\ Goto(c, "owner")
  <2>1. KnownFarm(db', c.on)
    BY <1>2, <1>3, <1>10 DEF InsertFarm, NoFarm, KnownFarm, Tables
  <2> QED
    BY <1>1, <1>5, <1>8, <1>10, <2>1, FarmGoesOn
<1>11. CASE c.step = "owner" /\ db' = AddOwner(db, c.on) /\ Goto(c, "profile")
  <2>1. db'.farm[c.on].owner
    BY <1>2, <1>3, <1>11 DEF AddOwner, FarmRow, Tables
  <2>2. KnownFarm(db', c.on)
    BY <1>2, <1>6, <1>11 DEF Grows
  <2> QED
    BY <1>1, <1>5, <1>8, <1>11, <2>1, <2>2, FarmGoesOn
<1>12. CASE /\ c.step = "profile" /\ db' = WriteProfile(db, c.on)
            /\ Commit(c, <<"farm", c.on>>, InsertFarm(view[Farmer], c.on))
  <2> DEFINE v == view[Farmer]
             entry == [NoFarm EXCEPT !.status = "Submitted to DDP"]
  <2>1. KnownFarm(db', c.on) /\ db'.farm[c.on].owner
    BY <1>2, <1>6, <1>12 DEF Grows
  <2>2. db'.farm[c.on].profile
    BY <1>2, <1>3, <1>12 DEF WriteProfile, FarmRow, Tables
  <2>3. ClaimStands(db', <<"farm", c.on>>)
    BY <1>2, <2>1, <2>2 DEF ClaimStands
  <2>4. v \in Lists /\ ListStands(db', v)
    BY <1>6, CallFacts, ListGoesOn
  <2>5. entry \in FarmRow
    BY DEF NoFarm, FarmRow, FarmStatuses
  <2>6. InsertFarm(v, c.on) = [v EXCEPT !.farm = [v.farm EXCEPT ![c.on] = entry]]
    BY DEF InsertFarm
  <2>7. CallsGoOn(c) /\ Show(c, <<"farm", c.on>>, InsertFarm(v, c.on))
    BY <1>12 DEF Commit, CallsGoOn
  <2> HIDE DEF v, entry
  <2>8. LET u == [v EXCEPT !.farm = [v.farm EXCEPT ![c.on] = entry]]
        IN  u \in Lists /\ ListStands(db', u)
    BY <1>2, <2>1, <2>4, <2>5, ListFarm
  <2>9. InsertFarm(v, c.on) \in Lists /\ ListStands(db', InsertFarm(v, c.on))
    BY <2>6, <2>8
  <2> QED
    BY <1>1, <1>5, <1>8, <2>3, <2>7, <2>9, Tells
<1> QED
  BY <1>9, <1>10, <1>11, <1>12 DEF FarmInsert, FarmOwner, FarmProfile, Statement

LEMMA HandlersAreSound ==
  ASSUME FilesInv, NEW c \in calls, Handler(c)
  PROVE  HandlerSound(c)
BY StatusHandlersAreSound, VisibleIsSound, RequestHandlersAreSound, ResolveIsSound, UpsertIsSound,
   FilingStepsAreSound, RegisterStepIsSound, PhotoStepsAreSound, CoaUploadIsSound,
   FarmHandlersAreSound DEF Handler
-----------------------------------------------------------------------------
(* Every step keeps the invariant.                                         *)

LEMMA CallsStayFresh ==
  ASSUME NEW t, NEW u, NoNews(t, u), NEW c \in Calls, Fresh(t, c)
  PROVE  Fresh(u, c)
<1>1. CASE c.op = "farm"
  BY <1>1, CallKinds DEF NoNews, Fresh, FarmCalls
<1>2. CASE c.op = "submit"
  <2>1. c.coa \in Coas \cup {None}
    BY <1>2, CallKinds DEF SubmitCalls
  <2> QED
    BY <1>2, <2>1 DEF NoNews, Fresh
<1>3. CASE c.op \notin {"farm", "submit"}
  BY <1>3 DEF Fresh
<1> QED
  BY <1>1, <1>2, <1>3

(* What one handler makes is not what another is about to make.            *)
LEMMA OthersStayFresh ==
  ASSUME FilesInv, NEW c \in calls, News(c), NEW d \in calls \ {c}
  PROVE  Fresh(db', d)
<1>1. d \in Calls /\ Fresh(db, d) /\ c # d
  BY CallFacts
<1>2. CASE d.op = "farm"
  <2>1. d.on \in Farms
    BY <1>1, <1>2, CallKinds DEF FarmCalls
  <2>2. c.op = "farm" => c.on # d.on
    BY <1>1, <1>2 DEF FilesInv, Apart
  <2> QED
    BY <1>1, <1>2, <2>1, <2>2 DEF Fresh, News
<1>3. CASE d.op = "submit"
  <2>1. d.coa \in Coas \cup {None}
    BY <1>1, <1>3, CallKinds DEF SubmitCalls
  <2>2. c.op = "submit" /\ d.coa # None => c.coa # d.coa
    BY <1>1, <1>3 DEF FilesInv, Apart
  <2> QED
    BY <1>1, <1>3, <2>1, <2>2 DEF Fresh, News
<1>4. CASE d.op \notin {"farm", "submit"}
  BY <1>4 DEF Fresh
<1> QED
  BY <1>2, <1>3, <1>4

LEMMA EvidenceGoesOn ==
  ASSUME NEW t, NEW u, Grows(t, u), NEW D \in [Admins -> Desks], NEW A, A \subseteq Acts,
         \A a \in Admins : DeskStands(t, D[a]), \A c \in A : ActStands(t, c)
  PROVE  (\A a \in Admins : DeskStands(u, D[a])) /\ (\A c \in A : ActStands(u, c))
<1>1. \A d \in Coas : Filed(t, d) => Filed(u, d)
  BY DEF Grows
<1>2. \A c \in A : c.doc \in Coas
  BY DEF Acts, OpenActs, DecideActs
<1> QED
  BY <1>1, <1>2 DEF DeskStands, ActStands

LEMMA HandlerKeeps ==
  ASSUME FilesInv, NEW c \in calls, HandlerSound(c), UNCHANGED evidenceVars
  PROVE  FilesInv'
<1>1. /\ Writes(db, db') /\ News(c) /\ CallsGoOn(c)
      /\ view' \in [Sessions -> Lists]
      /\ \A w \in Sessions : view'[w] = view[w] \/ ListStands(db', view'[w])
      /\ \A claim \in told' : claim \in told \/ ClaimStands(db', claim)
      /\ pressed' = pressed /\ desk' = desk /\ acts' = acts
  BY DEF HandlerSound, evidenceVars
<1>2. Sound(db, db') /\ Grows(db, db') /\ TablesStand(db') /\ db' \in Tables
  BY <1>1, WritesAreSound DEF FilesInv, Sound, TablesStand
<1>3. \A d \in calls \ {c} : d \in Calls /\ CallStands(db', d) /\ Fresh(db', d)
  BY <1>1, <1>2, CallFacts, CallGoesOn, OthersStayFresh
<1>4. /\ calls' \subseteq Calls
      /\ \A d \in calls' : CallStands(db', d) /\ Fresh(db', d)
      /\ Apart(calls')
  <2>1. CASE calls' \subseteq calls \ {c}
    BY <1>3, <2>1 DEF Apart, FilesInv
  <2>2. ASSUME NEW n \in Calls, calls' \subseteq (calls \ {c}) \cup {n}, NextCall(c, n)
        PROVE  /\ calls' \subseteq Calls
               /\ \A d \in calls' : CallStands(db', d) /\ Fresh(db', d)
               /\ Apart(calls')
    <3>1. CallStands(db', n) /\ Fresh(db', n) /\ Follows(c, n)
      BY <2>2 DEF NextCall
    <3>2. Apart(calls')
      <4>1. Apart(calls)
        BY DEF FilesInv
      <4>2. \A d \in calls \ {c} : /\ ~(d.op = "farm" /\ n.op = "farm" /\ d.on = n.on)
                                   /\ ~(d.op = "submit" /\ n.op = "submit" /\ d.coa = n.coa /\ d.coa # None)
        BY <3>1, <4>1 DEF Apart, Follows
      <4> QED
        BY <2>2, <4>1, <4>2 DEF Apart
    <3> QED
      BY <1>3, <2>2, <3>1, <3>2
  <2> QED
    BY <1>1, <2>1, <2>2 DEF CallsGoOn
<1>5. \A w \in Sessions : ListStands(db', view'[w])
  BY <1>1, <1>2, ListGoesOn DEF FilesInv
<1>6. \A claim \in told' : ClaimStands(db', claim)
  BY <1>1, <1>2, ClaimGoesOn DEF FilesInv
<1>7. /\ \A a \in Admins : DeskStands(db', desk'[a])
      /\ \A x \in acts' : ActStands(db', x)
  BY <1>1, <1>2, EvidenceGoesOn DEF FilesInv, FilesTypeOK
<1>8. FilesTypeOK'
  BY <1>1, <1>2, <1>4 DEF FilesTypeOK, FilesInv
<1> QED
  BY <1>2, <1>4, <1>5, <1>6, <1>7, <1>8 DEF FilesInv

(* A button: the call it starts rests on what its screen shows, and makes  *)
(* nothing that another call is about to make.                             *)
LEMMA PressKeeps ==
  ASSUME FilesInv, NEW w, NEW c \in Calls, CallStands(db, c), Fresh(db, c),
         \A d \in calls : ~(c.op = "farm" /\ d.op = "farm" /\ c.on = d.on),
         \A d \in calls : ~(c.op = "submit" /\ d.op = "submit" /\ c.coa = d.coa /\ c.coa # None),
         Press(w, c), UNCHANGED evidenceVars
  PROVE  FilesInv'
<1>1. /\ calls' \subseteq calls \cup {c} /\ pressed' = pressed + 1
      /\ db' = db /\ view' = view /\ told' = told /\ desk' = desk /\ acts' = acts
  BY DEF Press, evidenceVars
<1>2. \A d \in calls' : d \in Calls /\ CallStands(db, d) /\ Fresh(db, d)
  BY <1>1 DEF FilesInv, FilesTypeOK
<1>3. Apart(calls')
  <2>1. Apart(calls)
    BY DEF FilesInv
  <2> QED
    BY <1>1, <2>1 DEF Apart
<1>4. FilesTypeOK'
  BY <1>1, <1>2 DEF FilesTypeOK, FilesInv
<1> QED
  BY <1>1, <1>2, <1>3, <1>4 DEF FilesInv

LEMMA ScreenFacts ==
  ASSUME FilesInv, NEW w \in Sessions
  PROVE  /\ view[w] \in Lists /\ pressed \in Nat
         /\ \A b \in Batches : view[w].batch[b] # NoBatch => KnownBatch(db, b)
         /\ \A f \in Farms : view[w].farm[f].status # "none" => KnownFarm(db, f)
         /\ \A x \in Subjects : StatusOf(view[w], x) # "none" => Known(db, x)
<1>1. view[w] \in Lists /\ pressed \in Nat /\ ListStands(db, view[w])
  BY DEF FilesInv, FilesTypeOK
<1>2. \A x \in Subjects : StatusOf(view[w], x) # "none" => Known(db, x)
  <2> SUFFICES ASSUME NEW x \in Subjects, StatusOf(view[w], x) # "none" PROVE Known(db, x)
    OBVIOUS
  <2>1. CASE x \in Batches
    <3>1. view[w].batch[x] # NoBatch
      BY <2>1 DEF StatusOf, NoBatch
    <3> QED
      BY <1>1, <2>1, <3>1 DEF ListStands, Known, KnownBatch, StatusOf
  <2>2. CASE x \notin Batches
    <3>1. x \in Farms /\ view[w].farm[x].status # "none"
      BY <2>2 DEF StatusOf, Subjects
    <3> QED
      BY <1>1, <2>2, <3>1 DEF ListStands, Known, KnownFarm, StatusOf
  <2> QED
    BY <2>1, <2>2
<1> QED
  BY <1>1, <1>2 DEF ListStands

(* handleInventoryAction, handleMarkClientVisible, handleSendReviewRequest *)
(* and the chasing of the operations desk (App.tsx:1261-1371, 1420-1485).  *)
LEMMA AdminPressesKeep ==
  ASSUME FilesInv, NEW a \in Admins, AdminPresses(a), UNCHANGED evidenceVars
  PROVE  FilesInv'
<1>1. /\ a \in Sessions /\ view[a] \in Lists /\ pressed \in Nat
      /\ \A x \in Subjects : StatusOf(view[a], x) # "none" => Known(db, x)
  BY ScreenFacts DEF Sessions
<1>2. CASE PressStatus(a)
  <2>1. PICK x \in Subjects : \E to \in Verdicts(x) :
          /\ StatusOf(view[a], x) # "none"
          /\ Press(a, [id |-> pressed, who |-> a, op |-> "status", step |-> "call", on |-> x,
                       from |-> StatusOf(view[a], x), to |-> to])
    BY <1>2 DEF PressStatus, Subjects, Verdicts
  <2>2. PICK to \in Verdicts(x) :
          /\ StatusOf(view[a], x) # "none"
          /\ Press(a, [id |-> pressed, who |-> a, op |-> "status", step |-> "call", on |-> x,
                       from |-> StatusOf(view[a], x), to |-> to])
    BY <2>1
  <2> DEFINE c == [id |-> pressed, who |-> a, op |-> "status", step |-> "call", on |-> x,
                   from |-> StatusOf(view[a], x), to |-> to]
  <2>3. StatusOf(view[a], x) \in Status
    BY <1>1 DEF StatusOf, Lists, Subjects, BatchRow, FarmRow, Status
  <2>4. to \in Status
    BY VerdictsAreStatuses
  <2>5. c \in StatusCalls /\ c.op = "status" /\ c.step = "call" /\ c.on = x /\ c.to = to
    BY <1>1, <2>3, <2>4 DEF StatusCalls
  <2>6. Press(a, c)
    BY <2>2
  <2> HIDE DEF c
  <2>7. CallStands(db, c) /\ Fresh(db, c) /\ c \in Calls
    BY <1>1, <2>2, <2>5 DEF CallStands, Fresh, Calls
  <2> QED
    BY <2>5, <2>6, <2>7, PressKeeps
<1>3. CASE PressVisible(a)
  <2>1. PICK b \in Batches :
          /\ view[a].batch[b].status # "none"
          /\ Press(a, [id |-> pressed, who |-> a, op |-> "visible", step |-> "patch", on |-> b,
                       to |-> ~view[a].batch[b].visible])
    BY <1>3 DEF PressVisible
  <2> DEFINE c == [id |-> pressed, who |-> a, op |-> "visible", step |-> "patch", on |-> b,
                   to |-> ~view[a].batch[b].visible]
  <2>2. c \in VisibleCalls /\ c.op = "visible" /\ c.on = b
    BY <1>1 DEF VisibleCalls
  <2>3. KnownBatch(db, b)
    BY <1>1, <2>1 DEF StatusOf, Subjects, Known, KnownBatch
  <2>4. Press(a, c)
    BY <2>1
  <2> HIDE DEF c
  <2>5. CallStands(db, c) /\ Fresh(db, c) /\ c \in Calls
    BY <2>2, <2>3 DEF CallStands, Fresh, Calls
  <2> QED
    BY <2>2, <2>4, <2>5, PressKeeps
<1>4. ASSUME NEW S, S \subseteq Subjects, S # {}, \A x \in S : Known(db, x),
             Press(a, [id |-> pressed, who |-> a, op |-> "request", step |-> "insert", todo |-> S])
      PROVE  FilesInv'
  <2> DEFINE c == [id |-> pressed, who |-> a, op |-> "request", step |-> "insert", todo |-> S]
  <2>1. c \in RequestCalls /\ c.op = "request" /\ c.step = "insert" /\ c.todo = S
    BY <1>1, <1>4 DEF RequestCalls
  <2>2. Press(a, c)
    BY <1>4
  <2> HIDE DEF c
  <2>3. CallStands(db, c) /\ Fresh(db, c) /\ c \in Calls
    BY <1>4, <2>1 DEF CallStands, Fresh, Calls
  <2> QED
    BY <2>1, <2>2, <2>3, PressKeeps
<1>5. CASE PressRequest(a)
  <2>1. PICK b \in Batches :
          /\ view[a].batch[b].status # "none"
          /\ Press(a, [id |-> pressed, who |-> a, op |-> "request", step |-> "insert",
                       todo |-> {b}])
    BY <1>5 DEF PressRequest
  <2>2. Known(db, b)
    BY <1>1, <2>1 DEF StatusOf, Subjects
  <2> QED
    BY <1>4, <2>1, <2>2 DEF Subjects
<1>6. CASE PressChase(a)
  <2>1. PICK fs \in SUBSET {f \in Farms : view[a].farm[f].status # "none"} :
          /\ fs # {}
          /\ Press(a, [id |-> pressed, who |-> a, op |-> "request", step |-> "insert",
                       todo |-> fs])
    BY <1>6 DEF PressChase
  <2>2. \A f \in fs : f \in Subjects /\ Known(db, f)
    BY <1>1, <2>1, TablesAssumption DEF StatusOf, Subjects
  <2> QED
    BY <1>4, <2>1, <2>2
<1> QED
  BY <1>2, <1>3, <1>5, <1>6 DEF AdminPresses

(* handleInventorySubmit, handleCoaUpload, handleResolveRequest,           *)
(* handleFarmSubmit (App.tsx:994-1178, 1337-1350, 1393-1418).              *)
LEMMA FarmerPressesKeep ==
  ASSUME FilesInv, FarmerPresses, UNCHANGED evidenceVars
  PROVE  FilesInv'
<1>1. /\ Farmer \in Sessions /\ view[Farmer] \in Lists /\ pressed \in Nat
      /\ \A b \in Batches : view[Farmer].batch[b] # NoBatch => KnownBatch(db, b)
  BY ScreenFacts DEF Sessions
<1>2. FreshCoa \subseteq Coas \ InUse
  BY DEF FreshCoa
<1>3. CASE PressResolve
  <2>1. PICK r \in view[Farmer].open :
          Press(Farmer, [id |-> pressed, who |-> Farmer, op |-> "resolve", step |-> "patch", on |-> r])
    BY <1>3 DEF PressResolve
  <2> DEFINE c == [id |-> pressed, who |-> Farmer, op |-> "resolve", step |-> "patch", on |-> r]
  <2>2. c \in ResolveCalls /\ c.op = "resolve"
    BY <1>1 DEF ResolveCalls, Lists
  <2>3. Press(Farmer, c)
    BY <2>1
  <2> HIDE DEF c
  <2>4. CallStands(db, c) /\ Fresh(db, c) /\ c \in Calls
    BY <2>2 DEF CallStands, Fresh, Calls
  <2> QED
    BY <2>2, <2>3, <2>4, PressKeeps
<1>4. CASE PressCoaUpload
  <2>1. PICK b \in Batches, d \in FreshCoa :
          /\ view[Farmer].batch[b] # NoBatch
          /\ Press(Farmer, [id |-> pressed, who |-> Farmer, op |-> "coa", step |-> "store",
                            on |-> b, coa |-> d])
    BY <1>4 DEF PressCoaUpload
  <2> DEFINE c == [id |-> pressed, who |-> Farmer, op |-> "coa", step |-> "store",
                   on |-> b, coa |-> d]
  <2>2. c \in CoaCalls /\ c.op = "coa" /\ c.on = b
    BY <1>1, <1>2 DEF CoaCalls
  <2>3. Press(Farmer, c)
    BY <2>1
  <2> HIDE DEF c
  <2>4. CallStands(db, c) /\ Fresh(db, c) /\ c \in Calls
    BY <1>1, <2>1, <2>2 DEF CallStands, Fresh, Calls
  <2> QED
    BY <2>2, <2>3, <2>4, PressKeeps
<1>5. CASE PressFarm
  <2>1. PICK f \in Farms \ TakenFarms :
          Press(Farmer, [id |-> pressed, who |-> Farmer, op |-> "farm", step |-> "farm", on |-> f])
    BY <1>5 DEF PressFarm
  <2> DEFINE c == [id |-> pressed, who |-> Farmer, op |-> "farm", step |-> "farm", on |-> f]
  <2>2. c \in FarmCalls /\ c.op = "farm" /\ c.on = f /\ c.step = "farm"
    BY <1>1 DEF FarmCalls
  <2>3. Press(Farmer, c)
    BY <2>1
  <2> HIDE DEF c
  <2>4. ~KnownFarm(db, f)
    BY <2>1 DEF TakenFarms, KnownFarm, NoFarm
  <2>5. \A d \in calls : ~(d.op = "farm" /\ c.on = d.on)
    BY <2>1, <2>2 DEF TakenFarms
  <2>6. CallStands(db, c) /\ Fresh(db, c) /\ c \in Calls
    BY <2>2, <2>4 DEF CallStands, Fresh, Calls
  <2> QED
    BY <2>2, <2>3, <2>5, <2>6, PressKeeps
<1>6. CASE PressSubmit
  <2>1. PICK b \in Batches, draft \in BOOLEAN : \E d \in FreshCoa \cup {None}, ps \in SUBSET Photos :
          Press(Farmer,
                 [id |-> pressed, who |-> Farmer, op |-> "submit", step |-> "upsert",
                  on |-> b, coa |-> d, todo |-> ps, got |-> {}, missed |-> {}, draft |-> draft,
                  row |-> [status |-> "Pending Review",
                           stock |-> IF draft THEN "draft" ELSE "submitted",
                           visible |-> view[Farmer].batch[b].visible,
                           coa |-> None, edit |-> pressed + 1]])
    BY <1>6 DEF PressSubmit
  <2> DEFINE row == [status |-> "Pending Review",
                     stock |-> IF draft THEN "draft" ELSE "submitted",
                     visible |-> view[Farmer].batch[b].visible,
                     coa |-> None, edit |-> pressed + 1]
  <2>2. PICK d \in FreshCoa \cup {None}, ps \in SUBSET Photos :
          Press(Farmer,
                 [id |-> pressed, who |-> Farmer, op |-> "submit", step |-> "upsert",
                  on |-> b, coa |-> d, todo |-> ps, got |-> {}, missed |-> {}, draft |-> draft,
                  row |-> row])
    BY <2>1
  <2>3. row \in BatchRow /\ row.status = "Pending Review"
    <3>1. view[Farmer].batch[b].visible \in BOOLEAN
      BY <1>1 DEF Lists, BatchRow
    <3> QED
      BY <1>1, <3>1 DEF BatchRow, Statuses, Stock, Editable
  <2> HIDE DEF row
  <2> DEFINE c == [id |-> pressed, who |-> Farmer, op |-> "submit", step |-> "upsert",
                   on |-> b, coa |-> d, todo |-> ps, got |-> {}, missed |-> {}, draft |-> draft,
                   row |-> row]
  <2>4. /\ c \in SubmitCalls /\ c.op = "submit" /\ c.step = "upsert" /\ c.coa = d /\ c.row = row
        /\ c.got = {}
    BY <1>1, <1>2, <2>3 DEF SubmitCalls
  <2>5. Press(Farmer, c)
    BY <2>2
  <2> HIDE DEF c
  <2>6. d # None => d \in Coas /\ ~Filed(db, d)
    BY <1>2, <2>2 DEF InUse, FilesInv, TablesStand, RowsStand
  <2>7. \A e \in calls : ~(e.op = "submit" /\ c.coa = e.coa /\ c.coa # None)
    BY <1>2, <2>2, <2>4 DEF InUse
  <2>8. CallStands(db, c) /\ Fresh(db, c) /\ c \in Calls
    BY <2>3, <2>4, <2>6 DEF CallStands, Fresh, Calls
  <2> QED
    BY <2>4, <2>5, <2>7, <2>8, PressKeeps
<1> QED
  BY <1>3, <1>4, <1>5, <1>6 DEF FarmerPresses

(* The lists that a load brings show what is on file.                      *)
LEMMA ListedStands ==
  ASSUME NEW t, TablesStand(t)
  PROVE  Listed(t) \in Lists /\ ListStands(t, Listed(t))
<1>1. t \in Tables /\ RowsStand(t)
  BY DEF TablesStand
<1>2. Listed(t) \in Lists
  BY <1>1 DEF Listed, Lists, Tables
<1>3. ListStands(t, Listed(t))
  BY <1>1 DEF Listed, ListStands, RowsStand, KnownFarm
<1> QED
  BY <1>2, <1>3

(* The page is loaded again: its handlers are gone, its lists are fresh    *)
(* (db.ts:737-819).                                                        *)
LEMMA ReloadKeeps ==
  ASSUME FilesInv, NEW w \in Sessions, Reload(w), UNCHANGED evidenceVars
  PROVE  FilesInv'
<1>1. /\ view' = [view EXCEPT ![w] = Listed(db)] /\ calls' \subseteq calls
      /\ db' = db /\ told' = told /\ pressed' = pressed /\ desk' = desk /\ acts' = acts
  BY DEF Reload, evidenceVars
<1>2. Listed(db) \in Lists /\ ListStands(db, Listed(db))
  BY ListedStands DEF FilesInv
<1>3. view' \in [Sessions -> Lists] /\ \A x \in Sessions : ListStands(db, view'[x])
  BY <1>1, <1>2 DEF FilesInv, FilesTypeOK
<1>4. Apart(calls')
  BY <1>1 DEF FilesInv, Apart
<1> QED
  BY <1>1, <1>3, <1>4 DEF FilesInv, FilesTypeOK

LEMMA DeskKeeps ==
  ASSUME FilesInv, DeskStep, UNCHANGED evidenceVars
  PROVE  FilesInv'
BY FarmerPressesKeep, AdminPressesKeep, HandlersAreSound, HandlerKeeps, ReloadKeeps DEF DeskStep
-----------------------------------------------------------------------------
(* The evidence screens.                                                   *)

LEMMA SelectedIsListed ==
  ASSUME NEW k \in Desks, Selected(k) # None
  PROVE  Selected(k) \in Coas /\ k.docs[Selected(k)] # "none"
<1>1. CASE k.sel \in ListedDocs(k)
  BY <1>1 DEF Selected, ListedDocs
<1>2. CASE k.sel \notin ListedDocs(k) /\ Queue(k) # {}
  <2>1. Selected(k) \in Queue(k)
    BY <1>2 DEF Selected
  <2> QED
    BY <2>1 DEF Queue
<1>3. CASE k.sel \notin ListedDocs(k) /\ Queue(k) = {} /\ ListedDocs(k) # {}
  <2>1. Selected(k) \in ListedDocs(k)
    BY <1>3 DEF Selected
  <2> QED
    BY <2>1 DEF ListedDocs
<1>4. CASE k.sel \notin ListedDocs(k) /\ Queue(k) = {} /\ ListedDocs(k) = {}
  BY <1>4 DEF Selected
<1> QED
  BY <1>1, <1>2, <1>3, <1>4

LEMMA EvidenceKeeps ==
  ASSUME FilesInv, Writes(db, db'), NoNews(db, db'), UNCHANGED deskVars, pressed' \in Nat,
         desk' \in [Admins -> Desks], acts' \subseteq Acts,
         \A a \in Admins : DeskStands(db', desk'[a]), \A c \in acts' : ActStands(db', c)
  PROVE  FilesInv'
<1>1. Grows(db, db') /\ TablesStand(db') /\ db' \in Tables
  BY WritesAreSound DEF FilesInv, Sound, TablesStand
<1>2. view' = view /\ calls' = calls /\ told' = told
  BY DEF deskVars
<1>3. \A w \in Sessions : ListStands(db', view[w])
  BY <1>1, ListGoesOn DEF FilesInv
<1>4. \A c \in calls : CallStands(db', c) /\ Fresh(db', c)
  BY <1>1, CallGoesOn, CallsStayFresh DEF FilesInv, FilesTypeOK
<1>5. \A claim \in told : ClaimStands(db', claim)
  BY <1>1, ClaimGoesOn DEF FilesInv
<1> QED
  BY <1>1, <1>2, <1>3, <1>4, <1>5 DEF FilesInv, FilesTypeOK

(* A step of one screen, or of one request, that writes nothing.           *)
LEMMA ScreenKeeps ==
  ASSUME FilesInv, db' = db, UNCHANGED deskVars, pressed' \in Nat,
         NEW a \in Admins, NEW k \in Desks, DeskStands(db, k), desk' = [desk EXCEPT ![a] = k],
         acts' \subseteq Acts, \A c \in acts' : ActStands(db, c)
  PROVE  FilesInv'
<1>1. Writes(db, db') /\ NoNews(db, db')
  BY DEF Writes, NoNews
<1>2. desk' \in [Admins -> Desks] /\ \A b \in Admins : DeskStands(db', desk'[b])
  BY DEF FilesInv, FilesTypeOK
<1> QED
  BY <1>1, <1>2, EvidenceKeeps

LEMMA EvidenceFacts ==
  ASSUME FilesInv
  PROVE  /\ \A a \in Admins : desk[a] \in Desks /\ DeskStands(db, desk[a])
         /\ \A c \in acts : c \in Acts /\ ActStands(db, c)
         /\ desk \in [Admins -> Desks] /\ db \in Tables /\ pressed \in Nat
BY DEF FilesInv, FilesTypeOK

(* What arrives is what the tables hold (DDPEvidenceReview.tsx:118-170).   *)
LEMMA LoadsKeep ==
  ASSUME FilesInv, NEW a \in Admins, LoadDocs(a) \/ LoadOpens(a) \/ Choose(a) \/ Reopen(a),
         UNCHANGED deskVars
  PROVE  FilesInv'
<1>1. /\ desk[a] \in Desks /\ DeskStands(db, desk[a]) /\ db \in Tables /\ pressed \in Nat
      /\ db' = db /\ pressed' = pressed /\ acts' \subseteq acts
  BY EvidenceFacts DEF LoadDocs, LoadOpens, Choose, Reopen
<1>2. acts' \subseteq Acts /\ \A c \in acts' : ActStands(db, c)
  BY <1>1, EvidenceFacts
<1>3. CASE LoadDocs(a)
  <2>1. PICK ok \in BOOLEAN :
          desk' = [desk EXCEPT ![a] = [desk[a] EXCEPT !.due = desk[a].due \ {"docs"},
                       !.docs = IF ok THEN [d \in Coas |-> db.register[d].status] ELSE NoDocs]]
    BY <1>3 DEF LoadDocs
  <2> DEFINE docs == IF ok THEN [d \in Coas |-> db.register[d].status] ELSE NoDocs
             k == [desk[a] EXCEPT !.due = desk[a].due \ {"docs"}, !.docs = docs]
  <2>2. /\ docs \in [Coas -> DocStatuses \cup {"none"}]
        /\ \A d \in Coas : docs[d] # "none" => Filed(db, d)
    BY <1>1 DEF Tables, DocRow, NoDocs, Filed
  <2> HIDE DEF docs
  <2>3. k \in Desks /\ k.docs = docs
    BY <1>1, <2>2 DEF Desks
  <2>4. desk' = [desk EXCEPT ![a] = k]
    BY <2>1 DEF docs
  <2> HIDE DEF k
  <2>5. DeskStands(db, k)
    BY <2>2, <2>3 DEF DeskStands
  <2> QED
    BY <1>1, <1>2, <2>3, <2>4, <2>5, ScreenKeeps
<1>4. CASE LoadOpens(a)
  <2>1. PICK ok \in BOOLEAN :
          desk' = [desk EXCEPT ![a] = [desk[a] EXCEPT !.due = desk[a].due \ {"opens"},
                       !.opened = IF ok THEN {o[1] : o \in db.opens} ELSE {}]]
    BY <1>4 DEF LoadOpens
  <2> DEFINE opened == IF ok THEN {o[1] : o \in db.opens} ELSE {}
             k == [desk[a] EXCEPT !.due = desk[a].due \ {"opens"}, !.opened = opened]
  <2>2. opened \subseteq Coas
    BY <1>1 DEF Tables
  <2> HIDE DEF opened
  <2>3. k \in Desks /\ k.docs = desk[a].docs
    BY <1>1, <2>2 DEF Desks
  <2>4. desk' = [desk EXCEPT ![a] = k]
    BY <2>1 DEF opened
  <2> HIDE DEF k
  <2>5. DeskStands(db, k)
    BY <1>1, <2>3 DEF DeskStands
  <2> QED
    BY <1>1, <1>2, <2>3, <2>4, <2>5, ScreenKeeps
<1>5. CASE Choose(a)
  <2>1. PICK d \in Queue(desk[a]) : desk' = [desk EXCEPT ![a] = [desk[a] EXCEPT !.sel = d]]
    BY <1>5 DEF Choose
  <2> DEFINE k == [desk[a] EXCEPT !.sel = d]
  <2>2. k \in Desks /\ k.docs = desk[a].docs
    BY <1>1 DEF Desks, Queue
  <2>3. desk' = [desk EXCEPT ![a] = k]
    BY <2>1
  <2> HIDE DEF k
  <2>4. DeskStands(db, k)
    BY <1>1, <2>2 DEF DeskStands
  <2> QED
    BY <1>1, <1>2, <2>2, <2>3, <2>4, ScreenKeeps
<1>6. CASE Reopen(a)
  <2>1. NoDesk \in Desks /\ DeskStands(db, NoDesk)
    BY DEF NoDesk, NoDocs, Desks, DeskStands
  <2>2. desk' = [desk EXCEPT ![a] = NoDesk]
    BY <1>6 DEF Reopen
  <2> QED
    BY <1>1, <1>2, <2>1, <2>2, ScreenKeeps
<1> QED
  BY <1>3, <1>4, <1>5, <1>6

(* An open, or a decision, on the document shown (DDPEvidenceReview.tsx:   *)
(* 354-417, 528-598).                                                      *)
LEMMA SendsKeep ==
  ASSUME FilesInv, NEW a \in Admins, OpenDocument(a) \/ PressDecide(a), UNCHANGED deskVars
  PROVE  FilesInv'
<1> DEFINE d == Selected(desk[a])
<1>1. desk[a] \in Desks /\ DeskStands(db, desk[a]) /\ pressed \in Nat
  BY EvidenceFacts
<1>2. d \in Coas /\ Filed(db, d)
  <2>1. d # None
    BY DEF OpenDocument, PressDecide, OnScreen
  <2> QED
    BY <1>1, <2>1, SelectedIsListed DEF DeskStands
<1> HIDE DEF d
<1>3. ASSUME NEW act \in Acts, act.doc = d, Send(act)
      PROVE  /\ db' = db /\ pressed' \in Nat /\ acts' \subseteq Acts
             /\ \A c \in acts' : ActStands(db, c)
  BY <1>1, <1>2, <1>3, EvidenceFacts DEF Send, ActStands
<1>4. CASE OpenDocument(a)
  <2> DEFINE act == [id |-> pressed, who |-> a, doc |-> d, op |-> "open", step |-> "record"]
  <2>1. act \in Acts /\ act.doc = d
    BY <1>1, <1>2 DEF Acts, OpenActs
  <2>2. Send(act) /\ desk' = desk
    BY <1>4 DEF OpenDocument, d
  <2> HIDE DEF act
  <2>3. desk' = [desk EXCEPT ![a] = desk[a]]
    BY <2>2, EvidenceFacts
  <2> QED
    BY <1>1, <1>3, <2>1, <2>2, <2>3, ScreenKeeps
<1>5. CASE PressDecide(a)
  <2>1. /\ desk' = [desk EXCEPT ![a] = [desk[a] EXCEPT !.busy = d]]
        /\ \E to \in DocStatuses : \E n \in Notes :
              Send([id |-> pressed, who |-> a, doc |-> d,
                    op |-> "decide", step |-> "status", to |-> to, note |-> n])
    BY <1>5 DEF PressDecide, d
  <2>2. PICK to \in DocStatuses : \E n \in Notes :
              Send([id |-> pressed, who |-> a, doc |-> d,
                    op |-> "decide", step |-> "status", to |-> to, note |-> n])
    BY <2>1
  <2>3. PICK n \in Notes :
              Send([id |-> pressed, who |-> a, doc |-> d,
                    op |-> "decide", step |-> "status", to |-> to, note |-> n])
    BY <2>2
  <2> DEFINE act == [id |-> pressed, who |-> a, doc |-> d,
                     op |-> "decide", step |-> "status", to |-> to, note |-> n]
             k == [desk[a] EXCEPT !.busy = d]
  <2>4. act \in Acts /\ act.doc = d
    BY <1>1, <1>2 DEF Acts, DecideActs
  <2>5. k \in Desks /\ k.docs = desk[a].docs
    BY <1>1, <1>2 DEF Desks
  <2>6. Send(act) /\ desk' = [desk EXCEPT ![a] = k]
    BY <2>1, <2>3
  <2> HIDE DEF act, k
  <2>7. DeskStands(db, k)
    BY <1>1, <2>5 DEF DeskStands
  <2> QED
    BY <1>3, <2>4, <2>5, <2>6, <2>7, ScreenKeeps
<1> QED
  BY <1>4, <1>5

(* A request that is answered, or not, with what it wrote.                 *)
LEMMA ActKeeps ==
  ASSUME FilesInv, NEW c \in acts, Writes(db, db'), NoNews(db, db'), UNCHANGED <<deskVars, pressed>>,
         NEW k \in Desks, k.docs = desk[c.who].docs, desk' = desk \/ desk' = [desk EXCEPT ![c.who] = k],
         NEW d \in Acts, d.op = "decide" => c.op = "decide" /\ d.doc = c.doc,
         acts' \subseteq (acts \ {c}) \cup {d}
  PROVE  FilesInv'
<1>1. c.who \in Admins /\ c \in Acts /\ ActStands(db, c)
  BY EvidenceFacts DEF Acts, OpenActs, DecideActs
<1>2. Grows(db, db') /\ pressed' \in Nat
  BY WritesGrow, EvidenceFacts
<1>3. DeskStands(db, k)
  BY <1>1, EvidenceFacts DEF DeskStands
<1>4. desk' \in [Admins -> Desks] /\ \A a \in Admins : DeskStands(db, desk'[a])
  BY <1>1, <1>3, EvidenceFacts
<1>5. acts' \subseteq Acts /\ \A e \in acts' : ActStands(db, e)
  <2>1. ActStands(db, d)
    BY <1>1 DEF ActStands
  <2> QED
    BY <2>1, EvidenceFacts
<1>6. /\ \A a \in Admins : DeskStands(db', desk'[a])
      /\ \A e \in acts' : ActStands(db', e)
  BY <1>2, <1>4, <1>5, EvidenceGoesOn
<1> QED
  BY <1>2, <1>4, <1>5, <1>6, EvidenceKeeps

LEMMA ActFacts ==
  ASSUME FilesInv, NEW c \in acts
  PROVE  /\ c \in Acts /\ ActStands(db, c) /\ db \in Tables /\ c.who \in Admins /\ c.doc \in Coas
         /\ c.id \in Nat /\ desk[c.who] \in Desks
         /\ c.op = "decide" => c \in DecideActs /\ Filed(db, c.doc)
<1>1. c \in Acts /\ ActStands(db, c) /\ db \in Tables /\ desk \in [Admins -> Desks]
  BY EvidenceFacts
<1>2. c.who \in Admins /\ c.doc \in Coas /\ c.id \in Nat
  BY <1>1 DEF Acts, OpenActs, DecideActs
<1>3. c.op = "decide" => c \in DecideActs
  BY <1>1 DEF Acts, OpenActs
<1> QED
  BY <1>1, <1>2, <1>3 DEF ActStands

(* openDocument and decide (DDPEvidenceReview.tsx:185-286): an open, a     *)
(* decision and the request to the farm.                                   *)
LEMMA ActWrites ==
  ASSUME FilesInv, NEW c \in acts, Act(c)
  PROVE  Writes(db, db') /\ NoNews(db, db')
<1>1. CASE recordDocumentOpen(c)
  <2>1. db' = db \/ db' = RecordOpen(db, c.doc, c.who)
    BY <1>1 DEF recordDocumentOpen, Statement
  <2>2. Writes(db, db')
    BY <2>1, ActFacts DEF Writes, WritesDocument
  <2> QED
    BY <2>1, <2>2, ActFacts DEF NoNews, RecordOpen, KnownFarm, Filed, Tables
<1>2. CASE setDocumentReviewStatus(c)
  <2>1. c.to \in DocStatuses /\ c.note \in Notes /\ Filed(db, c.doc)
    BY <1>2, ActFacts DEF setDocumentReviewStatus, DecideActs
  <2>2. db' = db \/ db' = Decide(db, c.doc, c.who, c.to, c.note, c.id)
    BY <1>2 DEF setDocumentReviewStatus, Statement
  <2>3. Writes(db, db')
    BY <2>1, <2>2, ActFacts DEF Writes, WritesDocument
  <2>4. /\ db'.farm = db.farm
        /\ \A e \in Coas : e # c.doc => db'.register[e] = db.register[e]
    <3> DEFINE entry == [db.register[c.doc] EXCEPT !.status = c.to, !.note = c.note]
               x == [db.register EXCEPT ![c.doc] = entry]
               y == Append(db.reviews, [doc |-> c.doc, from |-> db.register[c.doc].status,
                                        to |-> c.to, by |-> c.who, call |-> c.id])
    <3>1. CASE db' = db
      BY <3>1
    <3>2. CASE db' # db
      <4>1. db' = [db EXCEPT !.register = x, !.reviews = y]
        BY <2>2, <3>2, ActFacts DEF Decide, Tables
      <4>2. \A e \in Coas : e # c.doc => x[e] = db.register[e]
        BY ActFacts DEF Tables
      <4> HIDE DEF x, y
      <4>3. db'.register = x /\ db'.farm = db.farm
        BY <4>1, ActFacts DEF Tables
      <4> QED
        BY <4>2, <4>3
    <3> QED
      BY <3>1, <3>2
  <2> QED
    BY <2>1, <2>3, <2>4 DEF NoNews, KnownFarm, Filed
<1>3. CASE NotifyFarm(c)
  <2>1. db' = db \/ db' = AddRequest(db, Home, c.id)
    BY <1>3 DEF NotifyFarm, Statement
  <2>2. db' = db \/ WritesRequest(db, db')
    BY <2>1, ActFacts DEF WritesRequest
  <2> QED
    BY <2>2, ActFacts, OthersAreNoNews DEF Writes
<1> QED
  BY <1>1, <1>2, <1>3 DEF Act

LEMMA ActsKeep ==
  ASSUME FilesInv, NEW c \in acts, Act(c), UNCHANGED deskVars
  PROVE  FilesInv'
<1> DEFINE opened == [desk[c.who] EXCEPT !.opened = @ \cup {c.doc}]
           over == [desk[c.who] EXCEPT !.due = {"docs", "opens"}, !.busy = None]
           failed == [desk[c.who] EXCEPT !.busy = None]
           next == [c EXCEPT !.step = "notify"]
<1>1. /\ opened \in Desks /\ opened.docs = desk[c.who].docs
      /\ over \in Desks /\ over.docs = desk[c.who].docs
      /\ failed \in Desks /\ failed.docs = desk[c.who].docs
  BY ActFacts DEF Desks
<1>2. Writes(db, db') /\ NoNews(db, db')
  BY ActWrites
<1>3. UNCHANGED <<deskVars, pressed>>
  BY DEF Act, recordDocumentOpen, setDocumentReviewStatus, NotifyFarm, Statement
<1>4. c \in Acts
  BY ActFacts
<1>5. CASE recordDocumentOpen(c)
  <2>1. /\ desk' = desk \/ desk' = [desk EXCEPT ![c.who] = opened]
        /\ acts' \subseteq (acts \ {c}) \cup {c}
    BY <1>5 DEF recordDocumentOpen, Statement, Leaves
  <2> HIDE DEF opened
  <2> QED
    BY <1>1, <1>2, <1>3, <1>4, <2>1, ActKeeps
<1>6. CASE setDocumentReviewStatus(c)
  <2>1. c \in DecideActs /\ c.op = "decide"
    BY <1>6, ActFacts DEF setDocumentReviewStatus
  <2>2. next \in Acts /\ next.op = "decide" /\ next.doc = c.doc
    BY <2>1 DEF Acts, DecideActs
  <2>3. \/ acts' = (acts \ {c}) \cup {next} /\ desk' = desk
        \/ acts' = acts \ {c} /\ desk' = [desk EXCEPT ![c.who] = over]
        \/ acts' = acts \ {c} /\ desk' = [desk EXCEPT ![c.who] = failed]
    BY <1>6 DEF setDocumentReviewStatus, Statement, Recorded, DecisionFails, Leaves
  <2> HIDE DEF next, over, failed
  <2>4. acts' \subseteq (acts \ {c}) \cup {next}
    BY <2>3
  <2>5. CASE desk' = desk \/ desk' = [desk EXCEPT ![c.who] = over]
    BY <1>1, <1>2, <1>3, <2>1, <2>2, <2>4, <2>5, ActKeeps
  <2>6. CASE desk' = [desk EXCEPT ![c.who] = failed]
    BY <1>1, <1>2, <1>3, <2>1, <2>2, <2>4, <2>6, ActKeeps
  <2> QED
    BY <2>3, <2>5, <2>6
<1>7. CASE NotifyFarm(c)
  <2>1. desk' = [desk EXCEPT ![c.who] = over] /\ acts' \subseteq (acts \ {c}) \cup {c}
    BY <1>7 DEF NotifyFarm, Statement, Recorded, Leaves
  <2> HIDE DEF over
  <2> QED
    BY <1>1, <1>2, <1>3, <1>4, <2>1, ActKeeps
<1> QED
  BY <1>5, <1>6, <1>7 DEF Act

LEMMA EvidenceStepKeeps ==
  ASSUME FilesInv, EvidenceStep, UNCHANGED deskVars
  PROVE  FilesInv'
BY LoadsKeep, SendsKeep, ActsKeep DEF EvidenceStep

(* Whatever step is taken, the tables make one write or stay.              *)
LEMMA StepWrites ==
  ASSUME FilesInv, FilesStep
  PROVE  Writes(db, db')
<1>1. CASE DeskStep
  <2>1. ASSUME FarmerPresses \/ (\E a \in Admins : AdminPresses(a)) \/ (\E w \in Sessions : Reload(w))
        PROVE  db' = db
    BY <2>1 DEF FarmerPresses, AdminPresses, Reload, PressStatus, PressVisible, PressRequest,
       PressChase, PressResolve, PressSubmit, PressCoaUpload, PressFarm, Press
  <2>2. ASSUME NEW c \in calls, Handler(c) PROVE Writes(db, db')
    BY <2>2, HandlersAreSound DEF HandlerSound
  <2> QED
    BY <1>1, <2>1, <2>2 DEF DeskStep, Writes
<1>2. CASE EvidenceStep
  <2>1. ASSUME NEW a \in Admins, LoadDocs(a) \/ LoadOpens(a) \/ Choose(a)
                                   \/ OpenDocument(a) \/ PressDecide(a) \/ Reopen(a)
        PROVE  db' = db
    BY <2>1 DEF LoadDocs, LoadOpens, Choose, OpenDocument, PressDecide, Reopen, Send
  <2>2. ASSUME NEW c \in acts, Act(c) PROVE Writes(db, db')
    BY <2>2, ActWrites
  <2> QED
    BY <1>2, <2>1, <2>2 DEF EvidenceStep, Writes
<1> QED
  BY <1>1, <1>2 DEF FilesStep

LEMMA StepKeeps ==
  ASSUME FilesInv, [FilesStep]_filesVars
  PROVE  FilesInv'
<1>1. CASE FilesStep
  BY <1>1, DeskKeeps, EvidenceStepKeeps DEF FilesStep
<1>2. CASE UNCHANGED filesVars
  BY <1>2 DEF filesVars, FilesInv, FilesTypeOK
<1> QED
  BY <1>1, <1>2

(* Every step of the tables is sound.                                      *)
LEMMA StepIsSound ==
  ASSUME FilesInv, [FilesStep]_filesVars
  PROVE  Sound(db, db')
<1>1. Writes(db, db')
  BY StepWrites DEF filesVars, Writes
<1> QED
  BY <1>1, WritesAreSound DEF FilesInv
-----------------------------------------------------------------------------
(* Where a behaviour starts.                                               *)

Pages == {"stock", "application", "batches", "farms", "evidence", "away"}

(* A submission whose batch is on file and whose certificate is on its way. *)
Underway(t) ==
  {c \in SubmitCalls : /\ c.step = "coaStore" /\ c.got = {} /\ c.row.status = "Pending Review"
                       /\ KnownBatch(t, c.on) /\ c.coa # None /\ ~Filed(t, c.coa)}

(* Any tables that stand, anybody anywhere, any number of buttons left, and  *)
(* perhaps a submission under way.                                           *)
FilesInit ==
  /\ \E t \in Tables : \E where \in [Sessions -> Pages] : \E left \in 0 .. MaxPresses :
     \E under \in SUBSET Underway(t) :
        /\ TablesStand(t)
        /\ \A c, d \in under : c = d
        /\ DeskInit(t, where, left, under)
  /\ EvidenceInit

FilesSpec == FilesInit /\ [][FilesStep]_filesVars

(* Such tables there are: the empty ones.                                  *)
LEMMA EmptyTablesStand ==
  ASSUME NEW rpc \in BOOLEAN
  PROVE  TablesStand(EmptyTables(rpc))
<1>1. /\ NoBatch \in BatchRow /\ NoFarm \in FarmRow /\ NoDoc \in DocRow
      /\ <<>> \in Seq(Entry) /\ <<>> \in Seq(Review) /\ DOMAIN <<>> = {}
  BY DEF NoBatch, NoFarm, NoDoc, BatchRow, FarmRow, DocRow, Stock, Editable
<1>2. EmptyTables(rpc) \in Tables
  BY <1>1 DEF EmptyTables, Tables
<1>3. RowsStand(EmptyTables(rpc))
  BY DEF RowsStand, EmptyTables, Filed, NoDoc
<1>4. \A d \in Coas : TrailStands(EmptyTables(rpc), d)
  BY <1>1 DEF TrailStands, TrailOf, EmptyTables, NoDoc, Filed
<1> QED
  BY <1>2, <1>3, <1>4 DEF TablesStand

LEMMA InitStands ==
  ASSUME FilesInit
  PROVE  FilesInv
<1>1. PICK t \in Tables : \E where \in [Sessions -> Pages] : \E left \in 0 .. MaxPresses :
            \E under \in SUBSET Underway(t) :
              /\ TablesStand(t)
              /\ \A c, d \in under : c = d
              /\ DeskInit(t, where, left, under)
  BY DEF FilesInit
<1>2. PICK left \in 0 .. MaxPresses, under \in SUBSET Underway(t) :
        /\ TablesStand(t)
        /\ \A c, d \in under : c = d
        /\ db = t /\ calls = under /\ told = {} /\ pressed = MaxPresses - left
        /\ view = [w \in Sessions |-> Listed(t)]
  BY <1>1 DEF DeskInit
<1>3. pressed \in Nat
  <2>1. MaxPresses \in Nat
    BY DeskAssumption
  <2>2. left \in 0 .. MaxPresses /\ pressed = MaxPresses - left
    BY <1>2
  <2> QED
    BY <2>1, <2>2
<1>4. view \in [Sessions -> Lists] /\ \A w \in Sessions : ListStands(db, view[w])
  BY <1>2, ListedStands
<1>5. \A c \in calls : c \in Calls /\ CallStands(db, c) /\ Fresh(db, c)
  <2> SUFFICES ASSUME NEW c \in Underway(t) PROVE c \in Calls /\ CallStands(t, c) /\ Fresh(t, c)
    BY <1>2
  <2>1. c \in SubmitCalls /\ c.op = "submit"
    BY DEF Underway, SubmitCalls
  <2> QED
    BY <2>1 DEF Underway, Calls, CallStands, Fresh
<1>6. Apart(calls)
  BY <1>2 DEF Apart
<1>7. /\ desk = [a \in Admins |-> NoDesk] /\ acts = {}
      /\ NoDesk \in Desks /\ DeskStands(db, NoDesk)
  BY DEF FilesInit, EvidenceInit, NoDesk, NoDocs, Desks, DeskStands
<1> QED
  BY <1>1, <1>2, <1>3, <1>4, <1>5, <1>6, <1>7 DEF FilesInv, FilesTypeOK

(* The inductive invariant holds: the tables, the lists, the handlers and   *)
(* the screens have their types, every handler under way rests on what is   *)
(* recorded and makes what no other makes, and every claim is recorded      *)
(* (App.tsx:843-1485, DDPEvidenceReview.tsx:118-286, db.ts:90-1290).        *)
THEOREM FilesInvHolds == FilesSpec => []FilesInv
<1>1. FilesInit => FilesInv
  BY InitStands
<1>2. FilesInv /\ [FilesStep]_filesVars => FilesInv'
  BY StepKeeps
<1> QED
  BY <1>1, <1>2, PTL DEF FilesSpec

(* Type correctness: tables, lists, handlers under way and evidence screens *)
(* hold values of their types (types.ts:5-15, 651-655, db.ts:90-1290).      *)
THEOREM FilesTyped == FilesSpec => []FilesTypeOK
<1>1. FilesInv => FilesTypeOK
  BY DEF FilesInv
<1> QED
  BY <1>1, FilesInvHolds, PTL

(* What a list has shown as done is in the tables: commitMutation changes a *)
(* list only in onCommitted, after every write the claim is about           *)
(* (mutationCommit.ts:30-39, App.tsx:994-1485).                             *)
THEOREM ToldIsRecordedHolds == FilesSpec => []ToldIsRecorded
<1>1. FilesInv => ToldIsRecorded
  <2> SUFFICES ASSUME FilesInv, NEW claim \in told PROVE Holds(claim)
    BY DEF ToldIsRecorded
  <2>1. ClaimStands(db, claim)
    BY DEF FilesInv
  <2>2. ASSUME NEW x \in Subjects, NEW to \in Status, claim = <<"status", x, to>>,
               \E i \in DOMAIN db.history : db.history[i].on = x /\ db.history[i].to = to
        PROVE  Holds(claim)
    BY <2>2 DEF Holds
  <2>3. ASSUME NEW x \in Subjects \cup {Home}, NEW n \in Nat, claim = <<"request", x, n>>,
               \E r \in db.requests : r.on = x /\ r.by = n
        PROVE  Holds(claim)
    BY <2>3 DEF Holds
  <2>4. ASSUME NEW b \in Batches, NEW p \in Photos, claim = <<"photo", b, p>>,
               p \in db.photos[b], p \in db.stored
        PROVE  Holds(claim)
    BY <2>4 DEF Holds
  <2>5. ASSUME NEW d \in Coas, claim = <<"coa", d>>, d \in db.stored, Filed(db, d)
        PROVE  Holds(claim)
    <3>1. db.register[d] # NoDoc
      BY <2>5 DEF Filed, NoDoc
    <3> QED
      BY <2>5, <3>1 DEF Holds
  <2>6. ASSUME NEW f \in Farms, claim = <<"farm", f>>, db.farm[f].owner, db.farm[f].profile
        PROVE  Holds(claim)
    BY <2>6 DEF Holds
  <2>7. ASSUME NEW b \in Batches, claim = <<"batch", b>>, KnownBatch(db, b)
        PROVE  Holds(claim)
    <3>1. db.batch[b] # NoBatch
      BY <2>7 DEF KnownBatch, NoBatch
    <3> QED
      BY <2>7, <3>1 DEF Holds
  <2> QED
    BY <2>1, <2>2, <2>3, <2>4, <2>5, <2>6, <2>7 DEF ClaimStands
<1> QED
  BY <1>1, FilesInvHolds, PTL

(* fn_farmer_document_review_event writes the status that is left and the  *)
(* one that is taken, in the transaction of the decision: what is written   *)
(* of a document is one chain from the queue to the status it shows.       *)
THEOREM TrailIsWholeHolds == FilesSpec => []TrailIsWhole
<1>1. FilesInv => TrailIsWhole
  BY DEF FilesInv, TablesStand, TrailStands, TrailOf, TrailIsWhole, Trail
<1> QED
  BY <1>1, FilesInvHolds, PTL

(* record_status_transition reads the old status under its row lock; a     *)
(* farmer's upsert and the insert of a farm put a status back without      *)
(* history, and nothing else does (35_STATUS_TRANSITION_ATOMIC_HARDENING.  *)
(* sql:129-250, db.ts:222-257, 501-585).                                   *)
THEOREM TransitionsAreRecordedHolds == FilesSpec => TransitionsAreRecorded
<1>1. FilesInv /\ [FilesStep]_filesVars =>
        (db.rpc => \A s \in Batches \cup Farms :
          StatusOf(db', s) # StatusOf(db, s) =>
             \/ StatusOf(db', s) \in {"Pending Review", "Submitted to DDP"}
                /\ db'.history = db.history
             \/ db'.history = Append(db.history, [on |-> s, from |-> StatusOf(db, s),
                                                  to |-> StatusOf(db', s)]))
  BY StepIsSound DEF Sound, StatusAsHistory, Subjects
<1> QED
  BY <1>1, FilesInvHolds, PTL DEF FilesSpec, TransitionsAreRecorded

(* The WITH CHECK of the farmer's policies lets no write leave a row        *)
(* visible, so what buyers go on seeing is never a farmer's edit            *)
(* (60_BATCH_MUST_BELONG_TO_YOUR_FARM_HARDENING.sql:116-144).               *)
THEOREM ReleasedContentStandsHolds == FilesSpec => ReleasedContentStands
<1>1. FilesInv /\ [FilesStep]_filesVars =>
        \A b \in Batches :
          db.batch[b].visible /\ db'.batch[b].visible =>
             /\ db'.batch[b].coa = db.batch[b].coa
             /\ db'.batch[b].edit = db.batch[b].edit
  BY StepIsSound DEF Sound, ContentStands
<1> QED
  BY <1>1, FilesInvHolds, PTL DEF FilesSpec, ReleasedContentStands

-----------------------------------------------------------------------------
(* The reading of a certificate.                                           *)

(* A reply as the parser passes it on, and the rows that are made of it.   *)
Replied(reports) == \A i \in DOMAIN reports : IsArray(reports[i].fields)
RowsOf(reports) == [i \in DOMAIN reports |-> buildExtractions(reports)[i].rows]
IsRow(row) ==
  row = [name |-> row.name, provenance |-> row.provenance, value |-> row.value,
         confidence |-> row.confidence, warning |-> row.warning, offer |-> row.offer]

(* 28:329-368.  Whatever the model answers for a field, the row is one the  *)
(* table takes.                                                            *)
LEMMA RowIsStorable ==
  ASSUME NEW raw, raw.name \in CoaFieldNames
  PROVE  IsStorable(toExtractionRow(raw)) /\ IsRow(toExtractionRow(raw))
<1> DEFINE sure == raw.confidence \in Certain
           found == raw.value # Unread /\ sure
           row == toExtractionRow(raw)
           why == CASE raw.value = Unread -> {"not-found-in-document"}
                    [] raw.value # Unread /\ ~ sure -> {"no-usable-confidence"}
                    [] found /\ raw.confidence < Threshold -> {"low-confidence"}
                    [] OTHER -> {}
           value == IF found THEN raw.value ELSE Unread
           confidence == IF found THEN raw.confidence ELSE 0
           offer == found /\ raw.confidence >= Threshold
<1>1. row = [name |-> raw.name, provenance |-> "machine_extracted", value |-> value,
             confidence |-> confidence, warning |-> why, offer |-> offer]
  BY DEF toExtractionRow
<1>2. raw.value = Unread => why # {}
  OBVIOUS
<1>3. raw.value # Unread /\ ~ sure => why # {}
  OBVIOUS
<1>4. value # Unread \/ why # {}
  BY <1>2, <1>3
<1>5. confidence \in Certain
  BY DEF Certain
<1> HIDE DEF row, why, value, confidence, offer
<1>6. /\ row.name = raw.name /\ row.provenance = "machine_extracted" /\ row.value = value
      /\ row.confidence = confidence /\ row.warning = why /\ row.offer = offer
  BY <1>1
<1>7. IsStorable(row)
  BY <1>4, <1>5, <1>6 DEF IsStorable
<1>8. IsRow(row)
  BY <1>1, <1>6 DEF IsRow
<1> QED
  BY <1>7, <1>8 DEF row

LEMMA BuiltRows ==
  ASSUME NEW reports, NEW i \in DOMAIN reports, IsArray(reports[i].fields)
  PROVE  /\ DOMAIN buildExtractions(reports) = DOMAIN reports
         /\ buildExtractions(reports)[i].number = reports[i].number
         /\ IsList(buildExtractions(reports)[i].rows)
         /\ \A j \in DOMAIN buildExtractions(reports)[i].rows :
               /\ IsStorable(buildExtractions(reports)[i].rows[j])
               /\ IsRow(buildExtractions(reports)[i].rows[j])
<1> DEFINE fields == reports[i].fields
           K == {j \in DOMAIN fields : fields[j].name \in CoaFieldNames}
           known == Picked(fields, K)
           rows == [j \in DOMAIN known |-> toExtractionRow(known[j])]
           cross == crossCheckAgainstFilename(reports[i].number, ValueOf(rows, "sample_id"))
           N == Len(fields)
<1>1. /\ DOMAIN buildExtractions(reports) = DOMAIN reports
      /\ buildExtractions(reports)[i] = [number |-> reports[i].number, rows |-> rows, cross |-> cross]
  BY DEF buildExtractions
<1>2. N \in Nat /\ DOMAIN fields = 1..N
  BY DEF IsArray
<1>3. K \in SUBSET (1..N)
  BY <1>2
<1>4. \A j \in K : fields[j].name \in CoaFieldNames
  OBVIOUS
<1> HIDE DEF K, fields
<1>5. PicksFrom(fields, K, known)
  BY <1>2, <1>3, PickedIs
<1> HIDE DEF known
<1>6. /\ DOMAIN known = 1..Cardinality(K) /\ Cardinality(K) \in Nat
      /\ \A j \in DOMAIN known : known[j].name \in CoaFieldNames
  BY <1>4, <1>5 DEF PicksFrom
<1>7. rows = [j \in 1..Cardinality(K) |-> rows[j]]
  BY <1>6
<1>8. \A j \in DOMAIN rows : IsStorable(rows[j]) /\ IsRow(rows[j])
  BY <1>6, RowIsStorable
<1> HIDE DEF rows
<1>9. IsList(rows)
  BY <1>6, <1>7, ListOfRange
<1> HIDE DEF cross
<1>10. /\ buildExtractions(reports)[i].number = reports[i].number
       /\ buildExtractions(reports)[i].rows = rows
  BY <1>1
<1> QED
  BY <1>1, <1>8, <1>9, <1>10

(* Every row of a list is among those that pass a test or those that fail   *)
(* it, and not among both.                                                  *)
LEMMA OfferedOrReviewed ==
  ASSUME NEW e, IsList(e.rows)
  PROVE  Len(e.rows) = Len(acceptableFields(e)) + Len(needsReview(e))
<1> DEFINE rows == e.rows
           A == {i \in DOMAIN rows : rows[i].offer}
           B == {i \in DOMAIN rows : ~ rows[i].offer}
<1>1. PICK N \in Nat : Len(rows) = N /\ DOMAIN rows = 1..N
  <2>1. PICK R : rows \in Seq(R)
    BY DEF IsList
  <2> QED
    BY <2>1
<1>2. A \in SUBSET (1..N) /\ B \in SUBSET (1..N) /\ A \cup B = 1..N /\ A \cap B = {}
  BY <1>1
<1>3. acceptableFields(e) = Picked(rows, A) /\ needsReview(e) = Picked(rows, B)
  BY DEF acceptableFields, needsReview
<1> HIDE DEF A, B
<1>4. Len(Picked(rows, A)) = Cardinality(A) /\ Len(Picked(rows, B)) = Cardinality(B)
  BY <1>1, <1>2, PickedIsList
<1>5. /\ IsFiniteSet(A) /\ IsFiniteSet(B) /\ Cardinality(A) \in Nat /\ Cardinality(B) \in Nat
  BY <1>1, <1>2, NthIsPicked
<1>6. Cardinality(A \cup B) = Cardinality(A) + Cardinality(B) - Cardinality(A \cap B)
  BY <1>5, FS_Union
<1>7. Cardinality(A \cap B) = 0
  BY <1>2, FS_EmptySet
<1>8. Cardinality(A \cup B) = N
  <2>1. 1 \in Int /\ N \in Int
    BY <1>1
  <2>2. Cardinality(1..N) = IF 1 > N THEN 0 ELSE N - 1 + 1
    BY <2>1, FS_Interval
  <2>3. Cardinality(1..N) = N
    BY <2>1, <2>2, <1>1
  <2> QED
    BY <1>2, <2>3
<1>9. N = Cardinality(A) + Cardinality(B)
  BY <1>5, <1>6, <1>7, <1>8
<1> QED
  BY <1>1, <1>3, <1>4, <1>9

-----------------------------------------------------------------------------
(* The endpoint.                                                            *)

CallShape(r) ==
  r = [id |-> r.id, who |-> r.who, form |-> r.form, scan |-> r.scan, step |-> r.step,
       reports |-> r.reports, status |-> r.status]

(* A call that was answered with success has its rows in the table.         *)
OnRecord(r, table) ==
  /\ CallShape(r) /\ Replied(r.reports)
  /\ r.status = 200 =>
        r.step = "done" /\ \E k \in table : k.id = r.id /\ k.rows = RowsOf(r.reports)
ReadsInv == \A r \in reads : OnRecord(r, kept)

LEMMA ReadsImply == ReadsInv => RowsAreStorable
<1> SUFFICES ASSUME ReadsInv, NEW r \in reads
             PROVE  LET built == buildExtractions(r.reports)
                    IN  /\ \A i \in DOMAIN built : \A j \in DOMAIN built[i].rows :
                               IsStorable(built[i].rows[j])
                        /\ r.status = 200 =>
                               \E k \in kept :
                                  /\ k.id = r.id /\ DOMAIN k.rows = DOMAIN built
                                  /\ \A i \in DOMAIN built :
                                        Len(k.rows[i]) = Len(acceptableFields(built[i])) + Len(needsReview(built[i]))
  BY DEF RowsAreStorable
<1> DEFINE built == buildExtractions(r.reports)
<1>1. DOMAIN built = DOMAIN r.reports
  BY DEF buildExtractions
<1>2. \A i \in DOMAIN built : /\ IsList(built[i].rows)
                             /\ \A j \in DOMAIN built[i].rows : IsStorable(built[i].rows[j])
  BY <1>1, BuiltRows DEF ReadsInv, OnRecord, Replied
<1>3. RowsOf(r.reports) = [i \in DOMAIN built |-> built[i].rows]
  BY <1>1 DEF RowsOf
<1> HIDE DEF built
<1>4. \A i \in DOMAIN built :
        Len(built[i].rows) = Len(acceptableFields(built[i])) + Len(needsReview(built[i]))
  BY <1>2, OfferedOrReviewed
<1>5. ASSUME r.status = 200
      PROVE  \E k \in kept :
                /\ k.id = r.id /\ DOMAIN k.rows = DOMAIN built
                /\ \A i \in DOMAIN built :
                      Len(k.rows[i]) = Len(acceptableFields(built[i])) + Len(needsReview(built[i]))
  <2>1. PICK k \in kept : k.id = r.id /\ k.rows = [i \in DOMAIN built |-> built[i].rows]
    BY <1>3, <1>5 DEF ReadsInv, OnRecord
  <2> QED
    BY <1>4, <2>1
<1> QED
  BY <1>2, <1>5 DEF built

LEMMA CallChanges ==
  ASSUME NEW r, CallShape(r), NEW where, NEW v
  PROVE  /\ [r EXCEPT !.step = where] =
              [id |-> r.id, who |-> r.who, form |-> r.form, scan |-> r.scan, step |-> where,
               reports |-> r.reports, status |-> r.status]
         /\ [r EXCEPT !.step = where, !.status = v] =
              [id |-> r.id, who |-> r.who, form |-> r.form, scan |-> r.scan, step |-> where,
               reports |-> r.reports, status |-> v]
<1> DEFINE mid == [r EXCEPT !.step = where]
<1>1. mid = [id |-> r.id, who |-> r.who, form |-> r.form, scan |-> r.scan, step |-> where,
             reports |-> r.reports, status |-> r.status]
  BY DEF CallShape
<1>2. [r EXCEPT !.step = where, !.status = v] = [mid EXCEPT !.status = v]
  OBVIOUS
<1> HIDE DEF mid
<1>3. [mid EXCEPT !.status = v] =
        [id |-> r.id, who |-> r.who, form |-> r.form, scan |-> r.scan, step |-> where,
         reports |-> r.reports, status |-> v]
  BY <1>1
<1> QED
  BY <1>1, <1>2, <1>3 DEF mid

LEMMA ReadChanges ==
  ASSUME NEW r, CallShape(r), NEW where, NEW v
  PROVE  [r EXCEPT !.step = where, !.reports = v] =
           [id |-> r.id, who |-> r.who, form |-> r.form, scan |-> r.scan, step |-> where,
            reports |-> v, status |-> r.status]
<1> DEFINE mid == [r EXCEPT !.step = where]
<1>1. mid = [id |-> r.id, who |-> r.who, form |-> r.form, scan |-> r.scan, step |-> where,
             reports |-> r.reports, status |-> r.status]
  BY DEF CallShape
<1>2. [r EXCEPT !.step = where, !.reports = v] = [mid EXCEPT !.reports = v]
  OBVIOUS
<1> HIDE DEF mid
<1>3. [mid EXCEPT !.reports = v] =
        [id |-> r.id, who |-> r.who, form |-> r.form, scan |-> r.scan, step |-> where,
         reports |-> v, status |-> r.status]
  BY <1>1
<1> QED
  BY <1>2, <1>3

(* A call that moves on or is refused keeps what it has. *)
LEMMA AnswersKeep ==
  ASSUME ReadsInv, NEW r \in reads, r.step # "done", UNCHANGED kept, NEW status, status # 200,
         Answered(r, status) \/ \E step : Moves(r, step)
  PROVE  ReadsInv'
<1>1. CallShape(r) /\ Replied(r.reports) /\ OnRecord(r, kept)
  BY DEF ReadsInv, OnRecord
<1>2. CASE Answered(r, status)
  <2> DEFINE new == [r EXCEPT !.step = "done", !.status = status]
  <2>1. new = [id |-> r.id, who |-> r.who, form |-> r.form, scan |-> r.scan, step |-> "done",
               reports |-> r.reports, status |-> status]
    BY <1>1, CallChanges, Zenon
  <2>2. reads' = (reads \ {r}) \cup {new}
    BY <1>2 DEF Answered
  <2> HIDE DEF new
  <2>3. OnRecord(new, kept)
    BY <1>1, <2>1 DEF OnRecord, CallShape
  <2> QED
    BY <2>2, <2>3 DEF ReadsInv
<1>3. CASE \E step : Moves(r, step)
  <2>1. PICK step : Moves(r, step)
    BY <1>3
  <2> DEFINE new == [r EXCEPT !.step = step]
  <2>2. new = [id |-> r.id, who |-> r.who, form |-> r.form, scan |-> r.scan, step |-> step,
               reports |-> r.reports, status |-> r.status]
    BY <1>1 DEF CallShape
  <2>3. reads' = (reads \ {r}) \cup {new}
    BY <2>1 DEF Moves
  <2> HIDE DEF new
  <2>4. OnRecord(new, kept)
    BY <1>1, <2>2 DEF OnRecord, CallShape
  <2> QED
    BY <2>3, <2>4 DEF ReadsInv
<1> QED
  BY <1>2, <1>3

LEMMA ParsedIsReplied ==
  ASSUME NEW text \in WireReplies, parseProviderReply(text) # Unread
  PROVE  Replied(parseProviderReply(text))
<1> DEFINE K == {i \in DOMAIN text.reports : text.reports[i].object}
           objects == Picked(text.reports, K)
           Field(f) == [name |-> f.name, confidence |-> f.confidence,
                        value |-> IF f.quoted THEN f.value ELSE Unread]
           parsed == [i \in DOMAIN objects |->
                 [number |-> objects[i].number,
                  fields |-> [j \in DOMAIN objects[i].fields |-> Field(objects[i].fields[j])]]]
           N == Len(text.reports)
<1>1. text.json /\ text.list /\ parseProviderReply(text) = parsed
  BY DEF parseProviderReply
<1>2. N \in Nat /\ DOMAIN text.reports = 1..N
      /\ \A i \in DOMAIN text.reports : IsArray(text.reports[i].fields)
  BY <1>1, ReadingAssumption DEF IsArray
<1>3. K \in SUBSET (1..N)
  BY <1>2
<1> HIDE DEF K
<1>4. PicksFrom(text.reports, K, objects)
  BY <1>2, <1>3, PickedIs
<1> HIDE DEF objects, N
<1>5. \A i \in DOMAIN objects : IsArray(objects[i].fields)
  BY <1>2, <1>3, <1>4 DEF PicksFrom
<1>6. ASSUME NEW i \in DOMAIN objects
      PROVE  IsArray([j \in DOMAIN objects[i].fields |-> Field(objects[i].fields[j])])
  <2> DEFINE M == Len(objects[i].fields)
             q == [j \in DOMAIN objects[i].fields |-> Field(objects[i].fields[j])]
  <2>1. M \in Nat /\ DOMAIN objects[i].fields = 1..M
    BY <1>5, <1>6 DEF IsArray
  <2>2. q = [j \in 1..M |-> q[j]] /\ DOMAIN q = 1..M
    BY <2>1
  <2> HIDE DEF M, q
  <2>3. Len(q) = M
    BY <2>1, <2>2, ListOfRange
  <2>4. IsArray(q)
    BY <2>1, <2>2, <2>3 DEF IsArray
  <2> QED
    BY <2>4 DEF q
<1> HIDE DEF Field
<1> QED
  BY <1>1, <1>6 DEF Replied

(* The calls of the endpoint, from any number of them and any printed date. *)
CoaSpec(many, complete, date) == CoaInit(many, complete, date) /\ [][CoaStep]_coaVars

LEMMA ReadsStep == ReadsInv /\ [CoaStep]_coaVars => ReadsInv'
<1> SUFFICES ASSUME ReadsInv, [CoaStep]_coaVars PROVE ReadsInv'
  OBVIOUS
<1>1. CASE UNCHANGED coaVars
  BY <1>1 DEF coaVars, ReadsInv
<1>2. ASSUME NEW who, NEW form, NEW scan, CallEndpoint(who, form, scan) PROVE ReadsInv'
  <2> DEFINE new == [id |-> Cardinality(reads), who |-> who, form |-> form, scan |-> scan,
                     step |-> "gate", reports |-> <<>>, status |-> 0]
  <2>1. reads' = reads \cup {new} /\ UNCHANGED kept
    BY <1>2 DEF CallEndpoint
  <2>2. OnRecord(new, kept)
    BY DEF OnRecord, CallShape, Replied
  <2> HIDE DEF new
  <2> QED
    BY <2>1, <2>2 DEF ReadsInv
<1>3. ASSUME NEW r \in reads, Extract(r) PROVE ReadsInv'
  <2>1. UNCHANGED kept /\ CallShape(r) /\ OnRecord(r, kept)
    BY <1>3 DEF Extract, ReadsInv, OnRecord
  <2> DEFINE Parsed(text) == parseProviderReply(text)
             Onward(text) == (reads \ {r}) \cup
                           {[r EXCEPT !.step = "persist", !.reports = Parsed(text)]}
  <2>2. \/ Answered(r, 502)
        \/ \E text \in WireReplies :
              IF Parsed(text) = Unread THEN Answered(r, 502)
              ELSE IF Parsed(text) = <<>> THEN Answered(r, 422)
              ELSE reads' = Onward(text)
    BY <1>3 DEF Extract
  <2> HIDE DEF Parsed, Onward
  <2>3. CASE \E status : status # 200 /\ Answered(r, status)
    BY <1>3, <2>1, <2>3, AnswersKeep DEF Extract
  <2>4. ASSUME NEW text \in WireReplies, Parsed(text) # Unread, reads' = Onward(text)
        PROVE  ReadsInv'
    <3> DEFINE reports == parseProviderReply(text)
               new == [r EXCEPT !.step = "persist", !.reports = reports]
    <3>1. Replied(reports)
      BY <2>4, ParsedIsReplied DEF Parsed
    <3>2. reads' = (reads \ {r}) \cup {new}
      BY <2>4 DEF Parsed, Onward
    <3> HIDE DEF reports
    <3>3. new = [id |-> r.id, who |-> r.who, form |-> r.form, scan |-> r.scan, step |-> "persist",
                 reports |-> reports, status |-> r.status]
      BY <2>1, ReadChanges
    <3> HIDE DEF new
    <3>4. r.status # 200
      BY <1>3, <2>1 DEF Extract, OnRecord
    <3>5. OnRecord(new, kept)
      BY <3>1, <3>3, <3>4 DEF OnRecord, CallShape
    <3> QED
      BY <2>1, <3>2, <3>5 DEF ReadsInv
  <2> QED
    BY <2>2, <2>3, <2>4
<1>4. ASSUME NEW r \in reads, persistExtractions(r) PROVE ReadsInv'
  <2> DEFINE new == [id |-> r.id, scan |-> r.scan, rows |-> RowsOf(r.reports)]
  <2>1. \/ UNCHANGED kept /\ Answered(r, 503)
        \/ kept' = kept \cup {new} /\ (Answered(r, 200) \/ Answered(r, 503))
    BY <1>4 DEF persistExtractions, RowsOf
  <2>2. CASE UNCHANGED kept /\ Answered(r, 503)
    BY <1>4, <2>2, AnswersKeep DEF persistExtractions
  <2>3. ASSUME NEW status, Answered(r, status), kept' = kept \cup {new}
        PROVE  ReadsInv'
    <3> DEFINE said == [r EXCEPT !.step = "done", !.status = status]
    <3>1. CallShape(r) /\ Replied(r.reports)
      BY DEF ReadsInv, OnRecord
    <3>2. said = [id |-> r.id, who |-> r.who, form |-> r.form, scan |-> r.scan, step |-> "done",
                  reports |-> r.reports, status |-> status]
      BY <3>1, CallChanges, Zenon
    <3>3. reads' = (reads \ {r}) \cup {said}
      BY <2>3 DEF Answered
    <3> HIDE DEF said
    <3>4. new \in kept' /\ new.id = r.id /\ new.rows = RowsOf(r.reports)
      BY <2>3
    <3> HIDE DEF new
    <3>5. OnRecord(said, kept')
      BY <3>1, <3>2, <3>4 DEF OnRecord, CallShape
    <3>6. \A x \in reads : OnRecord(x, kept')
      BY <2>3 DEF ReadsInv, OnRecord
    <3> QED
      BY <3>3, <3>5, <3>6 DEF ReadsInv
  <2> QED
    BY <2>1, <2>2, <2>3
<1>5. ASSUME NEW r \in reads,
             PassGates(r) \/ reserveExtractionSlot(r) \/ getDocument(r)
             \/ countExistingExtractions(r) \/ fetchDocumentBytes(r)
      PROVE  ReadsInv'
  <2>1. UNCHANGED kept
    BY <1>5 DEF PassGates, reserveExtractionSlot, getDocument, countExistingExtractions, fetchDocumentBytes
  <2>2. (\E status : status # 200 /\ Answered(r, status)) \/ \E step : Moves(r, step)
    BY <1>5 DEF PassGates, reserveExtractionSlot, getDocument, countExistingExtractions, fetchDocumentBytes
  <2>3. r.step # "done"
    BY <1>5 DEF PassGates, reserveExtractionSlot, getDocument, countExistingExtractions, fetchDocumentBytes
  <2> QED
    BY <2>1, <2>2, <2>3, AnswersKeep
<1> QED
  BY <1>1, <1>2, <1>3, <1>4, <1>5 DEF CoaStep

(* serverCoaExtraction.ts:85-260 and coaExtraction.ts:133-275.  However     *)
(* many calls interleave, and whatever the language model answers, every    *)
(* row made of a reply passes the checks of the table, and a call that      *)
(* reports success has its rows there, each offered or listed for review.   *)
THEOREM AnyReplyIsStorable ==
  ASSUME NEW many, NEW complete, NEW date
  PROVE  CoaSpec(many, complete, date) => []RowsAreStorable
<1>1. CoaInit(many, complete, date) => ReadsInv
  BY DEF CoaInit, ReadsInv
<1> QED
  BY <1>1, ReadsStep, ReadsImply, PTL DEF CoaSpec

(* coaIntegrity.ts:96-118.  Of two dates that are both there, the second    *)
(* is not before the first.                                                 *)
LEMMA DateOrder ==
  ASSUME NEW a, NEW b, a # Unread, b # Unread, checkDateOrder(<<a, b>>)
  PROVE  ~ Earlier(b, a)
<1> DEFINE dates == <<a, b>>
           K == {i \in DOMAIN dates : dates[i] # Unread}
           known == Picked(dates, K)
<1>1. K = 1..2
  OBVIOUS
<1>2. Cardinality(1..2) = 2
  <2>1. PICK two \in Int : two = 2
    OBVIOUS
  <2>2. 1 \in Int /\ Cardinality(1..two) = IF 1 > two THEN 0 ELSE two - 1 + 1
    BY FS_Interval
  <2> QED
    BY <2>1, <2>2
<1>3. \A i \in 2..Len(known) : ~ Earlier(known[i], known[i - 1])
  BY DEF checkDateOrder
<1>4. Len(known) = 2
  BY <1>1, <1>2, PickedIsList
<1>5. NthOf(K, 1) \in 1..2 /\ NthOf(K, 2) \in 1..2 /\ NthOf(K, 1) < NthOf(K, 2)
  BY <1>1, <1>2, NthIsPicked
<1>6. NthOf(K, 1) = 1 /\ NthOf(K, 2) = 2
  BY <1>5
<1>7. known[1] = dates[NthOf(K, 1)] /\ known[2] = dates[NthOf(K, 2)]
  BY <1>1, <1>2 DEF Picked
<1> HIDE DEF known, K
<1>8. known[1] = a /\ known[2] = b
  BY <1>6, <1>7
<1>9. ~ Earlier(known[2], known[2 - 1])
  BY <1>3, <1>4
<1>10. 2 - 1 = 1
  OBVIOUS
<1> QED
  BY <1>8, <1>9, <1>10

(* coaLabProfiles.ts.  A profile is one of the two, and neither laboratory  *)
(* reports a water activity.                                                *)
LEMMA ProfileIsKnown ==
  ASSUME NEW number, profileForReportNumber(number) # Unread
  PROVE  /\ number \in Numbers2026 \cup Numbers2025
         /\ LET panel == profileForReportNumber(number).notInPanel
            IN  /\ panel[1] = "water_activity" /\ DOMAIN panel \in {1..3, 1..5}
                /\ \A k \in DOMAIN panel : panel[k] \notin {"received_date", "test_date"}
<1> DEFINE fits == {i \in DOMAIN LabProfiles : number \in LabProfiles[i].numbers}
           first == CHOOSE i \in fits : \A j \in fits : i <= j
<1>1. DOMAIN LabProfiles = {1, 2}
  BY DEF LabProfiles
<1>2. /\ LabProfiles[1].numbers = Numbers2026 /\ LabProfiles[2].numbers = Numbers2025
      /\ LabProfiles[1].notInPanel =
            <<"water_activity", "residual_solvents_result", "accreditation_reference">>
      /\ LabProfiles[2].notInPanel =
            <<"water_activity", "residual_solvents_result", "accreditation_reference",
              "mycotoxins_result", "pesticides_result">>
  BY DEF LabProfiles
<1>3. fits # {} /\ profileForReportNumber(number) = LabProfiles[first]
  BY DEF profileForReportNumber
<1>4. fits \in SUBSET {1, 2}
  BY <1>1
<1>5. number \in Numbers2026 \cup Numbers2025
  BY <1>2, <1>3, <1>4
<1> HIDE DEF fits
<1>6. \E i \in fits : \A j \in fits : i <= j
  <2>1. fits \in SUBSET Nat
    BY <1>4
  <2> QED
    BY <1>3, <2>1, LeastNatural
<1>7. first \in {1, 2}
  BY <1>4, <1>6
<1> HIDE DEF first
<1> DEFINE panel == LabProfiles[first].notInPanel
<1>8. \/ panel = <<"water_activity", "residual_solvents_result", "accreditation_reference">>
      \/ panel = <<"water_activity", "residual_solvents_result", "accreditation_reference",
                   "mycotoxins_result", "pesticides_result">>
  BY <1>2, <1>7
<1> HIDE DEF panel
<1>9. /\ panel[1] = "water_activity" /\ DOMAIN panel \in {1..3, 1..5}
      /\ \A k \in DOMAIN panel : panel[k] \notin {"received_date", "test_date"}
  BY <1>8
<1> QED
  BY <1>3, <1>5, <1>9 DEF panel

-----------------------------------------------------------------------------
(* The rows of a report with those its laboratory never measures, and what  *)
(* a report that may be shown must have passed.                             *)
RowsFor(raw) ==
  LET extraction == buildExtractions(<<raw>>)[1]
      profile == profileForReportNumber(raw.number)
  IN  IF profile = Unread THEN extraction.rows
      ELSE extraction.rows \o absentFieldRows(profile, extraction.rows)
TotalOf(c) == IF c = Unread THEN Unread ELSE checkTotalThc(c)

LEMMA AbsentRows ==
  ASSUME NEW profile, NEW rows, NEW n \in Nat, DOMAIN profile.notInPanel = 1..n
  PROVE  /\ IsList(absentFieldRows(profile, rows))
         /\ \A i \in DOMAIN absentFieldRows(profile, rows) :
               \E k \in 1..n : absentFieldRows(profile, rows)[i].name = profile.notInPanel[k]
         /\ \A k \in 1..n : (\A i \in DOMAIN rows : rows[i].name # profile.notInPanel[k]) =>
               \E i \in DOMAIN absentFieldRows(profile, rows) :
                  absentFieldRows(profile, rows)[i].name = profile.notInPanel[k]
         /\ \A i \in DOMAIN absentFieldRows(profile, rows) :
               IsRow(absentFieldRows(profile, rows)[i])
<1> DEFINE panel == profile.notInPanel
           K == {k \in DOMAIN panel : \A i \in DOMAIN rows : rows[i].name # panel[k]}
           absent == Picked(panel, K)
           Row(name) == [name |-> name, provenance |-> "machine_extracted", value |-> Unread,
                         confidence |-> 0, warning |-> {"not-reported-by-this-laboratory"},
                         offer |-> FALSE]
           added == [i \in DOMAIN absent |-> Row(absent[i])]
<1>1. absentFieldRows(profile, rows) = added
  BY DEF absentFieldRows
<1>2. K \in SUBSET (1..n)
  OBVIOUS
<1>3. \A k \in 1..n : (\A i \in DOMAIN rows : rows[i].name # panel[k]) => k \in K
  OBVIOUS
<1> HIDE DEF K
<1>4. PicksFrom(panel, K, absent)
  BY <1>2, PickedIs
<1> HIDE DEF absent
<1>5. /\ DOMAIN absent = 1..Cardinality(K) /\ Cardinality(K) \in Nat
      /\ \A i \in DOMAIN absent : \E k \in K : absent[i] = panel[k]
      /\ \A k \in K : \E i \in DOMAIN absent : absent[i] = panel[k]
  BY <1>4 DEF PicksFrom
<1>6. added = [i \in 1..Cardinality(K) |-> added[i]] /\ DOMAIN added = DOMAIN absent
  BY <1>5
<1>7. \A i \in DOMAIN added : added[i].name = absent[i] /\ IsRow(added[i])
  BY DEF IsRow
<1> HIDE DEF added
<1>8. IsList(added)
  BY <1>5, <1>6, ListOfRange
<1>9. \A i \in DOMAIN added : \E k \in 1..n : added[i].name = panel[k]
  BY <1>2, <1>5, <1>6, <1>7
<1>10. \A k \in 1..n : (\A i \in DOMAIN rows : rows[i].name # panel[k]) =>
                       \E i \in DOMAIN added : added[i].name = panel[k]
  <2> SUFFICES ASSUME NEW k \in 1..n, \A i \in DOMAIN rows : rows[i].name # panel[k]
               PROVE  \E i \in DOMAIN added : added[i].name = panel[k]
    OBVIOUS
  <2>1. k \in K
    BY <1>3
  <2>2. PICK i \in DOMAIN absent : absent[i] = panel[k]
    BY <1>5, <2>1
  <2> QED
    BY <1>6, <1>7, <2>2
<1> QED
  BY <1>1, <1>7, <1>8, <1>9, <1>10

LEMMA RowsForReport ==
  ASSUME NEW raw, IsArray(raw.fields)
  PROVE  /\ IsList(RowsFor(raw))
         /\ \A i \in DOMAIN RowsFor(raw) : IsRow(RowsFor(raw)[i])
         /\ profileForReportNumber(raw.number) # Unread =>
               \E i \in DOMAIN RowsFor(raw) : RowsFor(raw)[i].name = "water_activity"
<1> DEFINE read == buildExtractions(<<raw>>)[1].rows
           profile == profileForReportNumber(raw.number)
           added == absentFieldRows(profile, read)
<1>1. IsList(read) /\ \A i \in DOMAIN read : IsRow(read[i])
  <2> DEFINE reports == <<raw>>
  <2>1. 1 \in DOMAIN reports /\ reports[1] = raw
    OBVIOUS
  <2> HIDE DEF reports
  <2>2. /\ IsList(buildExtractions(reports)[1].rows)
        /\ \A i \in DOMAIN buildExtractions(reports)[1].rows :
              IsRow(buildExtractions(reports)[1].rows[i])
    BY <2>1, BuiltRows
  <2> QED
    BY <2>2 DEF reports
<1>2. RowsFor(raw) = IF profile = Unread THEN read ELSE read \o added
  BY DEF RowsFor
<1>3. CASE profile = Unread
  BY <1>1, <1>2, <1>3
<1>4. CASE profile # Unread
  <2> HIDE DEF read
  <2>1. /\ profile.notInPanel[1] = "water_activity"
        /\ DOMAIN profile.notInPanel \in {1..3, 1..5}
    BY <1>4, ProfileIsKnown
  <2> HIDE DEF profile
  <2> DEFINE D == DOMAIN profile.notInPanel
  <2>01. D = 1..3 \/ D = 1..5
    BY <2>1
  <2> HIDE DEF D
  <2>2. PICK n \in Nat : n >= 1 /\ D = 1..n
    <3>1. 3 \in Nat /\ 5 \in Nat /\ 3 >= 1 /\ 5 >= 1
      OBVIOUS
    <3> QED
      BY <2>01, <3>1, Zenon
  <2> DEFINE panel == profile.notInPanel
  <2>02. /\ IsList(added) /\ \A i \in DOMAIN added : IsRow(added[i])
         /\ \A k \in 1..n : (\A i \in DOMAIN read : read[i].name # panel[k]) =>
               \E i \in DOMAIN added : added[i].name = panel[k]
    BY <2>2, AbsentRows DEF D
  <2>03. 1 \in 1..n
    BY <2>2
  <2> HIDE DEF panel, added
  <2>3. /\ IsList(added) /\ \A i \in DOMAIN added : IsRow(added[i])
        /\ (\A i \in DOMAIN read : read[i].name # "water_activity") =>
              \E i \in DOMAIN added : added[i].name = "water_activity"
    BY <2>1, <2>02, <2>03 DEF panel
  <2>4. PICK R : read \in Seq(R)
    BY <1>1 DEF IsList
  <2>5. PICK S : added \in Seq(S)
    BY <2>3 DEF IsList
  <2> DEFINE all == read \o added
  <2>6. read \in Seq(R \cup S) /\ added \in Seq(R \cup S)
    BY <2>4, <2>5
  <2>7. all \in Seq(R \cup S) /\ Len(all) = Len(read) + Len(added)
    BY <2>6
  <2>8. /\ Len(read) \in Nat /\ Len(added) \in Nat /\ DOMAIN read = 1..Len(read)
        /\ DOMAIN added = 1..Len(added) /\ DOMAIN all = 1..(Len(read) + Len(added))
    BY <2>6, <2>7
  <2>9. \A i \in 1..Len(read) : all[i] = read[i]
    BY <2>6
  <2>10. \A i \in 1..Len(added) : all[Len(read) + i] = added[i]
    BY <2>6
  <2>11. \A i \in DOMAIN all : IsRow(all[i])
    <3> SUFFICES ASSUME NEW i \in DOMAIN all PROVE IsRow(all[i])
      OBVIOUS
    <3> HIDE DEF all
    <3>1. CASE i \in 1..Len(read)
      BY <1>1, <2>8, <2>9, <3>1
    <3>2. CASE i \notin 1..Len(read)
      <4>1. i - Len(read) \in 1..Len(added) /\ i = Len(read) + (i - Len(read))
        BY <2>8, <3>2
      <4> QED
        BY <2>3, <2>8, <2>10, <4>1
    <3> QED
      BY <3>1, <3>2
  <2> HIDE DEF all
  <2>12. \E i \in DOMAIN all : all[i].name = "water_activity"
    <3>1. CASE \E i \in DOMAIN read : read[i].name = "water_activity"
      BY <2>8, <2>9, <3>1
    <3>2. CASE \A i \in DOMAIN read : read[i].name # "water_activity"
      <4>1. PICK i \in DOMAIN added : added[i].name = "water_activity"
        BY <2>3, <3>2
      <4>2. Len(read) + i \in DOMAIN all
        BY <2>8
      <4> QED
        BY <2>8, <2>10, <4>1, <4>2
    <3> QED
      BY <3>1, <3>2
  <2>13. IsList(all)
    BY <2>7 DEF IsList, all
  <2>14. RowsFor(raw) = all
    BY <1>2, <1>4 DEF all, profile
  <2> QED
    BY <2>11, <2>12, <2>13, <2>14
<1> QED
  BY <1>3, <1>4

(* coaReconcile.ts:82-137.  What a report that may be shown as fields has    *)
(* passed.                                                                  *)
LEMMA Passed ==
  ASSUME NEW raw, IsArray(raw.fields), NEW c, isPresentableAsFields(reconcileReport(raw, c))
  PROVE  /\ reconcileReport(raw, c).rows = RowsFor(raw)
         /\ profileForReportNumber(raw.number) # Unread
         /\ checkDateOrder(<<parseCoaDate(ValueOf(RowsFor(raw), "received_date")),
                             parseCoaDate(ValueOf(RowsFor(raw), "test_date"))>>)
         /\ TotalOf(c) # "inconsistent" /\ TotalOf(c) # "not_checkable"
<1> DEFINE extraction == buildExtractions(<<raw>>)[1]
           profile == profileForReportNumber(raw.number)
           rows == RowsFor(raw)
           thc == TotalOf(c)
           InOrder == checkDateOrder(<<parseCoaDate(ValueOf(rows, "received_date")),
                                       parseCoaDate(ValueOf(rows, "test_date"))>>)
           Withdrawn(r) == IF thc = "inconsistent" /\ r.name = "total_thc"
                           THEN [r EXCEPT !.offer = FALSE, !.warning = @ \cup {"total-disagrees"}]
                           ELSE r
           integrity == {w \in {"no-profile", "date-order", "total"} :
                            \/ w = "no-profile" /\ profile = Unread
                            \/ w = "date-order" /\ profile # Unread /\ ~ InOrder
                            \/ w = "total" /\ thc \in {"inconsistent", "not_checkable"}}
           done == reconcileReport(raw, c)
<1>1. done = [number |-> extraction.number, rows |-> [i \in DOMAIN rows |-> Withdrawn(rows[i])],
              cross |-> extraction.cross, profile |-> profile, thc |-> thc,
              integrity |-> integrity]
  BY DEF reconcileReport, RowsFor, TotalOf
<1>2. IsList(rows)
  BY RowsForReport
<1> HIDE DEF done
<1>3. done.rows = [i \in DOMAIN rows |-> Withdrawn(rows[i])] /\ done.integrity = integrity
  BY <1>1
<1>4. done.integrity = {}
  BY DEF done, isPresentableAsFields
<1>5. profile # Unread /\ thc # "inconsistent" /\ thc # "not_checkable"
  <2> HIDE DEF profile, thc, InOrder
  <2> QED
    BY <1>3, <1>4
<1>6. InOrder
  <2> HIDE DEF profile, thc, InOrder
  <2> QED
    BY <1>3, <1>4, <1>5
<1>7. done.rows = [i \in DOMAIN rows |-> rows[i]]
  <2> HIDE DEF thc, rows
  <2> QED
    BY <1>3, <1>5
<1>8. rows = [i \in DOMAIN rows |-> rows[i]]
  <2> HIDE DEF rows
  <2>1. PICK R : rows \in Seq(R)
    BY <1>2 DEF IsList
  <2> QED
    BY <2>1
<1> QED
  BY <1>5, <1>6, <1>7, <1>8 DEF done

(* coaReconcile.ts:30-66.  A total that agrees with its parts is within the *)
(* tolerance of their sum.                                                  *)
LEMMA TotalAgrees ==
  ASSUME NEW c \in Cannabinoids, c # Unread,
         TotalOf(c) # "inconsistent", TotalOf(c) # "not_checkable"
  PROVE  LET parts == c.delta9 * 1000 + c.thca * 877
         IN  parts <= c.stated * 1000 + Tolerance /\ c.stated * 1000 <= parts + Tolerance
<1> DEFINE off == c.delta9 * 1000 + c.thca * 877 - c.stated * 1000
<1>0. TotalOf(c) = IF c.delta9 = Unread \/ c.thca = Unread \/ c.stated = Unread THEN "not_checkable"
                   ELSE IF off <= Tolerance /\ -off <= Tolerance THEN "consistent" ELSE "inconsistent"
  BY DEF TotalOf, checkTotalThc
<1> HIDE DEF off
<1>1. /\ c.delta9 # Unread /\ c.thca # Unread /\ c.stated # Unread
      /\ off <= Tolerance /\ -off <= Tolerance
  BY <1>0
<1>2. c.delta9 \in Int /\ c.thca \in Int /\ c.stated \in Int
  BY <1>1, ReadingAssumption
<1>3. PICK p, s \in Int : p = c.delta9 * 1000 + c.thca * 877 /\ s = c.stated * 1000
  BY <1>2
<1>4. off = p - s
  <2>1. PICK x, y \in Int : x = c.delta9 * 1000 /\ y = c.thca * 877
    BY <1>2
  <2>2. off = x + (y - s) /\ p = x + y
    BY <1>3, <2>1 DEF off
  <2> QED
    BY <2>1, <2>2, <1>3
<1>5. Tolerance \in Nat
  BY DEF Tolerance
<1>6. p <= s + Tolerance /\ s <= p + Tolerance
  BY <1>1, <1>3, <1>4, <1>5
<1> QED
  BY <1>3, <1>6

LEMMA Presentable ==
  ASSUME NEW raw, IsArray(raw.fields), NEW c \in Cannabinoids,
         isPresentableAsFields(reconcileReport(raw, c))
  PROVE  LET done == reconcileReport(raw, c)
             received == ValueOf(done.rows, "received_date")
             tested == ValueOf(done.rows, "test_date")
         IN  /\ raw.number \in Numbers2026 \cup Numbers2025
             /\ \E j \in DOMAIN done.rows : done.rows[j].name = "water_activity"
             /\ parseCoaDate(received) # Unread /\ parseCoaDate(tested) # Unread
                    => ~ Earlier(tested, received)
             /\ c # Unread => LET parts == c.delta9 * 1000 + c.thca * 877
                              IN  /\ parts <= c.stated * 1000 + Tolerance
                                  /\ c.stated * 1000 <= parts + Tolerance
<1> DEFINE rows == reconcileReport(raw, c).rows
           received == ValueOf(rows, "received_date")
           tested == ValueOf(rows, "test_date")
<1>1. /\ rows = RowsFor(raw) /\ profileForReportNumber(raw.number) # Unread
      /\ checkDateOrder(<<parseCoaDate(received), parseCoaDate(tested)>>)
      /\ TotalOf(c) # "inconsistent" /\ TotalOf(c) # "not_checkable"
  BY Passed
<1>2. raw.number \in Numbers2026 \cup Numbers2025
  BY <1>1, ProfileIsKnown
<1>3. \E j \in DOMAIN rows : rows[j].name = "water_activity"
  BY <1>1, RowsForReport
<1> HIDE DEF rows
<1>4. ASSUME parseCoaDate(received) # Unread, parseCoaDate(tested) # Unread
      PROVE  ~ Earlier(tested, received)
  <2>1. ~ Earlier(parseCoaDate(tested), parseCoaDate(received))
    BY <1>1, <1>4, DateOrder
  <2>2. parseCoaDate(tested) = tested /\ parseCoaDate(received) = received
    <3> HIDE DEF received, tested
    <3> QED
      BY <1>4 DEF parseCoaDate
  <2> QED
    BY <2>1, <2>2
<1>5. ASSUME c # Unread
      PROVE  LET parts == c.delta9 * 1000 + c.thca * 877
             IN  parts <= c.stated * 1000 + Tolerance /\ c.stated * 1000 <= parts + Tolerance
  BY <1>1, <1>5, TotalAgrees
<1> QED
  BY <1>2, <1>3, <1>4, <1>5 DEF rows

-----------------------------------------------------------------------------
(* thaiCalendar.ts.  A date in one of the two calendars.                     *)

IsDate(date) == \E y, m, d \in Int : date = <<y, m, d>>

(* A printed date that is taken names one day, and one that names none in   *)
(* either calendar is not taken.                                            *)
LEMMA OneDay ==
  ASSUME IsDate(printed)
  PROVE  DateNamesOneDay
<1> DEFINE value == parseDualDate(printed)
           Days == {<<y, printed[2], printed[3]>> : y \in {printed[1], printed[1] - Offset}}
<1>1. PICK y, m, d \in Int : printed = <<y, m, d>>
  BY DEF IsDate
<1>2. /\ Offset = 543
      /\ \A n \in Int : n \in ConvertibleYears <=> 1941 <= n /\ n <= 2200
  BY DEF Offset, ConvertibleYears, EarliestYear, LatestYear
<1> DEFINE Likely == 1941 <= y /\ y <= 2200
           Shift == 1941 <= y - 543 /\ y - 543 <= 2200
           Real(n) == OnCalendar(<<n, m, d>>)
<1>3. ~ (Likely /\ Shift)
  OBVIOUS
<1>4. Days = {<<y, m, d>>, <<y - 543, m, d>>}
  BY <1>1, <1>2
<1>5. (y \in ConvertibleYears <=> Likely) /\ (Shifted(y) <=> Shift)
      /\ (y - 543 \in ConvertibleYears <=> Shift)
  BY <1>2 DEF Shifted
<1>6. printed[1] = y /\ printed[2] = m /\ printed[3] = d
  BY <1>1
<1>7. ~ Earlier(<<y, m, d>>, <<y, m, d>>) /\ ~ Earlier(<<y - 543, m, d>>, <<y - 543, m, d>>)
  BY DEF Earlier
<1>8. y # y - 543
  OBVIOUS
<1>9. <<y, m, d>> # <<y - 543, m, d>>
  BY <1>8
<1> HIDE DEF Likely, Shift
<1>10. CASE ~ Likely /\ ~ Shift
  <2>1. classifyEra(y) = "out-of-range"
    BY <1>5, <1>10 DEF classifyEra
  <2>2. value = Refused("era-out-of-range")
    BY <1>6, <2>1 DEF parseDualDate
  <2>3. value.ok = FALSE
    BY <2>2 DEF Refused
  <2>4. {x \in Days : x[1] \in ConvertibleYears /\ OnCalendar(x)} = {}
    BY <1>4, <1>5, <1>10
  <2> QED
    BY <2>3, <2>4 DEF DateNamesOneDay
<1>11. CASE Likely \/ Shift
  <2> DEFINE era == IF Likely THEN "ce" ELSE "be"
             n == IF Likely THEN y ELSE y - 543
  <2>1. classifyEra(y) = era
    BY <1>3, <1>5, <1>11 DEF classifyEra
  <2>2. n \in ConvertibleYears /\ n \in {y, y - 543} /\ n \in Int
    BY <1>5, <1>11
  <2>3. value = dualDateFrom(printed, era)
    BY <1>6, <2>1 DEF parseDualDate
  <2>4. value = IF Real(n) THEN [ok |-> TRUE, ce |-> <<n, m, d>>, be |-> n + 543]
                ELSE Refused("impossible-date")
    <3>1. dualDateFrom(printed, era) =
            LET ce == IF era = "be" THEN printed[1] - Offset ELSE printed[1]
            IN  IF ce \notin ConvertibleYears THEN Refused("era-out-of-range")
                ELSE IF ~ OnCalendar(<<ce, printed[2], printed[3]>>) THEN Refused("impossible-date")
                ELSE [ok |-> TRUE, ce |-> <<ce, printed[2], printed[3]>>, be |-> ce + Offset]
      BY DEF dualDateFrom
    <3>2. (IF era = "be" THEN printed[1] - Offset ELSE printed[1]) = n
      BY <1>2, <1>6
    <3>3. n \in ConvertibleYears /\ n + Offset = n + 543
      BY <1>2, <2>2
    <3> HIDE DEF n, era, value
    <3>4. value = IF ~ OnCalendar(<<n, m, d>>) THEN Refused("impossible-date")
                  ELSE [ok |-> TRUE, ce |-> <<n, m, d>>, be |-> n + 543]
      BY <1>6, <2>3, <3>1, <3>2, <3>3
    <3> QED
      BY <3>4
  <2>5. {x \in Days : x[1] \in ConvertibleYears} = {<<n, m, d>>}
    BY <1>3, <1>4, <1>5, <1>11
  <2>6. ~ Earlier(<<n, m, d>>, <<n, m, d>>)
    BY <1>7
  <2>7. n = y \/ n + 543 = y
    OBVIOUS
  <2> HIDE DEF n, value
  <2>8. CASE Real(n)
    <3>1. value.ok = TRUE /\ value.ce = <<n, m, d>> /\ value.be = n + 543
      BY <2>4, <2>8
    <3>2. <<n, m, d>> \in {x \in Days : x[1] \in ConvertibleYears /\ OnCalendar(x)}
      BY <2>5, <2>8
    <3>3. reconcileDualDate(value) = 0
      BY <1>2, <2>2, <3>1 DEF reconcileDualDate, reconcileDualYear
    <3>4. printed \in {formatDualDate(value, l) : l \in {"th", "en"}}
      <4>1. formatDualDate(value, "th") = <<n + 543, m, d>>
        BY <3>1 DEF formatDualDate
      <4>2. formatDualDate(value, "en") = <<n, m, d>>
        BY <3>1 DEF formatDualDate
      <4> QED
        BY <1>1, <2>7, <4>1, <4>2
    <3>5. ~ isExpiredAsOf(value, value.ce)
      BY <2>6, <3>1 DEF isExpiredAsOf
    <3> QED
      BY <2>5, <3>1, <3>2, <3>3, <3>4, <3>5 DEF DateNamesOneDay, value
  <2>9. CASE ~ Real(n)
    <3>1. value.ok = FALSE
      BY <2>4, <2>9 DEF Refused
    <3>2. {x \in Days : x[1] \in ConvertibleYears /\ OnCalendar(x)} = {}
      BY <2>5, <2>9
    <3> QED
      BY <3>1, <3>2 DEF DateNamesOneDay, value
  <2> QED
    BY <2>8, <2>9
<1> QED
  BY <1>10, <1>11

ReadingInv == IsDate(printed) /\ ReadsInv
LEMMA ReadingImplies == ReadingInv => ReadingHoldsTogether
<1> SUFFICES ASSUME ReadingInv PROVE ReadingHoldsTogether
  OBVIOUS
<1>1. DateNamesOneDay
  BY OneDay DEF ReadingInv
<1>2. ASSUME NEW r \in reads, NEW i \in DOMAIN r.reports PROVE IsArray(r.reports[i].fields)
  BY <1>2 DEF ReadingInv, ReadsInv, OnRecord, Replied
<1>3. PresentableReportHolds
  BY <1>2, Presentable DEF PresentableReportHolds
<1> QED
  BY <1>1, <1>3 DEF ReadingHoldsTogether

(* coaReconcile.ts, coaIntegrity.ts, dualDate.ts.  Whatever the model reads *)
(* off a certificate, and whichever date is printed on it: a report that    *)
(* may be shown as fields does not contradict itself, and a date that is    *)
(* taken names one day.                                                     *)
THEOREM ReadingIsCoherent ==
  ASSUME NEW many, NEW complete, NEW date, IsDate(date)
  PROVE  CoaSpec(many, complete, date) => []ReadingHoldsTogether
<1>1. CoaInit(many, complete, date) => ReadingInv
  BY DEF CoaInit, ReadsInv, ReadingInv, IsDate
<1>2. CoaStep => UNCHANGED printed
  BY DEF CoaStep, CallEndpoint, PassGates, reserveExtractionSlot, getDocument,
         countExistingExtractions, fetchDocumentBytes, Extract, persistExtractions
<1>3. ReadingInv /\ [CoaStep]_coaVars => ReadingInv'
  BY <1>2, ReadsStep DEF ReadingInv, IsDate, coaVars
<1> QED
  BY <1>1, <1>3, ReadingImplies, PTL DEF CoaSpec

-----------------------------------------------------------------------------
(* The backup.  While the listing goes on every file that stood is         *)
(* accounted for: it is fetched, noted, or still ahead of the walk.        *)

Keys == Buckets \X Paths

(* A file that a listing under way will still come to: its name, or that   *)
(* of the folder it is in, is in the rest of the answer, or comes in the    *)
(* sorted order after what was answered so far.                            *)
Ahead(frame, b, p, files) ==
  /\ IsStrictPrefix(frame.prefix, p)
  /\ LET n == p[Len(frame.prefix) + 1] IN
     \/ \E i \in DOMAIN frame.rest : /\ frame.rest[i].name = n
                                     /\ (frame.rest[i].folder <=> Append(frame.prefix, n) # p)
     \/ frame.more /\ frame.offset < Rank(n, NamesUnder(b, frame.prefix, files))
Pending(walk, p, files) ==
  \/ \E i \in DOMAIN walk.found : walk.found[i] = p
  \/ \E i \in DOMAIN walk.stack : Ahead(walk.stack[i], Bucket(walk), p, files)

ObjectOf(pair) == [bucket |-> pair[1][1], path |-> pair[1][2], bytes |-> pair[2]]
Taken(objects, pair) == \E i \in DOMAIN objects : objects[i] = ObjectOf(pair)
Later(walk, b) == \E k \in (walk.at + 1)..Len(BucketOrder) : b = BucketOrder[k]
Accounted(walk, notes, pair, files) ==
  \/ pair[1][1] \in notes.gone \/ pair[1][1] \in notes.hollow
  \/ Taken(walk.objects, pair)
  \/ Later(walk, pair[1][1])
  \/ pair[1][1] = Bucket(walk) /\ Pending(walk, pair[1][2], files)

IsFrame(f) ==
  /\ f = [prefix |-> f.prefix, offset |-> f.offset, rest |-> f.rest, more |-> f.more]
  /\ f.prefix \in Seq(1..Names) /\ f.offset \in Nat /\ (f.rest # <<>> => f.offset # 0)
  /\ IsList(f.rest) /\ \A i \in DOMAIN f.rest : f.rest[i].name \in 1..Names
IsObject(o) ==
  /\ o = [bucket |-> o.bucket, path |-> o.path, bytes |-> o.bytes]
  /\ o.bucket \in Buckets /\ o.path \in Paths
IsObjects(objects) == IsList(objects) /\ \A i \in DOMAIN objects : IsObject(objects[i])
IsWalk(walk) ==
  /\ walk = [at |-> walk.at, stack |-> walk.stack, found |-> walk.found, objects |-> walk.objects]
  /\ walk.at \in 1..Len(BucketOrder)
  /\ IsList(walk.stack) /\ IsList(walk.found) /\ IsObjects(walk.objects)
  /\ \A i \in DOMAIN walk.stack : /\ IsFrame(walk.stack[i])
                                  /\ walk.stack[i].prefix = <<>> => i = 1
  /\ (walk.stack # <<>> /\ walk.stack[1] = Frame(<<>>)) => (Len(walk.stack) = 1 /\ walk.found = <<>>)
  /\ \A i \in DOMAIN walk.objects : \E k \in 1..walk.at :
        walk.objects[i].bucket = BucketOrder[k] /\ (walk.stack # <<>> => k < walk.at)

(* A bucket that answered as if it were empty: nothing of it is fetched.    *)
Hollow(walk, b) ==
  /\ ~Later(walk, b)
  /\ \A i \in DOMAIN walk.objects : walk.objects[i].bucket # b
  /\ b = Bucket(walk) => /\ walk.found = <<>>
                         /\ \/ walk.stack = <<>>
                            \/ Len(walk.stack) = 1 /\ walk.stack[1].rest = <<>> /\ ~walk.stack[1].more
IsNotes(walk, notes, files) ==
  /\ notes = [untouched |-> notes.untouched, gone |-> notes.gone, ever |-> notes.ever,
              hollow |-> notes.hollow]
  /\ notes.untouched \subseteq BinPairs(files) /\ BinPairs(files) \subseteq notes.ever
  /\ \A i \in DOMAIN walk.objects : <<KeyOf(walk.objects[i]), walk.objects[i].bytes>> \in notes.ever
  /\ \A b \in notes.hollow : Hollow(walk, b)
  /\ \A pair \in notes.untouched : Accounted(walk, notes, pair, files)

(* A manifest that counts an object of some bucket counts objects.         *)
IsManifest(m) ==
  /\ m.count \in Nat
  /\ \A b \in Buckets : m.counts[b] \in Nat /\ (m.counts[b] > 0 => m.count > 0)
IsBaseline(m) == m = Lost \/ IsManifest(m)

Finished(walk) == walk.stack = <<>> /\ walk.found = <<>> /\ walk.at = Len(BucketOrder)
BackupHolds(w) ==
  /\ w.step \in {"walk", "archive", "baseline"} /\ IsBaseline(w.plan.previous)
  /\ w.step # "walk" => /\ Finished(w.walk)
                        /\ assertPlausible(buildManifest(w.walk.objects), w.plan.previous, w.plan.allowEmpty)
RestoreHolds(w) ==
  /\ w.step \in {"upload", "walk"}
  /\ w.plan = [manifest |-> w.plan.manifest, left |-> w.plan.left, overwrite |-> w.plan.overwrite]
  /\ IsObjects(w.plan.left)
WorkHolds(j, w, files) ==
  /\ w = [step |-> w.step, plan |-> w.plan, walk |-> w.walk, notes |-> w.notes]
  /\ IsWalk(w.walk) /\ IsNotes(w.walk, w.notes, files)
  /\ IF j = "backup" THEN BackupHolds(w) ELSE RestoreHolds(w)
ToldHolds(w) == w.step = "told" /\ (w.verified => BinPairs(MapOf(w.manifest.entries)) \subseteq w.ever)
JobHolds(j, w, files) == w = NoWork \/ (j = "restore" /\ ToldHolds(w)) \/ WorkHolds(j, w, files)

ArchiveHolds(a) ==
  \E objects : /\ IsObjects(objects) /\ a.container = Artifact(objects)
               /\ \A pair \in a.untouched :
                    \/ Taken(objects, pair) \/ pair[1][1] \in a.gone
                    \/ pair[1][1] \in a.hollow /\ (a.previous = Lost \/ a.previous.counts[pair[1][1]] = 0)
ArchivesHold(made) == IsList(made) /\ \A i \in DOMAIN made : ArchiveHolds(made[i])

BackupInv ==
  /\ DOMAIN bin \subseteq Keys /\ IsBaseline(baseline) /\ ArchivesHold(archives)
  /\ DOMAIN job = Jobs /\ \A j \in Jobs : JobHolds(j, job[j], bin)

-----------------------------------------------------------------------------
LEMMA StrictPrefixIs ==
  ASSUME NEW R, NEW s \in Seq(R), NEW t \in Seq(R)
  PROVE  IsStrictPrefix(s, t) <=> Len(s) < Len(t) /\ \A i \in 1..Len(s) : t[i] = s[i]
<1> DEFINE u == SubSeq(s, 1, Len(s))
           v == SubSeq(t, 1, Len(s))
<1>1. Len(s) \in Nat /\ Len(t) \in Nat /\ DOMAIN s = 1..Len(s) /\ DOMAIN t = 1..Len(t)
  OBVIOUS
<1>2. u = s
  BY SubSeqFull
<1>3. CASE Len(s) <= Len(t)
  <2>1. v \in Seq(R) /\ Len(v) = Len(s) /\ \A i \in 1..Len(s) : v[i] = t[i]
    BY <1>1, <1>3
  <2>2. u = v <=> \A i \in 1..Len(s) : t[i] = s[i]
    <3>1. (\A i \in 1..Len(s) : t[i] = s[i]) => s = v
      BY <2>1, SeqEqual
    <3>2. s = v => \A i \in 1..Len(s) : t[i] = s[i]
      BY <2>1
    <3> QED
      BY <1>2, <3>1, <3>2
  <2>3. Len(s) = Len(t) /\ (\A i \in 1..Len(s) : t[i] = s[i]) => s = t
    BY SeqEqual
  <2> HIDE DEF u, v
  <2>4. IsPrefix(s, t) <=> u = v
    BY <1>3 DEF IsPrefix, u, v
  <2>5. Len(s) < Len(t) => s # t
    BY <1>1
  <2> DEFINE Same == \A i \in 1..Len(s) : t[i] = s[i]
  <2>6. IsPrefix(s, t) <=> Same
    BY <2>2, <2>4
  <2>7. Len(s) = Len(t) /\ Same => s = t
    BY <2>3
  <2> HIDE DEF Same
  <2>8. IsStrictPrefix(s, t) => Len(s) < Len(t) /\ Same
    <3> SUFFICES ASSUME IsStrictPrefix(s, t) PROVE Len(s) < Len(t) /\ Same
      OBVIOUS
    <3>1. Same /\ s # t
      BY <2>6 DEF IsStrictPrefix
    <3>2. Len(s) # Len(t)
      BY <2>7, <3>1
    <3>3. Len(s) < Len(t)
      <4>1. Len(s) \in Nat /\ Len(t) \in Nat
        BY <1>1
      <4>2. Len(s) <= Len(t) /\ Len(s) # Len(t)
        BY <1>3, <3>2
      <4> QED
        BY <4>1, <4>2
    <3> QED
      BY <3>1, <3>3
  <2>9. Len(s) < Len(t) /\ Same => IsStrictPrefix(s, t)
    BY <2>5, <2>6 DEF IsStrictPrefix
  <2> QED
    BY <2>8, <2>9 DEF Same
<1>4. CASE ~(Len(s) <= Len(t))
  BY <1>1, <1>4 DEF IsStrictPrefix, IsPrefix
<1> QED
  BY <1>3, <1>4

(* The name after a prefix of a path leads to the path or to a folder of it. *)
LEMMA NextName ==
  ASSUME NEW p \in Paths, NEW prefix \in Seq(1..Names), IsStrictPrefix(prefix, p)
  PROVE  LET n == p[Len(prefix) + 1]
             full == Append(prefix, n)
         IN  /\ n \in 1..Names /\ full \in Seq(1..Names) /\ full # <<>>
             /\ full # p => IsStrictPrefix(full, p) /\ full \notin Paths
<1> DEFINE n == p[Len(prefix) + 1]
           full == Append(prefix, n)
<1>0. p \in Seq(1..Names) /\ Len(p) \in Nat /\ Len(prefix) \in Nat /\ DOMAIN p = 1..Len(p)
  BY BackupAssumption
<1>1. Len(prefix) < Len(p) /\ \A i \in 1..Len(prefix) : p[i] = prefix[i]
  BY <1>0, StrictPrefixIs
<1>2. Len(prefix) + 1 \in 1..Len(p)
  BY <1>0, <1>1
<1>3. n \in 1..Names
  BY <1>0, <1>2, ElementOfSeq
<1> HIDE DEF n
<1>4. full \in Seq(1..Names) /\ Len(full) = Len(prefix) + 1 /\ full[Len(prefix) + 1] = n
      /\ \A i \in 1..Len(prefix) : full[i] = prefix[i]
  BY <1>3
<1>5. full # <<>>
  BY <1>0, <1>4
<1> HIDE DEF full
<1>6. \A i \in 1..Len(full) : p[i] = full[i]
  <2> SUFFICES ASSUME NEW i \in 1..Len(full) PROVE p[i] = full[i]
    OBVIOUS
  <2>1. i \in 1..Len(prefix) \/ i = Len(prefix) + 1
    BY <1>0, <1>4
  <2> QED
    BY <1>1, <1>4, <2>1 DEF n
<1>7. ASSUME full # p PROVE IsStrictPrefix(full, p) /\ full \notin Paths
  <2>1. Len(full) <= Len(p)
    BY <1>0, <1>1, <1>4
  <2>2. Len(full) # Len(p)
    BY <1>0, <1>4, <1>6, <1>7, SeqEqual
  <2>3. Len(full) < Len(p)
    <3>1. Len(full) \in Nat
      BY <1>0, <1>4
    <3> QED
      BY <1>0, <2>1, <2>2, <3>1
  <2>4. IsStrictPrefix(full, p)
    BY <1>0, <1>4, <1>6, <2>3, StrictPrefixIs
  <2>5. IsPrefix(full, p)
    BY <2>4 DEF IsStrictPrefix
  <2> QED
    BY <1>7, <2>4, <2>5, BackupAssumption
<1> QED
  BY <1>3, <1>4, <1>5, <1>7 DEF full, n

LEMMA NamesAreSome ==
  ASSUME NEW b, NEW prefix \in Seq(1..Names), NEW files
  PROVE  /\ NamesUnder(b, prefix, files) \in SUBSET (1..Names)
         /\ \A p \in Paths : <<b, p>> \in DOMAIN files /\ IsStrictPrefix(prefix, p)
                               => p[Len(prefix) + 1] \in NamesUnder(b, prefix, files)
         /\ \A more : {k \in DOMAIN files : k[1] = b} \subseteq DOMAIN more
                        => NamesUnder(b, prefix, files) \subseteq NamesUnder(b, prefix, more)
<1>1. \A p \in Below(b, prefix, files) : p \in Paths /\ IsStrictPrefix(prefix, p)
  BY DEF Below
<1>2. \A p \in Below(b, prefix, files) : p[Len(prefix) + 1] \in 1..Names
  BY <1>1, NextName
<1>3. NamesUnder(b, prefix, files) \in SUBSET (1..Names)
  BY <1>2 DEF NamesUnder
<1>4. \A p \in Paths : <<b, p>> \in DOMAIN files /\ IsStrictPrefix(prefix, p)
                         => p[Len(prefix) + 1] \in NamesUnder(b, prefix, files)
  BY DEF NamesUnder, Below
<1>5. \A more : {k \in DOMAIN files : k[1] = b} \subseteq DOMAIN more
                  => NamesUnder(b, prefix, files) \subseteq NamesUnder(b, prefix, more)
  <2> SUFFICES ASSUME NEW more, {k \in DOMAIN files : k[1] = b} \subseteq DOMAIN more
               PROVE  Below(b, prefix, files) \subseteq Below(b, prefix, more)
    BY DEF NamesUnder
  <2> QED
    BY DEF Below
<1> QED
  BY <1>3, <1>4, <1>5

(* Ranks: from 1 on, one for each name, and never less among more names.   *)
LEMMA RankIs ==
  ASSUME NEW K \in SUBSET (1..Names)
  PROVE  /\ IsFiniteSet(K) /\ Cardinality(K) \in Nat
         /\ \A n \in K : Rank(n, K) \in 1..Cardinality(K)
         /\ \A k \in 1..Cardinality(K) : NthOf(K, k) \in K /\ Rank(NthOf(K, k), K) = k
         /\ \A m, n \in K : Rank(m, K) = Rank(n, K) => m = n
         /\ \A L \in SUBSET K : \A n \in K : Rank(n, L) <= Rank(n, K) /\ Rank(n, L) \in Nat
<1>0. Names \in Nat
  BY BackupAssumption
<1>1. /\ IsFiniteSet(K) /\ Cardinality(K) \in Nat
      /\ \A k \in 1..Cardinality(K) : NthOf(K, k) \in K
      /\ \A k \in 1..Cardinality(K) : Cardinality({m \in K : m <= NthOf(K, k)}) = k
      /\ \A n \in K : \E k \in 1..Cardinality(K) : NthOf(K, k) = n
  BY <1>0, NthIsPicked
<1>2. \A k \in 1..Cardinality(K) : NthOf(K, k) \in K /\ Rank(NthOf(K, k), K) = k
  BY <1>1 DEF Rank
<1>3. \A n \in K : \E k \in 1..Cardinality(K) : NthOf(K, k) = n /\ Rank(n, K) = k
  BY <1>1, <1>2
<1>4. \A m, n \in K : Rank(m, K) = Rank(n, K) => m = n
  BY <1>3
<1>5. ASSUME NEW L \in SUBSET K, NEW n \in K PROVE Rank(n, L) <= Rank(n, K) /\ Rank(n, L) \in Nat
  <2>1. {m \in L : m <= n} \subseteq {m \in K : m <= n}
    OBVIOUS
  <2>2. IsFiniteSet({m \in K : m <= n})
    BY <1>1, FS_Subset
  <2> QED
    BY <2>1, <2>2, FS_Subset, FS_CardinalityType DEF Rank
<1> QED
  BY <1>1, <1>2, <1>3, <1>4, <1>5

(* The names a listing of a folder answers with: those whose rank is in the *)
(* page, each once, and as many as fit when there are more.                *)
PageHolds(sent, names, below, frame) ==
  /\ IsList(sent) /\ \A i \in DOMAIN sent : sent[i].name \in names
  /\ \A n \in names : frame.offset < Rank(n, names) /\ Rank(n, names) <= frame.offset + PAGE
        => \E i \in DOMAIN sent : /\ sent[i].name = n
                                  /\ sent[i].folder <=> Append(frame.prefix, n) \notin below
  /\ (\E n \in names : Rank(n, names) > frame.offset + PAGE) => Len(sent) = PAGE
LEMMA PageIs ==
  ASSUME NEW b, NEW frame, IsFrame(frame), NEW files
  PROVE  PageHolds(PageOf(b, frame, files), NamesUnder(b, frame.prefix, files),
                   Below(b, frame.prefix, files), frame)
<1> DEFINE names == NamesUnder(b, frame.prefix, files)
           offset == frame.offset
           In(n) == offset < Rank(n, names) /\ Rank(n, names) <= offset + PAGE
           on == {n \in names : In(n)}
           entry(n) == [name |-> n, folder |-> Append(frame.prefix, n) \notin Below(b, frame.prefix, files)]
           sent == PageOf(b, frame, files)
<1>0. /\ PAGE \in Nat \ {0} /\ Names \in Nat /\ offset \in Nat
      /\ names \in SUBSET (1..Names) /\ on \in SUBSET names
  BY BackupAssumption, NamesAreSome DEF IsFrame
<1>1. sent = [i \in 1..Cardinality(on) |-> entry(NthOf(on, i))]
  BY DEF PageOf
<1>2. /\ Cardinality(on) \in Nat /\ IsFiniteSet(on)
      /\ \A i \in 1..Cardinality(on) : NthOf(on, i) \in on
      /\ \A n \in on : \E i \in 1..Cardinality(on) : NthOf(on, i) = n
  <2>1. on \in SUBSET (1..Names)
    BY <1>0
  <2> HIDE DEF on
  <2> QED
    BY <1>0, <2>1, NthIsPicked
<1>3. /\ Cardinality(names) \in Nat /\ IsFiniteSet(names)
      /\ \A n \in names : Rank(n, names) \in 1..Cardinality(names)
      /\ \A k \in 1..Cardinality(names) : NthOf(names, k) \in names /\ Rank(NthOf(names, k), names) = k
      /\ \A m, n \in names : Rank(m, names) = Rank(n, names) => m = n
  <2> HIDE DEF names
  <2> QED
    BY <1>0, RankIs
<1>4. \A n \in names : n \in on <=> In(n)
  OBVIOUS
<1>5. ASSUME \E n \in names : Rank(n, names) > offset + PAGE
      PROVE  Cardinality(on) = PAGE
  <2> DEFINE ranks == (offset + 1)..(offset + PAGE)
             f == [k \in ranks |-> NthOf(names, k)]
  <2>1. PICK n \in names : Rank(n, names) > offset + PAGE
    BY <1>5
  <2>2. ranks \subseteq 1..Cardinality(names)
    <3>1. Rank(n, names) \in 1..Cardinality(names)
      BY <1>3
    <3>2. offset + PAGE <= Cardinality(names)
      <4> HIDE DEF names
      <4> QED
        BY <1>0, <1>3, <2>1, <3>1
    <3> HIDE DEF names
    <3> QED
      BY <1>0, <1>3, <3>2
  <2>3. \A k \in ranks : NthOf(names, k) \in names /\ Rank(NthOf(names, k), names) = k
    BY <1>3, <2>2
  <2> HIDE DEF names
  <2>4. \A k \in ranks : NthOf(names, k) \in on
    <3> SUFFICES ASSUME NEW k \in ranks PROVE In(NthOf(names, k))
      BY <1>4, <2>3
    <3>1. k \in Nat /\ offset < k /\ k <= offset + PAGE
      BY <1>0
    <3>2. Rank(NthOf(names, k), names) = k
      BY <2>3
    <3> QED
      BY <3>1, <3>2
  <2> HIDE DEF on
  <2>5. f \in [ranks -> on]
    BY <2>4
  <2>6. \A j, k \in ranks : f[j] = f[k] => j = k
    BY <2>3
  <2>7. \A m \in on : \E k \in ranks : f[k] = m
    <3> SUFFICES ASSUME NEW m \in on PROVE \E k \in ranks : f[k] = m
      OBVIOUS
    <3>1. m \in names /\ In(m)
      BY DEF on
    <3>2. Rank(m, names) \in ranks
      <4>1. Rank(m, names) \in Nat
        BY <1>3, <3>1
      <4> QED
        BY <1>0, <3>1, <4>1
    <3>3. NthOf(names, Rank(m, names)) \in names
          /\ Rank(NthOf(names, Rank(m, names)), names) = Rank(m, names)
      BY <2>3, <3>2
    <3>4. NthOf(names, Rank(m, names)) = m
      BY <1>3, <3>1, <3>3
    <3> QED
      BY <3>2, <3>4
  <2> HIDE DEF f
  <2>8. f \in Bijection(ranks, on)
    BY <2>5, <2>6, <2>7 DEF Bijection, Injection, Surjection, IsInjective
  <2>9. IsFiniteSet(ranks) /\ Cardinality(ranks) = PAGE
    <3> DEFINE low == offset + 1
               high == offset + PAGE
    <3>1. low \in Int /\ high \in Int /\ ~(low > high) /\ high - low + 1 = PAGE
      BY <1>0
    <3>2. ranks = low..high
      OBVIOUS
    <3> HIDE DEF ranks, low, high
    <3> QED
      BY <3>1, <3>2, FS_Interval
  <2> HIDE DEF ranks
  <2> QED
    BY <2>8, <2>9, FS_Bijection DEF ExistsBijection
<1> HIDE DEF on
<1>6. IsList(sent) /\ Len(sent) = Cardinality(on) /\ DOMAIN sent = 1..Cardinality(on)
  <2> DEFINE M == Cardinality(on)
  <2>1. sent = [i \in 1..M |-> sent[i]] /\ M \in Nat
    BY <1>1, <1>2
  <2> HIDE DEF M, sent
  <2>2. IsList(sent) /\ Len(sent) = M /\ DOMAIN sent = 1..M
    BY <2>1, ListOfRange
  <2> QED
    BY <2>2 DEF M
<1>7. \A i \in 1..Cardinality(on) : sent[i] = entry(NthOf(on, i))
  BY <1>1
<1>8. \A n \in on : n \in names
  BY DEF on
<1> HIDE DEF sent
<1>9. \A i \in DOMAIN sent : sent[i].name \in names
  BY <1>2, <1>6, <1>7, <1>8
<1>10. \A n \in names : In(n) => \E i \in DOMAIN sent : sent[i] = entry(n)
  BY <1>2, <1>4, <1>6, <1>7
<1>11. \A n \in names : In(n) =>
          \E i \in DOMAIN sent :
             /\ sent[i].name = n
             /\ sent[i].folder <=> Append(frame.prefix, n) \notin Below(b, frame.prefix, files)
  <2> SUFFICES ASSUME NEW n \in names, In(n), NEW i \in DOMAIN sent, sent[i] = entry(n)
               PROVE  /\ sent[i].name = n
                      /\ sent[i].folder <=> Append(frame.prefix, n) \notin Below(b, frame.prefix, files)
    BY <1>10
  <2> DEFINE folder == Append(frame.prefix, n) \notin Below(b, frame.prefix, files)
  <2>1. sent[i] = [name |-> n, folder |-> folder]
    OBVIOUS
  <2>2. sent[i].folder = folder
    BY <2>1
  <2>3. sent[i].folder <=> folder
    BY <2>2
  <2> QED
    BY <2>1, <2>3
<1> HIDE DEF names
<1>12. PageHolds(sent, names, Below(b, frame.prefix, files), frame)
  BY <1>5, <1>6, <1>9, <1>11 DEF PageHolds
<1> QED
  BY <1>12 DEF sent, names

(* A list without its first, and without its last. *)
LEMMA ListRests ==
  ASSUME NEW q, IsList(q), q # <<>>
  PROVE  /\ IsList(Tail(q)) /\ Head(q) = q[1] /\ Len(q) \in Nat \ {0} /\ 1 \in DOMAIN q
         /\ DOMAIN q = 1..Len(q) /\ Len(Tail(q)) = Len(q) - 1
         /\ \A i \in DOMAIN q : i # 1 => i - 1 \in DOMAIN Tail(q) /\ Tail(q)[i - 1] = q[i]
         /\ \A i \in DOMAIN Tail(q) : i + 1 \in DOMAIN q /\ Tail(q)[i] = q[i + 1]
<1>1. PICK R : q \in Seq(R)
  BY DEF IsList
<1>2. Len(q) \in Nat \ {0} /\ DOMAIN q = 1..Len(q)
  BY <1>1, EmptySeq
<1>3. /\ Tail(q) \in Seq(R) /\ Len(Tail(q)) = Len(q) - 1
      /\ \A i \in 1..Len(Tail(q)) : Tail(q)[i] = q[i + 1]
  BY <1>1, HeadTailProperties
<1>4. DOMAIN Tail(q) = 1..(Len(q) - 1)
  BY <1>3
<1>5. Head(q) = q[1]
  BY <1>1
<1>6. \A i \in DOMAIN Tail(q) : i + 1 \in DOMAIN q /\ Tail(q)[i] = q[i + 1]
  BY <1>2, <1>3, <1>4
<1>7. \A i \in DOMAIN q : i # 1 => i - 1 \in DOMAIN Tail(q) /\ Tail(q)[i - 1] = q[i]
  <2> SUFFICES ASSUME NEW i \in DOMAIN q, i # 1
               PROVE  i - 1 \in DOMAIN Tail(q) /\ Tail(q)[i - 1] = q[i]
    OBVIOUS
  <2>1. i - 1 \in 1..(Len(q) - 1) /\ (i - 1) + 1 = i
    BY <1>2
  <2> QED
    BY <1>4, <1>6, <2>1
<1> QED
  BY <1>2, <1>3, <1>5, <1>6, <1>7 DEF IsList

LEMMA ListEnds ==
  ASSUME NEW q, IsList(q), q # <<>>
  PROVE  /\ IsList(Front(q)) /\ Len(q) \in Nat \ {0} /\ Len(q) \in DOMAIN q
         /\ DOMAIN q = 1..Len(q) /\ DOMAIN Front(q) = 1..(Len(q) - 1) /\ Len(Front(q)) = Len(q) - 1
         /\ \A i \in DOMAIN Front(q) : Front(q)[i] = q[i]
<1>1. Len(q) \in Nat \ {0} /\ DOMAIN q = 1..Len(q)
  BY EmptySeq DEF IsList
<1>2. Len(q) - 1 \in 0..Len(q)
  BY <1>1
<1>3. /\ IsList(SubSeq(q, 1, Len(q) - 1)) /\ Len(SubSeq(q, 1, Len(q) - 1)) = Len(q) - 1
      /\ DOMAIN SubSeq(q, 1, Len(q) - 1) = 1..(Len(q) - 1)
      /\ \A n \in 1..(Len(q) - 1) : SubSeq(q, 1, Len(q) - 1)[n] = q[n]
  BY <1>2, ListBegins
<1> QED
  BY <1>1, <1>3 DEF Front

(* A file that is ahead stays so while nothing is removed from its bucket. *)
LEMMA AheadStays ==
  ASSUME NEW b, NEW frame, IsFrame(frame), NEW p \in Paths, NEW files, NEW more,
         <<b, p>> \in DOMAIN files, {k \in DOMAIN files : k[1] = b} \subseteq DOMAIN more,
         Ahead(frame, b, p, files)
  PROVE  Ahead(frame, b, p, more)
<1> DEFINE n == p[Len(frame.prefix) + 1]
           K == NamesUnder(b, frame.prefix, more)
           L == NamesUnder(b, frame.prefix, files)
<1>1. IsStrictPrefix(frame.prefix, p) /\ frame.prefix \in Seq(1..Names) /\ frame.offset \in Nat
  BY DEF Ahead, IsFrame
<1>2. K \in SUBSET (1..Names) /\ L \in SUBSET K /\ n \in L
  BY <1>1, NamesAreSome
<1>3. Rank(n, L) <= Rank(n, K) /\ Rank(n, L) \in Nat /\ Rank(n, K) \in Nat
  <2> HIDE DEF K, L, n
  <2> QED
    BY <1>2, RankIs
<1>4. frame.offset < Rank(n, L) => frame.offset < Rank(n, K)
  <2> HIDE DEF K, L, n
  <2> QED
    BY <1>1, <1>3
<1> QED
  BY <1>4 DEF Ahead

LEMMA AfterIsFrame ==
  ASSUME NEW b, NEW frame, IsFrame(frame), NEW files,
         NEW sent \in {<<>>, PageOf(b, frame, files)}
  PROVE  LET after == After(frame, sent)
         IN  /\ IsFrame(after) /\ after.prefix = frame.prefix /\ after # Frame(<<>>)
             /\ after.rest = sent /\ after.offset = frame.offset + PAGE
             /\ after.more = (Len(sent) = PAGE)
<1> DEFINE after == After(frame, sent)
           more == Len(sent) = PAGE
<1>0. /\ PAGE \in Nat \ {0}
      /\ frame = [prefix |-> frame.prefix, offset |-> frame.offset, rest |-> frame.rest, more |-> frame.more]
      /\ frame.prefix \in Seq(1..Names) /\ frame.offset \in Nat
  BY BackupAssumption DEF IsFrame
<1>1. after = [prefix |-> frame.prefix, offset |-> frame.offset + PAGE, rest |-> sent, more |-> more]
  BY <1>0 DEF After
<1>2. IsList(sent) /\ \A i \in DOMAIN sent : sent[i].name \in 1..Names
  <2>1. CASE sent = <<>>
    <3>1. IsList(sent)
      BY <2>1, EmptySeq DEF IsList
    <3>2. DOMAIN sent = {}
      BY <2>1
    <3> QED
      BY <3>1, <3>2
  <2>2. CASE sent = PageOf(b, frame, files)
    <3> DEFINE names == NamesUnder(b, frame.prefix, files)
    <3>1. IsList(PageOf(b, frame, files)) /\ \A i \in DOMAIN PageOf(b, frame, files) :
              PageOf(b, frame, files)[i].name \in names
      BY PageIs DEF PageHolds
    <3>2. names \in SUBSET (1..Names)
      BY <1>0, NamesAreSome
    <3> HIDE DEF names
    <3> QED
      BY <2>2, <3>1, <3>2
  <2> QED
    BY <2>1, <2>2
<1>3. frame.offset + PAGE \in Nat /\ frame.offset + PAGE # 0
  BY <1>0
<1> HIDE DEF after, more
<1>4. after.offset # 0
  BY <1>1, <1>3
<1>5. after # Frame(<<>>)
  BY <1>4 DEF Frame
<1>6. IsFrame(after)
  BY <1>0, <1>1, <1>2, <1>3 DEF IsFrame
<1> QED
  BY <1>1, <1>5, <1>6 DEF after, more

(* A page takes the next names; a file that is not in it comes after it.   *)
LEMMA AheadOfPage ==
  ASSUME NEW b, NEW frame, IsFrame(frame), NEW p \in Paths, NEW files, <<b, p>> \in DOMAIN files,
         Ahead(frame, b, p, files), frame.rest = <<>>
  PROVE  Ahead(After(frame, PageOf(b, frame, files)), b, p, files)
<1> DEFINE n == p[Len(frame.prefix) + 1]
           names == NamesUnder(b, frame.prefix, files)
           sent == PageOf(b, frame, files)
           after == After(frame, sent)
           full == Append(frame.prefix, n)
<1>1. IsStrictPrefix(frame.prefix, p) /\ frame.prefix \in Seq(1..Names) /\ frame.offset \in Nat
      /\ PAGE \in Nat
  BY BackupAssumption DEF Ahead, IsFrame
<1>2. frame.offset < Rank(n, names)
  <2>1. DOMAIN frame.rest = {}
    OBVIOUS
  <2> QED
    BY <2>1 DEF Ahead
<1>3. names \in SUBSET (1..Names) /\ n \in names
  BY <1>1, NamesAreSome
<1>4. Rank(n, names) \in Nat
  <2> HIDE DEF names, n
  <2> QED
    BY <1>3, RankIs
<1>5. full # p => full \notin Paths
  BY <1>1, NextName
<1>6. full \notin Below(b, frame.prefix, files) <=> full # p
  <2>1. p \in Below(b, frame.prefix, files)
    BY <1>1 DEF Below
  <2>2. Below(b, frame.prefix, files) \subseteq Paths
    BY DEF Below
  <2> QED
    BY <1>5, <2>1, <2>2
<1>7. /\ after.prefix = frame.prefix /\ after.rest = sent /\ after.offset = frame.offset + PAGE
      /\ after.more = (Len(sent) = PAGE)
  BY AfterIsFrame
<1>8. /\ frame.offset < Rank(n, names) /\ Rank(n, names) <= frame.offset + PAGE
           => \E i \in DOMAIN sent : /\ sent[i].name = n
                                     /\ sent[i].folder <=> full \notin Below(b, frame.prefix, files)
      /\ Rank(n, names) > frame.offset + PAGE => Len(sent) = PAGE
  <2> DEFINE below == Below(b, frame.prefix, files)
  <2>1. PageHolds(sent, names, below, frame)
    BY PageIs
  <2> HIDE DEF names, sent, n, below
  <2>2. /\ frame.offset < Rank(n, names) /\ Rank(n, names) <= frame.offset + PAGE
           => \E i \in DOMAIN sent : /\ sent[i].name = n
                                     /\ sent[i].folder <=> full \notin below
        /\ Rank(n, names) > frame.offset + PAGE => Len(sent) = PAGE
    BY <1>3, <2>1 DEF PageHolds
  <2> QED
    BY <2>2 DEF below
<1> HIDE DEF names, sent, after, full, n
<1>9. CASE Rank(n, names) <= frame.offset + PAGE
  <2>1. PICK i \in DOMAIN sent : sent[i].name = n /\ (sent[i].folder <=> full # p)
    BY <1>2, <1>6, <1>8, <1>9
  <2>2. i \in DOMAIN after.rest /\ after.rest[i].name = n /\ (after.rest[i].folder <=> full # p)
    BY <1>7, <2>1
  <2>3. Ahead(after, b, p, files)
    BY <1>1, <1>7, <2>2 DEF Ahead, n, full
  <2> QED
    BY <2>3 DEF after, sent
<1>10. CASE ~(Rank(n, names) <= frame.offset + PAGE)
  <2>1. Rank(n, names) > frame.offset + PAGE
    BY <1>1, <1>4, <1>10
  <2>2. after.more /\ after.offset < Rank(n, names)
    BY <1>1, <1>4, <1>7, <1>8, <2>1
  <2>3. Ahead(after, b, p, files)
    BY <1>1, <1>7, <2>2 DEF Ahead, n, names
  <2> QED
    BY <2>3 DEF after, sent
<1> QED
  BY <1>9, <1>10

(* A folder that begins to be listed has all its files ahead.              *)
LEMMA AheadOfAll ==
  ASSUME NEW b, NEW prefix \in Seq(1..Names), NEW p \in Paths, NEW files,
         <<b, p>> \in DOMAIN files, IsStrictPrefix(prefix, p)
  PROVE  Ahead(Frame(prefix), b, p, files)
<1> DEFINE n == p[Len(prefix) + 1]
           names == NamesUnder(b, prefix, files)
<1>1. names \in SUBSET (1..Names) /\ n \in names
  BY NamesAreSome
<1>2. 0 < Rank(n, names)
  <2> HIDE DEF names, n
  <2>1. Rank(n, names) \in 1..Cardinality(names) /\ Cardinality(names) \in Nat
    BY <1>1, RankIs
  <2> QED
    BY <2>1
<1> QED
  BY <1>2 DEF Ahead, Frame

(* The next entry of a page: a file ahead is that file, or in that folder, *)
(* or still ahead.                                                         *)
LEMMA AheadOfNext ==
  ASSUME NEW b, NEW frame, IsFrame(frame), NEW p \in Paths, NEW files, <<b, p>> \in DOMAIN files,
         Ahead(frame, b, p, files), frame.rest # <<>>
  PROVE  LET entry == Head(frame.rest)
             full == Append(frame.prefix, entry.name)
         IN  \/ Ahead([frame EXCEPT !.rest = Tail(@)], b, p, files)
             \/ entry.folder /\ Ahead(Frame(full), b, p, files)
             \/ ~entry.folder /\ full = p
<1> DEFINE n == p[Len(frame.prefix) + 1]
           entry == Head(frame.rest)
           full == Append(frame.prefix, entry.name)
           next == [frame EXCEPT !.rest = Tail(@)]
<1>1. /\ IsStrictPrefix(frame.prefix, p) /\ frame.prefix \in Seq(1..Names)
      /\ frame = [prefix |-> frame.prefix, offset |-> frame.offset, rest |-> frame.rest, more |-> frame.more]
      /\ IsList(frame.rest)
  BY DEF Ahead, IsFrame
<1>2. /\ next.prefix = frame.prefix /\ next.offset = frame.offset /\ next.rest = Tail(frame.rest)
      /\ next.more = frame.more
  BY <1>1
<1>3. /\ Head(frame.rest) = frame.rest[1]
      /\ \A i \in DOMAIN frame.rest : i # 1 => i - 1 \in DOMAIN Tail(frame.rest)
                                              /\ Tail(frame.rest)[i - 1] = frame.rest[i]
  BY <1>1, ListRests
<1> HIDE DEF next
<1>4. CASE frame.more /\ frame.offset < Rank(n, NamesUnder(b, frame.prefix, files))
  <2>1. Ahead(next, b, p, files)
    BY <1>1, <1>2, <1>4 DEF Ahead
  <2> QED
    BY <2>1 DEF next
<1>5. ASSUME NEW i \in DOMAIN frame.rest, frame.rest[i].name = n,
             frame.rest[i].folder <=> Append(frame.prefix, n) # p
      PROVE  \/ Ahead(next, b, p, files)
             \/ entry.folder /\ Ahead(Frame(full), b, p, files)
             \/ ~entry.folder /\ full = p
  <2>1. CASE i # 1
    <3>1. i - 1 \in DOMAIN next.rest /\ next.rest[i - 1] = frame.rest[i]
      BY <1>2, <1>3, <2>1
    <3>2. Ahead(next, b, p, files)
      BY <1>1, <1>2, <1>5, <3>1 DEF Ahead
    <3> QED
      BY <3>2
  <2>2. CASE i = 1
    <3>1. entry.name = n /\ (entry.folder <=> full # p)
      BY <1>3, <1>5, <2>2
    <3>2. /\ full \in Seq(1..Names)
          /\ full # p => IsStrictPrefix(full, p)
      BY <1>1, <3>1, NextName
    <3> HIDE DEF entry, full
    <3>3. entry.folder => Ahead(Frame(full), b, p, files)
      BY <3>1, <3>2, AheadOfAll
    <3> QED
      BY <3>1, <3>3
  <2> QED
    BY <2>1, <2>2
<1>6. \/ frame.more /\ frame.offset < Rank(n, NamesUnder(b, frame.prefix, files))
      \/ \E i \in DOMAIN frame.rest : /\ frame.rest[i].name = n
                                      /\ frame.rest[i].folder <=> Append(frame.prefix, n) # p
  BY DEF Ahead
<1> QED
  BY <1>4, <1>5, <1>6 DEF next

LEMMA FramesStart ==
  ASSUME NEW prefix \in Seq(1..Names)
  PROVE  IsFrame(Frame(prefix)) /\ Frame(prefix).prefix = prefix
<1>1. IsList(<<>>) /\ DOMAIN <<>> = {}
  BY EmptySeq DEF IsList
<1>2. Frame(prefix) = [prefix |-> prefix, offset |-> 0, rest |-> <<>>, more |-> TRUE]
  BY DEF Frame
<1> HIDE DEF Frame
<1> QED
  BY <1>1, <1>2 DEF IsFrame

LEMMA FramesMove ==
  ASSUME NEW frame, IsFrame(frame), frame.rest # <<>>
  PROVE  LET next == [frame EXCEPT !.rest = Tail(@)]
             entry == Head(frame.rest)
         IN  /\ IsFrame(next) /\ next.prefix = frame.prefix /\ next # Frame(<<>>)
             /\ Append(frame.prefix, entry.name) \in Seq(1..Names)
             /\ Append(frame.prefix, entry.name) # <<>>
<1> DEFINE next == [frame EXCEPT !.rest = Tail(@)]
<1>1. /\ frame = [prefix |-> frame.prefix, offset |-> frame.offset, rest |-> frame.rest, more |-> frame.more]
      /\ frame.prefix \in Seq(1..Names) /\ frame.offset \in Nat /\ frame.offset # 0
      /\ IsList(frame.rest) /\ \A i \in DOMAIN frame.rest : frame.rest[i].name \in 1..Names
  BY DEF IsFrame
<1>2. next = [prefix |-> frame.prefix, offset |-> frame.offset, rest |-> Tail(frame.rest), more |-> frame.more]
  <2>1. DOMAIN frame = {"prefix", "offset", "rest", "more"}
    BY <1>1
  <2> QED
    BY <2>1
<1>3. /\ IsList(Tail(frame.rest)) /\ Head(frame.rest) = frame.rest[1] /\ 1 \in DOMAIN frame.rest
      /\ \A i \in DOMAIN Tail(frame.rest) : i + 1 \in DOMAIN frame.rest
                                           /\ Tail(frame.rest)[i] = frame.rest[i + 1]
  BY <1>1, ListRests
<1> HIDE DEF next
<1>4. IsFrame(next)
  <2>1. next.rest = Tail(frame.rest) /\ next.prefix = frame.prefix /\ next.offset = frame.offset
        /\ next.more = frame.more
    BY <1>2
  <2>2. \A i \in DOMAIN next.rest : next.rest[i].name \in 1..Names
    BY <1>1, <1>3, <2>1
  <2> QED
    BY <1>1, <1>2, <1>3, <2>1, <2>2 DEF IsFrame
<1>5. next # Frame(<<>>)
  <2>1. next.offset # 0
    BY <1>1, <1>2
  <2> QED
    BY <2>1 DEF Frame
<1>6. Head(frame.rest).name \in 1..Names
  BY <1>1, <1>3
<1>7. Append(frame.prefix, Head(frame.rest).name) \in Seq(1..Names)
      /\ Append(frame.prefix, Head(frame.rest).name) # <<>>
  <2> DEFINE m == Head(frame.rest).name
  <2> HIDE DEF m
  <2>1. m \in 1..Names
    BY <1>6 DEF m
  <2>2. Append(frame.prefix, m) \in Seq(1..Names) /\ Len(Append(frame.prefix, m)) = Len(frame.prefix) + 1
        /\ Len(frame.prefix) \in Nat
    BY <1>1, <2>1
  <2>3. Append(frame.prefix, m) # <<>>
    BY <2>2
  <2> QED
    BY <2>2, <2>3 DEF m
<1> QED
  BY <1>2, <1>4, <1>5, <1>7 DEF next

(* A pair of a file and its bytes names the file by bucket and path.        *)
LEMMA PairIs ==
  ASSUME NEW files, DOMAIN files \subseteq Keys, NEW pair \in BinPairs(files)
  PROVE  /\ pair[1] \in DOMAIN files /\ pair = <<pair[1], files[pair[1]]>>
         /\ pair[1] = <<pair[1][1], pair[1][2]>> /\ pair[1][1] \in Buckets /\ pair[1][2] \in Paths
<1>1. PICK k \in DOMAIN files : pair = <<k, files[k]>>
  BY DEF BinPairs
<1>2. k \in Keys
  OBVIOUS
<1> QED
  BY <1>1, <1>2 DEF Keys

(* What is noted while files come and go stays true of them.               *)
LEMMA NotedKeeps ==
  ASSUME NEW walk, NEW notes, NEW before, NEW after, IsWalk(walk), IsNotes(walk, notes, before),
         DOMAIN before \subseteq Keys
  PROVE  IsNotes(walk, Noted(notes, before, after), after)
<1> DEFINE next == Noted(notes, before, after)
           lost == {k[1] : k \in DOMAIN before \ DOMAIN after}
<1>1. next = [untouched |-> notes.untouched \cap BinPairs(after), gone |-> notes.gone \cup lost,
              ever |-> notes.ever \cup BinPairs(after), hollow |-> notes.hollow]
  BY DEF Noted
<1> HIDE DEF next
<1>2. /\ next.untouched = notes.untouched \cap BinPairs(after) /\ next.gone = notes.gone \cup lost
      /\ next.ever = notes.ever \cup BinPairs(after) /\ next.hollow = notes.hollow
  BY <1>1
<1>3. ASSUME NEW pair \in next.untouched PROVE Accounted(walk, next, pair, after)
  <2> DEFINE b == pair[1][1]
             p == pair[1][2]
  <2>1. Accounted(walk, notes, pair, before) /\ pair \in BinPairs(before)
    BY <1>2, <1>3 DEF IsNotes
  <2>2. pair[1] \in DOMAIN before /\ pair[1] = <<b, p>> /\ p \in Paths
    BY <2>1, PairIs
  <2>3. ASSUME b = Bucket(walk), Pending(walk, p, before), b \notin lost PROVE Pending(walk, p, after)
    <3>1. {k \in DOMAIN before : k[1] = b} \subseteq DOMAIN after
      BY <2>3
    <3>2. CASE \E i \in DOMAIN walk.found : walk.found[i] = p
      BY <3>2 DEF Pending
    <3>3. ASSUME NEW i \in DOMAIN walk.stack, Ahead(walk.stack[i], Bucket(walk), p, before)
          PROVE  Pending(walk, p, after)
      <4>1. IsFrame(walk.stack[i])
        BY DEF IsWalk
      <4> HIDE DEF b, p, lost
      <4>2. Ahead(walk.stack[i], Bucket(walk), p, after)
        BY <2>2, <2>3, <3>1, <3>3, <4>1, AheadStays
      <4> QED
        BY <4>2 DEF Pending
    <3> QED
      BY <2>3, <3>2, <3>3 DEF Pending
  <2> QED
    BY <1>2, <2>1, <2>3 DEF Accounted
<1>4. next.untouched \subseteq BinPairs(after) /\ BinPairs(after) \subseteq next.ever
      /\ notes.ever \subseteq next.ever
  BY <1>2
<1>5. next = [untouched |-> next.untouched, gone |-> next.gone, ever |-> next.ever, hollow |-> next.hollow]
  BY <1>1
<1>6. \A k \in next.hollow : Hollow(walk, k)
  BY <1>2 DEF IsNotes
<1>7. \A i \in DOMAIN walk.objects : <<KeyOf(walk.objects[i]), walk.objects[i].bytes>> \in next.ever
  BY <1>4 DEF IsNotes
<1>8. IsNotes(walk, next, after)
  BY <1>3, <1>4, <1>5, <1>6, <1>7 DEF IsNotes
<1> QED
  BY <1>8 DEF next

(* The buckets are listed and fetched one after another.                   *)
LEMMA BucketsInOrder ==
  /\ Len(BucketOrder) \in Nat \ {0}
  /\ \A b \in Buckets : \E k \in 1..Len(BucketOrder) : b = BucketOrder[k]
  /\ \A i, k \in 1..Len(BucketOrder) : BucketOrder[i] = BucketOrder[k] => i = k
  /\ \A k \in 1..Len(BucketOrder) : BucketOrder[k] \in Buckets
  BY BackupAssumption DEF Buckets, ToSet

LEMMA WalkBegins ==
  ASSUME NEW files, DOMAIN files \subseteq Keys
  PROVE  LET walk == [at |-> 1, stack |-> <<Frame(<<>>)>>, found |-> <<>>, objects |-> <<>>]
         IN  /\ IsWalk(walk)
             /\ IsNotes(walk, [untouched |-> BinPairs(files), gone |-> {}, ever |-> BinPairs(files),
                               hollow |-> {}], files)
<1> DEFINE root == Frame(<<>>)
           stack == <<root>>
           walk == [at |-> 1, stack |-> stack, found |-> <<>>, objects |-> <<>>]
           notes == [untouched |-> BinPairs(files), gone |-> {}, ever |-> BinPairs(files), hollow |-> {}]
<1>1. IsList(<<>>) /\ DOMAIN <<>> = {}
  BY EmptySeq DEF IsList
<1>2. <<>> \in Seq(1..Names) /\ IsFrame(root)
  BY FramesStart, EmptySeq
<1> HIDE DEF root
<1>3. IsList(stack) /\ DOMAIN stack = 1..1 /\ Len(stack) = 1 /\ stack[1] = root /\ stack # <<>>
  <2>1. stack \in Seq({root}) /\ Len(stack) = 1 /\ stack[1] = root
    OBVIOUS
  <2> HIDE DEF stack
  <2>2. DOMAIN stack = 1..1 /\ stack # <<>>
    BY <2>1, EmptySeq
  <2> QED
    BY <2>1, <2>2 DEF IsList
<1> HIDE DEF stack
<1>4. walk.at = 1 /\ walk.stack = stack /\ walk.found = <<>> /\ walk.objects = <<>>
  OBVIOUS
<1>5. walk = [at |-> walk.at, stack |-> walk.stack, found |-> walk.found, objects |-> walk.objects]
  OBVIOUS
<1> HIDE DEF walk
<1>6. IsWalk(walk)
  <2>1. walk.at \in 1..Len(BucketOrder)
    BY <1>4, BucketsInOrder
  <2>2. IsObjects(walk.objects)
    BY <1>1, <1>4 DEF IsObjects
  <2>3. \A i \in DOMAIN walk.stack : i = 1 /\ IsFrame(walk.stack[i])
    BY <1>2, <1>3, <1>4
  <2> QED
    BY <1>1, <1>3, <1>4, <1>5, <2>1, <2>2, <2>3 DEF IsWalk
<1>7. ASSUME NEW pair \in BinPairs(files) PROVE Accounted(walk, notes, pair, files)
  <2> DEFINE b == pair[1][1]
             p == pair[1][2]
  <2>1. pair[1] \in DOMAIN files /\ pair[1] = <<b, p>> /\ b \in Buckets /\ p \in Paths
    BY PairIs
  <2> HIDE DEF b, p
  <2>2. PICK k \in 1..Len(BucketOrder) : b = BucketOrder[k]
    BY <2>1, BucketsInOrder
  <2>3. CASE k = 1
    <3>1. IsStrictPrefix(<<>>, p)
      <4>1. p \in Seq(1..Names) /\ p # <<>>
        BY <2>1, BackupAssumption
      <4>2. Len(p) \in Nat /\ Len(p) > 0 /\ Len(<<>>) = 0
        BY <4>1, EmptySeq
      <4>3. \A i \in 1..Len(<<>>) : p[i] = <<>>[i]
        BY <4>2
      <4> QED
        BY <1>2, <4>1, <4>2, <4>3, StrictPrefixIs
    <3>2. Ahead(root, b, p, files)
      BY <1>2, <2>1, <3>1, AheadOfAll DEF root
    <3>3. Pending(walk, p, files) /\ b = Bucket(walk)
      BY <1>3, <1>4, <2>2, <2>3, <3>2 DEF Pending, Bucket
    <3> QED
      BY <3>3 DEF Accounted, b, p
  <2>4. CASE k # 1
    <3>1. k \in 2..Len(BucketOrder)
      BY <2>4, BucketsInOrder
    <3>2. Later(walk, b)
      BY <1>4, <2>2, <3>1 DEF Later
    <3> QED
      BY <3>2 DEF Accounted, b
  <2> QED
    BY <2>3, <2>4
<1>8. IsNotes(walk, notes, files)
  <2>1. notes.untouched = BinPairs(files) /\ notes.ever = BinPairs(files) /\ notes.hollow = {}
    OBVIOUS
  <2>2. notes = [untouched |-> notes.untouched, gone |-> notes.gone, ever |-> notes.ever, hollow |-> notes.hollow]
    OBVIOUS
  <2> HIDE DEF notes
  <2> QED
    BY <1>1, <1>4, <1>7, <2>1, <2>2 DEF IsNotes
<1> QED
  BY <1>6, <1>8 DEF walk, stack, root

(* A walk that goes on in its bucket and loses no file keeps account.      *)
HollowEnds(walk) ==
  /\ walk.found = <<>>
  /\ \/ walk.stack = <<>>
     \/ Len(walk.stack) = 1 /\ walk.stack[1].rest = <<>> /\ ~walk.stack[1].more
LEMMA SameBucket ==
  ASSUME NEW walk, NEW next, NEW notes, NEW files, IsNotes(walk, notes, files),
         DOMAIN files \subseteq Keys, next.at = walk.at, next.objects = walk.objects,
         Bucket(walk) \in notes.hollow => HollowEnds(next),
         \A p \in Paths : <<Bucket(walk), p>> \in DOMAIN files /\ Pending(walk, p, files)
                            => Pending(next, p, files)
  PROVE  IsNotes(next, notes, files)
<1>1. Bucket(next) = Bucket(walk) /\ \A b : Later(next, b) <=> Later(walk, b)
  BY DEF Bucket, Later
<1>2. ASSUME NEW b \in notes.hollow PROVE Hollow(next, b)
  <2>1. Hollow(walk, b)
    BY <1>2 DEF IsNotes
  <2> QED
    BY <1>1, <1>2, <2>1 DEF Hollow, HollowEnds
<1>3. ASSUME NEW pair \in notes.untouched PROVE Accounted(next, notes, pair, files)
  <2>1. Accounted(walk, notes, pair, files) /\ pair \in BinPairs(files)
    BY DEF IsNotes
  <2>2. /\ pair[1] \in DOMAIN files /\ pair[1] = <<pair[1][1], pair[1][2]>>
        /\ pair[1][2] \in Paths
    BY <2>1, PairIs
  <2>3. pair[1][1] = Bucket(walk) /\ Pending(walk, pair[1][2], files) => Pending(next, pair[1][2], files)
    BY <2>2
  <2> QED
    BY <1>1, <2>1, <2>3 DEF Accounted
<1> QED
  BY <1>2, <1>3 DEF IsNotes

(* The folder on top of a walk, and the walk with that folder changed.     *)
LEMMA TopIs ==
  ASSUME NEW walk, IsWalk(walk), walk.stack # <<>>, NEW frame, IsFrame(frame),
         frame.prefix = Top(walk).prefix, frame # Frame(<<>>)
  PROVE  LET next == WithTop(walk, frame)
             top == Len(walk.stack)
         IN  /\ IsWalk(next) /\ next.at = walk.at /\ next.objects = walk.objects /\ next.found = walk.found
             /\ DOMAIN next.stack = DOMAIN walk.stack /\ Len(next.stack) = top /\ next.stack # <<>>
             /\ top \in Nat \ {0} /\ top \in DOMAIN walk.stack /\ next.stack[top] = frame
             /\ next.stack[1] # Frame(<<>>) /\ IsList(next.stack) /\ DOMAIN next.stack = 1..top
             /\ \A i \in DOMAIN walk.stack : i # top => next.stack[i] = walk.stack[i]
<1> DEFINE next == WithTop(walk, frame)
           top == Len(walk.stack)
           stack == [walk.stack EXCEPT ![top] = frame]
<1>1. /\ walk = [at |-> walk.at, stack |-> walk.stack, found |-> walk.found, objects |-> walk.objects]
      /\ IsList(walk.stack)
  BY DEF IsWalk
<1>2. next = [at |-> walk.at, stack |-> stack, found |-> walk.found, objects |-> walk.objects]
  <2>1. DOMAIN walk = {"at", "stack", "found", "objects"}
    BY <1>1
  <2> QED
    BY <2>1 DEF WithTop
<1>3. top \in Nat \ {0} /\ top \in DOMAIN walk.stack /\ DOMAIN walk.stack = 1..top /\ 1 \in DOMAIN walk.stack
  BY <1>1, ListEnds
<1>4. IsList(stack) /\ Len(stack) = top /\ DOMAIN stack = DOMAIN walk.stack
  BY <1>1, <1>3, ListChanges
<1>5. stack[top] = frame /\ \A i \in DOMAIN walk.stack : i # top => stack[i] = walk.stack[i]
  BY <1>3
<1>6. stack # <<>>
  <2> HIDE DEF stack
  <2> QED
    BY <1>3, <1>4, EmptySeq
<1> HIDE DEF stack, next
<1>7. next.at = walk.at /\ next.stack = stack /\ next.found = walk.found /\ next.objects = walk.objects
  BY <1>2
<1>8. walk.stack[1] = Frame(<<>>) => top = 1
  BY DEF IsWalk
<1>9. stack[1] # Frame(<<>>)
  <2>1. CASE top = 1
    BY <1>5, <2>1
  <2>2. CASE top # 1
    BY <1>3, <1>5, <1>8, <2>2
  <2> QED
    BY <2>1, <2>2
<1>10. \A i \in DOMAIN stack : IsFrame(stack[i]) /\ (stack[i].prefix = <<>> => i = 1)
  <2> SUFFICES ASSUME NEW i \in DOMAIN stack
               PROVE  IsFrame(stack[i]) /\ (stack[i].prefix = <<>> => i = 1)
    OBVIOUS
  <2>1. IsFrame(walk.stack[i]) /\ (walk.stack[i].prefix = <<>> => i = 1)
    BY <1>4 DEF IsWalk
  <2>2. CASE i = top
    BY <1>5, <2>1, <2>2 DEF Top
  <2>3. CASE i # top
    BY <1>4, <1>5, <2>1, <2>3
  <2> QED
    BY <2>2, <2>3
<1>11. IsWalk(next)
  <2>1. /\ walk.at \in 1..Len(BucketOrder) /\ IsList(walk.found) /\ IsObjects(walk.objects)
        /\ \A i \in DOMAIN walk.objects : \E k \in 1..walk.at :
              walk.objects[i].bucket = BucketOrder[k] /\ (walk.stack # <<>> => k < walk.at)
    BY DEF IsWalk
  <2>2. \A i \in DOMAIN walk.objects : \E k \in 1..walk.at :
              walk.objects[i].bucket = BucketOrder[k] /\ k < walk.at
    BY <2>1
  <2>3. next = [at |-> next.at, stack |-> next.stack, found |-> next.found, objects |-> next.objects]
    BY <1>2, <1>7
  <2>4. \A i \in DOMAIN next.objects : \E k \in 1..next.at :
              next.objects[i].bucket = BucketOrder[k] /\ (next.stack # <<>> => k < next.at)
    BY <1>7, <2>2
  <2>5. /\ next.at \in 1..Len(BucketOrder) /\ IsList(next.stack) /\ IsList(next.found)
        /\ IsObjects(next.objects)
    BY <1>4, <1>7, <2>1
  <2>6. \A i \in DOMAIN next.stack : IsFrame(next.stack[i]) /\ (next.stack[i].prefix = <<>> => i = 1)
    BY <1>7, <1>10
  <2>7. next.stack[1] # Frame(<<>>)
    BY <1>7, <1>9
  <2> QED
    BY <2>3, <2>4, <2>5, <2>6, <2>7 DEF IsWalk
<1> QED
  BY <1>3, <1>4, <1>5, <1>6, <1>7, <1>9, <1>11 DEF next

LEMMA ListKeeps ==
  ASSUME NEW walk, NEW notes, NEW files, IsWalk(walk), IsNotes(walk, notes, files),
         DOMAIN files \subseteq Keys,
         walk.stack # <<>>, Top(walk).rest = <<>>, Top(walk).more
  PROVE  LET next == WithTop(walk, After(Top(walk), PageOf(Bucket(walk), Top(walk), files)))
         IN  IsWalk(next) /\ IsNotes(next, notes, files)
<1> DEFINE b == Bucket(walk)
           old == Top(walk)
           sent == PageOf(b, old, files)
           frame == After(old, sent)
           next == WithTop(walk, frame)
           top == Len(walk.stack)
<1>1. top \in DOMAIN walk.stack /\ IsFrame(old) /\ old = walk.stack[top]
  <2>1. top \in DOMAIN walk.stack
    BY ListEnds DEF IsWalk
  <2> QED
    BY <2>1 DEF IsWalk, Top
<1>2. IsFrame(frame) /\ frame.prefix = old.prefix /\ frame # Frame(<<>>)
  BY <1>1, AfterIsFrame
<1> HIDE DEF frame
<1>3. /\ IsWalk(next) /\ next.at = walk.at /\ next.objects = walk.objects /\ next.found = walk.found
      /\ DOMAIN next.stack = DOMAIN walk.stack /\ next.stack[top] = frame
      /\ \A i \in DOMAIN walk.stack : i # top => next.stack[i] = walk.stack[i]
  BY <1>2, TopIs
<1> HIDE DEF next
<1>4. b \notin notes.hollow
  <2> SUFFICES ASSUME b \in notes.hollow PROVE FALSE
    OBVIOUS
  <2>1. Hollow(walk, b)
    BY DEF IsNotes
  <2>2. top = 1 /\ ~walk.stack[1].more
    BY <2>1 DEF Hollow
  <2> QED
    BY <1>1, <2>2
<1>5. ASSUME NEW p \in Paths, <<b, p>> \in DOMAIN files, Pending(walk, p, files)
      PROVE  Pending(next, p, files)
  <2>1. Bucket(next) = b
    BY <1>3 DEF Bucket
  <2> HIDE DEF b
  <2>2. CASE \E i \in DOMAIN walk.found : walk.found[i] = p
    BY <1>3, <2>2 DEF Pending
  <2>3. ASSUME NEW i \in DOMAIN walk.stack, Ahead(walk.stack[i], b, p, files)
        PROVE  Ahead(next.stack[i], b, p, files)
    <3>1. CASE i = top
      <4>1. Ahead(old, b, p, files)
        BY <1>1, <2>3, <3>1
      <4> HIDE DEF old
      <4>2. Ahead(frame, b, p, files)
        BY <1>1, <1>5, <4>1, AheadOfPage DEF frame, old
      <4> QED
        BY <1>3, <3>1, <4>2
    <3>2. CASE i # top
      BY <1>3, <2>3, <3>2
    <3> QED
      BY <3>1, <3>2
  <2> QED
    BY <1>3, <1>5, <2>1, <2>2, <2>3 DEF Pending, b
<1>6. IsNotes(next, notes, files)
  BY <1>3, <1>4, <1>5, SameBucket
<1> QED
  BY <1>3, <1>6 DEF next, frame

(* An empty answer to the first call leaves nothing of the bucket fetched.  *)
LEMMA HollowKeeps ==
  ASSUME NEW walk, NEW notes, NEW files, IsWalk(walk), IsNotes(walk, notes, files),
         DOMAIN files \subseteq Keys, walk.stack # <<>>, Top(walk) = Frame(<<>>)
  PROVE  LET next == WithTop(walk, After(Top(walk), <<>>))
         IN  IsWalk(next) /\ IsNotes(next, [notes EXCEPT !.hollow = notes.hollow \cup {Bucket(walk)}], files)
<1> DEFINE b == Bucket(walk)
           old == Top(walk)
           frame == After(old, <<>>)
           next == WithTop(walk, frame)
           top == Len(walk.stack)
           seen == [notes EXCEPT !.hollow = notes.hollow \cup {b}]
<1>1. top \in DOMAIN walk.stack /\ IsFrame(old) /\ old = walk.stack[top] /\ old.prefix = <<>>
  <2>1. top \in DOMAIN walk.stack
    BY ListEnds DEF IsWalk
  <2> QED
    <3>1. IsFrame(walk.stack[top]) /\ old = walk.stack[top]
      BY <2>1 DEF IsWalk, Top
    <3>2. Frame(<<>>).prefix = <<>>
      BY DEF Frame
    <3> QED
      BY <2>1, <3>1, <3>2
<1>2. top = 1 /\ walk.found = <<>>
  <2>1. top = 1
    BY <1>1 DEF IsWalk
  <2> QED
    BY <1>1, <2>1 DEF IsWalk
<1>3. /\ IsFrame(frame) /\ frame.prefix = old.prefix /\ frame # Frame(<<>>) /\ frame.rest = <<>>
      /\ frame.more = (Len(<<>>) = PAGE)
  BY <1>1, AfterIsFrame
<1>4. ~frame.more
  <2>1. Len(<<>>) = 0 /\ PAGE # 0
    BY BackupAssumption
  <2> QED
    BY <1>3, <2>1
<1> HIDE DEF frame
<1>5. /\ IsWalk(next) /\ next.at = walk.at /\ next.objects = walk.objects /\ next.found = walk.found
      /\ Len(next.stack) = 1 /\ next.stack[1] = frame
  BY <1>2, <1>3, TopIs
<1> HIDE DEF next
<1>6. HollowEnds(next)
  BY <1>2, <1>3, <1>4, <1>5 DEF HollowEnds
<1>7. Bucket(next) = b /\ \A d : Later(next, d) <=> Later(walk, d)
  BY <1>5 DEF Bucket, Later
<1>8. Hollow(next, b)
  <2>1. walk.at \in 1..Len(BucketOrder) /\ b = BucketOrder[walk.at]
    BY DEF IsWalk, Bucket
  <2>2. ~Later(walk, b)
    <3> SUFFICES ASSUME NEW k \in (walk.at + 1)..Len(BucketOrder), b = BucketOrder[k] PROVE FALSE
      BY DEF Later
    <3>1. k \in 1..Len(BucketOrder) /\ k # walk.at
      BY <2>1, BucketsInOrder
    <3> QED
      BY <2>1, <3>1, BucketsInOrder
  <2>3. ASSUME NEW i \in DOMAIN walk.objects PROVE walk.objects[i].bucket # b
    <3>1. PICK k \in 1..walk.at : walk.objects[i].bucket = BucketOrder[k] /\ k < walk.at
      BY DEF IsWalk
    <3>2. k \in 1..Len(BucketOrder) /\ k # walk.at
      BY <2>1, <3>1, BucketsInOrder
    <3> QED
      BY <2>1, <3>1, <3>2, BucketsInOrder
  <2> HIDE DEF b
  <2> QED
    BY <1>5, <1>6, <1>7, <2>2, <2>3 DEF Hollow, HollowEnds
<1>9. /\ seen = [untouched |-> notes.untouched, gone |-> notes.gone, ever |-> notes.ever,
                hollow |-> notes.hollow \cup {b}]
      /\ notes.untouched \subseteq BinPairs(files) /\ BinPairs(files) \subseteq notes.ever
      /\ \A i \in DOMAIN walk.objects : <<KeyOf(walk.objects[i]), walk.objects[i].bytes>> \in notes.ever
      /\ \A d \in notes.hollow : Hollow(walk, d)
      /\ \A pair \in notes.untouched : Accounted(walk, notes, pair, files)
  <2>1. notes = [untouched |-> notes.untouched, gone |-> notes.gone, ever |-> notes.ever,
                 hollow |-> notes.hollow]
    BY DEF IsNotes
  <2>2. DOMAIN notes = {"untouched", "gone", "ever", "hollow"}
    BY <2>1
  <2>3. seen = [untouched |-> notes.untouched, gone |-> notes.gone, ever |-> notes.ever,
                hollow |-> notes.hollow \cup {b}]
    <3> DEFINE some == notes.hollow \cup {b}
    <3> HIDE DEF b, some
    <3>1. [notes EXCEPT !.hollow = some] =
            [untouched |-> notes.untouched, gone |-> notes.gone, ever |-> notes.ever, hollow |-> some]
      BY <2>2
    <3> QED
      BY <3>1 DEF some
  <2> HIDE DEF seen
  <2> QED
    BY <2>3 DEF IsNotes
<1> HIDE DEF seen, b
<1>10. seen.untouched = notes.untouched /\ seen.gone = notes.gone /\ seen.ever = notes.ever
       /\ seen.hollow = notes.hollow \cup {b}
  BY <1>9
<1>11. \A d \in seen.hollow : Hollow(next, d)
  <2> SUFFICES ASSUME NEW d \in notes.hollow, d # b PROVE Hollow(next, d)
    BY <1>8, <1>10
  <2>1. Hollow(walk, d)
    BY <1>9
  <2> QED
    BY <1>5, <1>7, <2>1 DEF Hollow
<1>12. \A pair \in seen.untouched : Accounted(next, seen, pair, files)
  <2> SUFFICES ASSUME NEW pair \in notes.untouched PROVE Accounted(next, seen, pair, files)
    BY <1>10
  <2>1. Accounted(walk, notes, pair, files)
    BY <1>9
  <2>2. CASE pair[1][1] = b
    BY <1>10, <2>2 DEF Accounted
  <2>3. CASE pair[1][1] # b
    BY <1>5, <1>7, <1>10, <2>1, <2>3 DEF Accounted, b
  <2> QED
    BY <2>2, <2>3
<1>13. seen = [untouched |-> seen.untouched, gone |-> seen.gone, ever |-> seen.ever, hollow |-> seen.hollow]
  BY <1>9
<1>14. IsNotes(next, seen, files)
  BY <1>5, <1>9, <1>10, <1>11, <1>12, <1>13 DEF IsNotes
<1> QED
  BY <1>5, <1>14 DEF next, frame, seen, b

(* A visited folder comes on top with all its files ahead; a visited file   *)
(* is noted.                                                               *)
LEMMA VisitKeeps ==
  ASSUME NEW walk, NEW notes, NEW files, IsWalk(walk), IsNotes(walk, notes, files),
         DOMAIN files \subseteq Keys, walk.stack # <<>>, Top(walk).rest # <<>>
  PROVE  LET entry == Head(Top(walk).rest)
             full == Append(Top(walk).prefix, entry.name)
             left == WithTop(walk, [Top(walk) EXCEPT !.rest = Tail(@)])
             next == IF entry.folder THEN [left EXCEPT !.stack = Append(@, Frame(full))]
                                     ELSE [left EXCEPT !.found = Append(@, full)]
         IN  IsWalk(next) /\ IsNotes(next, notes, files)
<1> DEFINE b == Bucket(walk)
           old == Top(walk)
           entry == Head(old.rest)
           full == Append(old.prefix, entry.name)
           frame == [old EXCEPT !.rest = Tail(@)]
           left == WithTop(walk, frame)
           top == Len(walk.stack)
           deeper == [left EXCEPT !.stack = Append(@, Frame(full))]
           noted == [left EXCEPT !.found = Append(@, full)]
<1>1. top \in DOMAIN walk.stack /\ IsFrame(old) /\ old = walk.stack[top]
  <2>1. top \in DOMAIN walk.stack
    BY ListEnds DEF IsWalk
  <2> QED
    BY <2>1 DEF IsWalk, Top
<1>2. /\ IsFrame(frame) /\ frame.prefix = old.prefix /\ frame # Frame(<<>>)
      /\ full \in Seq(1..Names) /\ full # <<>>
  BY <1>1, FramesMove
<1>3. \A p \in Paths : <<b, p>> \in DOMAIN files /\ Ahead(old, b, p, files) =>
          \/ Ahead(frame, b, p, files)
          \/ entry.folder /\ Ahead(Frame(full), b, p, files)
          \/ ~entry.folder /\ full = p
  <2> SUFFICES ASSUME NEW p \in Paths, <<b, p>> \in DOMAIN files, Ahead(old, b, p, files)
               PROVE  \/ Ahead(frame, b, p, files)
                      \/ entry.folder /\ Ahead(Frame(full), b, p, files)
                      \/ ~entry.folder /\ full = p
    OBVIOUS
  <2> QED
    BY <1>1, AheadOfNext
<1> HIDE DEF frame, full, entry
<1>4. /\ IsWalk(left) /\ left.at = walk.at /\ left.objects = walk.objects /\ left.found = walk.found
      /\ DOMAIN left.stack = DOMAIN walk.stack /\ left.stack[top] = frame /\ Len(left.stack) = top
      /\ left.stack # <<>> /\ left.stack[1] # Frame(<<>>) /\ DOMAIN left.stack = 1..top
      /\ IsList(left.stack) /\ top \in Nat \ {0}
      /\ \A i \in DOMAIN walk.stack : i # top => left.stack[i] = walk.stack[i]
  BY <1>2, TopIs
<1> HIDE DEF left
<1>5. /\ left = [at |-> left.at, stack |-> left.stack, found |-> left.found, objects |-> left.objects]
      /\ IsList(left.found)
  BY <1>4 DEF IsWalk
<1>6. DOMAIN left = {"at", "stack", "found", "objects"}
  BY <1>5
<1>7. b \notin notes.hollow
  <2> SUFFICES ASSUME b \in notes.hollow PROVE FALSE
    OBVIOUS
  <2>1. Hollow(walk, b)
    BY DEF IsNotes
  <2>2. top = 1 /\ walk.stack[1].rest = <<>>
    BY <2>1 DEF Hollow
  <2> QED
    BY <1>1, <2>2
<1>8. ASSUME NEW next, next.at = walk.at,
             \E i \in DOMAIN next.stack : next.stack[i] = frame,
             \A i \in DOMAIN walk.stack : i # top => i \in DOMAIN next.stack /\ next.stack[i] = walk.stack[i],
             \A p : (\E i \in DOMAIN walk.found : walk.found[i] = p) => \E i \in DOMAIN next.found : next.found[i] = p,
             entry.folder => \E i \in DOMAIN next.stack : next.stack[i] = Frame(full),
             ~entry.folder => \E i \in DOMAIN next.found : next.found[i] = full,
             NEW p \in Paths, <<b, p>> \in DOMAIN files, Pending(walk, p, files)
      PROVE  Pending(next, p, files)
  <2>1. Bucket(next) = b
    BY <1>8 DEF Bucket
  <2> HIDE DEF b, old
  <2>2. CASE \E i \in DOMAIN walk.found : walk.found[i] = p
    BY <1>8, <2>2 DEF Pending
  <2>3. ASSUME NEW i \in DOMAIN walk.stack, Ahead(walk.stack[i], b, p, files)
        PROVE  Pending(next, p, files)
    <3>1. CASE i = top
      <4>1. Ahead(old, b, p, files)
        BY <1>1, <2>3, <3>1
      <4>2. CASE Ahead(frame, b, p, files)
        BY <1>8, <2>1, <4>2 DEF Pending
      <4>3. CASE entry.folder /\ Ahead(Frame(full), b, p, files)
        BY <1>8, <2>1, <4>3 DEF Pending
      <4>4. CASE ~entry.folder /\ full = p
        BY <1>8, <4>4 DEF Pending
      <4> QED
        BY <1>3, <1>8, <4>1, <4>2, <4>3, <4>4
    <3>2. CASE i # top
      BY <1>8, <2>1, <2>3, <3>2 DEF Pending
    <3> QED
      BY <3>1, <3>2
  <2> QED
    BY <1>8, <2>2, <2>3 DEF Pending, b
<1>9. CASE entry.folder
  <2> DEFINE stack == Append(left.stack, Frame(full))
  <2>1. deeper = [at |-> left.at, stack |-> stack, found |-> left.found, objects |-> left.objects]
    BY <1>6
  <2>2. /\ IsList(stack) /\ Len(stack) = top + 1 /\ DOMAIN stack = 1..(top + 1)
        /\ \A i \in 1..top : stack[i] = left.stack[i]
        /\ stack[top + 1] = Frame(full)
    BY <1>4, ListGrows
  <2> HIDE DEF deeper, stack
  <2>3. deeper.at = left.at /\ deeper.stack = stack /\ deeper.found = left.found
        /\ deeper.objects = left.objects
    BY <2>1
  <2>4. IsWalk(deeper)
    <3>1. \A i \in DOMAIN stack : IsFrame(stack[i]) /\ (stack[i].prefix = <<>> => i = 1)
      <4> SUFFICES ASSUME NEW i \in DOMAIN stack
                   PROVE  IsFrame(stack[i]) /\ (stack[i].prefix = <<>> => i = 1)
        OBVIOUS
      <4>1. i \in 1..top \/ i = top + 1
        BY <1>4, <2>2
      <4>2. IsFrame(Frame(full)) /\ Frame(full).prefix # <<>>
        BY <1>2, FramesStart
      <4> QED
        BY <1>4, <2>2, <4>1, <4>2 DEF IsWalk
    <3>2. stack[1] # Frame(<<>>)
      <4>1. 1 \in 1..top
        BY <1>4
      <4> QED
        BY <1>4, <2>2, <4>1
    <3>3. /\ left.at \in 1..Len(BucketOrder) /\ IsList(left.found) /\ IsObjects(left.objects)
          /\ \A i \in DOMAIN left.objects : \E k \in 1..left.at :
                left.objects[i].bucket = BucketOrder[k] /\ k < left.at
      BY <1>4 DEF IsWalk
    <3>4. deeper = [at |-> deeper.at, stack |-> deeper.stack, found |-> deeper.found,
                    objects |-> deeper.objects]
      BY <2>1, <2>3
    <3> QED
      BY <2>2, <2>3, <3>1, <3>2, <3>3, <3>4 DEF IsWalk
  <2>5. \A p \in Paths : <<b, p>> \in DOMAIN files /\ Pending(walk, p, files) => Pending(deeper, p, files)
    <3>1. \A i \in 1..top : i \in DOMAIN deeper.stack /\ deeper.stack[i] = left.stack[i]
      BY <1>4, <2>2, <2>3
    <3>2. \E i \in DOMAIN deeper.stack : deeper.stack[i] = frame
      BY <1>4, <3>1
    <3>3. \A i \in DOMAIN walk.stack : i # top => i \in DOMAIN deeper.stack /\ deeper.stack[i] = walk.stack[i]
      BY <1>4, <3>1
    <3>4. \E i \in DOMAIN deeper.stack : deeper.stack[i] = Frame(full)
      <4>1. top + 1 \in 1..(top + 1)
        BY <1>4
      <4> QED
        BY <2>2, <2>3, <4>1
    <3> HIDE DEF b
    <3> QED
      BY <1>4, <1>8, <1>9, <2>3, <3>2, <3>3, <3>4 DEF b
  <2>6. IsNotes(deeper, notes, files)
    BY <1>4, <1>7, <2>3, <2>5, SameBucket
  <2> QED
    BY <1>9, <2>4, <2>6 DEF deeper, left, frame, full, entry
<1>10. CASE ~entry.folder
  <2> DEFINE found == Append(left.found, full)
  <2>1. noted = [at |-> left.at, stack |-> left.stack, found |-> found, objects |-> left.objects]
    BY <1>6
  <2>2. /\ IsList(found) /\ Len(left.found) \in Nat /\ DOMAIN left.found = 1..Len(left.found)
        /\ DOMAIN found = 1..(Len(left.found) + 1)
        /\ \A i \in 1..Len(left.found) : found[i] = left.found[i]
        /\ found[Len(left.found) + 1] = full
    BY <1>5, ListGrows
  <2> HIDE DEF noted, found
  <2>3. noted.at = left.at /\ noted.stack = left.stack /\ noted.found = found
        /\ noted.objects = left.objects
    BY <2>1
  <2>4. IsWalk(noted)
    <3>1. noted = [at |-> noted.at, stack |-> noted.stack, found |-> noted.found, objects |-> noted.objects]
      BY <2>1, <2>3
    <3> QED
      BY <1>4, <2>2, <2>3, <3>1 DEF IsWalk
  <2>5. \A p \in Paths : <<b, p>> \in DOMAIN files /\ Pending(walk, p, files) => Pending(noted, p, files)
    <3>1. \A i \in DOMAIN left.found : i \in DOMAIN noted.found /\ noted.found[i] = left.found[i]
      BY <2>2, <2>3
    <3>2. \E i \in DOMAIN noted.stack : noted.stack[i] = frame
      BY <1>4, <2>3
    <3>3. \A i \in DOMAIN walk.stack : i # top => i \in DOMAIN noted.stack /\ noted.stack[i] = walk.stack[i]
      BY <1>4, <2>3
    <3>4. \E i \in DOMAIN noted.found : noted.found[i] = full
      <4>1. Len(left.found) + 1 \in 1..(Len(left.found) + 1)
        BY <2>2
      <4> QED
        BY <2>2, <2>3, <4>1
    <3>5. \A p : (\E i \in DOMAIN walk.found : walk.found[i] = p) => \E i \in DOMAIN noted.found : noted.found[i] = p
      BY <1>4, <3>1
    <3> HIDE DEF b
    <3> QED
      BY <1>4, <1>8, <1>10, <2>3, <3>2, <3>3, <3>4, <3>5 DEF b
  <2>6. IsNotes(noted, notes, files)
    BY <1>4, <1>7, <2>3, <2>5, SameBucket
  <2> QED
    BY <1>10, <2>4, <2>6 DEF noted, left, frame, full, entry
<1> QED
  BY <1>9, <1>10 DEF entry

(* A folder that is listed to its end has no file ahead.                   *)
LEMMA EndKeeps ==
  ASSUME NEW walk, NEW notes, NEW files, IsWalk(walk), IsNotes(walk, notes, files),
         DOMAIN files \subseteq Keys, walk.stack # <<>>, Top(walk).rest = <<>>, ~Top(walk).more
  PROVE  LET next == [walk EXCEPT !.stack = Front(@)]
         IN  IsWalk(next) /\ IsNotes(next, notes, files)
<1> DEFINE b == Bucket(walk)
           old == Top(walk)
           stack == Front(walk.stack)
           next == [walk EXCEPT !.stack = Front(@)]
           top == Len(walk.stack)
<1>1. /\ walk = [at |-> walk.at, stack |-> walk.stack, found |-> walk.found, objects |-> walk.objects]
      /\ IsList(walk.stack)
  BY DEF IsWalk
<1>2. next = [at |-> walk.at, stack |-> stack, found |-> walk.found, objects |-> walk.objects]
  <2>1. DOMAIN walk = {"at", "stack", "found", "objects"}
    BY <1>1
  <2> QED
    BY <2>1
<1>3. /\ IsList(stack) /\ top \in Nat \ {0} /\ top \in DOMAIN walk.stack /\ DOMAIN walk.stack = 1..top
      /\ DOMAIN stack = 1..(top - 1) /\ Len(stack) = top - 1
      /\ \A i \in DOMAIN stack : stack[i] = walk.stack[i]
  BY <1>1, ListEnds
<1>4. old = walk.stack[top]
  BY DEF Top
<1> HIDE DEF next, stack
<1>5. next.at = walk.at /\ next.stack = stack /\ next.found = walk.found /\ next.objects = walk.objects
  BY <1>2
<1>6. stack # <<>> => top # 1 /\ stack[1] = walk.stack[1]
  <2> SUFFICES ASSUME stack # <<>> PROVE top # 1 /\ stack[1] = walk.stack[1]
    OBVIOUS
  <2>1. top - 1 \in Nat \ {0}
    BY <1>3, EmptySeq DEF IsList
  <2>2. 1 \in DOMAIN stack
    BY <1>3, <2>1
  <2> QED
    BY <1>3, <2>1, <2>2
<1>7. IsWalk(next)
  <2>1. /\ walk.at \in 1..Len(BucketOrder) /\ IsList(walk.found) /\ IsObjects(walk.objects)
        /\ \A i \in DOMAIN walk.objects : \E k \in 1..walk.at :
              walk.objects[i].bucket = BucketOrder[k] /\ k < walk.at
        /\ \A i \in DOMAIN walk.stack : IsFrame(walk.stack[i]) /\ (walk.stack[i].prefix = <<>> => i = 1)
        /\ walk.stack[1] = Frame(<<>>) => top = 1
    BY DEF IsWalk
  <2>2. \A i \in DOMAIN stack : IsFrame(stack[i]) /\ (stack[i].prefix = <<>> => i = 1)
    <3>1. \A i \in DOMAIN stack : i \in DOMAIN walk.stack
      BY <1>3
    <3> QED
      BY <1>3, <2>1, <3>1
  <2>3. stack # <<>> => stack[1] # Frame(<<>>)
    BY <1>6, <2>1
  <2>4. next = [at |-> next.at, stack |-> next.stack, found |-> next.found, objects |-> next.objects]
    BY <1>2, <1>5
  <2> QED
    BY <1>3, <1>5, <2>1, <2>2, <2>3, <2>4 DEF IsWalk
<1>8. ASSUME b \in notes.hollow PROVE HollowEnds(next)
  <2>1. Hollow(walk, b)
    BY <1>8 DEF IsNotes
  <2>2. top = 1 /\ walk.found = <<>>
    BY <2>1 DEF Hollow
  <2>3. stack = <<>>
    BY <1>6, <2>2
  <2> QED
    BY <1>5, <2>2, <2>3 DEF HollowEnds
<1>9. \A p \in Paths : <<b, p>> \in DOMAIN files /\ Pending(walk, p, files) => Pending(next, p, files)
  <2> SUFFICES ASSUME NEW p \in Paths, Pending(walk, p, files) PROVE Pending(next, p, files)
    OBVIOUS
  <2>1. Bucket(next) = b
    BY <1>5 DEF Bucket
  <2> HIDE DEF b
  <2>2. CASE \E i \in DOMAIN walk.found : walk.found[i] = p
    BY <1>5, <2>2 DEF Pending
  <2>3. ASSUME NEW i \in DOMAIN walk.stack, Ahead(walk.stack[i], b, p, files)
        PROVE  Pending(next, p, files)
    <3>1. i # top
      <4> SUFFICES ASSUME Ahead(old, b, p, files) PROVE FALSE
        BY <1>4, <2>3
      <4> HIDE DEF old
      <4>1. old.rest = <<>> /\ ~old.more
        BY DEF old
      <4>2. DOMAIN old.rest = {}
        BY <4>1
      <4> QED
        BY <4>1, <4>2 DEF Ahead
    <3>2. i \in DOMAIN stack
      BY <1>3, <3>1
    <3> QED
      BY <1>3, <1>5, <2>1, <2>3, <3>2 DEF Pending
  <2> QED
    BY <2>2, <2>3 DEF Pending, b
<1>10. IsNotes(next, notes, files)
  BY <1>5, <1>8, <1>9, SameBucket
<1> QED
  BY <1>7, <1>10 DEF next

(* A noted file that is still there is fetched as it is.                   *)
LEMMA DownloadKeeps ==
  ASSUME NEW walk, NEW notes, NEW files, IsWalk(walk), IsNotes(walk, notes, files),
         DOMAIN files \subseteq Keys, walk.stack = <<>>, walk.found # <<>>,
         NEW key, key = <<Bucket(walk), Head(walk.found)>>, key \in DOMAIN files
  PROVE  LET object == [bucket |-> key[1], path |-> key[2], bytes |-> files[key]]
             next == [walk EXCEPT !.found = Tail(@), !.objects = Append(@, object)]
         IN  IsWalk(next) /\ IsNotes(next, notes, files)
<1> DEFINE b == Bucket(walk)
           bytes == files[key]
           object == [bucket |-> key[1], path |-> key[2], bytes |-> bytes]
           found == Tail(walk.found)
           objects == Append(walk.objects, object)
           next == [walk EXCEPT !.found = Tail(@), !.objects = Append(@, object)]
           many == Len(walk.objects)
<1>1. /\ walk = [at |-> walk.at, stack |-> walk.stack, found |-> walk.found, objects |-> walk.objects]
      /\ IsList(walk.found) /\ IsList(walk.objects) /\ walk.at \in 1..Len(BucketOrder)
      /\ \A i \in DOMAIN walk.objects : IsObject(walk.objects[i])
      /\ \A i \in DOMAIN walk.objects : \E k \in 1..walk.at : walk.objects[i].bucket = BucketOrder[k]
  BY DEF IsWalk, IsObjects
<1>2. key \in Keys /\ key[1] = b /\ key[2] = Head(walk.found) /\ key[1] \in Buckets /\ key[2] \in Paths
  BY DEF Keys
<1> HIDE DEF bytes
<1>3. object.bucket = key[1] /\ object.path = key[2] /\ object.bytes = bytes /\ IsObject(object)
  BY <1>2 DEF IsObject
<1>4. object = ObjectOf(<<key, bytes>>)
  BY DEF ObjectOf
<1> HIDE DEF object
<1>5. next = [at |-> walk.at, stack |-> walk.stack, found |-> found, objects |-> objects]
  <2>1. DOMAIN walk = {"at", "stack", "found", "objects"}
    BY <1>1
  <2>2. next = [walk EXCEPT !.found = found, !.objects = objects]
    OBVIOUS
  <2> HIDE DEF found, objects, next
  <2> DEFINE once == [walk EXCEPT !.found = found]
  <2>4. once = [at |-> walk.at, stack |-> walk.stack, found |-> found, objects |-> walk.objects]
    BY <2>1
  <2>5. [walk EXCEPT !.found = found, !.objects = objects] = [once EXCEPT !.objects = objects]
    OBVIOUS
  <2> HIDE DEF once
  <2>3. [once EXCEPT !.objects = objects] =
          [at |-> walk.at, stack |-> walk.stack, found |-> found, objects |-> objects]
    BY <2>4
  <2> QED
    BY <2>2, <2>3, <2>5
<1>6. /\ IsList(found) /\ Head(walk.found) = walk.found[1]
      /\ \A i \in DOMAIN walk.found : i # 1 => i - 1 \in DOMAIN found /\ found[i - 1] = walk.found[i]
  BY <1>1, ListRests
<1>7. /\ IsList(objects) /\ many \in Nat /\ DOMAIN walk.objects = 1..many /\ DOMAIN objects = 1..(many + 1)
      /\ \A i \in 1..many : objects[i] = walk.objects[i]
      /\ objects[many + 1] = object
  BY <1>1, ListGrows
<1> HIDE DEF next, found, objects
<1>8. next.at = walk.at /\ next.stack = <<>> /\ next.found = found /\ next.objects = objects
  BY <1>5
<1>9. \A i \in DOMAIN objects : (i \in DOMAIN walk.objects /\ objects[i] = walk.objects[i]) \/ objects[i] = object
  <2> SUFFICES ASSUME NEW i \in DOMAIN objects
               PROVE  (i \in DOMAIN walk.objects /\ objects[i] = walk.objects[i]) \/ objects[i] = object
    OBVIOUS
  <2>1. i \in 1..many \/ i = many + 1
    BY <1>7
  <2> QED
    BY <1>7, <2>1
<1>10. IsWalk(next)
  <2>1. \A i \in DOMAIN objects : IsObject(objects[i])
    BY <1>1, <1>3, <1>9
  <2>2. \A i \in DOMAIN objects : \E k \in 1..walk.at : objects[i].bucket = BucketOrder[k]
    <3>1. walk.at \in 1..walk.at /\ b = BucketOrder[walk.at]
      BY <1>1, BucketsInOrder DEF Bucket
    <3> QED
      BY <1>1, <1>2, <1>3, <1>9, <3>1
  <2>3. next = [at |-> next.at, stack |-> next.stack, found |-> next.found, objects |-> next.objects]
    BY <1>5, <1>8
  <2>4. IsList(next.stack) /\ DOMAIN next.stack = {}
    BY <1>8, EmptySeq DEF IsList
  <2> QED
    BY <1>1, <1>6, <1>7, <1>8, <2>1, <2>2, <2>3, <2>4 DEF IsWalk, IsObjects
<1>11. Bucket(next) = b /\ \A d : Later(next, d) <=> Later(walk, d)
  BY <1>8 DEF Bucket, Later
<1>12. ASSUME NEW d \in notes.hollow PROVE Hollow(next, d)
  <2>1. Hollow(walk, d)
    BY DEF IsNotes
  <2>2. d # b
    BY <2>1 DEF Hollow
  <2>3. \A i \in DOMAIN objects : objects[i].bucket # d
    BY <1>2, <1>3, <1>9, <2>1, <2>2 DEF Hollow
  <2> HIDE DEF b
  <2> QED
    BY <1>8, <1>11, <2>1, <2>2, <2>3 DEF Hollow
<1>13. ASSUME NEW pair \in notes.untouched PROVE Accounted(next, notes, pair, files)
  <2> DEFINE d == pair[1][1]
             p == pair[1][2]
  <2>1. Accounted(walk, notes, pair, files) /\ pair \in BinPairs(files)
    BY DEF IsNotes
  <2>2. pair[1] \in DOMAIN files /\ pair = <<pair[1], files[pair[1]]>> /\ pair[1] = <<d, p>>
    BY <2>1, PairIs
  <2>3. Taken(walk.objects, pair) => Taken(objects, pair)
    <3>1. \A i \in DOMAIN walk.objects : i \in DOMAIN objects /\ objects[i] = walk.objects[i]
      BY <1>7
    <3> QED
      BY <3>1 DEF Taken
  <2>4. ASSUME d = b, Pending(walk, p, files) PROVE Taken(objects, pair) \/ Pending(next, p, files)
    <3>1. PICK i \in DOMAIN walk.found : walk.found[i] = p
      <4>1. DOMAIN walk.stack = {}
        OBVIOUS
      <4> QED
        BY <2>4, <4>1 DEF Pending
    <3>2. CASE i = 1
      <4>1. pair[1] = key
        BY <1>6, <2>2, <2>4, <3>1, <3>2
      <4>2. pair = <<key, bytes>>
        BY <2>2, <4>1 DEF bytes
      <4>3. many + 1 \in DOMAIN objects
        BY <1>7
      <4> QED
        BY <1>4, <1>7, <4>2, <4>3 DEF Taken
    <3>3. CASE i # 1
      <4>1. i - 1 \in DOMAIN next.found /\ next.found[i - 1] = p
        BY <1>6, <1>8, <3>1, <3>3
      <4> QED
        BY <4>1 DEF Pending
    <3> QED
      BY <3>2, <3>3
  <2> QED
    BY <1>8, <1>11, <2>1, <2>3, <2>4 DEF Accounted
<1>14. \A i \in DOMAIN objects : <<KeyOf(objects[i]), objects[i].bytes>> \in notes.ever
  <2>1. <<key, bytes>> \in notes.ever
    BY DEF IsNotes, BinPairs, bytes
  <2>2. <<KeyOf(object), object.bytes>> \in notes.ever
    <3>1. KeyOf(object) = key
      BY <1>2, <1>3 DEF KeyOf, Keys
    <3> QED
      BY <1>3, <2>1, <3>1
  <2> QED
    BY <1>9, <2>2 DEF IsNotes
<1>15. IsNotes(next, notes, files)
  BY <1>8, <1>12, <1>13, <1>14 DEF IsNotes
<1> QED
  BY <1>10, <1>15 DEF next, object, bytes

(* The next bucket begins when the last one is listed and fetched.         *)
LEMMA NextKeeps ==
  ASSUME NEW walk, NEW notes, NEW files, IsWalk(walk), IsNotes(walk, notes, files),
         DOMAIN files \subseteq Keys, walk.stack = <<>>, walk.found = <<>>, walk.at < Len(BucketOrder)
  PROVE  LET next == [walk EXCEPT !.at = @ + 1, !.stack = <<Frame(<<>>)>>]
         IN  IsWalk(next) /\ IsNotes(next, notes, files)
<1> DEFINE root == Frame(<<>>)
           stack == <<root>>
           at == walk.at + 1
           next == [walk EXCEPT !.at = @ + 1, !.stack = stack]
<1>1. /\ walk = [at |-> walk.at, stack |-> walk.stack, found |-> walk.found, objects |-> walk.objects]
      /\ IsObjects(walk.objects) /\ walk.at \in 1..Len(BucketOrder) /\ IsList(walk.found)
      /\ \A i \in DOMAIN walk.objects : \E k \in 1..walk.at : walk.objects[i].bucket = BucketOrder[k]
  BY DEF IsWalk
<1>2. <<>> \in Seq(1..Names) /\ IsFrame(root)
  BY FramesStart, EmptySeq
<1> HIDE DEF root
<1>3. IsList(stack) /\ DOMAIN stack = 1..1 /\ Len(stack) = 1 /\ stack[1] = root /\ stack # <<>>
  <2>1. stack \in Seq({root}) /\ Len(stack) = 1 /\ stack[1] = root
    OBVIOUS
  <2> HIDE DEF stack
  <2>2. DOMAIN stack = 1..1 /\ stack # <<>>
    BY <2>1, EmptySeq
  <2> QED
    BY <2>1, <2>2 DEF IsList
<1> HIDE DEF stack
<1>4. next = [at |-> at, stack |-> stack, found |-> walk.found, objects |-> walk.objects]
  <2>1. DOMAIN walk = {"at", "stack", "found", "objects"}
    BY <1>1
  <2>2. next = [walk EXCEPT !.at = at, !.stack = stack]
    OBVIOUS
  <2> HIDE DEF at, next
  <2> DEFINE once == [walk EXCEPT !.at = at]
  <2>3. once = [at |-> at, stack |-> walk.stack, found |-> walk.found, objects |-> walk.objects]
    BY <2>1
  <2>4. [walk EXCEPT !.at = at, !.stack = stack] = [once EXCEPT !.stack = stack]
    OBVIOUS
  <2> HIDE DEF once
  <2>5. [once EXCEPT !.stack = stack] =
          [at |-> at, stack |-> stack, found |-> walk.found, objects |-> walk.objects]
    BY <2>3
  <2> QED
    BY <2>2, <2>4, <2>5
<1>5. at \in 1..Len(BucketOrder) /\ walk.at \in Nat /\ walk.at < at /\ at = walk.at + 1
      /\ Len(BucketOrder) \in Nat
  BY <1>1, BucketsInOrder
<1> HIDE DEF next, at
<1>6. next.at = at /\ next.stack = stack /\ next.found = <<>> /\ next.objects = walk.objects
  BY <1>4
<1>7. IsWalk(next)
  <2>1. \A i \in DOMAIN walk.objects : \E k \in 1..at : walk.objects[i].bucket = BucketOrder[k] /\ k < at
    <3> SUFFICES ASSUME NEW i \in DOMAIN walk.objects
                 PROVE  \E k \in 1..at : walk.objects[i].bucket = BucketOrder[k] /\ k < at
      OBVIOUS
    <3>1. PICK k \in 1..walk.at : walk.objects[i].bucket = BucketOrder[k]
      BY <1>1
    <3>2. k \in 1..at /\ k < at
      BY <1>5
    <3> QED
      BY <3>1, <3>2
  <2>2. \A i \in DOMAIN stack : i = 1 /\ IsFrame(stack[i])
    BY <1>2, <1>3
  <2>3. next = [at |-> next.at, stack |-> next.stack, found |-> next.found, objects |-> next.objects]
    BY <1>4, <1>6
  <2> QED
    BY <1>1, <1>3, <1>5, <1>6, <2>1, <2>2, <2>3 DEF IsWalk
<1>8. \A d : Later(next, d) => Later(walk, d)
  <2>1. \A k \in (at + 1)..Len(BucketOrder) : k \in (walk.at + 1)..Len(BucketOrder)
    BY <1>5
  <2> QED
    BY <1>6, <2>1 DEF Later
<1>9. Bucket(next) = BucketOrder[at] /\ Later(walk, BucketOrder[at])
  <2>1. at \in (walk.at + 1)..Len(BucketOrder)
    BY <1>5
  <2> QED
    BY <1>6, <2>1 DEF Later, Bucket
<1>10. ASSUME NEW d \in notes.hollow PROVE Hollow(next, d)
  <2>1. Hollow(walk, d)
    BY DEF IsNotes
  <2>2. d # Bucket(next) /\ ~Later(next, d)
    BY <1>8, <1>9, <2>1 DEF Hollow
  <2> QED
    BY <1>6, <2>1, <2>2 DEF Hollow
<1>11. ASSUME NEW pair \in notes.untouched PROVE Accounted(next, notes, pair, files)
  <2> DEFINE d == pair[1][1]
             p == pair[1][2]
  <2>1. Accounted(walk, notes, pair, files) /\ pair \in BinPairs(files)
    BY DEF IsNotes
  <2>2. pair[1] \in DOMAIN files /\ pair[1] = <<d, p>> /\ p \in Paths
    BY <2>1, PairIs
  <2>3. ~Pending(walk, p, files)
    <3>1. DOMAIN walk.found = {} /\ DOMAIN walk.stack = {}
      OBVIOUS
    <3> QED
      BY <3>1 DEF Pending
  <2>4. ASSUME Later(walk, d) PROVE Later(next, d) \/ (d = Bucket(next) /\ Pending(next, p, files))
    <3>1. PICK k \in (walk.at + 1)..Len(BucketOrder) : d = BucketOrder[k]
      BY <2>4 DEF Later
    <3>2. CASE k = at
      <4> HIDE DEF d, p
      <4>1. IsStrictPrefix(<<>>, p)
        <5>1. p \in Seq(1..Names) /\ p # <<>>
          BY <2>2, BackupAssumption
        <5>2. Len(p) \in Nat /\ Len(p) > 0 /\ Len(<<>>) = 0
          BY <5>1, EmptySeq
        <5>3. \A i \in 1..Len(<<>>) : p[i] = <<>>[i]
          BY <5>2
        <5> QED
          BY <1>2, <5>1, <5>2, <5>3, StrictPrefixIs
      <4>2. Ahead(root, d, p, files)
        BY <1>2, <2>2, <4>1, AheadOfAll DEF root
      <4>3. d = Bucket(next)
        BY <1>9, <3>1, <3>2
      <4>4. 1 \in DOMAIN next.stack /\ next.stack[1] = root
        BY <1>3, <1>6
      <4> QED
        BY <4>2, <4>3, <4>4 DEF Pending
    <3>3. CASE k # at
      <4>1. k \in (at + 1)..Len(BucketOrder)
        BY <1>5, <3>3
      <4> QED
        BY <1>6, <3>1, <4>1, Zenon DEF Later
    <3> QED
      BY <3>2, <3>3
  <2> QED
    BY <1>6, <2>1, <2>3, <2>4 DEF Accounted
<1>12. IsNotes(next, notes, files)
  BY <1>6, <1>10, <1>11 DEF IsNotes
<1> QED
  BY <1>7, <1>12 DEF next, stack, root

(* What is packed comes out as it went in (archive.mjs).                   *)
LEMMA NameIs ==
  ASSUME NEW x, NEW b, NEW p \in Seq(1..Names)
  PROVE  LET name == <<x, b>> \o p
         IN  name[1] = x /\ name[2] = b /\ SubSeq(name, 3, Len(name)) = p
<1> DEFINE R == {x, b} \cup (1..Names)
           first == <<x, b>>
           name == first \o p
<1>1. first \in Seq(R) /\ p \in Seq(R) /\ Len(first) = 2 /\ first[1] = x /\ first[2] = b
      /\ Len(p) \in Nat
  <2>1. x \in R /\ b \in R /\ 1..Names \subseteq R
    OBVIOUS
  <2> HIDE DEF R
  <2>2. p \in Seq(R) /\ Len(p) \in Nat
    <3> DEFINE Q == 1..Names
    <3>1. p \in Seq(Q) /\ Q \subseteq R
      BY <2>1
    <3> HIDE DEF Q
    <3> QED
      BY <3>1, SeqMonotonic, LenProperties
  <2>3. first \in Seq(R) /\ Len(first) = 2
    BY <2>1
  <2>4. first[1] = x /\ first[2] = b
    OBVIOUS
  <2> QED
    BY <2>2, <2>3, <2>4
<1> HIDE DEF R, first
<1>2. /\ name \in Seq(R) /\ Len(name) = Len(p) + 2
      /\ \A i \in 1..(Len(p) + 2) : name[i] = IF i <= 2 THEN first[i] ELSE p[i - 2]
  <2>1. /\ name \in Seq(R) /\ Len(name) = Len(first) + Len(p)
        /\ \A i \in 1..(Len(first) + Len(p)) : name[i] = IF i <= Len(first) THEN first[i] ELSE p[i - Len(first)]
    BY <1>1, ConcatProperties
  <2> HIDE DEF name
  <2>2. Len(first) + Len(p) = Len(p) + 2
    BY <1>1
  <2> QED
    BY <1>1, <2>1, <2>2
<1> HIDE DEF name
<1>3. name[1] = x /\ name[2] = b
  BY <1>1, <1>2
<1> DEFINE rest == SubSeq(name, 3, Len(name))
<1>4. \A i \in 3..Len(name) : name[i] \in R
  BY <1>1, <1>2
<1>5. PICK three \in Int : three = 3
  OBVIOUS
<1>6. Len(name) \in Int /\ \A i \in three..Len(name) : name[i] \in R
  BY <1>1, <1>2, <1>4, <1>5
<1>7. /\ rest \in Seq(R)
      /\ Len(rest) = IF three <= Len(name) THEN Len(name) - three + 1 ELSE 0
      /\ \A i \in 1..(Len(name) - three + 1) : rest[i] = name[three + i - 1]
  <2>1. rest = SubSeq(name, three, Len(name))
    BY <1>5
  <2> HIDE DEF rest
  <2> QED
    BY <1>6, <2>1, SubSeqProperties
<1> HIDE DEF rest
<1>8. Len(rest) = Len(p)
  BY <1>1, <1>2, <1>5, <1>7
<1>9. \A i \in 1..Len(rest) : rest[i] = p[i]
  <2> SUFFICES ASSUME NEW i \in 1..Len(rest) PROVE rest[i] = p[i]
    OBVIOUS
  <2>1. i \in 1..(Len(name) - three + 1) /\ three + i - 1 = i + 2 /\ i + 2 \in 1..(Len(p) + 2)
        /\ ~(i + 2 <= 2) /\ (i + 2) - 2 = i
    BY <1>1, <1>2, <1>5, <1>8
  <2> QED
    BY <1>2, <1>7, <2>1
<1>10. rest = p
  BY <1>1, <1>7, <1>8, <1>9, SeqEqual
<1> QED
  BY <1>3, <1>10 DEF name, rest, first

LEMMA SecondOn ==
  ASSUME NEW N \in Nat
  PROVE  LET K == 2..(N + 1)
         IN  Cardinality(K) = N /\ \A i \in 1..N : NthOf(K, i) = i + 1
<1> DEFINE K == 2..(N + 1)
<1>1. PICK two \in Int : two = 2
  OBVIOUS
<1>2. \A x \in Nat : x >= 1 => IsFiniteSet(two..x) /\ Cardinality(two..x) = x - 1
  <2> SUFFICES ASSUME NEW x \in Nat, x >= 1
               PROVE  IsFiniteSet(two..x) /\ Cardinality(two..x) = x - 1
    OBVIOUS
  <2>1. IsFiniteSet(two..x) /\ Cardinality(two..x) = IF two > x THEN 0 ELSE x - two + 1
    BY FS_Interval
  <2> QED
    BY <1>1, <2>1
<1>3. K = two..(N + 1) /\ K \in SUBSET (1..(N + 1))
  BY <1>1
<1>4. Cardinality(K) = N
  BY <1>2, <1>3
<1>5. ASSUME NEW i \in 1..N PROVE NthOf(K, i) = i + 1
  <2> DEFINE x == NthOf(K, i)
  <2>1. x \in K /\ Cardinality({m \in K : m <= x}) = i
    <3> HIDE DEF K
    <3>1. N + 1 \in Nat
      OBVIOUS
    <3> QED
      BY <1>3, <1>4, <3>1, NthIsPicked
  <2> HIDE DEF x
  <2>2. {m \in K : m <= x} = two..x /\ x \in Nat /\ x >= 1
    BY <1>1, <1>3, <2>1
  <2>3. Cardinality(two..x) = x - 1
    BY <1>2, <2>2
  <2>4. i = x - 1
    BY <2>1, <2>2, <2>3
  <2> QED
    BY <2>2, <2>4 DEF x
<1> QED
  BY <1>4, <1>5

LEMMA PackedComesBack ==
  ASSUME NEW objects, IsObjects(objects)
  PROVE  Opened(Artifact(objects)) = [manifest |-> buildManifest(objects), objects |-> objects]
<1> DEFINE N == Len(objects)
           manifest == buildManifest(objects)
           first == [name |-> <<"MANIFEST.json">>, body |-> manifest]
           rest == [i \in DOMAIN objects |-> [name |-> <<"objects", objects[i].bucket>> \o objects[i].path,
                                              body |-> objects[i].bytes]]
           entries == <<first>> \o rest
           Named(what) == {i \in DOMAIN entries : entries[i].name[1] = what}
           stored == Picked(entries, Named("objects"))
           back == [i \in DOMAIN stored |->
                      [bucket |-> stored[i].name[2], path |-> SubSeq(stored[i].name, 3, Len(stored[i].name)),
                       bytes |-> stored[i].body]]
<1>1. Opened(Artifact(objects)) = [manifest |-> Picked(entries, Named("MANIFEST.json"))[1].body,
                                   objects |-> back]
  BY DEF Opened, Artifact, decrypt, encrypt, pack, unpack
<1>2. /\ N \in Nat /\ DOMAIN objects = 1..N /\ objects = [i \in 1..N |-> objects[i]]
      /\ \A i \in 1..N : IsObject(objects[i])
  BY DEF IsObjects, IsList
<1> HIDE DEF N
<1>3. \A i \in 1..N : /\ rest[i].name[1] = "objects" /\ rest[i].name[2] = objects[i].bucket
                      /\ SubSeq(rest[i].name, 3, Len(rest[i].name)) = objects[i].path
                      /\ rest[i].body = objects[i].bytes
  <2> SUFFICES ASSUME NEW i \in 1..N
               PROVE  /\ rest[i].name[1] = "objects" /\ rest[i].name[2] = objects[i].bucket
                      /\ SubSeq(rest[i].name, 3, Len(rest[i].name)) = objects[i].path
                      /\ rest[i].body = objects[i].bytes
    OBVIOUS
  <2> DEFINE name == <<"objects", objects[i].bucket>> \o objects[i].path
             tag == "objects"
  <2>1. rest[i] = [name |-> name, body |-> objects[i].bytes]
    BY <1>2
  <2>2. objects[i].path \in Seq(1..Names)
    BY <1>2, BackupAssumption DEF IsObject
  <2>3. name[1] = "objects" /\ name[2] = objects[i].bucket /\ SubSeq(name, 3, Len(name)) = objects[i].path
    <3>1. name = <<tag, objects[i].bucket>> \o objects[i].path
      OBVIOUS
    <3> HIDE DEF tag, name
    <3>2. name[1] = tag /\ name[2] = objects[i].bucket /\ SubSeq(name, 3, Len(name)) = objects[i].path
      BY <2>2, <3>1, NameIs
    <3> QED
      BY <3>2 DEF tag
  <2> HIDE DEF rest, name
  <2> QED
    BY <2>1, <2>3
<1>4. rest = [i \in 1..N |-> rest[i]]
  BY <1>2
<1> HIDE DEF rest
<1>5. IsList(rest) /\ Len(rest) = N
  BY <1>2, <1>4, ListOfRange
<1>6. /\ DOMAIN entries = 1..(N + 1) /\ entries[1] = first
      /\ \A n \in 2..(N + 1) : entries[n] = rest[n - 1]
  <2> HIDE DEF first
  <2> QED
    BY <1>5, ListWithFirst
<1> HIDE DEF entries
<1>7. entries[1].name[1] = "MANIFEST.json" /\ entries[1].body = manifest
  BY <1>6
<1>8. \A n \in 2..(N + 1) : n - 1 \in 1..N /\ entries[n].name[1] = "objects"
  BY <1>2, <1>3, <1>6
<1>9. Named("objects") = 2..(N + 1) /\ Named("MANIFEST.json") = {1}
  <2>1. \A n \in DOMAIN entries : n = 1 \/ n \in 2..(N + 1)
    BY <1>2, <1>6
  <2>2. 1 \in DOMAIN entries /\ \A n \in 2..(N + 1) : n \in DOMAIN entries /\ n # 1
    BY <1>2, <1>6
  <2> QED
    BY <1>7, <1>8, <2>1, <2>2
<1> HIDE DEF first, manifest
<1>10. Picked(entries, Named("MANIFEST.json"))[1].body = manifest
  <2> DEFINE K == Named("MANIFEST.json")
  <2>1. K \in SUBSET (1..1) /\ Cardinality(K) = 1
    <3>1. K = {1}
      BY <1>9
    <3> HIDE DEF K
    <3>2. Cardinality({1}) = 1 /\ {1} \in SUBSET (1..1)
      BY FS_Singleton
    <3> QED
      BY <3>1, <3>2
  <2>2. PicksFrom(entries, K, Picked(entries, K))
    <3> HIDE DEF K
    <3> QED
      BY <2>1, PickedIs
  <2>3. \A n \in K : n = 1
    BY <1>9
  <2> HIDE DEF K, Named
  <2>4. Picked(entries, K)[1] = entries[1]
    BY <2>1, <2>2, <2>3 DEF PicksFrom
  <2> QED
    BY <1>7, <2>4 DEF K
<1>11. DOMAIN stored = 1..N /\ \A i \in 1..N : stored[i] = rest[i]
  <2> DEFINE K == Named("objects")
  <2>1. Cardinality(K) = N /\ \A i \in 1..N : NthOf(K, i) = i + 1
    BY <1>2, <1>9, SecondOn
  <2>2. \A i \in 1..N : i + 1 \in 2..(N + 1) /\ (i + 1) - 1 = i
    BY <1>2
  <2> HIDE DEF K, Named
  <2>3. DOMAIN Picked(entries, K) = 1..N /\ \A i \in 1..N : Picked(entries, K)[i] = entries[NthOf(K, i)]
    BY <2>1 DEF Picked
  <2> QED
    BY <1>6, <2>1, <2>2, <2>3 DEF K
<1> HIDE DEF stored, Named
<1>12. \A i \in 1..N : back[i] = objects[i]
  <2> SUFFICES ASSUME NEW i \in 1..N PROVE back[i] = objects[i]
    OBVIOUS
  <2>1. objects[i] = [bucket |-> objects[i].bucket, path |-> objects[i].path, bytes |-> objects[i].bytes]
    BY <1>2 DEF IsObject
  <2> QED
    BY <1>3, <1>11, <2>1
<1>13. back = objects
  BY <1>2, <1>11, <1>12
<1> QED
  BY <1>1, <1>10, <1>13 DEF manifest

(* A manifest counts what it lists.                                        *)
LEMMA ManifestIs ==
  ASSUME NEW objects, IsObjects(objects)
  PROVE  /\ IsManifest(buildManifest(objects))
         /\ \A b \in Buckets : buildManifest(objects).counts[b] > 0
                                 => \E i \in DOMAIN objects : objects[i].bucket = b
<1> DEFINE N == Len(objects)
           m == buildManifest(objects)
           mine(b) == {i \in DOMAIN objects : objects[i].bucket = b}
<1>1. N \in Nat /\ DOMAIN objects = 1..N
  BY DEF IsObjects, IsList
<1>2. m.count = N /\ \A b \in Buckets : m.counts[b] = Cardinality(mine(b))
  BY DEF buildManifest
<1> HIDE DEF m, N
<1>3. ASSUME NEW b \in Buckets
      PROVE  m.counts[b] \in Nat /\ (m.counts[b] > 0 => mine(b) # {}) /\ (mine(b) # {} => N > 0)
  <2>1. IsFiniteSet(1..N)
    BY <1>1, FS_Interval
  <2>2. mine(b) \subseteq 1..N
    BY <1>1
  <2> DEFINE M == mine(b)
  <2>3. m.counts[b] = Cardinality(M) /\ M \subseteq 1..N
    BY <1>2, <2>2
  <2> HIDE DEF M
  <2>4. IsFiniteSet(M) /\ Cardinality(M) \in Nat
    BY <2>1, <2>3, FS_Subset, FS_CardinalityType
  <2>5. M = {} => Cardinality(M) = 0
    BY FS_EmptySet
  <2>6. M # {} => N > 0
    <3> SUFFICES ASSUME NEW i \in M PROVE N > 0
      OBVIOUS
    <3>1. i \in 1..N
      BY <2>3
    <3> QED
      BY <1>1, <3>1
  <2> QED
    BY <2>3, <2>4, <2>5, <2>6 DEF M
<1>4. IsManifest(m)
  BY <1>1, <1>2, <1>3 DEF IsManifest
<1>5. \A b \in Buckets : m.counts[b] > 0 => \E i \in DOMAIN objects : objects[i].bucket = b
  BY <1>3
<1> QED
  BY <1>4, <1>5 DEF m

(* new Map(...): what it holds stands in the list it was made from.        *)
LEMMA MapIsOf ==
  ASSUME NEW entries, IsList(entries), NEW pair \in BinPairs(MapOf(entries))
  PROVE  \E i \in DOMAIN entries : pair = <<KeyOf(entries[i]), entries[i].bytes>>
<1> DEFINE At(k) == {i \in DOMAIN entries : KeyOf(entries[i]) = k}
           last(k) == CHOOSE i \in DOMAIN entries :
                         /\ KeyOf(entries[i]) = k
                         /\ \A j \in DOMAIN entries : KeyOf(entries[j]) = k => j <= i
<1>1. PICK k \in DOMAIN MapOf(entries) : pair = <<k, MapOf(entries)[k]>>
  BY DEF BinPairs
<1>2. k \in {KeyOf(entries[i]) : i \in DOMAIN entries} /\ MapOf(entries)[k] = entries[last(k)].bytes
  BY <1>1 DEF MapOf
<1>3. Len(entries) \in Nat /\ DOMAIN entries = 1..Len(entries)
  BY DEF IsList
<1>4. At(k) # {} /\ At(k) \in SUBSET (1..Len(entries))
  BY <1>2, <1>3
<1>5. PICK x \in At(k) : \A y \in At(k) : y <= x
  <2> DEFINE K == At(k)
  <2> HIDE DEF K
  <2>1. K # {} /\ K \in SUBSET (1..Len(entries))
    BY <1>4 DEF K
  <2>2. \E x \in K : \A y \in K : y <= x
    BY <1>3, <2>1, GreatestOfRange
  <2> QED
    BY <2>2 DEF K
<1>6. \E i \in DOMAIN entries : /\ KeyOf(entries[i]) = k
                                /\ \A j \in DOMAIN entries : KeyOf(entries[j]) = k => j <= i
  BY <1>5
<1>7. last(k) \in DOMAIN entries /\ KeyOf(entries[last(k)]) = k
  BY <1>6
<1> QED
  BY <1>1, <1>2, <1>7

(* While a job goes on, what is noted of it is brought up to date.         *)
LEMMA Watched ==
  ASSUME NEW next, DOMAIN bin \subseteq Keys, \A j \in Jobs : JobHolds(j, next[j], bin),
         Watching(next)
  PROVE  DOMAIN job' = Jobs /\ \A j \in Jobs : JobHolds(j, job'[j], bin')
<1>1. DOMAIN job' = Jobs
      /\ \A j \in Jobs : job'[j] = IF AtRest(next[j]) THEN next[j]
                                   ELSE [next[j] EXCEPT !.notes = Noted(@, bin, bin')]
  BY DEF Watching
<1>2. ASSUME NEW j \in Jobs PROVE JobHolds(j, job'[j], bin')
  <2> DEFINE w == next[j]
             notes == Noted(w.notes, bin, bin')
             after == [w EXCEPT !.notes = Noted(@, bin, bin')]
  <2>1. CASE w = NoWork
    <3>1. AtRest(w)
      BY <2>1 DEF AtRest, NoWork
    <3> QED
      BY <1>1, <2>1, <3>1 DEF JobHolds
  <2>2. CASE j = "restore" /\ ToldHolds(w)
    <3>1. AtRest(w)
      BY <2>2 DEF AtRest, ToldHolds
    <3> QED
      BY <1>1, <2>2, <3>1 DEF JobHolds
  <2>3. CASE WorkHolds(j, w, bin)
    <3>1. /\ w = [step |-> w.step, plan |-> w.plan, walk |-> w.walk, notes |-> w.notes]
          /\ IsWalk(w.walk) /\ IsNotes(w.walk, w.notes, bin)
          /\ IF j = "backup" THEN BackupHolds(w) ELSE RestoreHolds(w)
      BY <2>3 DEF WorkHolds
    <3>2. ~AtRest(w)
      BY <3>1 DEF AtRest, BackupHolds, RestoreHolds
    <3>3. after = [step |-> w.step, plan |-> w.plan, walk |-> w.walk, notes |-> notes]
      <4> HIDE DEF w
      <4>1. DOMAIN w = {"step", "plan", "walk", "notes"}
        BY <3>1
      <4> QED
        BY <4>1
    <3>4. IsNotes(w.walk, notes, bin')
      BY <3>1, NotedKeeps
    <3> HIDE DEF notes, after
    <3>5. after.step = w.step /\ after.plan = w.plan /\ after.walk = w.walk /\ after.notes = notes
      BY <3>3
    <3>6. after = [step |-> after.step, plan |-> after.plan, walk |-> after.walk, notes |-> after.notes]
      BY <3>3, <3>5
    <3>7. IF j = "backup" THEN BackupHolds(after) ELSE RestoreHolds(after)
      <4> HIDE DEF w
      <4> QED
        BY <3>1, <3>5 DEF BackupHolds, RestoreHolds
    <3>8. WorkHolds(j, after, bin')
      BY <3>1, <3>4, <3>5, <3>6, <3>7 DEF WorkHolds
    <3>9. job'[j] = after
      BY <1>1, <3>2 DEF after
    <3> QED
      BY <3>8, <3>9 DEF JobHolds
  <2>4. JobHolds(j, w, bin)
    OBVIOUS
  <2> QED
    BY <2>1, <2>2, <2>3, <2>4 DEF JobHolds
<1> QED
  BY <1>1, <1>2

JobsHold == DOMAIN job = Jobs /\ \A j \in Jobs : JobHolds(j, job[j], bin)
LEMMA Replaced ==
  ASSUME DOMAIN bin \subseteq Keys, JobsHold, NEW j \in Jobs, NEW w, JobHolds(j, w, bin),
         Watching([job EXCEPT ![j] = w])
  PROVE  JobsHold'
<1> DEFINE next == [job EXCEPT ![j] = w]
<1>1. \A i \in Jobs : JobHolds(i, next[i], bin)
  <2> SUFFICES ASSUME NEW i \in Jobs PROVE JobHolds(i, next[i], bin)
    OBVIOUS
  <2>1. next[i] = IF i = j THEN w ELSE job[i]
    BY DEF JobsHold
  <2> HIDE DEF next
  <2> QED
    BY <2>1 DEF JobsHold
<1> HIDE DEF next
<1>2. DOMAIN job' = Jobs /\ \A i \in Jobs : JobHolds(i, job'[i], bin')
  BY <1>1, Watched DEF next
<1> QED
  BY <1>2 DEF JobsHold

LEMMA AdvanceHolds ==
  ASSUME BackupInv, NEW j \in Jobs, NEW w, JobHolds(j, w, bin), Advance(j, w)
  PROVE  BackupInv'
<1>1. JobsHold'
  BY Replaced DEF BackupInv, JobsHold, Advance
<1>2. bin' = bin /\ archives' = archives /\ baseline' = baseline
  BY DEF Advance
<1> QED
  BY <1>1, <1>2 DEF BackupInv, JobsHold

(* A job that is under way. *)
LEMMA AtWork ==
  ASSUME BackupInv, NEW j \in Jobs, job[j].step \in {"walk", "archive", "baseline", "upload"}
  PROVE  WorkHolds(j, job[j], bin)
<1>1. JobHolds(j, job[j], bin)
  BY DEF BackupInv
<1>2. job[j] # NoWork
  BY DEF NoWork
<1>3. ~ToldHolds(job[j])
  BY DEF ToldHolds
<1> QED
  BY <1>1, <1>2, <1>3 DEF JobHolds

LEMMA WalkOnHolds ==
  ASSUME NEW j, NEW w, NEW files, WorkHolds(j, w, files), w.step = "walk",
         NEW walk, IsWalk(walk), NEW notes, IsNotes(walk, notes, files),
         NEW next, next = [step |-> w.step, plan |-> w.plan, walk |-> walk, notes |-> notes]
  PROVE  WorkHolds(j, next, files)
<1>1. next.step = w.step /\ next.plan = w.plan /\ next.walk = walk /\ next.notes = notes
  OBVIOUS
<1>2. IF j = "backup" THEN BackupHolds(w) ELSE RestoreHolds(w)
  BY DEF WorkHolds
<1>3. next = [step |-> next.step, plan |-> next.plan, walk |-> next.walk, notes |-> next.notes]
  BY <1>1
<1>4. IF j = "backup" THEN BackupHolds(next) ELSE RestoreHolds(next)
  BY <1>1, <1>2 DEF BackupHolds, RestoreHolds
<1> QED
  BY <1>1, <1>3, <1>4 DEF WorkHolds

LEMMA WalksOn ==
  ASSUME BackupInv, NEW j \in Jobs, Walking(j), NEW walk, IsWalk(walk),
         IsNotes(walk, job[j].notes, bin), WalkOn(j, walk)
  PROVE  BackupInv'
<1> DEFINE w == job[j]
           next == [w EXCEPT !.walk = walk]
<1>1. WorkHolds(j, w, bin) /\ w.step = "walk"
  BY AtWork DEF Walking
<1>2. next = [step |-> w.step, plan |-> w.plan, walk |-> walk, notes |-> w.notes]
  <2>1. w = [step |-> w.step, plan |-> w.plan, walk |-> w.walk, notes |-> w.notes]
    BY <1>1 DEF WorkHolds
  <2> HIDE DEF w
  <2>2. DOMAIN w = {"step", "plan", "walk", "notes"}
    BY <2>1
  <2> QED
    BY <2>2
<1>3. WorkHolds(j, next, bin)
  <2> HIDE DEF next
  <2> QED
    BY <1>1, <1>2, WalkOnHolds
<1>4. Advance(j, next) /\ JobHolds(j, next, bin)
  BY <1>3 DEF WalkOn, JobHolds
<1> HIDE DEF next
<1> QED
  BY <1>4, AdvanceHolds

LEMMA WalkStepHolds ==
  ASSUME BackupInv, NEW j \in Jobs,
         ListPage(j) \/ VisitEntry(j) \/ EndFolder(j) \/ downloadObject(j) \/ NextBucket(j)
  PROVE  BackupInv'
<1> DEFINE w == job[j]
           walk == w.walk
           notes == w.notes
<1>1. Walking(j)
  BY DEF ListPage, VisitEntry, EndFolder, downloadObject, NextBucket
<1>2. /\ DOMAIN bin \subseteq Keys /\ w.step = "walk"
      /\ IsWalk(walk) /\ IsNotes(walk, notes, bin)
      /\ w = [step |-> w.step, plan |-> w.plan, walk |-> walk, notes |-> notes]
      /\ WorkHolds(j, w, bin)
  BY <1>1, AtWork DEF BackupInv, Walking, WorkHolds
<1>3. JobHolds(j, NoWork, bin)
  BY DEF JobHolds
<1>4. CASE ListPage(j)
  <2>1. walk.stack # <<>> /\ Top(walk).rest = <<>> /\ Top(walk).more
    BY <1>4 DEF ListPage
  <2> DEFINE paged == WithTop(walk, After(Top(walk), PageOf(Bucket(walk), Top(walk), bin)))
             emptied == WithTop(walk, After(Top(walk), <<>>))
             seen == [notes EXCEPT !.hollow = notes.hollow \cup {Bucket(walk)}]
             next == [w EXCEPT !.walk = emptied, !.notes = seen]
  <2>2. CASE WalkOn(j, paged)
    <3>1. IsWalk(paged) /\ IsNotes(paged, notes, bin)
      BY <1>2, <2>1, ListKeeps
    <3> HIDE DEF paged
    <3> QED
      BY <1>1, <2>2, <3>1, WalksOn
  <2>3. CASE Top(walk) = Frame(<<>>) /\ Advance(j, next)
    <3>1. IsWalk(emptied) /\ IsNotes(emptied, seen, bin)
      BY <1>2, <2>1, <2>3, HollowKeeps
    <3> HIDE DEF emptied, seen
    <3>2. next = [step |-> w.step, plan |-> w.plan, walk |-> emptied, notes |-> seen]
      <4> DEFINE once == [w EXCEPT !.walk = emptied]
      <4>1. next = [once EXCEPT !.notes = seen]
        OBVIOUS
      <4>2. once = [step |-> w.step, plan |-> w.plan, walk |-> emptied, notes |-> w.notes]
        <5>1. w = [step |-> w.step, plan |-> w.plan, walk |-> w.walk, notes |-> w.notes]
          BY <1>2
        <5> HIDE DEF w
        <5>2. DOMAIN w = {"step", "plan", "walk", "notes"}
          BY <5>1
        <5> QED
          BY <5>2
      <4> HIDE DEF once, next, w
      <4>3. [once EXCEPT !.notes = seen] = [step |-> w.step, plan |-> w.plan, walk |-> emptied, notes |-> seen]
        BY <4>2
      <4> QED
        BY <4>1, <4>3
    <3> HIDE DEF next
    <3>3. WorkHolds(j, next, bin)
      BY <1>2, <3>1, <3>2, WalkOnHolds
    <3> QED
      BY <2>3, <3>3, AdvanceHolds DEF JobHolds
  <2> QED
    BY <1>4, <2>2, <2>3 DEF ListPage
<1>5. CASE VisitEntry(j)
  <2> DEFINE entry == Head(Top(walk).rest)
             full == Append(Top(walk).prefix, entry.name)
             left == WithTop(walk, [Top(walk) EXCEPT !.rest = Tail(@)])
             next == IF entry.folder THEN [left EXCEPT !.stack = Append(@, Frame(full))]
                                     ELSE [left EXCEPT !.found = Append(@, full)]
  <2>1. walk.stack # <<>> /\ Top(walk).rest # <<>> /\ WalkOn(j, next)
    BY <1>5 DEF VisitEntry
  <2>2. IsWalk(next) /\ IsNotes(next, notes, bin)
    BY <1>2, <2>1, VisitKeeps
  <2> HIDE DEF next
  <2> QED
    BY <1>1, <2>1, <2>2, WalksOn
<1>6. CASE EndFolder(j)
  <2> DEFINE next == [walk EXCEPT !.stack = Front(@)]
  <2>1. walk.stack # <<>> /\ Top(walk).rest = <<>> /\ ~Top(walk).more /\ WalkOn(j, next)
    BY <1>6 DEF EndFolder
  <2>2. IsWalk(next) /\ IsNotes(next, notes, bin)
    BY <1>2, <2>1, EndKeeps
  <2> HIDE DEF next
  <2> QED
    BY <1>1, <2>1, <2>2, WalksOn
<1>7. CASE downloadObject(j)
  <2> DEFINE key == <<Bucket(walk), Head(walk.found)>>
             object == [bucket |-> key[1], path |-> key[2], bytes |-> bin[key]]
             next == [walk EXCEPT !.found = Tail(@), !.objects = Append(@, object)]
  <2>1. walk.stack = <<>> /\ walk.found # <<>>
    BY <1>7 DEF downloadObject
  <2>2. Advance(j, NoWork) \/ (key \in DOMAIN bin /\ WalkOn(j, next))
    BY <1>7 DEF downloadObject
  <2>3. CASE key \in DOMAIN bin /\ WalkOn(j, next)
    <3>1. IsWalk(next) /\ IsNotes(next, notes, bin)
      BY <1>2, <2>1, <2>3, DownloadKeeps
    <3> HIDE DEF next
    <3> QED
      BY <1>1, <2>3, <3>1, WalksOn
  <2> QED
    BY <1>3, <2>2, <2>3, AdvanceHolds
<1>8. CASE NextBucket(j)
  <2> DEFINE next == [walk EXCEPT !.at = @ + 1, !.stack = <<Frame(<<>>)>>]
  <2>1. walk.stack = <<>> /\ walk.found = <<>> /\ walk.at < Len(BucketOrder) /\ WalkOn(j, next)
    BY <1>8 DEF NextBucket
  <2>2. IsWalk(next) /\ IsNotes(next, notes, bin)
    BY <1>2, <2>1, NextKeeps
  <2> HIDE DEF next
  <2> QED
    BY <1>1, <2>1, <2>2, WalksOn
<1> QED
  BY <1>4, <1>5, <1>6, <1>7, <1>8

(* A run that has walked all buckets and found its manifest plausible has   *)
(* every file that stood, but for the two cases that are left.              *)
LEMMA FinishedIsArchived ==
  ASSUME NEW w, NEW files, DOMAIN files \subseteq Keys, WorkHolds("backup", w, files),
         w.step = "archive", NEW a,
         a = [container |-> Artifact(w.walk.objects), previous |-> w.plan.previous,
              untouched |-> w.notes.untouched, gone |-> w.notes.gone, hollow |-> w.notes.hollow]
  PROVE  ArchiveHolds(a)
<1> DEFINE walk == w.walk
           notes == w.notes
           objects == walk.objects
           m == buildManifest(objects)
           previous == w.plan.previous
<1>1. /\ a.container = Artifact(objects) /\ a.previous = previous /\ a.untouched = notes.untouched
      /\ a.gone = notes.gone /\ a.hollow = notes.hollow
  OBVIOUS
<1>2. IsWalk(walk) /\ IsNotes(walk, notes, files) /\ BackupHolds(w)
  BY DEF WorkHolds
<1>3. Finished(walk) /\ assertPlausible(m, previous, w.plan.allowEmpty) /\ IsBaseline(previous)
  BY <1>2 DEF BackupHolds
<1>4. IsObjects(objects)
  BY <1>2 DEF IsWalk
<1>5. IsManifest(m) /\ \A b \in Buckets : m.counts[b] > 0 => \E i \in DOMAIN objects : objects[i].bucket = b
  BY <1>4, ManifestIs
<1> HIDE DEF m, previous
<1>6. ASSUME NEW pair \in notes.untouched
      PROVE  \/ Taken(objects, pair) \/ pair[1][1] \in notes.gone
             \/ pair[1][1] \in notes.hollow /\ (previous = Lost \/ previous.counts[pair[1][1]] = 0)
  <2> DEFINE b == pair[1][1]
  <2>1. Accounted(walk, notes, pair, files) /\ pair \in BinPairs(files)
    BY <1>2 DEF IsNotes
  <2>2. b \in Buckets
    BY <2>1, PairIs
  <2>3. ~Later(walk, b)
    <3>1. \A k \in (walk.at + 1)..Len(BucketOrder) : FALSE
      BY <1>3, BucketsInOrder DEF Finished
    <3> QED
      BY <3>1 DEF Later
  <2>4. ~Pending(walk, pair[1][2], files)
    <3>1. walk.stack = <<>> /\ walk.found = <<>> /\ DOMAIN <<>> = {}
      BY <1>3, EmptySeq DEF Finished
    <3> QED
      BY <3>1 DEF Pending
  <2>5. ASSUME b \in notes.hollow, previous # Lost PROVE previous.counts[b] = 0
    <3>1. \A i \in DOMAIN objects : objects[i].bucket # b
      BY <1>2, <2>5 DEF IsNotes, Hollow
    <3>2. ~(m.counts[b] > 0)
      BY <1>5, <2>2, <3>1
    <3>3. previous.counts[b] \in Nat /\ (previous.counts[b] > 0 => previous.count > 0)
      BY <1>3, <2>2, <2>5 DEF IsBaseline, IsManifest
    <3>4. ~(previous.counts[b] > 0)
      BY <1>3, <2>2, <2>5, <3>2, <3>3 DEF assertPlausible
    <3> QED
      BY <3>3, <3>4
  <2> QED
    BY <2>1, <2>3, <2>4, <2>5 DEF Accounted
<1> QED
  BY <1>1, <1>4, <1>6 DEF ArchiveHolds

(* The workflow begins, judges, keeps the artifact and then its manifest.  *)
LEMMA StartBackupHolds ==
  ASSUME BackupInv, StartBackup
  PROVE  BackupInv'
<1>1. PICK previous \in {baseline, Lost}, allowEmpty \in BOOLEAN :
         Advance("backup", Begun("walk", [previous |-> previous, allowEmpty |-> allowEmpty]))
  BY DEF StartBackup
<1> DEFINE plan == [previous |-> previous, allowEmpty |-> allowEmpty]
           w == Begun("walk", plan)
<1>2. DOMAIN bin \subseteq Keys /\ IsBaseline(previous)
  BY DEF BackupInv, IsBaseline
<1>3. plan.previous = previous
  OBVIOUS
<1> HIDE DEF plan
<1>4. /\ w.step = "walk" /\ w.plan = plan /\ IsWalk(w.walk) /\ IsNotes(w.walk, w.notes, bin)
      /\ w = [step |-> w.step, plan |-> w.plan, walk |-> w.walk, notes |-> w.notes]
  BY <1>2, WalkBegins DEF Begun
<1> HIDE DEF w
<1>5. WorkHolds("backup", w, bin)
  BY <1>2, <1>3, <1>4 DEF WorkHolds, BackupHolds
<1>6. JobHolds("backup", w, bin) /\ Advance("backup", w) /\ "backup" \in Jobs
  BY <1>1, <1>5 DEF JobHolds, w, plan, Jobs
<1> QED
  BY <1>6, AdvanceHolds

LEMMA StepChanges ==
  ASSUME NEW j, NEW w, NEW files, WorkHolds(j, w, files), NEW step, NEW next,
         next = [w EXCEPT !.step = step]
  PROVE  /\ next = [step |-> step, plan |-> w.plan, walk |-> w.walk, notes |-> w.notes]
         /\ next.step = step /\ next.plan = w.plan /\ next.walk = w.walk /\ next.notes = w.notes
         /\ next = [step |-> next.step, plan |-> next.plan, walk |-> next.walk, notes |-> next.notes]
<1>1. w = [step |-> w.step, plan |-> w.plan, walk |-> w.walk, notes |-> w.notes]
  BY DEF WorkHolds
<1>2. DOMAIN w = {"step", "plan", "walk", "notes"}
  BY <1>1
<1>3. next = [step |-> step, plan |-> w.plan, walk |-> w.walk, notes |-> w.notes]
  BY <1>2
<1> QED
  BY <1>3

LEMMA MakeArchiveHolds ==
  ASSUME BackupInv, MakeArchive
  PROVE  BackupInv'
<1> DEFINE w == job["backup"]
           m == buildManifest(w.walk.objects)
           next == [w EXCEPT !.step = "archive"]
<1>1. Walked("backup") /\ "backup" \in Jobs
  BY DEF MakeArchive, Jobs
<1>2. Finished(w.walk) /\ w.step = "walk"
  BY <1>1 DEF Walked, Walking, Finished
<1>3. WorkHolds("backup", w, bin)
  BY <1>1, <1>2, AtWork
<1>4. CASE Advance("backup", NoWork)
  BY <1>1, <1>4, AdvanceHolds DEF JobHolds
<1>5. CASE assertPlausible(m, w.plan.previous, w.plan.allowEmpty) /\ Advance("backup", next)
  <2>1. /\ next.step = "archive" /\ next.plan = w.plan /\ next.walk = w.walk /\ next.notes = w.notes
        /\ next = [step |-> next.step, plan |-> next.plan, walk |-> next.walk, notes |-> next.notes]
    <3> DEFINE v == next
    <3>1. v = [w EXCEPT !.step = "archive"]
      OBVIOUS
    <3> HIDE DEF v
    <3>2. /\ v.step = "archive" /\ v.plan = w.plan /\ v.walk = w.walk /\ v.notes = w.notes
          /\ v = [step |-> v.step, plan |-> v.plan, walk |-> v.walk, notes |-> v.notes]
      BY <1>3, <3>1, StepChanges
    <3> QED
      BY <3>2 DEF v
  <2>2. IsWalk(w.walk) /\ IsNotes(w.walk, w.notes, bin) /\ BackupHolds(w)
    BY <1>3 DEF WorkHolds
  <2> HIDE DEF next
  <2>3. BackupHolds(next)
    BY <1>2, <1>5, <2>1, <2>2 DEF BackupHolds
  <2>4. WorkHolds("backup", next, bin)
    BY <2>1, <2>2, <2>3 DEF WorkHolds
  <2> QED
    BY <1>1, <1>5, <2>4, AdvanceHolds DEF JobHolds
<1> QED
  BY <1>4, <1>5 DEF MakeArchive


LEMMA UploadArchiveHolds ==
  ASSUME BackupInv, UploadArchive
  PROVE  BackupInv'
<1> DEFINE w == job["backup"]
           next == [w EXCEPT !.step = "baseline"]
           a == [container |-> Artifact(w.walk.objects), previous |-> w.plan.previous,
                 untouched |-> w.notes.untouched, gone |-> w.notes.gone, hollow |-> w.notes.hollow]
<1>1. /\ w.step = "archive" /\ archives' = Append(archives, a) /\ bin' = bin /\ baseline' = baseline
      /\ Watching([job EXCEPT !["backup"] = next]) /\ "backup" \in Jobs
  BY DEF UploadArchive, Jobs
<1>2. WorkHolds("backup", w, bin) /\ DOMAIN bin \subseteq Keys
  <2>1. "backup" \in Jobs /\ job["backup"].step \in {"walk", "archive", "baseline", "upload"}
    BY <1>1
  <2> QED
    BY <2>1, AtWork DEF BackupInv
<1>3. ArchiveHolds(a)
  BY <1>1, <1>2, FinishedIsArchived
<1> HIDE DEF a
<1>4. ArchivesHold(archives')
  <2>1. IsList(archives) /\ \A i \in DOMAIN archives : ArchiveHolds(archives[i])
    BY DEF BackupInv, ArchivesHold
  <2>2. /\ Len(archives) \in Nat /\ DOMAIN archives = 1..Len(archives) /\ IsList(archives')
        /\ DOMAIN archives' = 1..(Len(archives) + 1)
        /\ \A n \in 1..Len(archives) : archives'[n] = archives[n]
        /\ archives'[Len(archives) + 1] = a
    BY <1>1, <2>1, ListGrows
  <2>3. ASSUME NEW i \in DOMAIN archives' PROVE ArchiveHolds(archives'[i])
    <3>1. i \in 1..Len(archives) \/ i = Len(archives) + 1
      BY <2>2
    <3> QED
      BY <1>3, <2>1, <2>2, <3>1
  <2> QED
    BY <2>2, <2>3 DEF ArchivesHold
<1>5. /\ next.step = "baseline" /\ next.plan = w.plan /\ next.walk = w.walk /\ next.notes = w.notes
      /\ next = [step |-> next.step, plan |-> next.plan, walk |-> next.walk, notes |-> next.notes]
  <2> DEFINE v == next
  <2>1. v = [w EXCEPT !.step = "baseline"]
    OBVIOUS
  <2> HIDE DEF v
  <2>2. /\ v.step = "baseline" /\ v.plan = w.plan /\ v.walk = w.walk /\ v.notes = w.notes
        /\ v = [step |-> v.step, plan |-> v.plan, walk |-> v.walk, notes |-> v.notes]
    BY <1>2, <2>1, StepChanges
  <2> QED
    BY <2>2 DEF v
<1>6. IsWalk(w.walk) /\ IsNotes(w.walk, w.notes, bin) /\ BackupHolds(w)
  BY <1>2 DEF WorkHolds
<1> HIDE DEF next
<1>7. BackupHolds(next)
  BY <1>1, <1>5, <1>6 DEF BackupHolds
<1>8. JobHolds("backup", next, bin)
  BY <1>5, <1>6, <1>7 DEF WorkHolds, JobHolds
<1>9. JobsHold'
  BY <1>1, <1>2, <1>8, Replaced DEF BackupInv, JobsHold
<1> QED
  BY <1>1, <1>2, <1>4, <1>9 DEF BackupInv, JobsHold

LEMMA StoreBaselineHolds ==
  ASSUME BackupInv, StoreBaseline
  PROVE  BackupInv'
<1> DEFINE w == job["backup"]
<1>1. /\ w.step = "baseline" /\ baseline' = Opened(Artifact(w.walk.objects)).manifest
      /\ bin' = bin /\ archives' = archives
      /\ Watching([job EXCEPT !["backup"] = NoWork]) /\ "backup" \in Jobs
  BY DEF StoreBaseline, Jobs
<1>2. WorkHolds("backup", w, bin)
  BY <1>1, AtWork
<1>3. IsObjects(w.walk.objects)
  BY <1>2 DEF WorkHolds, IsWalk
<1>4. IsBaseline(baseline')
  <2>1. Opened(Artifact(w.walk.objects)) = [manifest |-> buildManifest(w.walk.objects), objects |-> w.walk.objects]
    BY <1>3, PackedComesBack
  <2>2. baseline' = buildManifest(w.walk.objects)
    BY <1>1, <2>1
  <2> QED
    BY <1>3, <2>2, ManifestIs DEF IsBaseline
<1>5. JobsHold'
  BY <1>1, Replaced DEF BackupInv, JobsHold, JobHolds
<1> QED
  BY <1>1, <1>4, <1>5 DEF BackupInv, JobsHold

(* The operator's command: the objects of an artifact are put back, the     *)
(* project is read, and what is told compares the two.                      *)
LEMMA StartRestoreHolds ==
  ASSUME BackupInv, StartRestore
  PROVE  BackupInv'
<1>1. PICK i \in DOMAIN archives, overwrite \in BOOLEAN :
         Advance("restore", Begun("upload", [manifest |-> Opened(archives[i].container).manifest,
                                             left |-> Opened(archives[i].container).objects,
                                             overwrite |-> overwrite]))
  BY DEF StartRestore
<1>2. PICK objects : IsObjects(objects) /\ archives[i].container = Artifact(objects)
  BY DEF BackupInv, ArchivesHold, ArchiveHolds
<1> DEFINE opened == Opened(archives[i].container)
           plan == [manifest |-> opened.manifest, left |-> opened.objects, overwrite |-> overwrite]
           w == Begun("upload", plan)
<1>3. opened.objects = objects
  <2>1. opened = [manifest |-> buildManifest(objects), objects |-> objects]
    BY <1>2, PackedComesBack
  <2> HIDE DEF opened
  <2> QED
    BY <2>1
<1>4. Advance("restore", w)
  BY <1>1
<1> HIDE DEF opened
<1>5. plan.left = objects /\ plan = [manifest |-> plan.manifest, left |-> plan.left, overwrite |-> plan.overwrite]
  BY <1>3
<1> HIDE DEF plan
<1>6. DOMAIN bin \subseteq Keys
  BY DEF BackupInv
<1>7. /\ w.step = "upload" /\ w.plan = plan /\ IsWalk(w.walk) /\ IsNotes(w.walk, w.notes, bin)
      /\ w = [step |-> w.step, plan |-> w.plan, walk |-> w.walk, notes |-> w.notes]
  BY <1>6, WalkBegins DEF Begun
<1> HIDE DEF w
<1>8. JobHolds("restore", w, bin) /\ "restore" \in Jobs
  BY <1>2, <1>5, <1>7 DEF JobHolds, WorkHolds, RestoreHolds, Jobs
<1> QED
  BY <1>4, <1>8, AdvanceHolds

LEMMA uploadObjectHolds ==
  ASSUME BackupInv, uploadObject
  PROVE  BackupInv'
<1> DEFINE w == job["restore"]
           left == w.plan.left
           object == Head(left)
           plan == [w.plan EXCEPT !.left = Tail(left)]
           next == [w EXCEPT !.plan = plan]
<1>1. /\ w.step = "upload" /\ left # <<>> /\ archives' = archives /\ baseline' = baseline
      /\ bin' = bin \/ bin' = Put(bin, KeyOf(object), object.bytes)
      /\ "restore" \in Jobs
  BY DEF uploadObject, Jobs
<1>2. Watching([job EXCEPT !["restore"] = next])
  BY DEF uploadObject
<1>3. WorkHolds("restore", w, bin)
  BY <1>1, AtWork
<1>4. /\ w = [step |-> w.step, plan |-> w.plan, walk |-> w.walk, notes |-> w.notes]
      /\ IsWalk(w.walk) /\ IsNotes(w.walk, w.notes, bin) /\ RestoreHolds(w)
  BY <1>3 DEF WorkHolds
<1>5. IsObjects(left) /\ w.plan = [manifest |-> w.plan.manifest, left |-> left, overwrite |-> w.plan.overwrite]
  BY <1>4 DEF RestoreHolds
<1>6. IsObjects(Tail(left)) /\ IsObject(object)
  <2>1. /\ IsList(Tail(left)) /\ object = left[1] /\ 1 \in DOMAIN left
        /\ \A i \in DOMAIN Tail(left) : i + 1 \in DOMAIN left /\ Tail(left)[i] = left[i + 1]
    BY <1>1, <1>5, ListRests DEF IsObjects
  <2> QED
    BY <1>5, <2>1 DEF IsObjects
<1>7. plan = [manifest |-> w.plan.manifest, left |-> Tail(left), overwrite |-> w.plan.overwrite]
  <2> DEFINE p == w.plan
             rest == Tail(left)
  <2>1. p = [manifest |-> p.manifest, left |-> p.left, overwrite |-> p.overwrite]
    BY <1>5
  <2> HIDE DEF p, rest
  <2>2. DOMAIN p = {"manifest", "left", "overwrite"}
    BY <2>1
  <2>3. [p EXCEPT !.left = rest] = [manifest |-> p.manifest, left |-> rest, overwrite |-> p.overwrite]
    BY <2>2
  <2> QED
    BY <2>3 DEF p, rest
<1> DEFINE after == [step |-> w.step, plan |-> plan, walk |-> w.walk, notes |-> w.notes]
<1>8. next = after
  <2> DEFINE v == w
  <2> HIDE DEF plan
  <2>1. v = [step |-> v.step, plan |-> v.plan, walk |-> v.walk, notes |-> v.notes]
    BY <1>4
  <2> HIDE DEF v
  <2>2. DOMAIN v = {"step", "plan", "walk", "notes"}
    BY <2>1
  <2>3. [v EXCEPT !.plan = plan] = [step |-> v.step, plan |-> plan, walk |-> v.walk, notes |-> v.notes]
    BY <2>2
  <2> QED
    BY <2>3 DEF v
<1>9. plan.left = Tail(left) /\ plan = [manifest |-> plan.manifest, left |-> plan.left, overwrite |-> plan.overwrite]
  <2> HIDE DEF plan
  <2> QED
    BY <1>7
<1> HIDE DEF plan, next
<1>10. after.step = "upload" /\ after.plan = plan /\ after.walk = w.walk /\ after.notes = w.notes
       /\ after = [step |-> after.step, plan |-> after.plan, walk |-> after.walk, notes |-> after.notes]
  BY <1>1
<1> HIDE DEF after
<1>11. RestoreHolds(after)
  BY <1>6, <1>9, <1>10 DEF RestoreHolds
<1>12. JobHolds("restore", after, bin)
  BY <1>4, <1>10, <1>11 DEF JobHolds, WorkHolds
<1>13. JobsHold'
  BY <1>1, <1>2, <1>8, <1>12, Replaced DEF BackupInv, JobsHold
<1>14. DOMAIN bin' \subseteq Keys
  <2>1. DOMAIN bin \subseteq Keys
    BY DEF BackupInv
  <2>2. KeyOf(object) \in Keys
    BY <1>6 DEF IsObject, KeyOf, Keys
  <2>3. DOMAIN Put(bin, KeyOf(object), object.bytes) = DOMAIN bin \cup {KeyOf(object)}
    BY DEF Put
  <2> QED
    BY <1>1, <2>1, <2>2, <2>3
<1> QED
  BY <1>1, <1>13, <1>14 DEF BackupInv, JobsHold

LEMMA ReadBackHolds ==
  ASSUME BackupInv, ReadBack
  PROVE  BackupInv'
<1> DEFINE w == job["restore"]
           next == [w EXCEPT !.step = "walk"]
<1>1. w.step = "upload" /\ Advance("restore", next) /\ "restore" \in Jobs
  BY DEF ReadBack, Jobs
<1>2. WorkHolds("restore", w, bin)
  BY <1>1, AtWork
<1>3. /\ next.step = "walk" /\ next.plan = w.plan /\ next.walk = w.walk /\ next.notes = w.notes
      /\ next = [step |-> next.step, plan |-> next.plan, walk |-> next.walk, notes |-> next.notes]
  <2> DEFINE v == next
  <2>1. v = [w EXCEPT !.step = "walk"]
    OBVIOUS
  <2> HIDE DEF v
  <2>2. /\ v.step = "walk" /\ v.plan = w.plan /\ v.walk = w.walk /\ v.notes = w.notes
        /\ v = [step |-> v.step, plan |-> v.plan, walk |-> v.walk, notes |-> v.notes]
    BY <1>2, <2>1, StepChanges
  <2> QED
    BY <2>2 DEF v
<1>4. IsWalk(w.walk) /\ IsNotes(w.walk, w.notes, bin) /\ RestoreHolds(w)
  BY <1>2 DEF WorkHolds
<1> HIDE DEF next
<1>5. RestoreHolds(next)
  BY <1>3, <1>4 DEF RestoreHolds
<1>6. JobHolds("restore", next, bin)
  BY <1>3, <1>4, <1>5 DEF WorkHolds, JobHolds
<1> QED
  BY <1>1, <1>6, AdvanceHolds


LEMMA TellOperatorHolds ==
  ASSUME BackupInv, TellOperator
  PROVE  BackupInv'
<1> DEFINE w == job["restore"]
           objects == w.walk.objects
           K == {i \in DOMAIN objects : KeyOf(objects[i]) \in DOMAIN MapOf(w.plan.manifest.entries)}
           relevant == Picked(objects, K)
           manifest == w.plan.manifest
           says == [step |-> "told", verified |-> verifyRestore(manifest, relevant),
                    manifest |-> manifest, ever |-> w.notes.ever]
<1>1. Walked("restore") /\ Advance("restore", says) /\ "restore" \in Jobs
  BY DEF TellOperator, Jobs
<1>2. WorkHolds("restore", w, bin)
  <2>1. w.step = "walk"
    BY <1>1 DEF Walked, Walking
  <2> QED
    BY <1>1, <2>1, AtWork
<1>3. IsObjects(objects) /\ IsNotes(w.walk, w.notes, bin)
  BY <1>2 DEF WorkHolds, IsWalk
<1>4. Len(objects) \in Nat /\ DOMAIN objects = 1..Len(objects) /\ K \in SUBSET (1..Len(objects))
  BY <1>3 DEF IsObjects, IsList
<1> HIDE DEF K
<1>5. PicksFrom(objects, K, relevant) /\ IsList(relevant)
  BY <1>4, PickedIs, PickedIsList
<1> HIDE DEF relevant
<1>6. ASSUME NEW pair \in BinPairs(MapOf(relevant)) PROVE pair \in w.notes.ever
  <2>1. PICK i \in DOMAIN relevant : pair = <<KeyOf(relevant[i]), relevant[i].bytes>>
    BY <1>5, <1>6, MapIsOf
  <2>2. PICK n \in K : relevant[i] = objects[n]
    BY <1>5 DEF PicksFrom
  <2>3. n \in DOMAIN objects
    BY <1>4
  <2> QED
    BY <1>3, <2>1, <2>2, <2>3 DEF IsNotes
<1>7. verifyRestore(manifest, relevant) => BinPairs(MapOf(manifest.entries)) \subseteq w.notes.ever
  BY <1>6 DEF verifyRestore
<1>8. /\ says.step = "told" /\ says.verified = verifyRestore(manifest, relevant)
      /\ says.manifest = manifest /\ says.ever = w.notes.ever
  OBVIOUS
<1> HIDE DEF says, manifest
<1>9. ToldHolds(says)
  BY <1>7, <1>8 DEF ToldHolds
<1>10. JobHolds("restore", says, bin)
  BY <1>9 DEF JobHolds
<1> QED
  BY <1>1, <1>10, AdvanceHolds

(* Files come and go, a call fails, or nothing happens. *)
LEMMA FilesMoveHolds ==
  ASSUME BackupInv, StoreOrReplace \/ RemoveFile
  PROVE  BackupInv'
<1>1. Watching(job) /\ archives' = archives /\ baseline' = baseline
  BY DEF StoreOrReplace, RemoveFile
<1>2. DOMAIN bin \subseteq Keys /\ DOMAIN job = Jobs /\ \A j \in Jobs : JobHolds(j, job[j], bin)
  BY DEF BackupInv
<1>3. JobsHold'
  <2>1. DOMAIN job' = Jobs /\ \A j \in Jobs : JobHolds(j, job'[j], bin')
    BY <1>1, <1>2, Watched
  <2> QED
    BY <2>1 DEF JobsHold
<1>4. DOMAIN bin' \subseteq Keys
  <2>1. CASE StoreOrReplace
    <3>1. PICK b \in Buckets, p \in Paths, c \in Contents : bin' = Put(bin, <<b, p>>, c)
      BY <2>1 DEF StoreOrReplace
    <3>2. DOMAIN bin' = DOMAIN bin \cup {<<b, p>>} /\ <<b, p>> \in Keys
      BY <3>1 DEF Put, Keys
    <3> QED
      BY <1>2, <3>2
  <2>2. CASE RemoveFile
    <3>1. PICK k \in DOMAIN bin : bin' = [x \in DOMAIN bin \ {k} |-> bin[x]]
      BY <2>2 DEF RemoveFile
    <3>2. DOMAIN bin' = DOMAIN bin \ {k}
      BY <3>1
    <3> QED
      BY <1>2, <3>2
  <2> QED
    BY <2>1, <2>2
<1> QED
  BY <1>1, <1>3, <1>4 DEF BackupInv, JobsHold

LEMMA BackupStepHolds ==
  ASSUME BackupInv, [BackupStep]_backupVars
  PROVE  BackupInv'
<1>1. CASE \E j \in Jobs : \/ ListPage(j) \/ VisitEntry(j) \/ EndFolder(j)
                           \/ downloadObject(j) \/ NextBucket(j)
  BY <1>1, WalkStepHolds
<1>2. CASE \E j \in Jobs : GiveUp(j)
  <2>1. PICK j \in Jobs : Advance(j, NoWork)
    BY <1>2 DEF GiveUp
  <2>2. JobHolds(j, NoWork, bin)
    BY DEF JobHolds
  <2> QED
    BY <2>1, <2>2, AdvanceHolds
<1>3. CASE StartBackup \/ MakeArchive \/ UploadArchive \/ StoreBaseline
  BY <1>3, StartBackupHolds, MakeArchiveHolds, UploadArchiveHolds, StoreBaselineHolds
<1>4. CASE StartRestore \/ uploadObject \/ ReadBack \/ TellOperator
  BY <1>4, StartRestoreHolds, uploadObjectHolds, ReadBackHolds, TellOperatorHolds
<1>5. CASE StoreOrReplace \/ RemoveFile
  BY <1>5, FilesMoveHolds
<1>6. CASE UNCHANGED backupVars
  BY <1>6 DEF backupVars, BackupInv
<1> QED
  BY <1>1, <1>2, <1>3, <1>4, <1>5, <1>6 DEF BackupStep

LEMMA BackupBegins ==
  ASSUME NEW files, NEW made, NEW manifest, NEW budget, DOMAIN files \subseteq Keys,
         ArchivesHold(made), IsBaseline(manifest), BackupInit(files, made, manifest, budget)
  PROVE  BackupInv
<1>1. /\ bin = files /\ archives = made /\ baseline = manifest
      /\ DOMAIN job = Jobs /\ \A j \in Jobs : job[j] = NoWork
  BY DEF BackupInit
<1> QED
  BY <1>1 DEF BackupInv, JobHolds

LEMMA BackupInvGives ==
  ASSUME BackupInv
  PROVE  BackupGivesBackWhatStood
<1>1. ASSUME NEW i \in DOMAIN archives, NEW pair \in archives[i].untouched
      PROVE  LET a == archives[i]
                 b == pair[1][1]
             IN  \/ [bucket |-> b, path |-> pair[1][2], bytes |-> pair[2]] \in ToSet(Opened(a.container).objects)
                 \/ b \in a.gone
                 \/ b \in a.hollow /\ (a.previous = Lost \/ a.previous.counts[b] = 0)
  <2> DEFINE a == archives[i]
             opened == Opened(a.container)
  <2>1. PICK objects : /\ IsObjects(objects) /\ a.container = Artifact(objects)
                       /\ \A x \in a.untouched :
                            \/ Taken(objects, x) \/ x[1][1] \in a.gone
                            \/ x[1][1] \in a.hollow /\ (a.previous = Lost \/ a.previous.counts[x[1][1]] = 0)
    BY DEF BackupInv, ArchivesHold, ArchiveHolds
  <2>2. opened.objects = objects
    <3>1. opened = [manifest |-> buildManifest(objects), objects |-> objects]
      BY <2>1, PackedComesBack
    <3> HIDE DEF opened
    <3> QED
      BY <3>1
  <2>3. Taken(objects, pair) => ObjectOf(pair) \in ToSet(opened.objects)
    <3> HIDE DEF opened
    <3> QED
      BY <2>2 DEF Taken, ToSet
  <2> QED
    BY <2>1, <2>3 DEF ObjectOf
<1>2. StandingIsArchived
  BY <1>1 DEF StandingIsArchived
<1>3. VerifiedIsRestored
  <2> SUFFICES ASSUME job["restore"].step = "told", job["restore"].verified
               PROVE  BinPairs(MapOf(job["restore"].manifest.entries)) \subseteq job["restore"].ever
    BY DEF VerifiedIsRestored
  <2>1. JobHolds("restore", job["restore"], bin)
    BY DEF BackupInv, Jobs
  <2>2. job["restore"] # NoWork
    BY DEF NoWork
  <2>3. ~WorkHolds("restore", job["restore"], bin)
    BY DEF WorkHolds, RestoreHolds
  <2> QED
    BY <2>1, <2>2, <2>3 DEF JobHolds, ToldHolds
<1> QED
  BY <1>2, <1>3 DEF BackupGivesBackWhatStood

(* A file that stood while the backup ran is in the artifact, and a restore *)
(* that says so has put back every file of it, whatever the pages and the   *)
(* folders, the number of buckets and of files, and the order of the runs,  *)
(* the faults and the farmers' uploads (backup.mjs, restore.mjs).  It       *)
(* starts from any project whose files have known paths, and from earlier   *)
(* artifacts that hold what this states.                                    *)
THEOREM BackupIsWhole ==
  ASSUME NEW files, NEW made, NEW manifest, NEW budget, DOMAIN files \subseteq Keys,
         ArchivesHold(made), IsBaseline(manifest)
  PROVE  BackupSpec(files, made, manifest, budget) => []BackupGivesBackWhatStood
<1>1. BackupInit(files, made, manifest, budget) => BackupInv
  BY BackupBegins
<1>2. BackupInv /\ [BackupStep]_backupVars => BackupInv'
  BY BackupStepHolds
<1>3. BackupInv => BackupGivesBackWhatStood
  BY BackupInvGives
<1> QED
  BY <1>1, <1>2, <1>3, PTL DEF BackupSpec
=============================================================================
