--------------------------- MODULE MCSupplierFiles --------------------------
(***************************************************************************)
(* Scenes for TLC: who works where, what is on file and how many buttons   *)
(* are pressed; or certificates that a language model reads; or the daily  *)
(* backup of the buckets and a restore.                                    *)
(***************************************************************************)
EXTENDS SupplierFiles, CoaReading, StorageBackup

vars == <<filesVars, coaVars, backupVars>>
\* Every call of the endpoint has its answer.
NoDate == <<2026, 1, 1>>
ReadingOver ==
        /\ due = 0 /\ \A r \in reads : r.step = "done"
        /\ reads # {} \/ printed # NoDate
\* A backup has run, and no command is under way.
BackupOver == (bin # <<>> \/ baseline # Lost) /\ chances.backup = 0 /\ \A j \in Jobs : AtRest(job[j])
Next == \/ FilesStep /\ UNCHANGED <<coaVars, backupVars>>
        \/ CoaStep /\ UNCHANGED <<filesVars, backupVars>>
        \/ BackupStep /\ UNCHANGED <<filesVars, coaVars>>
        \/ (ReadingOver \/ BackupOver) /\ UNCHANGED vars

MCBatches == {"b1"}
MCFarms == {"f1", "f2", "f3"}
MCCoas == {"c1", "c2"}
MCPhotos == {"p1", "p2"}
MCAdmins == {"a1", "a2"}

At(f, x, y) == "farmer" :> f @@ "a1" :> x @@ "a2" :> y

Submitted == [NoBatch EXCEPT !.status = "Pending Review", !.stock = "submitted"]
OnFile(t) == [t EXCEPT !.batch["b1"] = Submitted]
Visible(t) == [t EXCEPT !.batch["b1"] = [Submitted EXCEPT !.status = "Approved",
                                            !.stock = "client_visible", !.visible = TRUE]]
Applied(t) == [t EXCEPT !.farm = [f \in Farms |->
    IF f = "f3" THEN NoFarm
    ELSE [status |-> "Submitted to DDP", owner |-> TRUE, profile |-> TRUE]]]
Filed(t, cs, seen) == [OnFile(t) EXCEPT
    !.stored = cs,
    !.register = [c \in Coas |-> IF c \in cs THEN RegisterCoa(t, "b1", c).register[c] ELSE NoDoc],
    !.opens = seen]

\* A submission whose batch is stored and whose certificate is on its way.
Sending == [id |-> 0, who |-> "farmer", op |-> "submit", step |-> "coaStore", on |-> "b1",
            coa |-> "c1", todo |-> {"p1", "p2"}, got |-> {}, missed |-> {}, draft |-> FALSE,
            row |-> Submitted]

\* A new batch with its files; stock under review by two administrators; stock
\* that is for sale and edited; farms; one document under two reviewers; a
\* queue of documents; a certificate that is reviewed as it arrives.
Scene ==
    \/ DeskInit(EmptyTables(TRUE), At("stock", "away", "away"), 2, {})
    \/ DeskInit(OnFile(EmptyTables(TRUE)), At("away", "batches", "batches"), 3, {})
    \/ DeskInit(OnFile(EmptyTables(FALSE)), At("away", "batches", "batches"), 2, {})
    \/ DeskInit(Visible(EmptyTables(TRUE)), At("stock", "batches", "away"), 3, {})
    \/ \E rpc \in BOOLEAN :
           DeskInit(Applied(EmptyTables(rpc)), At("application", "farms", "away"), 2, {})
    \/ DeskInit(Filed(EmptyTables(TRUE), {"c1"}, {"c1"} \X Admins),
                At("away", "evidence", "evidence"), 2, {})
    \/ DeskInit(Filed(EmptyTables(TRUE), Coas, {<<"c1", "a1">>, <<"c2", "a2">>}),
                At("away", "evidence", "away"), 2, {})
    \/ DeskInit(OnFile(EmptyTables(TRUE)), At("away", "evidence", "away"), 2, {Sending})

\* Certificates for the language model: a good one of each layout, readings
\* that are absent, without quotes, uncertain or of no known field, and texts
\* that are no reply.
Text(t) == <<t>>
F(n, v, c) == [name |-> n, value |-> v, quoted |-> TRUE, confidence |-> c]
Day(d, m, y) == <<y, m, d>>
Report(n, fs) == [object |-> TRUE, number |-> n, fields |-> fs]
Json(rs) == [json |-> TRUE, list |-> TRUE, reports |-> rs]
Good(n, tested) == Report(n, <<F("total_thc", Text("24.6"), 95), F("sample_id", Text("S-1"), 80),
    F("received_date", Day(28, 2, 2026), 90), F("test_date", tested, 90)>>)
MC2026 == {Text("RP-E01-7")}
MC2025 == {Text("2026-A12")}
MCNamed == MC2026 \cup MC2025 \cup {Text("S-1")}
MCReplies == {
    Json(<<Good(Text("RP-E01-7"), Day(2, 3, 2026)), Good(Text("2026-A12"), Day(27, 2, 2026))>>),
    Json(<<Report(Text("RP-E01-7"), <<F("total_thc", Text("24.6"), 40), F("water_activity", Text("0.5"), 140),
             F("potency", Text("high"), 99), F("microbial_result", Unread, 10),
             [F("moisture_pct", Text("9"), 90) EXCEPT !.quoted = FALSE], F("total_cbd", Text("0.1"), Unread),
             F("sample_id", Text("S-9"), 70)>>), [Report(Unread, <<>>) EXCEPT !.object = FALSE]>>),
    Json(<<Report(Unread, <<F("test_date", Day(31, 2, 2026), 90)>>)>>),
    Json(<<>>), [json |-> TRUE, list |-> FALSE], [json |-> FALSE]}
Thc(d, a, t) == [delta9 |-> d, thca |-> a, stated |-> t]
MCCannabinoids == {Unread, Thc(500, 28000, 25056), Thc(500, 28000, 25077), Thc(500, 28000, 28500),
                   Thc(500, 28000, 20000), Thc(Unread, 28000, 25056)}
MCDates == {1940, 1941, 2023, 2024, 2100, 2200, 2201, 2483, 2484, 2566, 2567, 2643, 2743, 2744}
           \X {2} \X {28, 29, 30} \cup {<<2569, 13, 1>>, <<2026, 4, 31>>, <<2569, 12, 31>>}

\* Three folders of documents, one more than fits a page, and a photograph.
MCBuckets == <<"documents", "photos">>
MCPaths == {<<1, 1>>, <<2, 1>>, <<3, 1>>, <<4>>}
Kept == "documents" :> {<<1, 1>>, <<2, 1>>, <<3, 1>>} @@ "photos" :> {<<4>>}
AllFiles == [k \in {<<b, p>> \in Buckets \X Paths : p \in Kept[b]} |-> "x"]
Before == [count |-> 4, counts |-> [b \in Buckets |-> Cardinality(Kept[b])], entries |-> <<>>]
Stored(files) == LET keys == SetToSeq(DOMAIN files)
                     objects == [i \in DOMAIN keys |-> [bucket |-> keys[i][1], path |-> keys[i][2],
                                                       bytes |-> files[keys[i]]]]
                 IN  [container |-> Artifact(objects), previous |-> Lost,
                      untouched |-> {}, gone |-> {}, hollow |-> {}]
NoChance == [backup |-> 0, restore |-> 0, fault |-> 0, hollow |-> 0, store |-> 0, remove |-> 0]

\* A backup while files come and go; two on two days; a restore of what was
\* lost and changed; both at once.
Daily == BackupInit(AllFiles, <<>>, Before, [NoChance EXCEPT !.backup = 1, !.hollow = 1, !.store = 1, !.remove = 1])
Again == BackupInit(AllFiles, <<>>, Lost, [NoChance EXCEPT !.backup = 2, !.hollow = 2, !.fault = 1])
Emergency == BackupInit(<<"documents", <<1, 1>>>> :> "y", <<Stored(AllFiles)>>, Before,
                        [NoChance EXCEPT !.restore = 1, !.store = 1, !.remove = 1, !.fault = 1])

NoFiles == DeskInit(EmptyTables(TRUE), At("away", "away", "away"), 0, {}) /\ EvidenceInit
NoReading == CoaInit(0, FALSE, NoDate)
NoBackup == BackupInit(<<>>, <<>>, Lost, NoChance)
Files == Scene /\ EvidenceInit /\ NoReading /\ NoBackup
Reading == NoFiles /\ NoBackup /\ \/ \E w \in BOOLEAN : CoaInit(2, w, NoDate)
                                  \/ \E date \in MCDates : CoaInit(0, FALSE, date)
Backups == NoFiles /\ NoReading /\ (Daily \/ Again \/ Emergency)

MCInit == Files \/ Reading \/ Backups
MCSpec == MCInit /\ [][Next]_vars /\ Settles
MCSafety == MCInit /\ [][Next]_vars
=============================================================================
