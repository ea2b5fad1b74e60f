--------------------------- MODULE StorageBackup ---------------------------
(***************************************************************************)
(* The daily backup of the storage buckets and the restore of an archive   *)
(* (scripts/storage-backup and its workflow), while farmers go on adding,  *)
(* replacing and removing files. Both walk the buckets the same way: list  *)
(* folder by folder and page by page, then fetch object by object.         *)
(*                                                                         *)
(* A file is a key <<bucket, path>>; a path is a sequence of names, and a  *)
(* name a number, in the order the listing sorts by. The bytes stand for   *)
(* their SHA-256. A restore that writes nothing to the project (--verify,  *)
(* --extract, a wrong passphrase) changes nothing here.                    *)
(***************************************************************************)
EXTENDS Lists, SequencesExt

CONSTANTS BucketOrder,  \* DEFAULT_BUCKETS
          Names,        \* bound: names of files and folders in the sorted order
          Paths,        \* bound: the paths a file may have, none a folder of another
          Contents,     \* bound: the bytes of a file
          PAGE,         \* entries of one answer of list()
          Secret, Lost  \* BACKUP_PASSPHRASE, and no file or no manifest

ASSUME BackupAssumption ==
    /\ PAGE \in Nat \ {0} /\ Names \in Nat
    /\ Paths \subseteq Seq(1..Names)
    /\ \A p, q \in Paths : p # q => ~IsPrefix(p, q)
    /\ <<>> \notin Paths
    /\ Len(BucketOrder) \in Nat \ {0} /\ DOMAIN BucketOrder = 1..Len(BucketOrder)
    /\ \A i, j \in DOMAIN BucketOrder : BucketOrder[i] = BucketOrder[j] => i = j

VARIABLES bin,       \* the files of the project: a function from keys to bytes
          job,       \* what the workflow and the operator's command are doing
          archives,  \* the encrypted artifacts, with what is known of their run
          baseline,  \* the artifact storage-manifest-latest
          chances    \* bounds: how often each thing may still happen

backupVars == <<bin, job, archives, baseline, chances>>
Jobs == {"backup", "restore"}
Chance(what) == chances[what] > 0 /\ chances' = [chances EXCEPT ![what] = @ - 1]
Buckets == ToSet(BucketOrder)
BinPairs(files) == {<<k, files[k]>> : k \in DOMAIN files}

-----------------------------------------------------------------------------
(* Manifests and containers.                                               *)

KeyOf(o) == <<o.bucket, o.path>>

\* In the order of the objects; the code sorts them by key, and keeps the order
\* of two with one key.
buildManifest(objects) ==
    [count |-> Len(objects),
     counts |-> [b \in Buckets |-> Cardinality({i \in DOMAIN objects : objects[i].bucket = b})],
     entries |-> objects]

\* new Map(...): of two entries with one key the last counts.
MapOf(entries) ==
    [k \in {KeyOf(entries[i]) : i \in DOMAIN entries} |->
        LET last == CHOOSE i \in DOMAIN entries :
                       /\ KeyOf(entries[i]) = k
                       /\ \A j \in DOMAIN entries : KeyOf(entries[j]) = k => j <= i
        IN  entries[last].bytes]

\* Nothing missing, nothing unexpected, nothing corrupted.
verifyRestore(manifest, restored) == MapOf(manifest.entries) = MapOf(restored)

assertPlausible(manifest, previous, allowEmpty) ==
    /\ manifest.count = 0 => allowEmpty
    /\ previous # Lost /\ previous.count > 0 =>
          /\ 2 * manifest.count >= previous.count
          /\ \A b \in Buckets : previous.counts[b] > 0 => manifest.counts[b] > 0

\* The manifest first, then each object under a name with its bucket and path.
pack(objects, manifest) ==
    <<[name |-> <<"MANIFEST.json">>, body |-> manifest]>>
    \o [i \in DOMAIN objects |-> [name |-> <<"objects", objects[i].bucket>> \o objects[i].path,
                                  body |-> objects[i].bytes]]
unpack(entries) ==
    LET Named(what) == {i \in DOMAIN entries : entries[i].name[1] = what}
        stored == Picked(entries, Named("objects"))
    IN  [manifest |-> Picked(entries, Named("MANIFEST.json"))[1].body,
         objects |-> [i \in DOMAIN stored |->
             [bucket |-> stored[i].name[2], path |-> SubSeq(stored[i].name, 3, Len(stored[i].name)),
              bytes |-> stored[i].body]]]
encrypt(packed, passphrase) == [under |-> passphrase, body |-> packed]
\* Nothing comes out under another passphrase.
decrypt(container, passphrase) == IF container.under = passphrase THEN container.body ELSE Lost
Opened(container) == unpack(decrypt(container, Secret))
Artifact(objects) == encrypt(pack(objects, buildManifest(objects)), Secret)

-----------------------------------------------------------------------------
(* The walk.                                                               *)

NoWork == [step |-> "idle"]
Frame(prefix) == [prefix |-> prefix, offset |-> 0, rest |-> <<>>, more |-> TRUE]

\* What an observer notes of a run: the files nobody has touched since it
\* began, the buckets something was removed from, all that was ever there, and
\* the buckets a failing credential showed as empty.
Begun(step, plan) ==
    [step |-> step, plan |-> plan,
     walk |-> [at |-> 1, stack |-> <<Frame(<<>>)>>, found |-> <<>>, objects |-> <<>>],
     notes |-> [untouched |-> BinPairs(bin), gone |-> {}, ever |-> BinPairs(bin), hollow |-> {}]]
Noted(notes, before, after) ==
    [untouched |-> notes.untouched \cap BinPairs(after),
     gone |-> notes.gone \cup {k[1] : k \in DOMAIN before \ DOMAIN after},
     ever |-> notes.ever \cup BinPairs(after), hollow |-> notes.hollow]
AtRest(w) == w.step \in {"idle", "told"}
Watching(next) ==
    job' = [j \in Jobs |-> IF AtRest(next[j]) THEN next[j]
                           ELSE [next[j] EXCEPT !.notes = Noted(@, bin, bin')]]

\* list(): the names directly under a prefix, sorted; an entry is a folder when
\* there is more below it.
Below(bucket, prefix, files) ==
    {p \in Paths : <<bucket, p>> \in DOMAIN files /\ IsStrictPrefix(prefix, p)}
NamesUnder(bucket, prefix, files) == {p[Len(prefix) + 1] : p \in Below(bucket, prefix, files)}
Rank(n, names) == Cardinality({m \in names : m <= n})
PageOf(bucket, frame, files) ==
    LET names == NamesUnder(bucket, frame.prefix, files)
        on == {n \in names : frame.offset < Rank(n, names) /\ Rank(n, names) <= frame.offset + PAGE}
        entry(n) == [name |-> n, folder |-> Append(frame.prefix, n) \notin Below(bucket, frame.prefix, files)]
    IN  [i \in 1..Cardinality(on) |-> entry(NthOf(on, i))]

\* Mutant: one answer is taken for the whole listing.
After_OnePage(frame, page) == [frame EXCEPT !.rest = page, !.more = FALSE]
After(frame, page) ==
    [prefix |-> frame.prefix, offset |-> frame.offset + PAGE, rest |-> page, more |-> Len(page) = PAGE]

Walking(j) == job[j].step = "walk"
Bucket(walk) == BucketOrder[walk.at]
Top(walk) == walk.stack[Len(walk.stack)]
WithTop(walk, frame) == [walk EXCEPT !.stack = [@ EXCEPT ![Len(walk.stack)] = frame]]
Advance(j, w) == UNCHANGED <<bin, archives, baseline>> /\ Watching([job EXCEPT ![j] = w])
WalkOn(j, walk) == Advance(j, [job[j] EXCEPT !.walk = walk])

\* One call of list(); a credential that may read nothing gets an empty answer.
ListPage(j) ==
    LET walk == job[j].walk IN
    /\ Walking(j) /\ walk.stack # <<>> /\ Top(walk).rest = <<>> /\ Top(walk).more
    /\ \/ /\ WalkOn(j, WithTop(walk, After(Top(walk), PageOf(Bucket(walk), Top(walk), bin))))
          /\ UNCHANGED chances
       \/ /\ Top(walk) = Frame(<<>>) /\ Chance("hollow")
          /\ Advance(j, [job[j] EXCEPT !.walk = WithTop(walk, After(Top(walk), <<>>)),
                                       !.notes = [@ EXCEPT !.hollow = job[j].notes.hollow \cup {Bucket(walk)}]])

\* The next entry of the answer: a file is noted, a folder is listed first.
VisitEntry(j) ==
    LET walk == job[j].walk IN
    /\ Walking(j) /\ walk.stack # <<>> /\ Top(walk).rest # <<>>
    /\ LET entry == Head(Top(walk).rest)
           full == Append(Top(walk).prefix, entry.name)
           left == WithTop(walk, [Top(walk) EXCEPT !.rest = Tail(@)])
       IN  WalkOn(j, IF entry.folder THEN [left EXCEPT !.stack = Append(@, Frame(full))]
                                     ELSE [left EXCEPT !.found = Append(@, full)])
    /\ UNCHANGED chances
EndFolder(j) ==
    LET walk == job[j].walk IN
    /\ Walking(j) /\ walk.stack # <<>> /\ Top(walk).rest = <<>> /\ ~Top(walk).more
    /\ WalkOn(j, [walk EXCEPT !.stack = Front(@)]) /\ UNCHANGED chances

\* A file that is no longer there ends the run.
downloadObject(j) ==
    LET walk == job[j].walk IN
    /\ Walking(j) /\ walk.stack = <<>> /\ walk.found # <<>>
    /\ LET key == <<Bucket(walk), Head(walk.found)>>
           object == [bucket |-> key[1], path |-> key[2], bytes |-> bin[key]]
       IN  \/ key \notin DOMAIN bin /\ Advance(j, NoWork)
           \/ /\ key \in DOMAIN bin
              /\ WalkOn(j, [walk EXCEPT !.found = Tail(@), !.objects = Append(@, object)])
    /\ UNCHANGED chances
NextBucket(j) ==
    LET walk == job[j].walk IN
    /\ Walking(j) /\ walk.stack = <<>> /\ walk.found = <<>> /\ walk.at < Len(BucketOrder)
    /\ WalkOn(j, [walk EXCEPT !.at = @ + 1, !.stack = <<Frame(<<>>)>>]) /\ UNCHANGED chances
Walked(j) ==
    LET walk == job[j].walk IN
    Walking(j) /\ walk.stack = <<>> /\ walk.found = <<>> /\ walk.at = Len(BucketOrder)

\* Any call may fail, and the run ends there.
GiveUp(j) == ~AtRest(job[j]) /\ Chance("fault") /\ Advance(j, NoWork)

-----------------------------------------------------------------------------
(* The workflow, one run at a time.                                        *)

\* The manifest of the last run may not be found: that counts as a first run.
StartBackup ==
    /\ job["backup"] = NoWork /\ Chance("backup")
    /\ \E previous \in {baseline, Lost}, allowEmpty \in BOOLEAN :
          Advance("backup", Begun("walk", [previous |-> previous, allowEmpty |-> allowEmpty]))

\* Judged, packed, opened again and compared, all before anything is kept.
MakeArchive ==
    LET w == job["backup"]
        manifest == buildManifest(w.walk.objects)
        sound == /\ assertPlausible(manifest, w.plan.previous, w.plan.allowEmpty)
                 /\ verifyRestore(manifest, Opened(Artifact(w.walk.objects)).objects)
    IN  /\ Walked("backup")
        /\ \/ sound /\ Advance("backup", [w EXCEPT !.step = "archive"])
           \/ ~sound /\ Advance("backup", NoWork)
        /\ UNCHANGED chances
UploadArchive ==
    LET w == job["backup"] IN
    /\ w.step = "archive"
    /\ archives' = Append(archives, [container |-> Artifact(w.walk.objects), previous |-> w.plan.previous,
                                     untouched |-> w.notes.untouched, gone |-> w.notes.gone,
                                     hollow |-> w.notes.hollow])
    /\ UNCHANGED <<bin, baseline, chances>>
    /\ Watching([job EXCEPT !["backup"] = [w EXCEPT !.step = "baseline"]])
StoreBaseline ==
    LET w == job["backup"] IN
    /\ w.step = "baseline"
    /\ baseline' = Opened(Artifact(w.walk.objects)).manifest
    /\ UNCHANGED <<bin, archives, chances>>
    /\ Watching([job EXCEPT !["backup"] = NoWork])

-----------------------------------------------------------------------------
(* restore.mjs --upload.                                                   *)

StartRestore ==
    /\ AtRest(job["restore"]) /\ Chance("restore")
    /\ \E i \in DOMAIN archives, overwrite \in BOOLEAN :
          LET opened == Opened(archives[i].container) IN
          /\ verifyRestore(opened.manifest, opened.objects)
          /\ Advance("restore", Begun("upload", [manifest |-> opened.manifest, left |-> opened.objects,
                                                 overwrite |-> overwrite]))

Put(files, key, bytes) == [k \in DOMAIN files \cup {key} |-> IF k = key THEN bytes ELSE files[k]]

\* A file that is there is left alone, unless the operator said otherwise.
uploadObject ==
    LET w == job["restore"]
        object == Head(w.plan.left)
        skipped == KeyOf(object) \in DOMAIN bin /\ ~w.plan.overwrite
    IN  /\ w.step = "upload" /\ w.plan.left # <<>>
        /\ bin' = IF skipped THEN bin ELSE Put(bin, KeyOf(object), object.bytes)
        /\ Watching([job EXCEPT !["restore"] = [w EXCEPT !.plan = [w.plan EXCEPT !.left = Tail(w.plan.left)]]])
        /\ UNCHANGED <<archives, baseline, chances>>
ReadBack ==
    LET w == job["restore"] IN
    /\ w.step = "upload" /\ w.plan.left = <<>>
    /\ Advance("restore", [w EXCEPT !.step = "walk"]) /\ UNCHANGED chances

\* Files the archive does not have are no concern of the restore.
TellOperator ==
    LET w == job["restore"]
        objects == w.walk.objects
        relevant == Picked(objects, {i \in DOMAIN objects : KeyOf(objects[i])
                                                            \in DOMAIN MapOf(w.plan.manifest.entries)})
    IN  /\ Walked("restore")
        /\ Advance("restore", [step |-> "told", verified |-> verifyRestore(w.plan.manifest, relevant),
                               manifest |-> w.plan.manifest, ever |-> w.notes.ever])
        /\ UNCHANGED chances

-----------------------------------------------------------------------------
(* Meanwhile files are stored, replaced and removed.                       *)

StoreOrReplace ==
    /\ Chance("store")
    /\ \E b \in Buckets, p \in Paths, c \in Contents : bin' = Put(bin, <<b, p>>, c)
    /\ Watching(job) /\ UNCHANGED <<archives, baseline>>
RemoveFile ==
    /\ Chance("remove")
    /\ \E k \in DOMAIN bin : bin' = [x \in DOMAIN bin \ {k} |-> bin[x]]
    /\ Watching(job) /\ UNCHANGED <<archives, baseline>>

BackupInit(files, made, manifest, budget) ==
    /\ bin = files /\ archives = made /\ baseline = manifest
    /\ job = [j \in Jobs |-> NoWork]
    /\ chances = budget
BackupStep ==
    \/ StartBackup \/ MakeArchive \/ UploadArchive \/ StoreBaseline
    \/ StartRestore \/ uploadObject \/ ReadBack \/ TellOperator
    \/ \E j \in Jobs : \/ ListPage(j) \/ VisitEntry(j) \/ EndFolder(j)
                       \/ downloadObject(j) \/ NextBucket(j) \/ GiveUp(j)
    \/ StoreOrReplace \/ RemoveFile
BackupSpec(files, made, manifest, budget) ==
    BackupInit(files, made, manifest, budget) /\ [][BackupStep]_backupVars

-----------------------------------------------------------------------------
(* Properties.                                                             *)

\* A file that nobody touched while the run lasted is in the archive with its
\* bytes, whatever was added or replaced meanwhile, wherever the pages broke,
\* and although a credential may read nothing without an error
\* (listBucket, downloadAll, assertPlausible). Two cases are left: something
\* was removed from the bucket under the listing, and there was no earlier
\* manifest to tell that the bucket was not empty.
StandingIsArchived ==
    \A i \in DOMAIN archives :
        LET a == archives[i]
            objects == ToSet(Opened(a.container).objects)
        IN  \A pair \in a.untouched :
               LET b == pair[1][1] IN
               \/ [bucket |-> b, path |-> pair[1][2], bytes |-> pair[2]] \in objects
               \/ b \in a.gone
               \/ b \in a.hollow /\ (a.previous = Lost \/ a.previous.counts[b] = 0)

\* "RESTORED AND VERIFIED" is said only when every file of the manifest has
\* been in the project with its bytes since the command began, although files
\* that were there are not overwritten and others are removed under the check
\* (restore.mjs).
VerifiedIsRestored ==
    job["restore"].step = "told" /\ job["restore"].verified =>
        BinPairs(MapOf(job["restore"].manifest.entries)) \subseteq job["restore"].ever

\* A file that stood while the backup ran is in the artifact, and a restore that
\* says so has put back every file of it (backup.mjs, restore.mjs).
BackupGivesBackWhatStood == StandingIsArchived /\ VerifiedIsRestored
=============================================================================
