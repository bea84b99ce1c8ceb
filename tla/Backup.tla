-------------------------------- MODULE Backup --------------------------------
(***************************************************************************)
(* `av admin backup create`, `verify` and `restore`                        *)
(* (src/python/av_cli/cmd_admin.py) against a registry that keeps serving  *)
(* pushes and collecting garbage while its database is dumped and its      *)
(* object directory is archived, file by file.                             *)
(***************************************************************************)
EXTENDS Naturals, FiniteSets

CONSTANTS
    Blob,          \* objects
    Revision,      \* commits
    BlobsOf,       \* [Revision -> SUBSET Blob]: the objects a commit needs
    MaxCreates     \* bound: backups begun, all into one OUTPUT_DIR

VARIABLES
    live,          \* the registry: [rows, files, commits]
    doomed,        \* the collection that runs: rows it deletes, files it still has to unlink
    broken,        \* commits that landed on a file a collection had doomed or already unlinked
    dir,           \* OUTPUT_DIR: [database, objects, manifest]
    create,        \* the create that runs: [part, todo]
    creates,
    target,        \* the restored registry: [files, commits]
    restore        \* the restore that runs: [step, verified]

backupVars == <<live, doomed, broken, dir, create, creates, target, restore>>

NoFile == [is |-> "none"]
Torn == [is |-> "torn"]              \* opened for writing, not complete
Dump(r) == [is |-> "dump", commits |-> r.commits]   \* its commits; the other rows are left out
Archive(blobs) == [is |-> "archive", files |-> blobs]
Registry == [rows : SUBSET Blob, files : SUBSET Blob, commits : SUBSET Revision]
EmptyRegistry == [rows |-> {}, files |-> {}, commits |-> {}]
Target == [files : SUBSET Blob, commits : SUBSET Revision]
NoCollection == [rows |-> {}, files |-> {}]
NoCreate == [part |-> 0, todo |-> {}]
NoRestore == [step |-> "away", verified |-> FALSE]

BackupInit ==
    /\ live = EmptyRegistry /\ doomed = NoCollection /\ broken = {}
    /\ dir = [database |-> NoFile, objects |-> NoFile, manifest |-> NoFile]
    /\ create = NoCreate /\ creates = 0
    /\ target = [files |-> {}, commits |-> {}] /\ restore = NoRestore

OnlyLive == UNCHANGED <<dir, create, creates, target, restore>>
OnlyCreate == UNCHANGED <<live, doomed, broken, target, restore>>
OnlyRestore == UNCHANGED <<live, doomed, broken, dir, create, creates>>

-----------------------------------------------------------------------------
(* The registry. An upload stores the file unless it is there, then commits   *)
(* its row. A commit lands when its objects have rows: push_commit asks       *)
(* neither for their files nor for what a collection is about to take.        *)
StoreFile(b) ==
    /\ b \notin live.files
    /\ live' = [live EXCEPT !.files = @ \union {b}]
    /\ UNCHANGED <<doomed, broken>> /\ OnlyLive
AddRow(b) ==
    /\ b \in live.files
    /\ live' = [live EXCEPT !.rows = @ \union {b}]
    /\ UNCHANGED <<doomed, broken>> /\ OnlyLive
Keeps(v) == BlobsOf[v] \subseteq live.files \ doomed.files
LandRevision(v) ==
    /\ v \notin live.commits /\ BlobsOf[v] \subseteq live.rows
    /\ live' = [live EXCEPT !.commits = @ \union {v}]
    /\ broken' = IF Keeps(v) THEN broken ELSE broken \union {v}
    /\ UNCHANGED doomed /\ OnlyLive

(* A collection selects rows and files of no commit it sees that are past     *)
(* their grace period, each by its own clock, unlinks the files one by one    *)
(* and then commits the deletion of the rows. A file stored anew meanwhile is *)
(* too young for it. One that fails has unlinked files and deletes no row.    *)
Unused == Blob \ UNION {BlobsOf[v] : v \in live.commits}
SelectUnused ==
    /\ doomed = NoCollection
    /\ doomed' \in [rows : SUBSET (live.rows \intersect Unused),
                    files : SUBSET (live.files \intersect Unused)]
    /\ UNCHANGED <<live, broken>> /\ OnlyLive
PurgeUnused(b) ==
    /\ b \in doomed.files
    /\ live' = [live EXCEPT !.files = @ \ {b}]
    /\ doomed' = [doomed EXCEPT !.files = @ \ {b}]
    /\ UNCHANGED broken /\ OnlyLive
CommitPurge ==
    /\ doomed # NoCollection /\ doomed.files = {}
    /\ live' = [live EXCEPT !.rows = @ \ doomed.rows]
    /\ doomed' = NoCollection
    /\ UNCHANGED broken /\ OnlyLive
CollectionFails ==
    /\ doomed # NoCollection
    /\ doomed' = NoCollection
    /\ UNCHANGED <<live, broken>> /\ OnlyLive

-----------------------------------------------------------------------------
(* backup create: the database part, then the objects part, then the manifest *)
(* of what both files hold. One backup command works on OUTPUT_DIR at a time. *)
(* The variant takes the objects first.                                       *)
PartsSwapped == <<"objects", "database">>
Parts == <<"database", "objects">>
Part == IF create.part \in DOMAIN Parts THEN Parts[create.part] ELSE "none"
NextPart == [part |-> create.part + 1, todo |-> live.files]

BeginCreate ==
    /\ create = NoCreate /\ creates < MaxCreates /\ restore.step # "objects"
    /\ creates' = creates + 1
    /\ create' = NextPart
    /\ dir' = [dir EXCEPT ![Parts[1]] = Torn]
    /\ OnlyCreate

(* pg_dump: one snapshot of the committed rows.                               *)
OpensNext(d, file) == IF create.part = 1 THEN [d EXCEPT ![file] = Torn] ELSE d
DumpDatabase ==
    /\ Part = "database"
    /\ dir' = OpensNext([dir EXCEPT !.database = Dump(live)], "objects")
    /\ create' = NextPart
    /\ UNCHANGED creates /\ OnlyCreate

(* tar reads a directory and adds its files; one that is gone when it is      *)
(* opened ends the command, one that is gone before the directory is read is  *)
(* not listed, one that is new may be.                                        *)
Archived == IF dir.objects.is = "archive" THEN dir.objects.files ELSE {}
ArchiveFile(b) ==
    /\ Part = "objects"
    /\ b \in live.files \ Archived
    /\ dir' = [dir EXCEPT !.objects = Archive(Archived \union {b})]
    /\ create' = [create EXCEPT !.todo = @ \ {b}]
    /\ UNCHANGED creates /\ OnlyCreate
SkipFile(b) ==
    /\ Part = "objects" /\ b \in create.todo \ live.files
    /\ create' = [create EXCEPT !.todo = @ \ {b}]
    /\ UNCHANGED <<dir, creates>> /\ OnlyCreate
EndArchive ==
    /\ Part = "objects" /\ create.todo = {}
    /\ dir' = OpensNext([dir EXCEPT !.objects = Archive(Archived)], "database")
    /\ create' = NextPart
    /\ UNCHANGED creates /\ OnlyCreate

WriteManifest ==
    /\ create.part = 3
    /\ dir' = [dir EXCEPT !.manifest =
                 [is |-> "manifest", database |-> dir.database, objects |-> dir.objects]]
    /\ create' = NoCreate
    /\ UNCHANGED creates /\ OnlyCreate

(* A part fails or the command is killed: the files stay as they are, beside  *)
(* the manifest of an earlier backup if there is one.                         *)
CreateFails ==
    /\ create # NoCreate
    /\ create' = NoCreate
    /\ UNCHANGED <<dir, creates>> /\ OnlyCreate

-----------------------------------------------------------------------------
(* backup verify: both files are those the manifest describes.                *)
VerifiedDatabase == dir.manifest # NoFile /\ dir.manifest.database = dir.database
Verified == VerifiedDatabase /\ dir.manifest.objects = dir.objects

(* backup restore: it needs a manifest and compares nothing with it; a target *)
(* with tables needs --force. The dump replaces the rows, then the archive is *)
(* extracted over the files that are there.                                   *)
RestoreDatabase ==
    /\ restore.step \in {"away", "done"} /\ create = NoCreate
    /\ dir.manifest # NoFile /\ dir.database.is = "dump"
    /\ target' = [target EXCEPT !.commits = dir.database.commits]
    /\ restore' = [step |-> "objects", verified |-> Verified]
    /\ OnlyRestore
RestoreObjects ==
    /\ restore.step = "objects" /\ create = NoCreate
    /\ target' = [target EXCEPT !.files = @ \union Archived]
    /\ restore' = [restore EXCEPT !.step = "done"]
    /\ OnlyRestore
RestoreFails ==
    /\ restore.step = "objects"
    /\ restore' = NoRestore
    /\ UNCHANGED target /\ OnlyRestore

BackupNext ==
    \/ \E b \in Blob : \/ StoreFile(b) \/ AddRow(b) \/ PurgeUnused(b)
                       \/ ArchiveFile(b) \/ SkipFile(b)
    \/ \E v \in Revision : LandRevision(v)
    \/ SelectUnused \/ CommitPurge \/ CollectionFails
    \/ BeginCreate \/ DumpDatabase \/ EndArchive \/ WriteManifest \/ CreateFails
    \/ RestoreDatabase \/ RestoreObjects \/ RestoreFails

BackupSpec == BackupInit /\ [][BackupNext]_backupVars

-----------------------------------------------------------------------------
BackupTypeOK ==
    /\ live \in Registry /\ target \in Target
    /\ doomed \in [rows : SUBSET Blob, files : SUBSET Blob] /\ broken \in SUBSET Revision
    /\ create.part \in 0..3 /\ restore.step \in {"away", "objects", "done"}

(* A backup that verifies restores every commit of its dump with all its      *)
(* objects, although pushes and collections ran between its two parts, and    *)
(* failed. Excepted are the commits that the registry itself had lost when    *)
(* they landed: on an object that a collection running at that moment had     *)
(* selected, or whose file a failed one had unlinked (RegistryStore).         *)
VerifiedRestoreIsWhole ==
    restore.step = "done" /\ restore.verified =>
        \A v \in target.commits \ broken : BlobsOf[v] \subseteq target.files
=============================================================================
