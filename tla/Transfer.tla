-------------------------------- MODULE Transfer --------------------------------
(***************************************************************************)
(* Moving a whole project between registries and machines: `av clone`      *)
(* (cmd_sync.py, sync.py), `av registry export` and `restore`              *)
(* (cmd_registry.py) with their resume files, over the paged listings of   *)
(* server.py and the transfers of client.py, while others go on pushing.   *)
(*                                                                         *)
(* A commit's content is abstracted to its parent, its one object and the  *)
(* fields of its signed payload (signing.py) that a copy no longer has as  *)
(* they were signed.  The registry "old" is pushed to and exported, "new"  *)
(* is restored into.  An upload or download is one request: it arrives     *)
(* whole and hash-checked or it fails.                                     *)
(***************************************************************************)
EXTENDS Integers, FiniteSets, Sequences, SequencesExt

CONSTANTS
    Version,            \* the commits of the project
    Nil,                \* no commit
    ParentOf, BlobOf,   \* version -> its parent or Nil, its object
    AuthoredAt,         \* version -> the timestamp it was committed with
    InRun, Unnamed,     \* versions with a run_id, and with the author "anonymous"
    Limit,              \* rows of one page
    MaxHttpFaults, MaxExports, MaxLosses  \* bounds: failures, exports, losses of "new"

ASSUME TransferAssumption ==
    /\ Nil \notin Version
    /\ ParentOf \in [Version -> Version \cup {Nil}] /\ AuthoredAt \in [Version -> Int]
    /\ InRun \cup Unnamed \subseteq Version
    /\ Limit \in Nat \ {0} /\ {MaxHttpFaults, MaxExports, MaxLosses} \subseteq Nat

VARIABLES
    registry,   \* "old", "new" -> [rows: version -> [at, changed], objects, ref]
    running,    \* the command the operator is running
    archive,    \* the export directory: objects and manifest
    resume,     \* .restore-state.json; stale: of another manifest or registry
    repo,       \* the clone
    httpFaults, exports, losses

transferVars == <<registry, running, archive, resume, repo, httpFaults, exports, losses>>

NoTransfer == [cmd |-> "none"]
NoManifest == [commits |-> <<>>, ref |-> Nil, objects |-> {}, before |-> {}]
NoRows == [c \in {} |-> Nil]
NoRepo == [commits |-> NoRows, tip |-> Nil, objects |-> {}, ready |-> FALSE]
NothingDone == [objects |-> {}, commits |-> {}, ref |-> FALSE, stale |-> FALSE]
StaleResume == [resume EXCEPT !.stale = resume # NothingDone]
NewRegistry == [rows |-> NoRows, objects |-> {}, ref |-> Nil]

TransferInit ==
    /\ registry = [r \in {"old", "new"} |-> NewRegistry]
    /\ running = NoTransfer
    /\ archive = [objects |-> {}, manifest |-> NoManifest]
    /\ resume = NothingDone
    /\ repo = NoRepo
    /\ httpFaults = 0 /\ exports = 0 /\ losses = 0

(* The rows with those of new, which replace rows of the same commit.        *)
WithRows(new, rows) ==
    [c \in DOMAIN new \cup DOMAIN rows |-> IF c \in DOMAIN new THEN new[c] ELSE rows[c]]

HttpFault == httpFaults < MaxHttpFaults /\ httpFaults' = httpFaults + 1

(***************************************************************************)
(* The registry                                                            *)
(***************************************************************************)
(* list_commits: newest first, and in any order where timestamps are equal, *)
(* with the page's distance to the end.                                     *)
Listings(rows) ==
    {all \in [1 .. Cardinality(DOMAIN rows) -> DOMAIN rows] :
        /\ \A c \in DOMAIN rows : \E i \in DOMAIN all : all[i] = c
        /\ \A i, j \in DOMAIN all : i < j => all[i] # all[j] /\ rows[all[i]].at >= rows[all[j]].at}
Page(all, offset) ==
    SubSeq(all, offset + 1, IF offset + Limit < Len(all) THEN offset + Limit ELSE Len(all))
NextOffset(all, offset) == IF offset + Limit < Len(all) THEN offset + Limit ELSE Nil

(* push_commit keeps the fields it has columns for; an anonymous author is  *)
(* stamped with the user's name, a missing timestamp with the current time. *)
RowOf(c) ==
    [at |-> AuthoredAt[c],
     changed |-> (IF c \in InRun THEN {"run_id"} ELSE {})
                 \cup (IF c \in Unnamed THEN {"author"} ELSE {})]
Restamped(row) == [at |-> Cardinality(DOMAIN registry["new"].rows) + 1,
                   changed |-> row.changed \cup {"timestamp"}]

(* Another clone pushes: object, commit, then the branch.                   *)
LandCommit(c) ==
    /\ c \notin DOMAIN registry["old"].rows
    /\ ParentOf[c] \in DOMAIN registry["old"].rows \cup {Nil}
    /\ registry' = [registry EXCEPT !["old"].rows = WithRows([d \in {c} |-> RowOf(d)], @),
                                    !["old"].objects = @ \cup {BlobOf[c]}]
    /\ UNCHANGED <<running, archive, resume, repo, httpFaults, exports, losses>>

AdvanceRef(c) ==
    /\ c \in DOMAIN registry["old"].rows
    /\ ParentOf[c] = registry["old"].ref
    /\ registry' = [registry EXCEPT !["old"].ref = c]
    /\ UNCHANGED <<running, archive, resume, repo, httpFaults, exports, losses>>

(* "new" collects what no commit refers to between two attempts, or the     *)
(* operator points the repository at another registry, an empty one.        *)
LoseNew ==
    /\ losses < MaxLosses /\ losses' = losses + 1
    /\ running = NoTransfer
    /\ \/ registry' = [registry EXCEPT !["new"].objects =
                           @ \cap {BlobOf[c] : c \in DOMAIN registry["new"].rows}]
       \/ registry' = [registry EXCEPT !["new"] = NewRegistry]
    /\ resume' = StaleResume
    /\ UNCHANGED <<running, archive, repo, httpFaults, exports>>

(***************************************************************************)
(* av clone                                                                *)
(***************************************************************************)
(* pick_default_branch: there is one branch here.                           *)
DefaultTip(r) == registry[r].ref

(* The refs come first; a failed listing looks like a project without any.  *)
CloneStart(r) ==
    /\ running = NoTransfer /\ ~repo.ready
    /\ DOMAIN registry[r].rows # {}
    /\ \/ /\ running' = [cmd |-> "clone", from |-> r, tip |-> DefaultTip(r),
                     offset |-> 0, got |-> NoRows]
          /\ UNCHANGED httpFaults
       \/ /\ HttpFault
          /\ running' = [cmd |-> "clone", from |-> r, tip |-> Nil, offset |-> 0, got |-> NoRows]
    /\ UNCHANGED <<registry, archive, resume, repo, exports, losses>>

(* normalize_commit_row keeps what the row has, and so what it has lost.    *)
Normalized(r) == r.changed

(* iter_project_commits: without a ref the newest commit is the tip.        *)
ClonePage ==
    /\ running.cmd = "clone" /\ running.offset # Nil
    /\ \E all \in Listings(registry[running.from].rows) :
           LET page == Page(all, running.offset)
               got == [c \in ToSet(page) |-> Normalized(registry[running.from].rows[c])]
           IN running' = [running EXCEPT !.offset = NextOffset(all, @), !.got = WithRows(got, @),
                                         !.tip = IF @ = Nil THEN Head(page) ELSE @]
    /\ UNCHANGED <<registry, archive, resume, repo, httpFaults, exports, losses>>

(* A page that fails reads like the end of the listing.                     *)
ClonePageFails ==
    /\ running.cmd = "clone" /\ running.offset # Nil /\ HttpFault
    /\ running' = [running EXCEPT !.offset = Nil]
    /\ UNCHANGED <<registry, archive, resume, repo, exports, losses>>

(* The tip's objects are fetched, all of them or the clone fails; a tip     *)
(* that no page held has an empty tree.                                     *)
TreeObjects == {BlobOf[c] : c \in {running.tip} \cap DOMAIN running.got}
EnsureObjects(needed) == needed \subseteq registry[running.from].objects

CloneFinish ==
    /\ running.cmd = "clone" /\ running.offset = Nil
    /\ LET needed == TreeObjects IN
       repo' = IF DOMAIN running.got # {} /\ EnsureObjects(needed)
               THEN [commits |-> running.got, tip |-> running.tip, objects |-> needed, ready |-> TRUE]
               ELSE repo
    /\ running' = NoTransfer
    /\ UNCHANGED <<registry, archive, resume, httpFaults, exports, losses>>

(***************************************************************************)
(* av registry export                                                      *)
(***************************************************************************)
(* Objects that an earlier export left in the directory are kept.           *)
ExportStart ==
    /\ running = NoTransfer /\ exports < MaxExports
    /\ exports' = exports + 1
    /\ running' = [cmd |-> "export", step |-> "commits", offset |-> 0, commits |-> <<>>,
               before |-> DOMAIN registry["old"].rows]
    /\ UNCHANGED <<registry, archive, resume, repo, httpFaults, losses>>

(* The listing ends at a page that is not full.  A variant ends one early.  *)
LastPageEarly(page) == Len(page) <= Limit
LastPage(page) == Len(page) < Limit

ExportPage ==
    /\ running.cmd = "export" /\ running.step = "commits"
    /\ \E all \in Listings(registry["old"].rows) :
           LET page == Page(all, running.offset)
               entries == [i \in 1 .. Len(page) |->
                              [hash |-> page[i], row |-> registry["old"].rows[page[i]]]]
           IN running' = [running EXCEPT !.step = IF LastPage(page) THEN "refs" ELSE @,
                                         !.offset = @ + Limit, !.commits = @ \o entries]
    /\ UNCHANGED <<registry, archive, resume, repo, httpFaults, exports, losses>>

(* The refs, and the objects to fetch.                                      *)
Exportable(commits) == {BlobOf[entry.hash] : entry \in ToSet(commits)}

ExportRefs ==
    /\ running.cmd = "export" /\ running.step = "refs"
    /\ LET wanted == Exportable(running.commits) IN
       running' = [cmd |-> "export", step |-> "objects", todo |-> wanted,
               manifest |-> [commits |-> running.commits, ref |-> registry["old"].ref,
                             objects |-> wanted, before |-> running.before]]
    /\ UNCHANGED <<registry, archive, resume, repo, httpFaults, exports, losses>>

(* One object: it is there already, or comes down, or is counted as failed. *)
ExportObject ==
    /\ running.cmd = "export" /\ running.step = "objects"
    /\ \E h \in running.todo :
           /\ running' = [running EXCEPT !.todo = @ \ {h}]
           /\ \/ archive' = [archive EXCEPT !.objects = @ \cup {h}] /\ UNCHANGED httpFaults
              \/ h \notin archive.objects /\ HttpFault /\ UNCHANGED archive
    /\ UNCHANGED <<registry, resume, repo, exports, losses>>

(* The manifest is written last.                                            *)
ExportWrite ==
    /\ running.cmd = "export" /\ running.step = "objects" /\ running.todo = {}
    /\ archive' = [archive EXCEPT !.manifest = running.manifest]
    /\ resume' = StaleResume
    /\ running' = NoTransfer
    /\ UNCHANGED <<registry, repo, httpFaults, exports, losses>>

(***************************************************************************)
(* av registry restore                                                     *)
(***************************************************************************)
RestoreStart(again) ==
    /\ running = NoTransfer /\ archive.manifest # NoManifest
    /\ resume' = IF again THEN resume ELSE NothingDone
    /\ running' = [cmd |-> "restore", step |-> "objects", todo |-> archive.manifest.objects,
               next |-> 1, failed |-> FALSE]
    /\ UNCHANGED <<registry, archive, repo, httpFaults, exports, losses>>

RestoreObject ==
    /\ running.cmd = "restore" /\ running.step = "objects"
    /\ \E h \in running.todo :
           LET stored == [registry EXCEPT !["new"].objects = @ \cup {h}] IN
           \/ /\ h \in resume.objects
              /\ running' = [running EXCEPT !.todo = @ \ {h}]
              /\ UNCHANGED <<registry, resume, httpFaults>>
           \/ /\ h \notin resume.objects /\ h \notin archive.objects
              /\ running' = [running EXCEPT !.todo = @ \ {h}, !.failed = TRUE]
              /\ UNCHANGED <<registry, resume, httpFaults>>
           \/ /\ h \in archive.objects \ resume.objects
              /\ registry' = stored
              /\ resume' = [resume EXCEPT !.objects = @ \cup {h}]
              /\ running' = [running EXCEPT !.todo = @ \ {h}]
              /\ UNCHANGED httpFaults
           \/ /\ h \in archive.objects \ resume.objects /\ HttpFault
              /\ registry' \in {registry, stored}
              /\ running' = [running EXCEPT !.todo = @ \ {h}, !.failed = TRUE]
              /\ UNCHANGED resume
    /\ UNCHANGED <<archive, repo, exports, losses>>

(* The commits in the manifest's order, newest first, each answered 201 or  *)
(* 409; only then the state file. Of a request that fails the registry did  *)
(* all or nothing. A variant writes the state file first.                   *)
AcceptedEarly(c, ok) == resume' = [resume EXCEPT !.commits = @ \cup {c}]
Accepted(c, ok) == resume' = IF ok THEN [resume EXCEPT !.commits = @ \cup {c}] ELSE resume

RestoreCommit ==
    /\ running.cmd = "restore" /\ running.todo = {} /\ running.next <= Len(archive.manifest.commits)
    /\ LET entry == archive.manifest.commits[running.next]
           c == entry.hash
           landed == [registry EXCEPT !["new"].rows = WithRows(@, [d \in {c} |-> Restamped(entry.row)])]
       IN
       \/ /\ c \in resume.commits
          /\ running' = [running EXCEPT !.next = @ + 1]
          /\ UNCHANGED <<registry, resume, httpFaults>>
       \/ /\ c \notin resume.commits
          /\ registry' = landed
          /\ Accepted(c, TRUE)
          /\ running' = [running EXCEPT !.next = @ + 1]
          /\ UNCHANGED httpFaults
       \/ /\ c \notin resume.commits /\ HttpFault
          /\ registry' \in {registry, landed}
          /\ Accepted(c, FALSE)
          /\ running' = [running EXCEPT !.next = @ + 1, !.failed = TRUE]
    /\ UNCHANGED <<archive, repo, exports, losses>>

(* The ref is put without an expected hash; one whose commit is not there   *)
(* is refused by its foreign key.                                           *)
RestoreRef ==
    /\ running.cmd = "restore" /\ running.step = "objects" /\ running.todo = {}
    /\ running.next > Len(archive.manifest.commits)
    /\ LET tip == archive.manifest.ref
           known == tip \in DOMAIN registry["new"].rows
           put == [registry EXCEPT !["new"].ref = tip]
       IN
       \/ /\ tip = Nil \/ resume.ref
          /\ running' = [running EXCEPT !.step = "end"]
          /\ UNCHANGED <<registry, resume, httpFaults>>
       \/ /\ known /\ ~resume.ref
          /\ registry' = put
          /\ resume' = [resume EXCEPT !.ref = TRUE]
          /\ running' = [running EXCEPT !.step = "end"]
          /\ UNCHANGED httpFaults
       \/ /\ tip # Nil /\ ~resume.ref
          /\ \/ known /\ HttpFault /\ registry' \in {registry, put}
             \/ ~known /\ UNCHANGED <<registry, httpFaults>>
          /\ running' = [running EXCEPT !.step = "end", !.failed = TRUE]
          /\ UNCHANGED resume
    /\ UNCHANGED <<archive, repo, exports, losses>>

RestoreEnd ==
    /\ running.cmd = "restore" /\ running.step = "end"
    /\ running' = NoTransfer
    /\ UNCHANGED <<registry, archive, resume, repo, httpFaults, exports, losses>>

(* A command is killed, or a connection error ends it; export's pages are   *)
(* fetched with raise_for_status.                                           *)
Interrupt ==
    /\ running.cmd \in {"export", "restore", "clone"} /\ HttpFault
    /\ running' = NoTransfer
    /\ UNCHANGED <<registry, archive, resume, repo, exports, losses>>

TransferNext ==
    \/ \E c \in Version : LandCommit(c) \/ AdvanceRef(c)
    \/ LoseNew
    \/ \E r \in {"old", "new"} : CloneStart(r)
    \/ ClonePage \/ ClonePageFails \/ CloneFinish
    \/ ExportStart \/ ExportPage \/ ExportRefs \/ ExportObject \/ ExportWrite
    \/ \E again \in BOOLEAN : RestoreStart(again)
    \/ RestoreObject \/ RestoreCommit \/ RestoreRef \/ RestoreEnd
    \/ Interrupt

TransferSpec == TransferInit /\ [][TransferNext]_transferVars

(***************************************************************************)
(* Properties                                                              *)
(***************************************************************************)
ListedCommit == [hash : Version, row : [at : Int, changed : SUBSET {"run_id", "author", "timestamp"}]]
Manifests == [commits : Seq(ListedCommit), ref : Version \cup {Nil}, objects : SUBSET {BlobOf[c] : c \in Version},
              before : SUBSET Version]
Listing == [cmd : {"export"}, step : {"commits", "refs"}, offset : Nat, commits : Seq(ListedCommit),
            before : SUBSET Version]
Fetching == [cmd : {"export"}, step : {"objects"}, todo : SUBSET {BlobOf[c] : c \in Version},
             manifest : Manifests]

TransferTypeOK ==
    /\ \A r \in {"old", "new"} :
           /\ DOMAIN registry[r].rows \subseteq Version
           /\ registry[r].ref \in DOMAIN registry[r].rows \cup {Nil}
    /\ running.cmd = "export" => running \in Listing \cup Fetching
    /\ running.cmd \in {"none", "clone", "export", "restore"}
    /\ archive.manifest \in Manifests
    /\ archive.objects \subseteq {BlobOf[c] : c \in Version}
    /\ resume.commits \subseteq Version /\ resume.ref \in BOOLEAN
    /\ repo.ready \in BOOLEAN

(* verify_signature, over the canonical form of the whole payload.           *)
Verifies(changed) == changed = {}

History(c) ==
    LET up[d \in Version] == {d} \cup (IF ParentOf[d] = Nil THEN {} ELSE up[ParentOf[d]])
    IN IF c = Nil THEN {} ELSE up[c]

(* cmd_registry.py: "an export must be complete".  Whatever was in the        *)
(* registry when the export began is in its manifest, with its object: commits *)
(* that land between two pages, dated before or after those already listed,    *)
(* never push an older one off the page it would have been on.                 *)
Listed(entries) == {entry.hash : entry \in ToSet(entries)}
Closed(m) == m.before \subseteq Listed(m.commits) /\ {BlobOf[c] : c \in Listed(m.commits)} \subseteq m.objects
ArchiveIsClosed == Closed(archive.manifest)

(* Without a tie, the timestamps alone order the listing.                      *)
DistinctStamps == \A c, d \in Version : AuthoredAt[c] = AuthoredAt[d] => c = d

(* What is not listed yet has at least offset rows before it.                  *)
UpTo(rows, c) == {d \in DOMAIN rows : rows[d].at >= rows[c].at}
StillAhead(c, offset) == Cardinality(UpTo(registry["old"].rows, c)) > offset
ListingComplete ==
    running.cmd = "export" =>
      IF running.step = "objects" THEN Closed(running.manifest)
      ELSE \A c \in running.before \ Listed(running.commits) :
             /\ running.step = "commits" /\ c \in DOMAIN registry["old"].rows
             /\ StillAhead(c, running.offset)

(* The archive is closed because what is being written is.                     *)
OldRowsStay ==
    /\ DOMAIN registry = {"old", "new"}
    /\ DOMAIN registry["old"].rows \subseteq Version /\ IsFiniteSet(DOMAIN registry["old"].rows)
    /\ {"rows", "objects", "ref"} \subseteq DOMAIN registry["old"]
    /\ \A c \in DOMAIN registry["old"].rows : registry["old"].rows[c] = RowOf(c)
CommandShape ==
    /\ "cmd" \in DOMAIN running
    /\ running.cmd = "export" =>
         \/ running \in Listing
         \/ running.step = "objects" /\ DOMAIN running = {"cmd", "step", "todo", "manifest"}
    /\ DOMAIN archive = {"objects", "manifest"}
ArchiveInv == OldRowsStay /\ CommandShape /\ ListingComplete /\ ArchiveIsClosed

Landed(m, new) ==
    /\ Listed(m.commits) \subseteq DOMAIN new.rows
    /\ m.objects \subseteq new.objects
    /\ new.ref = m.ref
Reported == running.cmd = "restore" /\ running.step = "end" /\ ~running.failed

(* When a restore reports no failure, however often it was interrupted and     *)
(* resumed, the registry has every commit of the manifest with its object and  *)
(* its branch where the manifest has it.                                       *)
RestoreHasLanded ==
    Reported /\ ~resume.stale => Landed(archive.manifest, registry["new"])

(* Every command and file by its fields, which the properties of a restore     *)
(* need: a resume file is of what this project has.                            *)
Objects == {BlobOf[c] : c \in Version}
Restoring == [cmd : {"restore"}, step : {"objects", "end"}, todo : SUBSET Objects, next : Nat \ {0},
              failed : BOOLEAN]
TransferTyped ==
    /\ TransferTypeOK
    /\ DOMAIN registry = {"old", "new"}
    /\ \A r \in {"old", "new"} : {"rows", "objects", "ref"} \subseteq DOMAIN registry[r]
    /\ "cmd" \in DOMAIN running
    /\ running.cmd = "restore" => running \in Restoring
    /\ archive \in [objects : SUBSET Objects, manifest : Manifests]
    /\ resume \in [objects : SUBSET Objects, commits : SUBSET Version, ref : BOOLEAN, stale : BOOLEAN]

(* A manifest names a branch as soon as the registry it came from has one, and *)
(* a registry has one only if some manifest did.                               *)
BranchFollows ==
    LET old == registry["old"].ref  new == registry["new"].ref
        Follows(m) == (new # Nil => m.ref # Nil) /\ (m.ref # Nil => old # Nil)
    IN /\ Follows(archive.manifest)
       /\ running.cmd = "export" /\ running.step = "objects" => Follows(running.manifest)

(* What the resume file says was done is in the registry it was written for.   *)
ResumeSound ==
    ~resume.stale =>
        /\ resume.commits \subseteq DOMAIN registry["new"].rows
        /\ resume.objects \subseteq registry["new"].objects
        /\ resume.ref => registry["new"].ref = archive.manifest.ref

(* What a restore has gone past is there.                                      *)
RestoreSound ==
    LET m == archive.manifest  new == registry["new"] IN
    running.cmd = "restore" /\ ~running.failed /\ ~resume.stale =>
        /\ m.objects \ running.todo \subseteq new.objects
        /\ \A i \in 1 .. Len(m.commits) : i < running.next => m.commits[i].hash \in DOMAIN new.rows
        /\ running.step = "end" => running.todo = {} /\ running.next > Len(m.commits) /\ new.ref = m.ref
RestoreInv == OldRowsStay /\ TransferTyped /\ BranchFollows /\ ResumeSound /\ RestoreSound

(* cmd_registry.py:restore says of --resume and --no-resume "safe either way   *)
(* since every write here is already idempotent": the same when the state file *)
(* is one of an earlier manifest or of another registry.                       *)
ResumeIsSafe == Reported => Landed(archive.manifest, registry["new"])

(* cmd_sync.py:clone: "Downloads the project's full commit history": a clone   *)
(* that succeeds has its tip's whole history and the tip's object.             *)
CloneIsWhole ==
    repo.ready => /\ History(repo.tip) \subseteq DOMAIN repo.commits
                  /\ BlobOf[repo.tip] \in repo.objects

(* server.py: a signature "rides along verbatim so `av verify` keeps working   *)
(* on cloned/pulled copies": a clone has every commit as it was signed.        *)
ClonedCopyVerifies == \A c \in DOMAIN repo.commits : Verifies(repo.commits[c])
=================================================================================
