----------------------------- MODULE RegistryStore -----------------------------
(***************************************************************************)
(* The registry's content-addressed store: the object rows and files, the  *)
(* Bloom filter in front of them, the Merkle-tree and commit rows, the     *)
(* upload and push handlers, and the mark-and-sweep garbage collector that *)
(* runs beside them (python/av_server/server.py, storage.py, gc_mark.py,   *)
(* redis_cache.py), with the part of the client that drives them           *)
(* (av_cli/core.py::upload_commit_objects, client.py).                     *)
(*                                                                         *)
(* A handler is one action per await at which another handler can run; a   *)
(* database transaction is one action at its COMMIT, under READ COMMITTED. *)
(* Shared isolation mode: one flat object namespace for every tenant.      *)
(***************************************************************************)
EXTENDS Integers, FiniteSets

CONSTANTS
    Object,      \* content hashes
    Tree,        \* Merkle-tree hashes
    Commit,      \* commits that clients have persisted locally and want to land
    Sweeper,     \* concurrent POST /api/admin/gc requests
    Leaves,      \* Leaves[t]: objects, layers and chunks named by the rows of t
    Kids,        \* Kids[t]: child_tree_hash of the rows of t
    Root,        \* Root[c]: root_tree_hash
    Extra,       \* Extra[c]: the env snapshot uploaded with c, named by a column of c
    Collide,     \* hashes whose bits the other members set: always reported present
    Grace,       \* GC_GRACE_SECONDS, in clock units
    MaxTime,     \* bound: the clock stops here
    MaxFaults,   \* bound: lost answers, failures and restarts in a behaviour
    PromptPush   \* TRUE: a push attempt takes less than one clock unit

ASSUME StoreAssumption ==
    /\ Leaves \in [Tree -> SUBSET Object]
    /\ Kids \in [Tree -> SUBSET Tree]
    /\ Root \in [Commit -> Tree]
    /\ Extra \in [Commit -> SUBSET Object]
    /\ Collide \subseteq Object
    /\ Grace \in Nat /\ MaxTime \in Nat /\ MaxFaults \in Nat
    /\ PromptPush \in BOOLEAN

Time == 0 .. MaxTime
Absent == -1

VARIABLES
    row,      \* row[o]: created_at of the committed DBObject row, or Absent
    file,     \* file[o]: mtime of the stored file, or Absent
    bloom,    \* hashes added to the Redis Bloom filter
    trees,    \* tree hashes with committed DBTree rows
    commits,  \* committed DBCommit rows
    push,     \* push[c]: where the client's push of c stands
    up,       \* up[<<c, o>>]: where the upload of o for c stands
    ins,      \* ins[c]: tree hashes the open transaction of c will insert
    sweep,    \* sweep[g]: the state of the garbage collection g
    graced,   \* history: commits that landed inside the grace guarantee
    now, faults

storeVars == <<row, file, bloom, trees, commits>>
pushVars == <<push, up, ins>>
vars == <<storeVars, pushVars, sweep, graced, now, faults>>

-----------------------------------------------------------------------------
(* Reachability over Merkle trees. *)

(* The least set that holds rs and, for each of its trees with rows in ts, *)
(* the children of that tree: the visited set of gc_mark._mark_from_root.  *)
Marked(ts, rs) ==
    {t \in Tree : \A S \in SUBSET Tree :
        (rs \subseteq S /\ \A u \in S \cap ts : Kids[u] \subseteq S) => t \in S}

(* visited: the trees the mark phase reached, and the variant that follows  *)
(* no child_tree_hash.                                                       *)
VisitedRootsOnly(ts, rs) == rs
Visited(ts, rs) == Marked(ts, rs)

(* alive: the hashes named by the rows of the visited trees, and the variant *)
(* that misses those of subdirectories.                                      *)
AliveRootsOnly(ts, rs) == UNION {Leaves[t] : t \in rs \cap ts}
Alive(ts, rs) == UNION {Leaves[t] : t \in Marked(ts, rs) \cap ts}

TreesOf(c) == Marked(Tree, {Root[c]})
ObjectsOf(c) == UNION {Leaves[t] : t \in TreesOf(c)}

(* What the client uploads before it pushes c. *)
Needed(c) == ObjectsOf(c) \cup Extra[c]

Stored(o) == row[o] # Absent /\ file[o] # Absent

(* RedisCache.check_hash_exists: BF.EXISTS, which answers TRUE for members   *)
(* and collisions.  When Redis fails the answer is TRUE for every hash.      *)
MightExist(o) == o \in bloom \cup Collide

(* A fault spends one unit of the bound; every other step spends none. *)
Fault == faults < MaxFaults /\ faults' = faults + 1
NoFault == faults' = faults

-----------------------------------------------------------------------------
Phase == {"idle", "roots", "select", "delete", "purge", "reset", "rebuild", "commit"}
UpPhase == {"idle", "check", "store", "stream", "stat", "insert", "add201", "add409",
            "ok", "bad"}
PushPhase == {"queued", "upload", "send", "insert", "done"}

NoSweep == [pc |-> "idle", cutoff |-> 0, trees |-> {}, visited |-> {}, alive |-> {},
            dead |-> {}, gone |-> {}, goneTrees |-> {}, scan |-> {}, purged |-> FALSE]

SweepState ==
    [pc : Phase, cutoff : Int, trees : SUBSET Tree, visited : SUBSET Tree,
     alive : SUBSET Object, dead : SUBSET Object, gone : SUBSET Object,
     goneTrees : SUBSET Tree, scan : SUBSET Object, purged : BOOLEAN]

Running(g) == sweep[g].pc # "idle"
(* The mark phase is over: alive and visited are fixed. *)
Marking(g) == sweep[g].pc \notin {"idle", "roots"}

(* Rows deleted by an open GC transaction: an INSERT of the same key waits. *)
HeldRows == UNION {sweep[g].gone : g \in Sweeper}
HeldTrees == UNION {sweep[g].goneTrees : g \in Sweeper}

Init ==
    /\ row = [o \in Object |-> Absent]
    /\ file = [o \in Object |-> Absent]
    /\ bloom = {} /\ trees = {} /\ commits = {}
    /\ push = [c \in Commit |-> "queued"]
    /\ up = [p \in Commit \X Object |-> "idle"]
    /\ ins = [c \in Commit |-> {}]
    /\ sweep = [g \in Sweeper |-> NoSweep]
    /\ graced = {}
    /\ now = 0 /\ faults = 0

-----------------------------------------------------------------------------
(* The client's push: batch check, uploads, commit. *)

(* upload_commit_objects up to the thread pool: one batch-objects call says *)
(* which hashes have a row (and which the Bloom filter rules out); the      *)
(* others are uploaded with known_missing=True.                             *)
StartPush(c) ==
    /\ push[c] = "queued"
    /\ \E might \in {{o \in Object : MightExist(o)}, Object} :
          /\ up' = [p \in Commit \X Object |->
                      IF p[1] # c \/ p[2] \notin Needed(c) THEN up[p]
                      ELSE IF p[2] \in might /\ row[p[2]] # Absent THEN "ok" ELSE "check"]
          /\ IF \A o \in might : MightExist(o) THEN NoFault ELSE Fault
    /\ push' = [push EXCEPT ![c] = "upload"]
    /\ UNCHANGED <<storeVars, ins, sweep, graced, now>>

(* Every future has its result: push_commit only if all of them are 201,   *)
(* otherwise the commit stays in the queue and is retried from the start.  *)
FinishUploads(c) ==
    /\ push[c] = "upload"
    /\ \A o \in Needed(c) : up[<<c, o>>] \in {"ok", "bad"}
    /\ push' = [push EXCEPT ![c] =
                  IF \A o \in Needed(c) : up[<<c, o>>] = "ok" THEN "send" ELSE "queued"]
    /\ up' = [p \in Commit \X Object |-> IF p[1] = c THEN "idle" ELSE up[p]]
    /\ UNCHANGED <<storeVars, ins, sweep, graced, now>> /\ NoFault

(* push_commit, first half: a commit the registry has is answered 409; else *)
(* build_merkle_tree looks up every tree and inserts the missing ones.      *)
SendCommit(c) ==
    /\ push[c] = "send"
    /\ IF c \in commits
         THEN push' = [push EXCEPT ![c] = "done"] /\ ins' = ins
         ELSE /\ push' = [push EXCEPT ![c] = "insert"]
              /\ ins' = [ins EXCEPT ![c] = TreesOf(c) \ trees]
    /\ UNCHANGED <<storeVars, up, sweep, graced, now>> /\ NoFault

(* The history variable: at the landing of c every object of its tree is   *)
(* either younger than the grace period or already kept by such a commit.  *)
GraceHolds(c) ==
    \A o \in ObjectsOf(c) :
        \/ row[o] >= now - Grace /\ file[o] >= now - Grace /\ Stored(o)
        \/ \E d \in graced : o \in ObjectsOf(d)

(* push_commit, second half: the transaction commits, the trees and the    *)
(* commit become visible together.  A tree row another transaction         *)
(* inserted meanwhile is an IntegrityError: nothing lands, the answer is   *)
(* 500 and the client keeps the commit queued.  No tree row or commit      *)
(* refers to an object row by a foreign key.                               *)
LandCommit(c) ==
    /\ push[c] = "insert"
    /\ ins[c] \cap HeldTrees = {}
    /\ IF ins[c] \cap trees # {}
         THEN /\ push' = [push EXCEPT ![c] = "queued"]
              /\ UNCHANGED <<trees, commits, graced>> /\ NoFault
         ELSE /\ trees' = trees \cup ins[c]
              /\ commits' = commits \cup {c}
              /\ graced' = IF GraceHolds(c) THEN graced \cup {c} ELSE graced
              /\ \/ push' = [push EXCEPT ![c] = "done"] /\ NoFault
                 \/ push' = [push EXCEPT ![c] = "queued"] /\ Fault   \* answer lost
    /\ ins' = [ins EXCEPT ![c] = {}]
    /\ UNCHANGED <<row, file, bloom, up, sweep, now>>

(* The commit request fails (network, 500, rejected token) before it lands. *)
FailPush(c) ==
    /\ push[c] \in {"send", "insert"}
    /\ push' = [push EXCEPT ![c] = "queued"]
    /\ ins' = [ins EXCEPT ![c] = {}]
    /\ UNCHANGED <<storeVars, up, sweep, graced, now>> /\ Fault

-----------------------------------------------------------------------------
(* upload_object, one action per await. *)

UploadStep(c, o, from, to) ==
    /\ up[<<c, o>>] = from
    /\ up' = [up EXCEPT ![<<c, o>>] = to]
    /\ UNCHANGED <<push, ins, trees, commits, sweep, graced, now>>

(* Bloom filter first, then the row; 409 is not 201, so the client's        *)
(* upload_object reports failure.                                           *)
UploadCheck(c, o) ==
    /\ \/ UploadStep(c, o, "check", IF MightExist(o) /\ row[o] # Absent THEN "bad" ELSE "store")
          /\ NoFault
       \/ UploadStep(c, o, "check", IF row[o] # Absent THEN "bad" ELSE "store") /\ Fault
    /\ UNCHANGED <<row, file, bloom>>

(* store_object returns at once when the file is there, whatever its age.  *)
StoreBegin(c, o) ==
    /\ UploadStep(c, o, "store", IF file[o] # Absent THEN "stat" ELSE "stream")
    /\ UNCHANGED <<row, file, bloom>> /\ NoFault

(* The temporary file is complete and is moved over the target.              *)
StoreEnd(c, o) ==
    /\ UploadStep(c, o, "stream", "stat")
    /\ file' = [file EXCEPT ![o] = now]
    /\ UNCHANGED <<row, bloom>> /\ NoFault

(* path.stat(): FileNotFoundError is a 500. *)
StatFile(c, o) ==
    /\ UploadStep(c, o, "stat", IF file[o] = Absent THEN "bad" ELSE "insert")
    /\ UNCHANGED <<row, file, bloom>> /\ NoFault

(* The row commits, or its key exists and the IntegrityError branch is     *)
(* taken; a key that an open GC transaction deleted makes the INSERT wait. *)
InsertRow(c, o) ==
    /\ o \notin HeldRows
    /\ UploadStep(c, o, "insert", IF row[o] = Absent THEN "add201" ELSE "add409")
    /\ row' = IF row[o] = Absent THEN [row EXCEPT ![o] = now] ELSE row
    /\ UNCHANGED <<file, bloom>> /\ NoFault

(* cache.add_hash, on both branches; RedisCache logs a failure and goes on.  *)
(* The variant adds nothing on the IntegrityError branch.                    *)
AddToBloomOn201(c, o) ==
    /\ \/ UploadStep(c, o, "add201", "ok") /\ bloom' = bloom \cup {o} /\ NoFault
       \/ UploadStep(c, o, "add201", "ok") /\ bloom' = bloom /\ Fault
       \/ UploadStep(c, o, "add409", "bad") /\ bloom' = bloom /\ NoFault
    /\ UNCHANGED <<row, file>>

AddToBloom(c, o) ==
    /\ \/ UploadStep(c, o, "add201", "ok")
       \/ UploadStep(c, o, "add409", "bad")
    /\ \/ bloom' = bloom \cup {o} /\ NoFault
       \/ bloom' = bloom /\ Fault
    /\ UNCHANGED <<row, file>>

(* The request dies or its answer is lost: RequestException, False. *)
DropUpload(c, o) ==
    /\ up[<<c, o>>] \notin {"idle", "ok", "bad"}
    /\ UploadStep(c, o, up[<<c, o>>], "bad")
    /\ UNCHANGED <<row, file, bloom>> /\ Fault
-----------------------------------------------------------------------------
(* run_garbage_collection. *)

SweepStep(g, new) ==
    /\ sweep' = [sweep EXCEPT ![g] = new]
    /\ UNCHANGED <<pushVars, commits, graced, now>>

(* The cutoff is fixed and the tree rows are streamed. *)
ReadTrees(g) ==
    /\ sweep[g].pc = "idle"
    /\ SweepStep(g, [NoSweep EXCEPT !.pc = "roots", !.cutoff = now - Grace, !.trees = trees])
    /\ UNCHANGED <<row, file, bloom, trees>> /\ NoFault

(* The commits are streamed, by a later statement, and mark_alive runs.    *)
ReadRoots(g) ==
    LET s == sweep[g]
        rs == {Root[c] : c \in commits}
    IN  /\ s.pc = "roots"
        /\ SweepStep(g, [s EXCEPT !.pc = "select", !.visited = Visited(s.trees, rs),
                                  !.alive = Alive(s.trees, rs)])
        /\ UNCHANGED <<row, file, bloom, trees>> /\ NoFault

(* dead: unreferenced rows past the grace period, and the variant whose      *)
(* comparison is off by one.                                                 *)
DeadObjectsInclusive(s) == {o \in Object \ s.alive : row[o] # Absent /\ row[o] <= s.cutoff}
DeadObjects(s) == {o \in Object \ s.alive : row[o] # Absent /\ row[o] < s.cutoff}

(* The object rows are streamed. *)
SelectDead(g) ==
    LET s == sweep[g]
    IN  /\ s.pc = "select"
        /\ SweepStep(g, [s EXCEPT !.pc = "delete", !.dead = DeadObjects(s)])
        /\ UNCHANGED <<row, file, bloom, trees>> /\ NoFault

(* DELETE by hash and by tree_hash, not committed yet; a row that another  *)
(* open transaction deleted makes the statement wait.  Dead trees go only  *)
(* if some tree was visited.                                               *)
DeleteRows(g) ==
    LET s == sweep[g]
    IN  /\ s.pc = "delete"
        /\ s.dead \cap HeldRows = {}
        /\ SweepStep(g, [NoSweep EXCEPT !.pc = "purge",
              !.cutoff = s.cutoff, !.alive = s.alive,
              !.gone = {o \in s.dead : row[o] # Absent},
              !.goneTrees = IF s.visited = {} THEN {} ELSE s.trees \ s.visited,
              !.scan = Object])
        /\ UNCHANGED <<row, file, bloom, trees>> /\ NoFault

(* purge_orphans visits one file, in a worker thread, while uploads go on. *)
PurgeFile(g) ==
    LET s == sweep[g]
    IN  /\ s.pc = "purge"
        /\ \E o \in s.scan :
              LET orphan == o \notin s.alive /\ file[o] # Absent /\ file[o] < s.cutoff
              IN  /\ SweepStep(g, [s EXCEPT !.scan = @ \ {o}, !.purged = @ \/ orphan])
                  /\ file' = IF orphan THEN [file EXCEPT ![o] = Absent] ELSE file
        /\ UNCHANGED <<row, bloom, trees>> /\ NoFault

(* The filter is rebuilt only if some file was deleted. *)
EndPurge(g) ==
    LET s == sweep[g]
    IN  /\ s.pc = "purge" /\ s.scan = {}
        /\ SweepStep(g, [s EXCEPT !.pc = IF s.purged THEN "reset" ELSE "commit",
                                  !.purged = FALSE])
        /\ UNCHANGED <<row, file, bloom, trees>> /\ NoFault

(* reset_filter and init_filter. *)
ResetBloom(g) ==
    /\ sweep[g].pc = "reset"
    /\ SweepStep(g, [sweep[g] EXCEPT !.pc = "rebuild"])
    /\ bloom' = {}
    /\ UNCHANGED <<row, file, trees>> /\ NoFault

(* add_hashes(alive_hashes): only what the mark phase reached. *)
RebuildBloom(g) ==
    /\ sweep[g].pc = "rebuild"
    /\ SweepStep(g, [sweep[g] EXCEPT !.pc = "commit"])
    /\ bloom' = bloom \cup sweep[g].alive
    /\ UNCHANGED <<row, file, trees>> /\ NoFault

(* db.commit(): only now do the deleted rows disappear for everyone. *)
CommitSweep(g) ==
    LET s == sweep[g]
    IN  /\ s.pc = "commit"
        /\ SweepStep(g, NoSweep)
        /\ row' = [o \in Object |-> IF o \in s.gone THEN Absent ELSE row[o]]
        /\ trees' = trees \ s.goneTrees
        /\ UNCHANGED <<file, bloom>> /\ NoFault

(* Any exception: rollback.  Files already unlinked stay unlinked. *)
FailSweep(g) ==
    /\ Running(g)
    /\ SweepStep(g, NoSweep)
    /\ UNCHANGED <<row, file, bloom, trees>> /\ Fault

-----------------------------------------------------------------------------
(* The registry process dies: open transactions roll back, requests fail,  *)
(* files, committed rows and the filter stay.                              *)
Restart ==
    /\ sweep' = [g \in Sweeper |-> NoSweep]
    /\ up' = [p \in Commit \X Object |->
                IF up[p] \in {"idle", "ok"} THEN up[p] ELSE "bad"]
    /\ push' = [c \in Commit |-> IF push[c] \in {"send", "insert"} THEN "queued" ELSE push[c]]
    /\ ins' = [c \in Commit |-> {}]
    /\ UNCHANGED <<storeVars, graced, now>> /\ Fault

Tick ==
    /\ now < MaxTime
    /\ PromptPush => \A c \in Commit : push[c] \in {"queued", "done"}
    /\ now' = now + 1
    /\ UNCHANGED <<storeVars, pushVars, sweep, graced>> /\ NoFault

Upload(c, o) ==
    \/ UploadCheck(c, o) \/ StoreBegin(c, o) \/ StoreEnd(c, o)
    \/ StatFile(c, o) \/ InsertRow(c, o) \/ AddToBloom(c, o)

PushStep(c) == StartPush(c) \/ FinishUploads(c) \/ SendCommit(c) \/ LandCommit(c)

Collect(g) ==
    \/ ReadTrees(g) \/ ReadRoots(g) \/ SelectDead(g) \/ DeleteRows(g) \/ PurgeFile(g)
    \/ EndPurge(g) \/ ResetBloom(g) \/ RebuildBloom(g) \/ CommitSweep(g)

Next ==
    \/ \E c \in Commit : PushStep(c) \/ FailPush(c)
    \/ \E c \in Commit, o \in Object : Upload(c, o) \/ DropUpload(c, o)
    \/ \E g \in Sweeper : Collect(g) \/ FailSweep(g)
    \/ Restart
    \/ Tick

Spec == Init /\ [][Next]_vars

(* A client that is up retries its queue, and the registry's event loop     *)
(* runs every started request to its end.  No fairness for faults, for the  *)
(* clock, or for the operator who starts a collection.                      *)
FairSpec ==
    /\ Spec
    /\ \A c \in Commit : WF_vars(PushStep(c))
    /\ \A c \in Commit, o \in Object : WF_vars(Upload(c, o))
    /\ \A g \in Sweeper : WF_vars(Running(g) /\ Collect(g))
-----------------------------------------------------------------------------
(* Properties. *)

(* Every variable stays in its domain. *)
TypeOK ==
    /\ row \in [Object -> Time \cup {Absent}]
    /\ file \in [Object -> Time \cup {Absent}]
    /\ bloom \subseteq Object /\ trees \subseteq Tree
    /\ commits \subseteq Commit /\ graced \subseteq Commit
    /\ push \in [Commit -> PushPhase]
    /\ up \in [Commit \X Object -> UpPhase]
    /\ ins \in [Commit -> SUBSET Tree]
    /\ sweep \in [Sweeper -> SweepState]
    /\ now \in Time /\ faults \in 0 .. MaxFaults

(* A landed commit can always be read back in full: build_merkle_tree skips *)
(* trees that exist, the collector streams the trees before the commits and *)
(* deletes what it did not visit, and still no tree row that a commit needs *)
(* is ever gone.                                                            *)
TreeRowsClosed == \A c \in commits : TreesOf(c) \subseteq trees

(* What the grace period does guarantee: a commit that lands while each of  *)
(* its objects is younger than the grace period, or already kept by such a  *)
(* commit, has every object from then on, whatever collection is running.   *)
GraceGuarantee == \A c \in graced : \A o \in ObjectsOf(c) : Stored(o)

(* A commit is settled when it has landed with its objects and every running *)
(* collection marks them or will.                                            *)
Settled(c) ==
    /\ c \in commits
    /\ \A o \in ObjectsOf(c) : Stored(o)
    /\ \A g \in Sweeper :
          /\ sweep[g].pc = "roots" => TreesOf(c) \subseteq sweep[g].trees
          /\ Marking(g) => ObjectsOf(c) \subseteq sweep[g].alive

(* No step of any handler, collection, failure or restart unsettles a        *)
(* settled commit: once it is settled, its objects are never collected.      *)
SettledStaysSettled == [][\A c \in Commit : Settled(c) => Settled(c)']_vars

(* Every commit a client keeps retrying reaches the registry, although       *)
(* lost answers, 409s, tree conflicts and collections send it back.          *)
EveryPushLands == \A c \in Commit : <>(c \in commits)

(* server.py: objects newer than the grace period are never collected, even  *)
(* if no commit references them.  For the rows this holds while collections   *)
(* do not overlap.                                                            *)
FreshRowNeverCollected ==
    [][\A o \in Object : row[o] # Absent /\ row[o] >= now - Grace => row'[o] # Absent]_vars

(* server.py: the grace period "closes the race without a global GC/upload   *)
(* lock" between the upload of a shard and the landing of its commit.        *)
GraceClosesRace == \A c \in commits : \A o \in ObjectsOf(c) : Stored(o)

(* models.py: a DBObject row represents a stored blob; stated while no       *)
(* collection runs.                                                          *)
RowsHaveFiles ==
    (\A g \in Sweeper : ~Running(g)) =>
        \A o \in Object : row[o] # Absent => file[o] # Absent

(* architecture.md: the env snapshot of a landed commit can be resolved from *)
(* the registry.                                                             *)
EnvSnapshotKept == \A c \in commits : \A o \in Extra[c] : Stored(o)
-----------------------------------------------------------------------------
(* The inductive invariants behind the properties. *)

(* Every tree row came with a commit that is still there. *)
NoOrphanTrees == \A t \in trees : \E c \in commits : t \in TreesOf(c)

(* An open push transaction holds every tree row its commit still lacks. *)
InsertsComplete ==
    \A c \in Commit :
        /\ ins[c] \subseteq TreesOf(c)
        /\ push[c] = "insert" => TreesOf(c) \subseteq trees \cup ins[c]

(* The trees a collection read belong to commits that it will find later, so *)
(* it visits all of them: no collection ever deletes a tree row.             *)
SnapshotCovered ==
    \A g \in Sweeper :
        /\ sweep[g].pc = "roots" =>
              \A t \in sweep[g].trees :
                  \E c \in commits : t \in TreesOf(c) /\ TreesOf(c) \subseteq sweep[g].trees
        /\ sweep[g].pc \in {"select", "delete"} => sweep[g].trees \subseteq sweep[g].visited
        /\ sweep[g].goneTrees = {}

TreeInv == TypeOK /\ TreeRowsClosed /\ NoOrphanTrees /\ InsertsComplete /\ SnapshotCovered

(* A collection deletes nothing that it marked. *)
DeadNotAlive ==
    \A g \in Sweeper :
        /\ sweep[g].alive \cap (sweep[g].dead \cup sweep[g].gone) = {}
        /\ ~Marking(g) => sweep[g].dead = {} /\ sweep[g].gone = {}

StoreInv == TreeInv /\ DeadNotAlive

(* What the rows a collection is about to delete look like, as long as no    *)
(* other collection deletes them first: old, and there.                      *)
DeadRowsOld ==
    \A g \in Sweeper :
        /\ Running(g) => sweep[g].cutoff <= now - Grace
        /\ \A o \in sweep[g].dead \cup sweep[g].gone :
              row[o] # Absent /\ row[o] < sweep[g].cutoff

(* Collection g will spare o: it marks it, will mark it, or finds it young.  *)
Spared(g, o) ==
    LET s == sweep[g]
        young == row[o] >= s.cutoff /\ file[o] >= s.cutoff
    IN  /\ s.pc = "roots" =>
              young \/ \E d \in commits : o \in ObjectsOf(d) /\ TreesOf(d) \subseteq s.trees
        /\ Marking(g) => young \/ o \in s.alive

GracedSpared ==
    /\ graced \subseteq commits
    /\ \A c \in graced : \A o \in ObjectsOf(c) : Stored(o) /\ \A g \in Sweeper : Spared(g, o)

GraceInv == StoreInv /\ DeadRowsOld /\ GracedSpared
=============================================================================
