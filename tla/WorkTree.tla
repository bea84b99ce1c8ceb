------------------------------ MODULE WorkTree ------------------------------
(***************************************************************************)
(* One repository's working tree, staging index, object store, branches    *)
(* and stash, used by several processes at once: av in a terminal, an SDK  *)
(* script, av watch and a training plugin, while programs rewrite the      *)
(* tracked files.  Some commands hold .av/lock from their first read to    *)
(* their last write; others read the index, work, and write it back        *)
(* without the lock.                                                       *)
(*                                                                         *)
(* A file's size and mtime are abstracted to what the code compares them   *)
(* for: an index entry is "fresh" while the file on disk has the stat that *)
(* the entry records; every write to the file ends that, in the index on   *)
(* disk and in every copy of it a process holds.  Split is the set of      *)
(* paths whose files are stored as chunks and not as one object.  The      *)
(* registry is unreachable: a missing object stays missing.                *)
(***************************************************************************)
EXTENDS Naturals, Sequences, FiniteSets, Functions

CONSTANTS Path, Split, Content, Branch, Main, Proc,
          Does,        \* process -> the kinds of command it runs
          Quota,       \* process -> how many commands it runs
          MaxEdits, MaxCommits

Staging == {"add", "sdk", "watch", "scoped"}
Command == Staging \cup {"commit", "sdkCommit", "rm", "unstage", "branch",
                         "checkout", "restore", "stash", "pop"}

ASSUME WorkTreeAssumption ==
    /\ Split \subseteq Path
    /\ Main \in Branch
    /\ "none" \notin Content \cup Branch \cup Proc
    /\ Does \in [Proc -> SUBSET Command] /\ Quota \in [Proc -> Nat]
    /\ {MaxEdits, MaxCommits} \subseteq Nat

VARIABLES disk,      \* Path -> its content, "none" when there is no file
          cas,       \* the stored objects: <<content, "whole" or "parts">>
          index,     \* .av/index: tracked path -> entry
          removed,   \* .av/index: paths whose deletion is staged
          commits,   \* the commits' trees, in the order they were made
          tip,       \* branch -> number of its commit
          head,      \* the branch HEAD names, or "none", and the commit
          stash,     \* the stash records, oldest first; Nothing: popped or dropped
          lock,      \* the process that holds .av/lock, or "none"
          pc, mem,   \* per process: the step its command is at, and its data
          edits, commands

wtVars == <<disk, cas, index, removed, commits, tip, head, stash, lock, pc,
            mem, edits, commands>>

IsPartialFun(g, S, T) == DOMAIN g \subseteq S /\ \A x \in DOMAIN g : g[x] \in T
Piece == Content \cup {"none"}
Entry == [h : Content, parts : Piece, fresh : BOOLEAN, staged : BOOLEAN,
          blind : BOOLEAN]                     \* blind: see CheckoutStat
TreeEntry == [h : Content, parts : Piece]
StashEntry == [h : Content, parts : Piece, staged : BOOLEAN]
Nothing == [f \in {} |-> "none"]         \* no entries, no files

\* What a running command keeps: its copy of the index (e, gone), the index
\* it read at first (saved), the path it stages, whether the stat it took
\* still holds, what it checks out, the paths a checkout has to write (todo)
\* or a stash takes, the record of a stash; and, for the properties alone, the
\* paths that a checkout's guard passed and nobody has written since (sure).
Blank == [e |-> Nothing, gone |-> {}, saved |-> Nothing, file |-> "none",
          st |-> FALSE, target |-> 0, name |-> "none", force |-> FALSE,
          todo |-> {}, sure |-> {}, rec |-> Nothing]

WtTypeOK ==
    /\ disk \in [Path -> Piece]
    /\ cas \subseteq Content \X {"whole", "parts"}
    /\ IsPartialFun(index, Path, Entry)
    /\ removed \subseteq Path
    /\ \A i \in DOMAIN commits : IsPartialFun(commits[i], Path, TreeEntry)
    /\ IsPartialFun(tip, Branch, 1..MaxCommits)
    /\ head.branch \in Branch \cup {"none"} /\ head.at \in 0..MaxCommits
    /\ \A i \in DOMAIN stash : IsPartialFun(stash[i], Path, StashEntry)
    /\ lock \in Proc \cup {"none"}
    /\ pc \in [Proc -> {"idle", "add", "hashed", "sdk", "sdkHashed",
                        "watch", "watchHashed", "scoped", "scopedHashed",
                        "scopedSaved", "loaded", "resolved", "checked",
                        "statted", "stashing", "reverted", "popping",
                        "applying"}]
    /\ \A q \in Proc : /\ IsPartialFun(mem[q].e, Path, Entry)
                       /\ IsPartialFun(mem[q].saved, Path, Entry)
                       /\ mem[q].gone \cup mem[q].todo \cup mem[q].sure \subseteq Path
    /\ edits \in 0..MaxEdits /\ \A q \in Proc : commands[q] \in 0..Quota[q]

-----------------------------------------------------------------------------
(* Helpers *)

Tracked == DOMAIN index
HeadCommit == IF head.branch = "none" THEN head.at
              ELSE IF head.branch \in DOMAIN tip THEN tip[head.branch] ELSE 0
HeadTree == IF HeadCommit = 0 THEN Nothing ELSE commits[HeadCommit]

\* The object a staged file of this content becomes, and the entry for it.
Stored(f, c) == <<c, IF f \in Split THEN "parts" ELSE "whole">>
PartsOf(f, c) == IF f \in Split THEN c ELSE "none"

\* The function e with f mapped to x, and new where it is defined, old elsewhere.
PutEntry(e, f, x) == [g \in DOMAIN e \cup {f} |-> IF g = f THEN x ELSE e[g]]
Over(new, old) ==
    [g \in DOMAIN new \cup DOMAIN old |-> IF g \in DOMAIN new THEN new[g] ELSE old[g]]

\* Every object that the entry x needs is here and, where it is verified,
\* yields the content x names.  Without verification its bytes are what
\* the parts say.
Here(x) == IF x.parts = "none" THEN <<x.h, "whole">> \in cas
           ELSE <<x.parts, "parts">> \in cas
Intact(x) == Here(x) /\ x.parts \in {"none", x.h}
Bytes(x) == IF x.parts = "none" THEN x.h ELSE x.parts

\* The files F are being written: no stat recorded before holds any more.
Stale(e, F) == [f \in DOMAIN e |-> IF f \in F THEN [e[f] EXCEPT !.fresh = FALSE]
                                   ELSE e[f]]
StaleMem(F) == [q \in Proc |->
    [mem[q] EXCEPT !.e = Stale(@, F), !.saved = Stale(@, F),
                   !.st = @ /\ mem[q].file \notin F, !.sure = @ \ F]]

Idle(q) == pc[q] = "idle"
Unlocked == lock = "none"
Begin(q, command) == /\ Idle(q) /\ command \in Does[q]
                     /\ commands[q] < Quota[q]
                     /\ commands' = [commands EXCEPT ![q] = @ + 1]
Done(q) == /\ pc' = [pc EXCEPT ![q] = "idle"]
           /\ mem' = [mem EXCEPT ![q] = Blank]
\* The command is over and the files F were written by it.
DoneWriting(q, F) == /\ pc' = [pc EXCEPT ![q] = "idle"]
                     /\ mem' = [StaleMem(F) EXCEPT ![q] = Blank]
Holding == [Blank EXCEPT !.e = index, !.gone = removed]

-----------------------------------------------------------------------------
(* A program writes, touches or deletes a file *)

Edit(f, c) ==
    /\ edits < MaxEdits
    /\ c \in Content \cup {"none"}
    /\ ~(c = "none" /\ disk[f] = "none")
    /\ disk' = [disk EXCEPT ![f] = c]
    /\ index' = Stale(index, {f})
    /\ mem' = StaleMem({f})
    /\ edits' = edits + 1
    /\ UNCHANGED <<cas, removed, commits, tip, head, stash, lock, pc, commands>>

-----------------------------------------------------------------------------
(* Staging: stat first, then hash and store, then record in the index *)

\* add_entry: a path is staged when its hash differs from the entry before.
NewEntry(old, f, c, st) ==
    [h |-> c, parts |-> PartsOf(f, c), fresh |-> st, blind |-> FALSE,
     staged |-> f \notin DOMAIN old \/ old[f].h # c]

AfterHash == [add |-> "hashed", sdk |-> "sdkHashed",
              watch |-> "watchHashed", scoped |-> "scopedHashed"]

\* The index is read, without the lock, and the file's stat taken; a file
\* whose stat is the entry's is skipped.
StageStart(q, kind, f, saved) ==
    /\ Begin(q, kind)
    /\ disk[f] # "none"
    /\ ~(f \in Tracked /\ index[f].fresh)
    /\ pc' = [pc EXCEPT ![q] = kind]
    /\ mem' = [mem EXCEPT ![q] = [Holding EXCEPT !.saved = saved, !.file = f,
                                                !.st = TRUE]]
    /\ UNCHANGED <<disk, cas, index, removed, commits, tip, head, stash, lock,
                   edits>>

AddStart(q, f) == StageStart(q, "add", f, Nothing)
SdkAddStart(q, f) == StageStart(q, "sdk", f, Nothing)
\* A debounced file whose content is committed already is left alone.
WatchStart(q, f) ==
    /\ ~(f \in Tracked /\ index[f].h = disk[f] /\ ~index[f].staged)
    /\ StageStart(q, "watch", f, Nothing)
ScopedStart(q, f) == StageStart(q, "scoped", f, index)

\* The content is read, hashed and published; a file that is gone ends it.
StageHash(q) ==
    LET f == mem[q].file
    IN /\ pc[q] \in Staging
       /\ IF disk[f] = "none" THEN Done(q) /\ UNCHANGED cas
          ELSE /\ cas' = cas \cup {Stored(f, disk[f])}
               /\ pc' = [pc EXCEPT ![q] = AfterHash[@]]
               /\ mem' = [mem EXCEPT ![q].e =
                            PutEntry(@, f, NewEntry(@, f, disk[f], mem[q].st)),
                                     ![q].gone = @ \ {f}]
       /\ UNCHANGED <<disk, index, removed, commits, tip, head, stash, lock,
                      edits, commands>>

\* av add: under the lock the one entry goes into the index as it is now.
AddMerge(q) ==
    LET f == mem[q].file
    IN /\ pc[q] = "hashed" /\ Unlocked
       /\ index' = PutEntry(index, f, mem[q].e[f])
       /\ removed' = removed \ {f}
       /\ Done(q)
       /\ UNCHANGED <<disk, cas, commits, tip, head, stash, lock, edits, commands>>

\* Repo.add of the SDK, and av watch before its commit: the whole index that
\* was read is written back, without the lock.
SaveCopy(q) ==
    /\ index' = mem[q].e
    /\ removed' = mem[q].gone
    /\ UNCHANGED <<disk, cas, commits, tip, head, stash, lock, edits, commands>>
SdkAddSave(q) == pc[q] = "sdkHashed" /\ SaveCopy(q) /\ Done(q)
WatchSave(q) == /\ pc[q] = "watchHashed" /\ SaveCopy(q)
                /\ pc' = [pc EXCEPT ![q] = "loaded"] /\ UNCHANGED mem

-----------------------------------------------------------------------------
(* Commits *)

SomethingStaged(e, gone) == gone # {} \/ \E f \in DOMAIN e : e[f].staged
TreeOf(e) == [f \in DOMAIN e |-> [h |-> e[f].h, parts |-> e[f].parts]]
ClearStaged(e) == [f \in DOMAIN e |-> [e[f] EXCEPT !.staged = FALSE]]

\* commit_staged with an index in hand: the tree is the whole index, HEAD's
\* branch or HEAD itself moves, the staged flags are cleared and saved.
CommitIndex(e) ==
    /\ commits' = Append(commits, TreeOf(e))
    /\ IF head.branch = "none"
       THEN head' = [head EXCEPT !.at = Len(commits) + 1] /\ UNCHANGED tip
       ELSE tip' = PutEntry(tip, head.branch, Len(commits) + 1) /\ UNCHANGED head
    /\ index' = ClearStaged(e)
    /\ removed' = {}

\* av commit: one lock from the read of the index to its last write.
CommitNow(q) ==
    /\ Begin(q, "commit") /\ Unlocked
    /\ Len(commits) < MaxCommits
    /\ SomethingStaged(index, removed)
    /\ CommitIndex(index)
    /\ UNCHANGED <<disk, cas, stash, lock, pc, mem, edits>>

\* Repo.commit of the SDK reads the index before commit_staged locks.
SdkCommitLoad(q) ==
    /\ Begin(q, "sdkCommit")
    /\ \E f \in Tracked : index[f].staged
    /\ pc' = [pc EXCEPT ![q] = "loaded"]
    /\ mem' = [mem EXCEPT ![q] = Holding]
    /\ UNCHANGED <<disk, cas, index, removed, commits, tip, head, stash, lock,
                   edits>>

CommitCopy(q) ==
    /\ pc[q] = "loaded" /\ Unlocked
    /\ Len(commits) < MaxCommits
    /\ IF SomethingStaged(mem[q].e, mem[q].gone) THEN CommitIndex(mem[q].e)
       ELSE UNCHANGED <<commits, tip, head, index, removed>>
    /\ Done(q)
    /\ UNCHANGED <<disk, cas, stash, lock, edits, commands>>

\* commit_scoped_paths (the plugins): the index is cut down to what this
\* staging touched, committed, and then put together again from the entries
\* that were read at the start.
Scoped(q) ==
    LET f == mem[q].file
        touched == \/ f \notin DOMAIN mem[q].saved
                   \/ mem[q].e[f].h # mem[q].saved[f].h
                   \/ mem[q].e[f].staged /\ ~mem[q].saved[f].staged
    IN [g \in {h \in {f} : touched} |-> mem[q].e[g]]

ScopedCommit(q) ==
    /\ pc[q] = "scopedHashed" /\ Unlocked
    /\ Len(commits) < MaxCommits
    /\ IF SomethingStaged(Scoped(q), mem[q].gone)
       THEN CommitIndex(Scoped(q)) /\ mem' = [mem EXCEPT ![q].e = ClearStaged(Scoped(q)),
                                                         ![q].gone = {}]
       ELSE /\ mem' = [mem EXCEPT ![q].e = Scoped(q)]
            /\ UNCHANGED <<commits, tip, head, index, removed>>
    /\ pc' = [pc EXCEPT ![q] = "scopedSaved"]
    /\ UNCHANGED <<disk, cas, stash, lock, edits, commands>>

ScopedMergeBack(q) ==
    /\ pc[q] = "scopedSaved"
    /\ index' = Over(mem[q].e, mem[q].saved)
    /\ removed' = mem[q].gone
    /\ Done(q)
    /\ UNCHANGED <<disk, cas, commits, tip, head, stash, lock, edits, commands>>

-----------------------------------------------------------------------------
(* Index commands under the lock *)

\* av rm: nothing is compared before the file is deleted.
Rm(q, f, cached) ==
    /\ Begin(q, "rm") /\ Unlocked
    /\ f \in Tracked
    /\ LET F == IF cached THEN {} ELSE {f}
       IN /\ disk' = [g \in Path |-> IF g \in F THEN "none" ELSE disk[g]]
          /\ index' = Stale(Restrict(index, Tracked \ {f}), F)
          /\ mem' = StaleMem(F)
    /\ removed' = removed \cup {f}
    /\ UNCHANGED <<cas, commits, tip, head, stash, lock, pc, edits>>

\* av unstage: back to HEAD's entry with a stat that matches no file.  The
\* chunks of HEAD's entry are not taken over.
UnstagedKeepsStat(f, t) == [h |-> t.h, parts |-> "none", fresh |-> index[f].fresh,
                            staged |-> FALSE, blind |-> FALSE]
Unstaged(f, t) == [h |-> t.h, parts |-> "none", fresh |-> FALSE,
                   staged |-> FALSE, blind |-> FALSE]

Unstage(q, F) ==
    /\ Begin(q, "unstage") /\ Unlocked
    /\ F # {} /\ F \subseteq {f \in Tracked : index[f].staged}
    /\ index' = [f \in Tracked \ (F \ DOMAIN HeadTree) |->
                   IF f \in F THEN Unstaged(f, HeadTree[f]) ELSE index[f]]
    /\ UNCHANGED <<disk, cas, removed, commits, tip, head, stash, lock, pc, mem,
                   edits>>

\* av branch: writes the file whether or not the branch exists.
CreateBranch(q, b) ==
    /\ Begin(q, "branch")
    /\ HeadCommit # 0
    /\ tip' = PutEntry(tip, b, HeadCommit)
    /\ UNCHANGED <<disk, cas, index, removed, commits, head, stash, lock, pc,
                   mem, edits>>

-----------------------------------------------------------------------------
(* Checkout *)

\* _collect_dirty_paths: untracked files that the tree would overwrite, and
\* tracked files that are gone, staged or changed.
DirtyTrackedOnly(tree) ==
    {f \in Tracked : disk[f] = "none" \/ index[f].staged \/ ~index[f].fresh}
Dirty(tree) ==
    {f \in DOMAIN tree \ Tracked : disk[f] # "none" /\ disk[f] # tree[f].h}
        \cup {f \in Tracked : disk[f] = "none" \/ index[f].staged
                                \/ ~index[f].fresh}

\* The target is resolved before the lock is taken.
CheckoutStart(q, n, b, force) ==
    /\ Begin(q, "checkout")
    /\ n \in DOMAIN commits
    /\ b # "none" => b \in DOMAIN tip /\ tip[b] = n
    /\ pc' = [pc EXCEPT ![q] = "resolved"]
    /\ mem' = [mem EXCEPT ![q] = [Blank EXCEPT !.target = n, !.name = b,
                                               !.force = force]]
    /\ UNCHANGED <<disk, cas, index, removed, commits, tip, head, stash, lock,
                   edits>>

CleanEntry(x) == [h |-> x.h, parts |-> x.parts, fresh |-> TRUE, staged |-> FALSE,
                  blind |-> FALSE]
CleanIndex(tree) == [f \in DOMAIN tree |-> CleanEntry(tree[f])]

\* Under the lock the index is read again, and the guard looks at every path;
\* nothing is written when an object is missing.  (The guard looks at one path
\* after the other: a write that it misses is one that comes right after it.)
CheckoutCheck(q) ==
    LET tree == commits[mem[q].target]
        F == DOMAIN tree \cup Tracked
    IN /\ pc[q] = "resolved" /\ Unlocked
       /\ IF \/ ~mem[q].force /\ Dirty(tree) # {}
             \/ \E f \in DOMAIN tree : ~Here(tree[f])
          THEN Done(q) /\ UNCHANGED lock
          ELSE /\ lock' = q
               /\ pc' = [pc EXCEPT ![q] = "checked"]
               /\ mem' = [mem EXCEPT ![q].saved = index, ![q].e = Nothing,
                                     ![q].todo = F,
                                     ![q].sure = IF mem[q].force THEN {} ELSE Path]
       /\ UNCHANGED <<disk, cas, index, removed, commits, tip, head, stash, edits,
                      commands>>

\* _materialize_tree: the tree's files are written over whatever is there now,
\* one by one, then those that only the old index tracks are deleted; untracked
\* ones stay.  A file whose parts are not those of its content is deleted, and
\* ends the command.
CheckoutFile(q, f) ==
    LET tree == commits[mem[q].target]
    IN /\ pc[q] = "checked" /\ f \in mem[q].todo
       /\ f \notin DOMAIN tree => mem[q].todo \cap DOMAIN tree = {}
       /\ disk' = [disk EXCEPT ![f] = IF f \in DOMAIN tree /\ Intact(tree[f])
                                      THEN tree[f].h ELSE "none"]
       /\ index' = Stale(index, {f})
       /\ IF f \in DOMAIN tree /\ ~Intact(tree[f])
          THEN DoneWriting(q, {f}) /\ lock' = "none"
          ELSE /\ mem' = [StaleMem({f}) EXCEPT
                            ![q].todo = @ \ {f},
                            ![q].e = IF f \in DOMAIN tree
                                     THEN PutEntry(@, f, CleanEntry(tree[f])) ELSE @]
               /\ UNCHANGED <<pc, lock>>
       /\ UNCHANGED <<cas, removed, commits, tip, head, stash, edits, commands>>

\* The last loop takes the stat each file has now, whoever wrote it last, and
\* saves the index: an entry whose file was written meanwhile is blind.
CheckoutStat(q) ==
    /\ pc[q] = "checked" /\ mem[q].todo = {}
    /\ index' = [f \in DOMAIN mem[q].e |->
                   [mem[q].e[f] EXCEPT !.fresh = disk[f] # "none",
                                       !.blind = ~mem[q].e[f].fresh]]
    /\ removed' = {}
    /\ pc' = [pc EXCEPT ![q] = "statted"]
    /\ UNCHANGED <<disk, cas, commits, tip, head, stash, lock, mem, edits, commands>>

CheckoutHead(q) ==
    /\ pc[q] = "statted"
    /\ head' = [branch |-> mem[q].name,
                at |-> IF mem[q].name = "none" THEN mem[q].target ELSE 0]
    /\ lock' = "none"
    /\ Done(q)
    /\ UNCHANGED <<disk, cas, index, removed, commits, tip, stash, edits, commands>>

\* av restore: only the file, neither HEAD nor the index.
Restore(q, n, f) ==
    /\ Begin(q, "restore")
    /\ n \in DOMAIN commits /\ f \in DOMAIN commits[n] /\ Intact(commits[n][f])
    /\ disk' = [disk EXCEPT ![f] = commits[n][f].h]
    /\ index' = Stale(index, {f})
    /\ mem' = StaleMem({f})
    /\ UNCHANGED <<cas, removed, commits, tip, head, stash, lock, pc, edits>>

-----------------------------------------------------------------------------
(* Stash: no lock *)

\* compute_status: staged is what the flag says, whatever the file holds.
StagedFiles(e) == {f \in DOMAIN e : disk[f] # "none" /\ e[f].staged}
ModifiedFiles(e) == {f \in DOMAIN e : disk[f] # "none" /\ ~e[f].staged /\ ~e[f].fresh}

StashStart(q) ==
    /\ Begin(q, "stash")
    /\ StagedFiles(index) \cup ModifiedFiles(index) # {}
    /\ pc' = [pc EXCEPT ![q] = "stashing"]
    /\ mem' = [mem EXCEPT ![q] =
                 [Holding EXCEPT !.todo = StagedFiles(index) \cup ModifiedFiles(index)]]
    /\ UNCHANGED <<disk, cas, index, removed, commits, tip, head, stash, lock,
                   edits>>

\* A modified file is staged first; a staged one is recorded as it was
\* staged.  Then each file becomes HEAD's, or goes.
CanRevert(f) == disk[f] # "none" /\ (f \in DOMAIN HeadTree => Here(HeadTree[f]))
Reverted(F) ==
    [f \in Path |-> IF f \notin F THEN disk[f]
                    ELSE IF f \in DOMAIN HeadTree THEN Bytes(HeadTree[f]) ELSE "none"]
StashRevert(q) ==
    LET F == mem[q].todo
        M == {f \in F : ~mem[q].e[f].staged}
        E == [f \in F |-> IF f \in M THEN NewEntry(mem[q].e, f, disk[f], TRUE)
                          ELSE mem[q].e[f]]
    IN /\ pc[q] = "stashing"
       /\ \A f \in F : CanRevert(f)
       /\ cas' = cas \cup {Stored(f, disk[f]) : f \in M}
       /\ disk' = Reverted(F)
       /\ index' = Stale(index, F)
       /\ mem' = [StaleMem(F) EXCEPT
            ![q].e = Over(CleanIndex(Restrict(HeadTree, F \cap DOMAIN HeadTree)),
                          Restrict(@, DOMAIN @ \ F)),
            ![q].rec = [f \in F |-> [h |-> E[f].h, parts |-> E[f].parts,
                                     staged |-> f \notin M]]]
       /\ pc' = [pc EXCEPT ![q] = "reverted"]
       /\ UNCHANGED <<removed, commits, tip, head, stash, lock, edits, commands>>

\* The first file that is gone, or whose HEAD object is missing, ends the
\* command: those before it (W) are reverted, and nothing is recorded.
StashFails(q) ==
    LET F == mem[q].todo
    IN /\ pc[q] = "stashing"
       /\ \E f \in F, W \in SUBSET F :
            /\ ~CanRevert(f) /\ \A g \in W : CanRevert(g)
            /\ cas' = cas \cup {Stored(g, disk[g]) : g \in {x \in W \cup {f} :
                                     disk[x] # "none" /\ ~mem[q].e[x].staged}}
            /\ disk' = Reverted(W)
            /\ index' = Stale(index, W)
            /\ DoneWriting(q, W)
       /\ UNCHANGED <<removed, commits, tip, head, stash, lock, edits, commands>>

\* The copy of the index is written back, then the record.
StashRecord(q) ==
    /\ pc[q] = "reverted"
    /\ index' = mem[q].e
    /\ removed' = mem[q].gone
    /\ stash' = Append(stash, mem[q].rec)
    /\ Done(q)
    /\ UNCHANGED <<disk, cas, commits, tip, head, lock, edits, commands>>

\* av stash pop / apply: the record and the index are read, ...
PopStart(q, k, drop) ==
    /\ Begin(q, "pop")
    /\ k \in DOMAIN stash /\ stash[k] # Nothing
    /\ pc' = [pc EXCEPT ![q] = IF drop THEN "popping" ELSE "applying"]
    /\ mem' = [mem EXCEPT ![q] = [Holding EXCEPT !.target = k, !.rec = stash[k]]]
    /\ UNCHANGED <<disk, cas, index, removed, commits, tip, head, stash, lock,
                   edits>>

\* ... the files written over whatever is there, and the index saved.  A file
\* that was not staged gets HEAD's hash with the record's own parts.  A pop
\* removes the record; it has applied one that was dropped meanwhile.  A
\* missing object would end it, but what a record names is never deleted here.
Popped(x, f) ==
    IF x.staged
    THEN [h |-> x.h, parts |-> x.parts, fresh |-> TRUE, staged |-> TRUE,
          blind |-> FALSE]
    ELSE [h |-> IF f \in DOMAIN HeadTree THEN HeadTree[f].h ELSE x.h,
          parts |-> x.parts, fresh |-> FALSE, staged |-> FALSE, blind |-> FALSE]

PopFinish(q) ==
    LET rec == mem[q].rec
        F == DOMAIN rec
    IN /\ pc[q] \in {"popping", "applying"}
       /\ \A f \in F : Here(rec[f])
       /\ disk' = [f \in Path |-> IF f \in F THEN Bytes(rec[f]) ELSE disk[f]]
       /\ index' = Over([f \in F |-> Popped(rec[f], f)], mem[q].e)
       /\ removed' = mem[q].gone
       /\ stash' = IF pc[q] = "popping" THEN [stash EXCEPT ![mem[q].target] = Nothing]
                   ELSE stash
       /\ DoneWriting(q, F)
       /\ UNCHANGED <<cas, commits, tip, head, lock, edits, commands>>

StashDrop(q, k) ==
    /\ Begin(q, "pop")
    /\ k \in DOMAIN stash /\ stash[k] # Nothing
    /\ stash' = [stash EXCEPT ![k] = Nothing]
    /\ UNCHANGED <<disk, cas, index, removed, commits, tip, head, lock, pc, mem,
                   edits>>

\* The process is killed; the operating system drops its lock.
Killed(q) ==
    /\ ~Idle(q)
    /\ lock' = IF lock = q THEN "none" ELSE lock
    /\ Done(q)
    /\ UNCHANGED <<disk, cas, index, removed, commits, tip, head, stash, edits,
                   commands>>

-----------------------------------------------------------------------------
(* Specification: av init, then a first commit of every path on Main *)

WtInit ==
    \E c \in Content :
      /\ disk = [f \in Path |-> c]
      /\ cas = {Stored(f, c) : f \in Path}
      /\ index = CleanIndex([f \in Path |-> [h |-> c, parts |-> PartsOf(f, c)]])
      /\ removed = {}
      /\ commits = <<TreeOf(index)>>
      /\ tip = [b \in {Main} |-> 1]
      /\ head = [branch |-> Main, at |-> 0]
      /\ stash = <<>> /\ lock = "none"
      /\ pc = [q \in Proc |-> "idle"] /\ mem = [q \in Proc |-> Blank]
      /\ edits = 0 /\ commands = [q \in Proc |-> 0]

StagingStep(q) ==
    \/ \E f \in Path : \/ AddStart(q, f) \/ SdkAddStart(q, f)
                       \/ WatchStart(q, f) \/ ScopedStart(q, f)
    \/ StageHash(q) \/ AddMerge(q) \/ SdkAddSave(q) \/ WatchSave(q)
CommitStep(q) ==
    \/ CommitNow(q) \/ SdkCommitLoad(q) \/ CommitCopy(q)
    \/ ScopedCommit(q) \/ ScopedMergeBack(q)
IndexStep(q) ==
    \/ \E f \in Path, cached \in BOOLEAN : Rm(q, f, cached)
    \/ \E F \in SUBSET Path : Unstage(q, F)
    \/ \E b \in Branch : CreateBranch(q, b)
CheckoutStep(q) ==
    \/ \E n \in 1..MaxCommits, b \in Branch \cup {"none"}, force \in BOOLEAN :
          CheckoutStart(q, n, b, force)
    \/ CheckoutCheck(q) \/ CheckoutStat(q) \/ CheckoutHead(q)
    \/ \E f \in Path : CheckoutFile(q, f)
    \/ \E n \in 1..MaxCommits, f \in Path : Restore(q, n, f)
StashStep(q) ==
    \/ StashStart(q) \/ StashRevert(q) \/ StashFails(q) \/ StashRecord(q)
    \/ \E k \in DOMAIN stash, drop \in BOOLEAN : PopStart(q, k, drop)
    \/ PopFinish(q)
    \/ \E k \in DOMAIN stash : StashDrop(q, k)

WtNext ==
    \/ \E f \in Path, c \in Content \cup {"none"} : Edit(f, c)
    \/ \E q \in Proc : \/ StagingStep(q) \/ CommitStep(q) \/ IndexStep(q)
                       \/ CheckoutStep(q) \/ StashStep(q) \/ Killed(q)

WtSpec == WtInit /\ [][WtNext]_wtVars

-----------------------------------------------------------------------------
(* Properties *)

\* status, add, checkout and stash trust the stat: an entry that reads clean
\* names the content the file has, whatever processes edited, staged, shelved
\* and switched in between.  Two exceptions are the code's own: a file that
\* was rewritten between the writing and the stat of a checkout, and an entry
\* whose parts a stash took from another content.
CleanIsTrue ==
    \A f \in Tracked :
        index[f].fresh /\ ~index[f].blind /\ index[f].parts \in {"none", index[f].h}
        => disk[f] = index[f].h

\* The checkout q gets on with its files, and f loses what it held.
Overwrites(q, f) == /\ pc[q] = "checked" /\ mem'[q].todo # mem[q].todo
                    /\ disk'[f] # disk[f] /\ disk[f] # "none"
\* The index that it read took a stat for f that it should not have (CheckoutStat).
Misled(q, f) == f \in DOMAIN mem[q].saved /\ mem[q].saved[f].blind

\* A checkout without --force destroys the only copy of a file's content in
\* two cases alone: the file was written after the guard had looked at it, or
\* the index was blind to an earlier write.  What else it overwrites or
\* deletes is in the object store, however long ago it was staged and whatever
\* other commands have made of the index, the branches and the stash since.
CheckoutKeepsWork ==
    [][\A q \in Proc, f \in Path :
         Overwrites(q, f) /\ f \in mem[q].sure /\ ~Misled(q, f)
         => Stored(f, disk[f]) \in cas]_wtVars

\* README.md:625: "checkout refuses to run if you have uncommitted changes it
\* would overwrite", be they made while it runs.  Not so: a file that a program
\* writes after the guard is overwritten.
CheckoutNeverDestroys ==
    [][\A q \in Proc, f \in Path :
         Overwrites(q, f) /\ ~mem[q].force /\ ~Misled(q, f)
         => Stored(f, disk[f]) \in cas]_wtVars

\* Whatever was staged, unstaged, shelved and committed, the objects a commit
\* names are stored and yield the contents it names.
CommitsRestorable ==
    \A i \in DOMAIN commits : \A f \in DOMAIN commits[i] : Intact(commits[i][f])

\* "av stash pop brings everything back exactly as it was": the record holds
\* the content of every file the stash took away.
StashHoldsWork ==
    [][\A q \in Proc : (pc[q] = "stashing" /\ pc'[q] = "reverted")
         => \A f \in DOMAIN mem'[q].rec : Bytes(mem'[q].rec[f]) = disk[f]]_wtVars

-----------------------------------------------------------------------------
(* The inductive invariant *)

\* What an entry, a tree or a record names is stored: in the form that a file
\* of its path is stored in, and, with parts, as those parts.
Stowed(c, f, x) ==
    /\ Stored(f, x.h) \in c
    /\ x.parts # "none" => f \in Split /\ <<x.parts, "parts">> \in c

\* An index over the files d and the objects c: a stat that holds tells what
\* the file holds.
Trusty(d, c, e) ==
    \A f \in DOMAIN e :
        /\ f \in Path /\ e[f] \in Entry /\ Stowed(c, f, e[f])
        /\ e[f].fresh /\ ~e[f].blind => d[f] = Bytes(e[f])
Recorded(c, t) == \A f \in DOMAIN t : Stowed(c, f, t[f])

FileTree == UNION {[D -> TreeEntry] : D \in SUBSET Path}
Shelf == UNION {[D -> StashEntry] : D \in SUBSET Path}
AtFile == Staging \cup {"hashed", "sdkHashed", "watchHashed", "scopedHashed"}

\* The file f can be overwritten: the index s that the guard read still names
\* its content, or there is a stored content or none at all.
Spared(d, c, s, f) == IF f \in DOMAIN s THEN s[f].fresh
                      ELSE d[f] = "none" \/ Stored(f, d[f]) \in c

\* What a process at step p keeps in its memory m; n commits are there.
Remembers(p, m, d, c, n) ==
    /\ DOMAIN m = DOMAIN Blank
    /\ Trusty(d, c, m.e) /\ Trusty(d, c, m.saved)
    /\ m.st \in BOOLEAN
    /\ p \in AtFile => m.file \in Path
    /\ p \in AtFile \ Staging => m.file \in DOMAIN m.e
    /\ p \in {"resolved", "checked", "statted"} =>
           m.target \in 1 .. n /\ m.name \in Branch \cup {"none"}
    /\ p = "checked" => /\ \A f \in DOMAIN m.e : ~m.e[f].blind
                        /\ m.todo \subseteq Path
                        /\ \A f \in m.sure \cap m.todo : Spared(d, c, m.saved, f)
    /\ p = "stashing" => m.todo \subseteq DOMAIN m.e
    /\ p \in {"reverted", "popping", "applying"} => m.rec \in Shelf /\ Recorded(c, m.rec)

WorkTreeInv ==
    /\ disk \in [Path -> Piece]
    /\ Trusty(disk, cas, index)
    /\ commits \in Seq(FileTree) /\ \A i \in DOMAIN commits : Recorded(cas, commits[i])
    /\ stash \in Seq(Shelf) /\ \A i \in DOMAIN stash : Recorded(cas, stash[i])
    /\ \A b \in DOMAIN tip : tip[b] \in DOMAIN commits
    /\ DOMAIN head = {"branch", "at"} /\ head.at \in {0} \cup DOMAIN commits
    /\ DOMAIN pc = Proc /\ DOMAIN mem = Proc
    /\ \A q \in Proc : Remembers(pc[q], mem[q], disk, cas, Len(commits))

\* No process unstages or pops; then parts are the parts of the content an entry
\* names, for the paths that have parts: in the index, its copies and the commits.
NeverBack == \A q \in Proc : Does[q] \cap {"unstage", "pop"} = {}
Aligned(e) == \A f \in DOMAIN e : e[f].parts = PartsOf(f, e[f].h)
AlignedInv ==
    /\ Aligned(index)
    /\ \A i \in DOMAIN commits : Aligned(commits[i])
    /\ \A q \in Proc : /\ pc[q] \notin {"popping", "applying"}
                       /\ Aligned(mem[q].e) /\ Aligned(mem[q].saved)
=============================================================================
