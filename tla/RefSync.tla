-------------------------------- MODULE RefSync --------------------------------
(***************************************************************************)
(* One branch shared by several clones through the registry: `av commit`,  *)
(* `av push`, `av pull` and `av merge` with the pending-push queue         *)
(* (av_cli/core.py, cmd_sync.py, sync.py, merge.py) and the compare-and-   *)
(* swap of the ref on the server (av_server/server.py::update_ref).        *)
(*                                                                         *)
(* A step is one request to the registry, or one critical section of a     *)
(* lock of the clone, or one read or write of an unlocked file that        *)
(* another process of the same clone can come between.  Objects are the    *)
(* business of RegistryStore: an upload that fails is a failed push here.  *)
(***************************************************************************)
EXTENDS CommitGraph

CONSTANTS
    Repo,        \* clones of the project, all on the same branch
    Proc,        \* processes: an `av` command, `av watch`, an SDK script
    Home,        \* Home[p]: the clone in which p runs
    Founder,     \* the clone of `av init`; the others start by fetching
    Start,       \* "empty": the branch has no commit yet; "founded": it has one,
                 \* everywhere; "forked": a commit that another branch delivered,
                 \* with no ref of this name on the registry
    MaxEdits,    \* bound: commits other than merges
    MaxFaults,   \* bound: failures, lost answers and kills in a behaviour
    Faulty       \* what they may strike: "commit", "push", "pull", and "merge", its push included

ASSUME SyncAssumption ==
    /\ Home \in [Proc -> Repo]
    /\ Founder \in Repo
    /\ Start \in {"empty", "founded", "forked"}
    /\ Start # "empty" => MaxCommits >= 1
    /\ MaxEdits \in Nat /\ MaxFaults \in Nat
    /\ Faulty \subseteq {"commit", "push", "merge", "pull"}

VARIABLES
    parents,  \* parents[c]: the parents of commit c
    made,     \* commits made so far: 1 .. made
    stored,   \* registry: DBCommit rows
    ref,      \* registry: the DBRef row of the branch, or None
    wire,     \* update_ref requests the client has given up on, not yet executed
    have,     \* have[r]: the files in .av/commits
    tip,      \* tip[r]: .av/refs/heads/<branch>
    queue,    \* queue[r]: .av/pending_push, in the order the commits were made
    sess,     \* sess[p]: what process p is doing
    faults

registry == <<stored, ref, wire>>
clone == <<have, tip, queue>>
vars == <<parents, made, registry, clone, sess, faults>>

Fault(what) == what \in Faulty /\ faults < MaxFaults /\ faults' = faults + 1
NoFault == faults' = faults

Pc == {"idle", "begin", "flush", "push", "swap", "pushOwn", "swapOwn", "load", "save",
       "dropOwn", "diverged", "merge", "forward"}

(* todo, delivered: the entries of a flush; own, expected: the commit being  *)
(* finalised and its expected_hash; read: a copy of the queue; ours, theirs: *)
(* the tips that a pull or a merge has read.                                 *)
Idle == [pc |-> "idle", todo |-> {}, delivered |-> {}, own |-> None, expected |-> None,
         read |-> {}, ours |-> None, theirs |-> None]

SessionState ==
    [pc : Pc, todo : SUBSET Commit, delivered : SUBSET Commit, own : CommitOrNone,
     expected : CommitOrNone, read : SUBSET Commit, ours : CommitOrNone,
     theirs : CommitOrNone]

Request == [commit : Commit, expected : CommitOrNone]

IsMerge(c) == c # None /\ parents[c].second # None

(* What may go wrong for p now. *)
FaultAt(p) ==
    Fault(CASE IsMerge(sess[p].own) \/ sess[p].pc \in {"diverged", "merge"} -> "merge"
            [] sess[p].pc = "forward" -> "pull"
            [] OTHER -> "push")

Become(p, s) == sess' = [sess EXCEPT ![p] = s]
At(p, pc) == sess[p].pc = pc

Init ==
    LET first == IF Start = "empty" THEN {} ELSE {1}
        root == IF Start = "empty" THEN None ELSE 1
    IN  /\ parents = [c \in Commit |-> NoParents]
        /\ made = IF Start = "empty" THEN 0 ELSE 1
        /\ stored = first
        /\ ref = IF Start = "founded" THEN 1 ELSE None
        /\ wire = {}
        /\ have = [r \in Repo |-> first]
        /\ tip = [r \in Repo |-> root]
        /\ queue = [r \in Repo |-> {}]
        /\ sess = [p \in Proc |-> Idle]
        /\ faults = 0

-----------------------------------------------------------------------------
(* The registry. *)

(* update_ref: SELECT ... FOR UPDATE, compare with expected_hash if one was  *)
(* sent, and assign; and the variant that compares nothing.                  *)
SwapsUnchecked(expected) == TRUE
Swaps(expected) == expected = None \/ ref = expected

(* A request whose client has timed out is still executed. *)
LateSwap ==
    \E w \in wire :
        /\ wire' = wire \ {w}
        /\ ref' = IF Swaps(w.expected) THEN w.commit ELSE ref
        /\ UNCHANGED <<parents, made, stored, clone, sess>> /\ NoFault

-----------------------------------------------------------------------------
(* av commit and the first half of _finalize_commit. *)

(* The commit file, the queue entry and the ref move, under RepoLock.        *)
Persist(p, ps) ==
    LET r == Home[p]
        c == made + 1
    IN  /\ c \in Commit
        /\ made' = c
        /\ parents' = [parents EXCEPT ![c] = ps]
        /\ have' = [have EXCEPT ![r] = @ \cup {c}]
        /\ queue' = [queue EXCEPT ![r] = @ \cup {c}]

Edits == Cardinality({c \in 1 .. made : ~IsMerge(c)})

(* commit_staged: the parent is the tip read under the same lock.  A commit  *)
(* with deferred upload, or without a registry, ends here.                   *)
CommitStaged(p) ==
    LET r == Home[p]
    IN  /\ At(p, "idle")
        /\ Edits < MaxEdits
        /\ tip[r] = None => r = Founder
        /\ Persist(p, [first |-> tip[r], second |-> None])
        /\ tip' = [tip EXCEPT ![r] = made']
        /\ \/ Become(p, [Idle EXCEPT !.pc = "begin", !.own = made'])
           \/ sess' = sess
        /\ UNCHANGED registry /\ NoFault

(* Killed inside the critical section, after the queue was written; and the  *)
(* variant that writes the queue before the commit file.                     *)
CommitKilledQueueFirst(p) ==
    LET r == Home[p]
    IN  /\ At(p, "idle")
        /\ Edits < MaxEdits
        /\ made < MaxCommits /\ made' = made + 1
        /\ parents' = [parents EXCEPT ![made'] = [first |-> tip[r], second |-> None]]
        /\ queue' = [queue EXCEPT ![r] = @ \cup {made'}]
        /\ have' = have
        /\ UNCHANGED <<tip, registry, sess>> /\ Fault("commit")

CommitKilled(p) ==
    LET r == Home[p]
    IN  /\ At(p, "idle")
        /\ Edits < MaxEdits
        /\ tip[r] = None => r = Founder
        /\ Persist(p, [first |-> tip[r], second |-> None])
        /\ UNCHANGED <<tip, registry, sess>> /\ Fault("commit")

(* expected_parent: a merge whose first parent is still queued expects its   *)
(* second parent.                                                            *)
Expected(q, c) ==
    IF IsMerge(c) /\ parents[c].first \in q THEN parents[c].second ELSE parents[c].first

ExpectParent(p) ==
    LET own == sess[p].own
    IN  /\ At(p, "begin")
        /\ Become(p, [sess[p] EXCEPT !.pc = "flush", !.expected = Expected(queue[Home[p]], own)])
        /\ UNCHANGED <<parents, made, registry, clone>> /\ NoFault

-----------------------------------------------------------------------------
(* flush_pending_push. *)

(* The entries ahead of the commit being finalised, which comes after them;  *)
(* and the variant that leaves them for later.                               *)
FlushNothing(p) ==
    /\ At(p, "flush")
    /\ Become(p, [sess[p] EXCEPT !.pc = "push"])
    /\ UNCHANGED <<parents, made, registry, clone>> /\ NoFault

FlushFirst(p) ==
    /\ At(p, "flush")
    /\ Become(p, [sess[p] EXCEPT !.pc = "push", !.todo = queue[Home[p]] \ {sess[p].own}])
    /\ UNCHANGED <<parents, made, registry, clone>> /\ NoFault

(* `av push`: the same flush with no commit of its own. *)
StartPush(p) ==
    /\ At(p, "idle")
    /\ queue[Home[p]] # {}
    /\ Become(p, [Idle EXCEPT !.pc = "push", !.todo = queue[Home[p]]])
    /\ UNCHANGED <<parents, made, registry, clone>> /\ NoFault

(* The first entry that is left. *)
IsNext(p, c) == c \in sess[p].todo /\ \A d \in sess[p].todo : c <= d

(* The loop goes on with the next entry, delivered or not. *)
Advance(p, c, done) ==
    Become(p, [sess[p] EXCEPT !.pc = "push", !.todo = @ \ {c},
                              !.delivered = IF done THEN @ \cup {c} ELSE @])

(* upload_commit_objects and push_commit of one entry; both 201 and 409 are  *)
(* success.  A failed request may have stored the commit.                    *)
PushEntry(p) ==
    /\ At(p, "push")
    /\ \E c \in Commit :
          /\ IsNext(p, c)
          /\ \/ /\ stored' = stored \cup {c}
                /\ Become(p, [sess[p] EXCEPT !.pc = "swap"]) /\ NoFault
             \/ /\ stored' \in {stored, stored \cup {c}}
                /\ Advance(p, c, FALSE) /\ FaultAt(p)
    /\ UNCHANGED <<parents, made, ref, wire, clone>>

(* update_ref of one entry.  A lost race counts as delivered if the current  *)
(* ref contains the commit, by the files of this clone; and the variants     *)
(* that keep and that drop every loser.                                      *)
ContainsNever(p, c) == FALSE
ContainsAlways(p, c) == TRUE
Contains(p, c) == ref # None /\ IsAncestor(parents, have[Home[p]], c, ref)

SwapEntry(p) ==
    /\ At(p, "swap")
    /\ \E c \in Commit :
          LET expected == parents[c].first
          IN  /\ IsNext(p, c)
              /\ \/ /\ Advance(p, c, Swaps(expected) \/ Contains(p, c))
                    /\ ref' = IF Swaps(expected) THEN c ELSE ref
                    /\ wire' = wire /\ NoFault
                 \/ /\ Advance(p, c, FALSE)
                    /\ wire' = wire \cup {[commit |-> c, expected |-> expected]}
                    /\ ref' = ref /\ FaultAt(p)
    /\ UNCHANGED <<parents, made, stored, clone>>

(* A rejected token, or a registry that does not answer, ends the flush;     *)
(* what was delivered leaves the queue.                                      *)
RejectToken(p) ==
    /\ At(p, "push") /\ sess[p].todo # {}
    /\ Become(p, [sess[p] EXCEPT !.todo = {}])
    /\ UNCHANGED <<parents, made, registry, clone>> /\ FaultAt(p)

(* remove_pending_push, under queue.lock. *)
RemoveDelivered(p) ==
    LET s == sess[p]
    IN  /\ At(p, "push") /\ s.todo = {}
        /\ queue' = [queue EXCEPT ![Home[p]] = @ \ s.delivered]
        /\ Become(p, IF s.own = None THEN Idle
                     ELSE [s EXCEPT !.pc = "pushOwn", !.delivered = {}])
        /\ UNCHANGED <<parents, made, registry, have, tip>> /\ NoFault

-----------------------------------------------------------------------------
(* The second half of _finalize_commit: the new commit itself. *)

(* queue_pending_push on every failure path: once per commit. *)
KeepQueued(p) ==
    /\ queue' = [queue EXCEPT ![Home[p]] = @ \cup {sess[p].own}]
    /\ Become(p, Idle)

PushOwn(p) ==
    LET c == sess[p].own
    IN  /\ At(p, "pushOwn")
        /\ \/ /\ stored' = stored \cup {c} /\ queue' = queue
              /\ Become(p, [sess[p] EXCEPT !.pc = "swapOwn"]) /\ NoFault
           \/ /\ stored' \in {stored, stored \cup {c}}
              /\ KeepQueued(p) /\ FaultAt(p)
        /\ UNCHANGED <<parents, made, ref, wire, have, tip>>

SwapOwn(p) ==
    LET s == sess[p]
    IN  /\ At(p, "swapOwn")
        /\ \/ /\ Swaps(s.expected)
              /\ ref' = s.own /\ wire' = wire /\ queue' = queue
              /\ Become(p, [s EXCEPT !.pc = IF IsMerge(s.own) THEN "load" ELSE "dropOwn"])
              /\ NoFault
           \/ /\ ~Swaps(s.expected)
              /\ KeepQueued(p) /\ UNCHANGED <<ref, wire>> /\ NoFault
           \/ /\ wire' = wire \cup {[commit |-> s.own, expected |-> s.expected]}
              /\ KeepQueued(p) /\ ref' = ref /\ FaultAt(p)
        /\ UNCHANGED <<parents, made, stored, have, tip>>

(* After a merge its parents leave the queue: read, filter and write,        *)
(* without queue.lock.                                                       *)
LoadQueue(p) ==
    LET s == sess[p]
        q == queue[Home[p]]
    IN  /\ At(p, "load")
        /\ Become(p, IF q \cap ParentsOf(parents[s.own]) = {}
                     THEN [s EXCEPT !.pc = "dropOwn"]
                     ELSE [s EXCEPT !.pc = "save", !.read = q])
        /\ UNCHANGED <<parents, made, registry, clone>> /\ NoFault

SaveQueue(p) ==
    LET s == sess[p]
    IN  /\ At(p, "save")
        /\ queue' = [queue EXCEPT ![Home[p]] = s.read \ ParentsOf(parents[s.own])]
        /\ Become(p, [s EXCEPT !.pc = "dropOwn", !.read = {}])
        /\ UNCHANGED <<parents, made, registry, have, tip>> /\ NoFault

DropOwn(p) ==
    /\ At(p, "dropOwn")
    /\ queue' = [queue EXCEPT ![Home[p]] = @ \ {sess[p].own}]
    /\ Become(p, Idle)
    /\ UNCHANGED <<parents, made, registry, have, tip>> /\ NoFault

-----------------------------------------------------------------------------
(* av pull. *)

(* The walk along first parents met the local tip or a commit file.          *)
JoinFound(p) ==
    LET new == Fetched(parents, have[Home[p]], tip[Home[p]], ref)
    IN  new = {} \/ \E c \in new : parents[c].first \notin new \cup {None}

(* Only the ancestors of the remote tip are fast-forwarded; and the variant  *)
(* that is content with having joined the local history.                     *)
CanForwardJoined(p, files) == tip[Home[p]] = None \/ JoinFound(p)
CanForward(p, files) ==
    \/ tip[Home[p]] = None
    \/ JoinFound(p) /\ IsAncestor(parents, files, tip[Home[p]], ref)

(* The tips are read, the remote chain is fetched, and either the branch can *)
(* be fast-forwarded or the command ends with "diverged".                    *)
PullFetch(p) ==
    LET r == Home[p]
        new == Fetched(parents, have[r], tip[r], ref)
    IN  /\ At(p, "idle")
        /\ ref \notin {None, tip[r]}
        /\ new \subseteq stored   \* otherwise "Remote history is broken"
        /\ have' = [have EXCEPT ![r] = @ \cup new]
        /\ Become(p, [Idle EXCEPT
              !.pc = IF CanForward(p, have'[r]) THEN "forward" ELSE "diverged",
              !.theirs = ref])
        /\ UNCHANGED <<parents, made, registry, tip, queue>> /\ NoFault

(* Killed on the way: the newest commits have been stored, their parents not. *)
PullKilled(p) ==
    LET r == Home[p]
        new == Fetched(parents, have[r], tip[r], ref)
    IN  /\ At(p, "idle")
        /\ ref \notin {None, tip[r]}
        /\ new \subseteq stored
        /\ \E c \in new : have' = [have EXCEPT ![r] = @ \cup {d \in new : d >= c}]
        /\ UNCHANGED <<parents, made, registry, tip, queue, sess>> /\ Fault("pull")

(* The working tree is materialised and the ref file written, without the    *)
(* lock and without reading the tip again.                                   *)
FastForward(p) ==
    /\ At(p, "forward")
    /\ tip' = [tip EXCEPT ![Home[p]] = sess[p].theirs]
    /\ Become(p, Idle)
    /\ UNCHANGED <<parents, made, registry, have, queue>> /\ NoFault

-----------------------------------------------------------------------------
(* av merge <remote tip>, which is what the diverged pull asks for. *)

StartMerge(p) ==
    LET r == Home[p]
        s == sess[p]
        base == MergeBase(parents, have[r], tip[r], s.theirs)
    IN  /\ At(p, "diverged")
        /\ Become(p, IF s.theirs = tip[r] \/ base = s.theirs THEN Idle
                     ELSE [s EXCEPT !.pc = IF base = tip[r] THEN "forward" ELSE "merge",
                                    !.ours = tip[r]])
        /\ UNCHANGED <<parents, made, registry, clone>> /\ NoFault

(* The two-parent commit: the lock is taken now, the tip was read before.    *)
MergeCommit(p) ==
    LET s == sess[p]
    IN  /\ At(p, "merge")
        /\ Persist(p, [first |-> s.ours, second |-> s.theirs])
        /\ tip' = [tip EXCEPT ![Home[p]] = made']
        /\ Become(p, [Idle EXCEPT !.pc = "begin", !.own = made'])
        /\ UNCHANGED registry /\ NoFault

-----------------------------------------------------------------------------
(* The process is killed, between any two steps. *)
Kill(p) ==
    /\ ~At(p, "idle")
    /\ Become(p, Idle)
    /\ UNCHANGED <<parents, made, registry, clone>> /\ FaultAt(p)

(* A push or a merge that has begun. *)
Continue(p) ==
    \/ ExpectParent(p) \/ FlushFirst(p) \/ PushEntry(p) \/ SwapEntry(p) \/ RemoveDelivered(p)
    \/ PushOwn(p) \/ SwapOwn(p) \/ LoadQueue(p) \/ SaveQueue(p) \/ DropOwn(p)
    \/ FastForward(p) \/ StartMerge(p) \/ MergeCommit(p)

Next ==
    \/ \E p \in Proc :
          \/ CommitStaged(p) \/ CommitKilled(p) \/ StartPush(p) \/ PullFetch(p)
          \/ PullKilled(p) \/ Continue(p) \/ RejectToken(p) \/ Kill(p)
    \/ LateSwap

Spec == Init /\ [][Next]_vars

(* A command that has begun runs to its end.  A user with a queue pushes     *)
(* again and again, and one whose branch is not the registry's pulls, and    *)
(* merges if that is what the pull asks for.  No fairness for commits,       *)
(* faults and late requests.                                                 *)
FairSpec ==
    /\ Spec
    /\ \A p \in Proc : WF_vars(Continue(p)) /\ SF_vars(StartPush(p)) /\ SF_vars(PullFetch(p))
-----------------------------------------------------------------------------
(* Properties. *)

History(h) == Reach(parents, Commit, h)

(* Every variable stays in its domain, and a commit file is on disk before   *)
(* the queue names it: flush_pending_push drops an entry without a file.     *)
TypeOK ==
    /\ parents \in [Commit -> Parentage]
    /\ made \in CommitOrNone
    /\ stored \subseteq Commit /\ ref \in CommitOrNone /\ wire \subseteq Request
    /\ have \in [Repo -> SUBSET Commit]
    /\ tip \in [Repo -> CommitOrNone]
    /\ queue \in [Repo -> SUBSET Commit]
    /\ \A r \in Repo : queue[r] \subseteq have[r]
    /\ sess \in [Proc -> SessionState]
    /\ faults \in 0 .. MaxFaults

(* The registry's branch never loses a commit: no retry, late request, merge *)
(* or race moves the ref off its history, except a commit without parents,   *)
(* which is sent without an expected_hash.                                   *)
RefAdvances ==
    [][ref' # ref => \/ ref = None
                     \/ parents'[ref'] = NoParents
                     \/ ref \in ParentsOf(parents'[ref'])]_vars

(* _finalize_commit: a commit leaves the queue only once delivered, so a     *)
(* process killed at any point never strands it.                             *)
NeverStranded ==
    \A r \in Repo : \A c \in History(tip[r]) \ queue[r] :
        tip[r] # None => c \in stored /\ c \in History(ref)

(* Every commit the registry's branch names can be fetched: no clone finds   *)
(* "Remote history is broken".                                               *)
RemoteHistoryComplete == ref # None => History(ref) \subseteq stored

(* No pull, merge or commit makes the local branch forget a commit.          *)
LocalTipAdvances ==
    [][\A r \in Repo : tip'[r] # tip[r] /\ tip[r] # None => tip[r] \in Reach(parents', Commit, tip'[r])]_vars

(* When the commits stop, pushing, pulling and merging delivers every commit *)
(* of every local branch.                                                     *)
BranchesDelivered ==
    <>[](\A r \in Repo : tip[r] # None => History(tip[r]) \cap queue[r] = {})
-----------------------------------------------------------------------------
(* The inductive invariant behind TypeOK and RefAdvances. *)

(* What update_ref may be sent for c: one of its parents, or nothing if it    *)
(* has none.                                                                 *)
RootOrParent(c, expected) ==
    expected \in ParentsOf(parents[c]) \/ (expected = None /\ parents[c] = NoParents)

WellFormed == \A c \in Commit : parents[c].first = None => parents[c] = NoParents

(* Only commits that were made are anywhere. *)
Known ==
    /\ stored \subseteq 1 .. made
    /\ \A r \in Repo : have[r] \subseteq 1 .. made

Requests == \A w \in wire : w.commit \in 1 .. made /\ RootOrParent(w.commit, w.expected)

(* What the local variables of a process in clone r may hold. *)
Sound(s, r) ==
    /\ s.todo \subseteq have[r] /\ s.read \subseteq have[r]
    /\ s.own # None => s.own \in have[r]
    /\ s.pc \in {"begin", "flush", "pushOwn", "swapOwn", "load", "save", "dropOwn"} => s.own # None
    /\ s.pc \in {"flush", "push", "swap", "pushOwn", "swapOwn"} /\ s.own # None =>
          RootOrParent(s.own, s.expected)
    /\ s.pc = "diverged" => tip[r] # None /\ s.theirs # None
    /\ s.pc = "merge" => s.ours # None
    /\ s.pc = "forward" => s.theirs # None

Sessions == \A p \in Proc : Sound(sess[p], Home[p])

SyncInv == TypeOK /\ WellFormed /\ Known /\ Requests /\ Sessions
-----------------------------------------------------------------------------
(* The inductive invariant behind NeverStranded and RemoteHistoryComplete,   *)
(* on a branch that is founded, with one process in each clone and merges    *)
(* that no fault strikes.                                                    *)

(* What a process in clone r has established on the way of its commits to    *)
(* the registry's branch.                                                    *)
Delivers(s, r) ==
    /\ s.delivered \subseteq History(ref)
    /\ 1 \notin s.todo /\ s.own # 1
    /\ s.ours <= made /\ s.theirs <= made
    /\ s.pc \in {"forward", "diverged", "merge"} => History(s.theirs) \subseteq History(ref)
    /\ s.pc = "merge" => History(s.ours) \ queue[r] \subseteq History(ref)
    /\ s.pc \in {"begin", "flush"} => History(s.own) \ queue[r] \subseteq History(ref)
    /\ s.pc = "swap" => \A c \in s.todo : (\A d \in s.todo : c <= d) => c \in stored
    /\ s.pc \in {"flush", "push", "swap", "pushOwn", "swapOwn"} /\ s.own # None =>
          \/ s.expected = parents[s.own].first
          \/ IsMerge(s.own) /\ s.expected = parents[s.own].second
    /\ s.pc \in {"push", "swap"} /\ IsMerge(s.own) =>
          History(parents[s.own].first) \subseteq stored \cup s.todo
    /\ s.pc \in {"pushOwn", "swapOwn"} /\ IsMerge(s.own) =>
          History(parents[s.own].first) \subseteq stored
    /\ s.pc = "swapOwn" => s.own \in stored
    /\ s.pc \in {"load", "save", "dropOwn"} => s.own \in History(ref)
    /\ s.pc = "save" => s.read = queue[r]

(* What is not on the registry's branch is in the queue, but never the root, *)
(* which everyone has.                                                       *)
BranchDelivers(r) ==
    /\ tip[r] \in 1 .. made /\ 1 \notin queue[r]
    /\ History(tip[r]) \ queue[r] \subseteq History(ref)

(* Parents are older than their commit. *)
Descending(ps) == \A c \in Commit : \A d \in ParentsOf(ps[c]) : d < c

DeliveryInv ==
    /\ Descending(parents)
    /\ \A c \in 2 .. made : parents[c].first # None
    /\ ref \in 1 .. made /\ History(ref) \subseteq stored
    /\ \A r \in Repo : BranchDelivers(r)
    /\ \A c \in 1 .. made : History(parents[c].second) \subseteq History(ref)
    /\ \A w \in wire : w.commit \in stored \ {1} /\ w.expected = parents[w.commit].first
    /\ \A p \in Proc : Delivers(sess[p], Home[p])

-----------------------------------------------------------------------------
(* The inductive invariant behind LocalTipAdvances, with one process at a    *)
(* time in each clone.                                                       *)

(* A pull or a merge in clone r that has read the tip moves it forward.      *)
MovesOn(s, r) ==
    /\ s.ours <= made /\ s.theirs <= made
    /\ s.pc = "forward" /\ tip[r] # None => tip[r] \in History(s.theirs)
    /\ s.pc = "merge" => s.ours = tip[r]

TipInv ==
    /\ Descending(parents)
    /\ ref <= made
    /\ \A r \in Repo : tip[r] <= made
    /\ \A p \in Proc : MovesOn(sess[p], Home[p])
=============================================================================
