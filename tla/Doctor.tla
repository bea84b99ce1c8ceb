-------------------------------- MODULE Doctor --------------------------------
(***************************************************************************)
(* `av doctor --fix` (src/python/av_cli/cmd_maintenance.py): it reads the  *)
(* index once, the push queue once and the directory once, repairs what    *)
(* looks broken and takes no lock, while other commands of the repository  *)
(* publish objects, stage files, commit and push.                          *)
(***************************************************************************)
EXTENDS Naturals, FiniteSets

CONSTANTS
    Artifact,              \* artifacts, each with one content
    ObjectsOf,             \* [Artifact -> set of objects]: the objects its entry needs
    Whole,             \* [Artifact -> object]: the hash in its pointer file
    MaxQueued, MaxFaults \* bounds

Object == UNION {ObjectsOf[p] \union {Whole[p]} : p \in Artifact}
CommitId == 1..MaxQueued

Pusher == {"push", "doctor", "merge"}   \* who drains the queue: av push, doctor, a merge

VARIABLES
    tracked,        \* paths .av/index has an entry with a pointer for
    relinked,       \* those of them whose entry was rebuilt from the pointer file
    pointers,       \* paths with an .av-pointer file in the working tree
    local,          \* .av/objects
    remote,         \* objects the registry has
    temps,          \* objects a command is publishing: *.tmp.* files under .av
    made,           \* the commits whose file was written
    moved,          \* those a branch was moved to
    commitFiles,    \* commit files in .av/commits
    pushQueue,      \* .av/pending_push
    unrenamed,      \* the other *.tmp.* files: of commit files and of the queue
    committing,     \* the commit that runs, under the lock: [pc, id, queue]
    pusher,         \* [Pusher -> [pc, taken, parents, queue]]
    delivered,      \* commits the registry has
    doctor,         \* [pc, index, rebuilt, queue, temps, unrenamed]: what it has read
    overwritten,    \* commits queued after a command had read the queue that it wrote back, unlocked
    superseded,     \* parents a merge that landed took out of the queue
    faults

indexVars == <<tracked, relinked, pointers>>
objectVars == <<local, remote, temps>>
commitVars == <<made, moved, commitFiles, committing>>
queueVars == <<pushQueue, pusher, delivered, overwritten, superseded>>
doctorVars == <<indexVars, objectVars, commitVars, queueVars, unrenamed, doctor, faults>>

-----------------------------------------------------------------------------
Away == [pc |-> "away", index |-> {}, rebuilt |-> {}, queue |-> {}, temps |-> {}, unrenamed |-> {}]
NoCommand == [pc |-> "away", id |-> 0, queue |-> {}]
NoPush == [pc |-> "away", taken |-> {}, parents |-> {}, queue |-> {}]

DoctorInit ==
    /\ tracked = {} /\ relinked = {} /\ pointers = {} /\ local = {} /\ remote = {} /\ temps = {}
    /\ made = {} /\ moved = {} /\ commitFiles = {} /\ committing = NoCommand
    /\ pushQueue = {} /\ pusher = [q \in Pusher |-> NoPush] /\ delivered = {}
    /\ overwritten = {} /\ superseded = {} /\ unrenamed = {} /\ doctor = Away /\ faults = 0

(* An entry restores from its layers or chunks, or from its whole object; one *)
(* rebuilt from a pointer file knows only the whole object.                   *)
Needs(p) == IF p \in relinked THEN {Whole[p]} ELSE ObjectsOf[p]

-----------------------------------------------------------------------------
(* The other commands. An object is written to a temp file and renamed, and   *)
(* the entry is saved when all the parts are there; the pointer file is       *)
(* written with it.                                                           *)
BeginPublish(o) ==
    /\ o \notin local \union temps
    /\ temps' = temps \union {o}
    /\ UNCHANGED <<indexVars, local, remote, commitVars, queueVars, unrenamed, doctor, faults>>
EndPublish(o) ==
    /\ o \in temps
    /\ temps' = temps \ {o} /\ local' = local \union {o}
    /\ UNCHANGED <<indexVars, remote, commitVars, queueVars, unrenamed, doctor, faults>>
SaveEntry(p) ==
    /\ p \notin tracked \/ p \in relinked
    /\ ObjectsOf[p] \subseteq local
    /\ tracked' = tracked \union {p} /\ relinked' = relinked \ {p}
    /\ pointers' = pointers \union {p}
    /\ UNCHANGED <<objectVars, commitVars, queueVars, unrenamed, doctor, faults>>

(* A commit, under the lock of the repository: it writes its file, queues     *)
(* itself and moves its branch. A file is written to a temp file, which is    *)
(* renamed if it is still there. queue.lock is held from the read of the      *)
(* queue to its write, by a commit and by who removes what was delivered.     *)
QueueLocked == committing.pc = "write" \/ \E q \in Pusher : pusher[q].pc = "write"
Happens == faults < MaxFaults /\ faults' = faults + 1
Elsewhere == UNCHANGED <<indexVars, objectVars, doctor, faults>>
ElsewhereQueue == UNCHANGED <<pusher, delivered, overwritten, superseded>> /\ Elsewhere

BeginCommit(c) ==
    /\ committing.pc = "away" /\ tracked # {}
    /\ c \notin made /\ 1..(c - 1) \subseteq made
    /\ committing' = [pc |-> "file", id |-> c, queue |-> {}]
    /\ unrenamed' = unrenamed \union {<<c, "file">>}
    /\ UNCHANGED <<made, moved, commitFiles, pushQueue>> /\ ElsewhereQueue
StoreCommit ==
    /\ committing.pc = "file" /\ <<committing.id, "file">> \in unrenamed
    /\ made' = made \union {committing.id} /\ commitFiles' = commitFiles \union {committing.id}
    /\ unrenamed' = unrenamed \ {<<committing.id, "file">>}
    /\ committing' = [committing EXCEPT !.pc = "queue"]
    /\ UNCHANGED <<moved, pushQueue>> /\ ElsewhereQueue
ReadToQueue ==
    /\ committing.pc = "queue" /\ ~QueueLocked
    /\ committing' = [committing EXCEPT !.pc = "write", !.queue = pushQueue]
    /\ unrenamed' = unrenamed \union {<<committing.id, "queue">>}
    /\ UNCHANGED <<made, moved, commitFiles, pushQueue>> /\ ElsewhereQueue
QueueCommit ==
    /\ committing.pc = "write" /\ <<committing.id, "queue">> \in unrenamed
    /\ pushQueue' = committing.queue \union {committing.id}
    /\ unrenamed' = unrenamed \ {<<committing.id, "queue">>}
    /\ committing' = [committing EXCEPT !.pc = "ref"]
    /\ UNCHANGED <<made, moved, commitFiles>> /\ ElsewhereQueue
MoveRef(ps) ==
    /\ committing.pc = "ref" /\ ps \subseteq moved
    /\ ps # {} => pusher["merge"].pc = "away"
    /\ moved' = moved \union {committing.id} /\ committing' = NoCommand
    /\ pusher' = IF ps = {} THEN pusher ELSE [pusher EXCEPT !["merge"] =
                    [NoPush EXCEPT !.pc = "land", !.taken = {committing.id}, !.parents = ps]]
    /\ UNCHANGED <<made, commitFiles, pushQueue, delivered, overwritten, superseded, unrenamed>> /\ Elsewhere

(* The rename finds no temp file; or the command is killed, and the temp file *)
(* stays.                                                                     *)
Swept == \/ committing.pc = "file" /\ <<committing.id, "file">> \notin unrenamed
         \/ committing.pc = "write" /\ <<committing.id, "queue">> \notin unrenamed
CommitFails ==
    /\ committing.pc # "away"
    /\ \/ Swept /\ faults' = faults
       \/ Happens
    /\ committing' = NoCommand
    /\ UNCHANGED <<indexVars, objectVars, made, moved, commitFiles, queueVars, unrenamed, doctor>>

(* flush_pending_push: what the registry took, and what has no commit file any*)
(* more, then leaves the queue. doctor flushes once, where it retries.        *)
Upload == remote \union (local \intersect UNION {Needs(p) : p \in tracked})
Drained(q, pc) == IF q = "doctor" THEN [doctor EXCEPT !.pc = pc] ELSE doctor
Deliver(q) ==
    /\ q \in {"push", "doctor"} /\ pusher[q].pc = "away" /\ pushQueue # {}
    /\ q = "doctor" => doctor.pc = "flush"
    /\ \E took \in SUBSET (pushQueue \intersect commitFiles) :
          /\ delivered' = delivered \union took
          /\ pusher' = [pusher EXCEPT ![q] =
                [NoPush EXCEPT !.pc = "remove", !.taken = took \union (pushQueue \ commitFiles)]]
    /\ remote' = Upload /\ doctor' = Drained(q, "flushing")
    /\ UNCHANGED <<indexVars, local, temps, commitVars, pushQueue, overwritten, superseded, unrenamed, faults>>

(* A merge that landed takes its parents out of the queue first, reading and  *)
(* writing it without queue.lock.                                             *)
LandMerge ==
    /\ pusher["merge"].pc = "land"
    /\ delivered' = delivered \union pusher["merge"].taken
    /\ pusher' = [pusher EXCEPT !["merge"] = [@ EXCEPT !.pc = "rewrite", !.queue = pushQueue]]
    /\ UNCHANGED <<indexVars, objectVars, commitVars, pushQueue, overwritten, superseded, unrenamed, doctor, faults>>
DropParents ==
    LET m == pusher["merge"]
    IN  /\ m.pc = "rewrite"
        /\ \/ /\ m.queue \intersect m.parents # {}
              /\ pushQueue' = m.queue \ m.parents
              /\ superseded' = superseded \union m.parents
              /\ overwritten' = overwritten \union (pushQueue \ m.queue)
           \/ /\ m.queue \intersect m.parents = {}
              /\ UNCHANGED <<pushQueue, superseded, overwritten>>
        /\ pusher' = [pusher EXCEPT !["merge"].pc = "remove"]
        /\ UNCHANGED <<indexVars, objectVars, commitVars, delivered, unrenamed, doctor, faults>>

(* remove_pending_push, under queue.lock.                                     *)
ReadToRemove(q) ==
    /\ pusher[q].pc = "remove" /\ ~QueueLocked
    /\ pusher' = [pusher EXCEPT ![q] = [@ EXCEPT !.pc = "write", !.queue = pushQueue]]
    /\ unrenamed' = unrenamed \union {<<0, q>>}
    /\ UNCHANGED <<commitVars, pushQueue, delivered, overwritten, superseded>> /\ Elsewhere
RemoveDelivered(q) ==
    /\ pusher[q].pc = "write" /\ <<0, q>> \in unrenamed
    /\ pushQueue' = pusher[q].queue \ pusher[q].taken
    /\ pusher' = [pusher EXCEPT ![q] = NoPush]
    /\ unrenamed' = unrenamed \ {<<0, q>>} /\ doctor' = Drained(q, "list")
    /\ UNCHANGED <<indexVars, objectVars, commitVars, delivered, overwritten, superseded, faults>>
PushFails(q) ==
    /\ pusher[q].pc # "away"
    /\ \/ pusher[q].pc = "write" /\ <<0, q>> \notin unrenamed /\ faults' = faults
       \/ Happens
    /\ pusher' = [pusher EXCEPT ![q] = NoPush]
    /\ doctor' = IF q = "doctor" THEN Away ELSE doctor
    /\ UNCHANGED <<indexVars, objectVars, commitVars, pushQueue, delivered, overwritten, superseded, unrenamed>>

(* What happens to a repository: an object or a commit file is lost, an entry *)
(* goes while its pointer file stays.                                         *)
Fault ==
    /\ Happens
    /\ \/ \E o \in local : local' = local \ {o} /\ UNCHANGED <<tracked, commitFiles>>
       \/ \E p \in tracked : tracked' = tracked \ {p} /\ UNCHANGED <<local, commitFiles>>
       \/ \E c \in commitFiles : commitFiles' = commitFiles \ {c} /\ UNCHANGED <<tracked, local>>
    /\ UNCHANGED <<relinked, pointers, remote, temps, made, moved, committing, queueVars, unrenamed, doctor>>

-----------------------------------------------------------------------------
(* doctor --fix. It loads the index; the dry run reads and changes nothing.   *)
StartDoctor ==
    /\ doctor.pc = "away"
    /\ doctor' = [Away EXCEPT !.pc = "orphans", !.index = tracked, !.rebuilt = relinked]
    /\ UNCHANGED <<indexVars, objectVars, commitVars, queueVars, unrenamed, faults>>

(* Entries whose objects are missing: download what the registry still has.   *)
NeedsThen(p) == IF p \in doctor.rebuilt THEN {Whole[p]} ELSE ObjectsOf[p]
RepairOrphans ==
    /\ doctor.pc = "orphans"
    /\ LET orphaned == {p \in doctor.index : NeedsThen(p) \ local # {}}
           lost == UNION {NeedsThen(p) \ local : p \in orphaned}
       IN \E got \in SUBSET (lost \intersect remote) : local' = local \union got
    /\ doctor' = [doctor EXCEPT !.pc = "pointers"]
    /\ UNCHANGED <<indexVars, remote, temps, commitVars, queueVars, unrenamed, faults>>

(* A pointer file without an entry: the object it names, here or downloaded,  *)
(* becomes a whole-file entry, and the index as it was read is saved with it. *)
RelinkPointer(p) ==
    /\ doctor.pc = "pointers"
    /\ p \in pointers \ doctor.index
    /\ Whole[p] \in local \union remote
    /\ local' = local \union {Whole[p]}
    /\ doctor' = [doctor EXCEPT !.index = @ \union {p}, !.rebuilt = @ \union {p}]
    /\ tracked' = doctor'.index /\ relinked' = doctor'.rebuilt
    /\ UNCHANGED <<pointers, remote, temps, commitVars, queueVars, unrenamed, faults>>

ReadQueue ==
    /\ doctor.pc = "pointers"
    /\ doctor' = [doctor EXCEPT !.pc = "queue", !.queue = pushQueue]
    /\ UNCHANGED <<indexVars, objectVars, commitVars, queueVars, unrenamed, faults>>

(* Entries whose commit file is gone are cleared, by saving the others as they*)
(* were read, without queue.lock. The variant clears the queue.               *)
KeptNone(q) == {}
Kept(q) == q \intersect commitFiles
PruneQueue ==
    /\ doctor.pc = "queue"
    /\ \/ /\ doctor.queue \subseteq commitFiles
          /\ UNCHANGED <<pushQueue, overwritten>>
       \/ /\ ~(doctor.queue \subseteq commitFiles)
          /\ pushQueue' = Kept(doctor.queue)
          /\ overwritten' = overwritten \union (pushQueue \ doctor.queue)
    /\ doctor' = [doctor EXCEPT !.pc = "flush"]
    /\ UNCHANGED <<indexVars, objectVars, commitVars, pusher, delivered, superseded, unrenamed, faults>>

(* The queue is flushed (Deliver), or the registry does not answer.           *)
SkipPush ==
    /\ doctor.pc = "flush"
    /\ doctor' = [doctor EXCEPT !.pc = "list"]
    /\ UNCHANGED <<indexVars, objectVars, commitVars, queueVars, unrenamed, faults>>

(* *.tmp.* files anywhere under .av are listed and then removed, live ones of *)
(* other commands too: objects, commit files and the queue.                   *)
ListTemps ==
    /\ doctor.pc = "list"
    /\ doctor' = [doctor EXCEPT !.pc = "sweep", !.temps = temps, !.unrenamed = unrenamed]
    /\ UNCHANGED <<indexVars, objectVars, commitVars, queueVars, unrenamed, faults>>
SweepTemps ==
    /\ doctor.pc = "sweep"
    /\ temps' = temps \ doctor.temps /\ unrenamed' = unrenamed \ doctor.unrenamed
    /\ doctor' = Away
    /\ UNCHANGED <<indexVars, local, remote, commitVars, queueVars, faults>>
KillDoctor ==
    /\ doctor.pc \notin {"away", "flushing"} /\ Happens
    /\ doctor' = Away
    /\ UNCHANGED <<indexVars, objectVars, commitVars, queueVars, unrenamed>>

DoctorNext ==
    \/ \E o \in Object : BeginPublish(o) \/ EndPublish(o)
    \/ \E p \in Artifact : SaveEntry(p) \/ RelinkPointer(p)
    \/ \E c \in CommitId : BeginCommit(c)
    \/ \E ps \in SUBSET CommitId : MoveRef(ps)
    \/ StoreCommit \/ ReadToQueue \/ QueueCommit \/ CommitFails
    \/ \E q \in Pusher : Deliver(q) \/ ReadToRemove(q) \/ RemoveDelivered(q) \/ PushFails(q)
    \/ LandMerge \/ DropParents \/ Fault
    \/ StartDoctor \/ RepairOrphans \/ ReadQueue \/ PruneQueue \/ SkipPush
    \/ ListTemps \/ SweepTemps \/ KillDoctor

DoctorSpec == DoctorInit /\ [][DoctorNext]_doctorVars

-----------------------------------------------------------------------------
DoctorTypeOK ==
    /\ tracked \union relinked \union pointers \subseteq Artifact
    /\ local \union remote \union temps \subseteq Object
    /\ commitFiles \union pushQueue \union delivered \union moved \subseteq made
    /\ made \subseteq CommitId
    /\ doctor.pc \in {"away", "orphans", "pointers", "queue", "flush", "flushing", "list", "sweep"}

(* A commit that a branch was moved to, and that was not delivered, is in the *)
(* push queue ("the commit is queued BEFORE its ref moves ... so a process    *)
(* killed at any point never strands it", core.py:1683), whatever doctor      *)
(* clears from the queue, whichever live temp file it sweeps and wherever a   *)
(* command is killed. Excepted are a commit queued between a read of the      *)
(* queue and the write of what was read by a command that does not take       *)
(* queue.lock (doctor, and a merge that landed), and parents of such a merge. *)
MovedStaysQueued ==
    \A c \in (moved \intersect commitFiles) \ delivered :
        c \in pushQueue \union overwritten \union superseded
=============================================================================
