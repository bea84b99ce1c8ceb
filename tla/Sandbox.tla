------------------------------- MODULE Sandbox -------------------------------
(***************************************************************************)
(* `av sandbox` (src/python/av_cli/cmd_sandbox.py, sandbox/): commands run *)
(* jobs through one of three kinds of driver, ask how they are and cancel  *)
(* them; each then tells the registry what it saw, in a call of its own    *)
(* that may be lost or come late. What a job may touch is the armed tool   *)
(* manifest of its improver; the commands of an action log are run again   *)
(* by the local driver without one, and the registry is not told.          *)
(***************************************************************************)
EXTENDS Naturals, FiniteSets, Sequences

CONSTANTS
    Job, Command,      \* job ids and the commands that run, one at a time each
    DriverOf,          \* [Job -> {"local", "docker", "kubernetes", "slurm"}]
    Wants,             \* [Job -> SUBSET Grant]: what the job's command line asks for
    Grant,             \* rw mounts, the network, the GPU
    ActionLog,         \* the jobs that a replay makes of an action log's commands
    MaxCommands        \* bound

ASSUME SandboxAssumption ==
    /\ Job # {} /\ DriverOf \in [Job -> {"local", "docker", "kubernetes", "slurm"}]
    /\ Wants \in [Job -> SUBSET Grant] /\ MaxCommands \in Nat
    /\ ActionLog \in Seq({j \in Job : DriverOf[j] = "local"})

VARIABLES
    armed,      \* the grants of the manifest on disk
    process,    \* [Job -> [state, code]]: the process, container or pod of a job
    jobRows,    \* [Job -> state]: the registry's rows
    doing,      \* [Command -> [pc, job, state, grants, left]]
    commands,   \* how many commands were started
    succeeded   \* jobs one of whose runs exited with 0

sandboxVars == <<armed, process, jobRows, doing, commands, succeeded>>

-----------------------------------------------------------------------------
NoProcess == [state |-> "none", code |-> 0]
Resting == [pc |-> "idle", job |-> CHOOSE j \in Job : TRUE, state |-> "none", grants |-> {},
            left |-> <<>>]
Running(j) == process[j].state = "running"

SandboxInit ==
    /\ armed \in {{}, Grant}
    /\ process = [j \in Job |-> NoProcess]
    /\ jobRows = [j \in Job |-> "absent"]
    /\ doing = [c \in Command |-> Resting]
    /\ commands = 0 /\ succeeded = {}

StartCommand(c, pc, j, state) ==
    /\ doing[c].pc = "idle" /\ commands < MaxCommands
    /\ commands' = commands + 1
    /\ doing' = [doing EXCEPT ![c] = IF pc = "idle" THEN Resting
                   ELSE [Resting EXCEPT !.pc = pc, !.job = j, !.state = state]]

(* `av tools manifest set`: load, change one field, save; a set that was not  *)
(* there grants nothing (load_manifest).                                      *)
ReadManifest(c) ==
    /\ doing[c].pc = "idle" /\ commands < MaxCommands
    /\ \E g \in Grant :
         doing' = [doing EXCEPT ![c] = [Resting EXCEPT !.pc = "saveManifest",
             !.grants = IF g \in armed THEN armed \ {g} ELSE armed \union {g}]]
    /\ commands' = commands + 1
    /\ UNCHANGED <<armed, process, jobRows, succeeded>>

SaveManifest(c) ==
    /\ doing[c].pc = "saveManifest"
    /\ armed' = doing[c].grants
    /\ doing' = [doing EXCEPT ![c] = Resting]
    /\ UNCHANGED <<process, jobRows, commands, succeeded>>

-----------------------------------------------------------------------------
(* verify_spec_against_manifest: a job asks for no more than the manifest     *)
(* grants.                                                                    *)
Verified(j) == Wants[j] \subseteq armed

(* `av sandbox run`: a violation is reported as a failed job and nothing runs.*)
RunVerify(c, j) ==
    /\ StartCommand(c, "submit", j, "none")
    /\ UNCHANGED <<armed, process, jobRows, succeeded>>

RunStart(c) ==
    /\ doing[c].pc = "submit"
    /\ doing' = [doing EXCEPT ![c] = IF Verified(@.job) THEN [@ EXCEPT !.pc = "submitting"]
                                     ELSE [@ EXCEPT !.pc = "report", !.state = "failed"]]
    /\ UNCHANGED <<armed, process, jobRows, commands, succeeded>>

(* Each driver's submit answers with the state that will be reported.         *)
Answer(c, state) ==
    doing' = [doing EXCEPT ![c] = [@ EXCEPT !.pc = "report", !.state = state]]
Launch(j) == /\ ~Running(j)
             /\ process' = [process EXCEPT ![j] = [state |-> "running", code |-> 0]]

(* The local driver waits for the process it starts.                          *)
SubmitLocal(c, j) ==
    \/ /\ Launch(j)
       /\ doing' = [doing EXCEPT ![c] = [@ EXCEPT !.pc = "wait"]]
    \/ Answer(c, "failed") /\ UNCHANGED process

(* `docker run` fails when a container of that name exists, and counts as     *)
(* failed when it does not answer within a minute, container or not.          *)
SubmitDocker(c, j) ==
    \/ /\ process[j] = NoProcess /\ Launch(j)
       /\ \E answer \in {"running", "failed"} : Answer(c, answer)
    \/ Answer(c, "failed") /\ UNCHANGED process

(* `kubectl apply` leaves a pod of that name as it is and answers the same.   *)
SubmitPod(c, j) ==
    \/ /\ process[j] = NoProcess /\ Launch(j)
       /\ \E answer \in {"running", "failed"} : Answer(c, answer)
    \/ /\ \E answer \in {"failed"} \union {a \in {"running"} : process[j] # NoProcess} :
             Answer(c, answer)
       /\ UNCHANGED process

(* `sbatch` queues another job under the same name.                           *)
SubmitBatch(c, j) ==
    \/ /\ Launch(j)
       /\ \E answer \in {"running", "failed"} : Answer(c, answer)
    \/ Answer(c, "failed") /\ UNCHANGED process

Submit(c) ==
    /\ doing[c].pc = "submitting"
    /\ LET j == doing[c].job
           driver == DriverOf[j]
       IN \/ driver = "local" /\ SubmitLocal(c, j)
          \/ driver = "docker" /\ SubmitDocker(c, j)
          \/ driver = "kubernetes" /\ SubmitPod(c, j)
          \/ driver = "slurm" /\ SubmitBatch(c, j)
    /\ UNCHANGED <<armed, jobRows, commands, succeeded>>

JobExits(j) ==
    /\ Running(j)
    /\ \E code \in {0, 1} :
         /\ process' = [process EXCEPT ![j] = [state |-> "exited", code |-> code]]
         /\ succeeded' = IF code = 0 THEN succeeded \union {j} ELSE succeeded
    /\ UNCHANGED <<armed, jobRows, doing, commands>>

(* What an exit code means to every driver.                                   *)
Outcome(j) == IF process[j].code = 0 THEN "succeeded" ELSE "failed"

(* The local driver answers when the process has ended, or kills it when its  *)
(* time is up.                                                                *)
LocalEnds(c) ==
    /\ doing[c].pc = "wait"
    /\ LET j == doing[c].job IN
       IF Running(j)
       THEN /\ process' = [process EXCEPT ![j] = [state |-> "exited", code |-> 1]]
            /\ doing' = [doing EXCEPT ![c] = [@ EXCEPT !.pc = "report", !.state = "failed"]]
       ELSE /\ doing' = [doing EXCEPT ![c] = [@ EXCEPT !.pc = "report", !.state = Outcome(j)]]
            /\ UNCHANGED process
    /\ UNCHANGED <<armed, jobRows, commands, succeeded>>

(* POST /api/sandbox/jobs: a row that exists is left as it is.                *)
ReportJob(c) ==
    /\ doing[c].pc = "report"
    /\ \E lost \in BOOLEAN :
         jobRows' = IF lost \/ jobRows[doing[c].job] # "absent" THEN jobRows
                 ELSE [jobRows EXCEPT ![doing[c].job] = doing[c].state]
    /\ doing' = [doing EXCEPT ![c] = Resting]
    /\ UNCHANGED <<armed, process, commands, succeeded>>

-----------------------------------------------------------------------------
(* The status of a driver. The local one knows the record of the job's last   *)
(* run, the others ask the process; a job that is not found and a question    *)
(* not answered within 15 seconds are failures. The variant takes a container *)
(* that has exited for a success.                                             *)
SeenLocal(j) ==
    {"failed"} \union {s \in {"succeeded"} :
        IF Running(j) THEN j \in succeeded ELSE process[j] # NoProcess /\ Outcome(j) = s}
SeenContainerAnyExit(j) == IF Running(j) THEN {"running", "failed"}
                           ELSE {"failed"} \union {s \in {"succeeded"} : process[j] # NoProcess}
SeenContainer(j) == IF Running(j) THEN {"running", "failed"}
                    ELSE {"failed"} \union {s \in {Outcome(j)} : process[j] # NoProcess}

(* A pod that was deleted, like one that never was, is a failure.             *)
SeenPod(j) == IF Running(j) THEN {"running", "failed"}
              ELSE {"failed"} \union {s \in {Outcome(j)} : process[j] # NoProcess}

(* squeue first; when the job is not queued, the first record of that name in *)
(* sacct, so a job that ran twice under one name may show its first outcome.  *)
SeenBatch(j) == IF Running(j) THEN {"running", "failed"}
                ELSE {"failed"} \union {s \in {"succeeded"} : j \in succeeded}

Seen(j) == CASE DriverOf[j] = "local" -> SeenLocal(j)
             [] DriverOf[j] = "docker" -> SeenContainer(j)
             [] DriverOf[j] = "kubernetes" -> SeenPod(j)
             [] OTHER -> SeenBatch(j)

AskStatus(c, j) ==
    /\ \E s \in Seen(j) : StartCommand(c, "post", j, s)
    /\ UNCHANGED <<armed, process, jobRows, succeeded>>

(* `docker stop` lets the process end by itself, so its code may be 0; a pod  *)
(* is deleted and a batch job ends as CANCELLED.                              *)
StopContainer(j, code) ==
    /\ process' = [process EXCEPT ![j] = [state |-> "exited", code |-> code]]
    /\ succeeded' = IF code = 0 THEN succeeded \union {j} ELSE succeeded
DeletePod(j) ==
    process' = [process EXCEPT ![j] = NoProcess] /\ UNCHANGED succeeded
Scancel(j) ==
    /\ process' = [process EXCEPT ![j] = [state |-> "exited", code |-> 1]]
    /\ UNCHANGED succeeded
Stopped(j) == \/ DriverOf[j] = "docker" /\ \E code \in {0, 1} : StopContainer(j, code)
              \/ DriverOf[j] = "kubernetes" /\ DeletePod(j)
              \/ DriverOf[j] = "slurm" /\ Scancel(j)

(* `av sandbox cancel`: nothing for the local driver and for a job not seen   *)
(* running; it reports "cancelled" when the driver's command said it did it,  *)
(* which it may not say in time. The variant does not look at the answer.     *)
CancelUnchecked(c, j) ==
    /\ DriverOf[j] # "local" /\ Running(j)
    /\ StartCommand(c, "post", j, "cancelled")
    /\ Stopped(j) \/ UNCHANGED <<process, succeeded>>
    /\ UNCHANGED <<armed, jobRows>>
Cancel(c, j) ==
    /\ DriverOf[j] # "local" /\ Running(j)
    /\ \/ Stopped(j) /\ StartCommand(c, "post", j, "cancelled")
       \/ /\ Stopped(j) \/ UNCHANGED <<process, succeeded>>
          /\ StartCommand(c, "idle", j, "none")
    /\ UNCHANGED <<armed, jobRows>>

(* POST /api/sandbox/jobs/{id}/status: any state over any state, if the row   *)
(* is there.                                                                  *)
PostStatus(c) ==
    /\ doing[c].pc = "post"
    /\ \E lost \in BOOLEAN :
         jobRows' = IF lost \/ jobRows[doing[c].job] = "absent" THEN jobRows
                 ELSE [jobRows EXCEPT ![doing[c].job] = doing[c].state]
    /\ doing' = [doing EXCEPT ![c] = Resting]
    /\ UNCHANGED <<armed, process, commands, succeeded>>

-----------------------------------------------------------------------------
(* `av replay-actions --execute`: the log's commands, one after the other.    *)
ReplayActions(c) ==
    /\ doing[c].pc = "idle" /\ commands < MaxCommands
    /\ doing' = [doing EXCEPT ![c] = [Resting EXCEPT !.pc = "replay", !.left = ActionLog]]
    /\ commands' = commands + 1
    /\ UNCHANGED <<armed, process, jobRows, succeeded>>

ReplayAction(c) ==
    /\ doing[c].pc = "replay" /\ doing[c].left # <<>>
    /\ LET j == Head(doing[c].left)
           rest == [doing[c] EXCEPT !.left = Tail(@)]
       IN  \/ /\ Launch(j)
              /\ doing' = [doing EXCEPT ![c] = [rest EXCEPT !.pc = "replaying", !.job = j]]
           \/ doing' = [doing EXCEPT ![c] = rest] /\ UNCHANGED process
    /\ UNCHANGED <<armed, jobRows, commands, succeeded>>

(* The process ended, or is killed as LocalEnds does: on to the next.         *)
ReplayGoesOn(c) ==
    /\ doing[c].pc = "replaying"
    /\ LET j == doing[c].job IN
       process' = IF Running(j) THEN [process EXCEPT ![j] = [state |-> "exited", code |-> 1]]
                  ELSE process
    /\ doing' = [doing EXCEPT ![c].pc = "replay"]
    /\ UNCHANGED <<armed, jobRows, commands, succeeded>>

ReplayDone(c) ==
    /\ doing[c].pc = "replay" /\ doing[c].left = <<>>
    /\ doing' = [doing EXCEPT ![c] = Resting]
    /\ UNCHANGED <<armed, process, jobRows, commands, succeeded>>

SandboxNext ==
    \/ \E c \in Command :
         \/ ReadManifest(c) \/ SaveManifest(c)
         \/ ReplayActions(c) \/ ReplayAction(c) \/ ReplayGoesOn(c) \/ ReplayDone(c)
         \/ RunStart(c) \/ Submit(c) \/ LocalEnds(c) \/ ReportJob(c) \/ PostStatus(c)
         \/ \E j \in Job : RunVerify(c, j) \/ AskStatus(c, j) \/ Cancel(c, j)
    \/ \E j \in Job : JobExits(j)

SandboxSpec == SandboxInit /\ [][SandboxNext]_sandboxVars

-----------------------------------------------------------------------------
SandboxTypeOK ==
    /\ armed \subseteq Grant
    /\ \A j \in Job : /\ process[j].state \in {"none", "running", "exited"}
                      /\ jobRows[j] \in {"absent", "running", "succeeded", "failed", "cancelled"}
    /\ \A c \in Command : doing[c].pc \in {"idle", "saveManifest", "submit", "submitting",
                                           "wait", "report", "post", "replay", "replaying"}

(* The registry is told late, by whoever asked last, and may show a finished  *)
(* job as running or a running one as failed. But a row that says "succeeded" *)
(* is of a job that exited with 0, and a row that says "cancelled" of one     *)
(* that no longer runs, unless the cluster can be given the same name again.  *)
RowIsBorneOut ==
    \A j \in Job :
        /\ jobRows[j] = "succeeded" => j \in succeeded
        /\ jobRows[j] = "cancelled" /\ DriverOf[j] = "docker" => ~Running(j)
=============================================================================
