-------------------------- MODULE ExecutionProofs ---------------------------
(***************************************************************************)
(* Commands that run elsewhere: what the registry says of a sandbox job is *)
(* borne out, and the CLI daemon runs a command again only after an answer *)
(* was lost, for any jobs, daemons and callers, whose reports may be lost  *)
(* or come late.                                                           *)
(***************************************************************************)
EXTENDS Sandbox, CommandDaemon, OrderLemmas, TLAPS

-----------------------------------------------------------------------------
(* Sandbox jobs.                                                            *)

Known == {"running", "succeeded", "failed", "cancelled"}
LocalJob == {j \in Job : DriverOf[j] = "local"}
Doing == [pc : {"idle", "saveManifest", "submit", "submitting", "wait", "report", "post",
                "replay", "replaying"},
          job : Job, state : Known \union {"none"}, grants : SUBSET Grant, left : Seq(LocalJob)]
Process == {NoProcess} \union [state : {"running", "exited"}, code : {0, 1}]
CommandsTyped ==
    /\ armed \subseteq Grant
    /\ process \in [Job -> Process]
    /\ jobRows \in [Job -> Known \union {"absent"}]
    /\ doing \in [Command -> Doing]

(* What a command is about to tell: an exit with 0 that happened, or a       *)
(* container that has stopped and whose name is taken for good.              *)
Stays(j, state) ==
    /\ state # "none"
    /\ state = "succeeded" => j \in succeeded
    /\ state = "cancelled" /\ DriverOf[j] = "docker" => process[j].state = "exited"
WaitsForProcess ==
    \A c \in Command : doing[c].pc \in {"wait", "replaying"} =>
        DriverOf[doing[c].job] = "local" /\ process[doing[c].job] # NoProcess
ReportsBorneOut ==
    \A c \in Command : doing[c].pc \in {"report", "post"} => Stays(doing[c].job, doing[c].state)
RowsBorneOut == \A j \in Job : Stays(j, jobRows[j])
SuccessRecorded ==
    \A j \in Job : process[j].state = "exited" /\ process[j].code = 0 => j \in succeeded

SandboxInv == CommandsTyped /\ WaitsForProcess /\ ReportsBorneOut /\ RowsBorneOut /\ SuccessRecorded

-----------------------------------------------------------------------------
LEMMA RestingTyped == Resting \in Doing /\ Resting.pc = "idle"
BY SandboxAssumption DEF SandboxAssumption, Resting, Doing

LEMMA SandboxInitInv == SandboxInit => SandboxInv
BY RestingTyped DEF SandboxInit, SandboxInv, CommandsTyped, WaitsForProcess, ReportsBorneOut, RowsBorneOut,
   SuccessRecorded, Stays, NoProcess, Process, Known

(* A step of the processes: no success is forgotten, a container that has    *)
(* stopped does not run again, and a local process leaves its outcome.       *)
Onward ==
    /\ process' \in [Job -> Process]
    /\ succeeded \subseteq succeeded'
    /\ \A j \in Job : DriverOf[j] = "docker" /\ process[j].state = "exited"
                       => process'[j].state = "exited"
    /\ \A j \in Job : DriverOf[j] = "local" /\ process[j] # NoProcess => process'[j] # NoProcess
    /\ SuccessRecorded'

(* Stays, after the step, of a job and a state that are fixed.               *)
WillStay(j, state) ==
    /\ state # "none"
    /\ state = "succeeded" => j \in succeeded'
    /\ state = "cancelled" /\ DriverOf[j] = "docker" => process'[j].state = "exited"

LEMMA StaysOnward ==
    ASSUME Onward
    PROVE  \A j \in Job : \A state \in Known \union {"none", "absent"} :
               Stays(j, state) => WillStay(j, state)
BY DEF Onward, Stays, WillStay

LEMMA NothingRan == SandboxInv /\ UNCHANGED <<process, succeeded>> => Onward
BY DEF SandboxInv, CommandsTyped, SuccessRecorded, Onward

(* The commands stand, or one goes on to what is borne out.                  *)
LEMMA CommandGoesOn ==
    ASSUME SandboxInv, Onward, UNCHANGED jobRows, armed' \subseteq Grant,
           doing' \in [Command -> Doing],
           \A c \in Command :
               \/ doing'[c] = doing[c]
               \/ /\ doing'[c].pc \in {"report", "post"} => WillStay(doing'[c].job, doing'[c].state)
                  /\ doing'[c].pc \in {"wait", "replaying"} =>
                         DriverOf[doing'[c].job] = "local" /\ process'[doing'[c].job] # NoProcess
    PROVE  SandboxInv'
<1>1. CommandsTyped'
    BY DEF SandboxInv, CommandsTyped, Onward
<1>2. ASSUME NEW c \in Command, doing'[c].pc \in {"report", "post"}
      PROVE  WillStay(doing'[c].job, doing'[c].state)
    <2>1. CASE doing'[c] = doing[c]
        <3>1. /\ doing[c].job \in Job /\ doing[c].state \in Known \union {"none"}
              /\ Stays(doing[c].job, doing[c].state)
            BY <1>2, <2>1 DEF SandboxInv, CommandsTyped, Doing, ReportsBorneOut
        <3> QED BY <2>1, <3>1, StaysOnward
    <2> QED BY <1>2, <2>1
<1>3. ReportsBorneOut'
    BY <1>2 DEF ReportsBorneOut, Stays, WillStay
<1>4. WaitsForProcess'
    BY DEF SandboxInv, CommandsTyped, Doing, WaitsForProcess, Onward
<1>5. \A j \in Job : WillStay(j, jobRows[j])
    BY StaysOnward DEF SandboxInv, CommandsTyped, RowsBorneOut
<1>6. RowsBorneOut' /\ SuccessRecorded'
    BY <1>5 DEF RowsBorneOut, Stays, WillStay, Onward
<1> QED BY <1>1, <1>3, <1>4, <1>6 DEF SandboxInv

LEMMA OneGoesOn ==
    ASSUME SandboxInv, Onward, UNCHANGED jobRows, armed' \subseteq Grant,
           NEW c \in Command, NEW d \in Doing, doing' = [doing EXCEPT ![c] = d],
           d.pc \in {"report", "post"} => WillStay(d.job, d.state),
           d.pc \in {"wait", "replaying"} => DriverOf[d.job] = "local" /\ process'[d.job] # NoProcess
    PROVE  SandboxInv'
<1>1. doing \in [Command -> Doing]
    BY DEF SandboxInv, CommandsTyped
<1>2. doing' \in [Command -> Doing] /\ doing'[c] = d /\ \A b \in Command \ {c} : doing'[b] = doing[b]
    BY <1>1
<1> QED BY <1>2, CommandGoesOn

(* The registry takes what a command tells, or does not.                     *)
LEMMA RowTold ==
    ASSUME SandboxInv, UNCHANGED <<armed, process, succeeded>>, NEW c \in Command,
           doing[c].pc \in {"report", "post"}, doing' = [doing EXCEPT ![c] = Resting],
           \/ jobRows' = jobRows
           \/ jobRows' = [jobRows EXCEPT ![doing[c].job] = doing[c].state]
    PROVE  SandboxInv'
<1>1. doing[c] \in Doing /\ Stays(doing[c].job, doing[c].state)
    BY DEF SandboxInv, CommandsTyped, ReportsBorneOut
<1>2. CommandsTyped'
    <2>1. doing[c].job \in Job /\ doing[c].state \in Known
        BY <1>1 DEF Doing, Stays
    <2> QED BY <2>1, RestingTyped DEF SandboxInv, CommandsTyped
<1>3. ReportsBorneOut'
    BY RestingTyped DEF SandboxInv, CommandsTyped, ReportsBorneOut, Stays
<1>4. RowsBorneOut'
    BY <1>1 DEF SandboxInv, CommandsTyped, RowsBorneOut, Stays, Doing
<1>5. WaitsForProcess'
    BY RestingTyped DEF SandboxInv, CommandsTyped, WaitsForProcess
<1> QED BY <1>2, <1>3, <1>4, <1>5 DEF SandboxInv, SuccessRecorded

(* What a command that starts is about to do.                                *)
LEMMA Started ==
    ASSUME NEW pc \in {"submit", "post"}, NEW j \in Job, NEW state \in Known \union {"none"}
    PROVE  LET d == [Resting EXCEPT !.pc = pc, !.job = j, !.state = state]
           IN  d \in Doing /\ d.pc = pc /\ d.job = j /\ d.state = state
BY RestingTyped DEF Doing

(* A state that a driver shows is borne out.                                 *)
LEMMA SeenBorneOut ==
    ASSUME SandboxInv, NEW j \in Job, NEW state \in Seen(j)
    PROVE  state \in {"running", "failed", "succeeded"} /\ Stays(j, state)
<1>1. process[j] \in Process
    BY DEF SandboxInv, CommandsTyped
<1>2. state \in SeenLocal(j) \union SeenContainer(j) \union SeenPod(j) \union SeenBatch(j)
    BY DEF Seen
<1>3. ~Running(j) /\ process[j] # NoProcess /\ Outcome(j) = "succeeded" => j \in succeeded
    BY <1>1 DEF SandboxInv, SuccessRecorded, Process, Running, Outcome
<1>4. Outcome(j) \in {"failed", "succeeded"}
    BY DEF Outcome
<1> QED BY <1>2, <1>3, <1>4 DEF SeenLocal, SeenContainer, SeenPod, SeenBatch, Stays

-----------------------------------------------------------------------------
LEMMA SandboxStepInv == SandboxInv /\ [SandboxNext]_sandboxVars => SandboxInv'
<1> SUFFICES ASSUME SandboxInv, [SandboxNext]_sandboxVars PROVE SandboxInv'
    OBVIOUS
<1>0. armed \subseteq Grant /\ process \in [Job -> Process] /\ doing \in [Command -> Doing]
    BY DEF SandboxInv, CommandsTyped
<1>1. ASSUME NEW c \in Command, ReadManifest(c) PROVE SandboxInv'
    <2>1. Onward /\ UNCHANGED <<jobRows, armed>>
        BY <1>1, NothingRan DEF ReadManifest
    <2>2. PICK g \in Grant : doing' = [doing EXCEPT ![c] = [Resting EXCEPT
            !.pc = "saveManifest",
            !.grants = IF g \in armed THEN armed \ {g} ELSE armed \union {g}]]
        BY <1>1 DEF ReadManifest
    <2> DEFINE d == [Resting EXCEPT !.pc = "saveManifest",
                       !.grants = IF g \in armed THEN armed \ {g} ELSE armed \union {g}]
    <2>3. d \in Doing /\ d.pc = "saveManifest"
        BY <1>0, RestingTyped DEF Doing
    <2>4. doing' = [doing EXCEPT ![c] = d]
        BY <2>2
    <2> HIDE DEF d
    <2> QED BY <1>0, <2>1, <2>3, <2>4, OneGoesOn
<1>2. ASSUME NEW c \in Command, SaveManifest(c) PROVE SandboxInv'
    <2>1. Onward /\ UNCHANGED jobRows
        BY <1>2, NothingRan DEF SaveManifest
    <2>2. doing' = [doing EXCEPT ![c] = Resting] /\ armed' \subseteq Grant
        BY <1>0, <1>2 DEF SaveManifest, Doing
    <2> QED BY <2>1, <2>2, RestingTyped, OneGoesOn
<1>3. ASSUME NEW c \in Command, NEW j \in Job, RunVerify(c, j) PROVE SandboxInv'
    <2>1. Onward /\ UNCHANGED <<jobRows, armed>>
        BY <1>3, NothingRan DEF RunVerify
    <2> DEFINE d == [Resting EXCEPT !.pc = "submit", !.job = j, !.state = "none"]
    <2>2. doing' = [doing EXCEPT ![c] = d]
        BY <1>3 DEF RunVerify, StartCommand
    <2>3. d \in Doing /\ d.pc = "submit"
        BY Started
    <2> HIDE DEF d
    <2> QED BY <1>0, <2>1, <2>2, <2>3, OneGoesOn
<1>4. ASSUME NEW c \in Command, RunStart(c) PROVE SandboxInv'
    <2>1. Onward /\ UNCHANGED <<jobRows, armed>>
        BY <1>4, NothingRan DEF RunStart
    <2>2. PICK d : /\ doing' = [doing EXCEPT ![c] = d]
                   /\ \/ d = [doing[c] EXCEPT !.pc = "submitting"]
                      \/ d = [doing[c] EXCEPT !.pc = "report", !.state = "failed"]
        BY <1>4 DEF RunStart
    <2>3. d \in Doing /\ (d.pc = "submitting" \/ (d.pc = "report" /\ d.state = "failed"))
        BY <1>0, <2>2 DEF Doing, Known
    <2> QED BY <1>0, <2>1, <2>2, <2>3, OneGoesOn DEF WillStay
<1>5. ASSUME NEW c \in Command, Submit(c) PROVE SandboxInv'
    <2> DEFINE j == doing[c].job
    <2>1. j \in Job /\ UNCHANGED <<jobRows, armed, succeeded>>
        BY <1>0, <1>5 DEF Submit, Doing
    <2>2. /\ \/ process' = process
             \/ /\ process' = [process EXCEPT ![j] = [state |-> "running", code |-> 0]]
                /\ DriverOf[j] = "docker" => process[j] = NoProcess
          /\ \/ /\ doing' = [doing EXCEPT ![c] = [@ EXCEPT !.pc = "wait"]]
                /\ DriverOf[j] = "local"
                /\ process' = [process EXCEPT ![j] = [state |-> "running", code |-> 0]]
             \/ \E state \in {"running", "failed"} :
                   doing' = [doing EXCEPT ![c] = [@ EXCEPT !.pc = "report", !.state = state]]
        BY <1>5 DEF Submit, SubmitLocal, SubmitDocker, SubmitPod, SubmitBatch, Answer, Launch
    <2>3. Onward
        <3>1. CASE process' = process
            BY <2>1, <3>1, NothingRan
        <3>2. CASE /\ process' = [process EXCEPT ![j] = [state |-> "running", code |-> 0]]
                   /\ DriverOf[j] = "docker" => process[j] = NoProcess
            BY <1>0, <2>1, <3>2 DEF SandboxInv, SuccessRecorded, Onward, Process, NoProcess
        <3> QED BY <2>2, <3>1, <3>2
    <2>4. CASE /\ doing' = [doing EXCEPT ![c] = [@ EXCEPT !.pc = "wait"]]
               /\ DriverOf[j] = "local"
               /\ process' = [process EXCEPT ![j] = [state |-> "running", code |-> 0]]
        <3> DEFINE d == [doing[c] EXCEPT !.pc = "wait"]
        <3>1. d \in Doing /\ d.pc = "wait" /\ d.job = j
            BY <1>0 DEF Doing
        <3>2. process'[j] # NoProcess
            BY <1>0, <2>1, <2>4 DEF NoProcess
        <3>3. doing' = [doing EXCEPT ![c] = d]
            BY <2>4
        <3> HIDE DEF d
        <3> QED BY <1>0, <2>1, <2>3, <2>4, <3>1, <3>2, <3>3, OneGoesOn
    <2>5. ASSUME NEW state \in {"running", "failed"},
                 doing' = [doing EXCEPT ![c] = [@ EXCEPT !.pc = "report", !.state = state]]
          PROVE  SandboxInv'
        <3> DEFINE d == [doing[c] EXCEPT !.pc = "report", !.state = state]
        <3>1. d \in Doing /\ d.pc = "report" /\ d.state \in {"running", "failed"}
            BY <1>0 DEF Doing, Known
        <3>2. doing' = [doing EXCEPT ![c] = d]
            BY <2>5
        <3> HIDE DEF d
        <3> QED BY <1>0, <2>1, <2>3, <3>1, <3>2, OneGoesOn DEF WillStay
    <2> QED BY <2>2, <2>4, <2>5
<1>6. ASSUME NEW c \in Command, LocalEnds(c) PROVE SandboxInv'
    <2> DEFINE j == doing[c].job
    <2>1. /\ j \in Job /\ UNCHANGED <<jobRows, armed, succeeded>>
          /\ DriverOf[j] = "local" /\ process[j] # NoProcess
        BY <1>0, <1>6 DEF LocalEnds, Doing, SandboxInv, WaitsForProcess
    <2>2. CASE Running(j)
        <3>1. process' = [process EXCEPT ![j] = [state |-> "exited", code |-> 1]]
            BY <1>6, <2>2 DEF LocalEnds
        <3>2. Onward
            BY <1>0, <2>1, <3>1 DEF SandboxInv, SuccessRecorded, Onward, Process, NoProcess
        <3> DEFINE d == [doing[c] EXCEPT !.pc = "report", !.state = "failed"]
        <3>3. d \in Doing /\ d.pc = "report" /\ d.state = "failed"
            BY <1>0 DEF Doing, Known
        <3>4. doing' = [doing EXCEPT ![c] = d]
            BY <1>6, <2>2 DEF LocalEnds
        <3> HIDE DEF d
        <3> QED BY <1>0, <2>1, <3>2, <3>3, <3>4, OneGoesOn DEF WillStay
    <2>3. CASE ~Running(j)
        <3>1. Onward
            BY <1>6, <2>1, <2>3, NothingRan DEF LocalEnds
        <3> DEFINE d == [doing[c] EXCEPT !.pc = "report", !.state = Outcome(j)]
        <3>2. Outcome(j) \in {"failed", "succeeded"} /\ (Outcome(j) = "succeeded" => j \in succeeded)
            BY <1>0, <2>1, <2>3 DEF SandboxInv, SuccessRecorded, Outcome, Running, Process
        <3>3. d \in Doing /\ d.pc = "report" /\ d.state = Outcome(j) /\ d.job = j
            BY <1>0, <3>2 DEF Doing, Known
        <3>4. doing' = [doing EXCEPT ![c] = d]
            BY <1>6, <2>3 DEF LocalEnds
        <3>5. WillStay(j, Outcome(j))
            BY <2>1, <3>2 DEF WillStay
        <3> HIDE DEF d
        <3> QED BY <1>0, <2>1, <3>1, <3>3, <3>4, <3>5, OneGoesOn
    <2> QED BY <2>2, <2>3
<1>7. ASSUME NEW c \in Command, ReportJob(c) \/ PostStatus(c) PROVE SandboxInv'
    BY <1>7, RowTold DEF ReportJob, PostStatus
<1>8. ASSUME NEW c \in Command, NEW j \in Job, AskStatus(c, j) PROVE SandboxInv'
    <2>1. Onward /\ UNCHANGED <<jobRows, armed, process, succeeded>>
        BY <1>8, NothingRan DEF AskStatus
    <2>2. PICK state \in Seen(j) :
            doing' = [doing EXCEPT ![c] = [Resting EXCEPT !.pc = "post", !.job = j, !.state = state]]
        BY <1>8 DEF AskStatus, StartCommand
    <2> DEFINE d == [Resting EXCEPT !.pc = "post", !.job = j, !.state = state]
    <2>3. state \in Known /\ Stays(j, state)
        BY SeenBorneOut DEF Known
    <2>4. d \in Doing /\ d.pc = "post" /\ d.job = j /\ d.state = state
        BY <2>3, Started
    <2>5. WillStay(j, state)
        BY <2>1, <2>3 DEF Stays, WillStay
    <2> HIDE DEF d
    <2>6. doing' = [doing EXCEPT ![c] = d]
        BY <2>2 DEF d
    <2> QED BY <1>0, <2>1, <2>4, <2>5, <2>6, OneGoesOn
<1>9. ASSUME NEW c \in Command, NEW j \in Job, Cancel(c, j) PROVE SandboxInv'
    <2>1. /\ UNCHANGED <<jobRows, armed>> /\ process[j].state = "running"
          /\ Stopped(j) \/ UNCHANGED <<process, succeeded>>
        BY <1>9 DEF Cancel, Running
    <2>2. Onward /\ (Stopped(j) /\ DriverOf[j] = "docker" => process'[j].state = "exited")
        <3>1. CASE DriverOf[j] = "docker" /\ \E exit \in {0, 1} : StopContainer(j, exit)
            BY <1>0, <3>1 DEF StopContainer, SandboxInv, SuccessRecorded, Onward, Process, NoProcess
        <3>2. CASE DriverOf[j] = "kubernetes" /\ DeletePod(j)
            BY <1>0, <3>2 DEF DeletePod, SandboxInv, SuccessRecorded, Onward, Process, NoProcess
        <3>3. CASE DriverOf[j] = "slurm" /\ Scancel(j)
            BY <1>0, <3>3 DEF Scancel, SandboxInv, SuccessRecorded, Onward, Process, NoProcess
        <3>4. CASE UNCHANGED <<process, succeeded>> /\ ~Stopped(j)
            BY <3>4, NothingRan
        <3> QED BY <2>1, <3>1, <3>2, <3>3, <3>4 DEF Stopped
    <2>3. CASE Stopped(j) /\ StartCommand(c, "post", j, "cancelled")
        <3> DEFINE d == [Resting EXCEPT !.pc = "post", !.job = j, !.state = "cancelled"]
        <3>1. doing' = [doing EXCEPT ![c] = d]
            BY <2>3 DEF StartCommand
        <3>2. d \in Doing /\ d.pc = "post" /\ d.job = j /\ d.state = "cancelled"
            BY Started DEF Known
        <3>3. WillStay(j, "cancelled")
            BY <2>2, <2>3 DEF WillStay
        <3> HIDE DEF d
        <3> QED BY <1>0, <2>1, <2>2, <3>1, <3>2, <3>3, OneGoesOn
    <2>4. CASE StartCommand(c, "idle", j, "none")
        <3>1. doing' = [doing EXCEPT ![c] = Resting]
            BY <2>4 DEF StartCommand
        <3> QED BY <1>0, <2>1, <2>2, <3>1, RestingTyped, OneGoesOn
    <2> QED BY <1>9, <2>3, <2>4 DEF Cancel
<1>10. ASSUME NEW j \in Job, JobExits(j) PROVE SandboxInv'
    <2>1. PICK exit \in {0, 1} :
            /\ process' = [process EXCEPT ![j] = [state |-> "exited", code |-> exit]]
            /\ succeeded' = IF exit = 0 THEN succeeded \union {j} ELSE succeeded
        BY <1>10 DEF JobExits
    <2>2. Onward
        BY <1>0, <2>1 DEF SandboxInv, SuccessRecorded, Onward, Process, NoProcess
    <2>3. UNCHANGED <<jobRows, armed, doing>>
        BY <1>10 DEF JobExits
    <2> QED BY <1>0, <2>2, <2>3, CommandGoesOn
<1>11. ASSUME NEW c \in Command, ReplayActions(c) \/ ReplayDone(c) PROVE SandboxInv'
    <2>1. Onward /\ UNCHANGED <<jobRows, armed>>
        BY <1>11, NothingRan DEF ReplayActions, ReplayDone
    <2> DEFINE d == [Resting EXCEPT !.pc = "replay", !.left = ActionLog]
    <2>2. d \in Doing /\ d.pc = "replay"
        BY RestingTyped, SandboxAssumption DEF Doing, SandboxAssumption, LocalJob
    <2>3. doing' = [doing EXCEPT ![c] = d] \/ doing' = [doing EXCEPT ![c] = Resting]
        BY <1>11 DEF ReplayActions, ReplayDone
    <2> HIDE DEF d
    <2> QED BY <1>0, <2>1, <2>2, <2>3, RestingTyped, OneGoesOn
<1>12. ASSUME NEW c \in Command, ReplayAction(c) PROVE SandboxInv'
    <2> DEFINE j == Head(doing[c].left)
               rest == [doing[c] EXCEPT !.left = Tail(@)]
               d == [rest EXCEPT !.pc = "replaying", !.job = j]
    <2>1. /\ UNCHANGED <<jobRows, armed, succeeded>> /\ doing[c].pc = "replay"
          /\ doing[c] \in Doing /\ doing[c].left # <<>>
        BY <1>0, <1>12 DEF ReplayAction
    <2>2. j \in LocalJob /\ Tail(doing[c].left) \in Seq(LocalJob)
        BY <2>1 DEF Doing
    <2>3. /\ rest \in Doing /\ rest.pc = "replay"
          /\ d \in Doing /\ d.pc = "replaying" /\ d.job = j
        BY <2>1, <2>2 DEF Doing, LocalJob
    <2>4. \/ doing' = [doing EXCEPT ![c] = rest] /\ UNCHANGED process
          \/ /\ doing' = [doing EXCEPT ![c] = d]
             /\ process' = [process EXCEPT ![j] = [state |-> "running", code |-> 0]]
        BY <1>12 DEF ReplayAction, Launch
    <2> HIDE DEF rest, d, j
    <2>5. CASE doing' = [doing EXCEPT ![c] = rest] /\ UNCHANGED process
        BY <1>0, <2>1, <2>3, <2>5, NothingRan, OneGoesOn
    <2>6. CASE /\ doing' = [doing EXCEPT ![c] = d]
               /\ process' = [process EXCEPT ![j] = [state |-> "running", code |-> 0]]
        <3>1. Onward /\ process'[j] # NoProcess
            BY <1>0, <2>1, <2>2, <2>6 DEF SandboxInv, SuccessRecorded, Onward, Process, NoProcess, LocalJob
        <3> QED BY <1>0, <2>1, <2>2, <2>3, <2>6, <3>1, OneGoesOn DEF LocalJob
    <2> QED BY <2>4, <2>5, <2>6
<1>13. ASSUME NEW c \in Command, ReplayGoesOn(c) PROVE SandboxInv'
    <2> DEFINE j == doing[c].job
               d == [doing[c] EXCEPT !.pc = "replay"]
    <2>1. /\ j \in Job /\ UNCHANGED <<jobRows, armed, succeeded>>
          /\ DriverOf[j] = "local" /\ doing' = [doing EXCEPT ![c] = d]
          /\ \/ UNCHANGED process
             \/ process' = [process EXCEPT ![j] = [state |-> "exited", code |-> 1]]
        BY <1>0, <1>13 DEF ReplayGoesOn, Doing, SandboxInv, WaitsForProcess
    <2>2. d \in Doing /\ d.pc = "replay"
        BY <1>0 DEF Doing
    <2>3. Onward
        BY <1>0, <2>1, NothingRan DEF SandboxInv, SuccessRecorded, Onward, Process, NoProcess
    <2> HIDE DEF d
    <2> QED BY <1>0, <2>1, <2>2, <2>3, OneGoesOn
<1>14. CASE UNCHANGED sandboxVars
    <2>1. Onward /\ UNCHANGED <<jobRows, armed, doing>>
        BY <1>14, NothingRan DEF sandboxVars
    <2> QED BY <1>0, <2>1, CommandGoesOn
<1> QED BY <1>1, <1>2, <1>3, <1>4, <1>5, <1>6, <1>7, <1>8, <1>9, <1>10, <1>11, <1>12,
           <1>13, <1>14 DEF SandboxNext

LEMMA IInvBearsOut == SandboxInv => RowIsBorneOut
BY DEF SandboxInv, RowsBorneOut, Stays, RowIsBorneOut, Running

(* A row that says succeeded, or cancelled of a container, is true, whatever *)
(* reports are lost and however commands and processes interleave.           *)
THEOREM RowsAreBorneOut == SandboxSpec => []RowIsBorneOut
<1>1. SandboxSpec => []SandboxInv
    BY SandboxInitInv, SandboxStepInv, PTL DEF SandboxSpec
<1> QED BY <1>1, IInvBearsOut, PTL

-----------------------------------------------------------------------------
(* The CLI daemon.                                                          *)

Early == {"begin", "native key", "native connect", "python", "python key", "python connect"}
AtWait == {"native wait", "python wait"}
AlmostLocal == {"spawn", "spawning", "local"}
Place == Early \cup AtWait \cup AlmostLocal \cup {"finished"}
Refusal == {"auth_failed", "version_skew"}
Reply == Refusal \cup {"none", "done", "nothing to do", "internal", "closed"}
Served == {"done", "nothing to do", "internal"}
Busy == Served \cup {"serving"}
DaemonPlace == Busy \cup {"unborn", "booting", "listening", "keyed", "idle", "closing", "gone"}

DaemonTyped ==
    /\ dpc \in [Daemon -> DaemonPlace] /\ queue \in [Daemon -> Seq(Caller)]
    /\ cpc \in [Caller -> Place] /\ answer \in [Caller -> Reply]
    /\ ran \in [Caller -> Nat] /\ lost \in [Caller -> Nat]

(* A daemon that is at a request has it at the head of its connections.      *)
BusyHasClient == \A d \in Daemon : dpc[d] \in Busy => queue[d] # <<>>

(* No caller is connected twice.                                             *)
ConnectedOnce(q) ==
    \A d, e \in Daemon : \A i \in 1..Len(q[d]), j \in 1..Len(q[e]) :
        q[d][i] = q[e][j] => d = e /\ i = j

(* Callers that are connected, and those whose command the daemon has not    *)
(* run yet.                                                                  *)
Connected(q, c) == \E d \in Daemon : \E i \in 1..Len(q[d]) : q[d][i] = c
Due(q, p, c) ==
    \E d \in Daemon : \E i \in 1..Len(q[d]) : q[d][i] = c /\ ~(i = 1 /\ p[d] \in Served)

(* What a caller's place and answer say of its runs and losses: a run to     *)
(* come, of its daemon or its own, is already paid for.                      *)
Paid(place, a, runs, losses, connected, due) ==
    /\ place \in Early => ~connected /\ a = "none" /\ runs <= losses
    /\ place \in AtWait /\ a = "none" => runs <= losses + 1 /\ (due => runs <= losses)
    /\ place \in AtWait /\ a # "none" =>
           ~connected /\ runs <= losses + 1 /\ (a \in Refusal => runs <= losses)
    /\ place \in AlmostLocal => runs <= losses /\ (due => runs + 1 <= losses)
    /\ place = "finished" => runs <= losses + 1 /\ (due => runs <= losses)
PaidFor(c) == Paid(cpc[c], answer[c], ran[c], lost[c], Connected(queue, c), Due(queue, dpc, c))
RunsPaid == \A c \in Caller : PaidFor(c)

(* The spawn lock leaves an unborn daemon to the one that holds it.          *)
SpawnerAlone ==
    \A c \in Caller : cpc[c] = "spawning" =>
        /\ spawnLock /\ Unborn # {}
        /\ \A b \in Caller : cpc[b] = "spawning" => b = c

DInv == DaemonTyped /\ BusyHasClient /\ ConnectedOnce(queue) /\ RunsPaid /\ SpawnerAlone

-----------------------------------------------------------------------------
LEMMA DInvInit == DmInit => DInv
<1> SUFFICES ASSUME DmInit PROVE DInv
    OBVIOUS
<1>0. /\ \A d \in Daemon : queue[d] = <<>> /\ dpc[d] \in {"idle", "unborn"}
      /\ DOMAIN dpc = Daemon /\ DOMAIN queue = Daemon
      /\ dpc = [d \in Daemon |-> dpc[d]] /\ queue = [d \in Daemon |-> queue[d]]
    <2>1. PICK up \in {NoDaemon, First} :
            /\ dpc = [d \in Daemon |-> IF d = up THEN "idle" ELSE "unborn"]
            /\ queue = [d \in Daemon |-> <<>>]
        BY DEF DmInit
    <2> QED BY <2>1
<1>1. DaemonTyped
    <2>1. dpc \in [Daemon -> DaemonPlace] /\ queue \in [Daemon -> Seq(Caller)]
      <3>1. <<>> \in Seq(Caller)
          OBVIOUS
      <3>2. \A d \in Daemon : dpc[d] \in DaemonPlace
          BY <1>0 DEF DaemonPlace, Busy, Served
      <3> QED BY <1>0, <3>1, <3>2
    <2>2. cpc \in [Caller -> Place] /\ answer \in [Caller -> Reply]
        BY DEF DmInit, Place, Early, Reply
    <2>3. ran \in [Caller -> Nat] /\ lost \in [Caller -> Nat]
        BY DEF DmInit
    <2> QED BY <2>1, <2>2, <2>3 DEF DaemonTyped
<1>3. \A c \in Caller : cpc[c] = "begin" /\ answer[c] = "none" /\ ran[c] = 0 /\ lost[c] = 0
    BY DEF DmInit
<1>4. \A c \in Caller : ~Connected(queue, c)
    BY <1>0 DEF Connected
<1>5. RunsPaid
    <2> SUFFICES ASSUME NEW c \in Caller
                 PROVE  Paid(cpc[c], answer[c], ran[c], lost[c], Connected(queue, c),
                             Due(queue, dpc, c))
        BY DEF RunsPaid, PaidFor
    <2>1. cpc[c] \notin AtWait \union AlmostLocal \union {"finished"}
        BY <1>3 DEF AtWait, AlmostLocal
    <2> QED BY <1>3, <1>4, <2>1 DEF Paid
<1>6. BusyHasClient /\ SpawnerAlone
    BY <1>0, <1>3 DEF BusyHasClient, Busy, Served, SpawnerAlone
<1>7. ConnectedOnce(queue)
    BY <1>0 DEF ConnectedOnce
<1> QED BY <1>1, <1>5, <1>6, <1>7 DEF DInv

LEMMA DueConnected == \A q, p, c : Due(q, p, c) => Connected(q, c)
BY DEF Due, Connected

(* Nobody connects and nobody's run comes to be due again.                   *)
LEMMA PaidStays ==
    ASSUME NEW s, NEW a, NEW r \in Nat, NEW l \in Nat, NEW u, NEW v, NEW x, NEW y,
           Paid(s, a, r, l, u, v), x => u, y => v
    PROVE  Paid(s, a, r, l, x, y)
BY DEF Paid

(* Connections close: what is left of a daemon's is their tail, or nothing.  *)
Recedes(d) ==
    /\ d \in Daemon /\ queue \in [Daemon -> Seq(Caller)]
    /\ \/ queue[d] # <<>> /\ queue' = [queue EXCEPT ![d] = Tail(@)]
       \/ queue' = [queue EXCEPT ![d] = <<>>]
    /\ dpc \in [Daemon -> DaemonPlace] /\ dpc' \in [Daemon -> DaemonPlace]
    /\ \A e \in Daemon \ {d} : dpc'[e] = dpc[e]

LEMMA ReceedsWell ==
    ASSUME NEW d, Recedes(d), ConnectedOnce(queue)
    PROVE  /\ queue' \in [Daemon -> Seq(Caller)] /\ ConnectedOnce(queue')
           /\ \A c \in Caller : Connected(queue', c) => Connected(queue, c)
           /\ \A c \in Caller : Due(queue', dpc', c) => Due(queue, dpc, c)
           /\ queue[d] # <<>> => ~Connected(queue', Head(queue[d]))
           /\ queue'[d] = <<>> =>
                  \A c \in Caller : (\E i \in DOMAIN queue[d] : queue[d][i] = c) => ~Connected(queue', c)
<1>1. queue' \in [Daemon -> Seq(Caller)]
    <2>1. d \in Daemon /\ queue[d] \in Seq(Caller) /\ <<>> \in Seq(Caller)
          /\ (queue[d] # <<>> => Tail(queue[d]) \in Seq(Caller))
        BY DEF Recedes
    <2> QED BY <2>1 DEF Recedes
<1>2. \A e \in Daemon \ {d} : queue'[e] = queue[e] /\ dpc'[e] = dpc[e]
    BY DEF Recedes
<1>3. d \in Daemon /\ Len(queue[d]) \in Nat /\ DOMAIN queue[d] = 1..Len(queue[d])
    BY DEF Recedes
<1>4. \A i \in 1..Len(queue'[d]) : i + 1 \in 1..Len(queue[d]) /\ queue'[d][i] = queue[d][i + 1]
    <2>1. CASE queue[d] # <<>> /\ queue'[d] = Tail(queue[d])
        <3>1. queue[d] \in Seq(Caller) /\ queue[d] # <<>>
            BY <2>1 DEF Recedes
        <3>2. /\ Len(Tail(queue[d])) = Len(queue[d]) - 1
              /\ \A i \in 1..Len(queue[d]) - 1 : Tail(queue[d])[i] = queue[d][i + 1]
            BY <3>1
        <3> QED BY <1>3, <2>1, <3>2
    <2>2. CASE queue'[d] = <<>>
        BY <2>2
    <2> QED BY <1>3, <2>1, <2>2 DEF Recedes
<1>5. queue[d] # <<>> => 1 \in 1..Len(queue[d]) /\ Head(queue[d]) = queue[d][1]
    BY DEF Recedes
<1>6. ASSUME NEW e \in Daemon, NEW i \in 1..Len(queue'[e])
      PROVE  \E j \in 1..Len(queue[e]) : /\ queue[e][j] = queue'[e][i]
                                         /\ j = IF e = d THEN i + 1 ELSE i
    BY <1>2, <1>4, <1>6
<1>7. ConnectedOnce(queue')
    <2>1. SUFFICES ASSUME NEW e \in Daemon, NEW f \in Daemon, NEW i \in 1..Len(queue'[e]),
                          NEW j \in 1..Len(queue'[f]), queue'[e][i] = queue'[f][j]
                   PROVE  e = f /\ i = j
        BY DEF ConnectedOnce
    <2>2. PICK k \in 1..Len(queue[e]) : queue[e][k] = queue'[e][i] /\ k = IF e = d THEN i + 1 ELSE i
        BY <1>6
    <2>3. PICK n \in 1..Len(queue[f]) : queue[f][n] = queue'[f][j] /\ n = IF f = d THEN j + 1 ELSE j
        BY <1>6
    <2>4. e = f /\ k = n
        BY <2>1, <2>2, <2>3 DEF ConnectedOnce
    <2>5. Len(queue'[e]) \in Nat /\ Len(queue'[f]) \in Nat
        BY <1>1
    <2> QED BY <2>2, <2>3, <2>4, <2>5
<1>8. \A c \in Caller : Connected(queue', c) => Connected(queue, c)
    BY <1>6 DEF Connected
<1>9. ASSUME NEW c \in Caller, Due(queue', dpc', c) PROVE Due(queue, dpc, c)
    <2>0. PICK e \in Daemon :
            \E i \in 1..Len(queue'[e]) : queue'[e][i] = c /\ ~(i = 1 /\ dpc'[e] \in Served)
        BY <1>9 DEF Due
    <2>1. PICK i \in 1..Len(queue'[e]) : queue'[e][i] = c /\ ~(i = 1 /\ dpc'[e] \in Served)
        BY <2>0
    <2>2. CASE e = d
        <3>1. i + 1 \in 1..Len(queue[d]) /\ queue[d][i + 1] = c /\ i + 1 # 1
            BY <1>1, <1>3, <1>4, <2>1, <2>2
        <3> QED BY <1>3, <3>1 DEF Due
    <2>3. CASE e # d
        BY <1>2, <2>1, <2>3 DEF Due
    <2> QED BY <2>2, <2>3
<1>10. ASSUME NEW c, NEW k \in 1..Len(queue[d]), queue[d][k] = c, k = 1 \/ queue'[d] = <<>>,
              Connected(queue', c)
       PROVE  FALSE
    <2>0. PICK e \in Daemon : \E i \in 1..Len(queue'[e]) : queue'[e][i] = c
        BY <1>10 DEF Connected
    <2>1. PICK i \in 1..Len(queue'[e]) : queue'[e][i] = c
        BY <2>0
    <2>2. PICK j \in 1..Len(queue[e]) : queue[e][j] = c /\ j = IF e = d THEN i + 1 ELSE i
        BY <1>6, <2>1
    <2>3. e = d /\ j = k
        BY <1>3, <1>10, <2>2 DEF ConnectedOnce
    <2>4. i \in 1..Len(queue'[d]) /\ Len(queue'[d]) \in Nat /\ k = i + 1
        BY <1>1, <1>3, <2>1, <2>2, <2>3
    <2> QED BY <1>10, <2>4
<1> QED BY <1>1, <1>3, <1>5, <1>7, <1>8, <1>9, <1>10

(* A caller moves, and no daemon does.                                       *)
LEMMA CallerMoved ==
    ASSUME DInv, NEW c \in Caller, UNCHANGED <<dpc, queue>>,
           cpc' \in [Caller -> Place], answer' \in [Caller -> Reply],
           ran' \in [Caller -> Nat], lost' \in [Caller -> Nat],
           \A b \in Caller \ {c} : /\ cpc'[b] = cpc[b] /\ answer'[b] = answer[b]
                                   /\ ran'[b] = ran[b] /\ lost'[b] = lost[b],
           Paid(cpc'[c], answer'[c], ran'[c], lost'[c], Connected(queue, c), Due(queue, dpc, c))
    PROVE  /\ DaemonTyped' /\ BusyHasClient' /\ ConnectedOnce(queue)' /\ RunsPaid'
           /\ cpc[c] # "spawning" /\ cpc'[c] # "spawning" /\ spawnLock' = spawnLock => DInv'
<1>1. DaemonTyped' /\ BusyHasClient'
    BY DEF DInv, DaemonTyped, BusyHasClient
<1>2. ConnectedOnce(queue)'
    BY DEF DInv, ConnectedOnce
<1>3. \A b \in Caller : PaidFor(b)'
  <2> SUFFICES ASSUME NEW b \in Caller PROVE PaidFor(b)'
      OBVIOUS
  <2>1. CASE b = c
      BY <2>1 DEF PaidFor
  <2>2. CASE b # c
      BY <2>2 DEF PaidFor, DInv, RunsPaid
  <2> QED BY <2>1, <2>2
<1>4. ASSUME cpc[c] # "spawning", cpc'[c] # "spawning", spawnLock' = spawnLock
      PROVE  SpawnerAlone'
    BY <1>4 DEF DInv, SpawnerAlone, Unborn
<1> QED BY <1>1, <1>2, <1>3, <1>4 DEF DInv, RunsPaid

(* A daemon moves, and keeps its connections and its client's run to come.   *)
LEMMA DaemonMoved ==
    ASSUME DInv, NEW d \in Daemon, UNCHANGED <<queue, cpc, answer, ran, lost, spawnLock>>,
           dpc' \in [Daemon -> DaemonPlace], \A e \in Daemon \ {d} : dpc'[e] = dpc[e],
           dpc[d] \notin Served, dpc[d] # "unborn", dpc'[d] # "unborn",
           dpc'[d] \in Busy => queue[d] # <<>>
    PROVE  DInv'
<1>1. DaemonTyped' /\ BusyHasClient'
    BY DEF DInv, DaemonTyped, BusyHasClient
<1>2. ConnectedOnce(queue)' /\ \A c \in Caller : Connected(queue, c)' <=> Connected(queue, c)
    BY DEF DInv, ConnectedOnce, Connected
<1>3. \A c \in Caller : Due(queue, dpc, c)' => Due(queue, dpc, c)
    BY DEF Due
<1>4. \A c \in Caller : PaidFor(c)'
    BY <1>2, <1>3, PaidStays DEF PaidFor, DInv, RunsPaid, DaemonTyped
<1>5. SpawnerAlone'
    BY DEF DInv, SpawnerAlone, Unborn
<1> QED BY <1>1, <1>2, <1>4, <1>5 DEF DInv, RunsPaid

(* A daemon closes connections: those it answers were waiting, and it says   *)
(* that it refused only to those whose command it did not run.               *)
LEMMA ConnectionsClosed ==
    ASSUME DInv, NEW d, Recedes(d), UNCHANGED <<cpc, ran, lost, spawnLock>>,
           dpc[d] # "unborn", dpc'[d] # "unborn", dpc'[d] \notin Busy,
           answer' \in [Caller -> Reply],
           \A c \in Caller : answer'[c] = answer[c] \/
               /\ cpc[c] \in AtWait /\ answer[c] = "none" /\ answer'[c] # "none"
               /\ answer'[c] \in Refusal => Due(queue, dpc, c)
               /\ ~Connected(queue', c)
    PROVE  DInv'
<1>0. d \in Daemon /\ dpc' \in [Daemon -> DaemonPlace] /\ \A e \in Daemon \ {d} : dpc'[e] = dpc[e]
    BY DEF Recedes
<1>1. /\ queue' \in [Daemon -> Seq(Caller)] /\ ConnectedOnce(queue')
      /\ \A c \in Caller : Connected(queue', c) => Connected(queue, c)
      /\ \A c \in Caller : Due(queue', dpc', c) => Due(queue, dpc, c)
    BY ReceedsWell DEF DInv
<1>2. \A e \in Daemon \ {d} : queue'[e] = queue[e]
    BY DEF Recedes
<1>3. DaemonTyped'
    BY <1>0, <1>1 DEF DInv, DaemonTyped
<1>4. BusyHasClient'
    BY <1>0, <1>2 DEF DInv, BusyHasClient
<1>5. \A c \in Caller : PaidFor(c)'
  <2> SUFFICES ASSUME NEW c \in Caller PROVE PaidFor(c)'
      OBVIOUS
  <2>0. PaidFor(c) /\ ran[c] \in Nat /\ lost[c] \in Nat
      BY DEF DInv, RunsPaid, DaemonTyped
  <2>1. CASE answer'[c] = answer[c]
      BY <1>1, <2>0, <2>1, PaidStays DEF PaidFor
  <2>2. CASE answer'[c] # answer[c]
    <3>1. /\ cpc[c] \in AtWait /\ answer[c] = "none" /\ answer'[c] # "none"
          /\ answer'[c] \in Refusal => Due(queue, dpc, c)
          /\ ~Connected(queue', c)
        BY <2>2
    <3>2. ran[c] <= lost[c] + 1 /\ (answer'[c] \in Refusal => ran[c] <= lost[c])
        BY <2>0, <3>1 DEF PaidFor, Paid
    <3>3. cpc[c] \notin Early /\ cpc[c] \notin AlmostLocal /\ cpc[c] # "finished"
        BY <3>1 DEF Early, AtWait, AlmostLocal
    <3> QED BY <3>1, <3>2, <3>3 DEF PaidFor, Paid
  <2> QED BY <2>1, <2>2
<1>6. SpawnerAlone'
    BY <1>0 DEF DInv, SpawnerAlone, Unborn
<1> QED BY <1>1, <1>3, <1>4, <1>5, <1>6 DEF DInv, RunsPaid

(* The caller of a step, before and after it. *)
LEMMA CallerAt ==
    ASSUME DInv, NEW c \in Caller
    PROVE  /\ Paid(cpc[c], answer[c], ran[c], lost[c], Connected(queue, c), Due(queue, dpc, c))
           /\ cpc[c] \in Place /\ answer[c] \in Reply /\ ran[c] \in Nat /\ lost[c] \in Nat
           /\ Due(queue, dpc, c) => Connected(queue, c)
  BY DueConnected DEF DInv, RunsPaid, PaidFor, DaemonTyped

LEMMA BeginStep ==
    ASSUME DInv, NEW c \in Caller, BeginCommand(c) \/ ReadState(c) \/ ReadKey(c) PROVE DInv'
<1>1. PICK to \in (Early \ {"begin"}) \union {"spawn"} : cpc' = [cpc EXCEPT ![c] = to]
    BY DEF BeginCommand, ReadState, ReadKey, Goes, NextTry, IsNative, Early
<1>2. cpc[c] \in Early /\ UNCHANGED <<dpc, queue, answer, ran, lost, spawnLock>>
    BY DEF BeginCommand, ReadState, ReadKey, Goes, Early, daemonVars, nameVars
<1>3. to \in Place /\ to # "spawning"
    BY DEF Place, Early, AlmostLocal
<1>4. to \notin AtWait /\ to # "finished" /\ cpc[c] # "spawning"
    BY <1>2 DEF Early, AtWait
<1>5. /\ ~Connected(queue, c) /\ answer[c] = "none" /\ ran[c] <= lost[c]
      /\ ~Due(queue, dpc, c)
    BY <1>2, CallerAt DEF Paid
<1>6. Paid(to, answer[c], ran[c], lost[c], Connected(queue, c), Due(queue, dpc, c))
    BY <1>4, <1>5 DEF Paid
<1>7. cpc' \in [Caller -> Place] /\ cpc'[c] = to /\ \A b \in Caller \ {c} : cpc'[b] = cpc[b]
    BY <1>1, <1>3 DEF DInv, DaemonTyped
<1>8. /\ answer' \in [Caller -> Reply] /\ ran' \in [Caller -> Nat] /\ lost' \in [Caller -> Nat]
      /\ answer'[c] = answer[c] /\ ran'[c] = ran[c] /\ lost'[c] = lost[c]
    BY <1>2 DEF DInv, DaemonTyped
<1> QED BY <1>2, <1>3, <1>4, <1>6, <1>7, <1>8, CallerMoved

(* A connection is appended to the listener's. *)
LEMMA ConnectStep ==
    ASSUME DInv, NEW c \in Caller, Connect(c) PROVE DInv'
<1>1. /\ cpc[c] \in Early /\ cpc[c] # "spawning"
      /\ UNCHANGED <<dpc, answer, ran, lost>>
    BY DEF Connect, Early
<1>2. /\ ~Connected(queue, c) /\ answer[c] = "none" /\ ran[c] <= lost[c]
      /\ ~Due(queue, dpc, c) /\ ran[c] \in Nat /\ lost[c] \in Nat
    BY <1>1, CallerAt DEF Paid
<1>3. CASE ~(sockPath \in Daemon /\ Listening(sockPath))
  <2>1. cpc' = [cpc EXCEPT ![c] = NextTry(c)] /\ UNCHANGED <<queue, spawnLock>>
      BY <1>3 DEF Connect
  <2>2. NextTry(c) \in {"python", "spawn"}
      BY DEF NextTry
  <2>3. /\ NextTry(c) \in Place /\ NextTry(c) \notin AtWait
        /\ NextTry(c) # "finished" /\ NextTry(c) # "spawning"
      BY <2>2 DEF Place, Early, AtWait, AlmostLocal
  <2>4. Paid(NextTry(c), answer[c], ran[c], lost[c], Connected(queue, c), Due(queue, dpc, c))
      BY <1>2, <2>3 DEF Paid
  <2>5. /\ cpc' \in [Caller -> Place] /\ cpc'[c] = NextTry(c)
        /\ \A b \in Caller \ {c} : cpc'[b] = cpc[b]
      BY <2>1, <2>3 DEF DInv, DaemonTyped
  <2>6. /\ answer' \in [Caller -> Reply] /\ ran' \in [Caller -> Nat] /\ lost' \in [Caller -> Nat]
        /\ answer'[c] = answer[c] /\ ran'[c] = ran[c] /\ lost'[c] = lost[c]
      BY <1>1 DEF DInv, DaemonTyped
  <2> QED BY <1>1, <2>1, <2>3, <2>4, <2>5, <2>6, CallerMoved
<1>4. CASE sockPath \in Daemon /\ Listening(sockPath)
  <2> DEFINE to == IF IsNative(c) THEN "native wait" ELSE "python wait"
             q == queue[sockPath]
  <2>1. /\ cpc' = [cpc EXCEPT ![c] = to] /\ queue' = [queue EXCEPT ![sockPath] = Append(q, c)]
        /\ spawnLock' = spawnLock
      BY <1>4 DEF Connect, nameVars
  <2>2. to \in AtWait /\ to \in Place /\ to \notin Early /\ to \notin AlmostLocal
        /\ to # "finished" /\ to # "spawning"
      BY DEF Place, Early, AtWait, AlmostLocal
  <2> HIDE DEF to
  <2>3. /\ q \in Seq(Caller) /\ Append(q, c) \in Seq(Caller) /\ Len(q) \in Nat
        /\ Len(Append(q, c)) = Len(q) + 1 /\ Append(q, c)[Len(q) + 1] = c
        /\ \A i \in 1..Len(q) : Append(q, c)[i] = q[i]
        /\ Append(q, c) # <<>>
    <3>1. q \in Seq(Caller)
        BY <1>4 DEF DInv, DaemonTyped
    <3> HIDE DEF q
    <3> QED BY <3>1
  <2>4. /\ queue'[sockPath] = Append(q, c) /\ queue' \in [Daemon -> Seq(Caller)]
        /\ \A d \in Daemon \ {sockPath} : queue'[d] = queue[d]
      BY <1>4, <2>1, <2>3 DEF DInv, DaemonTyped
  <2>5. \A d \in Daemon : Len(queue[d]) \in Nat
      BY DEF DInv, DaemonTyped
  <2>6. \A d \in Daemon : \A i \in 1..Len(queue'[d]) :
            \/ i \in 1..Len(queue[d]) /\ queue'[d][i] = queue[d][i]
            \/ d = sockPath /\ i = Len(q) + 1 /\ queue'[d][i] = c
      BY <2>3, <2>4, <2>5
  <2>7. \A d \in Daemon : \A i \in 1..Len(queue[d]) : queue[d][i] # c
      BY <1>2 DEF Connected
  <2>8. ConnectedOnce(queue')
      BY <2>6, <2>7 DEF DInv, ConnectedOnce
  <2>9. ASSUME NEW b \in Caller, b # c
        PROVE  /\ Connected(queue', b) => Connected(queue, b)
               /\ Due(queue', dpc', b) => Due(queue, dpc, b)
    <3>1. ASSUME NEW d \in Daemon, NEW i \in 1..Len(queue'[d]), queue'[d][i] = b
          PROVE  i \in 1..Len(queue[d]) /\ queue[d][i] = b
        BY <2>6, <2>9, <3>1
    <3>2. dpc' = dpc
        BY <1>1
    <3> QED BY <3>1, <3>2 DEF Connected, Due
  <2>10. cpc' \in [Caller -> Place] /\ cpc'[c] = to /\ \A b \in Caller \ {c} : cpc'[b] = cpc[b]
      BY <2>1, <2>2 DEF DInv, DaemonTyped
  <2>11. DaemonTyped'
      BY <1>1, <2>4, <2>10 DEF DInv, DaemonTyped
  <2>12. BusyHasClient'
      BY <1>1, <2>3, <2>4 DEF DInv, BusyHasClient
  <2>13. \A b \in Caller : PaidFor(b)'
    <3> SUFFICES ASSUME NEW b \in Caller PROVE PaidFor(b)'
        OBVIOUS
    <3>1. CASE b = c
        BY <1>1, <1>2, <2>2, <2>10, <3>1 DEF PaidFor, Paid
    <3>2. CASE b # c
      <4>1. /\ cpc'[b] = cpc[b] /\ answer'[b] = answer[b] /\ ran'[b] = ran[b] /\ lost'[b] = lost[b]
          BY <1>1, <2>10, <3>2
      <4> QED BY <2>9, <3>2, <4>1, CallerAt, PaidStays DEF PaidFor
    <3> QED BY <3>1, <3>2
  <2>14. SpawnerAlone'
      BY <1>1, <2>1, <2>2, <2>10 DEF DInv, SpawnerAlone, Unborn
  <2> QED BY <2>8, <2>11, <2>12, <2>13, <2>14 DEF DInv, RunsPaid
<1> QED BY <1>3, <1>4

(* An answer, or the patience of a caller, ends its wait. *)
LEMMA WaitEnds ==
    ASSUME DInv, NEW c \in Caller,
           Accepted(c) \/ OutputFails(c) \/ Refused(c) \/ Disconnected(c) \/ TimedOut(c)
    PROVE  DInv'
<1>0. /\ Paid(cpc[c], answer[c], ran[c], lost[c], Connected(queue, c), Due(queue, dpc, c))
      /\ ran[c] \in Nat /\ lost[c] \in Nat
      /\ Due(queue, dpc, c) => Connected(queue, c)
    BY CallerAt
<1>1. /\ cpc[c] \in AtWait /\ cpc[c] # "spawning"
      /\ UNCHANGED <<dpc, queue, ran, spawnLock>>
    BY DEF Accepted, OutputFails, Refused, Disconnected, TimedOut, Waiting, Goes, AtWait, daemonVars, nameVars
<1>2. ran[c] <= lost[c] + 1
    BY <1>0, <1>1 DEF Paid
<1>2a. NextTry(c) \in {"python", "spawn"} /\ (NextTry(c) = "python" => IsNative(c))
    BY DEF NextTry
<1>3. PICK to \in {"python", "spawn", "local", "finished"} :
        /\ cpc' = [cpc EXCEPT ![c] = to]
        /\ to = "python" => answer[c] # "none"
        /\ to \in {"local", "finished"} => answer[c] # "none"
        /\ lost'[c] = lost[c] => to = "finished" \/ answer[c] \in Refusal
        /\ lost'[c] \in {lost[c], lost[c] + 1}
        /\ lost' \in [Caller -> Nat] /\ \A b \in Caller \ {c} : lost'[b] = lost[b]
        /\ answer' \in [Caller -> Reply] /\ answer'[c] = "none"
        /\ \A b \in Caller \ {c} : answer'[b] = answer[b]
  <2>0. lost \in [Caller -> Nat] /\ answer \in [Caller -> Reply] /\ "none" \in Reply
      BY DEF DInv, DaemonTyped, Reply
  <2>1. CASE Accepted(c)
    <3>1. /\ cpc' = [cpc EXCEPT ![c] = "finished"] /\ answer' = [answer EXCEPT ![c] = "none"]
          /\ lost' = lost /\ answer[c] # "none"
        BY <2>1 DEF Accepted
    <3> QED BY <1>0, <2>0, <3>1
  <2>2. CASE Refused(c)
    <3>1. /\ cpc' = [cpc EXCEPT ![c] = NextTry(c)] /\ answer' = [answer EXCEPT ![c] = "none"]
          /\ lost' = [lost EXCEPT ![c] = @ + IF answer[c] = "internal" THEN 1 ELSE 0]
          /\ answer[c] # "internal" => answer[c] \in Refusal
        BY <2>2 DEF Refused, Refusal
    <3>2. /\ lost'[c] = lost[c] + IF answer[c] = "internal" THEN 1 ELSE 0
          /\ lost' \in [Caller -> Nat] /\ \A b \in Caller \ {c} : lost'[b] = lost[b]
        BY <1>0, <2>0, <3>1
    <3>3. answer[c] # "none"
        BY <2>2 DEF Refused
    <3> USE <1>2a
    <3> WITNESS NextTry(c) \in {"python", "spawn", "local", "finished"}
    <3> QED BY <1>0, <2>0, <3>1, <3>2, <3>3
  <2>3. CASE Disconnected(c)
    <3>1. /\ cpc' = [cpc EXCEPT ![c] = NextTry(c)] /\ answer' = [answer EXCEPT ![c] = "none"]
          /\ lost' = [lost EXCEPT ![c] = @ + 1] /\ answer[c] # "none"
        BY <2>3 DEF Disconnected
    <3> USE <1>2a
    <3> WITNESS NextTry(c) \in {"python", "spawn", "local", "finished"}
    <3> QED BY <1>0, <2>0, <3>1
  <2>4. CASE TimedOut(c)
    <3>1. /\ cpc' = [cpc EXCEPT ![c] = "spawn"] /\ answer' = answer /\ answer[c] = "none"
          /\ lost' = [lost EXCEPT ![c] = @ + 1]
        BY <2>4 DEF TimedOut, Goes
    <3> QED BY <1>0, <2>0, <3>1
  <2>5. CASE OutputFails(c)
    <3>1. /\ cpc' = [cpc EXCEPT ![c] = "local"] /\ answer' = [answer EXCEPT ![c] = "none"]
          /\ lost' = [lost EXCEPT ![c] = @ + 1] /\ answer[c] # "none"
        BY <2>5 DEF OutputFails
    <3> QED BY <1>0, <2>0, <3>1
  <2> QED BY <2>1, <2>2, <2>3, <2>4, <2>5
<1>4. /\ to \in Place /\ to \notin AtWait /\ to # "spawning"
      /\ to \in Early => answer[c] # "none"
      /\ to \in AlmostLocal => to \in {"spawn", "local"}
    BY <1>3 DEF Place, Early, AtWait, AlmostLocal
<1>5. /\ cpc' \in [Caller -> Place] /\ cpc'[c] = to
      /\ \A b \in Caller \ {c} : cpc'[b] = cpc[b]
      /\ ran' \in [Caller -> Nat] /\ ran' = ran
    BY <1>1, <1>3, <1>4 DEF DInv, DaemonTyped
<1>7. /\ answer[c] # "none" => ~Connected(queue, c) /\ ~Due(queue, dpc, c)
      /\ answer[c] \in Refusal => ran[c] <= lost[c] /\ answer[c] # "none"
      /\ answer[c] = "none" /\ Due(queue, dpc, c) => ran[c] <= lost[c]
    BY <1>0, <1>1 DEF Paid, Refusal
<1>8. Paid(to, "none", ran[c], lost'[c], Connected(queue, c), Due(queue, dpc, c))
  <2>1. CASE to = "python"
      BY <1>0, <1>2, <1>3, <1>4, <1>7, <2>1 DEF Paid, AlmostLocal
  <2>2. CASE to \in {"spawn", "local"}
    <3>1. to \notin Early /\ to \notin AtWait /\ to # "finished"
        BY <1>4, <2>2 DEF Early
    <3>2. ran[c] <= lost'[c]
        BY <1>0, <1>2, <1>3, <1>7, <2>2
    <3>3. Due(queue, dpc, c) => ran[c] + 1 <= lost'[c]
      <4> HAVE Due(queue, dpc, c)
      <4>1. answer[c] = "none" /\ ran[c] <= lost[c]
          BY <1>7
      <4>2. lost'[c] = lost[c] + 1
          BY <1>3, <1>7, <2>2, <4>1
      <4> QED BY <1>0, <4>1, <4>2
    <3> QED BY <3>1, <3>2, <3>3 DEF Paid
  <2>3. CASE to = "finished"
    <3>1. to \notin Early /\ to \notin AtWait /\ to \notin AlmostLocal
        BY <1>4, <2>3 DEF Early
    <3>2. ran[c] <= lost'[c] + 1 /\ ~Due(queue, dpc, c)
        BY <1>0, <1>2, <1>3, <1>7, <2>3
    <3> QED BY <3>1, <3>2 DEF Paid
  <2> QED BY <1>3, <2>1, <2>2, <2>3
<1> QED BY <1>1, <1>3, <1>4, <1>5, <1>8, CallerMoved

(* The least of the unborn daemons. *)
LEMMA UnbornHasLeast ==
    ASSUME Unborn # {}
    PROVE  (CHOOSE d \in Unborn : \A e \in Unborn : d <= e) \in Unborn
<1>1. Unborn \subseteq Nat
    BY DaemonAssumption DEF Unborn
<1>2. \E d \in Unborn : \A e \in Unborn : d <= e
    BY <1>1, LeastNat
<1> QED BY <1>2

LEMMA SpawnStep ==
    ASSUME DInv, NEW c \in Caller, LockSpawn(c) \/ Spawn(c) PROVE DInv'
<1>0. /\ Paid(cpc[c], answer[c], ran[c], lost[c], Connected(queue, c), Due(queue, dpc, c))
      /\ ran[c] \in Nat /\ lost[c] \in Nat
    BY CallerAt
<1>1. PICK to \in {"local", "spawning"} : cpc' = [cpc EXCEPT ![c] = to]
    BY DEF LockSpawn, Spawn, Goes
<1>2. /\ cpc[c] \in AlmostLocal /\ UNCHANGED <<queue, answer, ran, lost>>
    BY DEF LockSpawn, Spawn, Goes, AlmostLocal, daemonVars, callerVars
<1>3. /\ to \in Place /\ to \in AlmostLocal /\ to \notin Early /\ to \notin AtWait /\ to # "finished"
    BY DEF Place, Early, AtWait, AlmostLocal
<1>4. Paid(to, answer[c], ran[c], lost[c], Connected(queue, c), Due(queue, dpc, c))
    BY <1>0, <1>2, <1>3 DEF Paid
<1>5. /\ cpc' \in [Caller -> Place] /\ cpc'[c] = to /\ answer' \in [Caller -> Reply]
      /\ ran' \in [Caller -> Nat] /\ lost' \in [Caller -> Nat]
      /\ \A b \in Caller \ {c} : cpc'[b] = cpc[b]
    BY <1>1, <1>2, <1>3 DEF DInv, DaemonTyped
<1>6. CASE LockSpawn(c)
  <2>1. UNCHANGED dpc /\ cpc[c] = "spawn"
      BY <1>6 DEF LockSpawn, daemonVars
  <2>2. DaemonTyped' /\ BusyHasClient' /\ ConnectedOnce(queue)' /\ RunsPaid'
      BY <1>2, <1>4, <1>5, <2>1, CallerMoved
  <2>3. SpawnerAlone'
    <3>1. CASE Reachable \/ spawnLock \/ Unborn = {}
      <4>1. cpc'[c] = "local" /\ spawnLock' = spawnLock
          BY <1>6, <3>1 DEF LockSpawn, DInv, DaemonTyped
      <4> QED BY <1>5, <2>1, <4>1 DEF DInv, SpawnerAlone, Unborn
    <3>2. CASE ~(Reachable \/ spawnLock \/ Unborn = {})
      <4>1. spawnLock' /\ ~spawnLock /\ Unborn # {}
          BY <1>6, <3>2 DEF LockSpawn
      <4>2. \A b \in Caller : cpc[b] # "spawning"
          BY <4>1 DEF DInv, SpawnerAlone
      <4> QED BY <1>5, <2>1, <4>1, <4>2 DEF SpawnerAlone, Unborn
    <3> QED BY <3>1, <3>2
  <2> QED BY <2>2, <2>3 DEF DInv
<1>7. CASE Spawn(c)
  <2> DEFINE n == CHOOSE d \in Unborn : \A e \in Unborn : d <= e
  <2>1. /\ cpc[c] = "spawning" /\ cpc'[c] = "local" /\ dpc' = [dpc EXCEPT ![n] = "booting"]
      BY <1>5, <1>7 DEF Spawn, Goes, DInv, DaemonTyped
  <2>2. n \in Unborn /\ \A b \in Caller : cpc[b] = "spawning" => b = c
      BY <2>1, UnbornHasLeast DEF DInv, SpawnerAlone
  <2> HIDE DEF n
  <2>3. /\ n \in Daemon /\ dpc[n] = "unborn" /\ dpc' \in [Daemon -> DaemonPlace]
        /\ dpc'[n] = "booting" /\ \A d \in Daemon \ {n} : dpc'[d] = dpc[d]
      BY <2>1, <2>2 DEF Unborn, DInv, DaemonTyped, DaemonPlace
  <2>4. DaemonTyped' /\ BusyHasClient'
      BY <1>2, <1>5, <2>3 DEF DInv, DaemonTyped, BusyHasClient, Busy, Served
  <2>5. ConnectedOnce(queue)' /\ \A b \in Caller : Connected(queue, b)' <=> Connected(queue, b)
      BY <1>2 DEF DInv, ConnectedOnce, Connected
  <2>6. \A b \in Caller : Due(queue, dpc, b)' => Due(queue, dpc, b)
      BY <1>2, <2>3 DEF Due, Served
  <2>7. \A b \in Caller : PaidFor(b)'
    <3> SUFFICES ASSUME NEW b \in Caller PROVE PaidFor(b)'
        OBVIOUS
    <3>1. Paid(cpc'[b], answer[b], ran[b], lost[b], Connected(queue, b), Due(queue, dpc, b))
        BY <1>4, <1>5, CallerAt
    <3> QED BY <1>2, <2>5, <2>6, <3>1, CallerAt, PaidStays DEF PaidFor
  <2>8. SpawnerAlone'
      BY <1>5, <2>1, <2>2 DEF SpawnerAlone
  <2> QED BY <2>4, <2>5, <2>7, <2>8 DEF DInv, RunsPaid
<1> QED BY <1>6, <1>7

LEMMA LocalStep ==
    ASSUME DInv, NEW c \in Caller, RunLocally(c) PROVE DInv'
<1>0. /\ Paid(cpc[c], answer[c], ran[c], lost[c], Connected(queue, c), Due(queue, dpc, c))
      /\ ran[c] \in Nat /\ lost[c] \in Nat
    BY CallerAt
<1>1. /\ cpc[c] = "local" /\ cpc' = [cpc EXCEPT ![c] = "finished"]
      /\ ran' = [ran EXCEPT ![c] = @ + 1]
      /\ UNCHANGED <<dpc, queue, answer, lost, spawnLock>>
    BY DEF RunLocally, Goes, daemonVars, nameVars
<1>2. /\ cpc' \in [Caller -> Place] /\ cpc'[c] = "finished"
      /\ \A b \in Caller \ {c} : cpc'[b] = cpc[b]
    BY <1>1 DEF DInv, DaemonTyped, Place
<1>3. /\ ran' \in [Caller -> Nat] /\ ran'[c] = ran[c] + 1
      /\ \A b \in Caller \ {c} : ran'[b] = ran[b]
    BY <1>1 DEF DInv, DaemonTyped
<1>4. answer' \in [Caller -> Reply] /\ lost' \in [Caller -> Nat]
    BY <1>1 DEF DInv, DaemonTyped
<1>5. Paid("finished", answer[c], ran[c] + 1, lost[c], Connected(queue, c), Due(queue, dpc, c))
    BY <1>0, <1>1 DEF Paid, Early, AtWait, AlmostLocal
<1> QED BY <1>1, <1>2, <1>3, <1>4, <1>5, CallerMoved

(* What the kernel tells the callers of a daemon that ends. *)
LEMMA HangupStep ==
    ASSUME DInv, NEW d \in Daemon, Hangup(d), dpc[d] # "unborn",
           dpc' = [dpc EXCEPT ![d] = "gone"], UNCHANGED <<cpc, ran, lost, spawnLock>>
    PROVE  DInv'
<1>1. queue' = [queue EXCEPT ![d] = <<>>] /\ queue'[d] = <<>>
    BY DEF Hangup, DInv, DaemonTyped
<1>2. dpc' \in [Daemon -> DaemonPlace] /\ dpc'[d] = "gone" /\ \A e \in Daemon \ {d} : dpc'[e] = dpc[e]
    BY DEF DInv, DaemonTyped, DaemonPlace
<1>3. Recedes(d)
    BY <1>1, <1>2 DEF Recedes, DInv, DaemonTyped
<1>4. \A c \in Caller : (\E i \in DOMAIN queue[d] : queue[d][i] = c) => ~Connected(queue', c)
    BY <1>1, <1>3, ReceedsWell DEF DInv
<1>5. \A c \in Caller : answer'[c] = answer[c] \/
         /\ Waiting(c) /\ answer[c] = "none" /\ answer'[c] = "closed"
         /\ \E i \in DOMAIN queue[d] : queue[d][i] = c
    BY DEF Hangup
<1>6. answer' \in [Caller -> Reply]
  <2>1. answer' = [c \in Caller |-> answer'[c]]
      BY DEF Hangup
  <2>2. \A c \in Caller : answer'[c] = answer[c] \/ answer'[c] = "closed"
      BY <1>5
  <2>3. \A c \in Caller : answer'[c] \in Reply
      BY <2>2 DEF DInv, DaemonTyped, Reply
  <2> QED BY <2>1, <2>3
<1>7. "gone" \notin Busy /\ "closed" \notin Refusal
    BY DEF Busy, Served, Refusal
<1>8. \A c \in Caller : answer'[c] = answer[c] \/
          /\ cpc[c] \in AtWait /\ answer[c] = "none" /\ answer'[c] # "none"
          /\ answer'[c] \in Refusal => Due(queue, dpc, c)
          /\ ~Connected(queue', c)
    BY <1>4, <1>5, <1>7 DEF Waiting, AtWait
<1> QED BY <1>2, <1>3, <1>6, <1>7, <1>8, ConnectionsClosed

(* The client of a daemon that is at a request is the first in its queue. *)
LEMMA ClientAt ==
    ASSUME DInv, NEW d \in Daemon, queue[d] # <<>>
    PROVE  /\ Client(d) \in Caller /\ Client(d) = queue[d][1] /\ 1 \in 1..Len(queue[d])
           /\ Connected(queue, Client(d))
           /\ dpc[d] \notin Served => Due(queue, dpc, Client(d))
<1>1. queue[d] \in Seq(Caller)
    BY DEF DInv, DaemonTyped
<1>2. Client(d) \in Caller /\ Client(d) = queue[d][1] /\ 1 \in 1..Len(queue[d])
    BY <1>1 DEF Client
<1> QED BY <1>2 DEF Connected, Due

(* The answer to the client, whose connection is then closed. *)
LEMMA AnswerStep ==
    ASSUME DInv, NEW d \in Daemon, NEW a \in Reply \ {"none"}, queue[d] # <<>>,
           answer' = Sent(Client(d), a), queue' = [queue EXCEPT ![d] = Tail(@)],
           dpc' \in [Daemon -> DaemonPlace], \A e \in Daemon \ {d} : dpc'[e] = dpc[e],
           dpc[d] # "unborn", dpc'[d] # "unborn", dpc'[d] \notin Busy,
           a \in Refusal => dpc[d] \notin Served, UNCHANGED <<cpc, ran, lost, spawnLock>>
    PROVE  DInv'
<1>1. Recedes(d)
    BY DEF Recedes, DInv, DaemonTyped
<1>2. ~Connected(queue', Client(d))
    BY <1>1, ReceedsWell DEF DInv, Client
<1>3. answer' \in [Caller -> Reply]
    BY DEF Sent, DInv, DaemonTyped
<1>4. \A c \in Caller : answer'[c] = answer[c] \/
          /\ cpc[c] \in AtWait /\ answer[c] = "none" /\ answer'[c] = a
          /\ c = Client(d)
    BY ClientAt DEF Sent, DInv, DaemonTyped, Waiting, AtWait
<1>5. \A c \in Caller : answer'[c] = answer[c] \/
          /\ cpc[c] \in AtWait /\ answer[c] = "none" /\ answer'[c] # "none"
          /\ answer'[c] \in Refusal => Due(queue, dpc, c)
          /\ ~Connected(queue', c)
    BY <1>2, <1>4, ClientAt
<1> QED BY <1>1, <1>3, <1>5, ConnectionsClosed

(* The command of the client runs, and is not due again. *)
LEMMA RunStep ==
    ASSUME DInv, NEW d \in Daemon, dpc[d] = "serving", NEW p \in Served, NEW n \in {0, 1},
           dpc' = [dpc EXCEPT ![d] = p], ran' = [ran EXCEPT ![Client(d)] = @ + n],
           UNCHANGED <<queue, cpc, answer, lost, spawnLock>>
    PROVE  DInv'
<1>1. queue[d] # <<>> /\ dpc[d] \notin Served
    BY DEF DInv, BusyHasClient, Busy, Served
<1>2. PICK k \in Caller :
        /\ k = Client(d) /\ k = queue[d][1] /\ 1 \in 1..Len(queue[d])
        /\ Connected(queue, k) /\ Due(queue, dpc, k)
    BY <1>1, ClientAt
<1>3. /\ ran' \in [Caller -> Nat] /\ ran'[k] = ran[k] + n
      /\ \A c \in Caller \ {k} : ran'[c] = ran[c]
    BY <1>2 DEF DInv, DaemonTyped
<1>4. /\ dpc' \in [Daemon -> DaemonPlace] /\ dpc'[d] = p
      /\ \A e \in Daemon \ {d} : dpc'[e] = dpc[e]
    BY DEF DInv, DaemonTyped, DaemonPlace, Busy
<1>5. DaemonTyped'
    BY <1>3, <1>4 DEF DInv, DaemonTyped
<1>6. BusyHasClient'
    BY <1>1, <1>4 DEF DInv, BusyHasClient
<1>7. ConnectedOnce(queue)' /\ \A c \in Caller : Connected(queue, c)' <=> Connected(queue, c)
    BY DEF DInv, ConnectedOnce, Connected
<1>8. \A c \in Caller : Due(queue, dpc, c)' => Due(queue, dpc, c)
    BY <1>1, <1>4 DEF Due
<1>9. ~Due(queue, dpc, k)'
  <2> SUFFICES ASSUME Due(queue, dpc, k)' PROVE FALSE
      OBVIOUS
  <2>1. PICK e \in Daemon :
          \E i \in 1..Len(queue[e]) : queue[e][i] = k /\ ~(i = 1 /\ dpc'[e] \in Served)
      BY DEF Due
  <2>2. PICK i \in 1..Len(queue[e]) : queue[e][i] = k /\ ~(i = 1 /\ dpc'[e] \in Served)
      BY <2>1
  <2>3. e = d /\ i = 1
      BY <1>2, <2>2 DEF DInv, ConnectedOnce
  <2> QED BY <1>4, <2>2, <2>3
<1>10. \A c \in Caller : PaidFor(c)'
  <2> SUFFICES ASSUME NEW c \in Caller PROVE PaidFor(c)'
      OBVIOUS
  <2>0. /\ Paid(cpc[c], answer[c], ran[c], lost[c], Connected(queue, c), Due(queue, dpc, c))
        /\ ran[c] \in Nat /\ lost[c] \in Nat
      BY CallerAt
  <2>1. CASE c = k
    <3>1. /\ cpc[c] \notin Early
          /\ cpc[c] \in AtWait => answer[c] = "none" /\ ran[c] <= lost[c]
          /\ cpc[c] \in AlmostLocal => ran[c] + 1 <= lost[c]
          /\ cpc[c] = "finished" => ran[c] <= lost[c]
        BY <1>2, <2>0, <2>1 DEF Paid
    <3>2. ran'[c] \in Nat /\ ran'[c] <= ran[c] + 1
        BY <1>3, <2>0, <2>1
    <3>3. Paid(cpc[c], answer[c], ran'[c], lost[c], Connected(queue, c), FALSE)
        BY <2>0, <3>1, <3>2 DEF Paid
    <3> QED BY <1>7, <1>9, <2>1, <3>3 DEF PaidFor, Paid
  <2>2. CASE c # k
    <3>1. Paid(cpc[c], answer[c], ran[c], lost[c], Connected(queue, c)', Due(queue, dpc, c)')
        BY <1>7, <1>8, <2>0 DEF Paid
    <3> QED BY <1>3, <2>2, <3>1 DEF PaidFor
  <2> QED BY <2>1, <2>2
<1>11. SpawnerAlone'
    BY <1>4 DEF DInv, SpawnerAlone, Unborn, Served
<1> QED BY <1>5, <1>6, <1>7, <1>10, <1>11 DEF DInv, RunsPaid

LEMMA NobodyMoves ==
    ASSUME DInv, UNCHANGED <<dpc, queue, cpc, answer, ran, lost, spawnLock>> PROVE DInv'
<1>1. DaemonTyped' /\ BusyHasClient' /\ SpawnerAlone'
    BY DEF DInv, DaemonTyped, BusyHasClient, SpawnerAlone, Unborn
<1>2. ConnectedOnce(queue)'
    BY DEF DInv, ConnectedOnce
<1>3. RunsPaid'
    BY DEF DInv, RunsPaid, PaidFor
<1> QED BY <1>1, <1>2, <1>3 DEF DInv

LEMMA DInvStep == DInv /\ [DmNext]_dmVars => DInv'
<1> SUFFICES ASSUME DInv, [DmNext]_dmVars PROVE DInv'
    OBVIOUS
<1>0. /\ \A d \in Daemon : dpc[d] \in DaemonPlace
      /\ \A d \in Daemon, p \in DaemonPlace :
             LET new == [dpc EXCEPT ![d] = p]
             IN  /\ new \in [Daemon -> DaemonPlace] /\ new[d] = p
                 /\ \A e \in Daemon \ {d} : new[e] = dpc[e]
    BY DEF DInv, DaemonTyped
<1>1. ASSUME NEW c \in Caller, CallerStep(c) PROVE DInv'
    BY <1>1, BeginStep, ConnectStep, WaitEnds, SpawnStep, LocalStep DEF CallerStep
<1>2. ASSUME NEW d \in Daemon, Bind(d) \/ WriteKey(d) \/ WriteState(d) \/ IdleStop(d)
      PROVE  DInv'
  <2>1. PICK p \in {"listening", "keyed", "idle", "closing"} : dpc' = [dpc EXCEPT ![d] = p]
      BY <1>2 DEF Bind, WriteKey, WriteState, IdleStop
  <2>2. /\ dpc[d] \in {"booting", "listening", "keyed", "idle"}
        /\ UNCHANGED <<queue, cpc, answer, ran, lost, spawnLock>>
      BY <1>2 DEF Bind, WriteKey, WriteState, IdleStop, callerVars, nameVars
  <2>3. p \in DaemonPlace /\ p \notin Busy /\ p # "unborn" /\ dpc[d] \notin Served /\ dpc[d] # "unborn"
      BY <2>2 DEF DaemonPlace, Busy, Served
  <2> QED BY <1>0, <2>1, <2>2, <2>3, DaemonMoved
<1>3. ASSUME NEW d \in Daemon, Accept(d) PROVE DInv'
  <2>1. /\ dpc' = [dpc EXCEPT ![d] = "serving"] /\ dpc[d] = "idle" /\ queue[d] # <<>>
        /\ UNCHANGED <<queue, cpc, answer, ran, lost, spawnLock>>
      BY <1>3 DEF Accept, callerVars, nameVars
  <2>2. "serving" \in DaemonPlace /\ "idle" \notin Served
      BY DEF DaemonPlace, Busy, Served
  <2> QED BY <1>0, <2>1, <2>2, DaemonMoved
<1>4. ASSUME NEW d \in Daemon, Turn(d) PROVE DInv'
  <2>1. /\ dpc[d] = "idle" /\ dpc' = dpc /\ queue[d] # <<>>
        /\ answer' = Sent(Client(d), Verdict(d)) /\ queue' = [queue EXCEPT ![d] = Tail(@)]
        /\ UNCHANGED <<cpc, ran, lost, spawnLock>>
      BY <1>4 DEF Turn, nameVars
  <2>2. Verdict(d) \in Reply \ {"none"}
      BY <1>4 DEF Turn, Verdict, Reply, Refusal
  <2>3. dpc[d] \notin Busy /\ dpc[d] \notin Served /\ dpc \in [Daemon -> DaemonPlace]
      BY <2>1 DEF Busy, Served, DInv, DaemonTyped
  <2> QED BY <2>1, <2>2, <2>3, AnswerStep
<1>5. ASSUME NEW d \in Daemon, Respond(d) PROVE DInv'
  <2>1. PICK p \in {"closing", "idle"} : dpc' = [dpc EXCEPT ![d] = p]
      BY <1>5 DEF Respond
  <2>2. /\ dpc[d] \in Served /\ answer' = Sent(Client(d), dpc[d])
        /\ queue' = [queue EXCEPT ![d] = Tail(@)]
        /\ UNCHANGED <<cpc, ran, lost, spawnLock>>
      BY <1>5 DEF Respond, Served
  <2>3. /\ queue[d] # <<>> /\ dpc[d] \in Reply \ {"none"} /\ dpc[d] \notin Refusal
        /\ dpc[d] # "unborn" /\ p # "unborn" /\ p \notin Busy /\ p \in DaemonPlace
      BY <2>2 DEF DInv, BusyHasClient, Busy, Served, Reply, Refusal, DaemonPlace
  <2> QED BY <1>0, <2>1, <2>2, <2>3, AnswerStep
<1>6. ASSUME NEW d \in Daemon, Execute(d) \/ Fails(d) PROVE DInv'
  <2>1. PICK p \in Served, n \in {0, 1} :
           dpc' = [dpc EXCEPT ![d] = p] /\ ran' = [ran EXCEPT ![Client(d)] = @ + n]
    <3>1. CASE Execute(d)
        BY <3>1 DEF Execute, Effect, Served
    <3>2. CASE Fails(d)
        BY <3>2 DEF Fails, Served
    <3> QED BY <1>6, <3>1, <3>2
  <2>2. dpc[d] = "serving" /\ UNCHANGED <<queue, cpc, answer, lost, spawnLock>>
      BY <1>6 DEF Execute, Fails, nameVars
  <2> QED BY <2>1, <2>2, RunStep
<1>7. ASSUME NEW d \in Daemon, Close(d) \/ WatchdogExit(d) \/ Crash(d) PROVE DInv'
    BY <1>7, HangupStep DEF Close, WatchdogExit, Crash, nameVars
<1>8. ASSUME DaemonStop PROVE DInv'
  <2>0. UNCHANGED <<cpc, ran, lost, spawnLock>>
      BY <1>8 DEF DaemonStop
  <2>1. CASE stateFile \in Live
      BY <1>8, <2>0, <2>1, HangupStep DEF DaemonStop, Live
  <2>2. CASE stateFile \notin Live
    <3>1. UNCHANGED <<dpc, queue, answer>>
        BY <1>8, <2>2 DEF DaemonStop
    <3> QED BY <2>0, <3>1, NobodyMoves
  <2> QED BY <2>1, <2>2
<1>9. ASSUME EditCode \/ UNCHANGED dmVars \/ \E d \in Daemon : Trim(d) PROVE DInv'
  <2>1. UNCHANGED <<dpc, queue, cpc, answer, ran, lost, spawnLock>>
      BY <1>9 DEF EditCode, Trim, dmVars, daemonVars, nameVars, callerVars
  <2> QED BY <2>1, NobodyMoves
<1> QED BY <1>1, <1>2, <1>3, <1>4, <1>5, <1>6, <1>7, <1>8, <1>9 DEF DmNext, ServeStep

(* A command runs once more only for each answer that was lost with a daemon  *)
(* or could not be written out, for any callers and daemons: a refused        *)
(* request has not run, and a client that has told its user the result does   *)
(* not run the command itself.                                                *)
THEOREM NoRerunWithoutLoss == DmSpec => []RerunOnlyAfterLoss
<1>1. DInv => RerunOnlyAfterLoss
  <2> SUFFICES ASSUME DInv, NEW c \in Caller PROVE ran[c] <= 1 + lost[c]
      BY DEF RerunOnlyAfterLoss
  <2>1. /\ Paid(cpc[c], answer[c], ran[c], lost[c], Connected(queue, c), Due(queue, dpc, c))
        /\ cpc[c] \in Place /\ ran[c] \in Nat /\ lost[c] \in Nat
      BY CallerAt
  <2> QED BY <2>1 DEF Paid, Place
<1> QED BY <1>1, DInvInit, DInvStep, PTL DEF DmSpec
=============================================================================
