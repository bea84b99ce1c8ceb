----------------------------- MODULE CommandDaemon -----------------------------
(***************************************************************************)
(* The `av` launchers and the daemon behind them: daemon.py (the server),  *)
(* daemon_client.py and launcher.py (the Python client), av_launcher.cpp   *)
(* (the native client) and `av daemon start / stop`.                       *)
(*                                                                         *)
(* A caller is one invocation of an allowlisted command.  It asks a daemon *)
(* for it, and runs the command itself when that fails for any reason.     *)
(* Daemons of one repository share three names: the socket path, the state *)
(* file and the key file; the model is of the POSIX transport.  A command  *)
(* does its work the first time it runs: run again, it finds nothing left  *)
(* to do and fails, as `av commit` does.                                   *)
(***************************************************************************)
EXTENDS Integers, Sequences, FiniteSets

CONSTANTS Caller, Native,   \* invocations; those made through the native launcher
          Daemon, NoDaemon, \* daemon processes, in the order of their ids
          MaxErrors,        \* MAX_CONSECUTIVE_INTERNAL_ERRORS
          MaxCodeEdits          \* bound: edits of the installed package

ASSUME DaemonAssumption ==
    /\ Native \subseteq Caller
    /\ Daemon \subseteq Nat /\ NoDaemon \notin Daemon
    /\ {MaxErrors, MaxCodeEdits} \subseteq Nat

VARIABLES
    dpc,         \* daemon -> where its process is
    queue,       \* daemon -> callers connected to its listener, in order
    errors,      \* daemon -> consecutive internal errors
    trimmed,     \* daemon -> trimmed since its last request
    codeOf,      \* daemon -> the version of the code it took its snapshot of, or NoSnapshot
    code,        \* the version of the code on disk
    sockPath, stateFile, keyFile,   \* the daemon each name belongs to, or NoDaemon
    breadcrumb,  \* the discovery file of the native launcher is there
    spawnLock,   \* the .lock file is there
    cpc,         \* caller -> where its process is
    token,       \* caller -> the daemon whose key it read
    answer,      \* caller -> what the daemon sent back, "none" while nothing
    ran,         \* caller -> times its command ran
    lost,        \* caller -> requests sent whose result did not reach the user
    result       \* caller -> what the user is told

daemonVars == <<dpc, queue, errors, trimmed, codeOf, code>>
nameVars == <<sockPath, stateFile, keyFile, breadcrumb, spawnLock>>
callerVars == <<cpc, token, answer, ran, lost, result>>
dmVars == <<daemonVars, nameVars, callerVars>>

Unborn == {d \in Daemon : dpc[d] = "unborn"}
Live == {d \in Daemon : dpc[d] \notin {"unborn", "gone"}}
Listening(d) == dpc[d] \in {"listening", "keyed", "idle", "serving", "done", "nothing to do",
                           "internal", "closing"}

First == CHOOSE d \in Daemon : \A e \in Daemon : d <= e
NoSnapshot == -1     \* no request has been let in yet

(* No daemon, or one that was started earlier and waits; with or without a    *)
(* discovery file from an earlier one.                                        *)
DmInit ==
    \E up \in {NoDaemon, First} :
    /\ dpc = [d \in Daemon |-> IF d = up THEN "idle" ELSE "unborn"]
    /\ sockPath = up /\ stateFile = up /\ keyFile = up
    /\ queue = [d \in Daemon |-> <<>>]
    /\ errors = [d \in Daemon |-> 0]
    /\ trimmed = [d \in Daemon |-> FALSE]
    /\ codeOf \in {[d \in Daemon |-> IF d = up THEN v ELSE NoSnapshot] : v \in {NoSnapshot, 0}}
    /\ code = 0
    /\ breadcrumb \in BOOLEAN /\ spawnLock = FALSE
    /\ cpc = [c \in Caller |-> "begin"]
    /\ token = [c \in Caller |-> NoDaemon]
    /\ answer = [c \in Caller |-> "none"]
    /\ ran = [c \in Caller |-> 0]
    /\ lost = [c \in Caller |-> 0]
    /\ result = [c \in Caller |-> "none"]

(* What running the command comes to, the first time and after that. *)
Effect(c) == IF ran[c] = 0 THEN "done" ELSE "nothing to do"

(***************************************************************************)
(* The callers.  The native launcher asks once, on the strength of its     *)
(* discovery file; when that fails it becomes the Python launcher, which   *)
(* asks again, then spawns a daemon for the next time and runs the command *)
(* in its own process.                                                     *)
(***************************************************************************)
Goes(c, from, to) == cpc[c] = from /\ cpc' = [cpc EXCEPT ![c] = to]
IsNative(c) == cpc[c] \in {"native key", "native connect", "native wait"}
NextTry(c) == IF IsNative(c) THEN "python" ELSE "spawn"

BeginCommand(c) ==
    /\ Goes(c, "begin", IF c \in Native /\ breadcrumb THEN "native key" ELSE "python")
    /\ UNCHANGED <<daemonVars, nameVars, token, answer, ran, lost, result>>

(* call_daemon: no state file, no daemon. *)
ReadState(c) ==
    /\ Goes(c, "python", IF stateFile = NoDaemon THEN "spawn" ELSE "python key")
    /\ UNCHANGED <<daemonVars, nameVars, token, answer, ran, lost, result>>

ReadKey(c) ==
    /\ cpc[c] \in {"native key", "python key"}
    /\ cpc' = [cpc EXCEPT ![c] = IF keyFile = NoDaemon THEN NextTry(c)
                                 ELSE IF IsNative(c) THEN "native connect" ELSE "python connect"]
    /\ token' = [token EXCEPT ![c] = keyFile]
    /\ UNCHANGED <<daemonVars, nameVars, answer, ran, lost, result>>

(* Connect and send.  A connection waits in the backlog of the listener the   *)
(* path leads to.  When there is none the Python client removes the state and *)
(* the key file, whoever wrote them.                                          *)
Connect(c) ==
    /\ cpc[c] \in {"native connect", "python connect"}
    /\ \/ /\ sockPath \in Daemon /\ Listening(sockPath)
          /\ cpc' = [cpc EXCEPT ![c] = IF IsNative(c) THEN "native wait" ELSE "python wait"]
          /\ queue' = [queue EXCEPT ![sockPath] = Append(@, c)]
          /\ UNCHANGED nameVars
       \/ /\ ~(sockPath \in Daemon /\ Listening(sockPath))
          /\ cpc' = [cpc EXCEPT ![c] = NextTry(c)]
          /\ IF IsNative(c) THEN UNCHANGED <<stateFile, keyFile>>
             ELSE stateFile' = NoDaemon /\ keyFile' = NoDaemon
          /\ UNCHANGED <<queue, sockPath, breadcrumb, spawnLock>>
    /\ UNCHANGED <<dpc, errors, trimmed, codeOf, code, token, answer, ran, lost, result>>

Waiting(c) == cpc[c] \in {"native wait", "python wait"}

(* The daemon's result, with the MAC that its token gives for the nonce.  The *)
(* Python client leaves the discovery file behind when the native launcher    *)
(* started it.                                                                *)
Accepted(c) ==
    /\ Waiting(c) /\ answer[c] \in {"done", "nothing to do"}
    /\ result' = [result EXCEPT ![c] = answer[c]]
    /\ cpc' = [cpc EXCEPT ![c] = "finished"]
    /\ answer' = [answer EXCEPT ![c] = "none"]
    /\ breadcrumb' = (breadcrumb \/ c \in Native)
    /\ UNCHANGED <<daemonVars, sockPath, stateFile, keyFile, spawnLock, token, ran, lost>>

(* The Python launcher writes the result out inside its guard against any     *)
(* failure of the daemon: when that raises (a closed pipe, a full disk, a     *)
(* character the terminal has no code for) the command is run here, although  *)
(* the daemon ran it. The native launcher ignores the failure.                *)
OutputFails(c) ==
    /\ cpc[c] = "python wait" /\ answer[c] \in {"done", "nothing to do"}
    /\ cpc' = [cpc EXCEPT ![c] = "local"]
    /\ answer' = [answer EXCEPT ![c] = "none"]
    /\ lost' = [lost EXCEPT ![c] = @ + 1]
    /\ breadcrumb' = (breadcrumb \/ c \in Native)
    /\ UNCHANGED <<daemonVars, sockPath, stateFile, keyFile, spawnLock, token, ran, result>>

(* An error, any error: on to the next way of running the command.  "internal" *)
(* is an exception out of the command itself: it does not say how far it got. *)
Refused(c) ==
    /\ Waiting(c) /\ answer[c] \in {"auth_failed", "version_skew", "internal"}
    /\ lost' = [lost EXCEPT ![c] = @ + IF answer[c] = "internal" THEN 1 ELSE 0]
    /\ cpc' = [cpc EXCEPT ![c] = NextTry(c)]
    /\ answer' = [answer EXCEPT ![c] = "none"]
    /\ IF answer[c] = "version_skew" /\ ~IsNative(c)
       THEN stateFile' = NoDaemon /\ keyFile' = NoDaemon
       ELSE UNCHANGED <<stateFile, keyFile>>
    /\ UNCHANGED <<daemonVars, sockPath, breadcrumb, spawnLock, token, ran, result>>

(* The connection ends without an answer; the daemon's exit closes it.        *)
Disconnected(c) ==
    /\ Waiting(c) /\ answer[c] = "closed"
    /\ cpc' = [cpc EXCEPT ![c] = NextTry(c)]
    /\ answer' = [answer EXCEPT ![c] = "none"]
    /\ lost' = [lost EXCEPT ![c] = @ + 1]
    /\ UNCHANGED <<daemonVars, nameVars, token, ran, result>>

(* REQUEST_TIMEOUT_SECONDS, in the Python client only.  The request stays     *)
(* where it is: a daemon that is running it goes on.                          *)
TimedOut(c) ==
    /\ Goes(c, "python wait", "spawn")
    /\ answer[c] = "none"
    /\ lost' = [lost EXCEPT ![c] = @ + 1]
    /\ UNCHANGED <<daemonVars, nameVars, token, answer, ran, result>>

(* maybe_auto_spawn and `av daemon start`: nothing while a daemon answers at  *)
(* the path, or another invocation holds the lock, which covers the spawn     *)
(* itself and not the start of the daemon.                                    *)
Reachable == stateFile # NoDaemon /\ sockPath \in Daemon /\ Listening(sockPath)

LockSpawn(c) ==
    /\ cpc[c] = "spawn"
    /\ IF Reachable \/ spawnLock \/ Unborn = {}
       THEN cpc' = [cpc EXCEPT ![c] = "local"] /\ UNCHANGED spawnLock
       ELSE cpc' = [cpc EXCEPT ![c] = "spawning"] /\ spawnLock' = TRUE
    /\ UNCHANGED <<daemonVars, sockPath, stateFile, keyFile, breadcrumb, token, answer, ran,
                   lost, result>>

Spawn(c) ==
    /\ Goes(c, "spawning", "local")
    /\ spawnLock' = FALSE
    /\ dpc' = [dpc EXCEPT ![CHOOSE d \in Unborn : \A e \in Unborn : d <= e] = "booting"]
    /\ UNCHANGED <<queue, errors, trimmed, codeOf, code, sockPath, stateFile, keyFile,
                   breadcrumb, token, answer, ran, lost, result>>

RunLocally(c) ==
    /\ Goes(c, "local", "finished")
    /\ result' = [result EXCEPT ![c] = Effect(c)]
    /\ ran' = [ran EXCEPT ![c] = @ + 1]
    /\ UNCHANGED <<daemonVars, nameVars, token, answer, lost>>

(***************************************************************************)
(* The daemon                                                              *)
(***************************************************************************)
(* run_posix: the path of an earlier daemon is unlinked before the bind.     *)
Bind(d) ==
    /\ dpc[d] = "booting"
    /\ dpc' = [dpc EXCEPT ![d] = "listening"]
    /\ sockPath' = d
    /\ UNCHANGED <<queue, errors, trimmed, codeOf, code, stateFile, keyFile, breadcrumb,
                   spawnLock, callerVars>>

(* write_state_file: the key first, when it is not this daemon's already.    *)
WriteKey(d) ==
    /\ dpc[d] = "listening"
    /\ dpc' = [dpc EXCEPT ![d] = "keyed"]
    /\ keyFile' = d
    /\ UNCHANGED <<queue, errors, trimmed, codeOf, code, sockPath, stateFile, breadcrumb,
                   spawnLock, callerVars>>

WriteState(d) ==
    /\ dpc[d] = "keyed"
    /\ dpc' = [dpc EXCEPT ![d] = "idle"]
    /\ stateFile' = d
    /\ UNCHANGED <<queue, errors, trimmed, codeOf, code, sockPath, keyFile, breadcrumb, spawnLock,
                   callerVars>>

(* The next connection and its request, which is there once it is accepted.  *)
Client(d) == Head(queue[d])

(* An answer reaches a caller that still waits for this daemon.              *)
Sent(c, a) == IF Waiting(c) /\ answer[c] = "none" THEN [answer EXCEPT ![c] = a] ELSE answer

(* handle_request: the checks before the command. The first request with the *)
(* right token takes the snapshot that later ones are compared with.         *)
Verdict(d) ==
    IF token[Client(d)] # d THEN "auth_failed"
    ELSE IF codeOf[d] \notin {NoSnapshot, code} THEN "version_skew"
    ELSE "accept"

(* A variant takes the refusal of a stale daemon for an answer that came      *)
(* after the command: it runs it first.                                       *)
TurnAfterRun(d) ==
    /\ dpc[d] = "idle" /\ queue[d] # <<>>
    /\ Verdict(d) = "version_skew"
    /\ answer' = Sent(Client(d), "version_skew")
    /\ ran' = [ran EXCEPT ![Client(d)] = @ + 1]
    /\ queue' = [queue EXCEPT ![d] = Tail(@)]
    /\ UNCHANGED <<dpc, errors, trimmed, codeOf, code, nameVars, cpc, token, lost, result>>

Turn(d) ==
    /\ dpc[d] = "idle" /\ queue[d] # <<>>
    /\ Verdict(d) # "accept"
    /\ answer' = Sent(Client(d), Verdict(d))
    /\ queue' = [queue EXCEPT ![d] = Tail(@)]
    /\ UNCHANGED <<dpc, errors, trimmed, codeOf, code, nameVars, cpc, token, ran, lost, result>>

Accept(d) ==
    /\ dpc[d] = "idle" /\ queue[d] # <<>>
    /\ Verdict(d) = "accept"
    /\ dpc' = [dpc EXCEPT ![d] = "serving"]
    /\ trimmed' = [trimmed EXCEPT ![d] = FALSE]
    /\ codeOf' = [codeOf EXCEPT ![d] = code]
    /\ UNCHANGED <<queue, errors, code, nameVars, callerVars>>

(* The command runs, in this process, whether or not the caller still waits. *)
Execute(d) ==
    /\ dpc[d] = "serving"
    /\ dpc' = [dpc EXCEPT ![d] = Effect(Client(d))]
    /\ ran' = [ran EXCEPT ![Client(d)] = @ + 1]
    /\ errors' = [errors EXCEPT ![d] = 0]
    /\ UNCHANGED <<queue, trimmed, codeOf, code, nameVars, cpc, token, answer, lost, result>>

(* ... or raises, before or after it has done its work.                      *)
Fails(d) ==
    /\ dpc[d] = "serving" /\ errors[d] < MaxErrors
    /\ dpc' = [dpc EXCEPT ![d] = "internal"]
    /\ errors' = [errors EXCEPT ![d] = @ + 1]
    /\ \E worked \in {0, 1} : ran' = [ran EXCEPT ![Client(d)] = @ + worked]
    /\ UNCHANGED <<queue, trimmed, codeOf, code, nameVars, cpc, token, answer, lost, result>>

(* refresh_state_file in the finally, then the answer; after too many errors *)
(* the loop ends.                                                            *)
Respond(d) ==
    /\ dpc[d] \in {"done", "nothing to do", "internal"}
    /\ keyFile' = d /\ stateFile' = d
    /\ answer' = Sent(Client(d), dpc[d])
    /\ queue' = [queue EXCEPT ![d] = Tail(@)]
    /\ dpc' = [dpc EXCEPT ![d] = IF errors[d] >= MaxErrors THEN "closing" ELSE "idle"]
    /\ UNCHANGED <<errors, trimmed, codeOf, code, sockPath, breadcrumb, spawnLock, cpc, token,
                   ran, lost, result>>

(* maybe_trim_idle: once for an idle period, and the files are written again. *)
Trim(d) ==
    /\ dpc[d] = "idle" /\ ~trimmed[d]
    /\ trimmed' = [trimmed EXCEPT ![d] = TRUE]
    /\ keyFile' = d /\ stateFile' = d
    /\ UNCHANGED <<dpc, queue, errors, codeOf, code, sockPath, breadcrumb, spawnLock, callerVars>>

(* The idle timeout ends the accept loop: cleanup_state_files, whoever wrote  *)
(* them,                                                                      *)
IdleStop(d) ==
    /\ dpc[d] = "idle"
    /\ dpc' = [dpc EXCEPT ![d] = "closing"]
    /\ UNCHANGED <<queue, errors, trimmed, codeOf, code, nameVars, callerVars>>

(* What the kernel does to the connections of a process that ends; a variant  *)
(* closes only the accepted one.                                              *)
HangupServed(d) ==
    /\ queue' = [queue EXCEPT ![d] = <<>>]
    /\ answer' = IF queue[d] # <<>> THEN Sent(Client(d), "closed") ELSE answer

Hangup(d) ==
    /\ queue' = [queue EXCEPT ![d] = <<>>]
    /\ answer' = [c \in Caller |->
                     IF Waiting(c) /\ answer[c] = "none" /\ \E i \in DOMAIN queue[d] : queue[d][i] = c
                     THEN "closed" ELSE answer[c]]

(* ... and the socket path, whoever bound it.                                 *)
Close(d) ==
    /\ dpc[d] = "closing"
    /\ dpc' = [dpc EXCEPT ![d] = "gone"]
    /\ stateFile' = NoDaemon /\ keyFile' = NoDaemon /\ sockPath' = NoDaemon
    /\ Hangup(d)
    /\ UNCHANGED <<errors, trimmed, codeOf, code, breadcrumb, spawnLock, cpc, token, ran, lost,
                   result>>

(* The watchdog's os._exit: the files go, the socket path stays.  It does not *)
(* wait for a request to end: the idle time counts from the request's start.  *)
WatchdogExit(d) ==
    /\ dpc[d] \in {"idle", "serving", "done", "nothing to do", "internal"}
    /\ dpc' = [dpc EXCEPT ![d] = "gone"]
    /\ stateFile' = NoDaemon /\ keyFile' = NoDaemon
    /\ Hangup(d)
    /\ UNCHANGED <<errors, trimmed, codeOf, code, sockPath, breadcrumb, spawnLock, cpc, token,
                   ran, lost, result>>

(* Killed: everything it wrote stays.                                          *)
Crash(d) ==
    /\ dpc[d] \in {"idle", "serving"}
    /\ dpc' = [dpc EXCEPT ![d] = "gone"]
    /\ Hangup(d)
    /\ UNCHANGED <<errors, trimmed, codeOf, code, nameVars, cpc, token, ran, lost, result>>

(* `av daemon stop`: SIGTERM to the pid in the state file, whose handler is    *)
(* the default one, then the two files are removed.                           *)
DaemonStop ==
    /\ Reachable
    /\ stateFile' = NoDaemon /\ keyFile' = NoDaemon
    /\ IF stateFile \in Live
       THEN dpc' = [dpc EXCEPT ![stateFile] = "gone"] /\ Hangup(stateFile)
       ELSE UNCHANGED <<dpc, queue, answer>>
    /\ UNCHANGED <<errors, trimmed, codeOf, code, sockPath, breadcrumb, spawnLock, cpc, token,
                   ran, lost, result>>

(* The package is reinstalled or edited under a running daemon.               *)
EditCode ==
    /\ code < MaxCodeEdits
    /\ code' = code + 1
    /\ UNCHANGED <<dpc, queue, errors, trimmed, codeOf, nameVars, callerVars>>

CallerStep(c) ==
    \/ BeginCommand(c) \/ ReadState(c) \/ ReadKey(c) \/ Connect(c)
    \/ Accepted(c) \/ OutputFails(c) \/ Refused(c) \/ Disconnected(c) \/ TimedOut(c)
    \/ LockSpawn(c) \/ Spawn(c) \/ RunLocally(c)

ServeStep(d) == Turn(d) \/ Accept(d) \/ Execute(d) \/ Fails(d) \/ Respond(d) \/ Close(d)

DmNext ==
    \/ \E c \in Caller : CallerStep(c)
    \/ \E d \in Daemon :
           \/ Bind(d) \/ WriteKey(d) \/ WriteState(d)
           \/ ServeStep(d)
           \/ Trim(d) \/ IdleStop(d) \/ WatchdogExit(d) \/ Crash(d)
    \/ DaemonStop \/ EditCode

(* An invocation goes on by itself, and a daemon goes on with the connections *)
(* it has and with its exit.  Nothing is assumed of the rest: not that a      *)
(* daemon ever starts, stops or trims.                                        *)
DmFairness ==
    /\ \A c \in Caller : WF_dmVars(CallerStep(c))
    /\ \A d \in Daemon : WF_dmVars(WriteKey(d) \/ WriteState(d) \/ ServeStep(d))

DmSpec == DmInit /\ [][DmNext]_dmVars /\ DmFairness

(***************************************************************************)
(* Properties                                                              *)
(***************************************************************************)
DmTypeOK ==
    /\ dpc \in [Daemon -> {"unborn", "booting", "listening", "keyed", "idle", "serving", "done",
                           "nothing to do", "internal", "closing", "gone"}]
    /\ \A d \in Daemon : queue[d] \in Seq(Caller)
    /\ errors \in [Daemon -> 0 .. MaxErrors] /\ trimmed \in [Daemon -> BOOLEAN]
    /\ {sockPath, stateFile, keyFile} \subseteq Daemon \cup {NoDaemon}
    /\ token \in [Caller -> Daemon \cup {NoDaemon}]
    /\ result \in [Caller -> {"none", "done", "nothing to do"}]
    /\ ran \in [Caller -> 0 .. 3] /\ lost \in [Caller -> 0 .. 2]
    /\ breadcrumb \in BOOLEAN /\ spawnLock \in BOOLEAN

(* A command runs a second time only because the result of a daemon that took *)
(* it did not reach the user: no answer came, or it could not be written out. *)
(* A daemon that refuses a request, for its token or its version, has not run *)
(* it, and a caller that has told its user the result does not run it again.  *)
RerunOnlyAfterLoss == \A c \in Caller : ran[c] <= 1 + lost[c]

(* Every invocation ends: a caller that waits is answered, sees the daemon's  *)
(* end of the connection close, or gives up.  The native launcher never gives *)
(* up, so for it the first two must be enough, over every way a daemon goes.  *)
EveryCommandReturns == \A c \in Caller : (cpc[c] # "begin") ~> (cpc[c] = "finished")

(* daemon.py:16-17: "the daemon must never be the reason a command fails that *)
(* would otherwise have succeeded".  It fails: a request that outlives the    *)
(* client's timeout is run by both, and so is one whose output fails.        *)
DaemonNeverTheReason == \A c \in Caller : result[c] # "nothing to do"
================================================================================
