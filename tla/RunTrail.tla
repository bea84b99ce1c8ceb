------------------------------ MODULE RunTrail ------------------------------
(***************************************************************************)
(* One run: its row and its linked commits on the registry                 *)
(* (python/av_server/server.py), the "av run" commands                     *)
(* (python/av_cli/cmd_run.py) that start, end and watch it, and the pushes *)
(* of commits that carry its id.                                           *)
(***************************************************************************)
EXTENDS Integers, FiniteSets, Sequences, SequencesExt

CONSTANTS
    Commit,         \* commits that carry the id of the run
    Rank,           \* Rank[c]: position of c in the order of hashes
    Metric,         \* Metric[c]: the monitored metric of c; smaller is better
    PageSize,       \* limit of a metrics page
    Patience, Factor,   \* options of auto-stop-check
    MaxClock        \* bound: distinct timestamps

ASSUME RunTrailAssumption ==
    /\ Rank \in [Commit -> Nat] /\ \A c, d \in Commit : Rank[c] = Rank[d] => c = d
    /\ Metric \in [Commit -> Nat]
    /\ {PageSize, Patience, Factor} \subseteq Nat \ {0} /\ MaxClock \in Nat

VARIABLES
    status,     \* the status column of the run, or "none" while there is no row
    file,       \* .av/run.json names the run
    clock,      \* utcnow; two rows may carry the same timestamp
    stamp,      \* stamp[c]: created_at of the link row of c, drawn at its flush
    pushing,    \* commits whose push has flushed but not committed
    saw,        \* saw[c]: the run row existed when the push of c looked for it
    linked,     \* commits whose push has committed
    walk        \* the series that auto-stop-check is reading, or NoWalk

runVars == <<status, file, clock, stamp, pushing, saw, linked, walk>>
NoWalk == [state |-> "none"]
Ended == {"completed", "failed", "stopped"}

RunTrailInit ==
    /\ status = "none" /\ file = FALSE /\ clock = 0
    /\ stamp = [c \in Commit |-> 0]
    /\ pushing = {} /\ linked = {} /\ saw = [c \in Commit |-> FALSE]
    /\ walk = NoWalk

Tick ==
    /\ clock < MaxClock /\ clock' = clock + 1
    /\ UNCHANGED <<status, file, stamp, pushing, saw, linked, walk>>

-----------------------------------------------------------------------------
(* av run start: the registration is best effort; create_run leaves a row    *)
(* that exists alone.                                                        *)
Start ==
    /\ ~file /\ file' = TRUE
    /\ \/ status' = IF status = "none" THEN "running" ELSE status
       \/ UNCHANGED status
    /\ UNCHANGED <<clock, stamp, pushing, saw, linked, walk>>

(* _finish_run and stop_run overwrite the status, whatever it is. *)
EndRun(to) == status # "none" /\ status' = to

(* av run finish: the state file goes even if the registry was not told.     *)
FinishRun ==
    /\ file /\ file' = FALSE
    /\ EndRun("completed") \/ EndRun("failed") \/ UNCHANGED status
    /\ UNCHANGED <<clock, stamp, pushing, saw, linked, walk>>

Stop ==
    /\ EndRun("stopped")
    /\ UNCHANGED <<file, clock, stamp, pushing, saw, linked, walk>>

(* push_commit looks for the run row and flushes the link ...                *)
PushFlush(c) ==
    /\ c \notin pushing \cup linked
    /\ pushing' = pushing \cup {c}
    /\ saw' = [saw EXCEPT ![c] = status # "none"]
    /\ stamp' = [stamp EXCEPT ![c] = clock]
    /\ UNCHANGED <<status, file, clock, linked, walk>>

(* ... and commits; a run that it did not find it creates, which fails with  *)
(* an IntegrityError if another session has done so. The variant resets the  *)
(* row of a known run.                                                       *)
StatusAfterPushReset(c) == "created"
StatusAfterPush(c) == IF saw[c] THEN status ELSE "created"

PushCommit(c) ==
    /\ c \in pushing
    /\ pushing' = pushing \ {c}
    /\ \/ /\ saw[c] \/ status = "none"
          /\ linked' = linked \cup {c}
          /\ status' = StatusAfterPush(c)
       \/ UNCHANGED <<linked, status>>
    /\ UNCHANGED <<file, clock, stamp, saw, walk>>

-----------------------------------------------------------------------------
(* GET /api/runs/{id}/metrics pages by the key (created_at, hash). The       *)
(* variant forgets the hash.                                                  *)
AfterStampOnly(c, d) == stamp[c] > stamp[d]
After(c, d) == stamp[c] > stamp[d] \/ (stamp[c] = stamp[d] /\ Rank[c] > Rank[d])

Earlier(c, d) == stamp[c] < stamp[d] \/ (stamp[c] = stamp[d] /\ Rank[c] < Rank[d])

(* A page: the first PageSize of what the cursor has left, in order.         *)
TrailPages == UNION {[1..n -> Commit] : n \in 0..PageSize}
IsPageOf(page, rest) ==
    /\ Range(page) \subseteq rest
    /\ \A i, j \in DOMAIN page : i < j => Earlier(page[i], page[j])
    /\ \A c \in rest \ Range(page), d \in Range(page) : Earlier(d, c)
    /\ Len(page) = PageSize \/ Range(page) = rest

Remaining(got) == {c \in linked : got = <<>> \/ After(c, Last(got))}

(* The decision of auto-stop-check, minimising: the last Patience values are *)
(* a plateau when none improves on the best value before them. The variant   *)
(* takes the best value of all.                                               *)
MinIn(S) == CHOOSE v \in S : \A w \in S : v <= w
BeforeAll(values) == Range(values)
Before(values) ==
    LET n == Len(values) IN
    IF n = Patience THEN {values[1]} ELSE {values[i] : i \in 1 .. n - Patience}

Decision(got) ==
    LET values == [i \in DOMAIN got |-> Metric[got[i]]]
        n == Len(values)
        best == MinIn(Range(values))
    IN CASE n = 0 -> "none"
         [] n > 0 /\ values[n] > best + Factor * (IF best > 1 THEN best ELSE 1) -> "divergence"
         [] n >= Patience /\ (\A i \in n - Patience + 1 .. n : values[i] >= MinIn(Before(values)))
              -> "plateau"
         [] OTHER -> "none"

WalkStart ==
    /\ walk = NoWalk /\ status # "none"
    /\ walk' = [state |-> "paging", got |-> <<>>, base |-> linked]
    /\ UNCHANGED <<status, file, clock, stamp, pushing, saw, linked>>

WalkPage ==
    /\ walk.state = "paging"
    /\ \E page \in TrailPages :
          /\ IsPageOf(page, Remaining(walk.got))
          /\ walk' = [walk EXCEPT !.got = @ \o page,
                                  !.state = IF Len(page) = PageSize THEN "paging" ELSE "read"]
    /\ UNCHANGED <<status, file, clock, stamp, pushing, saw, linked>>

(* With --stop a reason stops the run. *)
WalkDecide ==
    /\ walk.state = "read"
    /\ IF Decision(walk.got) = "none" THEN UNCHANGED status
                                      ELSE EndRun("stopped") \/ UNCHANGED status
    /\ walk' = NoWalk
    /\ UNCHANGED <<file, clock, stamp, pushing, saw, linked>>

RunTrailNext ==
    \/ Tick \/ Start \/ FinishRun \/ Stop
    \/ \E c \in Commit : PushFlush(c) \/ PushCommit(c)
    \/ WalkStart \/ WalkPage \/ WalkDecide

RunTrailSpec == RunTrailInit /\ [][RunTrailNext]_runVars

-----------------------------------------------------------------------------
RunTrailTypeOK ==
    /\ status \in {"none", "created", "running"} \cup Ended
    /\ file \in BOOLEAN /\ clock \in 0 .. MaxClock
    /\ stamp \in [Commit -> 0 .. clock]
    /\ pushing \cap linked = {}
    /\ linked # {} => status # "none"

(* get_run_metrics: "The full per-commit metric series for a run ...         *)
(* cursor-paginated". A walk over its pages, with pushes in between, never    *)
(* returns a commit twice or out of order, and has returned, at its end,      *)
(* every commit that was linked when it began. (A push that flushed before    *)
(* the walk and commits during it may be passed over.)                        *)
WalkIsComplete ==
    walk # NoWalk =>
        /\ \A i, j \in DOMAIN walk.got : i < j => Earlier(walk.got[i], walk.got[j])
        /\ walk.state = "read" => walk.base \subseteq Range(walk.got)

(* Queued commits are pushed, and runs registered, long after a run has       *)
(* ended: neither ever reopens it.                                             *)
EndedStaysEnded == [][(status \in Ended) => (status' \in Ended)]_runVars

(* run_auto_stop_check: while each commit that is linked improves on all that *)
(* were linked before it, no check finds a reason to stop, whatever part of   *)
(* the series its pages returned. The exception: with a patience of one, a    *)
(* first value is compared with itself and is a plateau.                      *)
ImprovingIsNotStopped ==
    walk # NoWalk /\ walk.state = "read" /\ (Patience > 1 \/ Len(walk.got) # 1)
        /\ (\A c, d \in linked : Earlier(c, d) => Metric[c] > Metric[d])
        => Decision(walk.got) = "none"
=============================================================================
