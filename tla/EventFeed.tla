------------------------------ MODULE EventFeed ------------------------------
(***************************************************************************)
(* The event feed of the registry (python/av_server/server.py): mutations  *)
(* append event rows, whose ids are drawn when the row is flushed and      *)
(* which become visible when the mutation commits; consumers resume with   *)
(* GET /api/events?since=; retention deletes old rows.                     *)
(***************************************************************************)
EXTENDS Integers, FiniteSets, Sequences, SequencesExt

CONSTANTS
    Writer,     \* concurrent mutations, each of which emits events
    Reader,     \* consumers of the feed
    Project,    \* projects
    Follows,    \* Follows[r]: the project_id that r filters by
    PageLimit,      \* the limit parameter of a poll
    MaxEvent    \* bound: ids drawn from the sequence

ASSUME FeedAssumption ==
    /\ Follows \in [Reader -> Project]
    /\ PageLimit \in Nat \ {0} /\ MaxEvent \in Nat

NoProject == "none"      \* events that belong to no project reach every reader

VARIABLES
    lastId,     \* the last id drawn
    proj,       \* proj[e]: project_id of event e, once drawn
    inTx,       \* inTx[w]: ids flushed by the open transaction of w
    eventRows,       \* ids of the committed rows
    pruned,     \* history: ids of committed rows that retention deleted
    overtaken,  \* history: pruned ids with a lower one then retained or uncommitted
    cursor,     \* cursor[r]: next_cursor of the last answer
    poll,       \* poll[r]: an answer under construction, or NoPoll
    got,        \* history: got[r]: ids in the order they were delivered to r
    skipped,    \* history: skipped[r]: ids uncommitted when the cursor of r passed them
    lost        \* history: lost[r]: pruned ids that r cannot count on: see PollAnswer

feedVars == <<lastId, proj, inTx, eventRows, pruned, overtaken, cursor, poll, got, skipped, lost>>
readerVars == <<cursor, poll, got, skipped, lost>>

Event == 1 .. MaxEvent
NoPoll == [state |-> "idle"]
Open == UNION {inTx[w] : w \in Writer}

(* The WHERE clause of a poll. *)
Matches(r, e) == proj[e] \in {Follows[r], NoProject}

MinOf(S) == CHOOSE e \in S : \A f \in S : e <= f

FeedInit ==
    /\ lastId = 0 /\ proj = <<>>
    /\ inTx = [w \in Writer |-> {}]
    /\ eventRows = {} /\ pruned = {} /\ overtaken = {}
    /\ cursor = [r \in Reader |-> 0]
    /\ poll = [r \in Reader |-> NoPoll]
    /\ got = [r \in Reader |-> <<>>]
    /\ skipped = [r \in Reader |-> {}]
    /\ lost = [r \in Reader |-> {}]

-----------------------------------------------------------------------------
(* Mutations. *)

(* _emit_event: the row is flushed, which draws its id. *)
EmitEvent(w) ==
    /\ lastId < MaxEvent
    /\ \E p \in Project \cup {NoProject} : proj' = Append(proj, p)
    /\ lastId' = lastId + 1
    /\ inTx' = [inTx EXCEPT ![w] = @ \cup {lastId + 1}]
    /\ UNCHANGED <<eventRows, pruned, overtaken, readerVars>>

CommitMutation(w) ==
    /\ inTx[w] # {}
    /\ eventRows' = eventRows \cup inTx[w]
    /\ inTx' = [inTx EXCEPT ![w] = {}]
    /\ UNCHANGED <<lastId, proj, pruned, overtaken, readerVars>>

(* The request fails: its rows vanish, the ids stay drawn. *)
RollbackMutation(w) ==
    /\ inTx[w] # {}
    /\ inTx' = [inTx EXCEPT ![w] = {}]
    /\ UNCHANGED <<lastId, proj, eventRows, pruned, overtaken, readerVars>>

(* prune_events and the sweep of the garbage collection: DELETE of the      *)
(* committed rows whose ts is below a cutoff, which may be the present       *)
(* (before_days=0). A ts is the clock of the process that inserts the row    *)
(* and need not grow with the id: any of the committed rows may be the old   *)
(* ones, whatever is retained or still uncommitted below them.               *)
PruneEvents ==
    \E old \in SUBSET eventRows \ {{}} :
        /\ eventRows' = eventRows \ old
        /\ pruned' = pruned \cup old
        /\ overtaken' = overtaken \cup {e \in old : \E f \in eventRows' \cup Open : f < e}
        /\ UNCHANGED <<lastId, proj, inTx, readerVars>>

-----------------------------------------------------------------------------
(* GET /api/events. *)

(* A page of ids: the first PageLimit of them, oldest first.                  *)
Pages == UNION {[1..n -> Event] : n \in 0..PageLimit}
IsPage(page, ids) ==
    /\ Range(page) \subseteq ids
    /\ \A i, j \in DOMAIN page : i < j => page[i] < page[j]
    /\ \A e \in ids \ Range(page), f \in Range(page) : f < e
    /\ Len(page) = PageLimit \/ Range(page) = ids

(* _fetch: one SELECT; without rows a waiting request repeats it.            *)
Found(r) == {e \in eventRows : e > cursor[r] /\ Matches(r, e)}

PollFetch(r) ==
    /\ poll[r] = NoPoll
    /\ \E page \in Pages :
          /\ IsPage(page, Found(r))
          /\ poll' = [poll EXCEPT ![r] = [state |-> "fetched", events |-> page, open |-> Open]]
    /\ UNCHANGED <<lastId, proj, inTx, eventRows, pruned, overtaken, cursor, got, skipped, lost>>

(* gap: the cursor is below the oldest row that the filter still finds; the  *)
(* answer to a cursor of 0 never carries it. The variant is off by one.      *)
GapLate(r, oldest) == oldest # {} /\ cursor[r] < MinOf(oldest) - 2
Gap(r, oldest) == oldest # {} /\ cursor[r] < MinOf(oldest) - 1

(* The rest of list_events: a second SELECT for the oldest id, and the       *)
(* answer, with which the reader moves its cursor. What was pruned by now is *)
(* lost to a reader that had no cursor, that is told of the gap, or for      *)
(* which the second SELECT found no row at all to compare with.              *)
PollAnswer(r) ==
    /\ poll[r].state = "fetched"
    /\ LET evs == poll[r].events
           next == IF evs = <<>> THEN cursor[r] ELSE Last(evs)
           oldest == {e \in eventRows : Matches(r, e)}
       IN /\ cursor' = [cursor EXCEPT ![r] = next]
          /\ got' = [got EXCEPT ![r] = @ \o evs]
          /\ skipped' = [skipped EXCEPT ![r] = @ \cup {e \in poll[r].open : e <= next}]
          /\ lost' = IF cursor[r] = 0 \/ Gap(r, oldest) \/ oldest = {}
                     THEN [lost EXCEPT ![r] = @ \cup pruned]
                     ELSE lost
    /\ poll' = [poll EXCEPT ![r] = NoPoll]
    /\ UNCHANGED <<lastId, proj, inTx, eventRows, pruned, overtaken>>

FeedNext ==
    \/ \E w \in Writer : EmitEvent(w) \/ CommitMutation(w) \/ RollbackMutation(w)
    \/ PruneEvents
    \/ \E r \in Reader : PollFetch(r) \/ PollAnswer(r)

FeedSpec == FeedInit /\ [][FeedNext]_feedVars

-----------------------------------------------------------------------------
FeedTypeOK ==
    /\ lastId \in 0 .. MaxEvent
    /\ Len(proj) = lastId /\ \A e \in 1 .. lastId : proj[e] \in Project \cup {NoProject}
    /\ inTx \in [Writer -> SUBSET (1 .. lastId)]
    /\ eventRows \subseteq 1 .. lastId /\ pruned \subseteq 1 .. lastId
    /\ overtaken \subseteq pruned
    /\ cursor \in [Reader -> 0 .. lastId]
    /\ \A r \in Reader : poll[r] # NoPoll => Range(poll[r].events) \subseteq 1 .. lastId
    /\ \A r \in Reader : Range(got[r]) \subseteq 1 .. lastId
    /\ skipped \in [Reader -> SUBSET (1 .. lastId)]
    /\ lost \in [Reader -> SUBSET (1 .. lastId)]

(* models.py: "its monotonicity IS the cursor contract". Across any polls,   *)
(* mutations and prunings a reader is handed every event at most once and in *)
(* the order of ids.                                                          *)
DeliveredInOrder ==
    \A r \in Reader : \A i, j \in 1 .. Len(got[r]) : i < j => got[r][i] < got[r][j]

(* list_events: a reader "can tell 'I missed events' apart from 'there are    *)
(* simply no new ones'". An event that the cursor has passed undelivered was  *)
(* still in an open transaction when the cursor passed it (the known hole of  *)
(* ids drawn before the commit), or retention deleted it and the reader had   *)
(* no cursor, was told of a gap, or found the feed emptied, or it was deleted *)
(* while an older id was retained or uncommitted: no gap is told of those.    *)
MissesExplained ==
    \A r \in Reader : \A e \in (eventRows \cup pruned) \ Range(got[r]) :
        e <= cursor[r] /\ Matches(r, e) =>
            e \in skipped[r] \/ e \in lost[r] \/ e \in overtaken

(* What list_events promises a reader that follows its cursor.               *)
CursorContract == DeliveredInOrder /\ MissesExplained

(* list_events: gap is there "so a resuming consumer can tell 'I missed       *)
(* events' apart from 'there are simply no new ones'". Of rows that were      *)
(* visible and then pruned behind a lower id the consumer is told nothing.    *)
PrunedMissesAreTold ==
    \A r \in Reader : \A e \in pruned \ Range(got[r]) :
        e <= cursor[r] /\ Matches(r, e) => e \in skipped[r] \/ e \in lost[r]
=============================================================================
