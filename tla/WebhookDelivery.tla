--------------------------- MODULE WebhookDelivery ---------------------------
(***************************************************************************)
(* The fan-out of events to webhooks (python/av_server/server.py): a task  *)
(* of its own session makes the first attempt for every active hook, a     *)
(* worker drives the retries, admins replay, enable and delete.            *)
(*                                                                         *)
(* A session keeps the hooks it has loaded (SQLAlchemy's identity map) and *)
(* writes what it changed when it commits; its delivery rows are invisible *)
(* or locked until then.                                                   *)
(***************************************************************************)
EXTENDS Integers, FiniteSets

CONSTANTS
    Emission,       \* mutations that emit one event each, and webhook tests
    Hook,
    Worker,         \* retry workers, one per replica
    Batch,          \* rows claimed by a worker at once: limit(100)
    MAX_ATTEMPTS,   \* AV_WEBHOOK_MAX_ATTEMPTS
    DISABLE_AFTER,  \* AV_WEBHOOK_DISABLE_AFTER, 0 = never
    MaxReplays,     \* bound: replays by admins
    MaxRestarts     \* bound: restarts of the registry

ASSUME HookAssumption ==
    /\ Emission \cap Worker = {}
    /\ Batch \in Nat \ {0} /\ MAX_ATTEMPTS \in Nat \ {0, 1}
    /\ DISABLE_AFTER \in Nat /\ MaxReplays \in Nat /\ MaxRestarts \in Nat

DeliveryKey == Emission \X Hook          \* one delivery row per event and hook
NoRow == [status |-> "none"]
Status == {"pending", "failed", "delivered", "dead"}
NoSession == [loaded |-> {}]

VARIABLES
    hook,        \* hook[h]: the committed webhooks row
    mutation,    \* mutation[e]: "none", "open", "committed" or "rolledback"
    task,        \* task[e]: "none", "scheduled", "running", "done"
    todo,        \* todo[s]: what the session s has still to POST
    view,        \* view[s]: hooks as the session s sees them
    draft,       \* draft[s]: rows that s will write when it commits
    delivery,    \* delivery[k]: the committed webhook_deliveries row
    due,         \* keys whose next_retry_at is past
    replaying,   \* keys that a replay has read as failed or dead
    posts,       \* history: posts[k]: POSTs since the row was queued
    answered,    \* history: keys that a hook has answered with 2xx
    replays, restarts

hookVars == <<hook, mutation, task, todo, view, draft, delivery, due, replaying,
              posts, answered, replays, restarts>>

HookSession == Emission \cup Worker

(* The function f with one more argument, or another value for it. *)
With(f, x, v) == [y \in DOMAIN f \cup {x} |-> IF y = x THEN v ELSE f[y]]

Locked == UNION {DOMAIN draft[w] \cup todo[w] : w \in Worker}

HookInit ==
    /\ hook = [h \in Hook |-> [active |-> TRUE, streak |-> 0]]
    /\ mutation = [e \in Emission |-> "none"]
    /\ task = [e \in Emission |-> "none"]
    /\ todo = [s \in HookSession |-> {}]
    /\ view = [s \in HookSession |-> <<>>]
    /\ draft = [s \in HookSession |-> <<>>]
    /\ delivery = [k \in DeliveryKey |-> NoRow]
    /\ due = {} /\ replaying = {}
    /\ posts = [k \in DeliveryKey |-> 0] /\ answered = {}
    /\ replays = 0 /\ restarts = 0

HookExists(h) == hook[h] # NoRow
IsActive(h) == HookExists(h) /\ hook[h].active

-----------------------------------------------------------------------------
(* One POST attempt, and a variant that gives up one attempt late.           *)

FailedRowLate(d) == [d EXCEPT !.attempt = @ + 1,
    !.status = IF d.attempt >= MAX_ATTEMPTS THEN "dead" ELSE "failed"]
FailedRow(d) == [d EXCEPT !.attempt = @ + 1,
    !.status = IF d.attempt + 1 >= MAX_ATTEMPTS THEN "dead" ELSE "failed"]

HookAfter(v, ok) ==
    IF ok THEN [active |-> v.active, streak |-> 0]
    ELSE [active |-> v.active /\ ~(DISABLE_AFTER > 0 /\ v.streak + 1 >= DISABLE_AFTER),
          streak |-> v.streak + 1]

(* _deliver_one in session s: the POST goes out, its outcome stays in the    *)
(* session. streak and active are written at the commit if they changed.     *)
DeliverOne(s, k, d, v, ok) ==
    /\ draft' = [draft EXCEPT ![s] =
         With(@, k, IF ok THEN [d EXCEPT !.status = "delivered"] ELSE FailedRow(d))]
    /\ LET w == HookAfter(v, ok) IN
         view' = [view EXCEPT ![s] = With(@, k[2],
             [active |-> w.active, streak |-> w.streak,
              dirty |-> v.dirty \cup {f \in {"active", "streak"} : w[f] # v[f]}])]
    /\ posts' = [posts EXCEPT ![k] = @ + 1]
    /\ answered' = IF ok THEN answered \cup {k} ELSE answered

Load(h) == [active |-> hook[h].active, streak |-> hook[h].streak, dirty |-> {}]

(* The commit of session s: rows become visible, changed hook columns are    *)
(* set to the values of the session, whatever another session wrote since.   *)
CommitSession(s) ==
    /\ delivery' = [k \in DeliveryKey |->
         IF k \in DOMAIN draft[s] THEN draft[s][k] ELSE delivery[k]]
    /\ hook' = [h \in Hook |->
         IF h \notin DOMAIN view[s] \/ ~HookExists(h) THEN hook[h]
         ELSE [f \in {"active", "streak"} |->
                 IF f \in view[s][h].dirty THEN view[s][h][f] ELSE hook[h][f]]]
    /\ due' = due \ DOMAIN draft[s]
    /\ draft' = [draft EXCEPT ![s] = <<>>]
    /\ view' = [view EXCEPT ![s] = <<>>]
    /\ todo' = [todo EXCEPT ![s] = {}]

DropSessions ==
    /\ draft' = [s \in HookSession |-> <<>>]
    /\ view' = [s \in HookSession |-> <<>>]
    /\ todo' = [s \in HookSession |-> {}]

-----------------------------------------------------------------------------
(* Mutations and the first attempt. *)

(* _emit_event: with an active hook a task is created, before the commit.    *)
Emit(e) ==
    /\ mutation[e] = "none"
    /\ mutation' = [mutation EXCEPT ![e] = "open"]
    /\ task' = [task EXCEPT ![e] =
         IF \E h \in Hook : IsActive(h) THEN "scheduled" ELSE "done"]
    /\ UNCHANGED <<hook, todo, view, draft, delivery, due, replaying, posts, answered,
                   replays, restarts>>

(* The handler commits or fails; the task does not wait for either.          *)
EndMutation(e) ==
    /\ mutation[e] = "open"
    /\ \E end \in {"committed", "rolledback"} : mutation' = [mutation EXCEPT ![e] = end]
    /\ UNCHANGED <<hook, task, todo, view, draft, delivery, due, replaying, posts,
                   answered, replays, restarts>>

(* _deliver_later: the hooks that are active now.                            *)
StartTask(e) ==
    /\ task[e] = "scheduled"
    /\ LET hs == {h \in Hook : IsActive(h)} IN
         /\ view' = [view EXCEPT ![e] = [h \in hs |-> Load(h)]]
         /\ todo' = [todo EXCEPT ![e] = {e} \X hs]
    /\ task' = [task EXCEPT ![e] = "running"]
    /\ UNCHANGED <<hook, mutation, draft, delivery, due, replaying, posts, answered,
                   replays, restarts>>

(* test_webhook: the same fan-out to one hook, active or not, in the         *)
(* session of the request.                                                   *)
TestWebhook(e) ==
    /\ mutation[e] = "none"
    /\ \E h \in Hook :
         /\ HookExists(h)
         /\ view' = [view EXCEPT ![e] = [x \in {h} |-> Load(x)]]
         /\ todo' = [todo EXCEPT ![e] = {<<e, h>>}]
    /\ mutation' = [mutation EXCEPT ![e] = "committed"]
    /\ task' = [task EXCEPT ![e] = "running"]
    /\ UNCHANGED <<hook, draft, delivery, due, replaying, posts, answered, replays, restarts>>

(* The new row: its counter starts at 1 here.                                *)
NewRow == [status |-> "pending", attempt |-> 1]

(* _deliver_webhooks: the row is flushed, not committed, then the POST.      *)
FirstAttempt(e) ==
    \E k \in todo[e], ok \in BOOLEAN :
        /\ HookExists(k[2])
        /\ DeliverOne(e, k, NewRow, view[e][k[2]], ok)
        /\ todo' = [todo EXCEPT ![e] = @ \ {k}]
        /\ UNCHANGED <<hook, mutation, task, delivery, due, replaying, replays, restarts>>

(* The INSERT names a hook that is gone: the session rolls back.             *)
AbortTask(e) ==
    /\ \E k \in todo[e] : ~HookExists(k[2])
    /\ task' = [task EXCEPT ![e] = "done"]
    /\ draft' = [draft EXCEPT ![e] = <<>>]
    /\ view' = [view EXCEPT ![e] = <<>>]
    /\ todo' = [todo EXCEPT ![e] = {}]
    /\ UNCHANGED <<hook, mutation, delivery, due, replaying, posts, answered, replays, restarts>>

EndTask(e) ==
    /\ task[e] = "running" /\ todo[e] = {}
    /\ CommitSession(e)
    /\ task' = [task EXCEPT ![e] = "done"]
    /\ UNCHANGED <<mutation, replaying, posts, answered, replays, restarts>>

-----------------------------------------------------------------------------
(* Retries. *)

(* The backoff of a failed row runs out.                                     *)
BecomeDue ==
    \E k \in DeliveryKey \ due :
        /\ delivery[k].status = "failed"
        /\ due' = due \cup {k}
        /\ UNCHANGED <<hook, mutation, task, todo, view, draft, delivery, replaying, posts,
                       answered, replays, restarts>>

(* SELECT ... FOR UPDATE SKIP LOCKED LIMIT Batch, and variants that do not   *)
(* skip what another replica holds, or forget the rows that a replay queued. *)
ClaimableShared == {k \in DeliveryKey : delivery[k].status \in {"pending", "failed"} /\ k \in due}
ClaimableFailed == {k \in DeliveryKey : delivery[k].status = "failed" /\ k \in due} \ Locked
Claimable == {k \in DeliveryKey : delivery[k].status \in {"pending", "failed"} /\ k \in due} \ Locked

ClaimBatch(w) ==
    /\ todo[w] = {} /\ draft[w] = <<>>
    /\ \E S \in (SUBSET Claimable) \ {{}} :
         /\ Cardinality(S) <= Batch
         /\ Cardinality(S) < Batch => S = Claimable
         /\ todo' = [todo EXCEPT ![w] = S]
    /\ UNCHANGED <<hook, mutation, task, view, draft, delivery, due, replaying, posts,
                   answered, replays, restarts>>

(* One row of the batch. The hook is loaded once per session; a hook that is *)
(* gone or inactive dead-letters the row without a POST.                     *)
RetryRow(w) ==
    \E k \in todo[w] :
        LET h == k[2]
            v == IF h \in DOMAIN view[w] THEN view[w][h] ELSE Load(h) IN
        /\ todo' = [todo EXCEPT ![w] = @ \ {k}]
        /\ IF ~HookExists(h) \/ ~v.active
           THEN /\ draft' = [draft EXCEPT ![w] = With(@, k, [delivery[k] EXCEPT !.status = "dead"])]
                /\ UNCHANGED <<view, posts, answered>>
           ELSE \E ok \in BOOLEAN : DeliverOne(w, k, delivery[k], v, ok)
        /\ UNCHANGED <<hook, mutation, task, delivery, due, replaying, replays, restarts>>

EndBatch(w) ==
    /\ todo[w] = {} /\ draft[w] # <<>>
    /\ CommitSession(w)
    /\ UNCHANGED <<mutation, task, replaying, posts, answered, replays, restarts>>

-----------------------------------------------------------------------------
(* Administration. *)

(* replay_webhook_delivery reads the row without a lock, ...                 *)
ReplayRead ==
    \E k \in DeliveryKey \ replaying :
        /\ replays < MaxReplays
        /\ delivery[k].status \in {"failed", "dead"}
        /\ replaying' = replaying \cup {k}
        /\ replays' = replays + 1
        /\ UNCHANGED <<hook, mutation, task, todo, view, draft, delivery, due, posts,
                       answered, restarts>>

(* ... and its UPDATE waits for a worker that holds the row.                 *)
ReplayWrite ==
    \E k \in replaying \ Locked :
        /\ delivery' = [delivery EXCEPT ![k] = [status |-> "pending", attempt |-> 0]]
        /\ due' = due \cup {k}
        /\ posts' = [posts EXCEPT ![k] = 0]
        /\ replaying' = replaying \ {k}
        /\ UNCHANGED <<hook, mutation, task, todo, view, draft, answered, replays, restarts>>

EnableWebhook ==
    \E h \in Hook :
        /\ HookExists(h) /\ hook[h] # [active |-> TRUE, streak |-> 0]
        /\ hook' = [hook EXCEPT ![h] = [active |-> TRUE, streak |-> 0]]
        /\ UNCHANGED <<mutation, task, todo, view, draft, delivery, due, replaying, posts,
                       answered, replays, restarts>>

(* delete_webhook: the foreign key of webhook_deliveries lets it succeed     *)
(* only while no row, committed or flushed, names the hook.                  *)
DeleteWebhook ==
    \E h \in Hook :
        /\ HookExists(h)
        /\ \A e \in Emission : delivery[<<e, h>>] = NoRow /\ <<e, h>> \notin DOMAIN draft[e]
        /\ hook' = [hook EXCEPT ![h] = NoRow]
        /\ UNCHANGED <<mutation, task, todo, view, draft, delivery, due, replaying, posts,
                       answered, replays, restarts>>

(* The registry restarts: tasks and open sessions are gone.                  *)
RestartHooks ==
    /\ restarts < MaxRestarts
    /\ restarts' = restarts + 1
    /\ DropSessions
    /\ task' = [e \in Emission |-> IF task[e] = "none" THEN "none" ELSE "done"]
    /\ mutation' = [e \in Emission |->
         IF mutation[e] = "open" THEN "rolledback" ELSE mutation[e]]
    /\ replaying' = {}
    /\ UNCHANGED <<hook, delivery, due, posts, answered, replays>>

TaskStep(e) == StartTask(e) \/ FirstAttempt(e) \/ AbortTask(e) \/ EndTask(e)
WorkerStep(w) == ClaimBatch(w) \/ RetryRow(w) \/ EndBatch(w)

HookNext ==
    \/ \E e \in Emission : Emit(e) \/ EndMutation(e) \/ TestWebhook(e) \/ TaskStep(e)
    \/ \E w \in Worker : WorkerStep(w)
    \/ BecomeDue \/ ReplayRead \/ ReplayWrite
    \/ EnableWebhook \/ DeleteWebhook \/ RestartHooks

(* The event loop runs every task; the worker loop ticks for ever; clocks    *)
(* advance; a replay request gets the row lock in the end.                   *)
HookFairness ==
    /\ \A e \in Emission : WF_hookVars(TaskStep(e))
    /\ \A w \in Worker : WF_hookVars(WorkerStep(w))
    /\ WF_hookVars(BecomeDue) /\ WF_hookVars(ReplayWrite)

HookSpec == HookInit /\ [][HookNext]_hookVars /\ HookFairness

-----------------------------------------------------------------------------
HookTypeOK ==
    /\ \A h \in Hook : hook[h] = NoRow \/ (hook[h].active \in BOOLEAN /\ hook[h].streak \in Nat)
    /\ mutation \in [Emission -> {"none", "open", "committed", "rolledback"}]
    /\ task \in [Emission -> {"none", "scheduled", "running", "done"}]
    /\ \A k \in DeliveryKey : delivery[k] = NoRow
           \/ (delivery[k].status \in Status /\ delivery[k].attempt \in 0 .. MAX_ATTEMPTS)
    /\ \A s \in HookSession : todo[s] \subseteq DeliveryKey /\ DOMAIN draft[s] \subseteq DeliveryKey
    /\ due \subseteq DeliveryKey /\ replaying \subseteq DeliveryKey /\ answered \subseteq DeliveryKey

(* SKIP LOCKED "is what makes this safe under N replicas": no two workers     *)
(* hold the same delivery row, and none holds one that a first attempt has    *)
(* not committed, whatever is replayed, disabled or restarted meanwhile.      *)
RowHasOneDriver ==
    /\ \A v, w \in Worker : v # w =>
         (DOMAIN draft[v] \cup todo[v]) \cap (DOMAIN draft[w] \cup todo[w]) = {}
    /\ \A w \in Worker : \A k \in DOMAIN draft[w] \cup todo[w] : delivery[k] # NoRow

(* AV_WEBHOOK_MAX_ATTEMPTS: without restarts no queueing of a row costs the   *)
(* endpoint more than MAX_ATTEMPTS POSTs, and a row that the endpoint never   *)
(* answered with 2xx is not given up before MAX_ATTEMPTS - 1 of them unless   *)
(* its hook was deactivated or deleted. (The first attempt starts counting    *)
(* at 1 and so has one POST fewer than a replay, which starts at 0.)          *)
AttemptBudget ==
    \A k \in DeliveryKey :
        /\ restarts = 0 => posts[k] <= MAX_ATTEMPTS
        /\ /\ delivery[k] # NoRow /\ delivery[k].status = "dead"
           /\ delivery[k].attempt >= MAX_ATTEMPTS
           => posts[k] >= MAX_ATTEMPTS - 1

(* The worker "owns" pending and failed rows: whatever fails, is replayed,    *)
(* disabled or restarted, every row that was committed ends as delivered or   *)
(* dead.                                                                      *)
EveryDeliverySettles ==
    \A k \in DeliveryKey : (delivery[k] # NoRow) ~> (delivery[k].status \in {"delivered", "dead"})

(* _deliver_webhooks: "delivery rows ride the MUTATION's own transaction, so  *)
(* a rolled-back mutation never leaves phantom delivery records".             *)
NoPhantomDelivery ==
    \A k \in DeliveryKey : mutation[k[1]] = "rolledback" => delivery[k] = NoRow
=============================================================================
