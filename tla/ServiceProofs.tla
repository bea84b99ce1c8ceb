--------------------------- MODULE ServiceProofs ---------------------------
(***************************************************************************)
(* What the registry records and tells. A webhook row is driven by one     *)
(* session at a time and posted a bounded number of times; a reader that   *)
(* follows its cursor is told of whatever it misses; what an improver puts *)
(* in use was reviewed and approved; blind scores stay hidden; a budget    *)
(* account implements its ledger; a walk over the metrics of a run misses  *)
(* nothing. All of it for any number of events, hooks, workers, readers,   *)
(* agents, commits, prunings and restarts.                                 *)
(***************************************************************************)
EXTENDS WebhookDelivery, EventFeed, Improver, EvalVault, Budget, RunTrail, OrderLemmas, TLAPS

-----------------------------------------------------------------------------
(* Webhook deliveries.                                                      *)

(* What the sessions hold: rows to be written, keys to be posted.            *)
Row == [status : Status, attempt : 0..MAX_ATTEMPTS]
SessionsTyped ==
    /\ mutation \in [Emission -> {"none", "open", "committed", "rolledback"}]
    /\ task \in [Emission -> {"none", "scheduled", "running", "done"}]
    /\ todo \in [HookSession -> SUBSET DeliveryKey]
    /\ DOMAIN draft = HookSession
    /\ \A s \in HookSession :
           DOMAIN draft[s] \subseteq DeliveryKey /\ \A k \in DOMAIN draft[s] : draft[s][k] \in Row
    /\ delivery \in [DeliveryKey -> Row \cup {NoRow}]
    /\ posts \in [DeliveryKey -> Nat] /\ restarts \in Nat
    /\ \A k \in replaying : k \in DeliveryKey /\ delivery[k] # NoRow

(* The first attempts of an event run once, before any of its rows is seen.  *)
TaskRunsOnce ==
    /\ \A e \in Emission :
           /\ mutation[e] = "none" => task[e] = "none"
           /\ task[e] # "running" => todo[e] = {} /\ DOMAIN draft[e] = {}
           /\ todo[e] \cap DOMAIN draft[e] = {}
           /\ \A k \in todo[e] : posts[k] = 0
           /\ \A k \in todo[e] \cup DOMAIN draft[e] : k[1] = e /\ delivery[k] = NoRow
    /\ \A k \in DeliveryKey :
           /\ delivery[k] # NoRow => task[k[1]] = "done"
           /\ task[k[1]] \in {"none", "scheduled"} => posts[k] = 0

(* A worker posts a row once per batch, and only a row that is not settled.  *)
BatchUnsettled ==
    \A w \in Worker :
        /\ todo[w] \cap DOMAIN draft[w] = {}
        /\ \A k \in todo[w] : delivery[k].status \in {"pending", "failed"}

(* The counter of a row is at most one ahead of its POSTs; without restarts  *)
(* it is not behind them, once nobody has an outcome still to write.         *)
NotAhead(d, p) ==
    /\ d.attempt <= p + 1
    /\ d.status \in {"pending", "failed"} => d.attempt < MAX_ATTEMPTS
NotBehind(d, p) == restarts = 0 /\ d.status \in {"pending", "failed"} => p <= d.attempt
Drafted(k) == \E s \in HookSession : k \in DOMAIN draft[s]
AttemptsCounted ==
    /\ \A s \in HookSession : \A k \in DOMAIN draft[s] :
           NotAhead(draft[s][k], posts[k]) /\ NotBehind(draft[s][k], posts[k])
    /\ \A k \in DeliveryKey :
           /\ delivery[k] # NoRow => NotAhead(delivery[k], posts[k])
           /\ delivery[k] # NoRow /\ ~Drafted(k) => NotBehind(delivery[k], posts[k])
           /\ restarts = 0 => posts[k] <= MAX_ATTEMPTS

WebhookInv == SessionsTyped /\ TaskRunsOnce /\ RowHasOneDriver /\ BatchUnsettled /\ AttemptsCounted

-----------------------------------------------------------------------------
(* The limit on attempts is a number above one, and workers are not tasks.   *)
LEMMA Limits ==
    /\ MAX_ATTEMPTS \in Nat /\ MAX_ATTEMPTS >= 2
    /\ Emission \cap Worker = {} /\ HookSession = Emission \cup Worker
BY HookAssumption DEF HookAssumption, HookSession

(* What a POST makes of a row that was due.                                  *)
LEMMA Outcome ==
    ASSUME NEW d \in Row, d.status \in {"pending", "failed"}, NEW p \in Nat, NEW r,
           r = [d EXCEPT !.status = "delivered"] \/ r = FailedRow(d),
           NotAhead(d, p), NotBehind(d, p)
    PROVE  r \in Row /\ NotAhead(r, p + 1) /\ NotBehind(r, p + 1)
<1>1. d.attempt \in Nat /\ d.attempt <= p + 1 /\ d.attempt < MAX_ATTEMPTS
    BY Limits DEF Row, NotAhead
<1>2. CASE r = [d EXCEPT !.status = "delivered"]
    <2>1. r.status = "delivered" /\ r.attempt = d.attempt /\ r \in Row
        BY <1>2 DEF Row, Status
    <2> QED BY <1>1, <2>1 DEF NotAhead, NotBehind
<1>3. CASE r = FailedRow(d)
    <2>1. /\ r.attempt = d.attempt + 1
          /\ r.status = IF d.attempt + 1 >= MAX_ATTEMPTS THEN "dead" ELSE "failed"
        BY <1>3 DEF Row, FailedRow
    <2>2. r = [status |-> r.status, attempt |-> d.attempt + 1]
        BY <1>3, <2>1 DEF Row, FailedRow
    <2>3. r \in Row
        BY <1>1, <2>1, <2>2, Limits DEF Row, Status
    <2> QED BY <1>1, <2>1, <2>3, Limits DEF NotAhead, NotBehind
<1> QED BY <1>2, <1>3

LEMMA WebhookInitInv == HookInit => WebhookInv
<1> SUFFICES ASSUME HookInit PROVE WebhookInv
    OBVIOUS
<1>1. SessionsTyped
    BY Limits DEF HookInit, SessionsTyped
<1>2. TaskRunsOnce
    BY Limits DEF HookInit, TaskRunsOnce, DeliveryKey
<1>3. RowHasOneDriver /\ BatchUnsettled
    BY Limits DEF HookInit, RowHasOneDriver, BatchUnsettled
<1>4. AttemptsCounted
    BY Limits DEF HookInit, AttemptsCounted, DeliveryKey
<1> QED BY <1>1, <1>2, <1>3, <1>4 DEF WebhookInv

-----------------------------------------------------------------------------
(* Steps that leave rows, sessions and counts as they are.                   *)
LEMMA QuietStep ==
    ASSUME WebhookInv, UNCHANGED <<todo, draft, delivery, posts, restarts>>,
           mutation' \in [Emission -> {"none", "open", "committed", "rolledback"}],
           task' \in [Emission -> {"none", "scheduled", "running", "done"}],
           \A e \in Emission :
               /\ mutation'[e] = "none" => mutation[e] = "none" /\ task'[e] = task[e]
               /\ task'[e] = task[e] \/ (task[e] = "none" /\ task'[e] \in {"scheduled", "done"}),
           \A k \in replaying' : k \in DeliveryKey /\ delivery[k] # NoRow
    PROVE  WebhookInv'
<1>1. SessionsTyped'
    BY DEF WebhookInv, SessionsTyped
<1>2. TaskRunsOnce'
    <2>1. \A e \in Emission : task'[e] # "running" => task[e] # "running"
        BY DEF WebhookInv, SessionsTyped
    <2>2. \A k \in DeliveryKey : k[1] \in Emission
        BY DEF DeliveryKey
    <2> QED BY <2>1, <2>2 DEF WebhookInv, TaskRunsOnce
<1>3. RowHasOneDriver' /\ BatchUnsettled'
    BY DEF WebhookInv, RowHasOneDriver, BatchUnsettled
<1>4. AttemptsCounted'
    BY DEF WebhookInv, AttemptsCounted, Drafted, NotAhead, NotBehind
<1> QED BY <1>1, <1>2, <1>3, <1>4 DEF WebhookInv

(* A session takes k from its list and keeps r as what it will write.        *)
LEMMA RowDrafted ==
    ASSUME WebhookInv, NEW s \in HookSession, NEW k \in todo[s], NEW r \in Row, NEW q \in Nat,
           UNCHANGED <<mutation, task, delivery, replaying, restarts>>,
           draft' = [draft EXCEPT ![s] = With(@, k, r)],
           todo' = [todo EXCEPT ![s] = @ \ {k}],
           posts' = [posts EXCEPT ![k] = q],
           q \in {posts[k], posts[k] + 1},
           NotAhead(r, q), NotBehind(r, q), restarts = 0 => q <= MAX_ATTEMPTS
    PROVE  WebhookInv'
<1>0. /\ k \in DeliveryKey /\ k[1] \in Emission /\ k \notin DOMAIN draft[s] /\ posts[k] \in Nat
      /\ s \in Emission => task[s] = "running" /\ k[1] = s
    BY Limits DEF WebhookInv, SessionsTyped, TaskRunsOnce, BatchUnsettled, DeliveryKey
<1>1. /\ DOMAIN draft' = HookSession /\ DOMAIN draft'[s] = DOMAIN draft[s] \cup {k}
      /\ draft'[s][k] = r /\ \A j \in DOMAIN draft[s] : draft'[s][j] = draft[s][j]
      /\ \A t \in HookSession \ {s} : draft'[t] = draft[t]
    BY <1>0 DEF WebhookInv, SessionsTyped, With
<1>2. /\ todo'[s] = todo[s] \ {k} /\ \A t \in HookSession \ {s} : todo'[t] = todo[t]
      /\ todo' \in [HookSession -> SUBSET DeliveryKey]
    BY DEF WebhookInv, SessionsTyped
<1>3. /\ posts'[k] = q /\ \A j \in DeliveryKey \ {k} : posts'[j] = posts[j]
      /\ posts' \in [DeliveryKey -> Nat]
    BY <1>0 DEF WebhookInv, SessionsTyped
<1>4. SessionsTyped'
    BY <1>0, <1>1, <1>2, <1>3 DEF WebhookInv, SessionsTyped
<1>5. TaskRunsOnce'
    <2>1. task[k[1]] \in {"running", "done"} /\ (s \in Worker => delivery[k] # NoRow)
        BY <1>0, Limits DEF WebhookInv, TaskRunsOnce, RowHasOneDriver
    <2>2. ASSUME NEW e \in Emission, e # s
          PROVE  todo'[e] = todo[e] /\ draft'[e] = draft[e] /\ k \notin todo[e]
        <3>1. todo'[e] = todo[e] /\ draft'[e] = draft[e]
            BY <1>1, <1>2, <2>2, Limits
        <3>2. k \in todo[e] => k[1] = e /\ delivery[k] = NoRow
            BY DEF WebhookInv, TaskRunsOnce
        <3> QED BY <1>0, <2>1, <2>2, <3>1, <3>2, Limits
    <2>3. ASSUME NEW e \in Emission
          PROVE  /\ mutation[e] = "none" => task[e] = "none"
                 /\ task[e] # "running" => todo'[e] = {} /\ DOMAIN draft'[e] = {}
                 /\ todo'[e] \cap DOMAIN draft'[e] = {}
                 /\ \A j \in todo'[e] : posts'[j] = 0
                 /\ \A j \in todo'[e] \cup DOMAIN draft'[e] : j[1] = e /\ delivery[j] = NoRow
        <3>1. CASE e # s
            BY <1>3, <2>2, <3>1, Limits DEF WebhookInv, SessionsTyped, TaskRunsOnce
        <3>2. CASE e = s
            BY <1>0, <1>1, <1>2, <1>3, <3>2, Limits DEF WebhookInv, SessionsTyped, TaskRunsOnce
        <3> QED BY <3>1, <3>2
    <2>4. \A j \in DeliveryKey : task[j[1]] \in {"none", "scheduled"} => posts'[j] = 0
        BY <1>3, <2>1 DEF WebhookInv, TaskRunsOnce
    <2> QED BY <2>3, <2>4 DEF WebhookInv, TaskRunsOnce
<1>6. RowHasOneDriver'
    BY <1>0, <1>1, <1>2, Limits DEF WebhookInv, RowHasOneDriver
<1>7. BatchUnsettled'
    BY <1>0, <1>1, <1>2, Limits DEF WebhookInv, BatchUnsettled
<1>8. \A t \in HookSession \ {s} : k \notin DOMAIN draft[t]
    BY <1>0, Limits DEF WebhookInv, TaskRunsOnce, RowHasOneDriver
<1>9. AttemptsCounted'
    <2>1. ASSUME NEW t \in HookSession, NEW j \in DOMAIN draft'[t]
          PROVE  NotAhead(draft'[t][j], posts'[j]) /\ NotBehind(draft'[t][j], posts'[j])
        BY <1>0, <1>1, <1>3, <1>8, <2>1 DEF WebhookInv, SessionsTyped, AttemptsCounted
    <2>2. \A j \in DeliveryKey : delivery[j] # NoRow => NotAhead(delivery[j], posts'[j])
        BY <1>0, <1>3 DEF WebhookInv, SessionsTyped, AttemptsCounted, NotAhead, Row
    <2>3. \A j \in DeliveryKey : ~Drafted(j)' => j # k /\ ~Drafted(j)
        BY <1>0, <1>1 DEF Drafted
    <2>4. \A j \in DeliveryKey : delivery[j] # NoRow /\ ~Drafted(j)' => NotBehind(delivery[j], posts'[j])
        BY <1>3, <2>3 DEF WebhookInv, AttemptsCounted
    <2>5. restarts = 0 => \A j \in DeliveryKey : posts'[j] <= MAX_ATTEMPTS
        BY <1>3 DEF WebhookInv, AttemptsCounted
    <2> QED BY <2>1, <2>2, <2>4, <2>5 DEF AttemptsCounted, NotAhead, NotBehind
<1> QED BY <1>4, <1>5, <1>6, <1>7, <1>9 DEF WebhookInv

(* A session with nothing left to post commits.                              *)
LEMMA RowsCommitted ==
    ASSUME WebhookInv, NEW s \in HookSession, todo[s] = {}, CommitSession(s),
           UNCHANGED <<mutation, replaying, posts, restarts>>,
           \/ s \in Worker /\ UNCHANGED task
           \/ s \in Emission /\ task[s] = "running" /\ task' = [task EXCEPT ![s] = "done"]
    PROVE  WebhookInv'
<1>1. /\ DOMAIN draft' = HookSession /\ draft'[s] = <<>> /\ DOMAIN draft'[s] = {}
      /\ \A t \in HookSession \ {s} : draft'[t] = draft[t]
    BY DEF WebhookInv, SessionsTyped, CommitSession
<1>2. todo' = todo
    BY DEF WebhookInv, SessionsTyped, CommitSession
<1>3. /\ \A j \in DOMAIN draft[s] : delivery'[j] = draft[s][j] /\ j \in DeliveryKey /\ draft[s][j] \in Row
      /\ \A j \in DeliveryKey \ DOMAIN draft[s] : delivery'[j] = delivery[j]
    BY DEF WebhookInv, SessionsTyped, CommitSession
<1>4. \A d \in Row : d # NoRow
    BY DEF Row, Status, NoRow
<1>5. delivery' \in [DeliveryKey -> Row \cup {NoRow}]
    BY <1>3 DEF WebhookInv, SessionsTyped, CommitSession
<1>6. /\ task' \in [Emission -> {"none", "scheduled", "running", "done"}]
      /\ \A e \in Emission \ {s} : task'[e] = task[e]
      /\ s \in Emission => task'[s] = "done"
      /\ \A e \in Emission : task'[e] \in {task[e], "done"}
    BY Limits DEF WebhookInv, SessionsTyped
<1>7. \A t \in HookSession \ {s} : \A j \in todo[t] \cup DOMAIN draft[t] : j \notin DOMAIN draft[s]
    BY Limits DEF WebhookInv, TaskRunsOnce, RowHasOneDriver
<1>8. SessionsTyped'
    BY <1>1, <1>2, <1>3, <1>4, <1>5, <1>6 DEF WebhookInv, SessionsTyped
<1>9. TaskRunsOnce'
    <2>1. ASSUME NEW e \in Emission
          PROVE  /\ mutation[e] = "none" => task'[e] = "none"
                 /\ task'[e] # "running" => todo[e] = {} /\ DOMAIN draft'[e] = {}
                 /\ todo[e] \cap DOMAIN draft'[e] = {}
                 /\ \A j \in todo[e] : posts[j] = 0
                 /\ \A j \in todo[e] \cup DOMAIN draft'[e] : j[1] = e /\ delivery'[j] = NoRow
        <3>1. CASE e # s
            BY <1>1, <1>3, <1>6, <1>7, <3>1, Limits DEF WebhookInv, SessionsTyped, TaskRunsOnce
        <3>2. CASE e = s
            BY <1>1, <1>6, <3>2, Limits DEF WebhookInv, TaskRunsOnce
        <3> QED BY <3>1, <3>2
    <2>2. ASSUME NEW j \in DeliveryKey
          PROVE  /\ delivery'[j] # NoRow => task'[j[1]] = "done"
                 /\ task'[j[1]] \in {"none", "scheduled"} => posts[j] = 0
        <3>1. j[1] \in Emission
            BY DEF DeliveryKey
        <3>2. j \in DOMAIN draft[s] => task'[j[1]] = "done"
            BY <1>6, <3>1, Limits DEF WebhookInv, TaskRunsOnce, RowHasOneDriver
        <3> QED BY <1>3, <1>6, <3>1, <3>2 DEF WebhookInv, TaskRunsOnce
    <2> QED BY <1>2, <2>1, <2>2 DEF TaskRunsOnce
<1>10. RowHasOneDriver'
    <2>1. \A t \in Worker : DOMAIN draft'[t] \subseteq DOMAIN draft[t]
        BY <1>1, Limits
    <2>2. ASSUME NEW t \in Worker, NEW j \in DOMAIN draft'[t] \cup todo[t]
          PROVE  delivery'[j] # NoRow
        BY <1>1, <1>3, <1>7, <2>2, Limits DEF WebhookInv, SessionsTyped, RowHasOneDriver
    <2> QED BY <1>2, <2>1, <2>2 DEF WebhookInv, RowHasOneDriver
<1>11. BatchUnsettled'
    BY <1>1, <1>2, <1>3, <1>7, Limits DEF WebhookInv, SessionsTyped, BatchUnsettled
<1>12. AttemptsCounted'
    <2>1. ASSUME NEW t \in HookSession, NEW j \in DOMAIN draft'[t]
          PROVE  NotAhead(draft'[t][j], posts[j]) /\ NotBehind(draft'[t][j], posts[j])
        BY <1>1 DEF WebhookInv, AttemptsCounted
    <2>2. ASSUME NEW j \in DeliveryKey
          PROVE  /\ delivery'[j] # NoRow => NotAhead(delivery'[j], posts[j])
                 /\ delivery'[j] # NoRow /\ ~Drafted(j)' => NotBehind(delivery'[j], posts[j])
        <3>1. CASE j \in DOMAIN draft[s]
            BY <1>3, <3>1 DEF WebhookInv, AttemptsCounted
        <3>2. CASE j \notin DOMAIN draft[s]
            <4>1. ~Drafted(j)' => ~Drafted(j)
                BY <1>1, <3>2 DEF Drafted
            <4> QED BY <1>3, <3>2, <4>1 DEF WebhookInv, AttemptsCounted
        <3> QED BY <3>1, <3>2
    <2>3. \A j \in DeliveryKey : restarts = 0 => posts[j] <= MAX_ATTEMPTS
        BY DEF WebhookInv, AttemptsCounted
    <2> QED BY <2>1, <2>2, <2>3 DEF AttemptsCounted, NotAhead, NotBehind
<1> QED BY <1>8, <1>9, <1>10, <1>11, <1>12 DEF WebhookInv

-----------------------------------------------------------------------------
LEMMA WebhookStepInv == WebhookInv /\ [HookNext]_hookVars => WebhookInv'
<1> SUFFICES ASSUME WebhookInv, [HookNext]_hookVars PROVE WebhookInv'
    OBVIOUS
<1>1. ASSUME NEW e \in Emission, Emit(e) PROVE WebhookInv'
    <2>1. task[e] = "none"
        BY <1>1 DEF WebhookInv, TaskRunsOnce, Emit
    <2>2. UNCHANGED <<todo, draft, delivery, posts, restarts, replaying>>
        BY <1>1 DEF Emit
    <2>3. /\ mutation' = [mutation EXCEPT ![e] = "open"]
          /\ \E t \in {"scheduled", "done"} : task' = [task EXCEPT ![e] = t]
        BY <1>1 DEF Emit
    <2> QED BY <2>1, <2>2, <2>3, QuietStep DEF WebhookInv, SessionsTyped
<1>2. ASSUME NEW e \in Emission, EndMutation(e) PROVE WebhookInv'
    <2>1. UNCHANGED <<task, todo, draft, delivery, posts, restarts, replaying>>
        BY <1>2 DEF EndMutation
    <2>2. \E end \in {"committed", "rolledback"} : mutation' = [mutation EXCEPT ![e] = end]
        BY <1>2 DEF EndMutation
    <2> QED BY <2>1, <2>2, QuietStep DEF WebhookInv, SessionsTyped
<1>3. ASSUME NEW e \in Emission, StartTask(e) \/ TestWebhook(e) PROVE WebhookInv'
    <2>1. /\ task[e] \in {"none", "scheduled"} /\ todo[e] = {} /\ DOMAIN draft[e] = {}
          /\ UNCHANGED <<draft, delivery, replaying, posts, restarts>>
          /\ task' = [task EXCEPT ![e] = "running"]
        BY <1>3 DEF WebhookInv, TaskRunsOnce, StartTask, TestWebhook
    <2>2. PICK hs \in SUBSET Hook : todo' = [todo EXCEPT ![e] = {e} \X hs]
        <3>1. CASE StartTask(e)
            BY <3>1 DEF StartTask
        <3>2. CASE TestWebhook(e)
            <4>1. PICK h \in Hook : todo' = [todo EXCEPT ![e] = {<<e, h>>}]
                BY <3>2 DEF TestWebhook
            <4>2. {<<e, h>>} = {e} \X {h}
                OBVIOUS
            <4> QED BY <4>1, <4>2
        <3> QED BY <1>3, <3>1, <3>2
    <2>3. \/ mutation' = mutation /\ mutation[e] # "none"
          \/ mutation' = [mutation EXCEPT ![e] = "committed"]
        BY <1>3 DEF WebhookInv, TaskRunsOnce, StartTask, TestWebhook
    <2>4. /\ mutation' \in [Emission -> {"none", "open", "committed", "rolledback"}]
          /\ \A x \in Emission : mutation'[x] = "none" => mutation[x] = "none" /\ x # e
        BY <2>3 DEF WebhookInv, SessionsTyped
    <2>5. /\ todo' \in [HookSession -> SUBSET DeliveryKey] /\ todo'[e] = {e} \X hs
          /\ \A t \in HookSession \ {e} : todo'[t] = todo[t]
        BY <2>2, Limits DEF WebhookInv, SessionsTyped, DeliveryKey
    <2>6. /\ task' \in [Emission -> {"none", "scheduled", "running", "done"}]
          /\ task'[e] = "running" /\ \A x \in Emission \ {e} : task'[x] = task[x]
        BY <2>1 DEF WebhookInv, SessionsTyped
    <2>7. \A k \in {e} \X hs : k \in DeliveryKey /\ k[1] = e /\ posts[k] = 0 /\ delivery[k] = NoRow
        BY <2>1 DEF WebhookInv, TaskRunsOnce, DeliveryKey
    <2>8. SessionsTyped'
        BY <2>1, <2>4, <2>5, <2>6 DEF WebhookInv, SessionsTyped
    <2>9. TaskRunsOnce'
        <3>1. ASSUME NEW x \in Emission
              PROVE  /\ mutation'[x] = "none" => task'[x] = "none"
                     /\ task'[x] # "running" => todo'[x] = {} /\ DOMAIN draft[x] = {}
                     /\ todo'[x] \cap DOMAIN draft[x] = {}
                     /\ \A k \in todo'[x] : posts[k] = 0
                     /\ \A k \in todo'[x] \cup DOMAIN draft[x] : k[1] = x /\ delivery[k] = NoRow
            <4>1. CASE x = e
                BY <2>1, <2>4, <2>5, <2>6, <2>7, <4>1
            <4>2. CASE x # e
                BY <2>4, <2>5, <2>6, <4>2, Limits DEF WebhookInv, TaskRunsOnce
            <4> QED BY <4>1, <4>2
        <3>2. ASSUME NEW k \in DeliveryKey
              PROVE  /\ delivery[k] # NoRow => task'[k[1]] = "done"
                     /\ task'[k[1]] \in {"none", "scheduled"} => posts[k] = 0
            <4>1. k[1] \in Emission
                BY DEF DeliveryKey
            <4> QED BY <2>1, <2>6, <4>1 DEF WebhookInv, TaskRunsOnce
        <3> QED BY <2>1, <3>1, <3>2 DEF TaskRunsOnce
    <2>10. RowHasOneDriver' /\ BatchUnsettled'
        BY <2>1, <2>5, Limits DEF WebhookInv, RowHasOneDriver, BatchUnsettled
    <2>11. AttemptsCounted'
        BY <2>1 DEF WebhookInv, AttemptsCounted, Drafted, NotAhead, NotBehind
    <2> QED BY <2>8, <2>9, <2>10, <2>11 DEF WebhookInv
<1>4. ASSUME NEW e \in Emission, FirstAttempt(e) PROVE WebhookInv'
    <2>1. PICK k \in todo[e], ok \in BOOLEAN :
            /\ DeliverOne(e, k, NewRow, view[e][k[2]], ok)
            /\ todo' = [todo EXCEPT ![e] = @ \ {k}]
            /\ UNCHANGED <<mutation, task, delivery, replaying, restarts>>
        BY <1>4 DEF FirstAttempt
    <2> DEFINE r == IF ok THEN [NewRow EXCEPT !.status = "delivered"] ELSE FailedRow(NewRow)
    <2>2. /\ draft' = [draft EXCEPT ![e] = With(@, k, r)]
          /\ posts' = [posts EXCEPT ![k] = posts[k] + 1]
        BY <2>1 DEF DeliverOne
    <2>3. posts[k] = 0
        BY DEF WebhookInv, TaskRunsOnce
    <2>4. NewRow \in Row /\ NewRow.status = "pending" /\ NotAhead(NewRow, 0) /\ NotBehind(NewRow, 0)
        BY Limits DEF NewRow, Row, Status, NotAhead, NotBehind
    <2>5. r \in Row /\ NotAhead(r, 1) /\ NotBehind(r, 1)
        BY <2>4, Outcome
    <2>6. e \in HookSession /\ 1 \in {posts[k], posts[k] + 1} /\ (restarts = 0 => 1 <= MAX_ATTEMPTS)
        BY <2>3, Limits
    <2>7. posts' = [posts EXCEPT ![k] = 1]
        BY <2>2, <2>3
    <2> HIDE DEF r
    <2> QED BY <2>1, <2>2, <2>5, <2>6, <2>7, RowDrafted
<1>5. ASSUME NEW e \in Emission, AbortTask(e) PROVE WebhookInv'
    <2>1. /\ e \in HookSession /\ DOMAIN draft' = HookSession /\ DOMAIN draft'[e] = {} /\ todo'[e] = {}
          /\ \A t \in HookSession \ {e} : draft'[t] = draft[t] /\ todo'[t] = todo[t]
          /\ todo' \in [HookSession -> SUBSET DeliveryKey]
          /\ UNCHANGED <<mutation, delivery, replaying, posts, restarts>>
        BY <1>5, Limits DEF WebhookInv, SessionsTyped, AbortTask
    <2>2. /\ task' \in [Emission -> {"none", "scheduled", "running", "done"}]
          /\ task'[e] = "done" /\ \A x \in Emission \ {e} : task'[x] = task[x]
          /\ task[e] = "running" /\ mutation[e] # "none"
        BY <1>5, Limits DEF WebhookInv, SessionsTyped, TaskRunsOnce, AbortTask
    <2>3. SessionsTyped'
        BY <2>1, <2>2 DEF WebhookInv, SessionsTyped
    <2>4. TaskRunsOnce'
        BY <2>1, <2>2, Limits DEF WebhookInv, TaskRunsOnce, DeliveryKey
    <2>5. RowHasOneDriver' /\ BatchUnsettled'
        BY <2>1, Limits DEF WebhookInv, RowHasOneDriver, BatchUnsettled
    <2>6. \A k \in DeliveryKey : delivery[k] # NoRow /\ ~Drafted(k)' => ~Drafted(k)
        BY <2>1 DEF WebhookInv, TaskRunsOnce, Drafted
    <2>7. AttemptsCounted'
        BY <2>1, <2>6 DEF WebhookInv, AttemptsCounted, NotAhead, NotBehind
    <2> QED BY <2>3, <2>4, <2>5, <2>7 DEF WebhookInv
<1>6. ASSUME NEW e \in Emission, EndTask(e) PROVE WebhookInv'
    BY <1>6, RowsCommitted, Limits DEF EndTask
<1>7. ASSUME NEW w \in Worker, ClaimBatch(w) PROVE WebhookInv'
    <2>1. PICK S \in SUBSET Claimable : todo' = [todo EXCEPT ![w] = S]
        BY <1>7 DEF ClaimBatch
    <2>2. /\ UNCHANGED <<mutation, task, draft, delivery, replaying, posts, restarts>>
          /\ todo[w] = {} /\ draft[w] = <<>> /\ DOMAIN draft[w] = {}
        BY <1>7 DEF ClaimBatch
    <2>3. /\ w \in HookSession /\ todo'[w] = S /\ \A t \in HookSession \ {w} : todo'[t] = todo[t]
          /\ S \subseteq DeliveryKey /\ todo' \in [HookSession -> SUBSET DeliveryKey]
        BY <2>1, Limits DEF WebhookInv, SessionsTyped, Claimable
    <2>4. \A k \in S : /\ delivery[k].status \in {"pending", "failed"} /\ delivery[k] # NoRow
                      /\ \A v \in Worker : k \notin DOMAIN draft[v] \cup todo[v]
        BY DEF Claimable, Locked, NoRow
    <2>5. SessionsTyped'
        BY <2>2, <2>3 DEF WebhookInv, SessionsTyped
    <2>6. TaskRunsOnce'
        BY <2>2, <2>3, Limits DEF WebhookInv, TaskRunsOnce
    <2>7. RowHasOneDriver' /\ BatchUnsettled'
        BY <2>2, <2>3, <2>4, Limits DEF WebhookInv, RowHasOneDriver, BatchUnsettled
    <2>8. AttemptsCounted'
        BY <2>2 DEF WebhookInv, AttemptsCounted, Drafted, NotAhead, NotBehind
    <2> QED BY <2>5, <2>6, <2>7, <2>8 DEF WebhookInv
<1>8. ASSUME NEW w \in Worker, RetryRow(w) PROVE WebhookInv'
    <2>1. PICK k \in todo[w] :
            /\ todo' = [todo EXCEPT ![w] = @ \ {k}]
            /\ UNCHANGED <<mutation, task, delivery, replaying, restarts>>
            /\ \/ /\ draft' = [draft EXCEPT ![w] = With(@, k, [delivery[k] EXCEPT !.status = "dead"])]
                  /\ posts' = posts
               \/ \E ok \in BOOLEAN :
                     /\ draft' = [draft EXCEPT ![w] = With(@, k,
                           IF ok THEN [delivery[k] EXCEPT !.status = "delivered"]
                                 ELSE FailedRow(delivery[k]))]
                     /\ posts' = [posts EXCEPT ![k] = @ + 1]
        BY <1>8 DEF RetryRow, DeliverOne
    <2> DEFINE d == delivery[k]
               p == posts[k]
    <2>2. /\ w \in HookSession /\ k \in DeliveryKey /\ p \in Nat /\ d \in Row
          /\ d.status \in {"pending", "failed"} /\ d # NoRow
        BY Limits DEF WebhookInv, SessionsTyped, RowHasOneDriver, BatchUnsettled
    <2>3. ~Drafted(k)
        BY <2>2, Limits DEF WebhookInv, TaskRunsOnce, RowHasOneDriver, BatchUnsettled, Drafted
    <2>4. NotAhead(d, p) /\ NotBehind(d, p) /\ d.attempt \in Nat
        BY <2>2, <2>3, Limits DEF WebhookInv, AttemptsCounted, Row
    <2>5. restarts = 0 => p + 1 <= MAX_ATTEMPTS
        BY <2>2, <2>4, Limits DEF NotAhead, NotBehind
    <2>6. CASE /\ draft' = [draft EXCEPT ![w] = With(@, k, [delivery[k] EXCEPT !.status = "dead"])]
               /\ posts' = posts
        <3>1. /\ [d EXCEPT !.status = "dead"] \in Row /\ [d EXCEPT !.status = "dead"].status = "dead"
              /\ [d EXCEPT !.status = "dead"].attempt = d.attempt
            BY <2>2 DEF Row, Status
        <3>2. NotAhead([d EXCEPT !.status = "dead"], p) /\ NotBehind([d EXCEPT !.status = "dead"], p)
            BY <2>4, <3>1 DEF NotAhead, NotBehind
        <3>3. posts' = [posts EXCEPT ![k] = p] /\ (restarts = 0 => p <= MAX_ATTEMPTS)
            BY <2>2, <2>6 DEF WebhookInv, SessionsTyped, AttemptsCounted
        <3> QED BY <2>1, <2>2, <2>6, <3>1, <3>2, <3>3, RowDrafted
    <2>7. ASSUME NEW ok \in BOOLEAN,
                 draft' = [draft EXCEPT ![w] = With(@, k,
                           IF ok THEN [delivery[k] EXCEPT !.status = "delivered"]
                                 ELSE FailedRow(delivery[k]))],
                 posts' = [posts EXCEPT ![k] = @ + 1]
          PROVE  WebhookInv'
        <3> DEFINE r == IF ok THEN [delivery[k] EXCEPT !.status = "delivered"]
                              ELSE FailedRow(delivery[k])
        <3>1. r \in Row /\ NotAhead(r, p + 1) /\ NotBehind(r, p + 1)
            BY <2>2, <2>4, Outcome
        <3>2. draft' = [draft EXCEPT ![w] = With(@, k, r)]
            BY <2>7
        <3>3. p + 1 \in Nat
            BY <2>2
        <3> HIDE DEF r
        <3> QED BY <2>1, <2>2, <2>5, <2>7, <3>1, <3>2, <3>3, RowDrafted
    <2> QED BY <2>1, <2>6, <2>7
<1>9. ASSUME NEW w \in Worker, EndBatch(w) PROVE WebhookInv'
    BY <1>9, RowsCommitted, Limits DEF EndBatch
<1>10. CASE BecomeDue \/ EnableWebhook \/ DeleteWebhook
    <2>1. UNCHANGED <<mutation, task, todo, draft, delivery, posts, restarts, replaying>>
        BY <1>10 DEF BecomeDue, EnableWebhook, DeleteWebhook
    <2> QED BY <2>1, QuietStep DEF WebhookInv, SessionsTyped
<1>11. CASE ReplayRead
    <2>1. UNCHANGED <<mutation, task, todo, draft, delivery, posts, restarts>>
        BY <1>11 DEF ReplayRead
    <2>2. PICK k \in DeliveryKey : delivery[k].status \in {"failed", "dead"} /\ replaying' = replaying \cup {k}
        BY <1>11 DEF ReplayRead
    <2>3. delivery[k] # NoRow
        BY <2>2 DEF NoRow
    <2> QED BY <2>1, <2>2, <2>3, QuietStep DEF WebhookInv, SessionsTyped
<1>12. CASE ReplayWrite
    <2> DEFINE fresh == [status |-> "pending", attempt |-> 0]
    <2>1. PICK k \in replaying \ Locked :
            /\ delivery' = [delivery EXCEPT ![k] = fresh]
            /\ posts' = [posts EXCEPT ![k] = 0]
            /\ replaying' = replaying \ {k}
            /\ UNCHANGED <<mutation, task, todo, draft, restarts>>
        BY <1>12 DEF ReplayWrite
    <2>2. /\ fresh \in Row /\ fresh # NoRow /\ NotAhead(fresh, 0) /\ NotBehind(fresh, 0)
          /\ fresh.status = "pending"
        BY Limits DEF Row, Status, NoRow, NotAhead, NotBehind
    <2> HIDE DEF fresh
    <2>3. k \in DeliveryKey /\ delivery[k] # NoRow /\ \A w \in Worker : k \notin DOMAIN draft[w] \cup todo[w]
        BY DEF WebhookInv, SessionsTyped, Locked
    <2>4. /\ delivery'[k] = fresh /\ posts'[k] = 0
          /\ \A j \in DeliveryKey \ {k} : delivery'[j] = delivery[j] /\ posts'[j] = posts[j]
          /\ delivery' \in [DeliveryKey -> Row \cup {NoRow}] /\ posts' \in [DeliveryKey -> Nat]
        BY <2>1, <2>2, <2>3 DEF WebhookInv, SessionsTyped
    <2>5. \A s \in HookSession : k \notin DOMAIN draft[s] \cup todo[s]
        BY <2>3, Limits DEF WebhookInv, TaskRunsOnce
    <2>6. SessionsTyped'
        BY <2>1, <2>2, <2>4 DEF WebhookInv, SessionsTyped
    <2>7. TaskRunsOnce'
        <3>1. ASSUME NEW e \in Emission
              PROVE  /\ \A j \in todo[e] : posts'[j] = 0
                     /\ \A j \in todo[e] \cup DOMAIN draft[e] : j[1] = e /\ delivery'[j] = NoRow
            BY <2>4, <2>5, Limits DEF WebhookInv, SessionsTyped, TaskRunsOnce
        <3>2. ASSUME NEW j \in DeliveryKey
              PROVE  /\ delivery'[j] # NoRow => task[j[1]] = "done"
                     /\ task[j[1]] \in {"none", "scheduled"} => posts'[j] = 0
            BY <2>3, <2>4 DEF WebhookInv, TaskRunsOnce
        <3> QED BY <2>1, <3>1, <3>2 DEF WebhookInv, TaskRunsOnce
    <2>8. RowHasOneDriver'
        BY <2>1, <2>3, <2>4, Limits DEF WebhookInv, SessionsTyped, RowHasOneDriver
    <2>9. BatchUnsettled'
        BY <2>1, <2>3, <2>4, Limits DEF WebhookInv, SessionsTyped, BatchUnsettled
    <2>10. AttemptsCounted'
        <3>1. ASSUME NEW s \in HookSession, NEW j \in DOMAIN draft[s]
              PROVE  NotAhead(draft[s][j], posts'[j]) /\ NotBehind(draft[s][j], posts'[j])
            BY <2>4, <2>5 DEF WebhookInv, SessionsTyped, AttemptsCounted
        <3>2. ASSUME NEW j \in DeliveryKey
              PROVE  /\ delivery'[j] # NoRow => NotAhead(delivery'[j], posts'[j])
                     /\ delivery'[j] # NoRow /\ ~Drafted(j) => NotBehind(delivery'[j], posts'[j])
                     /\ restarts = 0 => posts'[j] <= MAX_ATTEMPTS
            BY <2>2, <2>4, Limits DEF WebhookInv, AttemptsCounted
        <3> QED BY <2>1, <3>1, <3>2 DEF AttemptsCounted, Drafted, NotAhead, NotBehind
    <2> QED BY <2>6, <2>7, <2>8, <2>9, <2>10 DEF WebhookInv
<1>13. CASE RestartHooks
    <2>1. /\ DOMAIN draft' = HookSession /\ todo' \in [HookSession -> SUBSET DeliveryKey]
          /\ \A s \in HookSession : DOMAIN draft'[s] = {} /\ todo'[s] = {}
          /\ restarts' = restarts + 1 /\ replaying' = {} /\ UNCHANGED <<delivery, posts>>
        BY <1>13 DEF RestartHooks, DropSessions
    <2>2. /\ task' = [e \in Emission |-> IF task[e] = "none" THEN "none" ELSE "done"]
          /\ mutation' = [e \in Emission |-> IF mutation[e] = "open" THEN "rolledback" ELSE mutation[e]]
        BY <1>13 DEF RestartHooks
    <2>3. SessionsTyped'
        BY <2>1, <2>2 DEF WebhookInv, SessionsTyped
    <2>4. TaskRunsOnce'
        BY <2>1, <2>2, Limits DEF WebhookInv, SessionsTyped, TaskRunsOnce, DeliveryKey
    <2>5. RowHasOneDriver' /\ BatchUnsettled'
        BY <2>1, Limits DEF RowHasOneDriver, BatchUnsettled
    <2>6. restarts' # 0
        BY <2>1 DEF WebhookInv, SessionsTyped
    <2>7. AttemptsCounted'
        BY <2>1, <2>6 DEF WebhookInv, AttemptsCounted, NotAhead, NotBehind
    <2> QED BY <2>3, <2>4, <2>5, <2>7 DEF WebhookInv
<1>14. CASE UNCHANGED hookVars
    BY <1>14, QuietStep DEF WebhookInv, SessionsTyped, hookVars
<1> QED BY <1>1, <1>2, <1>3, <1>4, <1>5, <1>6, <1>7, <1>8, <1>9, <1>10, <1>11, <1>12, <1>13, <1>14
        DEF HookNext, TaskStep, WorkerStep

LEMMA IInvBounds == WebhookInv => RowHasOneDriver /\ AttemptBudget
<1> SUFFICES ASSUME WebhookInv, NEW k \in DeliveryKey, delivery[k] # NoRow,
                    delivery[k].status = "dead", delivery[k].attempt >= MAX_ATTEMPTS
             PROVE  posts[k] >= MAX_ATTEMPTS - 1
    BY DEF WebhookInv, AttemptsCounted, AttemptBudget
<1>1. delivery[k] \in Row /\ delivery[k].attempt \in Nat /\ posts[k] \in Nat
    BY Limits DEF WebhookInv, SessionsTyped, Row
<1>2. delivery[k].attempt <= posts[k] + 1
    BY DEF WebhookInv, AttemptsCounted, NotAhead
<1> QED BY <1>1, <1>2, Limits

(* No two workers drive one delivery row, nor a worker one that a first      *)
(* attempt still holds, with any number of replicas, replays and restarts.   *)
THEOREM OneDriver == HookSpec => []RowHasOneDriver
<1>1. HookSpec => []WebhookInv
    BY WebhookInitInv, WebhookStepInv, PTL DEF HookSpec
<1> QED BY <1>1, IInvBounds, PTL

(* Without restarts a row is posted MAX_ATTEMPTS times per queueing at most; *)
(* with or without, it is not given up for its attempts before it was posted *)
(* MAX_ATTEMPTS - 1 times, for any limit above one.                          *)
THEOREM AttemptsBounded == HookSpec => []AttemptBudget
<1>1. HookSpec => []WebhookInv
    BY WebhookInitInv, WebhookStepInv, PTL DEF HookSpec
<1> QED BY <1>1, IInvBounds, PTL

-----------------------------------------------------------------------------
(* The event feed.                                                          *)

FeedTyped ==
    /\ lastId \in Nat
    /\ proj \in Seq(Project \union {NoProject}) /\ Len(proj) = lastId
    /\ inTx \in [Writer -> SUBSET (1..lastId)]
    /\ eventRows \subseteq 1..lastId /\ pruned \subseteq 1..lastId
    /\ cursor \in [Reader -> 0..lastId] /\ DOMAIN poll = Reader
    /\ got \in [Reader -> Seq(1..lastId)]
    /\ skipped \in [Reader -> SUBSET (1..lastId)]
    /\ lost \in [Reader -> SUBSET (1..lastId)]

Rising(s) == \A i, j \in 1..Len(s) : i < j => s[i] < s[j]
Beyond(s, e) == \A i \in 1..Len(s) : s[i] < e

(* An answer under construction: events past the cursor, in order; a row of   *)
(* the project that it does not hold was open when it was fetched, or is past *)
(* its events.                                                                *)
Fetched(r, answer) ==
    /\ answer.events \in Seq(1..lastId) /\ answer.open \subseteq 1..lastId
    /\ Rising(answer.events)
    /\ \A i \in 1..Len(answer.events) : answer.events[i] > cursor[r]
    /\ \A e \in Open : e \in answer.open \/ Beyond(answer.events, e)
    /\ \A e \in eventRows : e > cursor[r] /\ Matches(r, e) =>
           \/ e \in Range(answer.events) \/ e \in answer.open
           \/ Beyond(answer.events, e)

PollsSound ==
    \A r \in Reader : poll[r] = NoPoll \/ (poll[r].state = "fetched" /\ Fetched(r, poll[r]))

(* Save what it overtook, retention deleted below whatever remains or may     *)
(* still be committed.                                                        *)
PrunedBelow == \A e \in pruned \ overtaken, f \in eventRows \union Open : e < f

(* A row is committed or belongs to one open mutation.                        *)
Apart ==
    /\ eventRows \intersect Open = {}
    /\ \A v, w \in Writer : v # w => inTx[v] \intersect inTx[w] = {}

(* What is still open below a cursor was open when the cursor passed it.      *)
OpenSkipped == \A r \in Reader : \A e \in Open : e <= cursor[r] => e \in skipped[r]

(* Nothing beyond the cursor was delivered, and what was came in order.       *)
DeliveredBelow ==
    \A r \in Reader : Rising(got[r]) /\ \A i \in 1..Len(got[r]) : got[r][i] <= cursor[r]

FeedInv ==
    /\ FeedTyped /\ PollsSound /\ PrunedBelow /\ OpenSkipped /\ DeliveredBelow
    /\ MissesExplained /\ Apart

-----------------------------------------------------------------------------
LEMMA OpenTypes ==
    ASSUME FeedTyped
    PROVE  Open \subseteq 1..lastId /\ \A w \in Writer : inTx[w] \subseteq Open
  BY DEF FeedTyped, Open

(* The events of an answer follow what was delivered. *)
LEMMA Concatenated ==
    ASSUME NEW n \in Nat, NEW s \in Seq(1..n), NEW t \in Seq(1..n), NEW c \in 0..n,
           Rising(s), Rising(t), \A i \in 1..Len(s) : s[i] <= c, \A i \in 1..Len(t) : t[i] > c
    PROVE  /\ s \o t \in Seq(1..n) /\ Rising(s \o t)
           /\ Range(s \o t) = Range(s) \union Range(t)
           /\ t # <<>> => /\ Last(t) \in 1..n /\ Last(t) > c /\ Last(t) \in Range(t)
                          /\ \A i \in 1..Len(s \o t) : (s \o t)[i] <= Last(t)
                          /\ \A i \in 1..Len(t) : t[i] <= Last(t)
           /\ t = <<>> => \A i \in 1..Len(s \o t) : (s \o t)[i] <= c
<1>1. /\ s \o t \in Seq(1..n) /\ Len(s \o t) = Len(s) + Len(t)
      /\ \A i \in 1..Len(s) + Len(t) : (s \o t)[i] = IF i <= Len(s) THEN s[i] ELSE t[i - Len(s)]
      /\ Len(s) \in Nat /\ Len(t) \in Nat
    BY ConcatProperties
<1>2. /\ \A i \in 1..Len(s) : s[i] \in 1..n
      /\ \A i \in 1..Len(t) : t[i] \in 1..n
      /\ DOMAIN s = 1..Len(s) /\ DOMAIN t = 1..Len(t) /\ DOMAIN (s \o t) = 1..Len(s) + Len(t)
    BY <1>1, ElementOfSeq
<1> DEFINE u == s \o t
<1>3. Rising(u)
  <2> SUFFICES ASSUME NEW i \in 1..Len(s) + Len(t), NEW j \in 1..Len(s) + Len(t), i < j
               PROVE  u[i] < u[j]
      BY <1>1 DEF Rising
  <2>1. CASE j <= Len(s)
      BY <1>1, <2>1 DEF Rising
  <2>2. CASE i <= Len(s) /\ ~(j <= Len(s))
    <3>1. i \in 1..Len(s) /\ j - Len(s) \in 1..Len(t)
        BY <1>1, <2>2
    <3>2. s[i] <= c /\ t[j - Len(s)] > c /\ s[i] \in Nat /\ t[j - Len(s)] \in Nat
        BY <1>2, <3>1
    <3> QED BY <1>1, <2>2, <3>2
  <2>3. CASE ~(i <= Len(s))
    <3>1. /\ i - Len(s) \in 1..Len(t) /\ j - Len(s) \in 1..Len(t)
          /\ i - Len(s) < j - Len(s) /\ ~(j <= Len(s))
        BY <1>1, <2>3
    <3> QED BY <1>1, <2>3, <3>1 DEF Rising
  <2> QED BY <2>1, <2>2, <2>3
<1>4. \A i \in 1..Len(s) : u[i] = s[i] /\ i \in DOMAIN u
    BY <1>1, <1>2
<1>5. \A i \in 1..Len(t) : u[i + Len(s)] = t[i] /\ i + Len(s) \in DOMAIN u
    BY <1>1, <1>2
<1>6. \A i \in DOMAIN u : \/ i \in 1..Len(s) /\ u[i] = s[i]
                          \/ i - Len(s) \in 1..Len(t) /\ u[i] = t[i - Len(s)]
    BY <1>1, <1>2
<1>7. Range(u) = Range(s) \union Range(t)
  <2>0. /\ \A x : x \in Range(u) <=> \E i \in DOMAIN u : u[i] = x
        /\ \A x : x \in Range(s) <=> \E i \in DOMAIN s : s[i] = x
        /\ \A x : x \in Range(t) <=> \E i \in DOMAIN t : t[i] = x
      BY DEF Range
  <2>1. ASSUME NEW x \in Range(u) PROVE x \in Range(s) \union Range(t)
    <3>1. PICK i \in DOMAIN u : u[i] = x
        BY <2>0
    <3> QED BY <1>2, <1>6, <2>0, <3>1
  <2>2. ASSUME NEW x \in Range(s) PROVE x \in Range(u)
    <3>1. PICK i \in DOMAIN s : s[i] = x
        BY <2>0
    <3> QED BY <1>2, <1>4, <2>0, <3>1
  <2>3. ASSUME NEW x \in Range(t) PROVE x \in Range(u)
    <3>1. PICK i \in DOMAIN t : t[i] = x
        BY <2>0
    <3> QED BY <1>2, <1>5, <2>0, <3>1
  <2> QED BY <2>1, <2>2, <2>3
<1>8. ASSUME t # <<>>
      PROVE  /\ Last(t) \in 1..n /\ Last(t) > c /\ Last(t) \in Range(t)
             /\ \A i \in 1..Len(t) : t[i] <= Last(t)
  <2>1. Len(t) \in 1..Len(t) /\ Last(t) = t[Len(t)]
      BY <1>1, <1>8, EmptySeq DEF Last
  <2>2. \A i \in 1..Len(t) : i < Len(t) => t[i] < t[Len(t)]
      BY <2>1 DEF Rising
  <2>3. Last(t) \in Range(t)
      BY <1>2, <2>1 DEF Range
  <2>4. t[Len(t)] \in 1..n /\ t[Len(t)] > c
      BY <1>2, <2>1
  <2>5. ASSUME NEW i \in 1..Len(t) PROVE t[i] <= t[Len(t)]
    <3>1. t[i] \in Nat /\ t[Len(t)] \in Nat
        BY <1>2, <2>1
    <3>2. i = Len(t) \/ i < Len(t)
        BY <1>1
    <3> QED BY <2>2, <3>1, <3>2
  <2> QED BY <2>1, <2>3, <2>4, <2>5
<1>9. ASSUME t # <<>>, NEW i \in 1..Len(u) PROVE u[i] <= Last(t)
  <2>1. i \in DOMAIN u
      BY <1>1, <1>2
  <2>2. CASE i \in 1..Len(s) /\ u[i] = s[i]
      BY <1>2, <1>8, <1>9, <2>2
  <2>3. CASE i - Len(s) \in 1..Len(t) /\ u[i] = t[i - Len(s)]
      BY <1>8, <1>9, <2>3
  <2> QED BY <1>6, <2>1, <2>2, <2>3
<1>10. ASSUME t = <<>>, NEW i \in 1..Len(u) PROVE u[i] <= c
    BY <1>1, <1>6, <1>10, <1>2
<1> QED BY <1>1, <1>3, <1>7, <1>8, <1>9, <1>10

LEMMA FeedInitInv == FeedInit => FeedInv
<1> SUFFICES ASSUME FeedInit PROVE FeedInv
    OBVIOUS
<1>1. FeedTyped
    BY DEF FeedInit, FeedTyped
<1>2. PollsSound /\ Open = {} /\ eventRows = {} /\ pruned = {}
    BY DEF FeedInit, PollsSound, Open
<1>3. DeliveredBelow
    BY DEF FeedInit, DeliveredBelow, Rising
<1>4. Apart
    BY <1>2 DEF FeedInit, Apart
<1> QED BY <1>1, <1>2, <1>3, <1>4 DEF FeedInv, PrunedBelow, OpenSkipped, MissesExplained

(* The order of an answer's events is that of the contract. *)
LEMMA FeedContract == FeedInv => CursorContract
  BY DEF FeedInv, DeliveredBelow, Rising, CursorContract, DeliveredInOrder

(* A step that moves no reader: what it must leave as it was. *)
LEMMA WriterStep ==
    ASSUME FeedInv, FeedTyped', UNCHANGED readerVars, lastId' >= lastId,
           \A e \in 1..lastId : proj'[e] = proj[e],
           Open' \subseteq Open \union {lastId + 1}, lastId + 1 \in Open' => lastId' = lastId + 1,
           eventRows' \subseteq eventRows \union Open,
           eventRows' \union pruned' \subseteq eventRows \union pruned \union Open,
           overtaken \subseteq overtaken',
           PrunedBelow', Apart'
    PROVE  FeedInv'
<1>0. /\ FeedTyped /\ PollsSound /\ OpenSkipped /\ DeliveredBelow /\ MissesExplained
      /\ Open \subseteq 1..lastId
    BY OpenTypes DEF FeedInv
<1>1. lastId \in Nat /\ lastId' \in Nat /\ 1..lastId \subseteq 1..lastId'
      /\ eventRows \subseteq 1..lastId /\ pruned \subseteq 1..lastId
      /\ \A r \in Reader : cursor[r] \in 0..lastId
    BY <1>0 DEF FeedTyped
<1>2. /\ poll' = poll /\ cursor' = cursor /\ got' = got /\ skipped' = skipped /\ lost' = lost
    BY DEF readerVars
<1>3. \A r \in Reader, e \in 1..lastId : Matches(r, e)' <=> Matches(r, e)
    BY DEF Matches
<1>4. PollsSound'
  <2> SUFFICES ASSUME NEW r \in Reader, poll[r] # NoPoll
               PROVE  poll[r].state = "fetched" /\ Fetched(r, poll[r])'
      BY <1>2 DEF PollsSound
  <2>1. poll[r].state = "fetched" /\ Fetched(r, poll[r])
      BY <1>0 DEF PollsSound
  <2> DEFINE evs == poll[r].events
             was == poll[r].open
  <2>2. /\ evs \in Seq(1..lastId) /\ was \subseteq 1..lastId /\ Rising(evs)
        /\ \A i \in 1..Len(evs) : evs[i] > cursor[r]
        /\ \A e \in Open : e \in was \/ Beyond(evs, e)
        /\ \A e \in eventRows : e > cursor[r] /\ Matches(r, e) =>
               e \in Range(evs) \/ e \in was \/ Beyond(evs, e)
      BY <2>1 DEF Fetched
  <2>3. evs \in Seq(1..lastId')
      BY <1>1, <2>2
  <2>4. Beyond(evs, lastId + 1)
    <3>1. \A i \in 1..Len(evs) : evs[i] \in 1..lastId
        BY <2>2, ElementOfSeq
    <3> QED BY <1>1, <3>1 DEF Beyond
  <2>5. \A e \in Open' : e \in was \/ Beyond(evs, e)
      BY <2>2, <2>4
  <2>6. \A e \in eventRows' : e > cursor[r] /\ Matches(r, e)' =>
            e \in Range(evs) \/ e \in was \/ Beyond(evs, e)
      BY <1>0, <1>1, <1>3, <2>2
  <2> QED BY <1>1, <1>2, <2>1, <2>2, <2>3, <2>5, <2>6 DEF Fetched, Beyond, Rising
<1>5. OpenSkipped'
    BY <1>0, <1>1, <1>2 DEF OpenSkipped
<1>6. DeliveredBelow'
    BY <1>0, <1>2 DEF DeliveredBelow, Rising
<1>7. MissesExplained'
    BY <1>0, <1>1, <1>2, <1>3 DEF MissesExplained, OpenSkipped
<1> QED BY <1>4, <1>5, <1>6, <1>7 DEF FeedInv

(* A poll that was answered: the cursor moves to the last of its events. *)
LEMMA AnswerPoll ==
    ASSUME FeedInv, NEW r \in Reader, PollAnswer(r) PROVE FeedInv'
<1>0. /\ FeedTyped /\ PollsSound /\ PrunedBelow /\ OpenSkipped /\ DeliveredBelow
      /\ MissesExplained /\ Apart /\ Open \subseteq 1..lastId
    BY OpenTypes DEF FeedInv
<1> DEFINE evs == poll[r].events
           was == poll[r].open
           next == IF evs = <<>> THEN cursor[r] ELSE Last(evs)
           oldest == {e \in eventRows : Matches(r, e)}
<1>1. /\ cursor' = [cursor EXCEPT ![r] = next]
      /\ got' = [got EXCEPT ![r] = @ \o evs]
      /\ skipped' = [skipped EXCEPT ![r] = @ \union {e \in was : e <= next}]
      /\ lost' = IF cursor[r] = 0 \/ Gap(r, oldest) \/ oldest = {}
                 THEN [lost EXCEPT ![r] = @ \union pruned] ELSE lost
      /\ poll' = [poll EXCEPT ![r] = NoPoll]
      /\ UNCHANGED <<lastId, proj, inTx, eventRows, pruned, overtaken>>
      /\ poll[r].state = "fetched"
    BY DEF PollAnswer
<1>2. Fetched(r, poll[r])
    BY <1>0, <1>1 DEF PollsSound, NoPoll
<1>3. /\ evs \in Seq(1..lastId) /\ was \subseteq 1..lastId /\ Rising(evs)
      /\ \A i \in 1..Len(evs) : evs[i] > cursor[r]
      /\ \A e \in Open : e \in was \/ Beyond(evs, e)
      /\ \A e \in eventRows : e > cursor[r] /\ Matches(r, e) =>
             e \in Range(evs) \/ e \in was \/ Beyond(evs, e)
    BY <1>2 DEF Fetched
<1>4. /\ lastId \in Nat /\ got[r] \in Seq(1..lastId) /\ cursor[r] \in 0..lastId
      /\ Rising(got[r]) /\ \A i \in 1..Len(got[r]) : got[r][i] <= cursor[r]
    BY <1>0 DEF FeedTyped, DeliveredBelow
<1>5. /\ got[r] \o evs \in Seq(1..lastId) /\ Rising(got[r] \o evs)
      /\ Range(got[r] \o evs) = Range(got[r]) \union Range(evs)
      /\ evs # <<>> => /\ next \in 1..lastId /\ next > cursor[r]
                       /\ \A i \in 1..Len(got[r] \o evs) : (got[r] \o evs)[i] <= next
                       /\ \A i \in 1..Len(evs) : evs[i] <= next
                       /\ \E i \in 1..Len(evs) : evs[i] = next
      /\ evs = <<>> => \A i \in 1..Len(got[r] \o evs) : (got[r] \o evs)[i] <= cursor[r]
  <2>1. evs # <<>> => \E i \in 1..Len(evs) : evs[i] = Last(evs)
      BY <1>3, EmptySeq, LenProperties DEF Last
  <2> QED BY <1>3, <1>4, <2>1, Concatenated
<1>6. next \in 0..lastId /\ next >= cursor[r]
  <2>1. CASE evs = <<>>
    <3>1. next = cursor[r]
        BY <2>1
    <3> HIDE DEF next
    <3> QED BY <1>4, <3>1
  <2>2. CASE evs # <<>>
    <3>1. next \in 1..lastId /\ next > cursor[r]
        BY <1>5, <2>2
    <3> HIDE DEF next
    <3> QED BY <1>4, <3>1
  <2> QED BY <2>1, <2>2
<1> HIDE DEF next
<1>7. \A e : Beyond(evs, e) => evs = <<>> \/ next < e
    BY <1>5 DEF Beyond
<1>8. evs = <<>> => next = cursor[r]
    BY DEF next
<1>9. \A e \in Open : e <= next /\ e > cursor[r] => e \in was
    BY <1>0, <1>3, <1>4, <1>6, <1>7, <1>8
<1>10. \A e \in eventRows : e <= next /\ e > cursor[r] /\ Matches(r, e) => e \in Range(evs) \/ e \in was
    BY <1>0, <1>3, <1>4, <1>6, <1>7, <1>8 DEF FeedTyped
<1>11. \A e \in pruned \ overtaken : e > cursor[r] => cursor[r] = 0 \/ Gap(r, oldest) \/ oldest = {}
  <2> SUFFICES ASSUME NEW e \in pruned \ overtaken, e > cursor[r], oldest # {}
               PROVE  Gap(r, oldest)
      OBVIOUS
  <2>1. oldest \subseteq Nat /\ e \in Nat /\ \A f \in oldest : e < f
    <3>1. oldest \subseteq eventRows /\ eventRows \subseteq Nat /\ pruned \subseteq Nat
        BY <1>0 DEF FeedTyped
    <3> QED BY <1>0, <3>1 DEF PrunedBelow
  <2>2. \E f \in oldest : \A g \in oldest : f <= g
      BY <2>1, LeastNat
  <2>3. MinOf(oldest) \in oldest
      BY <2>2 DEF MinOf
  <2> HIDE DEF oldest
  <2>4. MinOf(oldest) \in Nat /\ e < MinOf(oldest)
      BY <2>1, <2>3
  <2> QED BY <1>4, <2>1, <2>4 DEF Gap
<1>12. /\ cursor'[r] = next /\ got'[r] = got[r] \o evs
       /\ skipped'[r] = skipped[r] \union {e \in was : e <= next}
       /\ lost[r] \subseteq lost'[r]
       /\ \A e \in pruned \ overtaken : e > cursor[r] => e \in lost'[r]
    BY <1>0, <1>1, <1>11 DEF FeedTyped
<1>13. \A q \in Reader \ {r} : /\ cursor'[q] = cursor[q] /\ got'[q] = got[q] /\ poll'[q] = poll[q]
                               /\ skipped'[q] = skipped[q] /\ lost'[q] = lost[q]
    BY <1>0, <1>1 DEF FeedTyped
<1>14. FeedTyped'
  <2>1. cursor' \in [Reader -> 0..lastId] /\ got' \in [Reader -> Seq(1..lastId)]
      BY <1>0, <1>1, <1>5, <1>6 DEF FeedTyped
  <2>2. skipped' \in [Reader -> SUBSET (1..lastId)] /\ lost' \in [Reader -> SUBSET (1..lastId)]
      BY <1>0, <1>1, <1>3 DEF FeedTyped
  <2> QED BY <1>0, <1>1, <2>1, <2>2 DEF FeedTyped
<1>15. /\ Open' = Open /\ \A q \in Reader, e \in eventRows \union pruned : Matches(q, e)' <=> Matches(q, e)
  <2>1. Open' = Open
      BY <1>1 DEF Open
  <2>2. \A q, e : Matches(q, e)' <=> Matches(q, e)
      BY <1>1 DEF Matches
  <2> QED BY <2>1, <2>2
<1>16. PollsSound'
  <2> SUFFICES ASSUME NEW q \in Reader
               PROVE  poll'[q] = NoPoll \/ (poll'[q].state = "fetched" /\ Fetched(q, poll[q])')
      BY DEF PollsSound
  <2>1. CASE q = r
      <3>1. poll' = [poll EXCEPT ![r] = NoPoll] /\ DOMAIN poll = Reader
          BY <1>0, <1>1 DEF FeedTyped
      <3>2. poll'[r] = NoPoll
          BY <3>1
      <3> QED BY <2>1, <3>2
  <2>2. CASE q # r
      BY <1>0, <1>1, <1>13, <1>15, <2>2 DEF PollsSound, Fetched, Beyond, Rising
  <2> QED BY <2>1, <2>2
<1>17. PrunedBelow' /\ Apart'
    BY <1>0, <1>1, <1>15 DEF PrunedBelow, Apart
<1>18. OpenSkipped'
  <2> SUFFICES ASSUME NEW q \in Reader, NEW e \in Open, e <= cursor'[q] PROVE e \in skipped'[q]
      BY <1>15 DEF OpenSkipped
  <2>1. CASE q = r
    <3>1. e <= next /\ e \in Nat
        BY <1>0, <1>12, <2>1
    <3> QED BY <1>0, <1>4, <1>9, <1>12, <2>1, <3>1 DEF OpenSkipped
  <2>2. CASE q # r
      BY <1>0, <1>13, <2>2 DEF OpenSkipped
  <2> QED BY <2>1, <2>2
<1>19. DeliveredBelow'
  <2> SUFFICES ASSUME NEW q \in Reader
               PROVE  Rising(got'[q]) /\ \A i \in 1..Len(got'[q]) : got'[q][i] <= cursor'[q]
      BY DEF DeliveredBelow, Rising
  <2>1. CASE q = r
      BY <1>5, <1>8, <1>12, <2>1
  <2>2. CASE q # r
      BY <1>0, <1>13, <2>2 DEF DeliveredBelow
  <2> QED BY <2>1, <2>2
<1>20. MissesExplained'
  <2> SUFFICES ASSUME NEW q \in Reader, NEW e \in (eventRows \union pruned) \ Range(got'[q]),
                      e <= cursor'[q], Matches(q, e)
               PROVE  e \in skipped'[q] \/ e \in lost'[q] \/ e \in overtaken
      BY <1>1, <1>15 DEF MissesExplained
  <2>1. CASE q = r
    <3>1. e <= next /\ e \notin Range(got[r]) /\ e \notin Range(evs)
        BY <1>5, <1>12, <2>1
    <3>0. e \in Nat
      <4>1. eventRows \subseteq Nat /\ pruned \subseteq Nat
          BY <1>0 DEF FeedTyped
      <4>2. e \in eventRows \union pruned
          OBVIOUS
      <4> QED BY <4>1, <4>2
    <3>2. CASE e <= cursor[r]
        BY <1>0, <1>12, <2>1, <3>1, <3>2 DEF MissesExplained
    <3>3. CASE e > cursor[r]
        BY <1>10, <1>12, <2>1, <3>1, <3>3
    <3> QED BY <1>4, <3>0, <3>2, <3>3
  <2>2. CASE q # r
      BY <1>0, <1>13, <2>2 DEF MissesExplained
  <2> QED BY <2>1, <2>2
<1> QED BY <1>14, <1>16, <1>17, <1>18, <1>19, <1>20 DEF FeedInv

LEMMA FeedStepInv == FeedInv /\ [FeedNext]_feedVars => FeedInv'
<1> SUFFICES ASSUME FeedInv, [FeedNext]_feedVars PROVE FeedInv'
    OBVIOUS
<1>0. /\ FeedTyped /\ PollsSound /\ PrunedBelow /\ OpenSkipped /\ DeliveredBelow
      /\ MissesExplained /\ Apart
      /\ Open \subseteq 1..lastId /\ \A w \in Writer : inTx[w] \subseteq Open
      /\ lastId \in Nat /\ eventRows \subseteq 1..lastId /\ pruned \subseteq 1..lastId
    BY OpenTypes DEF FeedInv, FeedTyped
<1>1. ASSUME NEW w \in Writer, EmitEvent(w) PROVE FeedInv'
  <2>0. PICK p \in Project \union {NoProject} : proj' = Append(proj, p)
      BY <1>1 DEF EmitEvent
  <2>1. /\ lastId' = lastId + 1
        /\ inTx' = [inTx EXCEPT ![w] = @ \union {lastId + 1}]
        /\ UNCHANGED <<eventRows, pruned, overtaken, readerVars>>
      BY <1>1 DEF EmitEvent
  <2>2. /\ proj' \in Seq(Project \union {NoProject}) /\ Len(proj') = lastId + 1
        /\ \A e \in 1..lastId : proj'[e] = proj[e]
      BY <1>0, <2>0, AppendProperties DEF FeedTyped
  <2>3. 1..lastId \subseteq 1..lastId' /\ 0..lastId \subseteq 0..lastId' /\ lastId + 1 \in 1..lastId'
      BY <1>0, <2>1
  <2>4. FeedTyped'
    <3>1. inTx' \in [Writer -> SUBSET (1..lastId')]
        BY <1>0, <2>1, <2>3 DEF FeedTyped
    <3>2. /\ cursor' \in [Reader -> 0..lastId'] /\ got' \in [Reader -> Seq(1..lastId')]
          /\ skipped' \in [Reader -> SUBSET (1..lastId')] /\ DOMAIN poll' = Reader
          /\ lost' \in [Reader -> SUBSET (1..lastId')]
      <4>1. ASSUME NEW s \in Seq(1..lastId) PROVE s \in Seq(1..lastId')
          BY <2>3, SeqMonotonic
      <4> QED BY <1>0, <2>1, <2>3, <4>1 DEF FeedTyped, readerVars
    <3> QED BY <1>0, <2>1, <2>2, <2>3, <3>1, <3>2 DEF FeedTyped
  <2>5. Open' \subseteq Open \union {lastId + 1}
      BY <1>0, <2>1 DEF Open, FeedTyped
  <2>6. PrunedBelow'
      BY <1>0, <2>1, <2>5 DEF PrunedBelow
  <2>7. Apart'
    <3>1. \A v \in Writer : inTx'[v] = inTx[v] \/ (v = w /\ inTx'[v] = inTx[v] \union {lastId + 1})
        BY <1>0, <2>1 DEF FeedTyped
    <3>2. lastId + 1 \notin eventRows /\ \A v \in Writer : lastId + 1 \notin inTx[v]
        BY <1>0
    <3> QED BY <1>0, <2>1, <2>5, <3>1, <3>2 DEF Apart
  <2> QED BY <1>0, <2>1, <2>2, <2>4, <2>5, <2>6, <2>7, WriterStep
<1>2. ASSUME NEW w \in Writer, CommitMutation(w) \/ RollbackMutation(w) PROVE FeedInv'
  <2>1. /\ inTx' = [inTx EXCEPT ![w] = {}]
        /\ eventRows' = eventRows \union inTx[w] \/ eventRows' = eventRows
        /\ UNCHANGED <<lastId, proj, pruned, overtaken, readerVars>>
      BY <1>2 DEF CommitMutation, RollbackMutation
  <2>2. FeedTyped'
      BY <1>0, <2>1 DEF FeedTyped, readerVars
  <2>3. Open' \subseteq Open
      BY <1>0, <2>1 DEF Open, FeedTyped
  <2>4. eventRows' \subseteq eventRows \union Open
      BY <1>0, <2>1
  <2>5. PrunedBelow'
      BY <1>0, <2>1, <2>3, <2>4 DEF PrunedBelow
  <2>6. lastId + 1 \notin Open'
      BY <1>0, <2>3
  <2>7. Apart'
    <3>1. \A v \in Writer : inTx'[v] = IF v = w THEN {} ELSE inTx[v]
        BY <1>0, <2>1 DEF FeedTyped
    <3>2. Open' \intersect inTx[w] = {}
        BY <1>0, <3>1 DEF Open, Apart
    <3>3. eventRows' \intersect Open' = {}
        BY <1>0, <2>1, <2>3, <3>2 DEF Apart
    <3>4. \A v, u \in Writer : v # u => inTx'[v] \intersect inTx'[u] = {}
        BY <1>0, <3>1 DEF Apart
    <3> QED BY <3>3, <3>4 DEF Apart
  <2> QED BY <1>0, <2>1, <2>2, <2>3, <2>4, <2>5, <2>6, <2>7, WriterStep
<1>3. ASSUME PruneEvents PROVE FeedInv'
  <2>1. PICK old \in SUBSET eventRows \ {{}} :
          /\ eventRows' = eventRows \ old /\ pruned' = pruned \union old
          /\ overtaken' = overtaken \union {e \in old : \E f \in eventRows' \union Open : f < e}
          /\ UNCHANGED <<lastId, proj, inTx, readerVars>>
      BY <1>3 DEF PruneEvents
  <2>2. FeedTyped'
      BY <1>0, <2>1 DEF FeedTyped, readerVars
  <2>3. Open' = Open
      BY <2>1 DEF Open
  <2>4. PrunedBelow'
    <3>1. ASSUME NEW e \in pruned' \ overtaken', NEW f \in eventRows' \union Open' PROVE e < f
      <4>0. f \in (eventRows \ old) \union Open /\ f \in Nat
          BY <1>0, <2>1, <2>3
      <4>1. CASE e \in pruned
          BY <1>0, <2>1, <4>0, <4>1 DEF PrunedBelow
      <4>2. CASE e \in old
        <5>1. ~(f < e) /\ f # e /\ e \in Nat
          <6>1. old \subseteq 1..lastId
              BY <1>0
          <6>2. old \intersect Open = {}
              BY <1>0 DEF Apart
          <6> QED BY <1>0, <2>1, <2>3, <4>0, <4>2, <6>1, <6>2
        <5> QED BY <4>0, <5>1
      <4> QED BY <2>1, <4>1, <4>2
    <3> QED BY <3>1 DEF PrunedBelow
  <2>6. lastId + 1 \notin Open'
      BY <1>0, <2>3
  <2>7. Apart'
      BY <1>0, <2>1, <2>3 DEF Apart
  <2> QED BY <1>0, <2>1, <2>2, <2>3, <2>4, <2>6, <2>7, WriterStep
<1>4. ASSUME NEW r \in Reader, PollFetch(r) PROVE FeedInv'
  <2>1. PICK page \in Pages :
          /\ IsPage(page, Found(r))
          /\ poll' = [poll EXCEPT ![r] = [state |-> "fetched", events |-> page, open |-> Open]]
      BY <1>4 DEF PollFetch
  <2>2. UNCHANGED <<lastId, proj, inTx, eventRows, pruned, overtaken, cursor, got, skipped, lost>>
      BY <1>4 DEF PollFetch
  <2>3. page \in Seq(Event) /\ DOMAIN page = 1..Len(page)
      BY <2>1 DEF Pages
  <2> DEFINE answer == [state |-> "fetched", events |-> page, open |-> Open]
  <2>4. \A i \in 1..Len(page) : page[i] \in Range(page)
      BY <2>3 DEF Range
  <2>5. Found(r) \subseteq 1..lastId /\ \A e \in Found(r) : e > cursor[r]
      BY <1>0 DEF Found
  <2>6. \A i \in 1..Len(page) : page[i] \in 1..lastId /\ page[i] > cursor[r]
      BY <2>1, <2>4, <2>5 DEF IsPage
  <2>7. page \in Seq(1..lastId)
      BY <2>3, <2>6, SeqOfElements
  <2>8. \A e \in eventRows : e > cursor[r] /\ Matches(r, e) => e \in Range(page) \/ Beyond(page, e)
      BY <2>1, <2>4 DEF IsPage, Found, Beyond
  <2>9. Rising(page)
      BY <2>1, <2>3 DEF IsPage, Rising
  <2>10. Fetched(r, answer)
      BY <1>0, <2>6, <2>7, <2>8, <2>9 DEF Fetched
  <2>11. PollsSound'
    <3>1. \A q \in Reader : poll'[q] = IF q = r THEN answer ELSE poll[q]
        BY <1>0, <2>1 DEF FeedTyped
    <3>2. answer.state = "fetched"
        OBVIOUS
    <3> HIDE DEF answer
    <3> SUFFICES ASSUME NEW q \in Reader
                 PROVE  poll'[q] = NoPoll \/ (poll'[q].state = "fetched" /\ Fetched(q, poll[q])')
        BY DEF PollsSound
    <3>3. Open' = Open /\ \A e : Matches(q, e)' <=> Matches(q, e)
        BY <2>2 DEF Open, Matches
    <3>4. PICK a : a = poll'[q]
        OBVIOUS
    <3>5. a = NoPoll \/ (a.state = "fetched" /\ Fetched(q, a))
        BY <1>0, <2>10, <3>1, <3>2, <3>4 DEF PollsSound
    <3> QED BY <2>2, <3>3, <3>4, <3>5 DEF Fetched, Beyond, Rising
  <2>12. FeedTyped' /\ PrunedBelow' /\ Apart'
      BY <1>0, <2>1, <2>2 DEF FeedTyped, PrunedBelow, Apart, Open
  <2>13. \A q, e : Matches(q, e)' <=> Matches(q, e)
      BY <2>2 DEF Matches
  <2>14. OpenSkipped' /\ DeliveredBelow' /\ MissesExplained'
      BY <1>0, <2>2, <2>13 DEF OpenSkipped, DeliveredBelow, Rising, MissesExplained, Open
  <2> QED BY <2>11, <2>12, <2>14 DEF FeedInv
<1>5. ASSUME NEW r \in Reader, PollAnswer(r) PROVE FeedInv'
    BY <1>5, AnswerPoll
<1>6. ASSUME UNCHANGED feedVars PROVE FeedInv'
  <2>1. FeedTyped' /\ PrunedBelow' /\ Apart'
      BY <1>0, <1>6 DEF feedVars, readerVars, FeedTyped, PrunedBelow, Apart, Open
  <2>2. Open' = Open
      BY <1>6 DEF feedVars, Open
  <2>3. /\ \A r \in Reader : poll'[r] = poll[r] /\ got'[r] = got[r]
        /\ UNCHANGED <<lastId, proj, eventRows, pruned, overtaken, cursor, skipped, lost>>
      BY <1>6 DEF feedVars
  <2>4. PollsSound' /\ OpenSkipped' /\ DeliveredBelow' /\ MissesExplained'
      BY <1>0, <2>2, <2>3 DEF PollsSound, Fetched, Beyond, Rising, OpenSkipped, DeliveredBelow,
         MissesExplained, Matches
  <2> QED BY <2>1, <2>4 DEF FeedInv
<1> QED BY <1>1, <1>2, <1>3, <1>4, <1>5, <1>6 DEF FeedNext

(* list_events hands each reader every event at most once, in the order of ids,*)
(* and whatever its cursor passed was open then, or pruned and accounted for, *)
(* for any writers, readers, projects, pages and prunings.                    *)
THEOREM FeedKeepsItsContract == FeedSpec => []CursorContract
<1> QED BY FeedInitInv, FeedStepInv, FeedContract, PTL DEF FeedSpec


-----------------------------------------------------------------------------
(* Improver governance.                                                     *)

ChangeStatus == {"proposed", "approved", "rejected", "applied", "rolled_back"}
RowsTyped ==
    /\ versions \in Seq([parent : Nat, by : Agent, signed : BOOLEAN])
    /\ changes \in Seq([base : Nat, status : ChangeStatus])
    /\ critiques \in Seq([target : Nat, open : BOOLEAN])
    /\ current \in Nat /\ lastGood \in Nat /\ DOMAIN command = Agent

(* Facts about given rows: a version was reviewed, and the first n critiques *)
(* hold nothing open against it.                                             *)
ReviewedIn(i, rs) == \E r \in rs : r.target = i
SettledIn(i, n, cs) == n \in 0..Len(cs) /\ \A k \in 1..n : cs[k].target = i => ~cs[k].open

(* What follows a change of status: nothing, or the move of the pointers.    *)
Follow == {NoCommand} \cup [op : {"point"}, to : Nat, previous : Nat]

(* What a command has read of the rows stays good: n changes, those ever     *)
(* approved, reviews and critiques.                                          *)
Sound(c, n, ok, rs, cs) ==
    /\ c.op = "register" => c.parent \in Nat
    /\ c.op = "use" => c.to \in Nat
    /\ c.op = "point" => c.to \in Nat /\ c.previous \in Nat
    /\ c.op \in {"mint", "apply"} => c.change \in 1..n /\ c.change \in ok
    /\ c.op = "mint" => c.previous \in Nat
    /\ c.op \in {"apply", "status"} => c.next \in Follow
    /\ c.op = "status" => /\ c.change \in 1..n /\ c.to \in ChangeStatus
                          /\ c.to \in {"applied", "rolled_back"} => c.change \in ok
    /\ "require_review" \in scenario.rules =>
           /\ c.op = "critiques" => ReviewedIn(c.candidate, rs)
           /\ c.op = "land" => /\ ReviewedIn(c.gate.candidate, rs)
                               /\ SettledIn(c.gate.candidate, c.gate.critiques, cs)

CommandsSound ==
    \A a \in Agent : Sound(command[a], Len(changes), approved, reviews, critiques)
ChangesApproved ==
    \A k \in 1..Len(changes) :
        changes[k].status \in {"approved", "applied", "rolled_back"} => k \in approved
ReviewedByOthers ==
    \A r \in reviews : /\ r.target \in 1..Len(versions)
                       /\ scenario.anonymous \/ r.reviewer # versions[r.target].by
GateSound ==
    "require_review" \in scenario.rules /\ promotedTo # NoVersion =>
        ReviewedIn(promotedTo, reviews) /\ SettledIn(promotedTo, gate.critiques, critiques)

ImproverInv == RowsTyped /\ CommandsSound /\ ChangesApproved /\ ReviewedByOthers /\ GateSound

-----------------------------------------------------------------------------
LEMMA ImproverInitInv == ImproverInit => ImproverInv
<1> SUFFICES ASSUME ImproverInit PROVE ImproverInv
    OBVIOUS
<1>1. RowsTyped
    BY DEF ImproverInit, RowsTyped, NoVersion
<1>2. CommandsSound
    BY DEF ImproverInit, CommandsSound, Sound, NoCommand
<1>3. ChangesApproved /\ ReviewedByOthers /\ GateSound
    BY DEF ImproverInit, ChangesApproved, ReviewedByOthers, GateSound
<1> QED BY <1>1, <1>2, <1>3 DEF ImproverInv

(* Rows are added, critiques settled, and nothing else happens to them.      *)
CritiquesGrow(cs, ds) ==
    /\ Len(cs) <= Len(ds)
    /\ \A k \in 1..Len(cs) : ds[k].target = cs[k].target /\ (ds[k].open => cs[k].open)

LEMMA SettledGrows ==
    ASSUME NEW i, NEW n, NEW cs \in Seq([target : Nat, open : BOOLEAN]),
           NEW ds \in Seq([target : Nat, open : BOOLEAN]), CritiquesGrow(cs, ds),
           SettledIn(i, n, cs)
    PROVE  SettledIn(i, n, ds)
<1>1. n \in 0..Len(cs) /\ Len(cs) \in Nat /\ Len(ds) \in Nat /\ Len(cs) <= Len(ds)
    BY DEF SettledIn, CritiquesGrow
<1>2. n \in 0..Len(ds) /\ \A k \in 1..n : k \in 1..Len(cs)
    BY <1>1
<1>3. \A k \in 1..n : ds[k].target = i => ~ds[k].open
    BY <1>2 DEF SettledIn, CritiquesGrow
<1> QED BY <1>2, <1>3 DEF SettledIn

LEMMA SoundGrows ==
    ASSUME NEW c, NEW n \in Nat, NEW m \in Nat, n <= m, NEW ok, NEW pk, ok \subseteq pk,
           NEW rs, NEW ss, rs \subseteq ss, NEW cs \in Seq([target : Nat, open : BOOLEAN]),
           NEW ds \in Seq([target : Nat, open : BOOLEAN]), CritiquesGrow(cs, ds),
           Sound(c, n, ok, rs, cs)
    PROVE  Sound(c, m, pk, ss, ds)
<1>1. \A i : ReviewedIn(i, rs) => ReviewedIn(i, ss)
    BY DEF ReviewedIn
<1>2. \A i, k : SettledIn(i, k, cs) => SettledIn(i, k, ds)
    BY SettledGrows
<1> QED BY <1>1, <1>2 DEF Sound

(* The frame of every step.                                                  *)
LEMMA RowsGrow ==
    ASSUME ImproverInv, scenario' = scenario, RowsTyped', ChangesApproved',
           Len(versions) <= Len(versions'),
           \A i \in 1..Len(versions) : versions'[i].by = versions[i].by,
           Len(changes) <= Len(changes'), approved \subseteq approved', reviews \subseteq reviews',
           \A r \in reviews' \ reviews :
               /\ r.target \in 1..Len(versions)
               /\ scenario.anonymous \/ r.reviewer # versions[r.target].by,
           CritiquesGrow(critiques, critiques'),
           \A a \in Agent : \/ command'[a] = command[a]
                            \/ Sound(command'[a], Len(changes'), approved', reviews', critiques'),
           UNCHANGED <<gate, promotedTo>> \/ GateSound'
    PROVE  ImproverInv'
<1>0. /\ critiques \in Seq([target : Nat, open : BOOLEAN])
      /\ critiques' \in Seq([target : Nat, open : BOOLEAN])
      /\ Len(changes) \in Nat /\ Len(changes') \in Nat
      /\ Len(versions) \in Nat /\ Len(versions') \in Nat
    BY DEF ImproverInv, RowsTyped
<1>1. ASSUME NEW a \in Agent
      PROVE  Sound(command'[a], Len(changes'), approved', reviews', critiques')
    <2>1. Sound(command[a], Len(changes), approved, reviews, critiques)
        BY DEF ImproverInv, CommandsSound
    <2>2. Sound(command[a], Len(changes'), approved', reviews', critiques')
        BY <1>0, <2>1, SoundGrows
    <2> QED BY <2>2
<1>2. CommandsSound'
    BY <1>1 DEF CommandsSound, Sound
<1>3. ReviewedByOthers'
    BY <1>0 DEF ImproverInv, ReviewedByOthers
<1>4. GateSound'
    <2>1. SUFFICES ASSUME UNCHANGED <<gate, promotedTo>> PROVE GateSound'
        OBVIOUS
    <2>2. \A i : ReviewedIn(i, reviews) => ReviewedIn(i, reviews')
        BY DEF ReviewedIn
    <2>3. \A i, k : SettledIn(i, k, critiques) => SettledIn(i, k, critiques')
        BY <1>0, SettledGrows
    <2> QED BY <2>1, <2>2, <2>3 DEF ImproverInv, GateSound
<1> QED BY <1>2, <1>3, <1>4 DEF ImproverInv

(* Steps that leave the rows of the registry alone.                          *)
LEMMA RowsStand ==
    ASSUME ImproverInv, UNCHANGED <<scenario, versions, changes, reviews, critiques, approved>>,
           current' \in Nat, lastGood' \in Nat, DOMAIN command' = Agent,
           \A a \in Agent : \/ command'[a] = command[a]
                            \/ Sound(command'[a], Len(changes), approved, reviews, critiques),
           UNCHANGED <<gate, promotedTo>> \/ GateSound'
    PROVE  ImproverInv'
<1>1. RowsTyped' /\ ChangesApproved'
    BY DEF ImproverInv, RowsTyped, ChangesApproved
<1>2. Len(changes) \in Nat /\ Len(versions) \in Nat /\ Len(critiques) \in Nat
    BY DEF ImproverInv, RowsTyped
<1>3. CritiquesGrow(critiques, critiques')
    BY <1>2 DEF CritiquesGrow
<1>4. /\ Len(versions) <= Len(versions') /\ Len(changes) <= Len(changes')
      /\ \A i \in 1..Len(versions) : versions'[i].by = versions[i].by
      /\ reviews \subseteq reviews' /\ reviews' \ reviews = {}
    BY <1>2
<1>5. \A a \in Agent : \/ command'[a] = command[a]
                       \/ Sound(command'[a], Len(changes'), approved', reviews', critiques')
    OBVIOUS
<1> QED BY <1>1, <1>3, <1>4, <1>5, RowsGrow

(* The rows of a change set, and what a new status makes of them.            *)
ChangeRow == [base : Nat, status : ChangeStatus]
LEMMA ChangeTyped ==
    ASSUME RowsTyped, NEW k \in 1..Len(changes)
    PROVE  changes[k] \in ChangeRow /\ changes[k].status \in ChangeStatus /\ changes[k].base \in Nat
<1>1. changes \in Seq(ChangeRow)
    BY DEF RowsTyped, ChangeRow
<1>2. changes[k] \in ChangeRow
    BY <1>1, ElementOfSeq
<1> QED BY <1>2 DEF ChangeRow

LEMMA StatusSet ==
    ASSUME RowsTyped, NEW k \in 1..Len(changes), NEW to \in ChangeStatus,
           changes' = [changes EXCEPT ![k].status = to]
    PROVE  /\ changes' \in Seq(ChangeRow) /\ Len(changes') = Len(changes)
           /\ changes'[k].status = to /\ \A j \in 1..Len(changes) \ {k} : changes'[j] = changes[j]
<1> DEFINE e == [changes[k] EXCEPT !.status = to]
<1>1. e \in ChangeRow /\ e.status = to
    BY ChangeTyped DEF ChangeRow
<1>2. changes \in Seq(ChangeRow)
    BY DEF RowsTyped, ChangeRow
<1>3. changes' = [changes EXCEPT ![k] = e]
    BY <1>2
<1> HIDE DEF e
<1> QED BY <1>1, <1>2, <1>3, ExceptSeq

(* A new version leaves the others as they are.                              *)
LEMMA VersionAdded ==
    ASSUME RowsTyped, NEW parent \in Nat, NEW who \in Agent, NEW signed \in BOOLEAN,
           versions' = Append(versions, [parent |-> parent, by |-> who, signed |-> signed])
    PROVE  /\ versions' \in Seq([parent : Nat, by : Agent, signed : BOOLEAN])
           /\ Len(versions') = Len(versions) + 1
           /\ \A i \in 1..Len(versions) : versions'[i] = versions[i]
<1> DEFINE S == [parent : Nat, by : Agent, signed : BOOLEAN]
           v == [parent |-> parent, by |-> who, signed |-> signed]
<1>1. v \in S
    OBVIOUS
<1>2. versions \in Seq(S) /\ versions' = Append(versions, v)
    BY DEF RowsTyped
<1> HIDE DEF S, v
<1>3. /\ versions' \in Seq(S) /\ Len(versions') = Len(versions) + 1
      /\ \A i \in 1..Len(versions) : versions'[i] = versions[i]
    BY <1>1, <1>2, AppendProperties
<1> QED BY <1>3 DEF S

(* A critique is added, or settled.                                          *)
CritiqueRow == [target : Nat, open : BOOLEAN]
LEMMA CritiqueMoved ==
    ASSUME RowsTyped, CreateCritique \/ SetCritiqueStatus
    PROVE  critiques' \in Seq(CritiqueRow) /\ CritiquesGrow(critiques, critiques')
<1>1. critiques \in Seq(CritiqueRow) /\ Len(critiques) \in Nat
    BY DEF RowsTyped, CritiqueRow
<1>2. CASE CreateCritique
    <2>1. PICK i \in 1..Len(versions) : critiques' = Append(critiques, [target |-> i, open |-> TRUE])
        BY <1>2 DEF CreateCritique, VersionId
    <2>2. [target |-> i, open |-> TRUE] \in CritiqueRow
        BY DEF CritiqueRow
    <2>3. /\ critiques' \in Seq(CritiqueRow) /\ Len(critiques') = Len(critiques) + 1
          /\ \A k \in 1..Len(critiques) : critiques'[k] = critiques[k]
        BY <1>1, <2>1, <2>2, AppendProperties
    <2> QED BY <1>1, <2>3 DEF CritiquesGrow
<1>3. CASE SetCritiqueStatus
    <2>0. DOMAIN critiques = 1..Len(critiques)
        BY <1>1
    <2>a. PICK k \in DOMAIN critiques : critiques' = [critiques EXCEPT ![k].open = FALSE]
        BY <1>3 DEF SetCritiqueStatus
    <2>1. k \in 1..Len(critiques) /\ critiques' = [critiques EXCEPT ![k].open = FALSE]
        BY <2>0, <2>a
    <2> DEFINE e == [critiques[k] EXCEPT !.open = FALSE]
    <2>2. critiques[k] \in CritiqueRow
        BY <1>1, ElementOfSeq
    <2>3. e \in CritiqueRow /\ e.target = critiques[k].target /\ e.open = FALSE
        BY <2>2 DEF CritiqueRow
    <2>4. critiques' = [critiques EXCEPT ![k] = e]
        BY <1>1, <2>1
    <2> HIDE DEF e
    <2>5. /\ critiques' \in Seq(CritiqueRow) /\ Len(critiques') = Len(critiques)
          /\ \A j \in 1..Len(critiques) : critiques'[j] = IF j = k THEN e ELSE critiques[j]
        BY <1>1, <2>3, <2>4, ExceptSeq
    <2> QED BY <1>1, <2>3, <2>5 DEF CritiquesGrow
<1> QED BY <1>2, <1>3

(* A command that is nowhere in what a gate depends on.                      *)
LEMMA SoundAtRest == \A n, ok, rs, cs : Sound(NoCommand, n, ok, rs, cs)
BY DEF Sound, NoCommand

(* One command goes on.                                                      *)
LEMMA OneGoesOn ==
    ASSUME ImproverInv, UNCHANGED <<scenario, versions, changes, reviews, critiques, approved>>,
           current' \in Nat, lastGood' \in Nat,
           NEW a \in Agent, NEW c, Becomes(a, c),
           Sound(c, Len(changes), approved, reviews, critiques),
           UNCHANGED <<gate, promotedTo>> \/ GateSound'
    PROVE  ImproverInv'
<1>1. /\ DOMAIN command' = Agent /\ command'[a] = c
      /\ \A b \in Agent \ {a} : command'[b] = command[b]
    BY DEF ImproverInv, RowsTyped, Becomes
<1>2. \A b \in Agent : \/ command'[b] = command[b]
                       \/ Sound(command'[b], Len(changes), approved, reviews, critiques)
    BY <1>1
<1> QED BY <1>1, <1>2, RowsStand

-----------------------------------------------------------------------------
LEMMA ImproverStepInv == ImproverInv /\ [ImproverNext]_improverVars => ImproverInv'
<1> SUFFICES ASSUME ImproverInv, [ImproverNext]_improverVars PROVE ImproverInv'
    OBVIOUS
<1>0. /\ RowsTyped /\ scenario' = scenario /\ DOMAIN command = Agent
      /\ current \in Nat /\ lastGood \in Nat
      /\ Len(versions) \in Nat /\ Len(changes) \in Nat /\ Len(critiques) \in Nat
      /\ CritiquesGrow(critiques, critiques)
      /\ \A a \in Agent : Sound(command[a], Len(changes), approved, reviews, critiques)
    BY DEF ImproverInv, RowsTyped, CommandsSound, ImproverNext, improverVars, CritiquesGrow
<1>1. ASSUME NEW a \in Agent, Register(a) PROVE ImproverInv'
    <2>1. /\ UNCHANGED <<versions, changes, reviews, critiques, approved, current, lastGood, gate, promotedTo>>
          /\ Becomes(a, [op |-> "register", parent |-> current])
        BY <1>1 DEF Register, rows, pointers
    <2>2. Sound([op |-> "register", parent |-> current], Len(changes), approved, reviews, critiques)
        BY <1>0 DEF Sound
    <2> QED BY <1>0, <2>1, <2>2, OneGoesOn
<1>2. ASSUME NEW a \in Agent, RegisterDone(a) \/ Abandon(a) PROVE ImproverInv'
    <2>1. /\ UNCHANGED <<versions, changes, reviews, critiques, approved, lastGood, gate, promotedTo>>
          /\ Becomes(a, NoCommand)
          /\ current' = current \/ (command[a].op = "use" /\ current' = command[a].to)
        BY <1>2 DEF RegisterDone, Abandon, SetCurrent, rows, pointers
    <2>2. current' \in Nat /\ lastGood' \in Nat
        BY <1>0, <2>1 DEF Sound
    <2> QED BY <1>0, <2>1, <2>2, SoundAtRest, OneGoesOn
<1>3. ASSUME NEW a \in Agent, Review(a) \/ ApplyTransition(a) PROVE ImproverInv'
    <2>1. UNCHANGED <<versions, changes, reviews, critiques, approved, current, lastGood, gate, promotedTo>>
        BY <1>3 DEF Review, ApplyTransition, rows, pointers
    <2>2. PICK k \in 1..Len(changes), to \in ChangeStatus, next \in Follow :
            StatusRead(a, k, to, next)
        <3>1. CASE Review(a)
            BY <3>1 DEF Review, ChangeId, ChangeStatus, Follow
        <3>2. CASE ApplyTransition(a)
            BY <1>0, <3>2 DEF ApplyTransition, Sound, ChangeStatus
        <3> QED BY <1>3, <3>1, <3>2
    <2> DEFINE c == [op |-> "status", change |-> k, to |-> to, next |-> next]
    <2>3. Becomes(a, c) /\ to \in Transitions(changes[k].status)
        BY <2>2 DEF StatusRead
    <2>4. changes[k].status \in ChangeStatus
        BY <1>0, ChangeTyped
    <2>5. to \in {"applied", "rolled_back"} => changes[k].status \in {"approved", "applied"}
        BY <2>3, <2>4 DEF Transitions, ChangeStatus
    <2>6. to \in {"applied", "rolled_back"} => k \in approved
        BY <2>5 DEF ImproverInv, ChangesApproved
    <2>7. Sound(c, Len(changes), approved, reviews, critiques)
        BY <2>6 DEF Sound
    <2> HIDE DEF c
    <2> QED BY <1>0, <2>1, <2>3, <2>7, OneGoesOn
<1>4. ASSUME NEW a \in Agent, StatusCommit(a) PROVE ImproverInv'
    <2> DEFINE k == command[a].change
               to == command[a].to
               next == command[a].next
    <2>1. /\ k \in 1..Len(changes) /\ to \in ChangeStatus /\ next \in Follow
          /\ to \in {"applied", "rolled_back"} => k \in approved
        BY <1>0, <1>4 DEF StatusCommit, Sound
    <2>2. /\ changes' = [changes EXCEPT ![k].status = to]
          /\ approved' = IF to = "approved" THEN approved \cup {k} ELSE approved
          /\ command' = [command EXCEPT ![a] = next]
          /\ UNCHANGED <<versions, reviews, critiques, current, lastGood, gate, promotedTo>>
        BY <1>4 DEF StatusCommit, Becomes, pointers
    <2>3. /\ changes' \in Seq(ChangeRow) /\ Len(changes') = Len(changes)
          /\ changes'[k].status = to /\ \A j \in 1..Len(changes) \ {k} : changes'[j] = changes[j]
        BY <1>0, <2>1, <2>2, StatusSet
    <2>4. RowsTyped'
        BY <1>0, <2>2, <2>3 DEF RowsTyped, ChangeRow
    <2>5. ChangesApproved'
        BY <2>1, <2>2, <2>3 DEF ImproverInv, ChangesApproved
    <2>6. Sound(next, Len(changes'), approved', reviews', critiques')
        BY <2>1, SoundAtRest DEF Sound, Follow
    <2>7. \A b \in Agent : \/ command'[b] = command[b]
                           \/ Sound(command'[b], Len(changes'), approved', reviews', critiques')
        BY <1>0, <2>2, <2>6
    <2>8. /\ approved \subseteq approved' /\ reviews' \ reviews = {} /\ reviews \subseteq reviews'
          /\ Len(versions) <= Len(versions') /\ Len(changes) <= Len(changes')
          /\ CritiquesGrow(critiques, critiques')
          /\ \A i \in 1..Len(versions) : versions'[i].by = versions[i].by
        BY <1>0, <2>2, <2>3
    <2>9. UNCHANGED <<gate, promotedTo>>
        BY <2>2
    <2> HIDE DEF k, to, next
    <2> QED BY <1>0, <2>4, <2>5, <2>7, <2>8, <2>9, RowsGrow
<1>5. ASSUME NEW a \in Agent, RegisterPost(a) \/ ApplyMint(a) PROVE ImproverInv'
    <2>1. UNCHANGED <<changes, reviews, critiques, approved, current, lastGood, gate, promotedTo>>
        BY <1>5 DEF RegisterPost, ApplyMint, pointers
    <2>2. PICK parent \in Nat, signed \in BOOLEAN : CreateVersion(parent, a, signed)
        <3>1. CASE RegisterPost(a)
            BY <1>0, <3>1 DEF RegisterPost, Sound
        <3>2. CASE ApplyMint(a)
            <4>1. changes[command[a].change].base \in Nat
                BY <1>0, <3>2, ChangeTyped DEF ApplyMint, Sound
            <4> QED BY <3>2, <4>1 DEF ApplyMint
        <3> QED BY <1>5, <3>1, <3>2
    <2>3. /\ RowsTyped' \/ DOMAIN command' # Agent
          /\ Len(versions') = Len(versions) + 1
          /\ \A i \in 1..Len(versions) : versions'[i] = versions[i]
        BY <1>0, <2>1, <2>2, VersionAdded DEF RowsTyped, CreateVersion
    <2>4. PICK c : Becomes(a, c) /\ Sound(c, Len(changes), approved, reviews, critiques)
        <3>1. Len(versions') \in Nat
            BY <1>0, <2>3
        <3>2. CASE RegisterPost(a)
            <4>1. Sound([op |-> "use", to |-> Len(versions')], Len(changes), approved, reviews, critiques)
                BY <3>1 DEF Sound
            <4> QED BY <3>2, <4>1 DEF RegisterPost
        <3>3. CASE ApplyMint(a)
            <4> DEFINE next == [op |-> "point", to |-> Len(versions'),
                                previous |-> command[a].previous]
            <4>1. /\ command[a].change \in 1..Len(changes) /\ command[a].change \in approved
                  /\ next \in Follow
                BY <1>0, <3>1, <3>3 DEF ApplyMint, Sound, Follow
            <4>2. Sound([op |-> "apply", change |-> command[a].change, next |-> next],
                        Len(changes), approved, reviews, critiques)
                BY <4>1 DEF Sound
            <4> QED BY <3>3, <4>2 DEF ApplyMint
        <3> QED BY <1>5, <3>2, <3>3
    <2>5. DOMAIN command' = Agent /\ \A b \in Agent : command'[b] = command[b] \/ command'[b] = c
        BY <1>0, <2>4 DEF Becomes
    <2>6. RowsTyped' /\ ChangesApproved'
        BY <2>1, <2>3, <2>5 DEF ImproverInv, ChangesApproved
    <2>7. /\ Len(versions) <= Len(versions') /\ Len(changes) <= Len(changes')
          /\ approved \subseteq approved' /\ reviews' \ reviews = {} /\ reviews \subseteq reviews'
          /\ CritiquesGrow(critiques, critiques')
          /\ \A i \in 1..Len(versions) : versions'[i].by = versions[i].by
        BY <1>0, <2>1, <2>3
    <2>8. \A b \in Agent : \/ command'[b] = command[b]
                           \/ Sound(command'[b], Len(changes'), approved', reviews', critiques')
        BY <2>1, <2>4, <2>5
    <2> QED BY <1>0, <2>1, <2>6, <2>7, <2>8, RowsGrow
<1>6. ASSUME NEW a \in Agent, Propose(a) PROVE ImproverInv'
    <2>1. /\ UNCHANGED <<versions, reviews, critiques, approved, current, lastGood, gate, promotedTo, command>>
          /\ changes' = Append(changes, [base |-> current, status |-> "proposed"])
        BY <1>6 DEF Propose, CreateChangeSet, pointers
    <2>2. /\ changes' \in Seq(ChangeRow) /\ Len(changes') = Len(changes) + 1
          /\ \A k \in 1..Len(changes) : changes'[k] = changes[k]
          /\ changes'[Len(changes) + 1].status = "proposed"
        <3>1. changes \in Seq(ChangeRow) /\ [base |-> current, status |-> "proposed"] \in ChangeRow
            BY <1>0 DEF RowsTyped, ChangeRow, ChangeStatus
        <3> QED BY <2>1, <3>1, AppendProperties
    <2>3. RowsTyped'
        BY <1>0, <2>1, <2>2 DEF RowsTyped, ChangeRow
    <2>4. ChangesApproved'
        <3>1. SUFFICES ASSUME NEW k \in 1..Len(changes'),
                              changes'[k].status \in {"approved", "applied", "rolled_back"}
                       PROVE  k \in approved
            BY <2>1 DEF ChangesApproved
        <3>2. k \in 1..Len(changes)
            BY <1>0, <2>2, <3>1
        <3> QED BY <2>2, <3>1, <3>2 DEF ImproverInv, ChangesApproved
    <2>5. /\ Len(versions) <= Len(versions') /\ Len(changes) <= Len(changes')
          /\ approved \subseteq approved' /\ reviews' \ reviews = {} /\ reviews \subseteq reviews'
          /\ CritiquesGrow(critiques, critiques')
          /\ \A i \in 1..Len(versions) : versions'[i].by = versions[i].by
          /\ \A b \in Agent : command'[b] = command[b]
        BY <1>0, <2>1, <2>2
    <2> QED BY <1>0, <2>1, <2>3, <2>4, <2>5, RowsGrow
<1>7. ASSUME NEW a \in Agent, Apply(a) PROVE ImproverInv'
    <2>1. UNCHANGED <<versions, changes, reviews, critiques, approved, current, lastGood, gate, promotedTo>>
        BY <1>7 DEF Apply, rows, pointers
    <2>2. PICK k \in 1..Len(changes) : 
            /\ changes[k].status = "approved"
            /\ Becomes(a, [op |-> "mint", change |-> k, previous |-> current])
        BY <1>7 DEF Apply, ChangeId
    <2>3. Sound([op |-> "mint", change |-> k, previous |-> current],
                Len(changes), approved, reviews, critiques)
        BY <1>0, <2>2 DEF ImproverInv, ChangesApproved, Sound
    <2> QED BY <1>0, <2>1, <2>2, <2>3, OneGoesOn
<1>8. ASSUME NEW a \in Agent, ApplyPoint(a) PROVE ImproverInv'
    <2>1. /\ UNCHANGED <<versions, changes, reviews, critiques, approved, gate, promotedTo>>
          /\ Becomes(a, NoCommand)
          /\ lastGood' \in {lastGood, command[a].previous} /\ current' = command[a].to /\ command[a].op = "point"
        BY <1>8 DEF ApplyPoint, rows
    <2>2. current' \in Nat /\ lastGood' \in Nat
        BY <1>0, <2>1 DEF Sound
    <2> QED BY <1>0, <2>1, <2>2, SoundAtRest, OneGoesOn
<1>9. ASSUME NEW a \in Agent, Promote(a) \/ PromoteReviews(a) \/ PromoteCritiques(a) PROVE ImproverInv'
    <2>1. UNCHANGED <<versions, changes, reviews, critiques, approved, current, lastGood, gate, promotedTo>>
        BY <1>9 DEF Promote, PromoteReviews, PromoteCritiques, rows, pointers
    <2>2. CASE Promote(a)
        <3>1. Sound([op |-> "reviews", candidate |-> current], Len(changes), approved, reviews, critiques)
            BY DEF Sound
        <3> QED BY <1>0, <2>1, <2>2, <3>1, OneGoesOn DEF Promote
    <2>3. CASE PromoteReviews(a)
        <3>1. Sound([op |-> "critiques", candidate |-> command[a].candidate],
                    Len(changes), approved, reviews, critiques)
            BY <2>3 DEF Sound, PromoteReviews, Reviewed, ReviewedIn
        <3> QED BY <1>0, <2>1, <2>3, <3>1, OneGoesOn DEF PromoteReviews
    <2>4. CASE PromoteCritiques(a)
        <3>0. PICK seen \in {0, Len(critiques)} :
                /\ seen = 0 \/ Uncontested(command[a].candidate)
                /\ Becomes(a, [op |-> "land", gate |-> [candidate |-> command[a].candidate,
                                                        critiques |-> seen]])
            BY <2>4 DEF PromoteCritiques
        <3> DEFINE i == command[a].candidate
                   c == [op |-> "land", gate |-> [candidate |-> i, critiques |-> seen]]
        <3>1. "require_review" \in scenario.rules => ReviewedIn(i, reviews)
            BY <1>0, <2>4 DEF PromoteCritiques, Sound
        <3>2. "require_review" \in scenario.rules => SettledIn(i, seen, critiques)
            <4>1. DOMAIN critiques = 1..Len(critiques)
                BY <1>0 DEF RowsTyped
            <4> QED BY <1>0, <3>0, <4>1 DEF Uncontested, SettledIn
        <3>3. Sound(c, Len(changes), approved, reviews, critiques)
            BY <3>1, <3>2 DEF Sound
        <3>4. Becomes(a, c)
            BY <3>0
        <3> HIDE DEF c
        <3> QED BY <1>0, <2>1, <3>3, <3>4, OneGoesOn
    <2> QED BY <1>9, <2>2, <2>3, <2>4
<1>10. ASSUME NEW a \in Agent, PromoteLand(a) PROVE ImproverInv'
    <2>1. /\ UNCHANGED <<versions, changes, reviews, critiques, approved, current, lastGood>>
          /\ Becomes(a, NoCommand) /\ command[a].op = "land"
          /\ promotedTo' = command[a].gate.candidate /\ gate' = command[a].gate
        BY <1>10 DEF PromoteLand, rows
    <2>2. GateSound'
        BY <1>0, <2>1 DEF Sound, GateSound
    <2> QED BY <1>0, <2>1, <2>2, SoundAtRest, OneGoesOn
<1>11. ASSUME NEW a \in Agent, CreateReview(a) PROVE ImproverInv'
    <2>1. PICK i \in 1..Len(versions) :
            /\ scenario.anonymous \/ a # versions[i].by
            /\ reviews' = reviews \cup {[target |-> i, reviewer |-> a]}
        BY <1>11, ImproverAssumption DEF CreateReview, MayReview, UserOf, VersionId, ImproverAssumption
    <2>2. UNCHANGED <<versions, changes, critiques, approved, current, lastGood, gate, promotedTo, command>>
        BY <1>11 DEF CreateReview, pointers
    <2>3. RowsTyped' /\ ChangesApproved'
        BY <1>0, <2>2 DEF ImproverInv, RowsTyped, ChangesApproved
    <2>4. /\ Len(versions) <= Len(versions') /\ Len(changes) <= Len(changes')
          /\ approved \subseteq approved' /\ reviews \subseteq reviews'
          /\ CritiquesGrow(critiques, critiques')
          /\ \A j \in 1..Len(versions) : versions'[j].by = versions[j].by
          /\ \A b \in Agent : command'[b] = command[b]
        BY <1>0, <2>1, <2>2
    <2>5. \A r \in reviews' \ reviews :
            /\ r.target \in 1..Len(versions)
            /\ scenario.anonymous \/ r.reviewer # versions[r.target].by
        BY <2>1
    <2> QED BY <1>0, <2>2, <2>3, <2>4, <2>5, RowsGrow
<1>12. CASE CreateCritique \/ SetCritiqueStatus
    <2>1. UNCHANGED <<versions, changes, reviews, approved, current, lastGood, gate, promotedTo, command>>
        BY <1>12 DEF CreateCritique, SetCritiqueStatus, pointers
    <2>2. critiques' \in Seq(CritiqueRow) /\ CritiquesGrow(critiques, critiques')
        BY <1>0, <1>12, CritiqueMoved
    <2>3. RowsTyped' /\ ChangesApproved'
        BY <1>0, <2>1, <2>2 DEF ImproverInv, RowsTyped, ChangesApproved, CritiqueRow
    <2>4. /\ Len(versions) <= Len(versions') /\ Len(changes) <= Len(changes')
          /\ approved \subseteq approved' /\ reviews \subseteq reviews' /\ reviews' \ reviews = {}
          /\ \A j \in 1..Len(versions) : versions'[j].by = versions[j].by
          /\ \A b \in Agent : command'[b] = command[b]
        BY <1>0, <2>1
    <2> QED BY <1>0, <2>1, <2>2, <2>3, <2>4, RowsGrow
<1>13. CASE CanaryRun \/ SetFreezeState \/ Use \/ Rollback \/ UNCHANGED improverVars
    <2>1. /\ UNCHANGED <<versions, changes, reviews, critiques, approved, lastGood, gate, promotedTo, command>>
          /\ current' \in {current, lastGood} \cup VersionId
        BY <1>13 DEF CanaryRun, ReportCanaryResult, SetFreezeState, Use, Rollback, SetCurrent, rows,
                     pointers, improverVars
    <2>2. current' \in Nat /\ lastGood' \in Nat
        BY <1>0, <2>1 DEF VersionId
    <2> QED BY <1>0, <2>1, <2>2, RowsStand
<1> QED BY <1>1, <1>2, <1>3, <1>4, <1>5, <1>6, <1>7, <1>8, <1>9, <1>10, <1>11, <1>12, <1>13
        DEF ImproverNext

LEMMA IInvApproved == ImproverInv => OnlyApprovedLands
<1> SUFFICES ASSUME ImproverInv PROVE OnlyApprovedLands
    OBVIOUS
<1>1. AppliedWasApproved
    BY DEF ImproverInv, ChangesApproved, CommandsSound, Sound, AppliedWasApproved, ChangeId
<1>2. PromotedIsReviewed
    BY DEF ImproverInv, GateSound, ReviewedByOthers, ReviewedIn, SettledIn, PromotedIsReviewed
<1> QED BY <1>1, <1>2 DEF OnlyApprovedLands

(* No change set lands that was never approved, and under require_review no  *)
(* version without another agent's review or with a critique left open,      *)
(* however the requests of any number of agents interleave.                  *)
THEOREM ApprovedOnly == ImproverSpec => []OnlyApprovedLands
<1>1. ImproverSpec => []ImproverInv
    BY ImproverInitInv, ImproverStepInv, PTL DEF ImproverSpec
<1> QED BY <1>1, IInvApproved, PTL

-----------------------------------------------------------------------------
(* Blind evaluation suites.                                                 *)

(* What the handlers have read, and what the rows hold. *)
ScoreRow == [suite : Suite, blind : BOOLEAN, revealed : BOOLEAN]
EvalRequest ==
    {NoUpdate} \union [op : {"score"}, suite : Suite, blind : BOOLEAN]
               \union [op : {"update"}, suite : Suite, read : SuiteRow, object : Definition,
                       blind : BOOLEAN]
EvalTyped ==
    /\ suites \in [Suite -> SuiteRow]
    /\ requests \in [Client -> EvalRequest]
    /\ results \in Seq(ScoreRow) /\ Len(results) <= MaxScores
    /\ revealed \subseteq DOMAIN results

(* A suite that an update has read stays a suite. *)
UpdatesFound ==
    \A c \in Client : requests[c].op = "update" =>
        suites[requests[c].suite] \in [object : Definition, blind : BOOLEAN, frozen : BOOLEAN]

(* A row says whether it was revealed, and a reader saw only rows that said so. *)
RowsTell ==
    /\ \A i \in DOMAIN results : results[i].revealed /\ results[i].blind => i \in revealed
    /\ \A i \in shown : i \in DOMAIN results /\ results[i].revealed

EvalInv == EvalTyped /\ UpdatesFound /\ RowsTell

LEMMA EvalRequestFields ==
    ASSUME NEW r \in EvalRequest
    PROVE  /\ r.op \in {"none", "score", "update"}
           /\ r.op = "score" => r.suite \in Suite /\ r.blind \in BOOLEAN
           /\ r.op = "update" => r \in [op : {"update"}, suite : Suite, read : SuiteRow,
                                        object : Definition, blind : BOOLEAN]
  BY DEF EvalRequest, NoUpdate

(* A row that is appended leaves the others as they are. *)
LEMMA ScoreAppended ==
    ASSUME NEW table \in Seq(ScoreRow), NEW row \in ScoreRow
    PROVE  /\ Append(table, row) \in Seq(ScoreRow)
           /\ Len(Append(table, row)) = Len(table) + 1
           /\ DOMAIN Append(table, row) = DOMAIN table \union {Len(table) + 1}
           /\ \A i \in DOMAIN table : Append(table, row)[i] = table[i]
           /\ Append(table, row)[Len(table) + 1] = row
<1>1. /\ Append(table, row) \in Seq(ScoreRow) /\ Len(Append(table, row)) = Len(table) + 1
      /\ \A i \in 1..Len(table) : Append(table, row)[i] = table[i]
      /\ Append(table, row)[Len(table) + 1] = row
    BY AppendProperties
<1>2. /\ DOMAIN table = 1..Len(table) /\ Len(table) \in Nat
      /\ DOMAIN Append(table, row) = 1..Len(Append(table, row))
    BY <1>1
<1> QED BY <1>1, <1>2

LEMMA EvalInitInv == EvalInit => EvalInv
<1> SUFFICES ASSUME EvalInit PROVE EvalInv
    OBVIOUS
<1>1. EvalTyped
    BY EvalAssumption DEF EvalInit, EvalTyped, SuiteRow, EvalRequest
<1>2. UpdatesFound /\ RowsTell
    BY DEF EvalInit, UpdatesFound, RowsTell, NoUpdate
<1> QED BY <1>1, <1>2 DEF EvalInv

LEMMA EvalStepInv == EvalInv /\ [EvalNext]_evalVars => EvalInv'
<1> SUFFICES ASSUME EvalInv, [EvalNext]_evalVars PROVE EvalInv'
    OBVIOUS
<1> USE DEF EvalInv
<1>1. ASSUME NEW s \in Suite, NEW o \in Definition, NEW b \in BOOLEAN, RegisterSuite(s, o, b)
      PROVE EvalInv'
    BY <1>1 DEF RegisterSuite, EvalTyped, UpdatesFound, RowsTell, SuiteRow
<1>2. ASSUME NEW s \in Suite, NEW o \in Definition, NEW b \in BOOLEAN, NEW c \in Client,
             BeginUpdate(c, s, o, b)
      PROVE EvalInv'
    BY <1>2 DEF BeginUpdate, Asks, Known, EvalTyped, UpdatesFound, RowsTell, EvalRequest, SuiteRow
<1>3. ASSUME NEW c \in Client, CommitUpdate(c)
      PROVE EvalInv'
  <2> DEFINE r == requests[c]
             row == suites[r.suite]
             new == [row EXCEPT !.object = Column(@, r.read.object, r.object),
                                !.blind = Column(@, r.read.blind, r.blind)]
  <2>1. r \in [op : {"update"}, suite : Suite, read : SuiteRow, object : Definition,
               blind : BOOLEAN]
      BY <1>3, EvalRequestFields DEF CommitUpdate, EvalTyped
  <2>2. suites' = [suites EXCEPT ![r.suite] = new]
      BY <1>3, <2>1 DEF CommitUpdate, EvalTyped
  <2>3. new \in [object : Definition, blind : BOOLEAN, frozen : BOOLEAN]
      BY <1>3, <2>1 DEF CommitUpdate, UpdatesFound, Column
  <2> HIDE DEF new
  <2>4. EvalTyped'
      BY <1>3, <2>1, <2>2, <2>3 DEF CommitUpdate, Answers, EvalTyped, SuiteRow, EvalRequest
  <2>5. UpdatesFound'
      BY <1>3, <2>1, <2>2, <2>3
      DEF CommitUpdate, Answers, EvalTyped, UpdatesFound, EvalRequest, NoUpdate
  <2> QED BY <1>3, <2>4, <2>5 DEF CommitUpdate, RowsTell
<1>4. ASSUME NEW c \in Client, CommitScore(c)
      PROVE EvalInv'
  <2> DEFINE row == [suite |-> requests[c].suite, blind |-> requests[c].blind,
                     revealed |-> ~requests[c].blind]
  <2>1. row \in ScoreRow
      BY <1>4, EvalRequestFields DEF CommitScore, EvalTyped, ScoreRow
  <2>2. results' = Append(results, row)
      BY <1>4 DEF CommitScore
  <2>3. EvalTyped'
      BY <1>4, <2>1, <2>2, ScoreAppended, EvalAssumption
      DEF CommitScore, Answers, EvalTyped, EvalRequest
  <2>4. row.blind => ~row.revealed
      OBVIOUS
  <2>5. RowsTell'
      BY <1>4, <2>1, <2>2, <2>4, ScoreAppended DEF CommitScore, EvalTyped, RowsTell
  <2>6. UpdatesFound'
      BY <1>4 DEF CommitScore, Answers, EvalTyped, UpdatesFound, NoUpdate
  <2> QED BY <2>3, <2>5, <2>6
<1>5. ASSUME NEW c \in Client, NEW s \in Suite, BeginScore(c, s)
      PROVE EvalInv'
    BY <1>5 DEF BeginScore, Asks, Known, EvalTyped, UpdatesFound, RowsTell, EvalRequest, SuiteRow
<1>6. ASSUME NEW s \in Suite, FreezeSuite(s)
      PROVE EvalInv'
  <2>1. suites[s] \in [object : Definition, blind : BOOLEAN, frozen : BOOLEAN]
      BY <1>6 DEF FreezeSuite, Known, EvalTyped, SuiteRow
  <2>2. [suites[s] EXCEPT !.frozen = TRUE]
            \in [object : Definition, blind : BOOLEAN, frozen : BOOLEAN]
      BY <2>1
  <2>3. suites' = [suites EXCEPT ![s] = [suites[s] EXCEPT !.frozen = TRUE]]
      BY <1>6 DEF FreezeSuite
  <2> DEFINE new == [suites[s] EXCEPT !.frozen = TRUE]
  <2> HIDE DEF new
  <2>4. new \in [object : Definition, blind : BOOLEAN, frozen : BOOLEAN]
        /\ suites' = [suites EXCEPT ![s] = new]
      BY <2>2, <2>3 DEF new
  <2>5. UNCHANGED <<requests, results, revealed, shown>>
      BY <1>6 DEF FreezeSuite
  <2>6. new \in SuiteRow
      BY <2>4 DEF SuiteRow
  <2>7. EvalTyped'
      BY <2>4, <2>5, <2>6 DEF EvalTyped
  <2>8. UpdatesFound'
      BY <2>4, <2>5 DEF EvalTyped, UpdatesFound
  <2> QED BY <2>5, <2>7, <2>8 DEF RowsTell
<1>7. ASSUME NEW i \in 1..MaxScores, RevealScore(i)
      PROVE EvalInv'
  <2> DEFINE row == [results[i] EXCEPT !.revealed = TRUE]
  <2>0. i \in 1..Len(results) /\ row \in ScoreRow /\ results' = [results EXCEPT ![i] = row]
    <3>1. results \in Seq(ScoreRow) /\ i \in 1..Len(results)
        BY <1>7 DEF RevealScore, EvalTyped
    <3>2. results[i] \in ScoreRow
        BY <3>1, ElementOfSeq
    <3> QED BY <1>7, <3>1, <3>2 DEF RevealScore, ScoreRow
  <2>1. /\ results' \in Seq(ScoreRow) /\ Len(results') = Len(results)
        /\ DOMAIN results' = DOMAIN results
        /\ \A k \in DOMAIN results :
              results'[k] = IF k = i THEN row ELSE results[k]
      BY <2>0, ExceptSeq DEF EvalTyped
  <2>2. EvalTyped'
      BY <1>7, <2>1 DEF RevealScore, EvalTyped
  <2>3. \A k \in DOMAIN results : results[k] \in ScoreRow
      BY ElementOfSeq DEF EvalTyped
  <2>4. RowsTell'
      BY <1>7, <2>1, <2>3 DEF RevealScore, RowsTell, ScoreRow
  <2> QED BY <1>7, <2>2, <2>4 DEF RevealScore, UpdatesFound
<1>8. ASSUME ListScores
      PROVE EvalInv'
    BY <1>8 DEF ListScores, Redacted, EvalTyped, UpdatesFound, RowsTell
<1>9. ASSUME UNCHANGED evalVars
      PROVE EvalInv'
    BY <1>9 DEF evalVars, EvalTyped, UpdatesFound, RowsTell
<1> QED BY <1>1, <1>2, <1>3, <1>4, <1>5, <1>6, <1>7, <1>8, <1>9 DEF EvalNext

(* A score written under a blind suite stays out of the listing of readers    *)
(* without the scorer scope until it is revealed, for any suites, clients and *)
(* updates of suites that interleave with the scores.                         *)
THEOREM BlindScoresHidden == EvalSpec => [](EvalTypeOK /\ BlindScoresStayHidden)
<1>1. EvalInv => EvalTypeOK /\ BlindScoresStayHidden
    BY EvalRequestFields DEF EvalInv, EvalTyped, RowsTell, EvalTypeOK, BlindScoresStayHidden
<1> QED BY <1>1, EvalInitInv, EvalStepInv, PTL DEF EvalSpec

-----------------------------------------------------------------------------
(* Budgets.                                                                 *)

(* The strengthening: what a transaction read under the lock is still what   *)
(* the row says, and one transaction at most holds the row.                  *)
BudgetInv == BudgetTypeOK /\ LockedRowIsCurrent

(* Requests of different states are different requests.                      *)
LEMMA RequestFields ==
    ASSUME NEW r \in Request
    PROVE  /\ r.state \in {"idle", "sent", "locked", "done"}
           /\ r.state \in {"sent", "locked"} => r.spend \in Spend
           /\ r.state = "locked" => r.read \in [Dim -> Int]
BY DEF Request, Idle

LEMMA BudgetInitInv == BudgetInit => BudgetInv
BY BudgetAssumption DEF BudgetInit, BudgetInv, BudgetTypeOK, LockedRowIsCurrent, Request, Idle

LEMMA BudgetStepInv == BudgetInv /\ [BudgetNext]_budgetVars => BudgetInv'
<1> SUFFICES ASSUME BudgetInv, [BudgetNext]_budgetVars PROVE BudgetInv'
    OBVIOUS
<1> USE BudgetAssumption
<1>1. ASSUME NEW c \in Consumer, Consume(c) PROVE BudgetInv'
    <2>1. PICK s \in Spend : tx' = [tx EXCEPT ![c] = [state |-> "sent", spend |-> s]]
        BY <1>1 DEF Consume
    <2>2. [state |-> "sent", spend |-> s] \in Request
        BY DEF Request
    <2>3. BudgetTypeOK'
        BY <1>1, <2>1, <2>2 DEF BudgetInv, BudgetTypeOK, Consume
    <2>4. LockedRowIsCurrent'
        BY <1>1, <2>1 DEF BudgetInv, BudgetTypeOK, LockedRowIsCurrent, Consume
    <2> QED BY <2>3, <2>4 DEF BudgetInv
<1>2. ASSUME NEW c \in Consumer, ReadRow(c) PROVE BudgetInv'
    <2>0. tx[c].spend \in Spend /\ tx[c] \in Request
        BY <1>2, RequestFields DEF BudgetInv, BudgetTypeOK, ReadRow
    <2>1. tx' = [tx EXCEPT ![c] = [state |-> "locked", spend |-> tx[c].spend, read |-> used]]
        BY <1>2 DEF ReadRow, BudgetInv, BudgetTypeOK
    <2>2. [state |-> "locked", spend |-> tx[c].spend, read |-> used] \in Request
        BY <2>0 DEF Request, BudgetInv, BudgetTypeOK
    <2>3. BudgetTypeOK'
        BY <1>2, <2>1, <2>2 DEF BudgetInv, BudgetTypeOK, ReadRow
    <2>4. LockedRowIsCurrent'
        BY <1>2, <2>1 DEF BudgetInv, BudgetTypeOK, LockedRowIsCurrent, ReadRow, MayRead
    <2> QED BY <2>3, <2>4 DEF BudgetInv
<1>3. ASSUME NEW c \in Consumer, CommitSpend(c) PROVE BudgetInv'
    <2>1. tx[c].spend \in [Dim -> Int] /\ tx[c].read \in [Dim -> Int]
        BY <1>3, RequestFields DEF BudgetInv, BudgetTypeOK, CommitSpend
    <2>2. used' \in [Dim -> Int]
        BY <1>3, <2>1 DEF CommitSpend
    <2>3. [state |-> "done"] \in Request
        BY DEF Request
    <2>4. BudgetTypeOK'
        BY <1>3, <2>2, <2>3 DEF BudgetInv, BudgetTypeOK, CommitSpend, ExceededDims
    <2>5. \A b \in Consumer : tx'[b].state # "locked"
        BY <1>3 DEF BudgetInv, BudgetTypeOK, LockedRowIsCurrent, CommitSpend
    <2>6. LockedRowIsCurrent'
        BY <2>5 DEF LockedRowIsCurrent
    <2> QED BY <2>4, <2>6 DEF BudgetInv
<1>4. ASSUME NEW c \in Consumer, RollbackSpend(c) \/ Finish(c) PROVE BudgetInv'
    <2>1. tx' = [tx EXCEPT ![c] = Idle] /\ UNCHANGED <<used, verdict, calls>>
        BY <1>4 DEF RollbackSpend, Finish
    <2>2. exit' \in [Consumer -> {"none", "ok", "exhausted", "error"}]
        BY <1>4 DEF RollbackSpend, Finish, BudgetInv, BudgetTypeOK
    <2>3. BudgetTypeOK'
        BY <2>1, <2>2 DEF BudgetInv, BudgetTypeOK, Request
    <2>4. LockedRowIsCurrent'
        BY <2>1 DEF BudgetInv, BudgetTypeOK, LockedRowIsCurrent, Idle
    <2> QED BY <2>3, <2>4 DEF BudgetInv
<1>5. CASE UNCHANGED budgetVars
    BY <1>5 DEF BudgetInv, BudgetTypeOK, LockedRowIsCurrent, budgetVars
<1> QED BY <1>1, <1>2, <1>3, <1>4, <1>5 DEF BudgetNext

(* In every reachable state the account is well formed.                      *)
THEOREM BudgetTypeCorrect == BudgetSpec => []BudgetTypeOK
<1>1. BudgetInv => BudgetTypeOK
    BY DEF BudgetInv
<1> QED BY BudgetInitInv, BudgetStepInv, <1>1, PTL DEF BudgetSpec

(* consume_budget promises that a spend is recorded once and never lost, and  *)
(* that its answer is about the counters that it left: every behaviour of     *)
(* the account is one of Ledger.                                              *)
THEOREM BudgetImplementsLedger == BudgetSpec => LedgerKept
<1>1. BudgetInit => Promise!LedgerInit
    BY DEF BudgetInit, Promise!LedgerInit
<1>2. ASSUME BudgetInv, [BudgetNext]_budgetVars
      PROVE  [Promise!LedgerNext]_(Promise!ledgerVars)
    <2>1. ASSUME NEW c \in Consumer, CommitSpend(c) PROVE Promise!LedgerNext
        <3>1. tx[c].read = used
            BY <1>2, <2>1 DEF BudgetInv, LockedRowIsCurrent, CommitSpend
        <3>2. tx[c].spend \in Spend
            BY <1>2, <2>1, RequestFields DEF BudgetInv, BudgetTypeOK, CommitSpend
        <3>3. used' = [d \in Dim |-> used[d] + tx[c].spend[d]]
            BY <2>1, <3>1 DEF CommitSpend
        <3>4. verdict' = [verdict EXCEPT ![c] = Promise!Exceeded(used')]
            BY <2>1 DEF CommitSpend, ExceededDims, Promise!Exceeded
        <3>5. Promise!Record(c, tx[c].spend)
            BY <3>3, <3>4 DEF Promise!Record
        <3> QED BY <3>2, <3>5 DEF Promise!LedgerNext
    <2>2. ASSUME NEW c \in Consumer,
                 Consume(c) \/ ReadRow(c) \/ RollbackSpend(c) \/ Finish(c)
          PROVE  UNCHANGED <<used, verdict>>
        BY <2>2 DEF Consume, ReadRow, RollbackSpend, Finish
    <2>3. CASE UNCHANGED budgetVars
        BY <2>3 DEF budgetVars, Promise!ledgerVars
    <2> QED BY <1>2, <2>1, <2>2, <2>3 DEF BudgetNext, Promise!ledgerVars
<1> QED
    BY BudgetInitInv, BudgetStepInv, <1>1, <1>2, PTL DEF BudgetSpec, LedgerKept, Promise!LedgerSpec

-----------------------------------------------------------------------------
(* Runs and their metrics.                                                  *)

(* What was read of a run is in order, and an unfinished walk has yet to come *)
(* to whatever it has not read of the commits that were there at its start.   *)
Sorted(s) == \A i, j \in DOMAIN s : i < j => Earlier(s[i], s[j])
WalkSound(w) ==
    /\ w.got \in Seq(linked) /\ w.base \subseteq linked /\ Sorted(w.got)
    /\ w.state = "paging" =>
         \A c \in w.base : c \in Range(w.got) \/ w.got = <<>> \/ Earlier(Last(w.got), c)
    /\ w.state = "read" => w.base \subseteq Range(w.got)

TrailInv ==
    /\ clock \in Nat /\ stamp \in [Commit -> Nat]
    /\ linked \subseteq Commit /\ pushing \intersect linked = {}
    /\ walk = NoWalk \/ (walk.state \in {"paging", "read"} /\ WalkSound(walk))

LEMMA OrderOfCommits ==
    ASSUME TrailInv, NEW b \in Commit, NEW c \in Commit, NEW d \in Commit
    PROVE  /\ ~Earlier(c, c) /\ (Earlier(b, c) /\ Earlier(c, d) => Earlier(b, d))
           /\ c # d => Earlier(c, d) \/ Earlier(d, c)
           /\ After(c, d) <=> Earlier(d, c)
<1>1. /\ \A e \in Commit : stamp[e] \in Nat /\ Rank[e] \in Nat
      /\ c # d => Rank[c] # Rank[d]
    BY RunTrailAssumption DEF RunTrailAssumption, TrailInv
<1> QED BY <1>1 DEF Earlier, After

(* Reading on: what follows the last of a sorted sequence keeps it sorted.    *)
LEMMA ReadOn ==
    ASSUME TrailInv, NEW s \in Seq(linked), NEW page \in Seq(linked), Sorted(s), Sorted(page),
           s # <<>> => \A c \in Range(page) : Earlier(Last(s), c)
    PROVE  /\ s \o page \in Seq(linked) /\ Sorted(s \o page)
           /\ Range(s \o page) = Range(s) \union Range(page)
           /\ page = <<>> => s \o page = s
           /\ page # <<>> => s \o page # <<>> /\ Last(s \o page) = Last(page)
                             /\ Last(page) \in Range(page)
<1> DEFINE u == s \o page
<1>1. /\ u \in Seq(linked) /\ Len(u) = Len(s) + Len(page)
      /\ \A i \in 1..Len(s) + Len(page) : u[i] = IF i <= Len(s) THEN s[i] ELSE page[i - Len(s)]
      /\ Len(s) \in Nat /\ Len(page) \in Nat
    BY ConcatProperties, LenProperties
<1>2. /\ DOMAIN s = 1..Len(s) /\ DOMAIN page = 1..Len(page) /\ DOMAIN u = 1..Len(s) + Len(page)
      /\ \A i \in 1..Len(s) : s[i] \in linked
      /\ \A i \in 1..Len(page) : page[i] \in linked
    BY <1>1, LenProperties, ElementOfSeq
<1>3. \A i \in DOMAIN u : \/ i \in DOMAIN s /\ u[i] = s[i]
                          \/ i - Len(s) \in DOMAIN page /\ u[i] = page[i - Len(s)] /\ i > Len(s)
    BY <1>1, <1>2
<1>4. /\ \A i \in DOMAIN s : i \in DOMAIN u /\ u[i] = s[i]
      /\ \A i \in DOMAIN page : i + Len(s) \in DOMAIN u /\ u[i + Len(s)] = page[i]
    BY <1>1, <1>2
<1> HIDE DEF u
<1>5. Range(u) = Range(s) \union Range(page)
  <2>1. ASSUME NEW x \in Range(u) PROVE x \in Range(s) \union Range(page)
    <3>1. PICK i \in DOMAIN u : u[i] = x
        BY DEF Range
    <3> QED BY <1>3, <3>1 DEF Range
  <2>2. ASSUME NEW x \in Range(s) PROVE x \in Range(u)
    <3>1. PICK i \in DOMAIN s : s[i] = x
        BY DEF Range
    <3> QED BY <1>4, <3>1 DEF Range
  <2>3. ASSUME NEW x \in Range(page) PROVE x \in Range(u)
    <3>1. PICK i \in DOMAIN page : page[i] = x
        BY DEF Range
    <3> QED BY <1>4, <3>1 DEF Range
  <2> QED BY <2>1, <2>2, <2>3
<1>6. ASSUME NEW i \in DOMAIN s, NEW c \in Range(page) PROVE Earlier(s[i], c)
  <2>1. s # <<>> /\ Len(s) \in DOMAIN s /\ Last(s) = s[Len(s)] /\ Earlier(Last(s), c)
      BY <1>1, <1>2, EmptySeq DEF Last
  <2>2. s[i] \in Commit /\ Last(s) \in Commit /\ c \in Commit
      BY <1>2, <2>1 DEF TrailInv, Range
  <2>3. i = Len(s) \/ Earlier(s[i], Last(s))
      BY <1>1, <1>2, <2>1 DEF Sorted
  <2> QED BY <2>1, <2>2, <2>3, OrderOfCommits
<1>7. Sorted(u)
  <2> SUFFICES ASSUME NEW i \in DOMAIN u, NEW j \in DOMAIN u, i < j PROVE Earlier(u[i], u[j])
      BY DEF Sorted
  <2>1. i \in Int /\ j \in Int
      BY <1>1, <1>2
  <2>2. CASE i \in DOMAIN s /\ j \in DOMAIN s
      BY <1>4, <2>2 DEF Sorted
  <2>3. CASE i \in DOMAIN s /\ j - Len(s) \in DOMAIN page /\ u[j] = page[j - Len(s)]
    <3>1. u[j] \in Range(page)
        BY <2>3 DEF Range
    <3> QED BY <1>4, <1>6, <2>3, <3>1
  <2>4. CASE i \notin DOMAIN s
    <3>1. /\ i - Len(s) \in DOMAIN page /\ u[i] = page[i - Len(s)]
          /\ j - Len(s) \in DOMAIN page /\ u[j] = page[j - Len(s)] /\ i - Len(s) < j - Len(s)
        BY <1>1, <1>2, <1>3, <2>1, <2>4
    <3> QED BY <3>1 DEF Sorted
  <2>5. j \in DOMAIN s => i \in DOMAIN s
      BY <1>1, <1>2, <2>1
  <2> QED BY <1>3, <2>2, <2>3, <2>4, <2>5
<1>8. page = <<>> => u = s
    BY ConcatEmptySeq DEF u
<1>9. ASSUME page # <<>>
      PROVE  u # <<>> /\ Last(u) = Last(page) /\ Last(page) \in Range(page)
  <2>1. Len(page) \in Nat \ {0}
      BY <1>9, EmptySeq
  <2>2. Len(u) \in DOMAIN u /\ Len(page) \in DOMAIN page /\ u[Len(u)] = page[Len(page)]
      BY <1>1, <1>2, <1>4, <2>1
  <2> QED BY <1>1, <2>1, <2>2, EmptySeq DEF Last, Range
<1> QED BY <1>1, <1>5, <1>7, <1>8, <1>9 DEF u

(* Commits are linked and stamped beside a walk; a linked one keeps its stamp. *)
LEMMA WalkStays ==
    ASSUME TrailInv, walk' = walk, linked \subseteq linked',
           \A c \in linked : stamp'[c] = stamp[c]
    PROVE  walk' = NoWalk \/ (walk'.state \in {"paging", "read"} /\ WalkSound(walk)')
<1>1. CASE walk = NoWalk
    BY <1>1
<1>2. CASE walk.state \in {"paging", "read"} /\ WalkSound(walk)
  <2> DEFINE s == walk.got
  <2>1. s \in Seq(linked) /\ walk.base \subseteq linked
      BY <1>2 DEF WalkSound
  <2>2. s \in Seq(linked')
      BY <2>1, SeqMonotonic
  <2>3. \A c, d \in linked : Earlier(c, d)' <=> Earlier(c, d)
      BY DEF Earlier
  <2>4. DOMAIN s = 1..Len(s) /\ \A i \in 1..Len(s) : s[i] \in linked
      BY <2>1, LenProperties, ElementOfSeq
  <2>5. s # <<>> => Last(s) \in linked
      BY <2>1, <2>4, EmptySeq DEF Last
  <2>6. Sorted(s)'
      BY <1>2, <2>3, <2>4 DEF WalkSound, Sorted
  <2> QED BY <1>2, <2>1, <2>2, <2>3, <2>5, <2>6 DEF WalkSound
<1> QED BY <1>1, <1>2 DEF TrailInv

LEMMA PageRead ==
    ASSUME TrailInv, WalkPage PROVE TrailInv'
<1> DEFINE s == walk.got
<1>1. PICK page \in TrailPages :
        /\ IsPageOf(page, Remaining(s))
        /\ walk' = [walk EXCEPT !.got = s \o page,
                               !.state = IF Len(page) = PageSize THEN "paging" ELSE "read"]
    BY DEF WalkPage
<1>2. /\ walk.state = "paging" /\ UNCHANGED <<clock, stamp, pushing, linked>>
      /\ WalkSound(walk) /\ linked \subseteq Commit /\ PageSize \in Nat \ {0}
    BY RunTrailAssumption DEF WalkPage, TrailInv, NoWalk, RunTrailAssumption
<1>3. s \in Seq(linked) /\ walk.base \subseteq linked /\ Sorted(s)
    BY <1>2 DEF WalkSound
<1>4. page \in Seq(Commit) /\ DOMAIN page = 1..Len(page) /\ Len(page) \in Nat
  <2>1. page \in Seq(Commit)
      BY <1>1, <1>2, SeqDef DEF TrailPages
  <2> QED BY <2>1, LenProperties
<1>5. page \in Seq(linked)
  <2>1. \A i \in 1..Len(page) : page[i] \in linked
      BY <1>1, <1>4 DEF IsPageOf, Range, Remaining
  <2> QED BY <1>4, <2>1, SeqOfElements
<1>6. Sorted(page)
    BY <1>1 DEF IsPageOf, Sorted
<1>7. s # <<>> => Last(s) \in linked
    BY <1>3, ElementOfSeq, EmptySeq DEF Last
<1>8. \A c \in linked : c \in Remaining(s) <=> s = <<>> \/ Earlier(Last(s), c)
    BY <1>2, <1>7, OrderOfCommits DEF Remaining
<1>9. s # <<>> => \A c \in Range(page) : Earlier(Last(s), c)
  <2>1. \A c \in Range(page) : c \in Remaining(s) /\ c \in linked
      BY <1>1 DEF IsPageOf, Remaining
  <2> QED BY <1>8, <2>1
<1>10. /\ s \o page \in Seq(linked) /\ Sorted(s \o page)
       /\ Range(s \o page) = Range(s) \union Range(page)
       /\ page = <<>> => s \o page = s
       /\ page # <<>> => s \o page # <<>> /\ Last(s \o page) = Last(page)
                         /\ Last(page) \in Range(page)
    BY <1>3, <1>5, <1>6, <1>9, ReadOn
<1>11. \A c \in walk.base : c \in Range(s) \/ c \in Remaining(s)
    BY <1>2, <1>3, <1>8 DEF WalkSound
<1> DEFINE next == [walk EXCEPT !.got = s \o page,
                               !.state = IF Len(page) = PageSize THEN "paging" ELSE "read"]
<1>12. PICK w : w = next
    OBVIOUS
<1>13. /\ w.got = s \o page /\ w.base = walk.base
       /\ w.state = IF Len(page) = PageSize THEN "paging" ELSE "read"
    BY <1>12
<1>14. w.state = "paging" => \A c \in w.base :
           c \in Range(w.got) \/ w.got = <<>> \/ Earlier(Last(w.got), c)
  <2> SUFFICES ASSUME w.state = "paging", NEW c \in w.base, c \notin Range(s), c \notin Range(page)
               PROVE  Earlier(Last(w.got), c)
      BY <1>10, <1>13
  <2>1. page # <<>>
      BY <1>2, <1>4, <1>13, EmptySeq
  <2>2. c \in Remaining(s) \ Range(page)
      BY <1>11, <1>13
  <2> QED BY <1>1, <1>10, <1>13, <2>1, <2>2 DEF IsPageOf
<1>15. w.state = "read" => w.base \subseteq Range(w.got)
    BY <1>1, <1>10, <1>11, <1>13 DEF IsPageOf
<1>16. WalkSound(w)
    BY <1>3, <1>10, <1>13, <1>14, <1>15 DEF WalkSound
<1>17. walk' = w /\ w.state \in {"paging", "read"}
    BY <1>1, <1>12, <1>13
<1>18. WalkSound(walk)'
    BY <1>2, <1>16, <1>17 DEF WalkSound, Sorted, Earlier
<1> QED BY <1>2, <1>17, <1>18 DEF TrailInv

LEMMA TrailInitInv == RunTrailInit => TrailInv
BY DEF RunTrailInit, TrailInv

LEMMA TrailStepInv == TrailInv /\ [RunTrailNext]_runVars => TrailInv'
<1> SUFFICES ASSUME TrailInv, [RunTrailNext]_runVars PROVE TrailInv'
    OBVIOUS
<1>1. ASSUME UNCHANGED <<stamp, pushing, linked, walk>>, clock' \in Nat PROVE TrailInv'
    BY <1>1, WalkStays DEF TrailInv
<1>2. CASE Tick \/ Start \/ FinishRun \/ Stop \/ UNCHANGED runVars
    BY <1>1, <1>2 DEF Tick, Start, FinishRun, Stop, runVars, TrailInv
<1>3. ASSUME NEW c \in Commit, PushFlush(c) PROVE TrailInv'
  <2>1. /\ c \notin linked /\ linked' = linked /\ pushing' = pushing \union {c} /\ walk' = walk
        /\ stamp' = [stamp EXCEPT ![c] = clock] /\ clock' = clock
      BY <1>3 DEF PushFlush
  <2>2. stamp' \in [Commit -> Nat] /\ \A d \in linked : stamp'[d] = stamp[d]
      BY <2>1 DEF TrailInv
  <2> QED BY <2>1, <2>2, WalkStays DEF TrailInv
<1>4. ASSUME NEW c \in Commit, PushCommit(c) PROVE TrailInv'
  <2>1. /\ c \in pushing /\ pushing' = pushing \ {c} /\ walk' = walk /\ stamp' = stamp
        /\ clock' = clock /\ (linked' = linked \union {c} \/ linked' = linked)
      BY <1>4 DEF PushCommit
  <2> QED BY <2>1, WalkStays DEF TrailInv
<1>5. CASE WalkStart
  <2>1. /\ walk' = [state |-> "paging", got |-> <<>>, base |-> linked]
        /\ UNCHANGED <<clock, stamp, pushing, linked>>
      BY <1>5 DEF WalkStart
  <2>2. <<>> \in Seq(linked) /\ Len(<<>>) = 0
      BY EmptySeq
  <2>3. DOMAIN <<>> = 1..0
      BY <2>2, LenProperties
  <2>4. WalkSound([state |-> "paging", got |-> <<>>, base |-> linked])
      BY <2>2, <2>3 DEF WalkSound, Sorted
  <2> QED BY <2>1, <2>4 DEF TrailInv, WalkSound, Sorted, Earlier
<1>6. CASE WalkDecide
    BY <1>6 DEF WalkDecide, TrailInv
<1> QED BY <1>2, <1>3, <1>4, <1>5, <1>6, PageRead DEF RunTrailNext

LEMMA TrailComplete == TrailInv => WalkIsComplete
<1> SUFFICES ASSUME TrailInv, walk # NoWalk
             PROVE  /\ Sorted(walk.got)
                    /\ walk.state = "read" => walk.base \subseteq Range(walk.got)
    BY DEF WalkIsComplete, Sorted
<1> QED BY DEF TrailInv, WalkSound

LEMMA TrailImproving == TrailInv => ImprovingIsNotStopped
<1> SUFFICES ASSUME TrailInv, walk # NoWalk, walk.state = "read",
                    Patience > 1 \/ Len(walk.got) # 1,
                    \A c, d \in linked : Earlier(c, d) => Metric[c] > Metric[d]
             PROVE  Decision(walk.got) = "none"
    BY DEF ImprovingIsNotStopped
<1> DEFINE s == walk.got
           values == [i \in DOMAIN s |-> Metric[s[i]]]
           n == Len(values)
           best == MinIn(Range(values))
<1>1. s \in Seq(linked) /\ Sorted(s) /\ linked \subseteq Commit
    BY DEF TrailInv, WalkSound
<1>2. DOMAIN s = 1..Len(s) /\ Len(s) \in Nat /\ \A i \in 1..Len(s) : s[i] \in linked
    BY <1>1, LenProperties, ElementOfSeq
<1>3. /\ Patience \in Nat \ {0} /\ Factor \in Nat \ {0}
      /\ \A c \in Commit : Metric[c] \in Nat
    BY RunTrailAssumption DEF RunTrailAssumption
<1>4. values \in Seq(Nat)
  <2>1. values \in [1..Len(s) -> Nat]
      BY <1>1, <1>2, <1>3
  <2> QED BY <1>2, <2>1, SeqDef
<1>5. /\ n = Len(s) /\ n \in Nat /\ DOMAIN values = 1..n
      /\ \A i \in 1..n : values[i] \in Nat
  <2>1. DOMAIN values = 1..n /\ n \in Nat
      BY <1>4, LenProperties
  <2>2. DOMAIN values = 1..Len(s)
      BY <1>2
  <2>3. n = Len(s)
      BY <1>2, <2>1, <2>2
  <2> QED BY <1>1, <1>2, <1>3, <2>1, <2>3
<1>6. \A i, j \in 1..n : i < j => values[i] > values[j]
  <2> SUFFICES ASSUME NEW i \in 1..n, NEW j \in 1..n, i < j PROVE values[i] > values[j]
      OBVIOUS
  <2>1. Earlier(s[i], s[j]) /\ s[i] \in linked /\ s[j] \in linked
      BY <1>1, <1>2, <1>5 DEF Sorted
  <2> QED BY <1>2, <1>5, <2>1
<1> HIDE DEF values
<1>7. ASSUME NEW S \in SUBSET Nat, NEW v \in S, \A w \in S : v <= w
      PROVE  MinIn(S) = v
  <2>1. MinIn(S) \in S /\ \A w \in S : MinIn(S) <= w
      BY <1>7 DEF MinIn
  <2>2. MinIn(S) \in Nat /\ v \in Nat /\ MinIn(S) <= v /\ v <= MinIn(S)
      BY <1>7, <2>1
  <2> HIDE DEF MinIn
  <2> QED BY <2>2
<1>8. Decision(s) = CASE n = 0 -> "none"
         [] n > 0 /\ values[n] > best + Factor * (IF best > 1 THEN best ELSE 1) -> "divergence"
         [] n >= Patience /\ (\A i \in n - Patience + 1 .. n : values[i] >= MinIn(Before(values)))
              -> "plateau"
         [] OTHER -> "none"
    BY DEF Decision, values
<1>9. CASE n = 0
  <2>1. ~ (n > 0) /\ ~ (n >= Patience)
      BY <1>3, <1>9
  <2> HIDE DEF n, best
  <2> QED BY <1>8, <1>9, <2>1
<1>10. CASE n > 0
  <2>1. /\ Range(values) \in SUBSET Nat /\ values[n] \in Range(values)
        /\ \A w \in Range(values) : values[n] <= w
      BY <1>5, <1>6, <1>10 DEF Range
  <2>2. best = values[n] /\ best \in Nat
      BY <1>7, <2>1
  <2>3. Factor * (IF best > 1 THEN best ELSE 1) \in Nat
      BY <1>3, <2>2
  <2>4. ~(values[n] > best + Factor * (IF best > 1 THEN best ELSE 1))
    <3>1. PICK k \in Nat : k = Factor * (IF best > 1 THEN best ELSE 1)
        BY <2>3
    <3> HIDE DEF best
    <3> QED BY <2>2, <3>1
  <2>5. ASSUME n >= Patience
        PROVE  \E i \in n - Patience + 1 .. n : ~(values[i] >= MinIn(Before(values)))
    <3>1. n \in n - Patience + 1 .. n
        BY <1>3, <1>5
    <3>2. CASE n = Patience
      <4>1. Before(values) = {values[1]} /\ values[1] \in Nat /\ 1 < n /\ 1 \in 1..n
          BY <1>2, <1>3, <1>5, <1>10, <3>2 DEF Before
      <4>2. MinIn(Before(values)) = values[1]
          BY <1>7, <4>1
      <4>3. values[1] > values[n] /\ values[n] \in Nat
          BY <1>5, <1>6, <1>10, <4>1
      <4> QED BY <3>1, <4>1, <4>2, <4>3
    <3>3. CASE n # Patience
      <4>1. PICK m \in 1..n : m = n - Patience /\ m < n
        <5>1. n - Patience \in 1..n /\ n - Patience < n
            BY <1>3, <1>5, <2>5, <3>3
        <5> QED BY <5>1
      <4>2. Before(values) = {values[i] : i \in 1..m}
          BY <3>3, <4>1 DEF Before
      <4>3. /\ Before(values) \in SUBSET Nat /\ values[m] \in Before(values)
            /\ \A w \in Before(values) : values[m] <= w
          BY <1>5, <1>6, <4>1, <4>2
      <4>4. MinIn(Before(values)) = values[m]
          BY <1>7, <4>3
      <4>5. values[m] > values[n] /\ values[n] \in Nat /\ values[m] \in Nat
          BY <1>5, <1>6, <1>10, <4>1
      <4> QED BY <3>1, <4>4, <4>5
    <3> QED BY <3>2, <3>3
  <2>6. n # 0
      BY <1>5, <1>10
  <2> HIDE DEF n, best
  <2> QED BY <1>8, <2>4, <2>5, <2>6
<1> QED BY <1>5, <1>9, <1>10

(* A walk of a run's metrics reads in order, and whole, whatever was linked    *)
(* when it began (get_run_metrics).                                            *)
THEOREM MetricsWalkIsComplete == RunTrailSpec => []WalkIsComplete
<1>1. RunTrailSpec => []TrailInv
    BY TrailInitInv, TrailStepInv, PTL DEF RunTrailSpec
<1> QED BY <1>1, TrailComplete, PTL

(* A run each of whose commits improves on all before it is not stopped        *)
(* (run_auto_stop_check).                                                      *)
THEOREM ImprovingRunsGoOn == RunTrailSpec => []ImprovingIsNotStopped
<1>1. RunTrailSpec => []TrailInv
    BY TrailInitInv, TrailStepInv, PTL DEF RunTrailSpec
<1> QED BY <1>1, TrailImproving, PTL
=============================================================================
