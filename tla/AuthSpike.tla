------------------------------ MODULE AuthSpike ------------------------------
(***************************************************************************)
(* The detector of bursts of failed authentication (av_server/server.py,   *)
(* _note_auth_failure): a request that is denied counts against its client *)
(* or identity, in a sliding window of the replica's memory or in a key of *)
(* Redis, and the failure that completes a burst raises one anomaly event. *)
(* A failure is one step: in memory it never awaits, in Redis its count is *)
(* one script.                                                             *)
(***************************************************************************)
EXTENDS Integers, Sequences, FiniteSets, FiniteSetsExt

CONSTANTS Instance,              \* replicas of the registry
          Host, Identity,        \* what a failure counts against: 401s and 403s
          AUTH_SPIKE_THRESHOLD, AUTH_SPIKE_WINDOW,
          AUTH_FAILURE_PRUNE_EVERY, AUTH_FAILURE_MAX_KEYS,
          MaxFailures, MaxMoment \* bounds: failures, and the time the model looks at

ASSUME SpikeAssumption ==
    /\ {AUTH_SPIKE_THRESHOLD, AUTH_SPIKE_WINDOW, AUTH_FAILURE_PRUNE_EVERY} \subseteq Nat \ {0}
    /\ {AUTH_FAILURE_MAX_KEYS, MaxFailures, MaxMoment} \subseteq Nat
    /\ Host \cap Identity = {}

Key401 == Host
Key403 == Identity
FailureKey == Key401 \cup Key403

VARIABLES spikeBackend,   \* "memory" or "redis": AV_AUTH_SPIKE_BACKEND
          moment,
          failureWindow,  \* of a replica: the failures of a key whose times it holds
          failureCalls,   \* of a replica
          failureCount,   \* Redis: [count, expires] of a key
          failures,       \* history: every failure, in order
          forgotten,      \* history: windows that the cap dropped before their time
          pending, raised \* alarms that an event is still to be written for, and those with one

spikeVars == <<spikeBackend, moment, failureWindow, failureCalls, failureCount, failures,
               forgotten, pending, raised>>

SpikeInit ==
    /\ spikeBackend \in {"memory", "redis"}
    /\ moment = 0
    /\ failureWindow = [i \in Instance |-> [k \in FailureKey |-> {}]]
    /\ failureCalls = [i \in Instance |-> 0]
    /\ failureCount = [k \in FailureKey |-> [count |-> 0, expires |-> 0]]
    /\ failures = <<>> /\ forgotten = {} /\ pending = {} /\ raised = {}

(* The failure joins the history; an alarm is to be written.                 *)
Note(i, k, alarm, counted, cleared) ==
    /\ failures' = Append(failures, [instance |-> i, key |-> k, at |-> moment, alarm |-> alarm,
                                     counted |-> counted, cleared |-> cleared])
    /\ pending' = IF alarm THEN pending \cup {Len(failures) + 1} ELSE pending

-----------------------------------------------------------------------------
(* In memory. A key without failures has no entry in the map.                *)
Recent(c) == moment - failures[c].at < AUTH_SPIKE_WINDOW
Entries(w) == {k \in FailureKey : w[k] # {}}
WithoutKeys(w, gone) == [k \in FailureKey |-> IF k \in gone THEN {} ELSE w[k]]
Stale(w) == {k \in Entries(w) : ~Recent(Max(w[k]))}

(* _prune_auth_failure_window: stale keys go, and over the cap those whose   *)
(* newest failure is oldest.                                                 *)
Overflow(w) ==
    LET left == Entries(w) \ Stale(w)
        excess == Cardinality(left) - AUTH_FAILURE_MAX_KEYS
    IN  {S \in SUBSET left :
           /\ Cardinality(S) = IF excess > 0 THEN excess ELSE 0
           /\ \A k \in S, l \in left \ S : failures[Max(w[k])].at <= failures[Max(w[l])].at}

PruneIsDueFor(i) ==
    \/ (failureCalls[i] + 1) % AUTH_FAILURE_PRUNE_EVERY = 0
    \/ Cardinality(Entries(failureWindow[i])) > AUTH_FAILURE_MAX_KEYS

(* The window of the key with this failure; it goes with the alarm it raises *)
(* (the variant keeps it).                                                   *)
AfterwardsKept(w, alarm) == w
Afterwards(w, alarm) == IF alarm THEN {} ELSE w

NoteInMemory(i, k) ==
    \E gone \in IF PruneIsDueFor(i) THEN Overflow(failureWindow[i]) ELSE {{}} :
        LET dropped == IF PruneIsDueFor(i) THEN gone \cup Stale(failureWindow[i]) ELSE {}
            kept == WithoutKeys(failureWindow[i], dropped)
            w == {c \in kept[k] : Recent(c)} \cup {Len(failures) + 1}
            alarm == Cardinality(w) >= AUTH_SPIKE_THRESHOLD
        IN  /\ failureWindow' = [failureWindow EXCEPT ![i] = [kept EXCEPT ![k] = Afterwards(w, alarm)]]
            /\ failureCalls' = [failureCalls EXCEPT ![i] = @ + 1]
            /\ forgotten' = forgotten \cup ({i} \X gone)
            /\ Note(i, k, alarm, TRUE, TRUE)
            /\ UNCHANGED failureCount

(* In Redis: the first failure sets the time to live; the key is deleted     *)
(* with the alarm, if Redis answers. A failure whose count is not answered   *)
(* raises none, although Redis may have counted it.                          *)
CountNow(k) ==
    IF moment < failureCount[k].expires
    THEN [failureCount[k] EXCEPT !.count = @ + 1]
    ELSE [count |-> 1, expires |-> moment + AUTH_SPIKE_WINDOW]

NoteInRedis(i, k) ==
    /\ LET alarm == CountNow(k).count >= AUTH_SPIKE_THRESHOLD
       IN  \E deleted \in {TRUE, ~alarm} :
             /\ failureCount' = [failureCount EXCEPT ![k] =
                    IF alarm /\ deleted THEN [count |-> 0, expires |-> 0] ELSE CountNow(k)]
             /\ Note(i, k, alarm, TRUE, deleted)
    /\ UNCHANGED <<failureWindow, failureCalls, forgotten>>

NoteFailsOpen(i, k) ==
    /\ \E counted \in BOOLEAN :
         /\ failureCount' = [failureCount EXCEPT ![k] = IF counted THEN CountNow(k) ELSE @]
         /\ Note(i, k, FALSE, counted, FALSE)
    /\ UNCHANGED <<failureWindow, failureCalls, forgotten>>

NoteAuthFailure(i, k) ==
    /\ Len(failures) < MaxFailures
    /\ \/ spikeBackend = "memory" /\ NoteInMemory(i, k)
       \/ spikeBackend = "redis" /\ NoteInRedis(i, k)
       \/ spikeBackend = "redis" /\ NoteFailsOpen(i, k)
    /\ UNCHANGED <<spikeBackend, moment, raised>>

-----------------------------------------------------------------------------
(* require_token's 401, whose event a task of its own session writes, and    *)
(* require_scope's 403, whose event is committed with the denial.            *)
Deny401(i) == \E k \in Key401 : NoteAuthFailure(i, k)
Deny403(i) == \E k \in Key403 : NoteAuthFailure(i, k)

(* The event is written, or the session fails and nobody hears of it.        *)
EmitAnomaly(a) ==
    /\ a \in pending
    /\ pending' = pending \ {a}
    /\ \/ raised' = raised \cup {a}
       \/ UNCHANGED raised
    /\ UNCHANGED <<spikeBackend, moment, failureWindow, failureCalls, failureCount, failures,
                   forgotten>>

MomentPasses ==
    /\ moment < MaxMoment
    /\ moment' = moment + 1
    /\ UNCHANGED <<spikeBackend, failureWindow, failureCalls, failureCount, failures, forgotten,
                   pending, raised>>

SpikeNext ==
    \/ \E i \in Instance : Deny401(i) \/ Deny403(i)
    \/ \E a \in 1 .. MaxFailures : EmitAnomaly(a)
    \/ MomentPasses
SpikeSpec == SpikeInit /\ [][SpikeNext]_spikeVars

-----------------------------------------------------------------------------
(* Failures that one counter saw: replicas count apart, unless in Redis.     *)
SameCounter(a, b) ==
    /\ failures[a].key = failures[b].key
    /\ spikeBackend = "memory" => failures[a].instance = failures[b].instance

(* What the counter of failure a saw within the window that ends with it,    *)
(* after failure b.                                                          *)
Burst(a, b) ==
    {c \in b + 1 .. a : /\ failures[c].counted /\ SameCounter(a, c)
                        /\ failures[a].at - failures[c].at < AUTH_SPIKE_WINDOW}

(* "one burst -> exactly one anomaly": an event is written only of a failure *)
(* that completes a burst, of which no failure was part of an earlier alarm  *)
(* whose window is gone. In memory no burst passes without an alarm, over    *)
(* prunings and interleaved clients, unless the cap dropped the window.      *)
AlarmsAreBursts ==
    /\ \A a \in raised \cup pending :
         /\ failures[a].alarm /\ Cardinality(Burst(a, 0)) >= AUTH_SPIKE_THRESHOLD
         /\ \A b \in 1 .. a - 1 :
              SameCounter(a, b) /\ failures[b].alarm /\ failures[b].cleared
                => Cardinality(Burst(a, b)) >= AUTH_SPIKE_THRESHOLD
    /\ \A a \in DOMAIN failures :
         spikeBackend = "memory" /\ ~failures[a].alarm
             /\ <<failures[a].instance, failures[a].key>> \notin forgotten
           => \E b \in 0 .. a - 1 :
                /\ b = 0 \/ (failures[b].alarm /\ SameCounter(a, b))
                /\ Cardinality(Burst(a, b)) < AUTH_SPIKE_THRESHOLD

-----------------------------------------------------------------------------
(* What the counters hold of the failures since the last alarm.              *)
Failure == {f \in [instance : Instance, key : FailureKey, at : Nat, alarm : BOOLEAN,
                   counted : BOOLEAN, cleared : BOOLEAN] : f.alarm => f.counted}
SpikeTypeOK ==
    /\ spikeBackend \in {"memory", "redis"} /\ moment \in Nat
    /\ failures \in Seq(Failure)
    /\ \A c \in DOMAIN failures : failures[c].at <= moment
    /\ \A a, b \in DOMAIN failures : a < b => failures[a].at <= failures[b].at
    /\ failureWindow \in [Instance -> [FailureKey -> SUBSET DOMAIN failures]]
    /\ failureCount \in [FailureKey -> [count : Nat, expires : Nat]]
    /\ \A a \in raised \cup pending : a \in DOMAIN failures /\ failures[a].alarm

(* A window holds failures of its own key since the last alarm, and, unless  *)
(* the cap dropped it, all recent ones.                                      *)
OfWindow(i, k) ==
    {c \in DOMAIN failures : failures[c].instance = i /\ failures[c].key = k /\ failures[c].counted}
SinceAlarm(S) == {c \in S : \A b \in S : failures[b].alarm => b < c}
WindowHolds(i, k) ==
    LET since == SinceAlarm(OfWindow(i, k))
    IN  /\ failureWindow[i][k] \subseteq since
        /\ <<i, k>> \notin forgotten => {c \in since : Recent(c)} \subseteq failureWindow[i][k]

(* A count in Redis is one of failures since its key was last deleted.       *)
OfKey(k) ==
    {c \in DOMAIN failures :
        /\ failures[c].key = k /\ failures[c].counted
        /\ failures[c].at >= failureCount[k].expires - AUTH_SPIKE_WINDOW
        /\ \A b \in DOMAIN failures :
             failures[b].key = k /\ failures[b].alarm /\ failures[b].cleared => b < c}

CountersHold ==
    /\ spikeBackend = "memory" => \A i \in Instance, k \in FailureKey : WindowHolds(i, k)
    /\ spikeBackend = "redis" => \A k \in FailureKey :
         /\ failureCount[k].expires <= moment + AUTH_SPIKE_WINDOW
         /\ failureCount[k].count <= Cardinality(OfKey(k))

(* Of every failure, whether an event is written of it or not.               *)
AlarmIsBurst(a) ==
    /\ Cardinality(Burst(a, 0)) >= AUTH_SPIKE_THRESHOLD
    /\ \A b \in 1 .. a - 1 :
         SameCounter(a, b) /\ failures[b].alarm /\ failures[b].cleared
           => Cardinality(Burst(a, b)) >= AUTH_SPIKE_THRESHOLD
NoBurstPassed(a) ==
    spikeBackend = "memory" /\ <<failures[a].instance, failures[a].key>> \notin forgotten
      => \E b \in 0 .. a - 1 :
           /\ b = 0 \/ (failures[b].alarm /\ SameCounter(a, b))
           /\ Cardinality(Burst(a, b)) < AUTH_SPIKE_THRESHOLD
AlarmsRight ==
    \A a \in DOMAIN failures : IF failures[a].alarm THEN AlarmIsBurst(a) ELSE NoBurstPassed(a)

SpikeInv == SpikeTypeOK /\ CountersHold /\ AlarmsRight
=============================================================================
