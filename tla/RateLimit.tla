----------------------------- MODULE RateLimit -----------------------------
(***************************************************************************)
(* The rate limiter in front of the registry: rate_limit.py and            *)
(* limit_request_rate of server.py. Each replica counts in its own memory  *)
(* and sweeps expired windows now and then, or all count in Redis, which   *)
(* may not answer. Requests of exempt paths, and of classes without a      *)
(* limit, pass uncounted: they are no steps here.                          *)
(*                                                                         *)
(* The clocks of the replicas and of Redis agree, and no replica restarts. *)
(* A check is one step: in memory it never awaits, and in Redis its count  *)
(* is one script. Redis may also run that script and lose the answer.      *)
(***************************************************************************)
EXTENDS Integers, Sequences, FiniteSets

CONSTANTS Server, Caller,
          Limited,            \* the classes of paths that have a limit
          MaxRequests,        \* the requests a window admits, of each class
          WINDOW_SECONDS,
          PRUNE_INTERVAL,
          MaxHits,            \* bound: requests
          MaxTime             \* bound: the time the model looks at

ASSUME RateAssumption ==
    /\ WINDOW_SECONDS \in Nat \ {0} /\ {PRUNE_INTERVAL, MaxTime} \subseteq Nat
    /\ MaxRequests \in [Limited -> Nat \ {0}]

Counter == Caller \X Limited
NoBucket == [count |-> 0, start |-> -1]
Window == 0..MaxTime

VARIABLES backend,      \* "memory" or "redis": AV_RATE_LIMIT_BACKEND
          instant,
          buckets,      \* of a replica: the window of each counter, or NoBucket
          lastPrune,    \* of a replica
          counters,     \* Redis: the hits of a counter in each window of the clock
          expires,      \* Redis: when that entry goes
          answers       \* history: every request, in order

rateVars == <<backend, instant, buckets, lastPrune, counters, expires, answers>>

RateInit ==
    /\ backend \in {"memory", "redis"}
    /\ instant = 0
    /\ buckets = [s \in Server |-> [q \in Counter |-> NoBucket]]
    /\ lastPrune = [s \in Server |-> 0]
    /\ counters = [q \in Counter |-> [w \in Window |-> 0]]
    /\ expires = [q \in Counter |-> [w \in Window |-> 0]]
    /\ answers = <<>>

(* The answer to a request: wait is 0 when it passes, else Retry-After;      *)
(* counted says that a counter saw it; it is answered by the counter, or     *)
(* passes by an outage of Redis.                                             *)
Record(s, q, wait, counted, by) ==
    answers' = Append(answers, [server |-> s, counter |-> q, at |-> instant, wait |-> wait,
                                counted |-> counted, by |-> by])
AtLeastOne(n) == IF n < 1 THEN 1 ELSE n

-----------------------------------------------------------------------------
(* In memory: WindowRateLimiter. *)

(* Mutant: the sweep goes by its own interval. *)
ExpiredByInterval(b) == instant - b.start >= PRUNE_INTERVAL
Expired(b) == instant - b.start >= WINDOW_SECONDS

(* _maybe_prune *)
PruneIsDue(s) == instant - lastPrune[s] >= PRUNE_INTERVAL
Pruned(s) ==
    [q \in Counter |-> IF PruneIsDue(s) /\ Expired(buckets[s][q]) THEN NoBucket
                                                                  ELSE buckets[s][q]]

(* A hit goes into the counter's window, or opens a new one. *)
WithHit(b) ==
    IF b = NoBucket \/ instant - b.start >= WINDOW_SECONDS
    THEN [count |-> 1, start |-> instant]
    ELSE [b EXCEPT !.count = @ + 1]

CheckInMemory(s, q) ==
    LET b == WithHit(Pruned(s)[q])
        remaining == WINDOW_SECONDS - (instant - b.start)
    IN  /\ buckets' = [buckets EXCEPT ![s] = [Pruned(s) EXCEPT ![q] = b]]
        /\ lastPrune' = [lastPrune EXCEPT ![s] = IF PruneIsDue(s) THEN instant ELSE @]
        /\ Record(s, q, IF b.count > MaxRequests[q[2]] THEN AtLeastOne(remaining) ELSE 0,
                  TRUE, "counter")
        /\ UNCHANGED <<counters, expires>>

-----------------------------------------------------------------------------
(* In Redis: RedisWindowRateLimiter. *)

(* The script: INCR, and EXPIRE at the first hit of the clock's window. *)
WindowId == instant \div WINDOW_SECONDS
CountOf(q) == IF instant < expires[q][WindowId] THEN counters[q][WindowId] + 1 ELSE 1
ExpiryOf(q) == IF CountOf(q) = 1 THEN instant + WINDOW_SECONDS ELSE expires[q][WindowId]
IncrAndExpire(q) ==
    /\ counters' = [counters EXCEPT ![q][WindowId] = CountOf(q)]
    /\ expires' = [expires EXCEPT ![q][WindowId] = ExpiryOf(q)]

(* Redis tells an entry's rest in whole seconds, so up to one off the rest;  *)
(* 0 stands for a TTL that cannot be read.                                   *)
Ttl(q) == LET rest == ExpiryOf(q) - instant IN {0, rest - 1, rest, rest + 1}
Rounding(be) == IF be = "redis" THEN 1 ELSE 0

CheckInRedis(s, q) ==
    /\ IncrAndExpire(q)
    /\ \E ttl \in Ttl(q) :
          LET told == IF ttl > 0 THEN ttl ELSE WINDOW_SECONDS
          IN  Record(s, q, IF CountOf(q) > MaxRequests[q[2]] THEN told ELSE 0, TRUE, "counter")
    /\ UNCHANGED <<buckets, lastPrune>>

(* The eval fails, before the script ran or after: the request passes. *)
FailOpen(s, q) ==
    /\ \/ Record(s, q, 0, FALSE, "outage") /\ UNCHANGED <<counters, expires>>
       \/ Record(s, q, 0, TRUE, "outage") /\ IncrAndExpire(q)
    /\ UNCHANGED <<buckets, lastPrune>>

-----------------------------------------------------------------------------
LimitRequestRate(s, q) ==
    /\ Len(answers) < MaxHits
    /\ \/ backend = "memory" /\ CheckInMemory(s, q)
       \/ backend = "redis" /\ CheckInRedis(s, q)
       \/ backend = "redis" /\ FailOpen(s, q)
    /\ UNCHANGED <<backend, instant>>

TimePasses ==
    /\ instant < MaxTime
    /\ instant' = instant + 1
    /\ UNCHANGED <<backend, buckets, lastPrune, counters, expires, answers>>

RateNext == TimePasses \/ \E s \in Server, q \in Counter : LimitRequestRate(s, q)
RateSpec == RateInit /\ [][RateNext]_rateVars

-----------------------------------------------------------------------------
(* Requests that one counter saw: replicas count apart, unless in Redis. *)
Together(i, j) ==
    /\ answers[i].counter = answers[j].counter
    /\ answers[i].counted /\ answers[j].counted
    /\ backend = "memory" => answers[i].server = answers[j].server

(* The requests of a counter that passed from instant t on, for one window's *)
(* time.                                                                     *)
PassedFrom(i, t) ==
    {j \in DOMAIN answers : /\ Together(i, j) /\ answers[j].wait = 0
                            /\ t <= answers[j].at /\ answers[j].at < t + WINDOW_SECONDS}

(***************************************************************************)
(* What a limit of N per window is worth, whatever the sweeps and however  *)
(* requests lie across the windows: in no span of a window's length does   *)
(* a counter say yes to more than 2N requests (those that pass because     *)
(* Redis failed come on top); a request is refused only when N passed      *)
(* within the window's time before it; and a caller that waits as long as  *)
(* it was told, with nobody else on its counter, passes: in Redis, whose   *)
(* TTL is rounded, after a second more.                                    *)
(***************************************************************************)
LimitKept ==
    \A i \in DOMAIN answers :
        LET N == MaxRequests[answers[i].counter[2]]
        IN  /\ Cardinality({j \in PassedFrom(i, answers[i].at) : answers[j].by = "counter"}) <= 2 * N
            /\ answers[i].wait > 0 =>
                   /\ Cardinality(PassedFrom(i, answers[i].at + 1 - WINDOW_SECONDS)) >= N
                   /\ \A j \in DOMAIN answers :
                          (/\ i < j /\ Together(i, j)
                           /\ answers[j].at >= answers[i].at + answers[i].wait + Rounding(backend)
                           /\ \A k \in i + 1..j - 1 : ~Together(i, k))
                          => answers[j].wait = 0
=============================================================================
