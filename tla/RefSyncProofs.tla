----------------------------- MODULE RefSyncProofs -----------------------------
(***************************************************************************)
(* Theorems about RefSync, for any number of clones, processes, commits    *)
(* and faults: the types and the ref whatever the faults strike, delivery  *)
(* on a founded branch where they do not strike merges, and the local      *)
(* branch where one process at a time works in a clone.                    *)
(***************************************************************************)
EXTENDS RefSync, OrderLemmas, TLAPS

LEMMA CommitTypes ==
    /\ Commit \subseteq CommitOrNone
    /\ None \in CommitOrNone /\ None \notin Commit
    /\ \A c \in CommitOrNone : c # None => c \in Commit
    /\ NoParents \in Parentage
  BY CommitAssumption DEF Commit, CommitOrNone, None, NoParents, Parentage

(* What a pull stores is new and below the remote tip. *)
LEMMA FetchedTypes ==
    ASSUME NEW ps, NEW fs, NEW local, NEW h \in CommitOrNone
    PROVE  Fetched(ps, fs, local, h) \subseteq Commit
  BY CommitAssumption DEF Fetched, CommitOrNone, Commit

LEMMA InitSound == Init => SyncInv
  <1> SUFFICES ASSUME Init PROVE SyncInv
    OBVIOUS
  <1> USE CommitAssumption, SyncAssumption DEF Init, Commit, CommitOrNone, None
  <1>1. TypeOK
    <2>1. Idle \in SessionState
      BY DEF Idle, SessionState, Pc
    <2> QED
      BY <2>1 DEF TypeOK, Parentage, NoParents
  <1>2. WellFormed
    BY DEF WellFormed
  <1>3. Known /\ Requests
    BY DEF Known, Requests
  <1>4. Sessions
    BY DEF Sessions, Sound, Idle
  <1> QED
    BY <1>1, <1>2, <1>3, <1>4 DEF SyncInv

-----------------------------------------------------------------------------
(* The sessions of the other processes. *)

(* Files are only added, parents of commits that were made are fixed, and a   *)
(* branch that has a commit keeps one.                                       *)
Grows ==
    /\ made <= made'
    /\ \A c \in 1 .. made : parents'[c] = parents[c]
    /\ \A r \in Repo : have[r] \subseteq have'[r] /\ (tip[r] # None => tip'[r] # None)

LEMMA StillRootOrParent ==
    ASSUME Grows, NEW c \in 1 .. made, NEW e, RootOrParent(c, e)
    PROVE  RootOrParent(c, e)'
  BY DEF Grows, RootOrParent, ParentsOf

LEMMA StillSound ==
    ASSUME SyncInv, Grows, NEW q \in Proc, sess'[q] = sess[q]
    PROVE  Sound(sess[q], Home[q])'
  <1> DEFINE r == Home[q]
  <1>1. r \in Repo /\ Sound(sess[q], r)
    BY SyncAssumption DEF SyncInv, Sessions
  <1>2. have[r] \subseteq have'[r] /\ have[r] \subseteq 1 .. made
    BY <1>1 DEF Grows, SyncInv, Known
  <1>3. sess[q].own \in 1 .. made => \A e : RootOrParent(sess[q].own, e) => RootOrParent(sess[q].own, e)'
    BY StillRootOrParent
  <1> HIDE DEF r
  <1>4. Sound(sess[q], r)'
    BY <1>1, <1>2, <1>3 DEF Sound, Grows
  <1> QED
    BY <1>4 DEF r

(* A step of p that only adds keeps every other session sound. *)
LEMMA SessionsStay ==
    ASSUME SyncInv, Grows, NEW p \in Proc, NEW s \in SessionState, Become(p, s),
           sess'[p] = s => Sound(sess[p], Home[p])'
    PROVE  Sessions' /\ sess' \in [Proc -> SessionState]
  <1>1. sess' = [sess EXCEPT ![p] = s] /\ sess \in [Proc -> SessionState]
    BY DEF Become, SyncInv, TypeOK
  <1>2. sess' \in [Proc -> SessionState] /\ sess'[p] = s
    BY <1>1
  <1>3. ASSUME NEW q \in Proc PROVE Sound(sess[q], Home[q])'
    <2>1. CASE q = p
      BY <2>1, <1>2
    <2>2. CASE q # p
      BY <2>2, <1>1, StillSound
    <2> QED
      BY <2>1, <2>2
  <1> QED
    BY <1>2, <1>3 DEF Sessions

-----------------------------------------------------------------------------
(* How the steps are put together. *)

(* The invariant, without the sessions and the count of faults. *)
CoreInv ==
    /\ parents \in [Commit -> Parentage] /\ made \in CommitOrNone
    /\ stored \subseteq Commit /\ ref \in CommitOrNone /\ wire \subseteq Request
    /\ have \in [Repo -> SUBSET Commit] /\ tip \in [Repo -> CommitOrNone]
    /\ queue \in [Repo -> SUBSET Commit]
    /\ \A r \in Repo : queue[r] \subseteq have[r]
    /\ WellFormed /\ Known /\ Requests

LEMMA FaultTypes ==
    ASSUME TypeOK, NEW what, NoFault \/ Fault(what)
    PROVE  faults' \in 0 .. MaxFaults
  BY SyncAssumption DEF TypeOK, NoFault, Fault

LEMMA FaultAtTypes ==
    ASSUME TypeOK, NEW p \in Proc, NoFault \/ FaultAt(p)
    PROVE  faults' \in 0 .. MaxFaults
  BY FaultTypes DEF FaultAt

(* A step of p keeps the invariant if it keeps the rest and leaves p sound. *)
LEMMA SessionStep ==
    ASSUME SyncInv, NEW p \in Proc, NEW s \in SessionState, Become(p, s), Grows, CoreInv',
           faults' \in 0 .. MaxFaults, sess'[p] = s => Sound(sess[p], Home[p])'
    PROVE  SyncInv'
  BY SessionsStay DEF SyncInv, CoreInv, TypeOK

(* A step that changes nothing but the session of p. *)
LEMMA QuietStep ==
    ASSUME SyncInv, NEW p \in Proc, NEW s \in SessionState, Become(p, s),
           UNCHANGED <<parents, made, registry, clone>>, NoFault \/ FaultAt(p),
           Sound(s, Home[p])
    PROVE  SyncInv'
  <1>1. Grows
    BY DEF Grows, clone, SyncInv, TypeOK, CommitOrNone
  <1>2. CoreInv'
    BY DEF CoreInv, SyncInv, TypeOK, registry, clone, WellFormed, Known, Requests, RootOrParent
  <1>3. sess'[p] = s => Sound(sess[p], Home[p])'
    BY DEF Sound, RootOrParent, clone
  <1> QED
    BY <1>1, <1>2, <1>3, FaultAtTypes, SessionStep DEF SyncInv

LEMMA IdleSound ==
    ASSUME NEW r
    PROVE  Idle \in SessionState /\ Sound(Idle, r)
  BY CommitTypes DEF Idle, SessionState, Pc, Sound, CommitOrNone

(* A step of the clone's files and of the session of p, with the registry as *)
(* it was or with one more commit stored.                                    *)
LEMMA CloneStep ==
    ASSUME SyncInv, NEW p \in Proc, NEW s \in SessionState, Become(p, s),
           UNCHANGED <<parents, made, ref, wire, have>>, stored \subseteq stored',
           stored' \subseteq 1 .. made, NoFault \/ FaultAt(p),
           queue' \in [Repo -> SUBSET Commit], \A r \in Repo : queue'[r] \subseteq have[r],
           tip' \in [Repo -> CommitOrNone], \A r \in Repo : tip[r] # None => tip'[r] # None,
           Sound(s, Home[p]), s.pc # "diverged"
    PROVE  SyncInv'
  <1>1. Grows
    BY DEF Grows, SyncInv, TypeOK, CommitOrNone
  <1>2. stored' \subseteq Commit
    BY CommitAssumption DEF SyncInv, TypeOK, Commit, CommitOrNone
  <1>3. CoreInv'
    BY <1>2 DEF CoreInv, SyncInv, TypeOK, WellFormed, Known, Requests, RootOrParent
  <1>4. sess'[p] = s => Sound(sess[p], Home[p])'
    BY DEF Sound, RootOrParent
  <1> QED
    BY <1>1, <1>3, <1>4, FaultAtTypes, SessionStep DEF SyncInv

-----------------------------------------------------------------------------
(* The ref. *)

(* What RefAdvances says of one step. *)
RefStep ==
    ref' # ref => \/ ref = None
                  \/ parents'[ref'] = NoParents
                  \/ ref \in ParentsOf(parents'[ref'])

(* A swap that succeeds moves the ref to a child of what it named. *)
LEMMA SwapAdvances ==
    ASSUME NEW c, NEW e, RootOrParent(c, e), Swaps(e), ref' \in {ref, c}, UNCHANGED parents
    PROVE  RefStep
  BY DEF RefStep, RootOrParent, Swaps, ParentsOf

(* A request of the flush expects the first parent. *)
LEMMA FirstIsExpected ==
    ASSUME SyncInv, NEW c \in Commit
    PROVE  RootOrParent(c, parents[c].first)
  BY DEF SyncInv, TypeOK, WellFormed, RootOrParent, ParentsOf, Parentage

LEMMA LateSwapKeeps ==
    ASSUME SyncInv, LateSwap
    PROVE  SyncInv' /\ RefStep
  <1>1. PICK w \in wire :
          /\ wire' = wire \ {w}
          /\ ref' = IF Swaps(w.expected) THEN w.commit ELSE ref
          /\ UNCHANGED <<parents, made, stored, clone, sess>> /\ NoFault
    BY DEF LateSwap
  <1>2. w.commit \in 1 .. made /\ RootOrParent(w.commit, w.expected) /\ w.commit \in Commit
    BY DEF SyncInv, Requests, TypeOK, Request
  <1>3. RefStep
    <2>1. CASE Swaps(w.expected)
      BY <2>1, <1>1, <1>2, SwapAdvances
    <2>2. CASE ~Swaps(w.expected)
      BY <2>2, <1>1 DEF RefStep
    <2> QED
      BY <2>1, <2>2
  <1>4. TypeOK'
    BY <1>1, <1>2, CommitTypes, FaultTypes DEF SyncInv, TypeOK, clone
  <1>5. WellFormed' /\ Known' /\ Requests' /\ Sessions'
    BY <1>1 DEF SyncInv, WellFormed, Known, Requests, RootOrParent, Sessions, Sound, clone
  <1> QED
    BY <1>3, <1>4, <1>5 DEF SyncInv

-----------------------------------------------------------------------------
(* Commits. *)

(* A new commit: its file and its queue entry, whatever becomes of the branch. *)
LEMMA PersistKeeps ==
    ASSUME SyncInv, NEW p \in Proc, NEW ps \in Parentage, ps.first = None => ps = NoParents,
           Persist(p, ps), UNCHANGED registry,
           tip' \in [Repo -> CommitOrNone], \A r \in Repo : tip[r] # None => tip'[r] # None
    PROVE  /\ Grows /\ CoreInv' /\ RefStep
           /\ made' \in Commit /\ made' # None /\ made' \in have'[Home[p]]
  <1> DEFINE c == made + 1
             r == Home[p]
  <1>1. /\ c \in Commit /\ c # None /\ made' = c /\ 1 .. made \subseteq 1 .. made'
        /\ c \in 1 .. made' /\ c \notin 1 .. made /\ made \in CommitOrNone /\ made' \in CommitOrNone
    BY CommitAssumption DEF Persist, SyncInv, TypeOK, CommitOrNone, Commit, None
  <1>2. /\ r \in Repo
        /\ parents' = [parents EXCEPT ![c] = ps]
        /\ have' = [have EXCEPT ![r] = @ \cup {c}]
        /\ queue' = [queue EXCEPT ![r] = @ \cup {c}]
    BY SyncAssumption DEF Persist
  <1> HIDE DEF c, r
  <1>3. UNCHANGED <<stored, ref, wire>>
    BY DEF registry
  <1>4. /\ parents' \in [Commit -> Parentage] /\ parents'[c] = ps
        /\ \A d \in Commit : d # c => parents'[d] = parents[d]
        /\ have' \in [Repo -> SUBSET Commit] /\ queue' \in [Repo -> SUBSET Commit]
        /\ c \in have'[r]
    BY <1>1, <1>2 DEF SyncInv, TypeOK
  <1>5. \A d \in 1 .. made : d \in Commit /\ parents'[d] = parents[d]
    BY <1>1, <1>4, CommitAssumption DEF SyncInv, TypeOK, Commit, CommitOrNone
  <1>6. Grows
    BY <1>1, <1>2, <1>5, CommitAssumption DEF Grows, SyncInv, TypeOK, CommitOrNone, Commit
  <1>7. \A q \in Repo : queue'[q] \subseteq have'[q] /\ have'[q] \subseteq 1 .. made'
    BY <1>1, <1>2 DEF SyncInv, TypeOK, Known
  <1>8. WellFormed'
    BY <1>4 DEF SyncInv, WellFormed
  <1>9. Known' /\ Requests'
    BY <1>1, <1>3, <1>6, <1>7, StillRootOrParent DEF SyncInv, Known, Requests
  <1>10. CoreInv'
    BY <1>1, <1>3, <1>4, <1>7, <1>8, <1>9 DEF CoreInv, SyncInv, TypeOK
  <1> QED
    BY <1>1, <1>3, <1>4, <1>6, <1>10 DEF RefStep, r

LEMMA TipParent ==
    ASSUME SyncInv, NEW r \in Repo
    PROVE  LET ps == [first |-> tip[r], second |-> None]
           IN  ps \in Parentage /\ (ps.first = None => ps = NoParents)
  BY CommitTypes DEF SyncInv, TypeOK, Parentage, NoParents

LEMMA CommitStagedKeeps ==
    ASSUME SyncInv, NEW p \in Proc, CommitStaged(p)
    PROVE  SyncInv' /\ RefStep
  <1> DEFINE r == Home[p]
             ps == [first |-> tip[r], second |-> None]
             s == [Idle EXCEPT !.pc = "begin", !.own = made']
  <1>1. r \in Repo /\ ps \in Parentage /\ (ps.first = None => ps = NoParents)
    BY SyncAssumption, TipParent
  <1>2. /\ Persist(p, ps) /\ UNCHANGED registry /\ NoFault
        /\ tip' = [tip EXCEPT ![r] = made']
        /\ Become(p, s) \/ sess' = sess
    BY DEF CommitStaged
  <1>3. made' \in Commit /\ made' # None /\ tip' \in [Repo -> CommitOrNone]
        /\ \A q \in Repo : tip[q] # None => tip'[q] # None
    BY <1>1, <1>2, CommitTypes, CommitAssumption DEF Persist, SyncInv, TypeOK, CommitOrNone, Commit, None
  <1> HIDE DEF ps
  <1>4. Grows /\ CoreInv' /\ RefStep /\ made' \in have'[r]
    BY <1>1, <1>2, <1>3, PersistKeeps
  <1>5. faults' \in 0 .. MaxFaults
    BY <1>2, FaultTypes DEF SyncInv
  <1>6. CASE Become(p, s)
    <2>1. s \in SessionState
      BY <1>3, CommitTypes DEF Idle, SessionState, Pc
    <2>2. sess'[p] = s => Sound(sess[p], Home[p])'
      BY <1>3, <1>4 DEF Sound, Idle
    <2> QED
      BY <1>4, <1>5, <1>6, <2>1, <2>2, SessionStep
  <1>7. CASE sess' = sess
    <2>1. Sessions'
      BY <1>4, <1>7, StillSound DEF Sessions
    <2> QED
      BY <1>4, <1>5, <1>7, <2>1 DEF SyncInv, CoreInv, TypeOK
  <1> QED
    BY <1>2, <1>4, <1>6, <1>7

LEMMA CommitKilledKeeps ==
    ASSUME SyncInv, NEW p \in Proc, CommitKilled(p)
    PROVE  SyncInv' /\ RefStep
  <1> DEFINE ps == [first |-> tip[Home[p]], second |-> None]
  <1>1. ps \in Parentage /\ (ps.first = None => ps = NoParents)
    BY SyncAssumption, TipParent
  <1>2. Persist(p, ps) /\ UNCHANGED <<tip, registry, sess>> /\ Fault("commit")
    BY DEF CommitKilled
  <1> HIDE DEF ps
  <1>3. Grows /\ CoreInv' /\ RefStep
    BY <1>1, <1>2, PersistKeeps DEF SyncInv, TypeOK
  <1>4. faults' \in 0 .. MaxFaults
    BY <1>2, FaultTypes DEF SyncInv
  <1>5. Sessions'
    BY <1>2, <1>3, StillSound DEF Sessions
  <1> QED
    BY <1>2, <1>3, <1>4, <1>5 DEF SyncInv, CoreInv, TypeOK

LEMMA MergeCommitKeeps ==
    ASSUME SyncInv, NEW p \in Proc, MergeCommit(p)
    PROVE  SyncInv' /\ RefStep
  <1> DEFINE r == Home[p]
             ps == [first |-> sess[p].ours, second |-> sess[p].theirs]
             s == [Idle EXCEPT !.pc = "begin", !.own = made']
  <1>1. r \in Repo /\ ps \in Parentage /\ ps.first # None
    BY SyncAssumption DEF MergeCommit, At, SyncInv, TypeOK, SessionState, Parentage, Sessions, Sound
  <1>2. /\ Persist(p, ps) /\ UNCHANGED registry /\ NoFault
        /\ tip' = [tip EXCEPT ![r] = made'] /\ Become(p, s)
    BY DEF MergeCommit
  <1>3. made' \in Commit /\ made' # None /\ tip' \in [Repo -> CommitOrNone]
        /\ \A q \in Repo : tip[q] # None => tip'[q] # None
    BY <1>1, <1>2, CommitTypes, CommitAssumption DEF Persist, SyncInv, TypeOK, CommitOrNone, Commit, None
  <1> HIDE DEF ps
  <1>4. Grows /\ CoreInv' /\ RefStep /\ made' \in have'[r]
    BY <1>1, <1>2, <1>3, PersistKeeps
  <1>5. faults' \in 0 .. MaxFaults
    BY <1>2, FaultTypes DEF SyncInv
  <1>6. s \in SessionState
    BY <1>3, CommitTypes DEF Idle, SessionState, Pc
  <1>7. sess'[p] = s => Sound(sess[p], Home[p])'
    BY <1>3, <1>4 DEF Sound, Idle
  <1> QED
    BY <1>2, <1>4, <1>5, <1>6, <1>7, SessionStep

-----------------------------------------------------------------------------
(* The push of a commit and the flush of the queue. *)

LEMMA QuietRef ==
    ASSUME UNCHANGED registry
    PROVE  RefStep
  BY DEF registry, RefStep

(* A session that goes on, with fields of the right type. *)
LEMMA SessionTypes ==
    ASSUME SyncInv, NEW p \in Proc
    PROVE  /\ sess[p] \in SessionState /\ Sound(sess[p], Home[p]) /\ Home[p] \in Repo
           /\ have[Home[p]] \subseteq Commit /\ have[Home[p]] \subseteq 1 .. made
           /\ queue[Home[p]] \subseteq have[Home[p]]
  BY SyncAssumption DEF SyncInv, TypeOK, Sessions, Known

LEMMA ExpectParentKeeps ==
    ASSUME SyncInv, NEW p \in Proc, ExpectParent(p)
    PROVE  SyncInv' /\ RefStep
  <1> DEFINE own == sess[p].own
             e == Expected(queue[Home[p]], own)
             s == [sess[p] EXCEPT !.pc = "flush", !.expected = e]
  <1>1. /\ sess[p].pc = "begin" /\ Become(p, s) /\ UNCHANGED <<parents, made, registry, clone>>
        /\ NoFault
    BY DEF ExpectParent, At
  <1>2. own \in Commit /\ own # None
    BY <1>1, SessionTypes DEF Sound
  <1>3. parents[own] \in Parentage
    BY <1>2 DEF SyncInv, TypeOK
  <1>4. e \in CommitOrNone
    BY <1>3 DEF Expected, Parentage
  <1>5. RootOrParent(own, e)
    <2>1. CASE IsMerge(own) /\ parents[own].first \in queue[Home[p]]
      BY <2>1, <1>3 DEF Expected, IsMerge, RootOrParent, ParentsOf, Parentage
    <2>2. CASE ~(IsMerge(own) /\ parents[own].first \in queue[Home[p]])
      BY <2>2, <1>2, FirstIsExpected DEF Expected
    <2> QED
      BY <2>1, <2>2
  <1> HIDE DEF e
  <1>6. s \in SessionState
    BY <1>4, SessionTypes DEF SessionState, Pc
  <1>7. Sound(s, Home[p])
    BY <1>1, <1>2, <1>5, SessionTypes DEF Sound, SessionState
  <1> QED
    BY <1>1, <1>6, <1>7, QuietStep, QuietRef

LEMMA FlushFirstKeeps ==
    ASSUME SyncInv, NEW p \in Proc, FlushFirst(p)
    PROVE  SyncInv' /\ RefStep
  <1> DEFINE s == [sess[p] EXCEPT !.pc = "push", !.todo = queue[Home[p]] \ {sess[p].own}]
  <1>1. /\ sess[p].pc = "flush" /\ Become(p, s) /\ UNCHANGED <<parents, made, registry, clone>>
        /\ NoFault
    BY DEF FlushFirst, At
  <1>2. s \in SessionState
    BY SessionTypes DEF SessionState, Pc
  <1>3. Sound(s, Home[p])
    BY <1>1, SessionTypes DEF Sound, SessionState
  <1> QED
    BY <1>1, <1>2, <1>3, QuietStep, QuietRef

LEMMA StartPushKeeps ==
    ASSUME SyncInv, NEW p \in Proc, StartPush(p)
    PROVE  SyncInv' /\ RefStep
  <1> DEFINE s == [Idle EXCEPT !.pc = "push", !.todo = queue[Home[p]]]
  <1>1. Become(p, s) /\ UNCHANGED <<parents, made, registry, clone>> /\ NoFault
    BY DEF StartPush
  <1>2. s \in SessionState
    BY SessionTypes, CommitTypes DEF SessionState, Pc, Idle
  <1>3. Sound(s, Home[p])
    BY SessionTypes DEF Sound, Idle
  <1> QED
    BY <1>1, <1>2, <1>3, QuietStep, QuietRef

LEMMA RejectTokenKeeps ==
    ASSUME SyncInv, NEW p \in Proc, RejectToken(p)
    PROVE  SyncInv' /\ RefStep
  <1> DEFINE s == [sess[p] EXCEPT !.todo = {}]
  <1>1. Become(p, s) /\ UNCHANGED <<parents, made, registry, clone>> /\ FaultAt(p)
    BY DEF RejectToken
  <1>2. s \in SessionState
    BY SessionTypes DEF SessionState
  <1>3. Sound(s, Home[p])
    BY SessionTypes DEF Sound, SessionState
  <1> QED
    BY <1>1, <1>2, <1>3, QuietStep, QuietRef

LEMMA KillKeeps ==
    ASSUME SyncInv, NEW p \in Proc, Kill(p)
    PROVE  SyncInv' /\ RefStep
  BY QuietStep, QuietRef, IdleSound DEF Kill

(* The session that goes on with the next entry. *)
LEMMA Advances ==
    ASSUME SyncInv, NEW p \in Proc, NEW c \in Commit, NEW done, Advance(p, c, done),
           sess[p].pc \in {"push", "swap"}
    PROVE  \E s \in SessionState : Become(p, s) /\ Sound(s, Home[p]) /\ s.pc = "push"
  <1> DEFINE d == IF done THEN sess[p].delivered \cup {c} ELSE sess[p].delivered
             s == [sess[p] EXCEPT !.pc = "push", !.todo = @ \ {c}, !.delivered = d]
  <1>1. sess[p].delivered \subseteq Commit
    BY SessionTypes DEF SessionState
  <1>2. d \in SUBSET Commit
    BY <1>1
  <1>3. Become(p, s)
    BY SessionTypes DEF Advance, SessionState
  <1> HIDE DEF d
  <1>4. s \in SessionState /\ s.pc = "push"
    BY <1>2, SessionTypes DEF SessionState, Pc
  <1>5. Sound(s, Home[p])
    BY SessionTypes DEF Sound, SessionState
  <1> QED
    BY <1>3, <1>4, <1>5

LEMMA PushEntryKeeps ==
    ASSUME SyncInv, NEW p \in Proc, PushEntry(p)
    PROVE  SyncInv' /\ RefStep
  <1>1. PICK c \in Commit :
          /\ IsNext(p, c)
          /\ \/ /\ stored' = stored \cup {c}
                /\ Become(p, [sess[p] EXCEPT !.pc = "swap"]) /\ NoFault
             \/ /\ stored' \in {stored, stored \cup {c}}
                /\ Advance(p, c, FALSE) /\ FaultAt(p)
    BY DEF PushEntry
  <1>2. sess[p].pc = "push" /\ UNCHANGED <<parents, made, ref, wire, clone>>
    BY DEF PushEntry, At
  <1>3. c \in 1 .. made
    BY <1>1, SessionTypes DEF IsNext, Sound
  <1>4. stored \subseteq stored' /\ stored' \subseteq 1 .. made
    BY <1>1, <1>3 DEF SyncInv, Known
  <1>5. \E s \in SessionState : Become(p, s) /\ Sound(s, Home[p]) /\ s.pc # "diverged"
    <2>1. CASE Become(p, [sess[p] EXCEPT !.pc = "swap"])
      <3> DEFINE s == [sess[p] EXCEPT !.pc = "swap"]
      <3>1. s \in SessionState /\ s.pc = "swap"
        BY SessionTypes DEF SessionState, Pc
      <3>2. Sound(s, Home[p])
        BY <1>2, SessionTypes DEF Sound, SessionState
      <3> QED
        BY <2>1, <3>1, <3>2
    <2>2. CASE Advance(p, c, FALSE)
      BY <2>2, <1>2, Advances
    <2> QED
      BY <1>1, <2>1, <2>2
  <1>6. SyncInv'
    BY <1>1, <1>2, <1>4, <1>5, CloneStep DEF clone, SyncInv, TypeOK
  <1> QED
    BY <1>2, <1>6 DEF RefStep

(* A step that sends an update_ref: the ref moves, or the request is left on *)
(* its way.                                                                  *)
LEMMA SwapStep ==
    ASSUME SyncInv, NEW p \in Proc, NEW s \in SessionState, Become(p, s), Sound(s, Home[p]),
           UNCHANGED <<parents, made, stored, have, tip>>, NoFault \/ FaultAt(p),
           queue' \in [Repo -> SUBSET Commit], \A r \in Repo : queue'[r] \subseteq have[r],
           NEW c \in 1 .. made, NEW e \in CommitOrNone, RootOrParent(c, e),
           ref' \in {ref, c}, wire' \in {wire, wire \cup {[commit |-> c, expected |-> e]}}
    PROVE  SyncInv'
  <1>1. Grows
    BY DEF Grows, SyncInv, TypeOK, CommitOrNone
  <1>2. c \in Commit /\ c \in CommitOrNone
    BY CommitAssumption DEF SyncInv, TypeOK, Commit, CommitOrNone
  <1>3. ref' \in CommitOrNone /\ wire' \subseteq Request
    BY <1>2 DEF SyncInv, TypeOK, Request
  <1>4. Requests'
    BY DEF SyncInv, Requests, RootOrParent
  <1>5. CoreInv'
    BY <1>3, <1>4 DEF CoreInv, SyncInv, TypeOK, WellFormed, Known
  <1>6. sess'[p] = s => Sound(sess[p], Home[p])'
    BY DEF Sound, RootOrParent
  <1> QED
    BY <1>1, <1>5, <1>6, FaultAtTypes, SessionStep DEF SyncInv

LEMMA SwapEntryKeeps ==
    ASSUME SyncInv, NEW p \in Proc, SwapEntry(p)
    PROVE  SyncInv' /\ RefStep
  <1>1. PICK c \in Commit :
          LET expected == parents[c].first
          IN  /\ IsNext(p, c)
              /\ \/ /\ Advance(p, c, Swaps(expected) \/ Contains(p, c))
                    /\ ref' = IF Swaps(expected) THEN c ELSE ref
                    /\ wire' = wire /\ NoFault
                 \/ /\ Advance(p, c, FALSE)
                    /\ wire' = wire \cup {[commit |-> c, expected |-> expected]}
                    /\ ref' = ref /\ FaultAt(p)
    BY DEF SwapEntry
  <1>2. sess[p].pc = "swap" /\ UNCHANGED <<parents, made, stored, clone>>
    BY DEF SwapEntry, At
  <1> DEFINE e == parents[c].first
  <1>3. c \in 1 .. made /\ e \in CommitOrNone /\ RootOrParent(c, e)
    BY <1>1, SessionTypes, FirstIsExpected DEF IsNext, Sound, SyncInv, TypeOK, Parentage
  <1>4. PICK s \in SessionState : Become(p, s) /\ Sound(s, Home[p])
    BY <1>1, <1>2, Advances
  <1>5. /\ ref' \in {ref, c} /\ (ref' # ref => Swaps(e))
        /\ wire' \in {wire, wire \cup {[commit |-> c, expected |-> e]}}
        /\ NoFault \/ FaultAt(p)
    BY <1>1
  <1> HIDE DEF e
  <1>6. SyncInv'
    BY <1>2, <1>3, <1>4, <1>5, SwapStep DEF clone, SyncInv, TypeOK
  <1>7. RefStep
    BY <1>2, <1>3, <1>5, SwapAdvances DEF RefStep
  <1> QED
    BY <1>6, <1>7

LEMMA RemoveDeliveredKeeps ==
    ASSUME SyncInv, NEW p \in Proc, RemoveDelivered(p)
    PROVE  SyncInv' /\ RefStep
  <1> DEFINE s == IF sess[p].own = None THEN Idle
                  ELSE [sess[p] EXCEPT !.pc = "pushOwn", !.delivered = {}]
  <1>1. /\ sess[p].pc = "push" /\ Become(p, s) /\ NoFault
        /\ queue' = [queue EXCEPT ![Home[p]] = @ \ sess[p].delivered]
        /\ UNCHANGED <<parents, made, registry, have, tip>>
    BY DEF RemoveDelivered, At
  <1>2. s \in SessionState /\ s.pc # "diverged"
    BY SessionTypes, IdleSound DEF SessionState, Pc, Idle
  <1>3. Sound(s, Home[p])
    <2>1. CASE sess[p].own = None
      BY <2>1, IdleSound
    <2>2. CASE sess[p].own # None
      BY <2>2, <1>1, SessionTypes DEF Sound, SessionState
    <2> QED
      BY <2>1, <2>2
  <1>4. queue' \in [Repo -> SUBSET Commit] /\ \A r \in Repo : queue'[r] \subseteq have[r]
    BY <1>1 DEF SyncInv, TypeOK
  <1> HIDE DEF s
  <1>5. SyncInv'
    BY <1>1, <1>2, <1>3, <1>4, CloneStep DEF registry, SyncInv, TypeOK, Known
  <1> QED
    BY <1>1, <1>5, QuietRef

-----------------------------------------------------------------------------
(* The commit that is being finalised. *)

(* The queue with the commit back in it. *)
LEMMA KeepQueuedTypes ==
    ASSUME SyncInv, NEW p \in Proc, KeepQueued(p), sess[p].own # None
    PROVE  /\ queue' \in [Repo -> SUBSET Commit] /\ \A r \in Repo : queue'[r] \subseteq have[r]
           /\ Become(p, Idle) /\ Idle \in SessionState /\ Sound(Idle, Home[p])
           /\ Idle.pc # "diverged"
  <1>1. sess[p].own \in have[Home[p]] /\ sess[p].own \in Commit
    BY SessionTypes DEF Sound
  <1>2. queue' = [queue EXCEPT ![Home[p]] = @ \cup {sess[p].own}] /\ Become(p, Idle)
    BY DEF KeepQueued
  <1>3. queue' \in [Repo -> SUBSET Commit] /\ \A r \in Repo : queue'[r] \subseteq have[r]
    BY <1>1, <1>2 DEF SyncInv, TypeOK
  <1>4. Idle.pc # "diverged"
    BY DEF Idle
  <1> QED
    BY <1>2, <1>3, <1>4, IdleSound

LEMMA PushOwnKeeps ==
    ASSUME SyncInv, NEW p \in Proc, PushOwn(p)
    PROVE  SyncInv' /\ RefStep
  <1> DEFINE c == sess[p].own
             s == [sess[p] EXCEPT !.pc = "swapOwn"]
  <1>1. sess[p].pc = "pushOwn" /\ UNCHANGED <<parents, made, ref, wire, have, tip>>
    BY DEF PushOwn, At
  <1>2. c # None /\ c \in 1 .. made
    BY <1>1, SessionTypes DEF Sound
  <1>3. CASE stored' = stored \cup {c} /\ queue' = queue /\ Become(p, s) /\ NoFault
    <2>1. s \in SessionState /\ s.pc = "swapOwn"
      BY SessionTypes DEF SessionState, Pc
    <2>2. Sound(s, Home[p])
      BY <1>1, SessionTypes DEF Sound, SessionState
    <2>3. stored \subseteq stored' /\ stored' \subseteq 1 .. made
      BY <1>2, <1>3 DEF SyncInv, Known
    <2> HIDE DEF s
    <2>4. SyncInv'
      BY <1>1, <1>3, <2>1, <2>2, <2>3, CloneStep DEF SyncInv, TypeOK
    <2> QED
      BY <1>1, <2>4 DEF RefStep
  <1>4. CASE stored' \in {stored, stored \cup {c}} /\ KeepQueued(p) /\ FaultAt(p)
    <2>1. stored \subseteq stored' /\ stored' \subseteq 1 .. made
      BY <1>2, <1>4 DEF SyncInv, Known
    <2>2. tip' \in [Repo -> CommitOrNone] /\ \A q \in Repo : tip[q] # None => tip'[q] # None
      BY <1>1 DEF SyncInv, TypeOK
    <2> HIDE DEF c
    <2>3. SyncInv'
      BY <1>1, <1>2, <1>4, <2>1, <2>2, KeepQueuedTypes, CloneStep DEF c
    <2> QED
      BY <1>1, <2>3 DEF RefStep
  <1> QED
    BY <1>3, <1>4 DEF PushOwn

LEMMA SwapOwnKeeps ==
    ASSUME SyncInv, NEW p \in Proc, SwapOwn(p)
    PROVE  SyncInv' /\ RefStep
  <1> DEFINE c == sess[p].own
             e == sess[p].expected
             s == [sess[p] EXCEPT !.pc = IF IsMerge(c) THEN "load" ELSE "dropOwn"]
  <1>1. sess[p].pc = "swapOwn" /\ UNCHANGED <<parents, made, stored, have, tip>>
    BY DEF SwapOwn, At
  <1>2. c # None /\ c \in 1 .. made /\ e \in CommitOrNone /\ RootOrParent(c, e)
    BY <1>1, SessionTypes DEF Sound, SessionState
  <1>3. CASE /\ Swaps(e) /\ ref' = c /\ wire' = wire /\ queue' = queue
             /\ Become(p, s) /\ NoFault
    <2>1. s \in SessionState
      BY SessionTypes DEF SessionState, Pc
    <2>2. Sound(s, Home[p])
      BY <1>1, SessionTypes DEF Sound, SessionState
    <2> HIDE DEF s, c, e
    <2>3. SyncInv'
      BY <1>1, <1>2, <1>3, <2>1, <2>2, SwapStep DEF SyncInv, TypeOK
    <2> QED
      BY <1>1, <1>2, <1>3, <2>3, SwapAdvances
  <1>4. CASE ~Swaps(e) /\ KeepQueued(p) /\ UNCHANGED <<ref, wire>> /\ NoFault
    <2>1. SyncInv'
      BY <1>1, <1>2, <1>4, KeepQueuedTypes, SwapStep
    <2> QED
      BY <1>4, <2>1 DEF RefStep
  <1>5. CASE /\ wire' = wire \cup {[commit |-> c, expected |-> e]}
             /\ KeepQueued(p) /\ ref' = ref /\ FaultAt(p)
    <2>1. SyncInv'
      BY <1>1, <1>2, <1>5, KeepQueuedTypes, SwapStep
    <2> QED
      BY <1>5, <2>1 DEF RefStep
  <1> QED
    BY <1>3, <1>4, <1>5 DEF SwapOwn

LEMMA LoadQueueKeeps ==
    ASSUME SyncInv, NEW p \in Proc, LoadQueue(p)
    PROVE  SyncInv' /\ RefStep
  <1> DEFINE q == queue[Home[p]]
             s == IF q \cap ParentsOf(parents[sess[p].own]) = {}
                  THEN [sess[p] EXCEPT !.pc = "dropOwn"]
                  ELSE [sess[p] EXCEPT !.pc = "save", !.read = q]
  <1>1. /\ sess[p].pc = "load" /\ Become(p, s) /\ UNCHANGED <<parents, made, registry, clone>>
        /\ NoFault
    BY DEF LoadQueue, At
  <1>2. s \in SessionState
    BY SessionTypes DEF SessionState, Pc
  <1>3. Sound(s, Home[p])
    BY <1>1, SessionTypes DEF Sound, SessionState
  <1> QED
    BY <1>1, <1>2, <1>3, QuietStep, QuietRef

LEMMA SaveQueueKeeps ==
    ASSUME SyncInv, NEW p \in Proc, SaveQueue(p)
    PROVE  SyncInv' /\ RefStep
  <1> DEFINE left == sess[p].read \ ParentsOf(parents[sess[p].own])
             s == [sess[p] EXCEPT !.pc = "dropOwn", !.read = {}]
  <1>1. /\ sess[p].pc = "save" /\ Become(p, s) /\ NoFault
        /\ queue' = [queue EXCEPT ![Home[p]] = left]
        /\ UNCHANGED <<parents, made, registry, have, tip>>
    BY DEF SaveQueue, At
  <1>2. s \in SessionState /\ s.pc = "dropOwn"
    BY SessionTypes DEF SessionState, Pc
  <1>3. Sound(s, Home[p])
    BY <1>1, SessionTypes DEF Sound, SessionState
  <1>4. left \subseteq have[Home[p]] /\ left \subseteq Commit
    BY SessionTypes DEF Sound
  <1>5. queue' \in [Repo -> SUBSET Commit] /\ \A r \in Repo : queue'[r] \subseteq have[r]
    BY <1>1, <1>4 DEF SyncInv, TypeOK
  <1> HIDE DEF s
  <1>6. SyncInv'
    BY <1>1, <1>2, <1>3, <1>5, CloneStep DEF registry, SyncInv, TypeOK, Known
  <1> QED
    BY <1>1, <1>6, QuietRef

LEMMA DropOwnKeeps ==
    ASSUME SyncInv, NEW p \in Proc, DropOwn(p)
    PROVE  SyncInv' /\ RefStep
  <1>1. /\ Become(p, Idle) /\ NoFault
        /\ queue' = [queue EXCEPT ![Home[p]] = @ \ {sess[p].own}]
        /\ UNCHANGED <<parents, made, registry, have, tip>>
    BY DEF DropOwn
  <1>2. queue' \in [Repo -> SUBSET Commit] /\ \A r \in Repo : queue'[r] \subseteq have[r]
    BY <1>1 DEF SyncInv, TypeOK
  <1>3. Idle.pc # "diverged"
    BY DEF Idle
  <1>4. SyncInv'
    BY <1>1, <1>2, <1>3, IdleSound, CloneStep DEF registry, SyncInv, TypeOK, Known
  <1> QED
    BY <1>1, <1>4, QuietRef

-----------------------------------------------------------------------------
(* Pulls. *)

(* What is stored on the registry may be added to the files of a clone. *)
LEMMA FilesGrow ==
    ASSUME SyncInv, NEW r \in Repo, NEW new, new \subseteq stored,
           have' = [have EXCEPT ![r] = @ \cup new],
           UNCHANGED <<parents, made, registry, tip, queue>>
    PROVE  Grows /\ CoreInv'
  <1>1. UNCHANGED <<stored, ref, wire>>
    BY DEF registry
  <1>2. /\ have' \in [Repo -> SUBSET Commit]
        /\ \A q \in Repo : have[q] \subseteq have'[q] /\ have'[q] \subseteq 1 .. made
    BY DEF SyncInv, TypeOK, Known
  <1>3. Grows
    BY <1>2 DEF Grows, SyncInv, TypeOK, CommitOrNone
  <1>4. \A q \in Repo : queue'[q] \subseteq have'[q]
    BY <1>2 DEF SyncInv, TypeOK
  <1>5. WellFormed' /\ Known' /\ Requests'
    BY <1>1, <1>2 DEF SyncInv, WellFormed, Known, Requests, RootOrParent
  <1>6. CoreInv'
    BY <1>1, <1>2, <1>4, <1>5 DEF CoreInv, SyncInv, TypeOK
  <1> QED
    BY <1>3, <1>6

LEMMA PullFetchKeeps ==
    ASSUME SyncInv, NEW p \in Proc, PullFetch(p)
    PROVE  SyncInv' /\ RefStep
  <1> DEFINE r == Home[p]
             new == Fetched(parents, have[r], tip[r], ref)
             pc == IF CanForward(p, have'[r]) THEN "forward" ELSE "diverged"
             s == [Idle EXCEPT !.pc = pc, !.theirs = ref]
  <1>1. /\ ref \notin {None, tip[r]} /\ new \subseteq stored /\ Become(p, s) /\ NoFault
        /\ have' = [have EXCEPT ![r] = @ \cup new]
        /\ UNCHANGED <<parents, made, registry, tip, queue>>
    BY DEF PullFetch
  <1>2. pc = "diverged" => tip[r] # None
    BY DEF CanForward
  <1>3. pc \in {"forward", "diverged"} /\ ref \in CommitOrNone
    BY DEF SyncInv, TypeOK
  <1> HIDE DEF new, pc
  <1>4. Grows /\ CoreInv'
    BY <1>1, FilesGrow, SyncAssumption
  <1>5. s \in SessionState
    BY <1>3, CommitTypes DEF SessionState, Pc, Idle
  <1>6. sess'[p] = s => Sound(sess[p], Home[p])'
    BY <1>1, <1>2, <1>3 DEF Sound, Idle
  <1>7. faults' \in 0 .. MaxFaults
    BY <1>1, FaultTypes DEF SyncInv
  <1>8. SyncInv'
    BY <1>1, <1>4, <1>5, <1>6, <1>7, SessionStep
  <1> QED
    BY <1>1, <1>8, QuietRef

LEMMA PullKilledKeeps ==
    ASSUME SyncInv, NEW p \in Proc, PullKilled(p)
    PROVE  SyncInv' /\ RefStep
  <1> DEFINE r == Home[p]
             fetched == Fetched(parents, have[r], tip[r], ref)
  <1>1. /\ fetched \subseteq stored /\ Fault("pull")
        /\ UNCHANGED <<parents, made, registry, tip, queue, sess>>
    BY DEF PullKilled
  <1>2. PICK c \in fetched : have' = [have EXCEPT ![r] = @ \cup {d \in fetched : d >= c}]
    BY DEF PullKilled
  <1> DEFINE new == {d \in fetched : d >= c}
  <1>3. new \subseteq stored
    BY <1>1
  <1> HIDE DEF fetched, new
  <1>4. Grows /\ CoreInv'
    BY <1>1, <1>2, <1>3, FilesGrow, SyncAssumption DEF new
  <1>5. faults' \in 0 .. MaxFaults
    BY <1>1, FaultTypes DEF SyncInv
  <1>6. Sessions'
    BY <1>1, <1>4, StillSound DEF Sessions
  <1>7. SyncInv'
    BY <1>1, <1>4, <1>5, <1>6 DEF SyncInv, CoreInv, TypeOK
  <1> QED
    BY <1>1, <1>7, QuietRef

LEMMA FastForwardKeeps ==
    ASSUME SyncInv, NEW p \in Proc, FastForward(p)
    PROVE  SyncInv' /\ RefStep
  <1>1. /\ sess[p].pc = "forward" /\ Become(p, Idle) /\ NoFault
        /\ tip' = [tip EXCEPT ![Home[p]] = sess[p].theirs]
        /\ UNCHANGED <<parents, made, registry, have, queue>>
    BY DEF FastForward, At
  <1>2. sess[p].theirs # None /\ sess[p].theirs \in CommitOrNone
    BY <1>1, SessionTypes DEF Sound, SessionState
  <1>3. tip' \in [Repo -> CommitOrNone] /\ \A r \in Repo : tip[r] # None => tip'[r] # None
    BY <1>1, <1>2 DEF SyncInv, TypeOK
  <1>4. Idle.pc # "diverged"
    BY DEF Idle
  <1>5. SyncInv'
    BY <1>1, <1>3, <1>4, IdleSound, CloneStep DEF registry, SyncInv, TypeOK, Known
  <1> QED
    BY <1>1, <1>5, QuietRef

LEMMA StartMergeKeeps ==
    ASSUME SyncInv, NEW p \in Proc, StartMerge(p)
    PROVE  SyncInv' /\ RefStep
  <1> DEFINE r == Home[p]
             base == MergeBase(parents, have[r], tip[r], sess[p].theirs)
             next == [sess[p] EXCEPT !.pc = IF base = tip[r] THEN "forward" ELSE "merge",
                                     !.ours = tip[r]]
             s == IF sess[p].theirs = tip[r] \/ base = sess[p].theirs THEN Idle ELSE next
  <1>1. /\ sess[p].pc = "diverged" /\ Become(p, s)
        /\ UNCHANGED <<parents, made, registry, clone>> /\ NoFault
    BY DEF StartMerge, At
  <1> HIDE DEF base
  <1>2. tip[r] \in CommitOrNone /\ tip[r] # None /\ sess[p].theirs # None
    BY <1>1, SessionTypes DEF SyncInv, TypeOK, Sound
  <1>3. next \in SessionState
    BY <1>2, SessionTypes DEF SessionState, Pc
  <1>4. Sound(next, r)
    BY <1>1, <1>2, SessionTypes DEF Sound, SessionState
  <1> HIDE DEF next
  <1>5. s \in SessionState /\ Sound(s, r)
    BY <1>3, <1>4, IdleSound
  <1> QED
    BY <1>1, <1>5, QuietStep, QuietRef

-----------------------------------------------------------------------------
(* All steps. *)

LEMMA ContinueKeeps ==
    ASSUME SyncInv, NEW p \in Proc, Continue(p)
    PROVE  SyncInv' /\ RefStep
  BY ExpectParentKeeps, FlushFirstKeeps, PushEntryKeeps, SwapEntryKeeps, RemoveDeliveredKeeps,
     PushOwnKeeps, SwapOwnKeeps, LoadQueueKeeps, SaveQueueKeeps, DropOwnKeeps,
     FastForwardKeeps, StartMergeKeeps, MergeCommitKeeps DEF Continue

LEMMA StutterKeeps ==
    ASSUME SyncInv, UNCHANGED vars
    PROVE  SyncInv' /\ RefStep
  <1>1. CoreInv' /\ Grows
    BY DEF vars, registry, clone, CoreInv, Grows, SyncInv, TypeOK, CommitOrNone, WellFormed,
           Known, Requests, RootOrParent
  <1>2. Sessions'
    BY <1>1, StillSound DEF vars, Sessions
  <1>3. SyncInv'
    BY <1>1, <1>2 DEF vars, SyncInv, CoreInv, TypeOK
  <1> QED
    BY <1>3, QuietRef DEF vars

LEMMA StepKeeps ==
    ASSUME SyncInv, [Next]_vars
    PROVE  SyncInv' /\ RefStep
  <1>1. ASSUME NEW p \in Proc,
               \/ CommitStaged(p) \/ CommitKilled(p) \/ StartPush(p) \/ PullFetch(p)
               \/ PullKilled(p) \/ Continue(p) \/ RejectToken(p) \/ Kill(p)
        PROVE  SyncInv' /\ RefStep
    BY <1>1, CommitStagedKeeps, CommitKilledKeeps, StartPushKeeps, PullFetchKeeps,
       PullKilledKeeps, ContinueKeeps, RejectTokenKeeps, KillKeeps
  <1> QED
    BY <1>1, LateSwapKeeps, StutterKeeps DEF Next

LEMMA SyncInvariant == Spec => []SyncInv
  <1>1. SyncInv /\ [Next]_vars => SyncInv'
    BY StepKeeps
  <1> QED
    BY <1>1, InitSound, PTL DEF Spec

(* Whatever fails, and whoever else works on the branch, every variable stays *)
(* in its domain and no clone's queue names a commit whose file it lacks     *)
(* (_finalize_commit writes the file first, under RepoLock).                 *)
THEOREM TypeCorrect == Spec => []TypeOK
  <1>1. SyncInv => TypeOK
    BY DEF SyncInv
  <1> QED
    BY <1>1, SyncInvariant, PTL

(* update_ref never takes the registry's branch off its history, except for  *)
(* a commit without parents: retries, late requests, flushes and merges of   *)
(* any number of clones only ever send a parent as the expected hash.        *)
THEOREM RefNeverRewinds == Spec => RefAdvances
  <1>1. SyncInv /\ [Next]_vars => [RefStep]_vars
    BY StepKeeps
  <1>2. RefStep <=> (ref' # ref => \/ ref = None
                                  \/ parents'[ref'] = NoParents
                                  \/ ref \in ParentsOf(parents'[ref']))
    BY DEF RefStep
  <1> QED
    BY <1>1, <1>2, SyncInvariant, PTL DEF Spec, RefAdvances

-----------------------------------------------------------------------------
(* The walk over the commit graph. *)

(* One round of the walk, and the sets of commits met after 0 .. n rounds. *)
Round(ps, fs, S) == S \cup UNION {ParentsOf(ps[c]) : c \in S \cap fs}

IsWalk(f, n, ps, fs, h) ==
    f = [k \in 0 .. n |-> IF k = 0 THEN {h} \ {None} ELSE Round(ps, fs, f[k - 1])]

Walk(ps, fs, h) == CHOOSE f : IsWalk(f, MaxCommits, ps, fs, h)

LEMMA ReachIsWalk ==
    ASSUME NEW ps, NEW fs, NEW h
    PROVE  Reach(ps, fs, h) = Walk(ps, fs, h)[MaxCommits]
  BY DEF Reach, Walk, IsWalk, Round

LEMMA WalkExists ==
    ASSUME NEW ps, NEW fs, NEW h, NEW n \in Nat
    PROVE  \E f : IsWalk(f, n, ps, fs, h)
  <1> DEFINE bad == {m \in Nat : ~ \E f : IsWalk(f, m, ps, fs, h)}
  <1> SUFFICES ASSUME bad # {} PROVE FALSE
    OBVIOUS
  <1>1. PICK m \in bad : \A k \in bad : m <= k
    BY LeastNat
  <1>2. m # 0
    <2> DEFINE f == [k \in 0 .. 0 |-> {h} \ {None}]
    <2>1. IsWalk(f, 0, ps, fs, h)
      BY DEF IsWalk
    <2> QED
      BY <1>1, <2>1
  <1>3. m \in Nat /\ m - 1 \in Nat /\ m - 1 \notin bad
    BY <1>1, <1>2
  <1>4. PICK g : IsWalk(g, m - 1, ps, fs, h)
    BY <1>3
  <1> DEFINE f == [k \in 0 .. m |-> IF k = m THEN Round(ps, fs, g[m - 1]) ELSE g[k]]
  <1>5. \A k \in 0 .. m - 1 : f[k] = g[k]
    BY <1>3
  <1>6. ASSUME NEW k \in 0 .. m
        PROVE  f[k] = IF k = 0 THEN {h} \ {None} ELSE Round(ps, fs, f[k - 1])
    <2>1. CASE k = m
      BY <1>2, <1>3, <1>5, <2>1
    <2>2. CASE k # m
      <3>1. k \in 0 .. m - 1 /\ (k # 0 => k - 1 \in 0 .. m - 1)
        BY <1>3, <2>2
      <3>2. g[k] = IF k = 0 THEN {h} \ {None} ELSE Round(ps, fs, g[k - 1])
        BY <1>4, <3>1, Zenon DEF IsWalk
      <3> QED
        BY <1>5, <3>1, <3>2
    <2> QED
      BY <2>1, <2>2
  <1>7. f = [k \in 0 .. m |-> f[k]]
    OBVIOUS
  <1> HIDE DEF f
  <1>8. IsWalk(f, m, ps, fs, h)
    BY <1>6, <1>7 DEF IsWalk
  <1> QED
    BY <1>1, <1>8

LEMMA WalkRounds ==
    ASSUME NEW ps, NEW fs, NEW h
    PROVE  /\ Walk(ps, fs, h)[0] = {h} \ {None}
           /\ \A k \in 1 .. MaxCommits :
                 Walk(ps, fs, h)[k] = Round(ps, fs, Walk(ps, fs, h)[k - 1])
  <1>1. MaxCommits \in Nat
    BY CommitAssumption
  <1>2. IsWalk(Walk(ps, fs, h), MaxCommits, ps, fs, h)
    <2>1. \E f : IsWalk(f, MaxCommits, ps, fs, h)
      BY <1>1, WalkExists
    <2> QED
      BY <2>1, Zenon DEF Walk
  <1> DEFINE w == Walk(ps, fs, h)
  <1>3. w = [k \in 0 .. MaxCommits |-> IF k = 0 THEN {h} \ {None} ELSE Round(ps, fs, w[k - 1])]
    BY <1>2, Zenon DEF IsWalk
  <1> HIDE DEF w
  <1>4. w[0] = {h} \ {None} /\ \A k \in 1 .. MaxCommits : w[k] = Round(ps, fs, w[k - 1])
    <2>1. 0 \in 0 .. MaxCommits /\ \A k \in 1 .. MaxCommits : k \in 0 .. MaxCommits /\ k # 0
      BY <1>1
    <2>2. \A k \in 0 .. MaxCommits :
             w[k] = IF k = 0 THEN {h} \ {None} ELSE Round(ps, fs, w[k - 1])
      BY <1>3, Zenon
    <2> QED
      BY <2>1, <2>2
  <1> QED
    BY <1>4 DEF w
(* The parents of a commit are older than it. *)
WalkTypes(ps, fs, h) ==
    /\ ps \in [Commit -> Parentage] /\ Descending(ps)
    /\ fs \subseteq Commit /\ h \in CommitOrNone

(* After k rounds, a commit whose parents are missing is k below the start:  *)
(* MaxCommits rounds are enough.                                             *)
WalkLayer(ps, fs, h, k, S) ==
    /\ S \subseteq Commit /\ (h # None => h \in S)
    /\ \A c \in S : c <= h
    /\ \A c \in S \cap fs : ParentsOf(ps[c]) \subseteq S \/ c <= h - k

LEMMA ParentsAreCommits ==
    ASSUME NEW ps \in [Commit -> Parentage], Descending(ps), NEW c \in Commit
    PROVE  /\ ParentsOf(ps[c]) \subseteq Commit
           /\ \A d \in ParentsOf(ps[c]) : d < c
  BY CommitTypes DEF Descending, ParentsOf, Parentage

LEMMA RoundLayer ==
    ASSUME NEW ps, NEW fs, NEW h, WalkTypes(ps, fs, h), NEW k \in Nat, NEW S,
           WalkLayer(ps, fs, h, k, S)
    PROVE  WalkLayer(ps, fs, h, k + 1, Round(ps, fs, S))
  <1> DEFINE T == Round(ps, fs, S)
  <1>0. h \in Int /\ Commit \subseteq Int
    BY CommitAssumption DEF WalkTypes, CommitOrNone, Commit
  <1>1. ASSUME NEW d \in T, d \notin S
        PROVE  \E c \in S \cap fs : d \in ParentsOf(ps[c])
    BY <1>1 DEF Round
  <1>2. \A c \in S \cap fs : ParentsOf(ps[c]) \subseteq T
    BY DEF Round
  <1>3. S \subseteq T
    BY DEF Round
  <1> HIDE DEF T
  <1>4. ASSUME NEW d \in T, d \notin S
        PROVE  d \in Commit /\ d <= h - (k + 1) /\ d <= h
    <2>1. PICK c \in S \cap fs : d \in ParentsOf(ps[c])
      BY <1>1, <1>4
    <2>2. c \in Commit /\ c <= h /\ c <= h - k
      BY <1>4, <2>1 DEF WalkLayer
    <2>3. d \in Commit /\ d < c
      BY <2>1, <2>2, ParentsAreCommits DEF WalkTypes
    <2> QED
      BY <1>0, <2>2, <2>3
  <1>5. T \subseteq Commit /\ (h # None => h \in T) /\ \A c \in T : c <= h
    BY <1>3, <1>4 DEF WalkLayer
  <1>6. \A c \in T \cap fs : ParentsOf(ps[c]) \subseteq T \/ c <= h - (k + 1)
    BY <1>2, <1>4
  <1> QED
    BY <1>5, <1>6 DEF WalkLayer, T

LEMMA WalkLayers ==
    ASSUME NEW ps, NEW fs, NEW h, WalkTypes(ps, fs, h), NEW n \in 0 .. MaxCommits
    PROVE  WalkLayer(ps, fs, h, n, Walk(ps, fs, h)[n])
  <1> DEFINE w == Walk(ps, fs, h)
             bad == {k \in 0 .. MaxCommits : ~ WalkLayer(ps, fs, h, k, w[k])}
  <1> SUFFICES ASSUME bad # {} PROVE FALSE
    OBVIOUS
  <1>1. MaxCommits \in Nat /\ bad \subseteq Nat
    BY CommitAssumption
  <1>2. PICK k \in bad : \A j \in bad : k <= j
    BY <1>1, LeastNat
  <1>3. w[0] = {h} \ {None} /\ \A j \in 1 .. MaxCommits : w[j] = Round(ps, fs, w[j - 1])
    BY WalkRounds
  <1> HIDE DEF w
  <1>4. WalkLayer(ps, fs, h, 0, w[0])
    BY <1>3, CommitTypes, CommitAssumption DEF WalkLayer, WalkTypes, CommitOrNone
  <1>5. k \in 1 .. MaxCommits /\ k - 1 \in Nat /\ k - 1 \in 0 .. MaxCommits /\ (k - 1) + 1 = k
    BY <1>1, <1>2, <1>4
  <1>6. WalkLayer(ps, fs, h, k - 1, w[k - 1])
    BY <1>1, <1>2, <1>5
  <1>7. WalkLayer(ps, fs, h, k, w[k])
    BY <1>3, <1>5, <1>6, RoundLayer
  <1> QED
    BY <1>2, <1>7

LEMMA ReachCloses ==
    ASSUME NEW ps, NEW fs, NEW h, WalkTypes(ps, fs, h)
    PROVE  /\ Reach(ps, fs, h) \subseteq Commit /\ (h # None => h \in Reach(ps, fs, h))
           /\ \A c \in Reach(ps, fs, h) : c <= h
           /\ \A c \in Reach(ps, fs, h) \cap fs : ParentsOf(ps[c]) \subseteq Reach(ps, fs, h)
  <1> DEFINE R == Reach(ps, fs, h)
  <1>1. MaxCommits \in Nat /\ MaxCommits \in 0 .. MaxCommits /\ h \in 0 .. MaxCommits
    BY CommitAssumption DEF WalkTypes, CommitOrNone
  <1>2. WalkLayer(ps, fs, h, MaxCommits, R)
    BY <1>1, WalkLayers, ReachIsWalk
  <1> HIDE DEF R
  <1>3. \A c \in R : c \in 1 .. MaxCommits
    BY <1>2 DEF WalkLayer, Commit
  <1>4. \A c \in R \cap fs : ~ (c <= h - MaxCommits)
    BY <1>1, <1>3
  <1> QED
    BY <1>2, <1>4 DEF WalkLayer, R

(* What contains the start and follows the parents contains the whole walk.  *)
LEMMA ReachIsLeast ==
    ASSUME NEW ps, NEW fs, NEW h, NEW S, h # None => h \in S,
           \A c \in S \cap fs : ParentsOf(ps[c]) \subseteq S
    PROVE  Reach(ps, fs, h) \subseteq S
  <1> DEFINE w == Walk(ps, fs, h)
             bad == {k \in 0 .. MaxCommits : ~ (w[k] \subseteq S)}
  <1>1. MaxCommits \in Nat /\ bad \subseteq Nat
    BY CommitAssumption
  <1>2. Reach(ps, fs, h) = w[MaxCommits]
    BY ReachIsWalk
  <1>3. w[0] = {h} \ {None} /\ \A j \in 1 .. MaxCommits : w[j] = Round(ps, fs, w[j - 1])
    BY WalkRounds
  <1> HIDE DEF w
  <1>4. ASSUME bad # {} PROVE FALSE
    <2>1. PICK k \in bad : \A j \in bad : k <= j
      BY <1>1, <1>4, LeastNat
    <2>2. w[0] \subseteq S
      BY <1>3
    <2>3. k \in 1 .. MaxCommits /\ k - 1 \in 0 .. MaxCommits
      BY <1>1, <2>1, <2>2
    <2>4. w[k - 1] \subseteq S
      BY <1>1, <2>1, <2>3
    <2>5. w[k] \subseteq S
      BY <1>3, <2>3, <2>4 DEF Round
    <2> QED
      BY <2>1, <2>5
  <1>5. MaxCommits \in 0 .. MaxCommits
    BY <1>1
  <1> QED
    BY <1>2, <1>4, <1>5

-----------------------------------------------------------------------------
(* Histories: the walk that finds every file. *)

Graph(ps) == ps \in [Commit -> Parentage] /\ Descending(ps)

LEMMA HistoryCloses ==
    ASSUME NEW ps, Graph(ps), NEW h \in CommitOrNone
    PROVE  /\ Reach(ps, Commit, h) \subseteq Commit /\ (h # None => h \in Reach(ps, Commit, h))
           /\ \A c \in Reach(ps, Commit, h) : c <= h
           /\ \A c \in Reach(ps, Commit, h) : ParentsOf(ps[c]) \subseteq Reach(ps, Commit, h)
  <1>1. WalkTypes(ps, Commit, h)
    BY DEF WalkTypes, Graph
  <1> QED
    BY <1>1, ReachCloses

LEMMA HistoryOfNone ==
    ASSUME NEW ps
    PROVE  Reach(ps, Commit, None) = {}
  <1> DEFINE S == {}
  <1>1. (None # None => None \in S) /\ \A c \in S \cap Commit : ParentsOf(ps[c]) \subseteq S
    OBVIOUS
  <1> HIDE DEF S
  <1>2. Reach(ps, Commit, None) \subseteq S
    BY <1>1, ReachIsLeast
  <1> QED
    BY <1>2 DEF S

(* A commit is in a history with all of its own. *)
LEMMA HistoryNests ==
    ASSUME NEW ps, Graph(ps), NEW h \in CommitOrNone, NEW d \in CommitOrNone,
           d # None => d \in Reach(ps, Commit, h)
    PROVE  Reach(ps, Commit, d) \subseteq Reach(ps, Commit, h)
  BY HistoryCloses, ReachIsLeast

LEMMA HistorySplits ==
    ASSUME NEW ps, Graph(ps), NEW c \in Commit
    PROVE  Reach(ps, Commit, c) = {c} \cup Reach(ps, Commit, ps[c].first)
                                      \cup Reach(ps, Commit, ps[c].second)
  <1> DEFINE f == ps[c].first
             s == ps[c].second
             S == {c} \cup Reach(ps, Commit, f) \cup Reach(ps, Commit, s)
  <1>1. /\ f \in CommitOrNone /\ s \in CommitOrNone /\ c \in CommitOrNone /\ c # None
        /\ ParentsOf(ps[c]) = {f, s} \ {None}
    BY CommitTypes DEF Graph, Parentage, ParentsOf
  <1> HIDE DEF f, s
  <1>2. c \in Reach(ps, Commit, c) /\ ParentsOf(ps[c]) \subseteq Reach(ps, Commit, c)
    BY <1>1, HistoryCloses
  <1>3. Reach(ps, Commit, f) \subseteq Reach(ps, Commit, c)
    BY <1>1, <1>2, HistoryNests
  <1>4. Reach(ps, Commit, s) \subseteq Reach(ps, Commit, c)
    BY <1>1, <1>2, HistoryNests
  <1>5. \A d \in S \cap Commit : ParentsOf(ps[d]) \subseteq S
    BY <1>1, HistoryCloses
  <1>6. c \in S
    OBVIOUS
  <1> HIDE DEF S
  <1>7. Reach(ps, Commit, c) \subseteq S
    BY <1>5, <1>6, ReachIsLeast
  <1> QED
    BY <1>2, <1>3, <1>4, <1>7 DEF f, s, S

(* A walk that misses files misses commits. *)
LEMMA HistoryHoldsWalk ==
    ASSUME NEW ps, Graph(ps), NEW fs \in SUBSET Commit, NEW h \in CommitOrNone
    PROVE  Reach(ps, fs, h) \subseteq Reach(ps, Commit, h)
  BY HistoryCloses, ReachIsLeast

(* A commit that is made later changes no history. *)
LEMMA HistoryStays ==
    ASSUME NEW ps, Graph(ps), NEW qs, Graph(qs), NEW n \in CommitOrNone,
           \A c \in 1 .. n : qs[c] = ps[c], NEW h \in 0 .. n
    PROVE  Reach(qs, Commit, h) = Reach(ps, Commit, h)
  <1>1. h \in CommitOrNone /\ h \in Int /\ n \in Int
    BY CommitAssumption DEF CommitOrNone
  <1>2. ASSUME NEW r, Graph(r), NEW c \in Reach(r, Commit, h) PROVE c \in 1 .. n
    BY <1>1, <1>2, HistoryCloses DEF Commit
  <1>3. Reach(qs, Commit, h) \subseteq Reach(ps, Commit, h)
    BY <1>1, <1>2, HistoryCloses, ReachIsLeast
  <1>4. Reach(ps, Commit, h) \subseteq Reach(qs, Commit, h)
    BY <1>1, <1>2, HistoryCloses, ReachIsLeast
  <1> QED
    BY <1>3, <1>4

-----------------------------------------------------------------------------
(* Delivery: the commits of a branch reach the registry. *)

(* Merges that no fault strikes, and one process at a time in a clone: the   *)
(* rewrite of the queue after a merge is made for nothing else.              *)
Calm ==
    /\ Start = "founded" /\ "merge" \notin Faulty
    /\ \A p, q \in Proc : Home[p] = Home[q] => p = q

LEMMA CalmFault ==
    ASSUME Calm, NEW p \in Proc, FaultAt(p), sess[p].pc # "forward"
    PROVE  ~IsMerge(sess[p].own)
  <1> SUFFICES ASSUME IsMerge(sess[p].own) PROVE FALSE
    OBVIOUS
  <1> DEFINE what == CASE IsMerge(sess[p].own) \/ sess[p].pc \in {"diverged", "merge"} -> "merge"
                       [] sess[p].pc = "forward" -> "pull"
                       [] OTHER -> "push"
  <1>1. what \in Faulty
    BY Zenon DEF FaultAt, Fault
  <1>2. what = "merge"
    OBVIOUS
  <1> QED
    BY <1>1, <1>2 DEF Calm

LEMMA DeliveryTypes ==
    ASSUME SyncInv, DeliveryInv
    PROVE  /\ Graph(parents) /\ made \in CommitOrNone /\ made \in Nat /\ 1 .. made \subseteq Commit
           /\ ref \in Commit /\ ref # None /\ ref \in 1 .. made
           /\ \A r \in Repo : queue[r] \subseteq 1 .. made /\ have[r] \subseteq 1 .. made
                              /\ tip[r] \in 1 .. made /\ queue[r] \subseteq Commit
                              /\ have[r] \subseteq Commit
           /\ \A c \in 1 .. made : /\ parents[c].first \in 0 .. made
                                   /\ parents[c].second \in 0 .. made
                                   /\ parents[c].first < c /\ parents[c].second < c
  <1>1. made \in CommitOrNone /\ made \in Nat /\ 1 .. made \subseteq Commit
    BY CommitAssumption DEF SyncInv, TypeOK, CommitOrNone, Commit
  <1>2. Graph(parents)
    BY DEF Graph, SyncInv, TypeOK, DeliveryInv
  <1>3. ref \in 1 .. made /\ ref \in Commit /\ ref # None
    BY <1>1, CommitTypes DEF DeliveryInv
  <1>4. ASSUME NEW r \in Repo
        PROVE  queue[r] \subseteq 1 .. made /\ have[r] \subseteq 1 .. made /\ tip[r] \in 1 .. made
               /\ queue[r] \subseteq Commit /\ have[r] \subseteq Commit
    BY <1>1 DEF SyncInv, TypeOK, Known, DeliveryInv, BranchDelivers
  <1>5. ASSUME NEW c \in 1 .. made, NEW d \in {parents[c].first, parents[c].second}
        PROVE  d \in 0 .. made /\ d < c
    <2>1. c \in Commit /\ c \in Nat /\ d \in CommitOrNone /\ d \in Int
      BY <1>1, <1>5, CommitAssumption DEF SyncInv, TypeOK, Parentage, CommitOrNone
    <2>2. CASE d = None
      BY <1>1, <2>1, <2>2 DEF None
    <2>3. CASE d # None
      <3>1. d \in ParentsOf(parents[c])
        BY <1>5, <2>3 DEF ParentsOf
      <3>2. d < c
        BY <2>1, <3>1 DEF DeliveryInv, Descending
      <3> QED
        BY <1>1, <2>1, <3>2 DEF CommitOrNone
    <2> QED
      BY <2>2, <2>3
  <1> QED
    BY <1>1, <1>2, <1>3, <1>4, <1>5

(* Parents of commits that were made are fixed. *)
GraphGrows ==
    /\ made <= made' /\ made' \in Nat /\ Graph(parents')
    /\ \A c \in 1 .. made : parents'[c] = parents[c]

LEMMA HistoryPrimed ==
    ASSUME SyncInv, DeliveryInv, GraphGrows, NEW h \in 0 .. made
    PROVE  History(h)' = History(h)
  BY DeliveryTypes, HistoryStays DEF GraphGrows, History

(* Whatever the others do, what a process has established stays. *)
LEMMA OtherDelivers ==
    ASSUME SyncInv, DeliveryInv, GraphGrows, stored \subseteq stored',
           History(ref) \subseteq History(ref)', NEW q \in Proc, sess'[q] = sess[q],
           sess[q].pc = "idle" \/ queue'[Home[q]] = queue[Home[q]]
    PROVE  Delivers(sess[q], Home[q])'
  <1>1. /\ sess[q] \in SessionState /\ Sound(sess[q], Home[q]) /\ Delivers(sess[q], Home[q])
        /\ Home[q] \in Repo
    BY SessionTypes DEF DeliveryInv
  <1>2. PICK s \in SessionState : s = sess[q]
    BY <1>1
  <1>3. /\ s.own # None => s.own \in 1 .. made
        /\ s.ours \in 0 .. made /\ s.theirs \in 0 .. made /\ s.own \in 0 .. made
    BY <1>1, <1>2, DeliveryTypes, CommitAssumption DEF Sound, SessionState, Delivers, CommitOrNone, None
  <1>4. /\ s.own # None => parents'[s.own] = parents[s.own]
        /\ IsMerge(s.own)' <=> IsMerge(s.own)
    BY <1>3 DEF GraphGrows, IsMerge
  <1>5. /\ History(s.ours)' = History(s.ours) /\ History(s.theirs)' = History(s.theirs)
        /\ History(s.own)' = History(s.own)
    BY <1>3, HistoryPrimed
  <1>6. PICK f : f = parents[s.own].first
    OBVIOUS
  <1>7. made <= made' /\ made' \in Nat
    BY DEF GraphGrows
  <1>8. IsMerge(s.own) => s.own # None
    BY DEF IsMerge
  <1>9. s.own # None => parents'[s.own].first = f /\ History(f)' = History(f)
    <2>1. s.own # None => f \in 0 .. made
      BY <1>3, <1>6, DeliveryTypes
    <2> QED
      BY <1>4, <1>6, <2>1, HistoryPrimed
  <1>10. sess'[q] = s /\ (s.pc = "idle" \/ queue'[Home[q]] = queue[Home[q]])
    BY <1>2
  <1>11. Delivers(s, Home[q])
    BY <1>1, <1>2
  <1> DEFINE r == Home[q]
             hr == History(ref)
  <1>12. hr \subseteq History(ref)'
    OBVIOUS
  <1> HIDE DEF hr, r
  <1>13. /\ (s.delivered \subseteq History(ref) /\ 1 \notin s.todo /\ s.own # 1
             /\ s.ours <= made /\ s.theirs <= made)'
    <2>1. s.ours <= made' /\ s.theirs <= made'
      BY <1>3, <1>7, DeliveryTypes
    <2>2. s.delivered \subseteq History(ref) /\ 1 \notin s.todo /\ s.own # 1
      BY <1>11 DEF Delivers
    <2> QED
      BY <1>12, <2>1, <2>2 DEF hr
  <1>14. (/\ s.pc \in {"forward", "diverged", "merge"} => History(s.theirs) \subseteq History(ref)
          /\ s.pc = "merge" => History(s.ours) \ queue[r] \subseteq History(ref)
          /\ s.pc \in {"begin", "flush"} => History(s.own) \ queue[r] \subseteq History(ref))'
    BY <1>5, <1>10, <1>11, <1>12 DEF Delivers, hr, r
  <1>15. (/\ s.pc = "swap" => \A c \in s.todo : (\A d \in s.todo : c <= d) => c \in stored
          /\ s.pc \in {"flush", "push", "swap", "pushOwn", "swapOwn"} /\ s.own # None =>
                \/ s.expected = parents[s.own].first
                \/ IsMerge(s.own) /\ s.expected = parents[s.own].second
          /\ s.pc = "swapOwn" => s.own \in stored
          /\ s.pc \in {"load", "save", "dropOwn"} => s.own \in History(ref)
          /\ s.pc = "save" => s.read = queue[r])'
    BY <1>4, <1>10, <1>11, <1>12 DEF Delivers, hr, r
  <1>16. (/\ s.pc \in {"push", "swap"} /\ IsMerge(s.own) =>
                History(parents[s.own].first) \subseteq stored \cup s.todo
          /\ s.pc \in {"pushOwn", "swapOwn"} /\ IsMerge(s.own) =>
                History(parents[s.own].first) \subseteq stored)'
    BY <1>4, <1>6, <1>8, <1>9, <1>11 DEF Delivers
  <1>17. Delivers(s, r)'
    BY <1>13, <1>14, <1>15, <1>16 DEF Delivers
  <1> QED
    BY <1>10, <1>17 DEF r, Delivers

-----------------------------------------------------------------------------
(* How the steps are put together. *)

LEMMA BranchStep ==
    ASSUME SyncInv, SyncInv', DeliveryInv, Calm, NEW p \in Proc, NEW s, Become(p, s),
           UNCHANGED <<parents, made>>, stored \subseteq stored', ref' \in 1 .. made,
           History(ref) \subseteq History(ref)', History(ref)' \subseteq stored',
           \A r \in Repo : r # Home[p] => tip'[r] = tip[r] /\ queue'[r] = queue[r],
           BranchDelivers(Home[p])',
           \A w \in wire' : w.commit \in stored' \ {1} /\ w.expected = parents[w.commit].first,
           sess'[p] = s => Delivers(sess[p], Home[p])'
    PROVE  DeliveryInv'
  <1>2. GraphGrows
    BY DeliveryTypes DEF GraphGrows
  <1>3. sess' = [sess EXCEPT ![p] = s] /\ sess \in [Proc -> SessionState]
    BY DEF Become, SyncInv, TypeOK
  <1>4. ASSUME NEW q \in Proc PROVE Delivers(sess[q], Home[q])'
    <2>1. CASE q = p
      BY <1>3, <2>1
    <2>2. CASE q # p
      <3>1. sess'[q] = sess[q] /\ queue'[Home[q]] = queue[Home[q]]
        BY <1>3, <2>2, SyncAssumption DEF Calm
      <3> QED
        BY <1>2, <3>1, OtherDelivers
    <2> QED
      BY <2>1, <2>2
  <1>6. ASSUME NEW r \in Repo PROVE BranchDelivers(r)'
    <2>1. CASE r = Home[p]
      BY <2>1
    <2>2. CASE r # Home[p]
      <3>1. BranchDelivers(r) /\ tip'[r] = tip[r] /\ queue'[r] = queue[r]
        BY <2>2 DEF DeliveryInv
      <3>2. History(tip[r])' = History(tip[r])
        BY <3>1 DEF History
      <3> QED
        BY <3>1, <3>2 DEF BranchDelivers
    <2> QED
      BY <2>1, <2>2
  <1>7. Descending(parents') /\ \A c \in 2 .. made' : parents'[c].first # None
    BY DEF DeliveryInv
  <1>8. (\A c \in 1 .. made : History(parents[c].second) \subseteq History(ref))'
    BY DEF DeliveryInv, History
  <1>9. ref' \in 1 .. made' /\ History(ref)' \subseteq stored'
    OBVIOUS
  <1>10. \A w \in wire' : w.commit \in stored' \ {1} /\ w.expected = parents'[w.commit].first
    OBVIOUS
  <1> QED
    BY <1>4, <1>6, <1>7, <1>8, <1>9, <1>10 DEF DeliveryInv

(* A step that leaves the registry and the branch of the clone alone. *)
LEMMA QuietDelivers ==
    ASSUME SyncInv, SyncInv', DeliveryInv, Calm, NEW p \in Proc, NEW s, Become(p, s),
           UNCHANGED <<parents, made, registry, tip, queue>>, Delivers(s, Home[p])
    PROVE  DeliveryInv'
  <1>1. UNCHANGED <<parents, made, stored, ref, wire, tip, queue>>
    BY DEF registry
  <1>2. sess'[p] = s => Delivers(sess[p], Home[p])'
    BY <1>1 DEF Delivers, History, IsMerge
  <1>3. History(ref)' = History(ref) /\ BranchDelivers(Home[p])'
    BY <1>1, SyncAssumption DEF DeliveryInv, BranchDelivers, History
  <1>4. /\ ref' \in 1 .. made /\ History(ref)' \subseteq stored'
        /\ \A w \in wire' : w.commit \in stored' \ {1} /\ w.expected = parents[w.commit].first
    BY <1>1, <1>3 DEF DeliveryInv
  <1> QED
    BY <1>1, <1>2, <1>3, <1>4, BranchStep

LEMMA IdleDelivers ==
    ASSUME made \in Nat, NEW r
    PROVE  Delivers(Idle, r)
  BY DEF Delivers, Idle, IsMerge, None

LEMMA StillDelivers ==
    ASSUME DeliveryInv, UNCHANGED <<parents, made, registry, tip, queue, sess>>
    PROVE  DeliveryInv'
  BY DEF registry, DeliveryInv, BranchDelivers, Delivers, History, IsMerge

LEMMA IdleDeliversNext ==
    ASSUME made' \in Nat, NEW p, sess'[p] = Idle
    PROVE  Delivers(sess[p], Home[p])'
  BY DEF Delivers, Idle, IsMerge, None

-----------------------------------------------------------------------------
(* The steps that move neither a branch nor the registry. *)

LEMMA SessionDelivers ==
    ASSUME SyncInv, DeliveryInv, NEW p \in Proc
    PROVE  /\ sess[p] \in SessionState /\ Sound(sess[p], Home[p]) /\ Delivers(sess[p], Home[p])
           /\ Home[p] \in Repo /\ BranchDelivers(Home[p])
  BY SessionTypes DEF DeliveryInv

LEMMA ExpectParentDelivers ==
    ASSUME SyncInv, SyncInv', DeliveryInv, Calm, NEW p \in Proc, ExpectParent(p)
    PROVE  DeliveryInv'
  <1> DEFINE own == sess[p].own
             e == Expected(queue[Home[p]], own)
             s == [sess[p] EXCEPT !.pc = "flush", !.expected = e]
  <1>1. sess[p].pc = "begin" /\ Become(p, s) /\ UNCHANGED <<parents, made, registry, tip, queue>>
    BY DEF ExpectParent, At, clone
  <1>2. e = parents[own].first \/ (IsMerge(own) /\ e = parents[own].second)
    BY DEF Expected
  <1> HIDE DEF e
  <1>3. Delivers(s, Home[p])
    BY <1>1, <1>2, SessionDelivers DEF Delivers, SessionState
  <1> QED
    BY <1>1, <1>3, QuietDelivers

LEMMA FlushFirstDelivers ==
    ASSUME SyncInv, SyncInv', DeliveryInv, Calm, NEW p \in Proc, FlushFirst(p)
    PROVE  DeliveryInv'
  <1> DEFINE own == sess[p].own
             first == parents[own].first
             todo == queue[Home[p]] \ {own}
             s == [sess[p] EXCEPT !.pc = "push", !.todo = todo]
  <1>1. sess[p].pc = "flush" /\ Become(p, s) /\ UNCHANGED <<parents, made, registry, tip, queue>>
    BY DEF FlushFirst, At, clone
  <1>2. History(own) \ queue[Home[p]] \subseteq stored /\ 1 \notin queue[Home[p]]
    BY <1>1, SessionDelivers DEF Delivers, DeliveryInv, BranchDelivers
  <1>3. own \in 1 .. made /\ own \in Commit /\ first \in CommitOrNone /\ first < own
    BY <1>1, SessionTypes, DeliveryTypes, CommitAssumption DEF Sound, CommitOrNone
  <1>4. History(first) \subseteq History(own) \ {own}
    <2>1. History(first) \subseteq History(own)
      BY <1>3, DeliveryTypes, HistorySplits DEF History
    <2>2. \A c \in History(first) : c <= first
      BY <1>3, DeliveryTypes, HistoryCloses DEF History
    <2>3. ~ (own <= first)
      BY <1>3, CommitAssumption DEF CommitOrNone
    <2> QED
      BY <2>1, <2>2, <2>3
  <1>5. History(first) \subseteq stored \cup todo /\ 1 \notin todo
    BY <1>2, <1>4
  <1> HIDE DEF todo
  <1>6. Delivers(s, Home[p])
    BY <1>1, <1>5, SessionDelivers DEF Delivers, SessionState
  <1> QED
    BY <1>1, <1>6, QuietDelivers

LEMMA StartPushDelivers ==
    ASSUME SyncInv, SyncInv', DeliveryInv, Calm, NEW p \in Proc, StartPush(p)
    PROVE  DeliveryInv'
  <1> DEFINE todo == queue[Home[p]]
             s == [Idle EXCEPT !.pc = "push", !.todo = todo]
  <1>1. Become(p, s) /\ UNCHANGED <<parents, made, registry, tip, queue>>
    BY DEF StartPush, clone
  <1>2. 1 \notin todo /\ made \in Nat
    BY SessionDelivers, DeliveryTypes DEF BranchDelivers
  <1> HIDE DEF todo
  <1>3. Delivers(s, Home[p])
    BY <1>2 DEF Delivers, Idle, IsMerge, None
  <1> QED
    BY <1>1, <1>3, QuietDelivers

LEMMA RejectTokenDelivers ==
    ASSUME SyncInv, SyncInv', DeliveryInv, Calm, NEW p \in Proc, RejectToken(p)
    PROVE  DeliveryInv'
  <1> DEFINE s == [sess[p] EXCEPT !.todo = {}]
  <1>1. /\ sess[p].pc = "push" /\ Become(p, s) /\ FaultAt(p)
        /\ UNCHANGED <<parents, made, registry, tip, queue>>
    BY DEF RejectToken, At, clone
  <1>2. ~IsMerge(sess[p].own)
    BY <1>1, CalmFault
  <1>3. Delivers(s, Home[p])
    BY <1>1, <1>2, SessionDelivers DEF Delivers, SessionState
  <1> QED
    BY <1>1, <1>3, QuietDelivers

LEMMA LoadQueueDelivers ==
    ASSUME SyncInv, SyncInv', DeliveryInv, Calm, NEW p \in Proc, LoadQueue(p)
    PROVE  DeliveryInv'
  <1> DEFINE q == queue[Home[p]]
             drop == [sess[p] EXCEPT !.pc = "dropOwn"]
             save == [sess[p] EXCEPT !.pc = "save", !.read = q]
             s == IF q \cap ParentsOf(parents[sess[p].own]) = {} THEN drop ELSE save
  <1>1. /\ sess[p].pc = "load" /\ Become(p, s) /\ UNCHANGED <<parents, made, registry, tip, queue>>
    BY DEF LoadQueue, At, clone
  <1>2. Delivers(drop, Home[p])
    BY <1>1, SessionDelivers DEF Delivers, SessionState
  <1>3. Delivers(save, Home[p])
    BY <1>1, SessionDelivers DEF Delivers, SessionState
  <1> HIDE DEF drop, save
  <1>4. Delivers(s, Home[p])
    BY <1>2, <1>3
  <1> QED
    BY <1>1, <1>4, QuietDelivers

LEMMA KillDelivers ==
    ASSUME SyncInv, SyncInv', DeliveryInv, Calm, NEW p \in Proc, Kill(p)
    PROVE  DeliveryInv'
  BY DeliveryTypes, IdleDelivers, QuietDelivers DEF Kill, clone

LEMMA PullFetchDelivers ==
    ASSUME SyncInv, SyncInv', DeliveryInv, Calm, NEW p \in Proc, PullFetch(p)
    PROVE  DeliveryInv'
  <1> DEFINE pc == IF CanForward(p, have'[Home[p]]) THEN "forward" ELSE "diverged"
             s == [Idle EXCEPT !.pc = pc, !.theirs = ref]
  <1>1. Become(p, s) /\ UNCHANGED <<parents, made, registry, tip, queue>>
    BY DEF PullFetch
  <1>2. pc \in {"forward", "diverged"}
    OBVIOUS
  <1> HIDE DEF pc
  <1>3. made \in Nat /\ ref <= made
    BY DeliveryTypes
  <1>4. Delivers(s, Home[p])
    BY <1>2, <1>3 DEF Delivers, Idle, IsMerge, None
  <1> QED
    BY <1>1, <1>4, QuietDelivers

LEMMA PullKilledDelivers ==
    ASSUME DeliveryInv, NEW p \in Proc, PullKilled(p)
    PROVE  DeliveryInv'
  BY StillDelivers DEF PullKilled

LEMMA StartMergeDelivers ==
    ASSUME SyncInv, SyncInv', DeliveryInv, Calm, NEW p \in Proc, StartMerge(p)
    PROVE  DeliveryInv'
  <1> DEFINE r == Home[p]
             base == MergeBase(parents, have[r], tip[r], sess[p].theirs)
             pc == IF base = tip[r] THEN "forward" ELSE "merge"
             next == [sess[p] EXCEPT !.pc = pc, !.ours = tip[r]]
             s == IF sess[p].theirs = tip[r] \/ base = sess[p].theirs THEN Idle ELSE next
  <1>1. /\ sess[p].pc = "diverged" /\ Become(p, s)
        /\ UNCHANGED <<parents, made, registry, tip, queue>>
    BY DEF StartMerge, At, clone
  <1>2. pc \in {"forward", "merge"}
    OBVIOUS
  <1> HIDE DEF base, pc
  <1>3. tip[r] <= made /\ History(tip[r]) \ queue[r] \subseteq History(ref)
    BY SessionDelivers, DeliveryTypes DEF BranchDelivers
  <1>4. Delivers(next, r)
    BY <1>1, <1>2, <1>3, SessionDelivers DEF Delivers, SessionState
  <1> HIDE DEF next
  <1>5. Delivers(s, r)
    BY <1>4, DeliveryTypes, IdleDelivers
  <1> QED
    BY <1>1, <1>5, QuietDelivers

-----------------------------------------------------------------------------
(* Objects are stored and the clone changes; the registry's branch does not. *)

LEMMA CloneDelivers ==
    ASSUME SyncInv, SyncInv', DeliveryInv, Calm, NEW p \in Proc, NEW s, Become(p, s),
           UNCHANGED <<parents, made, ref, wire>>, stored \subseteq stored',
           \A r \in Repo : r # Home[p] => tip'[r] = tip[r] /\ queue'[r] = queue[r],
           BranchDelivers(Home[p])', sess'[p] = s => Delivers(sess[p], Home[p])'
    PROVE  DeliveryInv'
  <1>1. History(ref)' = History(ref)
    BY DEF History
  <1>2. /\ ref' \in 1 .. made /\ History(ref)' \subseteq stored'
        /\ \A w \in wire' : w.commit \in stored' \ {1} /\ w.expected = parents[w.commit].first
    BY <1>1 DEF DeliveryInv
  <1> QED
    BY <1>1, <1>2, BranchStep

(* What leaves the queue is delivered. *)
LEMMA BranchStays ==
    ASSUME NEW r, BranchDelivers(r), UNCHANGED <<parents, made>>, tip'[r] = tip[r], NEW D,
           queue[r] \ D \subseteq queue'[r], D \subseteq History(ref)', 1 \notin queue'[r],
           History(ref) \subseteq History(ref)'
    PROVE  BranchDelivers(r)'
  <1>1. History(tip[r])' = History(tip[r])
    BY DEF History
  <1> QED
    BY <1>1 DEF BranchDelivers

LEMMA Least ==
    ASSUME SyncInv, DeliveryInv, NEW p \in Proc, NEW c, IsNext(p, c)
    PROVE  /\ c \in sess[p].todo /\ c \in 1 .. made
           /\ \A d \in sess[p].todo : (\A b \in sess[p].todo : d <= b) => d = c
  <1>1. sess[p].todo \subseteq 1 .. made /\ made \in Nat
    BY SessionTypes, DeliveryTypes DEF Sound
  <1>2. c \in sess[p].todo /\ \A d \in sess[p].todo : c <= d
    BY DEF IsNext
  <1> QED
    BY <1>1, <1>2

LEMMA PushEntryDelivers ==
    ASSUME SyncInv, SyncInv', DeliveryInv, Calm, NEW p \in Proc, PushEntry(p)
    PROVE  DeliveryInv'
  <1>1. PICK c \in Commit :
           /\ IsNext(p, c)
           /\ \/ /\ stored' = stored \cup {c}
                 /\ Become(p, [sess[p] EXCEPT !.pc = "swap"]) /\ NoFault
              \/ /\ stored' \in {stored, stored \cup {c}}
                 /\ Advance(p, c, FALSE) /\ FaultAt(p)
    BY DEF PushEntry
  <1>2. sess[p].pc = "push" /\ UNCHANGED <<parents, made, ref, wire, tip, queue>>
    BY DEF PushEntry, At, clone
  <1>3. stored \subseteq stored'
    BY <1>1
  <1>4. History(ref)' = History(ref) /\ BranchDelivers(Home[p])'
    BY <1>2, SessionDelivers DEF History, BranchDelivers
  <1>5. \A x : History(x) = Reach(parents, Commit, x)
    BY DEF History
  <1>6. CASE /\ stored' = stored \cup {c}
             /\ Become(p, [sess[p] EXCEPT !.pc = "swap"])
    <2> DEFINE s == [sess[p] EXCEPT !.pc = "swap"]
    <2>1. \A d \in sess[p].todo : (\A b \in sess[p].todo : d <= b) => d \in stored'
      BY <1>1, <1>6, Least
    <2>2. sess'[p] = s => Delivers(sess[p], Home[p])'
      BY <1>2, <1>3, <1>4, <2>1, SessionDelivers DEF Delivers, SessionState, History, IsMerge
    <2> QED
      BY <1>2, <1>3, <1>4, <1>6, <2>2, CloneDelivers
  <1>7. CASE Advance(p, c, FALSE) /\ FaultAt(p)
    <2> DEFINE s == [sess[p] EXCEPT !.pc = "push", !.todo = @ \ {c}]
    <2>1. Become(p, s)
      BY <1>7, SessionDelivers DEF Advance, Become, SessionState
    <2>2. ~IsMerge(sess[p].own)
      BY <1>2, <1>7, CalmFault
    <2>3. sess'[p] = s => Delivers(sess[p], Home[p])'
      BY <1>2, <1>3, <1>4, <2>2, SessionDelivers DEF Delivers, SessionState, History, IsMerge
    <2> QED
      BY <1>2, <1>3, <1>4, <2>1, <2>3, CloneDelivers
  <1> QED
    BY <1>1, <1>6, <1>7

LEMMA RemoveDeliveredDelivers ==
    ASSUME SyncInv, SyncInv', DeliveryInv, Calm, NEW p \in Proc, RemoveDelivered(p)
    PROVE  DeliveryInv'
  <1> DEFINE r == Home[p]
             done == sess[p].delivered
             next == [sess[p] EXCEPT !.pc = "pushOwn", !.delivered = {}]
             s == IF sess[p].own = None THEN Idle ELSE next
  <1>1. /\ sess[p].pc = "push" /\ sess[p].todo = {} /\ Become(p, s)
        /\ queue' = [queue EXCEPT ![r] = @ \ done]
        /\ UNCHANGED <<parents, made, stored, ref, wire, tip>>
    BY DEF RemoveDelivered, At, registry
  <1>2. r \in Repo /\ queue'[r] = queue[r] \ done /\ \A q \in Repo : q # r => queue'[q] = queue[q]
    BY <1>1, SyncAssumption DEF SyncInv, TypeOK
  <1>3. History(ref)' = History(ref) /\ done \subseteq History(ref)
    BY <1>1, SessionDelivers DEF History, Delivers
  <1>4. BranchDelivers(r)'
    <2>1. BranchDelivers(r) /\ queue[r] \ done \subseteq queue'[r] /\ 1 \notin queue'[r]
      BY <1>1, <1>2, <1>3, SessionDelivers DEF BranchDelivers
    <2> QED
      BY <1>1, <1>2, <1>3, <2>1, BranchStays
  <1>5. sess'[p] = next => Delivers(sess[p], r)'
    BY <1>1, <1>3, SessionDelivers DEF Delivers, SessionState, History, IsMerge
  <1> HIDE DEF next
  <1>6. sess'[p] = s => Delivers(sess[p], r)'
    BY <1>1, <1>5, DeliveryTypes, IdleDeliversNext
  <1> QED
    BY <1>1, <1>2, <1>4, <1>6, CloneDelivers

-----------------------------------------------------------------------------
(* The commit that is being finalised, and the queue after it. *)

(* A commit that goes back into the queue. *)
LEMMA KeepQueuedDelivers ==
    ASSUME SyncInv, SyncInv', DeliveryInv, Calm, NEW p \in Proc, KeepQueued(p),
           UNCHANGED <<parents, made, tip>>, stored \subseteq stored', ref' = ref,
           \A w \in wire' : w.commit \in stored' \ {1} /\ w.expected = parents[w.commit].first
    PROVE  DeliveryInv'
  <1> DEFINE r == Home[p]
             c == sess[p].own
  <1>1. Become(p, Idle) /\ queue' = [queue EXCEPT ![r] = @ \cup {c}] /\ c # 1
    BY SessionDelivers DEF KeepQueued, Delivers
  <1>2. r \in Repo /\ queue'[r] = queue[r] \cup {c} /\ \A q \in Repo : q # r => queue'[q] = queue[q]
    BY <1>1, SyncAssumption DEF SyncInv, TypeOK
  <1>3. History(ref)' = History(ref)
    BY DEF History
  <1>4. BranchDelivers(r)'
    <2>1. BranchDelivers(r) /\ queue[r] \ {} \subseteq queue'[r] /\ 1 \notin queue'[r]
      BY <1>1, <1>2, SessionDelivers DEF BranchDelivers
    <2> QED
      BY <1>3, <2>1, BranchStays
  <1>5. sess'[p] = Idle => Delivers(sess[p], r)'
    BY DeliveryTypes, IdleDeliversNext
  <1>6. ref' \in 1 .. made /\ History(ref)' \subseteq stored'
    BY <1>3 DEF DeliveryInv
  <1> QED
    BY <1>1, <1>2, <1>3, <1>4, <1>5, <1>6, BranchStep

LEMMA PushOwnDelivers ==
    ASSUME SyncInv, SyncInv', DeliveryInv, Calm, NEW p \in Proc, PushOwn(p)
    PROVE  DeliveryInv'
  <1> DEFINE c == sess[p].own
             s == [sess[p] EXCEPT !.pc = "swapOwn"]
  <1>1. sess[p].pc = "pushOwn" /\ UNCHANGED <<parents, made, ref, wire, have, tip>>
    BY DEF PushOwn, At
  <1>2. CASE stored' = stored \cup {c} /\ queue' = queue /\ Become(p, s)
    <2>1. History(ref)' = History(ref) /\ BranchDelivers(Home[p])' /\ stored \subseteq stored'
      BY <1>1, <1>2, SessionDelivers DEF History, BranchDelivers
    <2>2. sess'[p] = s => Delivers(sess[p], Home[p])'
      BY <1>1, <1>2, <2>1, SessionDelivers DEF Delivers, SessionState, History, IsMerge
    <2> QED
      BY <1>1, <1>2, <2>1, <2>2, CloneDelivers
  <1>3. CASE stored' \in {stored, stored \cup {c}} /\ KeepQueued(p)
    <2>1. /\ stored \subseteq stored'
          /\ \A w \in wire' : w.commit \in stored' \ {1} /\ w.expected = parents[w.commit].first
      BY <1>1, <1>3 DEF DeliveryInv
    <2> QED
      BY <1>1, <1>3, <2>1, KeepQueuedDelivers
  <1> QED
    BY <1>2, <1>3 DEF PushOwn

(* Once a commit is delivered, so are its parents. *)
LEMMA DeliveredParents ==
    ASSUME SyncInv, DeliveryInv, NEW c \in History(ref)
    PROVE  ParentsOf(parents[c]) \subseteq History(ref)
  BY DeliveryTypes, CommitTypes, HistoryCloses DEF History

LEMMA SaveQueueDelivers ==
    ASSUME SyncInv, SyncInv', DeliveryInv, Calm, NEW p \in Proc, SaveQueue(p)
    PROVE  DeliveryInv'
  <1> DEFINE r == Home[p]
             done == ParentsOf(parents[sess[p].own])
             s == [sess[p] EXCEPT !.pc = "dropOwn", !.read = {}]
  <1>1. /\ sess[p].pc = "save" /\ Become(p, s)
        /\ queue' = [queue EXCEPT ![r] = sess[p].read \ done]
        /\ UNCHANGED <<parents, made, stored, ref, wire, tip>>
    BY DEF SaveQueue, At, registry
  <1>2. sess[p].read = queue[r] /\ sess[p].own \in History(ref)
    BY <1>1, SessionDelivers DEF Delivers
  <1>3. done \subseteq History(ref) /\ History(ref)' = History(ref)
    BY <1>1, <1>2, DeliveredParents DEF History
  <1> HIDE DEF done
  <1>4. r \in Repo /\ queue'[r] = queue[r] \ done /\ \A q \in Repo : q # r => queue'[q] = queue[q]
    BY <1>1, <1>2, SyncAssumption DEF SyncInv, TypeOK
  <1>5. BranchDelivers(r)'
    <2>1. BranchDelivers(r) /\ queue[r] \ done \subseteq queue'[r] /\ 1 \notin queue'[r]
      BY <1>1, <1>3, <1>4, SessionDelivers DEF BranchDelivers
    <2> QED
      BY <1>1, <1>3, <1>4, <2>1, BranchStays
  <1>6. sess'[p] = s => Delivers(sess[p], r)'
    BY <1>1, <1>3, SessionDelivers DEF Delivers, SessionState, History, IsMerge
  <1> QED
    BY <1>1, <1>4, <1>5, <1>6, CloneDelivers

LEMMA DropOwnDelivers ==
    ASSUME SyncInv, SyncInv', DeliveryInv, Calm, NEW p \in Proc, DropOwn(p)
    PROVE  DeliveryInv'
  <1> DEFINE r == Home[p]
             done == {sess[p].own}
  <1>1. /\ sess[p].pc = "dropOwn" /\ Become(p, Idle)
        /\ queue' = [queue EXCEPT ![r] = @ \ done]
        /\ UNCHANGED <<parents, made, stored, ref, wire, tip>>
    BY DEF DropOwn, At, registry
  <1>2. done \subseteq History(ref) /\ History(ref)' = History(ref)
    BY <1>1, SessionDelivers DEF Delivers, History
  <1> HIDE DEF done
  <1>3. r \in Repo /\ queue'[r] = queue[r] \ done /\ \A q \in Repo : q # r => queue'[q] = queue[q]
    BY <1>1, SyncAssumption DEF SyncInv, TypeOK
  <1>4. BranchDelivers(r)'
    <2>1. BranchDelivers(r) /\ queue[r] \ done \subseteq queue'[r] /\ 1 \notin queue'[r]
      BY <1>1, <1>2, <1>3, SessionDelivers DEF BranchDelivers
    <2> QED
      BY <1>1, <1>2, <1>3, <2>1, BranchStays
  <1>5. sess'[p] = Idle => Delivers(sess[p], r)'
    BY <1>1, DeliveryTypes, IdleDeliversNext
  <1> QED
    BY <1>1, <1>3, <1>4, <1>5, CloneDelivers

LEMMA FastForwardDelivers ==
    ASSUME SyncInv, SyncInv', DeliveryInv, Calm, NEW p \in Proc, FastForward(p)
    PROVE  DeliveryInv'
  <1> DEFINE r == Home[p]
             h == sess[p].theirs
  <1>1. /\ sess[p].pc = "forward" /\ Become(p, Idle)
        /\ tip' = [tip EXCEPT ![r] = h]
        /\ UNCHANGED <<parents, made, stored, ref, wire, queue>>
    BY DEF FastForward, At, registry
  <1>2. h \in 1 .. made /\ History(h) \subseteq History(ref)
    <2>1. h # None /\ h \in CommitOrNone /\ h <= made /\ History(h) \subseteq History(ref)
      BY <1>1, SessionDelivers DEF Delivers, Sound, SessionState
    <2> QED
      BY <2>1, CommitAssumption, DeliveryTypes DEF CommitOrNone, None
  <1>3. r \in Repo /\ tip'[r] = h /\ \A q \in Repo : q # r => tip'[q] = tip[q]
    BY <1>1, SyncAssumption DEF SyncInv, TypeOK
  <1>4. BranchDelivers(r)'
    <2>1. 1 \notin queue[r] /\ BranchDelivers(r)
      BY SessionDelivers DEF BranchDelivers
    <2>2. PICK d : d = h
      OBVIOUS
    <2>3. History(d)' \subseteq History(ref)' /\ tip'[r] = d /\ d \in 1 .. made
      BY <1>1, <1>2, <1>3, <2>2 DEF History
    <2> QED
      BY <1>1, <2>1, <2>3 DEF BranchDelivers
  <1>5. sess'[p] = Idle => Delivers(sess[p], r)'
    BY <1>1, DeliveryTypes, IdleDeliversNext
  <1> QED
    BY <1>1, <1>3, <1>4, <1>5, CloneDelivers

-----------------------------------------------------------------------------
(* The swap of the ref. *)

(* A commit on top of the branch, with the other parent's history delivered  *)
(* or stored, keeps the branch whole.                                        *)
LEMMA OnTop ==
    ASSUME SyncInv, DeliveryInv, NEW c \in 2 .. made, c \in stored, NEW e,
           \/ e = parents[c].first
           \/ e = parents[c].second /\ e # None /\ History(parents[c].first) \subseteq stored,
           Swaps(e)
    PROVE  /\ c \in History(c) /\ History(ref) \subseteq History(c) /\ History(c) \subseteq stored
           /\ c \in 1 .. made
  <1> DEFINE f == parents[c].first
             g == parents[c].second
  <1>1. c \in Commit /\ c \in 1 .. made /\ c # None
    BY DeliveryTypes, CommitTypes
  <1>2. History(c) = {c} \cup History(f) \cup History(g)
    BY <1>1, DeliveryTypes, HistorySplits DEF History
  <1>3. History(ref) \subseteq stored /\ History(g) \subseteq History(ref) /\ f # None
    BY <1>1 DEF DeliveryInv
  <1>4. e # None /\ ref = e
    BY <1>3 DEF Swaps
  <1> HIDE DEF f, g
  <1>5. History(ref) \subseteq History(c) /\ History(f) \subseteq stored
    BY <1>2, <1>3, <1>4 DEF f, g
  <1> QED
    BY <1>1, <1>2, <1>3, <1>5

(* What a swap of c does to the branches and the requests. *)
LEMMA SwapKeepsBranch ==
    ASSUME SyncInv, DeliveryInv, UNCHANGED <<parents, made, tip, queue>>, NEW r \in Repo,
           History(ref) \subseteq History(ref)'
    PROVE  BranchDelivers(r)'
  BY DEF DeliveryInv, BranchDelivers, History

LEMMA SwapEntryDelivers ==
    ASSUME SyncInv, SyncInv', DeliveryInv, Calm, NEW p \in Proc, SwapEntry(p)
    PROVE  DeliveryInv'
  <1>1. PICK c \in Commit :
           /\ IsNext(p, c)
           /\ \/ /\ Advance(p, c, Swaps(parents[c].first) \/ Contains(p, c))
                 /\ ref' = IF Swaps(parents[c].first) THEN c ELSE ref
                 /\ wire' = wire
              \/ /\ Advance(p, c, FALSE)
                 /\ wire' = wire \cup {[commit |-> c, expected |-> parents[c].first]}
                 /\ ref' = ref /\ FaultAt(p)
    BY DEF SwapEntry
  <1>2. sess[p].pc = "swap" /\ UNCHANGED <<parents, made, stored, tip, queue>>
    BY DEF SwapEntry, At, clone
  <1>3. c \in sess[p].todo /\ c \in stored /\ c \in 2 .. made
    <2>1. c \in sess[p].todo /\ c \in stored /\ c # 1 /\ c \in 1 .. made
      BY <1>1, <1>2, SessionDelivers, Least DEF Delivers, IsNext
    <2> QED
      BY <2>1, DeliveryTypes
  <1> DEFINE e == parents[c].first
             done == Swaps(e) \/ Contains(p, c)
             s == [sess[p] EXCEPT !.pc = "push", !.todo = @ \ {c},
                                  !.delivered = IF done THEN @ \cup {c} ELSE @]
             t == [sess[p] EXCEPT !.pc = "push", !.todo = @ \ {c}]
  <1>4. CASE /\ Advance(p, c, done) /\ ref' = (IF Swaps(e) THEN c ELSE ref) /\ wire' = wire
    <2>1. Become(p, s)
      BY <1>4 DEF Advance
    <2>2. /\ ref' \in 1 .. made /\ History(ref) \subseteq History(ref)'
          /\ History(ref)' \subseteq stored /\ (done => c \in History(ref)')
      <3>1. CASE Swaps(e)
        BY <1>2, <1>3, <1>4, <3>1, OnTop DEF History
      <3>2. CASE ~Swaps(e)
        <4>1. ref' = ref /\ History(ref)' = History(ref)
          BY <1>2, <1>4, <3>2 DEF History
        <4>2. done => c \in History(ref)
          <5>1. have[Home[p]] \in SUBSET Commit /\ ref \in CommitOrNone
            BY SessionDelivers, DeliveryTypes, CommitTypes
          <5>2. Reach(parents, have[Home[p]], ref) \subseteq History(ref)
            BY <5>1, DeliveryTypes, HistoryHoldsWalk DEF History
          <5> QED
            BY <3>2, <5>2 DEF Contains, IsAncestor
        <4> QED
          BY <4>1, <4>2, DeliveryTypes DEF DeliveryInv
      <3> QED
        BY <3>1, <3>2
    <2> HIDE DEF done, e
    <2>3. sess'[p] = s => Delivers(sess[p], Home[p])'
      <3> SUFFICES ASSUME sess'[p] = s PROVE Delivers(sess[p], Home[p])'
        OBVIOUS
      <3>1. /\ sess'[p].pc = "push" /\ sess'[p].todo = sess[p].todo \ {c}
            /\ sess'[p].delivered = IF done THEN sess[p].delivered \cup {c} ELSE sess[p].delivered
            /\ sess'[p].own = sess[p].own /\ sess'[p].expected = sess[p].expected
            /\ sess'[p].ours = sess[p].ours /\ sess'[p].theirs = sess[p].theirs
        BY SessionDelivers DEF SessionState
      <3>2. sess'[p].delivered \subseteq History(ref)'
        BY <2>2, <3>1, SessionDelivers DEF Delivers
      <3>3. IsMerge(sess[p].own) =>
              History(parents[sess[p].own].first) \subseteq stored \cup (sess[p].todo \ {c})
        BY <1>2, <1>3, SessionDelivers DEF Delivers
      <3> QED
        BY <1>2, <3>1, <3>2, <3>3, SessionDelivers DEF Delivers, History, IsMerge
    <2>4. BranchDelivers(Home[p])'
      BY <1>2, <2>2, SwapKeepsBranch, SessionDelivers
    <2> HIDE DEF s
    <2>5. \A w \in wire' : w.commit \in stored' \ {1} /\ w.expected = parents[w.commit].first
      BY <1>2, <1>4 DEF DeliveryInv
    <2> QED
      BY <1>2, <2>1, <2>2, <2>3, <2>4, <2>5, BranchStep
  <1>5. CASE /\ Advance(p, c, FALSE) /\ wire' = wire \cup {[commit |-> c, expected |-> e]}
             /\ ref' = ref /\ FaultAt(p)
    <2>1. Become(p, t)
      BY <1>5, SessionDelivers DEF Advance, Become, SessionState
    <2>2. ~IsMerge(sess[p].own)
      BY <1>2, <1>5, CalmFault
    <2>3. History(ref)' = History(ref)
      BY <1>2, <1>5 DEF History
    <2>4. sess'[p] = t => Delivers(sess[p], Home[p])'
      BY <1>2, <2>2, <2>3, SessionDelivers DEF Delivers, SessionState, History, IsMerge
    <2>5. BranchDelivers(Home[p])'
      BY <1>2, <2>3, SwapKeepsBranch, SessionDelivers
    <2>6. \A w \in wire' : w.commit \in stored' \ {1} /\ w.expected = parents[w.commit].first
      BY <1>2, <1>3, <1>5 DEF DeliveryInv
    <2>7. ref' \in 1 .. made /\ History(ref)' \subseteq stored'
      BY <1>2, <1>5, <2>3 DEF DeliveryInv
    <2> HIDE DEF t
    <2> QED
      BY <1>2, <2>1, <2>3, <2>4, <2>5, <2>6, <2>7, BranchStep
  <1> QED
    BY <1>1, <1>4, <1>5

LEMMA SwapOwnDelivers ==
    ASSUME SyncInv, SyncInv', DeliveryInv, Calm, NEW p \in Proc, SwapOwn(p)
    PROVE  DeliveryInv'
  <1> DEFINE c == sess[p].own
             e == sess[p].expected
             pc == IF IsMerge(c) THEN "load" ELSE "dropOwn"
             s == [sess[p] EXCEPT !.pc = pc]
  <1>1. sess[p].pc = "swapOwn" /\ UNCHANGED <<parents, made, stored, have, tip>>
    BY DEF SwapOwn, At
  <1>2. c \in stored /\ c \in 2 .. made
    <2>1. c # None /\ c # 1 /\ c \in stored /\ c \in 1 .. made
      BY <1>1, SessionDelivers, SessionTypes DEF Delivers, Sound
    <2> QED
      BY <2>1, DeliveryTypes
  <1>3. \/ e = parents[c].first
        \/ /\ IsMerge(c) /\ e = parents[c].second /\ e # None
           /\ History(parents[c].first) \subseteq stored
    <2>1. c # None
      BY <1>2, DeliveryTypes DEF None
    <2> QED
      BY <1>1, <2>1, SessionDelivers DEF Delivers, IsMerge
  <1>4. pc \in {"load", "dropOwn"}
    OBVIOUS
  <1>5. CASE Swaps(e) /\ ref' = c /\ wire' = wire /\ queue' = queue /\ Become(p, s)
    <2>1. /\ c \in 1 .. made /\ c \in History(c) /\ History(ref) \subseteq History(c)
          /\ History(c) \subseteq stored
      BY <1>2, <1>3, <1>5, OnTop
    <2>2. /\ ref' \in 1 .. made /\ History(ref) \subseteq History(ref)'
          /\ History(ref)' \subseteq stored' /\ c \in History(ref)'
      BY <1>1, <1>5, <2>1 DEF History
    <2> HIDE DEF pc
    <2>3. sess'[p] = s => Delivers(sess[p], Home[p])'
      <3> SUFFICES ASSUME sess'[p] = s PROVE Delivers(sess[p], Home[p])'
        OBVIOUS
      <3>1. /\ sess'[p].pc = pc /\ sess'[p].todo = sess[p].todo /\ sess'[p].own = c
            /\ sess'[p].delivered = sess[p].delivered /\ sess'[p].expected = sess[p].expected
            /\ sess'[p].ours = sess[p].ours /\ sess'[p].theirs = sess[p].theirs
        BY SessionDelivers DEF SessionState
      <3> QED
        BY <1>1, <1>4, <2>2, <3>1, SessionDelivers DEF Delivers
    <2>4. BranchDelivers(Home[p])'
      BY <1>1, <1>5, <2>2, SwapKeepsBranch, SessionDelivers
    <2>5. \A w \in wire' : w.commit \in stored' \ {1} /\ w.expected = parents[w.commit].first
      BY <1>1, <1>5 DEF DeliveryInv
    <2> HIDE DEF s
    <2> QED
      BY <1>1, <1>5, <2>2, <2>3, <2>4, <2>5, BranchStep
  <1>6. CASE KeepQueued(p) /\ UNCHANGED <<ref, wire>>
    <2>1. \A w \in wire' : w.commit \in stored' \ {1} /\ w.expected = parents[w.commit].first
      BY <1>1, <1>6 DEF DeliveryInv
    <2> QED
      BY <1>1, <1>6, <2>1, KeepQueuedDelivers
  <1>7. CASE /\ wire' = wire \cup {[commit |-> c, expected |-> e]}
             /\ KeepQueued(p) /\ ref' = ref /\ FaultAt(p)
    <2>1. e = parents[c].first
      BY <1>1, <1>3, <1>7, CalmFault
    <2>2. c \in stored \ {1}
      BY <1>2, DeliveryTypes
    <2>3. \A w \in wire' : w.commit \in stored' \ {1} /\ w.expected = parents[w.commit].first
      BY <1>1, <1>7, <2>1, <2>2 DEF DeliveryInv
    <2> QED
      BY <1>1, <1>7, <2>3, KeepQueuedDelivers
  <1> QED
    BY <1>5, <1>6, <1>7 DEF SwapOwn

LEMMA LateSwapDelivers ==
    ASSUME SyncInv, SyncInv', DeliveryInv, LateSwap
    PROVE  DeliveryInv'
  <1>1. PICK w \in wire :
          /\ wire' = wire \ {w}
          /\ ref' = IF Swaps(w.expected) THEN w.commit ELSE ref
          /\ UNCHANGED <<parents, made, stored, clone, sess>> /\ NoFault
    BY DEF LateSwap
  <1>2. UNCHANGED <<parents, made, stored, tip, queue, sess>>
    BY <1>1 DEF clone
  <1>3. w.commit \in stored /\ w.commit \in 2 .. made /\ w.expected = parents[w.commit].first
    <2>1. w.commit \in stored /\ w.commit # 1 /\ w.commit \in 1 .. made
      BY DEF DeliveryInv, SyncInv, Requests
    <2> QED
      BY <2>1, DeliveryTypes DEF DeliveryInv
  <1>4. /\ ref' \in 1 .. made /\ History(ref) \subseteq History(ref)'
        /\ History(ref)' \subseteq stored
    <2>1. CASE Swaps(w.expected)
      BY <1>1, <1>2, <1>3, <2>1, OnTop DEF History
    <2>2. CASE ~Swaps(w.expected)
      BY <1>1, <1>2, <2>2 DEF History, DeliveryInv
    <2> QED
      BY <2>1, <2>2
  <1>5. GraphGrows
    BY <1>2, DeliveryTypes DEF GraphGrows
  <1>6. ASSUME NEW p \in Proc PROVE Delivers(sess[p], Home[p])'
    BY <1>2, <1>4, <1>5, OtherDelivers
  <1>7. ASSUME NEW r \in Repo PROVE BranchDelivers(r)'
    BY <1>2, <1>4, SwapKeepsBranch
  <1>8. (\A c \in 1 .. made : History(parents[c].second) \subseteq History(ref))'
    BY <1>2, <1>4 DEF DeliveryInv, History
  <1>9. \A v \in wire' : v.commit \in stored' \ {1} /\ v.expected = parents'[v.commit].first
    BY <1>1, <1>2 DEF DeliveryInv
  <1>10. Descending(parents') /\ \A c \in 2 .. made' : parents'[c].first # None
    BY <1>2 DEF DeliveryInv
  <1> QED
    BY <1>2, <1>4, <1>6, <1>7, <1>8, <1>9, <1>10 DEF DeliveryInv

-----------------------------------------------------------------------------
(* New commits. *)

LEMMA PersistGrows ==
    ASSUME SyncInv, SyncInv', DeliveryInv, NEW p \in Proc, NEW ps \in Parentage, Persist(p, ps),
           UNCHANGED registry, ps.first \in 1 .. made, ps.second \in 0 .. made
    PROVE  /\ GraphGrows /\ Descending(parents') /\ History(ref)' = History(ref)
           /\ made' = made + 1 /\ made' \in Commit /\ parents'[made'] = ps
           /\ \A c \in 1 .. made' : c # made' => c \in 1 .. made /\ parents'[c] = parents[c]
           /\ Reach(parents', Commit, made') = {made'} \cup History(ps.first) \cup History(ps.second)
  <1> DEFINE c == made + 1
  <1>1. /\ c \in Commit /\ made' = c /\ parents' = [parents EXCEPT ![c] = ps]
        /\ parents \in [Commit -> Parentage]
    BY DEF Persist, SyncInv, TypeOK
  <1>2. /\ made \in Nat /\ made' \in Nat /\ made <= made' /\ c \notin 1 .. made /\ ref \in 1 .. made
        /\ 1 .. made \subseteq Commit
        /\ \A d \in 1 .. made' : d # made' => d \in 1 .. made
    BY <1>1, DeliveryTypes
  <1> HIDE DEF c
  <1>3. /\ parents' \in [Commit -> Parentage] /\ parents'[c] = ps
        /\ \A d \in Commit : d # c => parents'[d] = parents[d]
    BY <1>1
  <1>4. Descending(parents')
    <2>1. ASSUME NEW d \in Commit, NEW b \in ParentsOf(parents'[d]) PROVE b < d
      <3>1. CASE d = c
        <4>1. b \in 1 .. made
          BY <1>2, <1>3, <2>1, <3>1 DEF ParentsOf, None
        <4> QED
          BY <1>1, <1>2, <3>1, <4>1 DEF c
      <3>2. CASE d # c
        BY <1>3, <2>1, <3>2 DEF DeliveryInv, Descending
      <3> QED
        BY <3>1, <3>2
    <2> QED
      BY <2>1 DEF Descending
  <1>5. GraphGrows
    <2>1. Graph(parents')
      BY <1>3, <1>4 DEF Graph
    <2>2. \A d \in 1 .. made : d \in Commit /\ d # c
      BY <1>2
    <2> QED
      BY <1>2, <1>3, <2>1, <2>2 DEF GraphGrows
  <1>6. History(ref)' = History(ref)
    <2>1. ref' = ref /\ ref \in 0 .. made
      BY <1>2 DEF registry
    <2>2. PICK h \in 0 .. made : h = ref
      BY <2>1
    <2>3. History(h)' = History(h)
      BY <1>5, HistoryPrimed
    <2> QED
      BY <2>1, <2>2, <2>3 DEF History
  <1>7. Reach(parents', Commit, made') = {made'} \cup History(ps.first) \cup History(ps.second)
    <2>1. ps.first \in 0 .. made /\ ps.second \in 0 .. made
      BY <1>2
    <2>2. History(ps.first)' = History(ps.first) /\ History(ps.second)' = History(ps.second)
      BY <1>5, <2>1, HistoryPrimed
    <2>3. Graph(parents')
      BY <1>5 DEF GraphGrows
    <2>4. Reach(parents', Commit, c) = {c} \cup Reach(parents', Commit, ps.first)
                                            \cup Reach(parents', Commit, ps.second)
      BY <1>1, <1>3, <2>3, HistorySplits
    <2> QED
      BY <1>1, <2>2, <2>4 DEF History
  <1> QED
    BY <1>1, <1>2, <1>3, <1>4, <1>5, <1>6, <1>7 DEF c

LEMMA PersistDelivers ==
    ASSUME SyncInv, SyncInv', DeliveryInv, Calm, NEW p \in Proc, NEW ps \in Parentage, Persist(p, ps),
           UNCHANGED registry, ps.first \in 1 .. made, ps.second \in 0 .. made,
           History(ps.first) \ queue[Home[p]] \subseteq History(ref),
           History(ps.second) \subseteq History(ref),
           tip' \in {tip, [tip EXCEPT ![Home[p]] = made']},
           \/ sess' = sess /\ sess[p].pc = "idle"
           \/ Become(p, [Idle EXCEPT !.pc = "begin", !.own = made'])
    PROVE  DeliveryInv'
  <1> DEFINE r == Home[p]
  <1>0. PICK c \in Commit : c = made'
    BY PersistGrows
  <1>1. /\ GraphGrows /\ Descending(parents') /\ History(ref)' = History(ref)
        /\ made' = c /\ parents'[c] = ps /\ c \in Commit
        /\ \A d \in 1 .. made' : d # c => d \in 1 .. made /\ parents'[d] = parents[d]
        /\ History(c)' = {c} \cup History(ps.first) \cup History(ps.second)
        /\ made' = made + 1
    BY <1>0, PersistGrows DEF History
  <1>2. r \in Repo /\ queue' = [queue EXCEPT ![r] = @ \cup {c}] /\ UNCHANGED <<stored, ref, wire>>
    BY <1>1, SyncAssumption DEF Persist, registry
  <1>3. queue'[r] = queue[r] \cup {c} /\ \A q \in Repo : q # r => queue'[q] = queue[q]
    BY <1>2 DEF SyncInv, TypeOK
  <1>4. /\ made \in Nat /\ ref \in 1 .. made /\ made' \in Nat /\ c # 1 /\ c \in 1 .. made'
        /\ 1 .. made \subseteq 1 .. made'
    BY <1>1, DeliveryTypes
  <1>5. History(c)' \ queue'[r] \subseteq History(ref)'
    BY <1>1, <1>3
  <1>6. ASSUME NEW q \in Repo PROVE BranchDelivers(q)'
    <2>1. BranchDelivers(q) /\ queue[q] \subseteq queue'[q] /\ 1 \notin queue'[q]
      BY <1>3, <1>4 DEF DeliveryInv, BranchDelivers
    <2>2. CASE tip'[q] = tip[q]
      <3>1. PICK h : h = tip[q]
        OBVIOUS
      <3>2. h \in 0 .. made /\ h \in 1 .. made'
        BY <1>4, <2>1, <3>1 DEF BranchDelivers
      <3>3. History(h)' = History(h)
        BY <1>1, <3>2, HistoryPrimed
      <3>5. History(tip[q]) \ queue[q] \subseteq History(ref)
        BY <2>1 DEF BranchDelivers
      <3>6. (History(tip[q]) \ queue[q] \subseteq History(ref))'
        BY <1>1, <2>1, <2>2, <3>1, <3>3, <3>5
      <3> QED
        BY <2>1, <2>2, <3>1, <3>2, <3>6 DEF BranchDelivers
    <2>3. CASE q = r /\ tip'[q] = c
      <3>1. (History(tip[q]) \ queue[q] \subseteq History(ref))'
        BY <1>5, <2>3 DEF History
      <3> QED
        BY <1>4, <2>1, <2>3, <3>1 DEF BranchDelivers
    <2>4. tip'[q] = tip[q] \/ (q = r /\ tip'[q] = c)
      BY <1>1, <1>2 DEF SyncInv, TypeOK
    <2> QED
      BY <2>2, <2>3, <2>4
  <1>7. ASSUME NEW q \in Proc, sess'[q] = sess[q], sess[q].pc = "idle" \/ q # p
        PROVE  Delivers(sess[q], Home[q])'
    <2>1. sess[q].pc = "idle" \/ queue'[Home[q]] = queue[Home[q]]
      BY <1>3, <1>7, SyncAssumption DEF Calm
    <2> QED
      BY <1>1, <1>2, <1>7, <2>1, OtherDelivers
  <1>8. ASSUME Become(p, [Idle EXCEPT !.pc = "begin", !.own = made']) PROVE Delivers(sess[p], r)'
    <2>1. sess'[p] = [Idle EXCEPT !.pc = "begin", !.own = c]
      BY <1>1, <1>8 DEF Become, SyncInv, TypeOK
    <2>2. /\ sess'[p].pc = "begin" /\ sess'[p].own = c /\ sess'[p].delivered = {}
          /\ sess'[p].todo = {} /\ sess'[p].ours = None /\ sess'[p].theirs = None
      BY <2>1 DEF Idle
    <2>3. (History(sess[p].own) \ queue[r] \subseteq History(ref))'
      BY <1>5, <2>2 DEF History
    <2>4. sess'[p].ours <= made' /\ sess'[p].theirs <= made'
      BY <1>4, <2>2 DEF None
    <2> QED
      BY <1>4, <2>2, <2>3, <2>4 DEF Delivers
  <1>9. ASSUME NEW q \in Proc PROVE Delivers(sess[q], Home[q])'
    <2>1. CASE sess' = sess /\ sess[p].pc = "idle"
      BY <1>7, <2>1
    <2>2. CASE Become(p, [Idle EXCEPT !.pc = "begin", !.own = made'])
      <3>1. q # p => sess'[q] = sess[q]
        BY <2>2 DEF Become, SyncInv, TypeOK
      <3> QED
        BY <1>7, <1>8, <2>2, <3>1
    <2> QED
      BY <2>1, <2>2
  <1>10. ASSUME NEW d \in 1 .. made' PROVE Reach(parents', Commit, parents'[d].second) \subseteq History(ref)'
    <2>1. CASE d = c
      <3>1. History(ps.second)' = History(ps.second)
        BY <1>1, HistoryPrimed
      <3> QED
        BY <1>1, <2>1, <3>1 DEF History
    <2>2. CASE d # c
      <3>1. d \in 1 .. made /\ parents'[d] = parents[d]
        BY <1>1, <2>2
      <3>2. PICK g \in 0 .. made : g = parents[d].second
        BY <3>1, DeliveryTypes
      <3>3. History(g)' = History(g) /\ History(g) \subseteq History(ref)
        BY <1>1, <3>1, <3>2, HistoryPrimed DEF DeliveryInv
      <3> QED
        BY <1>1, <3>1, <3>2, <3>3 DEF History
    <2> QED
      BY <2>1, <2>2
  <1>11. (\A d \in 1 .. made : History(parents[d].second) \subseteq History(ref))'
    BY <1>10 DEF History
  <1>12. \A d \in 2 .. made' : parents'[d].first # None
    <2>1. ps.first # None
      BY DEF None
    <2>2. \A d \in 2 .. made' : d # c => d \in 2 .. made
      BY <1>1, <1>4
    <2>3. \A d \in 2 .. made' : d \in 1 .. made'
      BY <1>4
    <2> QED
      BY <1>1, <2>1, <2>2, <2>3 DEF DeliveryInv
  <1>13. \A w \in wire' : w.commit \in stored' \ {1} /\ w.expected = parents'[w.commit].first
    <2>1. ASSUME NEW w \in wire
          PROVE  /\ w.commit \in stored \ {1} /\ w.expected = parents[w.commit].first
                 /\ w.commit \in 1 .. made
      BY DEF DeliveryInv, SyncInv, Requests
    <2> QED
      BY <1>1, <1>2, <2>1 DEF GraphGrows
  <1>14. ref' \in 1 .. made' /\ History(ref)' \subseteq stored'
    BY <1>1, <1>2, <1>4 DEF DeliveryInv
  <1> QED
    BY <1>1, <1>6, <1>9, <1>11, <1>12, <1>13, <1>14 DEF DeliveryInv

LEMMA TipDelivers ==
    ASSUME SyncInv, DeliveryInv, NEW p \in Proc
    PROVE  LET ps == [first |-> tip[Home[p]], second |-> None]
           IN  /\ ps \in Parentage /\ ps.first \in 1 .. made /\ ps.second \in 0 .. made
               /\ History(ps.first) \ queue[Home[p]] \subseteq History(ref)
               /\ History(ps.second) \subseteq History(ref)
  <1> DEFINE ps == [first |-> tip[Home[p]], second |-> None]
  <1>1. ps \in Parentage /\ ps.first = tip[Home[p]] /\ ps.second = None
    BY SyncAssumption, TipParent
  <1>2. History(None) = {}
    BY HistoryOfNone DEF History
  <1>3. BranchDelivers(Home[p]) /\ made \in Nat
    BY SessionDelivers, DeliveryTypes
  <1> QED
    BY <1>1, <1>2, <1>3 DEF BranchDelivers, None

LEMMA CommitStagedDelivers ==
    ASSUME SyncInv, SyncInv', DeliveryInv, Calm, NEW p \in Proc, CommitStaged(p)
    PROVE  DeliveryInv'
  <1> DEFINE ps == [first |-> tip[Home[p]], second |-> None]
  <1>1. /\ Persist(p, ps) /\ UNCHANGED registry /\ sess[p].pc = "idle"
        /\ tip' = [tip EXCEPT ![Home[p]] = made']
        /\ sess' = sess \/ Become(p, [Idle EXCEPT !.pc = "begin", !.own = made'])
    BY DEF CommitStaged, At
  <1>2. /\ ps \in Parentage /\ ps.first \in 1 .. made /\ ps.second \in 0 .. made
        /\ History(ps.first) \ queue[Home[p]] \subseteq History(ref)
        /\ History(ps.second) \subseteq History(ref)
    BY TipDelivers
  <1> HIDE DEF ps
  <1> QED
    BY <1>1, <1>2, PersistDelivers

LEMMA CommitKilledDelivers ==
    ASSUME SyncInv, SyncInv', DeliveryInv, Calm, NEW p \in Proc, CommitKilled(p)
    PROVE  DeliveryInv'
  <1> DEFINE ps == [first |-> tip[Home[p]], second |-> None]
  <1>1. Persist(p, ps) /\ UNCHANGED registry /\ sess[p].pc = "idle" /\ tip' = tip /\ sess' = sess
    BY DEF CommitKilled, At
  <1>2. /\ ps \in Parentage /\ ps.first \in 1 .. made /\ ps.second \in 0 .. made
        /\ History(ps.first) \ queue[Home[p]] \subseteq History(ref)
        /\ History(ps.second) \subseteq History(ref)
    BY TipDelivers
  <1> HIDE DEF ps
  <1> QED
    BY <1>1, <1>2, PersistDelivers

LEMMA MergeCommitDelivers ==
    ASSUME SyncInv, SyncInv', DeliveryInv, Calm, NEW p \in Proc, MergeCommit(p)
    PROVE  DeliveryInv'
  <1> DEFINE ps == [first |-> sess[p].ours, second |-> sess[p].theirs]
  <1>1. /\ Persist(p, ps) /\ UNCHANGED registry /\ sess[p].pc = "merge"
        /\ tip' = [tip EXCEPT ![Home[p]] = made']
        /\ Become(p, [Idle EXCEPT !.pc = "begin", !.own = made'])
    BY DEF MergeCommit, At
  <1>2. /\ sess[p].ours \in CommitOrNone /\ sess[p].theirs \in CommitOrNone /\ sess[p].ours # None
        /\ sess[p].ours <= made /\ sess[p].theirs <= made /\ made \in Nat
        /\ History(sess[p].ours) \ queue[Home[p]] \subseteq History(ref)
        /\ History(sess[p].theirs) \subseteq History(ref)
    BY <1>1, SessionDelivers, DeliveryTypes DEF Delivers, Sound, SessionState
  <1>3. /\ ps \in Parentage /\ ps.first \in 1 .. made /\ ps.second \in 0 .. made
        /\ History(ps.first) \ queue[Home[p]] \subseteq History(ref)
        /\ History(ps.second) \subseteq History(ref)
    BY <1>2, CommitAssumption DEF Parentage, CommitOrNone, None
  <1> HIDE DEF ps
  <1> QED
    BY <1>1, <1>3, PersistDelivers

-----------------------------------------------------------------------------
(* The theorems. *)

LEMMA InitDelivers ==
    ASSUME Init, Calm
    PROVE  DeliveryInv
  <1>1. MaxCommits \in Nat /\ MaxCommits >= 1
    BY CommitAssumption, SyncAssumption DEF Calm
  <1>2. /\ parents = [c \in Commit |-> NoParents] /\ made = 1 /\ stored = {1} /\ ref = 1
        /\ wire = {} /\ tip = [r \in Repo |-> 1] /\ queue = [r \in Repo |-> {}]
        /\ sess = [p \in Proc |-> Idle]
    BY DEF Init, Calm
  <1>3. /\ 1 \in Commit /\ None \notin Commit /\ parents \in [Commit -> Parentage]
        /\ \A c \in Commit : parents[c].first = None /\ parents[c].second = None
    BY <1>1, <1>2, CommitTypes DEF Commit, NoParents
  <1>4. Descending(parents)
    BY <1>3 DEF Descending, ParentsOf
  <1>5. History(None) = {}
    BY HistoryOfNone DEF History
  <1>6. History(1) = {1}
    <2>1. Graph(parents)
      BY <1>3, <1>4 DEF Graph
    <2> QED
      BY <1>3, <1>5, <2>1, HistorySplits DEF History
  <1>7. \A r \in Repo : BranchDelivers(r)
    BY <1>2, <1>6 DEF BranchDelivers
  <1>8. \A p \in Proc : Delivers(sess[p], Home[p])
    BY <1>2, IdleDelivers
  <1>9. \A c \in 1 .. made : History(parents[c].second) \subseteq History(ref)
    BY <1>2, <1>3, <1>5
  <1> QED
    BY <1>2, <1>4, <1>6, <1>7, <1>8, <1>9 DEF DeliveryInv

LEMMA ContinueDelivers ==
    ASSUME SyncInv, SyncInv', DeliveryInv, Calm, NEW p \in Proc, Continue(p)
    PROVE  DeliveryInv'
  BY ExpectParentDelivers, FlushFirstDelivers, PushEntryDelivers, SwapEntryDelivers,
     RemoveDeliveredDelivers, PushOwnDelivers, SwapOwnDelivers, LoadQueueDelivers,
     SaveQueueDelivers, DropOwnDelivers, FastForwardDelivers, StartMergeDelivers,
     MergeCommitDelivers DEF Continue

LEMMA StepDelivers ==
    ASSUME SyncInv, SyncInv', DeliveryInv, Calm, [Next]_vars
    PROVE  DeliveryInv'
  <1>1. ASSUME NEW p \in Proc,
               \/ CommitStaged(p) \/ CommitKilled(p) \/ StartPush(p) \/ PullFetch(p)
               \/ PullKilled(p) \/ Continue(p) \/ RejectToken(p) \/ Kill(p)
        PROVE  DeliveryInv'
    BY <1>1, CommitStagedDelivers, CommitKilledDelivers, StartPushDelivers, PullFetchDelivers,
       PullKilledDelivers, ContinueDelivers, RejectTokenDelivers, KillDelivers
  <1>2. CASE UNCHANGED vars
    BY <1>2, StillDelivers DEF vars, clone
  <1> QED
    BY <1>1, <1>2, LateSwapDelivers DEF Next

LEMMA DeliveryInvariant ==
    ASSUME Calm
    PROVE  Spec => []DeliveryInv
  <1>1. SyncInv /\ SyncInv' /\ DeliveryInv /\ [Next]_vars => DeliveryInv'
    BY StepDelivers
  <1>2. Init => DeliveryInv
    BY InitDelivers
  <1> QED
    BY <1>1, <1>2, SyncInvariant, PTL DEF Spec

(* On a founded branch, with one process at a time in a clone and merges     *)
(* that no fault strikes: a commit that has left the queue of a clone is     *)
(* stored and on the registry's branch (_finalize_commit takes it off only   *)
(* then), whatever other requests fail, come late or are killed.             *)
THEOREM QueueHoldsTheRest ==
    ASSUME Calm
    PROVE  Spec => []NeverStranded
  <1>1. DeliveryInv => NeverStranded
    BY DEF DeliveryInv, BranchDelivers, NeverStranded
  <1> QED
    BY <1>1, DeliveryInvariant, PTL

(* Under the same conditions every commit the registry's branch names is     *)
(* there to be fetched: flush_pending_push stores the entries in front of a  *)
(* commit before it moves the ref.                                           *)
THEOREM RemoteCanBeFetched ==
    ASSUME Calm
    PROVE  Spec => []RemoteHistoryComplete
  <1>1. DeliveryInv => RemoteHistoryComplete
    BY DEF DeliveryInv, RemoteHistoryComplete
  <1> QED
    BY <1>1, DeliveryInvariant, PTL

-----------------------------------------------------------------------------
(* The merge base lies in the history of what is merged. *)

LEMMA InOrderIn ==
    ASSUME NEW ps, NEW fs, NEW S, NEW c, c \in fs => ParentsOf(ps[c]) \subseteq S
    PROVE  InOrder(ps, fs, c) \in Seq(S)
  <1>1. CASE c \notin fs \/ ps[c].first = None
    BY <1>1 DEF InOrder
  <1>2. CASE c \in fs /\ ps[c].first # None /\ ps[c].second = None
    <2>1. ps[c].first \in S
      BY <1>2 DEF ParentsOf
    <2> QED
      BY <1>2, <2>1 DEF InOrder
  <1>3. CASE c \in fs /\ ps[c].first # None /\ ps[c].second # None
    <2>1. ps[c].first \in S /\ ps[c].second \in S
      BY <1>3 DEF ParentsOf
    <2> QED
      BY <1>3, <2>1 DEF InOrder
  <1> QED
    BY <1>1, <1>2, <1>3

(* f joins the parents of the first n of q. *)
IsJoin(f, n, ps, fs, q) ==
    f = [i \in 0 .. n |-> IF i = 0 THEN <<>> ELSE f[i - 1] \o InOrder(ps, fs, q[i])]

LEMMA JoinExists ==
    ASSUME NEW ps, NEW fs, NEW q, NEW n \in Nat
    PROVE  \E f : IsJoin(f, n, ps, fs, q)
  <1> DEFINE bad == {m \in Nat : ~ \E f : IsJoin(f, m, ps, fs, q)}
  <1> SUFFICES ASSUME bad # {} PROVE FALSE
    OBVIOUS
  <1>1. PICK m \in bad : \A k \in bad : m <= k
    BY LeastNat
  <1>2. m # 0
    <2> DEFINE f == [i \in 0 .. 0 |-> <<>>]
    <2>1. IsJoin(f, 0, ps, fs, q)
      BY DEF IsJoin
    <2> QED
      BY <1>1, <2>1
  <1>3. m \in Nat /\ m - 1 \in Nat /\ m - 1 \notin bad
    BY <1>1, <1>2
  <1>4. PICK g : IsJoin(g, m - 1, ps, fs, q)
    BY <1>3
  <1> DEFINE f == [i \in 0 .. m |-> IF i = m THEN g[m - 1] \o InOrder(ps, fs, q[m]) ELSE g[i]]
  <1>5. \A i \in 0 .. m - 1 : f[i] = g[i]
    BY <1>3
  <1>6. ASSUME NEW i \in 0 .. m
        PROVE  f[i] = IF i = 0 THEN <<>> ELSE f[i - 1] \o InOrder(ps, fs, q[i])
    <2>1. CASE i = m
      BY <1>2, <1>3, <1>5, <2>1
    <2>2. CASE i # m
      <3>1. i \in 0 .. m - 1 /\ (i # 0 => i - 1 \in 0 .. m - 1)
        BY <1>3, <2>2
      <3>2. g[i] = IF i = 0 THEN <<>> ELSE g[i - 1] \o InOrder(ps, fs, q[i])
        BY <1>4, <3>1, Zenon DEF IsJoin
      <3> QED
        BY <1>5, <3>1, <3>2
    <2> QED
      BY <2>1, <2>2
  <1>7. f = [i \in 0 .. m |-> f[i]]
    OBVIOUS
  <1> HIDE DEF f
  <1>8. IsJoin(f, m, ps, fs, q)
    BY <1>6, <1>7 DEF IsJoin
  <1> QED
    BY <1>1, <1>8

LEMMA NextLevelIn ==
    ASSUME NEW ps, NEW fs, NEW S, \A c \in S \cap fs : ParentsOf(ps[c]) \subseteq S, NEW q \in Seq(S)
    PROVE  NextLevel(ps, fs, q) \in Seq(S)
  <1> DEFINE n == Len(q)
             f == CHOOSE g : IsJoin(g, n, ps, fs, q)
  <1>1. NextLevel(ps, fs, q) = f[n]
    BY DEF NextLevel, IsJoin
  <1>2. n \in Nat
    OBVIOUS
  <1> HIDE DEF n
  <1>3. IsJoin(f, n, ps, fs, q)
    BY <1>2, JoinExists, Zenon
  <1> HIDE DEF f
  <1>4. \A i \in 0 .. n : f[i] = IF i = 0 THEN <<>> ELSE f[i - 1] \o InOrder(ps, fs, q[i])
    BY <1>3, Zenon DEF IsJoin
  <1>5. \A i \in 1 .. n : InOrder(ps, fs, q[i]) \in Seq(S)
    <2>1. ASSUME NEW i \in 1 .. n PROVE q[i] \in S
      BY DEF n
    <2> QED
      BY <2>1, InOrderIn
  <1> DEFINE bad == {i \in 0 .. n : f[i] \notin Seq(S)}
  <1>6. ASSUME bad # {} PROVE FALSE
    <2>1. bad \subseteq Nat
      BY <1>2
    <2>2. PICK i \in bad : \A j \in bad : i <= j
      BY <1>6, <2>1, LeastNat
    <2>3. CASE i = 0
      <3>1. f[i] = <<>>
        BY <1>4, <2>2, <2>3
      <3>2. <<>> \in Seq(S)
        OBVIOUS
      <3> QED
        BY <2>2, <3>1, <3>2, Zenon
    <2>4. CASE i # 0
      <3>1. i \in 0 .. n /\ i \in 1 .. n /\ i - 1 \in 0 .. n /\ i - 1 \notin bad
        BY <1>2, <2>2, <2>4
      <3>2. f[i - 1] \in Seq(S) /\ InOrder(ps, fs, q[i]) \in Seq(S)
        BY <1>5, <3>1
      <3>3. f[i] = f[i - 1] \o InOrder(ps, fs, q[i])
        BY <1>4, <2>4, <3>1
      <3>4. f[i] \in Seq(S)
        BY <3>2, <3>3, ConcatProperties
      <3> QED
        BY <2>2, <3>4
    <2> QED
      BY <2>3, <2>4
  <1>7. n \in 0 .. n
    BY <1>2
  <1> QED
    BY <1>1, <1>6, <1>7

(* f[0 .. n] are the first levels of the walk. *)
AreLevels(f, n, ps, fs, start) ==
    f = [k \in 0 .. n |-> IF k = 0 THEN <<start>> ELSE NextLevel(ps, fs, f[k - 1])]

LEMMA LevelsExist ==
    ASSUME NEW ps, NEW fs, NEW start, NEW n \in Nat
    PROVE  \E f : AreLevels(f, n, ps, fs, start)
  <1> DEFINE bad == {m \in Nat : ~ \E f : AreLevels(f, m, ps, fs, start)}
  <1> SUFFICES ASSUME bad # {} PROVE FALSE
    OBVIOUS
  <1>1. PICK m \in bad : \A k \in bad : m <= k
    BY LeastNat
  <1>2. m # 0
    <2> DEFINE f == [k \in 0 .. 0 |-> <<start>>]
    <2>1. AreLevels(f, 0, ps, fs, start)
      BY DEF AreLevels
    <2> QED
      BY <1>1, <2>1
  <1>3. m \in Nat /\ m - 1 \in Nat /\ m - 1 \notin bad
    BY <1>1, <1>2
  <1>4. PICK g : AreLevels(g, m - 1, ps, fs, start)
    BY <1>3
  <1> DEFINE f == [k \in 0 .. m |-> IF k = m THEN NextLevel(ps, fs, g[m - 1]) ELSE g[k]]
  <1>5. \A k \in 0 .. m - 1 : f[k] = g[k]
    BY <1>3
  <1>6. ASSUME NEW k \in 0 .. m
        PROVE  f[k] = IF k = 0 THEN <<start>> ELSE NextLevel(ps, fs, f[k - 1])
    <2>1. CASE k = m
      BY <1>2, <1>3, <1>5, <2>1
    <2>2. CASE k # m
      <3>1. k \in 0 .. m - 1 /\ (k # 0 => k - 1 \in 0 .. m - 1)
        BY <1>3, <2>2
      <3>2. g[k] = IF k = 0 THEN <<start>> ELSE NextLevel(ps, fs, g[k - 1])
        BY <1>4, <3>1, Zenon DEF AreLevels
      <3> QED
        BY <1>5, <3>1, <3>2
    <2> QED
      BY <2>1, <2>2
  <1>7. f = [k \in 0 .. m |-> f[k]]
    OBVIOUS
  <1> HIDE DEF f
  <1>8. AreLevels(f, m, ps, fs, start)
    BY <1>6, <1>7 DEF AreLevels
  <1> QED
    BY <1>1, <1>8

LEMMA LevelsIn ==
    ASSUME NEW ps, NEW fs, NEW S, \A c \in S \cap fs : ParentsOf(ps[c]) \subseteq S,
           NEW start \in S, NEW k \in 0 .. MaxCommits
    PROVE  Levels(ps, fs, start)[k] \in Seq(S)
  <1> DEFINE f == CHOOSE g : AreLevels(g, MaxCommits, ps, fs, start)
  <1>1. Levels(ps, fs, start) = f
    BY DEF Levels, AreLevels
  <1>2. MaxCommits \in Nat
    BY CommitAssumption
  <1>3. AreLevels(f, MaxCommits, ps, fs, start)
    BY <1>2, LevelsExist, Zenon
  <1> HIDE DEF f
  <1>4. \A j \in 0 .. MaxCommits : f[j] = IF j = 0 THEN <<start>> ELSE NextLevel(ps, fs, f[j - 1])
    BY <1>3, Zenon DEF AreLevels
  <1> DEFINE bad == {j \in 0 .. MaxCommits : f[j] \notin Seq(S)}
  <1>5. ASSUME bad # {} PROVE FALSE
    <2>1. bad \subseteq Nat
      BY <1>2
    <2>2. PICK j \in bad : \A i \in bad : j <= i
      BY <1>5, <2>1, LeastNat
    <2>3. CASE j = 0
      <3>1. f[j] = <<start>>
        BY <1>4, <2>2, <2>3
      <3>2. <<start>> \in Seq(S)
        OBVIOUS
      <3> QED
        BY <2>2, <3>1, <3>2, Zenon
    <2>4. CASE j # 0
      <3>1. j \in 0 .. MaxCommits /\ j - 1 \in 0 .. MaxCommits /\ j - 1 \notin bad
        BY <1>2, <2>2, <2>4
      <3>2. f[j - 1] \in Seq(S)
        BY <3>1
      <3>3. f[j] = NextLevel(ps, fs, f[j - 1])
        BY <1>4, <2>4, <3>1
      <3>4. f[j] \in Seq(S)
        BY <3>2, <3>3, NextLevelIn
      <3> QED
        BY <2>2, <3>4
    <2> QED
      BY <2>3, <2>4
  <1> QED
    BY <1>1, <1>5

LEMMA MergeBaseIn ==
    ASSUME NEW ps, NEW fs, NEW S, \A c \in S \cap fs : ParentsOf(ps[c]) \subseteq S,
           NEW ours, NEW theirs \in S
    PROVE  MergeBase(ps, fs, ours, theirs) \in S \cup {None}
  <1> DEFINE known == Reach(ps, fs, ours)
             level == Levels(ps, fs, theirs)
             Hits(q) == {i \in DOMAIN q : q[i] \in known}
             near == {k \in 0 .. MaxCommits : Hits(level[k]) # {}}
             k0 == CHOOSE k \in near : \A j \in near : k <= j
             q0 == level[k0]
             i0 == CHOOSE i \in Hits(q0) : \A j \in Hits(q0) : i <= j
  <1>1. MergeBase(ps, fs, ours, theirs) = IF near = {} THEN None ELSE q0[i0]
    BY DEF MergeBase
  <1>2. \A k \in 0 .. MaxCommits : level[k] \in Seq(S)
    BY LevelsIn
  <1> HIDE DEF known, level
  <1>3. ASSUME near # {} PROVE q0[i0] \in S
    <2>1. near \subseteq Nat
      OBVIOUS
    <2>2. \E k \in near : \A j \in near : k <= j
      BY <1>3, <2>1, LeastNat
    <2>3. k0 \in near
      BY <2>2
    <2>4. k0 \in 0 .. MaxCommits /\ Hits(q0) # {}
      BY <2>3
    <2> HIDE DEF k0
    <2>5. q0 \in Seq(S)
      BY <1>2, <2>4
    <2> HIDE DEF q0, near
    <2>6. Hits(q0) \subseteq Nat /\ Hits(q0) \subseteq DOMAIN q0
      BY <2>5
    <2> DEFINE T == Hits(q0)
    <2> HIDE DEF Hits
    <2>7. \E i \in T : \A j \in T : i <= j
      BY <2>4, <2>6, LeastNat
    <2>8. i0 \in T
      BY <2>7
    <2> HIDE DEF i0, T
    <2>9. i0 \in DOMAIN q0
      BY <2>6, <2>8 DEF T
    <2> QED
      BY <2>5, <2>9
  <1> QED
    BY <1>1, <1>3

-----------------------------------------------------------------------------
(* The local branch. *)

(* One process at a time in a clone. *)
Alone == \A p, q \in Proc : Home[p] = Home[q] => p = q

(* What LocalTipAdvances says of one step. *)
TipStep ==
    \A r \in Repo : tip'[r] # tip[r] /\ tip[r] # None => tip[r] \in Reach(parents', Commit, tip'[r])

LEMMA TipTypes ==
    ASSUME SyncInv, TipInv
    PROVE  /\ Graph(parents) /\ made \in CommitOrNone /\ made \in Nat /\ 1 .. made \subseteq Commit
           /\ ref \in 0 .. made /\ ref \in CommitOrNone
           /\ \A r \in Repo : tip[r] \in 0 .. made /\ have[r] \subseteq Commit
           /\ \A p \in Proc : /\ sess[p] \in SessionState /\ Sound(sess[p], Home[p])
                              /\ MovesOn(sess[p], Home[p]) /\ Home[p] \in Repo
                              /\ sess[p].ours \in 0 .. made /\ sess[p].theirs \in 0 .. made
  <1>1. made \in CommitOrNone /\ made \in Nat /\ 1 .. made \subseteq Commit
    BY CommitAssumption DEF SyncInv, TypeOK, CommitOrNone, Commit
  <1>2. \A h \in CommitOrNone : h <= made => h \in 0 .. made
    BY <1>1 DEF CommitOrNone
  <1>3. Graph(parents)
    BY DEF Graph, SyncInv, TypeOK, TipInv
  <1>4. ref \in 0 .. made /\ ref \in CommitOrNone
    BY <1>2 DEF SyncInv, TypeOK, TipInv
  <1>5. \A r \in Repo : tip[r] \in 0 .. made /\ have[r] \subseteq Commit
    BY <1>2 DEF SyncInv, TypeOK, TipInv
  <1>6. ASSUME NEW p \in Proc
        PROVE  /\ sess[p] \in SessionState /\ Sound(sess[p], Home[p])
               /\ MovesOn(sess[p], Home[p]) /\ Home[p] \in Repo
               /\ sess[p].ours \in 0 .. made /\ sess[p].theirs \in 0 .. made
    <2>1. /\ sess[p] \in SessionState /\ Sound(sess[p], Home[p]) /\ MovesOn(sess[p], Home[p])
          /\ Home[p] \in Repo
      BY SessionTypes DEF TipInv
    <2>2. sess[p].ours \in CommitOrNone /\ sess[p].theirs \in CommitOrNone
      BY <2>1 DEF SessionState
    <2> QED
      BY <1>2, <2>1, <2>2 DEF MovesOn
  <1> QED
    BY <1>1, <1>3, <1>4, <1>5, <1>6

LEMMA HistoryKept ==
    ASSUME SyncInv, TipInv, GraphGrows, NEW h \in 0 .. made
    PROVE  History(h)' = History(h)
  BY TipTypes, HistoryStays DEF GraphGrows, History

(* The others go on as they were. *)
LEMMA OtherMovesOn ==
    ASSUME SyncInv, TipInv, GraphGrows, NEW q \in Proc, sess'[q] = sess[q],
           sess[q].pc = "idle" \/ tip'[Home[q]] = tip[Home[q]]
    PROVE  MovesOn(sess[q], Home[q])'
  <1>1. PICK s \in SessionState : s = sess[q]
    BY TipTypes
  <1>2. MovesOn(s, Home[q]) /\ s.ours \in 0 .. made /\ s.theirs \in 0 .. made
    BY <1>1, TipTypes
  <1>3. History(s.theirs)' = History(s.theirs)
    BY <1>2, HistoryKept
  <1>4. s.ours <= made' /\ s.theirs <= made'
    BY <1>2, TipTypes DEF GraphGrows
  <1>5. sess'[q] = s /\ (s.pc = "idle" \/ tip'[Home[q]] = tip[Home[q]])
    BY <1>1
  <1>6. MovesOn(s, Home[q])'
    BY <1>2, <1>3, <1>4, <1>5 DEF MovesOn
  <1> QED
    BY <1>5, <1>6 DEF MovesOn

(* A step that makes no commit, and moves at most the tip of its own clone.  *)
LEMMA TipKept ==
    ASSUME SyncInv, TipInv, Alone, UNCHANGED <<parents, made>>, ref' \in 0 .. made,
           NEW p \in Proc, NEW s, Become(p, s),
           \A r \in Repo : r # Home[p] => tip'[r] = tip[r], tip'[Home[p]] \in 0 .. made,
           tip'[Home[p]] # tip[Home[p]] /\ tip[Home[p]] # None =>
              tip[Home[p]] \in Reach(parents, Commit, tip'[Home[p]]),
           sess'[p] = s => MovesOn(sess[p], Home[p])'
    PROVE  TipInv' /\ TipStep
  <1>1. GraphGrows /\ made \in Nat
    BY TipTypes DEF GraphGrows
  <1>2. sess' = [sess EXCEPT ![p] = s] /\ sess \in [Proc -> SessionState]
    BY DEF Become, SyncInv, TypeOK
  <1>3. ASSUME NEW q \in Proc PROVE MovesOn(sess[q], Home[q])'
    <2>1. CASE q = p
      BY <1>2, <2>1
    <2>2. CASE q # p
      <3>1. sess'[q] = sess[q] /\ tip'[Home[q]] = tip[Home[q]]
        BY <1>2, <2>2, SyncAssumption DEF Alone
      <3> QED
        BY <1>1, <3>1, OtherMovesOn
    <2> QED
      BY <2>1, <2>2
  <1>4. \A r \in Repo : tip'[r] <= made
    BY <1>1, TipTypes DEF TipInv
  <1>5. ref' <= made
    BY <1>1
  <1>6. TipStep
    BY DEF TipStep
  <1> QED
    BY <1>3, <1>4, <1>5, <1>6 DEF TipInv

(* A step of a push: neither a tip nor what was read of one changes.         *)
LEMMA PushStep ==
    ASSUME SyncInv, TipInv, Alone, UNCHANGED <<parents, made, tip>>, ref' \in 0 .. made,
           NEW p \in Proc, NEW s, Become(p, s), s.pc \notin {"forward", "merge"},
           s.ours \in {None, sess[p].ours}, s.theirs \in {None, sess[p].theirs}
    PROVE  TipInv' /\ TipStep
  <1>1. s.ours \in 0 .. made /\ s.theirs \in 0 .. made /\ made \in Nat /\ tip[Home[p]] \in 0 .. made
    BY TipTypes DEF None
  <1>2. s.ours <= made /\ s.theirs <= made
    BY <1>1
  <1>3. sess'[p] = s => MovesOn(sess[p], Home[p])'
    BY <1>2 DEF MovesOn
  <1> QED
    BY <1>1, <1>3, TipKept

LEMMA TipStill ==
    ASSUME SyncInv, TipInv, UNCHANGED <<parents, made, tip, sess>>, ref' \in 0 .. made
    PROVE  TipInv' /\ TipStep
  <1>1. ref' <= made
    BY TipTypes
  <1>2. TipInv'
    BY <1>1 DEF TipInv, MovesOn, History
  <1> QED
    BY <1>2 DEF TipStep

(* The commands that push. *)
LEMMA PushesKeepTip ==
    ASSUME SyncInv, TipInv, Alone, NEW p \in Proc,
           \/ ExpectParent(p) \/ FlushFirst(p) \/ StartPush(p) \/ PushEntry(p) \/ RejectToken(p)
           \/ RemoveDelivered(p) \/ LoadQueue(p) \/ SaveQueue(p) \/ DropOwn(p) \/ Kill(p)
    PROVE  TipInv' /\ TipStep
  <1>1. ref \in 0 .. made /\ sess[p] \in SessionState
    BY TipTypes
  <1>2. Idle.pc = "idle" /\ Idle.ours = None /\ Idle.theirs = None
    BY DEF Idle
  <1> DEFINE Quiet(s) == /\ s.pc \notin {"forward", "merge"} /\ s.ours \in {None, sess[p].ours}
                         /\ s.theirs \in {None, sess[p].theirs}
  <1>3. ASSUME NEW s, Become(p, s), Quiet(s), UNCHANGED <<parents, made, tip, ref>>
        PROVE  TipInv' /\ TipStep
    BY <1>1, <1>3, PushStep
  <1>4. CASE ExpectParent(p)
    <2> DEFINE s == [sess[p] EXCEPT !.pc = "flush",
                                    !.expected = Expected(queue[Home[p]], sess[p].own)]
    <2>1. Become(p, s) /\ UNCHANGED <<parents, made, tip, ref>>
      BY <1>4 DEF ExpectParent, clone, registry
    <2>2. Quiet(s)
      BY <1>1 DEF SessionState
    <2> QED
      BY <1>3, <2>1, <2>2
  <1>5. CASE FlushFirst(p)
    <2> DEFINE s == [sess[p] EXCEPT !.pc = "push", !.todo = queue[Home[p]] \ {sess[p].own}]
    <2>1. Become(p, s) /\ UNCHANGED <<parents, made, tip, ref>>
      BY <1>5 DEF FlushFirst, clone, registry
    <2>2. Quiet(s)
      BY <1>1 DEF SessionState
    <2> QED
      BY <1>3, <2>1, <2>2
  <1>6. CASE StartPush(p)
    <2> DEFINE s == [Idle EXCEPT !.pc = "push", !.todo = queue[Home[p]]]
    <2>1. Become(p, s) /\ UNCHANGED <<parents, made, tip, ref>>
      BY <1>6 DEF StartPush, clone, registry
    <2>2. Quiet(s)
      BY DEF Idle
    <2> QED
      BY <1>3, <2>1, <2>2
  <1>7. CASE PushEntry(p)
    <2>1. PICK c \in Commit : Become(p, [sess[p] EXCEPT !.pc = "swap"]) \/ Advance(p, c, FALSE)
      BY <1>7 DEF PushEntry
    <2>2. UNCHANGED <<parents, made, tip, ref>>
      BY <1>7 DEF PushEntry, clone
    <2> DEFINE s == [sess[p] EXCEPT !.pc = "swap"]
               t == [sess[p] EXCEPT !.pc = "push", !.todo = @ \ {c}]
    <2>3. Quiet(s) /\ Quiet(t)
      BY <1>1 DEF SessionState
    <2>4. Advance(p, c, FALSE) => Become(p, t)
      BY <1>1 DEF Advance, Become, SessionState
    <2> HIDE DEF s, t, Quiet
    <2> QED
      BY <1>3, <2>1, <2>2, <2>3, <2>4 DEF s
  <1>8. CASE RejectToken(p)
    <2> DEFINE s == [sess[p] EXCEPT !.todo = {}]
    <2>1. Become(p, s) /\ UNCHANGED <<parents, made, tip, ref>> /\ sess[p].pc = "push"
      BY <1>8 DEF RejectToken, clone, registry, At
    <2>2. Quiet(s)
      BY <1>1, <2>1 DEF SessionState
    <2> QED
      BY <1>3, <2>1, <2>2
  <1>9. CASE RemoveDelivered(p)
    <2> DEFINE t == [sess[p] EXCEPT !.pc = "pushOwn", !.delivered = {}]
               s == IF sess[p].own = None THEN Idle ELSE t
    <2>1. Become(p, s) /\ UNCHANGED <<parents, made, tip, ref>>
      BY <1>9 DEF RemoveDelivered, registry
    <2>2. Quiet(t) /\ Quiet(Idle)
      BY <1>1, <1>2 DEF SessionState
    <2> HIDE DEF t
    <2>3. Quiet(s)
      BY <2>2
    <2> QED
      BY <1>3, <2>1, <2>3
  <1>10. CASE LoadQueue(p)
    <2> DEFINE q == queue[Home[p]]
               t == [sess[p] EXCEPT !.pc = "dropOwn"]
               u == [sess[p] EXCEPT !.pc = "save", !.read = q]
               s == IF q \cap ParentsOf(parents[sess[p].own]) = {} THEN t ELSE u
    <2>1. Become(p, s) /\ UNCHANGED <<parents, made, tip, ref>>
      BY <1>10 DEF LoadQueue, clone, registry
    <2>2. Quiet(t) /\ Quiet(u)
      BY <1>1 DEF SessionState
    <2> HIDE DEF t, u
    <2>3. Quiet(s)
      BY <2>2
    <2> QED
      BY <1>3, <2>1, <2>3
  <1>11. CASE SaveQueue(p)
    <2> DEFINE s == [sess[p] EXCEPT !.pc = "dropOwn", !.read = {}]
    <2>1. Become(p, s) /\ UNCHANGED <<parents, made, tip, ref>>
      BY <1>11 DEF SaveQueue, registry
    <2>2. Quiet(s)
      BY <1>1 DEF SessionState
    <2> QED
      BY <1>3, <2>1, <2>2
  <1>12. CASE DropOwn(p) \/ Kill(p)
    <2>1. Become(p, Idle) /\ UNCHANGED <<parents, made, tip, ref>>
      BY <1>12 DEF DropOwn, Kill, clone, registry
    <2>2. Quiet(Idle)
      BY <1>2
    <2> QED
      BY <1>3, <2>1, <2>2
  <1> QED
    BY <1>4, <1>5, <1>6, <1>7, <1>8, <1>9, <1>10, <1>11, <1>12

(* The steps of a push that move the ref, or put a commit back in the queue. *)
LEMMA SwapsKeepTip ==
    ASSUME SyncInv, TipInv, Alone, NEW p \in Proc, SwapEntry(p) \/ PushOwn(p) \/ SwapOwn(p)
    PROVE  TipInv' /\ TipStep
  <1>1. ref \in 0 .. made /\ sess[p] \in SessionState /\ made \in Nat
    BY TipTypes
  <1>2. Idle.pc = "idle" /\ Idle.ours = None /\ Idle.theirs = None
    BY DEF Idle
  <1> DEFINE Quiet(s) == /\ s.pc \notin {"forward", "merge"} /\ s.ours \in {None, sess[p].ours}
                         /\ s.theirs \in {None, sess[p].theirs}
  <1>3. ASSUME NEW s, Become(p, s), Quiet(s), UNCHANGED <<parents, made, tip>>, ref' \in 0 .. made
        PROVE  TipInv' /\ TipStep
    BY <1>3, PushStep
  <1>4. KeepQueued(p) => Become(p, Idle) /\ Quiet(Idle)
    BY <1>2 DEF KeepQueued
  <1>5. CASE SwapEntry(p)
    <2>1. PICK c \in Commit : IsNext(p, c) /\ ref' \in {ref, c} /\ \E done : Advance(p, c, done)
      BY <1>5 DEF SwapEntry
    <2>2. UNCHANGED <<parents, made, tip>>
      BY <1>5 DEF SwapEntry, clone
    <2>3. PICK done : Advance(p, c, done)
      BY <2>1
    <2> DEFINE gone == IF done THEN sess[p].delivered \cup {c} ELSE sess[p].delivered
               s == [sess[p] EXCEPT !.pc = "push", !.todo = @ \ {c}, !.delivered = gone]
    <2>4. Become(p, s)
      BY <1>1, <2>3 DEF Advance, Become, SessionState
    <2> HIDE DEF gone
    <2>5. Quiet(s)
      BY <1>1 DEF SessionState
    <2>6. ref' \in 0 .. made
      <3>1. c \in 1 .. made
        BY <2>1, SessionTypes DEF IsNext, Sound
      <3> QED
        BY <1>1, <2>1, <3>1
    <2> HIDE DEF s, Quiet
    <2> QED
      BY <1>3, <2>2, <2>4, <2>5, <2>6
  <1>6. CASE PushOwn(p)
    <2> DEFINE s == [sess[p] EXCEPT !.pc = "swapOwn"]
    <2>1. Become(p, s) \/ KeepQueued(p)
      BY <1>6 DEF PushOwn
    <2>2. UNCHANGED <<parents, made, tip>> /\ ref' = ref
      BY <1>6 DEF PushOwn
    <2>3. Quiet(s)
      BY <1>1 DEF SessionState
    <2> HIDE DEF s, Quiet
    <2> QED
      BY <1>1, <1>3, <1>4, <2>1, <2>2, <2>3
  <1>7. CASE SwapOwn(p)
    <2> DEFINE pc == IF IsMerge(sess[p].own) THEN "load" ELSE "dropOwn"
               s == [sess[p] EXCEPT !.pc = pc]
    <2>1. (Become(p, s) \/ KeepQueued(p)) /\ ref' \in {ref, sess[p].own} /\ sess[p].pc = "swapOwn"
      BY <1>7 DEF SwapOwn, At
    <2>2. UNCHANGED <<parents, made, tip>>
      BY <1>7 DEF SwapOwn
    <2>3. pc \in {"load", "dropOwn"}
      OBVIOUS
    <2> HIDE DEF pc
    <2>4. Quiet(s)
      BY <1>1, <2>3 DEF SessionState
    <2>5. ref' \in 0 .. made
      <3>1. sess[p].own \in 1 .. made
        BY <2>1, SessionTypes DEF Sound
      <3> QED
        BY <1>1, <2>1, <3>1
    <2> HIDE DEF s, Quiet
    <2> QED
      BY <1>3, <1>4, <2>1, <2>2, <2>4, <2>5
  <1> QED
    BY <1>5, <1>6, <1>7

LEMMA LateSwapKeepsTip ==
    ASSUME SyncInv, TipInv, LateSwap
    PROVE  TipInv' /\ TipStep
  <1>1. PICK w \in wire : ref' = IF Swaps(w.expected) THEN w.commit ELSE ref
    BY DEF LateSwap
  <1>2. w.commit \in 1 .. made /\ ref \in 0 .. made /\ made \in Nat
    BY TipTypes DEF SyncInv, Requests
  <1>3. ref' \in 0 .. made
    BY <1>1, <1>2
  <1> QED
    BY <1>3, TipStill DEF LateSwap, clone

(* The fast-forward of a pull: the local tip is an ancestor of the remote    *)
(* one, by the files of the clone.                                           *)
LEMMA PullFetchKeepsTip ==
    ASSUME SyncInv, SyncInv', TipInv, Alone, NEW p \in Proc, PullFetch(p)
    PROVE  TipInv' /\ TipStep
  <1> DEFINE r == Home[p]
             can == CanForward(p, have'[r])
             pc == IF can THEN "forward" ELSE "diverged"
             s == [Idle EXCEPT !.pc = pc, !.theirs = ref]
  <1>1. Become(p, s) /\ UNCHANGED <<parents, made, tip, ref>>
    BY DEF PullFetch, registry
  <1>2. ref \in 0 .. made /\ ref \in CommitOrNone /\ made \in Nat /\ tip[r] \in 0 .. made /\ r \in Repo
    BY TipTypes
  <1>3. can /\ tip[r] # None => tip[r] \in History(ref)
    <2>1. have'[r] \in SUBSET Commit
      BY <1>2 DEF SyncInv, TypeOK
    <2>2. Reach(parents, have'[r], ref) \subseteq History(ref)
      BY <1>2, <2>1, TipTypes, HistoryHoldsWalk DEF History
    <2> QED
      BY <2>2 DEF CanForward, IsAncestor
  <1>4. pc \in {"forward", "diverged"} /\ (pc = "forward" => can)
    OBVIOUS
  <1> HIDE DEF can, pc
  <1>5. sess'[p] = s => MovesOn(sess[p], Home[p])'
    <2> SUFFICES ASSUME sess'[p] = s PROVE MovesOn(sess[p], Home[p])'
      OBVIOUS
    <2>1. sess'[p].pc = pc /\ sess'[p].theirs = ref /\ sess'[p].ours = None
      BY DEF Idle
    <2>2. None <= made /\ ref <= made
      BY <1>2 DEF None
    <2>3. sess'[p].pc = "forward" /\ tip'[r] # None => tip'[r] \in History(sess[p].theirs)'
      BY <1>1, <1>3, <1>4, <2>1 DEF History
    <2> QED
      BY <1>1, <1>4, <2>1, <2>2, <2>3 DEF MovesOn
  <1> HIDE DEF s
  <1> QED
    BY <1>1, <1>2, <1>5, TipKept

LEMMA PullKilledKeepsTip ==
    ASSUME SyncInv, TipInv, NEW p \in Proc, PullKilled(p)
    PROVE  TipInv' /\ TipStep
  BY TipTypes, TipStill DEF PullKilled, registry

LEMMA FastForwardKeepsTip ==
    ASSUME SyncInv, TipInv, Alone, NEW p \in Proc, FastForward(p)
    PROVE  TipInv' /\ TipStep
  <1> DEFINE r == Home[p]
  <1>1. /\ sess[p].pc = "forward" /\ Become(p, Idle) /\ UNCHANGED <<parents, made, ref>>
        /\ tip' = [tip EXCEPT ![r] = sess[p].theirs]
    BY DEF FastForward, At, registry
  <1>2. /\ r \in Repo /\ tip'[r] = sess[p].theirs
        /\ \A q \in Repo : q # r => tip'[q] = tip[q]
    BY <1>1, SyncAssumption DEF SyncInv, TypeOK
  <1>3. sess[p].theirs \in 0 .. made /\ ref \in 0 .. made /\ made \in Nat
        /\ (tip[r] # None => tip[r] \in History(sess[p].theirs))
    BY <1>1, TipTypes DEF MovesOn
  <1>4. sess'[p] = Idle => MovesOn(sess[p], Home[p])'
    BY <1>1, <1>3 DEF MovesOn, Idle, None
  <1> QED
    BY <1>1, <1>2, <1>3, <1>4, TipKept DEF History

LEMMA StartMergeKeepsTip ==
    ASSUME SyncInv, TipInv, Alone, NEW p \in Proc, StartMerge(p)
    PROVE  TipInv' /\ TipStep
  <1> DEFINE r == Home[p]
             theirs == sess[p].theirs
             base == MergeBase(parents, have[r], tip[r], theirs)
             pc == IF base = tip[r] THEN "forward" ELSE "merge"
             next == [sess[p] EXCEPT !.pc = pc, !.ours = tip[r]]
             s == IF theirs = tip[r] \/ base = theirs THEN Idle ELSE next
  <1>1. sess[p].pc = "diverged" /\ Become(p, s) /\ UNCHANGED <<parents, made, tip, ref>>
    BY DEF StartMerge, At, clone, registry
  <1>2. /\ theirs # None /\ theirs \in 0 .. made /\ made \in Nat /\ tip[r] \in 0 .. made
        /\ ref \in 0 .. made /\ sess[p] \in SessionState /\ theirs \in CommitOrNone
        /\ Graph(parents) /\ r \in Repo
    BY <1>1, TipTypes DEF Sound, SessionState
  <1>3. base \in History(theirs) \cup {None}
    <2>1. theirs \in History(theirs) /\ \A c \in History(theirs) : ParentsOf(parents[c]) \subseteq History(theirs)
      BY <1>2, HistoryCloses DEF History
    <2>2. PICK S : S = History(theirs)
      OBVIOUS
    <2>3. theirs \in S /\ \A c \in S \cap have[r] : ParentsOf(parents[c]) \subseteq S
      BY <2>1, <2>2
    <2>4. base \in S \cup {None}
      BY <2>3, MergeBaseIn
    <2> QED
      BY <2>2, <2>4
  <1>4. pc \in {"forward", "merge"} /\ (pc = "forward" => base = tip[r])
    OBVIOUS
  <1> HIDE DEF base, pc
  <1>5. s = Idle \/ s = next
    OBVIOUS
  <1> HIDE DEF s
  <1>6. sess'[p] = s => MovesOn(sess[p], Home[p])'
    <2> SUFFICES ASSUME sess'[p] = s PROVE MovesOn(sess[p], Home[p])'
      OBVIOUS
    <2>1. CASE s = Idle
      <3>1. sess'[p].pc = "idle" /\ sess'[p].theirs = 0 /\ sess'[p].ours = 0
        BY <2>1 DEF Idle, None
      <3> QED
        BY <1>1, <1>2, <3>1 DEF MovesOn
    <2>2. CASE s = next
      <3>1. sess'[p].pc = pc /\ sess'[p].theirs = theirs /\ sess'[p].ours = tip[r]
        BY <1>2, <2>2 DEF SessionState
      <3>2. theirs <= made /\ tip[r] <= made
        BY <1>2
      <3>3. sess'[p].pc = "forward" /\ tip'[r] # None => tip'[r] \in History(sess[p].theirs)'
        BY <1>1, <1>3, <1>4, <3>1 DEF History
      <3> QED
        BY <1>1, <3>1, <3>2, <3>3 DEF MovesOn
    <2> QED
      BY <1>5, <2>1, <2>2
  <1> QED
    BY <1>1, <1>2, <1>6, TipKept

(* A new commit on top of the tip, whether it becomes the tip or not.        *)
LEMMA PersistKeepsTip ==
    ASSUME SyncInv, SyncInv', TipInv, Alone, NEW p \in Proc, NEW ps \in Parentage, Persist(p, ps),
           UNCHANGED registry, ps.first = tip[Home[p]], ps.second \in 0 .. made,
           tip' \in {tip, [tip EXCEPT ![Home[p]] = made']},
           \/ sess' = sess /\ sess[p].pc = "idle"
           \/ Become(p, [Idle EXCEPT !.pc = "begin", !.own = made'])
    PROVE  TipInv' /\ TipStep
  <1> DEFINE r == Home[p]
  <1>1. PICK c \in Commit : c = made + 1
    BY DEF Persist
  <1>2. /\ made' = c /\ parents' = [parents EXCEPT ![c] = ps] /\ parents \in [Commit -> Parentage]
        /\ ref' = ref
    BY <1>1 DEF Persist, SyncInv, TypeOK, registry
  <1>3. /\ made \in Nat /\ made' \in Nat /\ made <= made' /\ c \notin 1 .. made /\ r \in Repo
        /\ 1 .. made \subseteq Commit /\ ps.first \in 0 .. made /\ c \in Int
    BY <1>1, <1>2, TipTypes
  <1>4. /\ parents' \in [Commit -> Parentage] /\ parents'[c] = ps
        /\ \A d \in Commit : d # c => parents'[d] = parents[d]
    BY <1>2
  <1>5. Descending(parents')
    <2>1. ASSUME NEW d \in Commit, NEW b \in ParentsOf(parents'[d]) PROVE b < d
      <3>1. CASE d = c
        <4>1. b \in 0 .. made
          BY <1>3, <1>4, <2>1, <3>1 DEF ParentsOf
        <4> QED
          BY <1>1, <1>3, <3>1, <4>1
      <3>2. CASE d # c
        BY <1>4, <2>1, <3>2 DEF TipInv, Descending
      <3> QED
        BY <3>1, <3>2
    <2> QED
      BY <2>1 DEF Descending
  <1>6. GraphGrows
    <2>1. Graph(parents')
      BY <1>4, <1>5 DEF Graph
    <2>2. \A d \in 1 .. made : d \in Commit /\ d # c
      BY <1>3
    <2> QED
      BY <1>3, <1>4, <2>1, <2>2 DEF GraphGrows
  <1>7. ps.first # None => ps.first \in Reach(parents', Commit, c)
    <2>1. Graph(parents') /\ c \in CommitOrNone /\ c # None
      BY <1>6, CommitTypes DEF GraphGrows
    <2>2. c \in Reach(parents', Commit, c)
          /\ ParentsOf(parents'[c]) \subseteq Reach(parents', Commit, c)
      BY <2>1, HistoryCloses
    <2> QED
      BY <1>4, <2>2 DEF ParentsOf
  <1>8. \A q \in Repo : tip'[q] = tip[q] \/ (q = r /\ tip'[q] = c)
    BY <1>2 DEF SyncInv, TypeOK
  <1>9. \A q \in Repo : tip[q] \in 0 .. made
    BY TipTypes
  <1>10. TipStep
    BY <1>7, <1>8 DEF TipStep
  <1>11. \A q \in Repo : tip'[q] <= made'
    BY <1>2, <1>3, <1>8, <1>9
  <1>12. ref' <= made'
    BY <1>2, <1>3, TipTypes
  <1>13. ASSUME NEW q \in Proc PROVE MovesOn(sess[q], Home[q])'
    <2>1. ASSUME sess'[q] = sess[q], q # p \/ sess[q].pc = "idle" PROVE MovesOn(sess[q], Home[q])'
      <3>1. sess[q].pc = "idle" \/ tip'[Home[q]] = tip[Home[q]]
        BY <1>8, <2>1, SyncAssumption DEF Alone
      <3> QED
        BY <1>6, <2>1, <3>1, OtherMovesOn
    <2>2. CASE sess' = sess /\ sess[p].pc = "idle"
      BY <2>1, <2>2
    <2>3. CASE Become(p, [Idle EXCEPT !.pc = "begin", !.own = made'])
      <3>1. CASE q = p
        <4>1. sess'[p] = [Idle EXCEPT !.pc = "begin", !.own = c]
          BY <1>2, <2>3 DEF Become, SyncInv, TypeOK
        <4>2. sess'[q].pc = "begin" /\ sess'[q].ours = None /\ sess'[q].theirs = None
          BY <3>1, <4>1 DEF Idle
        <4>3. None <= made'
          BY <1>3 DEF None
        <4> QED
          BY <4>2, <4>3 DEF MovesOn
      <3>2. CASE q # p
        <4>1. sess'[q] = sess[q]
          BY <2>3, <3>2 DEF Become, SyncInv, TypeOK
        <4> QED
          BY <2>1, <3>2, <4>1
      <3> QED
        BY <3>1, <3>2
    <2> QED
      BY <2>2, <2>3
  <1> QED
    BY <1>5, <1>10, <1>11, <1>12, <1>13 DEF TipInv

LEMMA CommitKeepsTip ==
    ASSUME SyncInv, SyncInv', TipInv, Alone, NEW p \in Proc, CommitStaged(p) \/ CommitKilled(p)
    PROVE  TipInv' /\ TipStep
  <1> DEFINE ps == [first |-> tip[Home[p]], second |-> None]
  <1>1. /\ Persist(p, ps) /\ UNCHANGED registry /\ sess[p].pc = "idle"
        /\ tip' \in {tip, [tip EXCEPT ![Home[p]] = made']}
        /\ sess' = sess \/ Become(p, [Idle EXCEPT !.pc = "begin", !.own = made'])
    BY DEF CommitStaged, CommitKilled, At
  <1>2. ps \in Parentage /\ ps.first = tip[Home[p]] /\ ps.second \in 0 .. made
    <2>1. ps \in Parentage
      BY SyncAssumption, TipParent
    <2> QED
      BY <2>1, TipTypes DEF None
  <1> HIDE DEF ps
  <1> QED
    BY <1>1, <1>2, PersistKeepsTip

LEMMA MergeCommitKeepsTip ==
    ASSUME SyncInv, SyncInv', TipInv, Alone, NEW p \in Proc, MergeCommit(p)
    PROVE  TipInv' /\ TipStep
  <1> DEFINE ps == [first |-> sess[p].ours, second |-> sess[p].theirs]
  <1>1. /\ Persist(p, ps) /\ UNCHANGED registry /\ sess[p].pc = "merge"
        /\ tip' \in {tip, [tip EXCEPT ![Home[p]] = made']}
        /\ Become(p, [Idle EXCEPT !.pc = "begin", !.own = made'])
    BY DEF MergeCommit, At
  <1>2. ps \in Parentage /\ ps.first = tip[Home[p]] /\ ps.second \in 0 .. made
    BY <1>1, TipTypes DEF MovesOn, SessionState, Parentage
  <1> HIDE DEF ps
  <1> QED
    BY <1>1, <1>2, PersistKeepsTip

LEMMA InitKeepsTip == Init => TipInv
  <1> SUFFICES ASSUME Init PROVE TipInv
    OBVIOUS
  <1>1. Descending(parents)
    BY DEF Init, Descending, ParentsOf, NoParents
  <1>2. ref <= made /\ \A r \in Repo : tip[r] <= made
    BY DEF Init, None
  <1>3. \A p \in Proc : MovesOn(sess[p], Home[p])
    BY DEF Init, MovesOn, Idle, None
  <1> QED
    BY <1>1, <1>2, <1>3 DEF TipInv

LEMMA StepKeepsTip ==
    ASSUME SyncInv, SyncInv', TipInv, Alone, [Next]_vars
    PROVE  TipInv' /\ TipStep
  <1>1. ASSUME NEW p \in Proc, Continue(p) PROVE TipInv' /\ TipStep
    BY <1>1, PushesKeepTip, SwapsKeepTip, FastForwardKeepsTip, StartMergeKeepsTip,
       MergeCommitKeepsTip DEF Continue
  <1>2. ASSUME NEW p \in Proc,
               \/ CommitStaged(p) \/ CommitKilled(p) \/ StartPush(p) \/ PullFetch(p)
               \/ PullKilled(p) \/ Continue(p) \/ RejectToken(p) \/ Kill(p)
        PROVE  TipInv' /\ TipStep
    BY <1>1, <1>2, CommitKeepsTip, PushesKeepTip, PullFetchKeepsTip, PullKilledKeepsTip
  <1>3. CASE UNCHANGED vars
    BY <1>3, TipTypes, TipStill DEF vars, registry, clone
  <1> QED
    BY <1>2, <1>3, LateSwapKeepsTip DEF Next

(* With one process at a time in a clone, a pull, a merge or a commit only   *)
(* moves the local branch to a commit that has the old tip in its history:   *)
(* CanForward and find_merge_base walk the files, the tip is read before.    *)
THEOREM LocalBranchAdvances ==
    ASSUME Alone
    PROVE  Spec => LocalTipAdvances
  <1>1. SyncInv /\ SyncInv' /\ TipInv /\ [Next]_vars => TipInv' /\ [TipStep]_vars
    BY StepKeepsTip
  <1>2. TipStep <=> \A r \in Repo : tip'[r] # tip[r] /\ tip[r] # None
                                       => tip[r] \in Reach(parents', Commit, tip'[r])
    BY DEF TipStep
  <1> QED
    BY <1>1, <1>2, InitKeepsTip, SyncInvariant, PTL DEF Spec, LocalTipAdvances
=============================================================================
