-------------------------- MODULE RegistryStoreProofs --------------------------
(***************************************************************************)
(* Theorems about RegistryStore, for every set of objects, trees, commits  *)
(* and collectors and every value of the bounds.                           *)
(***************************************************************************)
EXTENDS RegistryStore, TLAPS

-----------------------------------------------------------------------------
(* The operators the model is built from. *)

(* What is marked, alive, or needed is a set of trees or objects. *)
LEMMA ReachTypes ==
    ASSUME NEW ts, NEW rs
    PROVE  /\ Marked(ts, rs) \subseteq Tree
           /\ Visited(ts, rs) \subseteq Tree
           /\ Alive(ts, rs) \subseteq Object
  <1>1. Marked(ts, rs) \subseteq Tree
    BY DEF Marked
  <1>2. Alive(ts, rs) \subseteq Object
    BY <1>1, StoreAssumption DEF Alive
  <1> QED
    BY <1>1, <1>2 DEF Visited

LEMMA CommitTypes ==
    ASSUME NEW c \in Commit
    PROVE  TreesOf(c) \subseteq Tree /\ ObjectsOf(c) \subseteq Object /\ Root[c] \in Tree
  <1>1. TreesOf(c) \subseteq Tree
    BY ReachTypes DEF TreesOf
  <1> QED
    BY <1>1, StoreAssumption DEF ObjectsOf

-----------------------------------------------------------------------------
(* Types. *)

LEMMA InitTypes == Init => TypeOK
  <1> SUFFICES ASSUME Init PROVE TypeOK
    OBVIOUS
  <1>1. NoSweep \in SweepState
    BY DEF NoSweep, SweepState, Phase
  <1> QED
    BY <1>1, StoreAssumption DEF Init, TypeOK, Time, Absent, PushPhase, UpPhase

(* The part of TypeOK a client step of the push handlers changes. *)
LEMMA PushTypes ==
    ASSUME TypeOK, NEW c \in Commit, PushStep(c) \/ FailPush(c)
    PROVE  TypeOK'
  <1> USE DEF TypeOK, PushPhase, UpPhase, storeVars, Fault, NoFault
  <1>1. CASE StartPush(c)
    BY <1>1, StoreAssumption DEF StartPush
  <1>2. CASE FinishUploads(c)
    BY <1>2 DEF FinishUploads
  <1>3. CASE SendCommit(c)
    BY <1>3, CommitTypes DEF SendCommit
  <1>4. CASE LandCommit(c)
    BY <1>4, StoreAssumption DEF LandCommit
  <1>5. CASE FailPush(c)
    BY <1>5, StoreAssumption DEF FailPush
  <1> QED
    BY <1>1, <1>2, <1>3, <1>4, <1>5 DEF PushStep

(* Every step of an upload moves one phase and leaves the rest to the caller. *)
LEMMA UploadStepTypes ==
    ASSUME TypeOK, NEW c \in Commit, NEW o \in Object, NEW from, NEW to \in UpPhase,
           UploadStep(c, o, from, to), Fault \/ NoFault
    PROVE  /\ up' \in [Commit \X Object -> UpPhase]
           /\ UNCHANGED <<push, ins, trees, commits, sweep, graced, now>>
           /\ faults' \in 0 .. MaxFaults
  BY StoreAssumption DEF TypeOK, UploadStep, Fault, NoFault

LEMMA UploadTypes ==
    ASSUME TypeOK, NEW c \in Commit, NEW o \in Object, Upload(c, o) \/ DropUpload(c, o)
    PROVE  TypeOK'
  <1> USE StoreAssumption DEF TypeOK, UpPhase, UploadStep, Fault, NoFault
  <1>1. CASE UploadCheck(c, o)
    <2>1. PICK to \in UpPhase : UploadStep(c, o, "check", to) /\ (Fault \/ NoFault)
      <3> HIDE DEF UploadStep, Fault, NoFault
      <3> QED
        BY <1>1 DEF UploadCheck
    <2>2. UNCHANGED <<row, file, bloom>>
      BY <1>1 DEF UploadCheck
    <2> QED
      <3> HIDE DEF UploadStep, Fault, NoFault
      <3> QED
        BY <2>1, <2>2, UploadStepTypes
  <1>2. CASE StoreBegin(c, o)
    BY <1>2 DEF StoreBegin
  <1>3. CASE StoreEnd(c, o)
    BY <1>3 DEF StoreEnd, Time
  <1>4. CASE StatFile(c, o)
    BY <1>4 DEF StatFile
  <1>5. CASE InsertRow(c, o)
    BY <1>5 DEF InsertRow, Time
  <1>6. CASE AddToBloom(c, o)
    <2>1. PICK from, to \in UpPhase : UploadStep(c, o, from, to) /\ (Fault \/ NoFault)
      <3> HIDE DEF UploadStep, Fault, NoFault
      <3> QED
        BY <1>6 DEF AddToBloom
    <2>2. UNCHANGED <<row, file>> /\ bloom' \subseteq Object
      BY <1>6 DEF AddToBloom
    <2> QED
      <3> HIDE DEF UploadStep, Fault, NoFault
      <3> QED
        BY <2>1, <2>2, UploadStepTypes
  <1>7. CASE DropUpload(c, o)
    BY <1>7 DEF DropUpload
  <1> QED
    BY <1>1, <1>2, <1>3, <1>4, <1>5, <1>6, <1>7 DEF Upload

(* A collector's step changes its own record and shrinks or rebuilds the store. *)
LEMMA CollectTypes ==
    ASSUME TypeOK, NEW g \in Sweeper, Collect(g) \/ FailSweep(g)
    PROVE  TypeOK'
  <1> DEFINE s == sweep[g]
  <1> USE StoreAssumption DEF TypeOK, SweepStep, Fault, NoFault, pushVars
  <1>0. s \in SweepState /\ NoSweep \in SweepState
    BY DEF NoSweep, SweepState, Phase
  <1>a. ASSUME NEW new \in SweepState, sweep' = [sweep EXCEPT ![g] = new]
        PROVE  sweep' \in [Sweeper -> SweepState]
    BY <1>a
  <1>1. CASE ReadTrees(g)
    <2>1. [NoSweep EXCEPT !.pc = "roots", !.cutoff = now - Grace, !.trees = trees]
            \in SweepState
      <3>1. now - Grace \in Int /\ trees \in SUBSET Tree
        BY DEF Time
      <3> QED
        BY <3>1 DEF NoSweep, SweepState, Phase
    <2> QED
      BY <1>1, <1>a, <2>1 DEF ReadTrees
  <1>2. CASE ReadRoots(g)
    <2> DEFINE rs == {Root[c] : c \in commits}
    <2> DEFINE new == [s EXCEPT !.pc = "select", !.visited = Visited(s.trees, rs),
                                !.alive = Alive(s.trees, rs)]
    <2>1. Visited(s.trees, rs) \subseteq Tree /\ Alive(s.trees, rs) \subseteq Object
      BY ReachTypes
    <2>2. new \in SweepState
      <3> HIDE DEF rs
      <3> QED
        BY <1>0, <2>1 DEF SweepState, Phase
    <2>3. sweep' = [sweep EXCEPT ![g] = new]
      BY <1>2 DEF ReadRoots
    <2> HIDE DEF new
    <2> QED
      BY <1>2, <1>a, <2>2, <2>3 DEF ReadRoots
  <1>3. CASE SelectDead(g)
    <2> DEFINE new == [s EXCEPT !.pc = "delete", !.dead = DeadObjects(s)]
    <2>1. new \in SweepState
      BY <1>0 DEF SweepState, Phase, DeadObjects
    <2>2. sweep' = [sweep EXCEPT ![g] = new]
      BY <1>3 DEF SelectDead
    <2> HIDE DEF new
    <2> QED
      BY <1>3, <1>a, <2>1, <2>2 DEF SelectDead
  <1>4. CASE DeleteRows(g)
    <2> DEFINE new == [NoSweep EXCEPT !.pc = "purge",
              !.cutoff = s.cutoff, !.alive = s.alive,
              !.gone = {o \in s.dead : row[o] # Absent},
              !.goneTrees = IF s.visited = {} THEN {} ELSE s.trees \ s.visited,
              !.scan = Object]
    <2>1. new \in SweepState
      BY <1>0 DEF NoSweep, SweepState, Phase
    <2>2. sweep' = [sweep EXCEPT ![g] = new]
      BY <1>4 DEF DeleteRows
    <2> HIDE DEF new
    <2> QED
      BY <1>4, <1>a, <2>1, <2>2 DEF DeleteRows
  <1>5. CASE PurgeFile(g)
    <2> PICK o \in s.scan :
          LET orphan == o \notin s.alive /\ file[o] # Absent /\ file[o] < s.cutoff
          IN  /\ SweepStep(g, [s EXCEPT !.scan = @ \ {o}, !.purged = @ \/ orphan])
              /\ file' = IF orphan THEN [file EXCEPT ![o] = Absent] ELSE file
      BY <1>5 DEF PurgeFile
    <2> DEFINE orphan == o \notin s.alive /\ file[o] # Absent /\ file[o] < s.cutoff
    <2> DEFINE new == [s EXCEPT !.scan = @ \ {o}, !.purged = @ \/ orphan]
    <2>1. orphan \in BOOLEAN
      OBVIOUS
    <2>2. new \in SweepState
      <3> HIDE DEF orphan
      <3> QED
        BY <1>0, <2>1 DEF SweepState
    <2>3. sweep' = [sweep EXCEPT ![g] = new]
      OBVIOUS
    <2>4. sweep' \in [Sweeper -> SweepState]
      <3> HIDE DEF new
      <3> QED
        BY <1>a, <2>2, <2>3
    <2>5. file' \in [Object -> Time \cup {Absent}]
      BY <1>0 DEF SweepState
    <2> QED
      BY <1>5, <2>4, <2>5 DEF PurgeFile
  <1>6. CASE EndPurge(g)
    <2> DEFINE new == [s EXCEPT !.pc = IF s.purged THEN "reset" ELSE "commit",
                                !.purged = FALSE]
    <2>1. new \in SweepState
      BY <1>0 DEF SweepState, Phase
    <2>2. sweep' = [sweep EXCEPT ![g] = new]
      BY <1>6 DEF EndPurge
    <2> HIDE DEF new
    <2> QED
      BY <1>6, <1>a, <2>1, <2>2 DEF EndPurge
  <1>7. CASE ResetBloom(g)
    <2>1. [s EXCEPT !.pc = "rebuild"] \in SweepState
      BY <1>0 DEF SweepState, Phase
    <2> QED
      BY <1>7, <1>a, <2>1 DEF ResetBloom
  <1>8. CASE RebuildBloom(g)
    <2>1. [s EXCEPT !.pc = "commit"] \in SweepState /\ s.alive \subseteq Object
      BY <1>0 DEF SweepState, Phase
    <2> QED
      BY <1>8, <1>a, <2>1 DEF RebuildBloom
  <1>9. CASE CommitSweep(g)
    <2>1. sweep' \in [Sweeper -> SweepState]
      BY <1>9, <1>0, <1>a DEF CommitSweep
    <2> QED
      BY <1>9, <2>1 DEF CommitSweep
  <1>10. CASE FailSweep(g)
    <2>1. sweep' \in [Sweeper -> SweepState]
      BY <1>10, <1>0, <1>a DEF FailSweep
    <2> QED
      BY <1>10, <2>1 DEF FailSweep
  <1> QED
    BY <1>1, <1>2, <1>3, <1>4, <1>5, <1>6, <1>7, <1>8, <1>9, <1>10 DEF Collect

LEMMA RestartTypes ==
    ASSUME TypeOK, Restart \/ Tick
    PROVE  TypeOK'
  <1> USE StoreAssumption DEF TypeOK, storeVars, pushVars, Fault, NoFault
  <1>1. CASE Restart
    <2>1. NoSweep \in SweepState
      BY DEF NoSweep, SweepState, Phase
    <2> QED
      BY <1>1, <2>1 DEF Restart, PushPhase, UpPhase
  <1>2. CASE Tick
    BY <1>2 DEF Tick, Time
  <1> QED
    BY <1>1, <1>2

LEMMA NextTypes == TypeOK /\ [Next]_vars => TypeOK'
  <1> SUFFICES ASSUME TypeOK, [Next]_vars PROVE TypeOK'
    OBVIOUS
  <1>1. CASE UNCHANGED vars
    BY <1>1 DEF TypeOK, vars, storeVars, pushVars
  <1> QED
    BY <1>1, PushTypes, UploadTypes, CollectTypes, RestartTypes DEF Next

(* TypeOK holds in every reachable state: no handler stores anything outside *)
(* its domain, whatever the interleaving.                                    *)
THEOREM TypeCorrect == Spec => []TypeOK
  <1> QED
    BY InitTypes, NextTypes, PTL DEF Spec

-----------------------------------------------------------------------------
(* Reachability. *)

(* The marked set holds the roots and follows the rows of its trees. *)
LEMMA MarkedClosed ==
    ASSUME NEW ts, NEW rs, rs \subseteq Tree
    PROVE  /\ rs \subseteq Marked(ts, rs)
           /\ \A u \in Marked(ts, rs) \cap ts : Kids[u] \subseteq Marked(ts, rs)
  <1>1. rs \subseteq Marked(ts, rs)
    BY DEF Marked
  <1>2. ASSUME NEW u \in Marked(ts, rs) \cap ts, NEW k \in Kids[u]
        PROVE  k \in Marked(ts, rs)
    <2>1. u \in Tree /\ k \in Tree
      BY <1>2, StoreAssumption DEF Marked
    <2>2. ASSUME NEW S \in SUBSET Tree,
                 rs \subseteq S, \A v \in S \cap ts : Kids[v] \subseteq S
          PROVE  k \in S
      <3>1. u \in S
        BY <2>2 DEF Marked
      <3> QED
        BY <3>1, <2>2
    <2> QED
      BY <2>1, <2>2 DEF Marked
  <1> QED
    BY <1>1, <1>2

(* A collection that read every tree of c and finds the root of c among its  *)
(* roots visits every tree of c and keeps every object of c.                 *)
LEMMA MarkCovers ==
    ASSUME NEW c \in Commit, NEW ts, NEW rs, TreesOf(c) \subseteq ts,
           Root[c] \in rs, rs \subseteq Tree
    PROVE  /\ TreesOf(c) \subseteq Visited(ts, rs)
           /\ ObjectsOf(c) \subseteq Alive(ts, rs)
  <1>1. /\ Root[c] \in TreesOf(c)
        /\ \A u \in TreesOf(c) : Kids[u] \subseteq TreesOf(c)
        /\ TreesOf(c) \subseteq Tree
    BY CommitTypes, MarkedClosed DEF TreesOf
  <1>2. ASSUME NEW t \in TreesOf(c), NEW S \in SUBSET Tree,
               rs \subseteq S, \A u \in S \cap ts : Kids[u] \subseteq S
        PROVE  t \in S
    <2> DEFINE R == S \cap TreesOf(c)
    <2>1. R \in SUBSET Tree /\ {Root[c]} \subseteq R
      BY <1>1, <1>2
    <2>2. \A u \in R \cap Tree : Kids[u] \subseteq R
      BY <1>1, <1>2
    <2>3. t \in R
      <3> HIDE DEF R
      <3> QED
        BY <2>1, <2>2, <1>2 DEF TreesOf, Marked
    <2> QED
      BY <2>3
  <1>3. TreesOf(c) \subseteq Marked(ts, rs)
    BY <1>1, <1>2 DEF Marked
  <1> QED
    BY <1>3 DEF Visited, ObjectsOf, Alive

-----------------------------------------------------------------------------
(* Tree rows. *)

LEMMA InitStoreInv == Init => GraceInv
  <1> SUFFICES ASSUME Init PROVE GraceInv
    OBVIOUS
  <1>1. TypeOK
    BY InitTypes
  <1>2. TreeRowsClosed /\ NoOrphanTrees /\ InsertsComplete
    BY DEF Init, TreeRowsClosed, NoOrphanTrees, InsertsComplete
  <1>3. SnapshotCovered /\ DeadNotAlive
    BY DEF Init, SnapshotCovered, DeadNotAlive, NoSweep, Marking
  <1>4. DeadRowsOld /\ GracedSpared
    BY DEF Init, DeadRowsOld, GracedSpared, NoSweep, Running
  <1> QED
    BY <1>1, <1>2, <1>3, <1>4 DEF GraceInv, StoreInv, TreeInv

(* The push handlers add a commit together with all its tree rows. *)
LEMMA PushKeepsTrees ==
    ASSUME TreeInv, NEW c \in Commit, PushStep(c) \/ FailPush(c)
    PROVE  TreeRowsClosed' /\ NoOrphanTrees' /\ InsertsComplete' /\ SnapshotCovered'
  <1> USE DEF TreeInv, storeVars
  <1>t. push \in [Commit -> PushPhase] /\ ins \in [Commit -> SUBSET Tree] /\ commits \subseteq Commit
    BY DEF TypeOK
  <1>1. CASE StartPush(c)
    BY <1>1, <1>t DEF StartPush, TreeRowsClosed, NoOrphanTrees, InsertsComplete, SnapshotCovered
  <1>2. CASE FinishUploads(c)
    BY <1>2, <1>t DEF FinishUploads, TreeRowsClosed, NoOrphanTrees, InsertsComplete, SnapshotCovered
  <1>3. CASE SendCommit(c)
    <2>1. TreeRowsClosed' /\ NoOrphanTrees' /\ SnapshotCovered'
      BY <1>3 DEF SendCommit, TreeRowsClosed, NoOrphanTrees, SnapshotCovered
    <2>2. InsertsComplete'
      BY <1>3, <1>t DEF SendCommit, InsertsComplete
    <2> QED
      BY <2>1, <2>2
  <1>4. CASE LandCommit(c)
    <2>1. UNCHANGED sweep /\ commits \subseteq commits' /\ trees \subseteq trees'
      BY <1>4 DEF LandCommit
    <2>2. TreeRowsClosed'
      BY <1>4, <1>t DEF LandCommit, TreeRowsClosed, InsertsComplete
    <2>3. NoOrphanTrees'
      <3>1. ASSUME NEW t \in trees'
            PROVE  \E d \in commits' : t \in TreesOf(d)
        <4>1. CASE t \in trees
          BY <4>1, <2>1 DEF NoOrphanTrees
        <4>2. CASE t \notin trees
          <5>1. t \in ins[c] /\ c \in commits'
            BY <4>2, <1>4, <3>1 DEF LandCommit
          <5> QED
            BY <5>1 DEF InsertsComplete
        <4> QED
          BY <4>1, <4>2
      <3> QED
        BY <3>1 DEF NoOrphanTrees
    <2>4. InsertsComplete'
      BY <1>4, <1>t, <2>1 DEF LandCommit, InsertsComplete, Fault, NoFault
    <2>5. SnapshotCovered'
      BY <2>1 DEF SnapshotCovered
    <2> QED
      BY <2>2, <2>3, <2>4, <2>5
  <1>5. CASE FailPush(c)
    BY <1>5, <1>t DEF FailPush, TreeRowsClosed, NoOrphanTrees, InsertsComplete, SnapshotCovered
  <1> QED
    BY <1>1, <1>2, <1>3, <1>4, <1>5 DEF PushStep

(* A collector's step changes its own record only. *)
LEMMA SweepAt ==
    ASSUME TypeOK, NEW g \in Sweeper, NEW new, SweepStep(g, new)
    PROVE  sweep'[g] = new /\ \A h \in Sweeper \ {g} : sweep'[h] = sweep[h]
  BY DEF TypeOK, SweepStep

LEMMA CollectFrame ==
    ASSUME TypeOK, NEW g \in Sweeper, Collect(g) \/ FailSweep(g)
    PROVE  /\ UNCHANGED <<push, up, ins, commits, graced, now>>
           /\ \A h \in Sweeper \ {g} : sweep'[h] = sweep[h]
  <1>1. PICK new : SweepStep(g, new)
    <2>1. CASE ReadTrees(g) \/ ReadRoots(g) \/ SelectDead(g)
      BY <2>1 DEF ReadTrees, ReadRoots, SelectDead
    <2>2. CASE DeleteRows(g)
      BY <2>2 DEF DeleteRows
    <2>3. CASE PurgeFile(g)
      BY <2>3 DEF PurgeFile
    <2>4. CASE EndPurge(g) \/ ResetBloom(g) \/ RebuildBloom(g)
      BY <2>4 DEF EndPurge, ResetBloom, RebuildBloom
    <2>5. CASE CommitSweep(g) \/ FailSweep(g)
      BY <2>5 DEF CommitSweep, FailSweep
    <2> QED
      BY <2>1, <2>2, <2>3, <2>4, <2>5 DEF Collect
  <1> QED
    BY <1>1, SweepAt DEF SweepStep, pushVars

(* What each of its steps makes of the record and of the store. *)
LEMMA ReadTreesRecord ==
    ASSUME TypeOK, NEW g \in Sweeper, ReadTrees(g)
    PROVE  /\ sweep'[g].pc = "roots" /\ sweep'[g].cutoff = now - Grace
           /\ sweep'[g].trees = trees /\ sweep'[g].goneTrees = {}
           /\ sweep'[g].alive = {} /\ sweep'[g].dead = {} /\ sweep'[g].gone = {}
           /\ UNCHANGED <<row, file, trees>>
  <1> DEFINE new == [NoSweep EXCEPT !.pc = "roots", !.cutoff = now - Grace, !.trees = trees]
  <1>1. SweepStep(g, new) /\ UNCHANGED <<row, file, trees>>
    BY DEF ReadTrees
  <1>2. /\ new.pc = "roots" /\ new.cutoff = now - Grace /\ new.trees = trees
        /\ new.goneTrees = {} /\ new.alive = {} /\ new.dead = {} /\ new.gone = {}
    BY DEF NoSweep
  <1> HIDE DEF new
  <1> QED
    BY <1>1, <1>2, SweepAt

LEMMA ReadRootsRecord ==
    ASSUME TypeOK, NEW g \in Sweeper, ReadRoots(g)
    PROVE  LET s == sweep[g]
               rs == {Root[c] : c \in commits}
           IN  /\ s.pc = "roots" /\ sweep'[g].pc = "select"
               /\ sweep'[g].visited = Visited(s.trees, rs)
               /\ sweep'[g].alive = Alive(s.trees, rs)
               /\ sweep'[g].trees = s.trees /\ sweep'[g].goneTrees = s.goneTrees
               /\ sweep'[g].cutoff = s.cutoff
               /\ sweep'[g].dead = s.dead /\ sweep'[g].gone = s.gone
               /\ UNCHANGED <<row, file, trees>>
  <1> DEFINE s == sweep[g]
  <1> DEFINE rs == {Root[c] : c \in commits}
  <1> DEFINE new == [s EXCEPT !.pc = "select", !.visited = Visited(s.trees, rs),
                              !.alive = Alive(s.trees, rs)]
  <1>1. s.pc = "roots" /\ SweepStep(g, new) /\ UNCHANGED <<row, file, trees>>
    BY DEF ReadRoots
  <1>2. s \in SweepState
    BY DEF TypeOK
  <1> HIDE DEF s, rs
  <1>3. /\ new.pc = "select" /\ new.visited = Visited(s.trees, rs)
        /\ new.alive = Alive(s.trees, rs) /\ new.trees = s.trees
        /\ new.goneTrees = s.goneTrees /\ new.cutoff = s.cutoff
        /\ new.dead = s.dead /\ new.gone = s.gone
    BY <1>2 DEF SweepState
  <1> HIDE DEF new
  <1> QED
    BY <1>1, <1>3, SweepAt DEF s, rs

LEMMA SelectDeadRecord ==
    ASSUME TypeOK, NEW g \in Sweeper, SelectDead(g)
    PROVE  LET s == sweep[g]
           IN  /\ s.pc = "select" /\ sweep'[g].pc = "delete"
               /\ sweep'[g].dead = DeadObjects(s)
               /\ sweep'[g].trees = s.trees /\ sweep'[g].visited = s.visited
               /\ sweep'[g].goneTrees = s.goneTrees /\ sweep'[g].cutoff = s.cutoff
               /\ sweep'[g].alive = s.alive /\ sweep'[g].gone = s.gone
               /\ UNCHANGED <<row, file, trees>>
  <1> DEFINE s == sweep[g]
  <1> DEFINE new == [s EXCEPT !.pc = "delete", !.dead = DeadObjects(s)]
  <1>1. s.pc = "select" /\ SweepStep(g, new) /\ UNCHANGED <<row, file, trees>>
    BY DEF SelectDead
  <1>2. s \in SweepState
    BY DEF TypeOK
  <1> HIDE DEF s
  <1>3. /\ new.pc = "delete" /\ new.dead = DeadObjects(s)
        /\ new.trees = s.trees /\ new.visited = s.visited
        /\ new.goneTrees = s.goneTrees /\ new.cutoff = s.cutoff
        /\ new.alive = s.alive /\ new.gone = s.gone
    BY <1>2 DEF SweepState
  <1> HIDE DEF new
  <1> QED
    BY <1>1, <1>3, SweepAt DEF s

LEMMA DeleteRowsRecord ==
    ASSUME TypeOK, NEW g \in Sweeper, DeleteRows(g)
    PROVE  LET s == sweep[g]
           IN  /\ s.pc = "delete" /\ sweep'[g].pc = "purge"
               /\ sweep'[g].dead = {} /\ sweep'[g].gone = {o \in s.dead : row[o] # Absent}
               /\ sweep'[g].goneTrees = IF s.visited = {} THEN {} ELSE s.trees \ s.visited
               /\ sweep'[g].cutoff = s.cutoff /\ sweep'[g].alive = s.alive
               /\ UNCHANGED <<row, file, trees>>
  <1> DEFINE s == sweep[g]
  <1> DEFINE new == [NoSweep EXCEPT !.pc = "purge",
              !.cutoff = s.cutoff, !.alive = s.alive,
              !.gone = {o \in s.dead : row[o] # Absent},
              !.goneTrees = IF s.visited = {} THEN {} ELSE s.trees \ s.visited,
              !.scan = Object]
  <1>1. s.pc = "delete" /\ SweepStep(g, new) /\ UNCHANGED <<row, file, trees>>
    BY DEF DeleteRows
  <1>2. /\ new.pc = "purge" /\ new.dead = {} /\ new.gone = {o \in s.dead : row[o] # Absent}
        /\ new.goneTrees = IF s.visited = {} THEN {} ELSE s.trees \ s.visited
        /\ new.cutoff = s.cutoff /\ new.alive = s.alive
    BY DEF NoSweep
  <1> HIDE DEF new
  <1> QED
    BY <1>1, <1>2, SweepAt

(* The steps after the deletes keep what was marked and what is going. *)
LEMMA PurgeRecord ==
    ASSUME TypeOK, NEW g \in Sweeper,
           PurgeFile(g) \/ EndPurge(g) \/ ResetBloom(g) \/ RebuildBloom(g)
    PROVE  LET s == sweep[g]
           IN  /\ Marking(g) /\ sweep'[g].pc \in Phase \ {"idle", "roots", "select", "delete"}
               /\ sweep'[g].dead = s.dead /\ sweep'[g].gone = s.gone
               /\ sweep'[g].goneTrees = s.goneTrees
               /\ sweep'[g].cutoff = s.cutoff /\ sweep'[g].alive = s.alive
               /\ UNCHANGED <<row, trees>>
               /\ \A o \in Object : file'[o] # file[o] => o \notin s.alive /\ file[o] < s.cutoff
  <1> DEFINE s == sweep[g]
  <1> DEFINE Kept(new) == /\ new.dead = s.dead /\ new.gone = s.gone
                          /\ new.goneTrees = s.goneTrees
                          /\ new.cutoff = s.cutoff /\ new.alive = s.alive
                          /\ new.pc \in Phase \ {"idle", "roots", "select", "delete"}
  <1>0. s \in SweepState /\ file \in [Object -> Time \cup {Absent}]
    BY DEF TypeOK
  <1>1. CASE PurgeFile(g)
    <2>1. PICK o \in s.scan :
            LET orphan == o \notin s.alive /\ file[o] # Absent /\ file[o] < s.cutoff
            IN  /\ SweepStep(g, [s EXCEPT !.scan = @ \ {o}, !.purged = @ \/ orphan])
                /\ file' = IF orphan THEN [file EXCEPT ![o] = Absent] ELSE file
      BY <1>1 DEF PurgeFile
    <2> DEFINE orphan == o \notin s.alive /\ file[o] # Absent /\ file[o] < s.cutoff
    <2> DEFINE new == [s EXCEPT !.scan = @ \ {o}, !.purged = @ \/ orphan]
    <2>2. SweepStep(g, new) /\ s.pc = "purge" /\ UNCHANGED <<row, trees>>
      BY <2>1, <1>1 DEF PurgeFile
    <2>3. Kept(new)
      <3> HIDE DEF s, orphan
      <3> QED
        BY <1>0, <2>2 DEF SweepState, Phase
    <2>4. \A p \in Object : file'[p] # file[p] => p \notin s.alive /\ file[p] < s.cutoff
      BY <2>1, <1>0
    <2> HIDE DEF new
    <2> QED
      BY <2>2, <2>3, <2>4, SweepAt DEF Marking
  <1>2. ASSUME NEW pc \in {"reset", "commit", "rebuild"}, NEW b \in BOOLEAN,
               SweepStep(g, [s EXCEPT !.pc = pc, !.purged = b]) \/ SweepStep(g, [s EXCEPT !.pc = pc]),
               s.pc \in {"purge", "reset", "rebuild"}, UNCHANGED <<row, file, trees>>
        PROVE  /\ Marking(g) /\ Kept(sweep'[g]) /\ UNCHANGED <<row, trees>>
               /\ \A o \in Object : file'[o] # file[o] => o \notin s.alive /\ file[o] < s.cutoff
    <2> DEFINE new1 == [s EXCEPT !.pc = pc, !.purged = b]
    <2> DEFINE new2 == [s EXCEPT !.pc = pc]
    <2>1. Kept(new1) /\ Kept(new2)
      <3> HIDE DEF s
      <3> QED
        BY <1>0 DEF SweepState, Phase
    <2>2. SweepStep(g, new1) \/ SweepStep(g, new2)
      BY <1>2
    <2>3. sweep'[g] = new1 \/ sweep'[g] = new2
      <3> HIDE DEF new1, new2
      <3> QED
        BY <2>2, SweepAt
    <2> HIDE DEF new1, new2
    <2> QED
      BY <1>2, <2>1, <2>3 DEF Marking
  <1>3. CASE EndPurge(g)
    <2>1. /\ SweepStep(g, [s EXCEPT !.pc = IF s.purged THEN "reset" ELSE "commit",
                                    !.purged = FALSE])
          /\ s.pc = "purge" /\ UNCHANGED <<row, file, trees>>
      BY <1>3 DEF EndPurge
    <2>2. (IF s.purged THEN "reset" ELSE "commit") \in {"reset", "commit", "rebuild"}
      OBVIOUS
    <2> QED
      BY <1>2, <2>1, <2>2
  <1>4. CASE ResetBloom(g)
    BY <1>2, <1>4 DEF ResetBloom
  <1>5. CASE RebuildBloom(g)
    BY <1>2, <1>5 DEF RebuildBloom
  <1> QED
    BY <1>1, <1>3, <1>4, <1>5

(* The end of a collection, and its failure. *)
LEMMA EndRecord ==
    ASSUME TypeOK, NEW g \in Sweeper, CommitSweep(g) \/ FailSweep(g)
    PROVE  /\ sweep'[g] = NoSweep /\ file' = file
           /\ CommitSweep(g) =>
                 /\ Marking(g) /\ trees' = trees \ sweep[g].goneTrees
                 /\ \A o \in Object : row'[o] = IF o \in sweep[g].gone THEN Absent ELSE row[o]
           /\ FailSweep(g) => UNCHANGED <<row, trees>>
  BY SweepAt DEF CommitSweep, FailSweep, Marking

(* A collector never deletes a tree row: it visits every tree it read. *)
LEMMA CollectKeepsTrees ==
    ASSUME TreeInv, NEW g \in Sweeper, Collect(g) \/ FailSweep(g)
    PROVE  TreeRowsClosed' /\ NoOrphanTrees' /\ InsertsComplete' /\ SnapshotCovered'
  <1> USE DEF TreeInv
  <1>f. UNCHANGED <<push, ins, commits>> /\ \A h \in Sweeper \ {g} : sweep'[h] = sweep[h]
    BY CollectFrame
  <1>s. ASSUME trees' = trees, sweep'[g].goneTrees = {},
               sweep'[g].pc = "roots" =>
                  \A t \in sweep'[g].trees :
                    \E c \in commits : t \in TreesOf(c) /\ TreesOf(c) \subseteq sweep'[g].trees,
               sweep'[g].pc \in {"select", "delete"} => sweep'[g].trees \subseteq sweep'[g].visited
        PROVE  TreeRowsClosed' /\ NoOrphanTrees' /\ InsertsComplete' /\ SnapshotCovered'
    <2>1. SnapshotCovered'
      BY <1>f, <1>s DEF SnapshotCovered
    <2> QED
      BY <1>f, <1>s, <2>1 DEF TreeRowsClosed, NoOrphanTrees, InsertsComplete
  <1>1. CASE ReadTrees(g)
    <2>1. \A t \in trees : \E c \in commits : t \in TreesOf(c) /\ TreesOf(c) \subseteq trees
      BY DEF NoOrphanTrees, TreeRowsClosed
    <2> QED
      BY <1>1, <1>s, <2>1, ReadTreesRecord
  <1>2. CASE ReadRoots(g)
    <2> DEFINE rs == {Root[c] : c \in commits}
    <2>1. ASSUME NEW t \in sweep[g].trees
          PROVE  t \in Visited(sweep[g].trees, rs)
      <3>1. PICK c \in commits : t \in TreesOf(c) /\ TreesOf(c) \subseteq sweep[g].trees
        BY <1>2, <2>1, ReadRootsRecord DEF SnapshotCovered
      <3>2. c \in Commit /\ Root[c] \in rs /\ rs \subseteq Tree
        BY StoreAssumption DEF TypeOK
      <3> HIDE DEF rs
      <3> QED
        BY <3>1, <3>2, MarkCovers
    <2>2. /\ sweep'[g].pc = "select" /\ sweep'[g].trees = sweep[g].trees
          /\ sweep'[g].visited = Visited(sweep[g].trees, rs)
          /\ sweep'[g].goneTrees = sweep[g].goneTrees /\ trees' = trees
      BY <1>2, ReadRootsRecord
    <2> HIDE DEF rs
    <2> QED
      BY <1>s, <2>1, <2>2 DEF SnapshotCovered
  <1>3. CASE SelectDead(g)
    BY <1>3, <1>s, SelectDeadRecord DEF SnapshotCovered
  <1>4. CASE DeleteRows(g)
    BY <1>4, <1>s, DeleteRowsRecord DEF SnapshotCovered
  <1>5. CASE \/ PurgeFile(g) \/ EndPurge(g) \/ ResetBloom(g) \/ RebuildBloom(g)
    BY <1>5, <1>s, PurgeRecord DEF SnapshotCovered
  <1>6. CASE CommitSweep(g) \/ FailSweep(g)
    <2>1. trees' = trees
      BY <1>6, EndRecord DEF SnapshotCovered
    <2>2. NoSweep.pc = "idle" /\ NoSweep.goneTrees = {}
      BY DEF NoSweep
    <2> QED
      BY <1>6, <1>s, <2>1, <2>2, EndRecord
  <1> QED
    BY <1>1, <1>2, <1>3, <1>4, <1>5, <1>6 DEF Collect

LEMMA NextTrees == TreeInv /\ [Next]_vars => TreeInv'
  <1> SUFFICES ASSUME TreeInv, [Next]_vars
               PROVE  TreeRowsClosed' /\ NoOrphanTrees' /\ InsertsComplete' /\ SnapshotCovered'
    BY NextTypes DEF TreeInv
  <1> USE DEF TreeInv
  <1>1. ASSUME NEW c \in Commit, PushStep(c) \/ FailPush(c)
        PROVE  TreeRowsClosed' /\ NoOrphanTrees' /\ InsertsComplete' /\ SnapshotCovered'
    BY <1>1, PushKeepsTrees
  <1>2. ASSUME NEW c \in Commit, NEW o \in Object, Upload(c, o) \/ DropUpload(c, o)
        PROVE  TreeRowsClosed' /\ NoOrphanTrees' /\ InsertsComplete' /\ SnapshotCovered'
    <2>1. UNCHANGED <<trees, commits, push, ins, sweep>>
      BY <1>2 DEF Upload, UploadCheck, StoreBegin, StoreEnd, StatFile, InsertRow, AddToBloom,
                  DropUpload, UploadStep
    <2> QED
      BY <2>1 DEF TreeRowsClosed, NoOrphanTrees, InsertsComplete, SnapshotCovered
  <1>3. ASSUME NEW g \in Sweeper, Collect(g) \/ FailSweep(g)
        PROVE  TreeRowsClosed' /\ NoOrphanTrees' /\ InsertsComplete' /\ SnapshotCovered'
    BY <1>3, CollectKeepsTrees
  <1>4. CASE Restart
    <2>1. UNCHANGED <<trees, commits>> /\ \A g \in Sweeper : sweep'[g] = NoSweep
      BY <1>4 DEF Restart, storeVars
    <2>2. \A c \in Commit : ins'[c] = {} /\ push'[c] # "insert"
      BY <1>4 DEF Restart
    <2> QED
      BY <2>1, <2>2 DEF TreeRowsClosed, NoOrphanTrees, InsertsComplete, SnapshotCovered, NoSweep
  <1>5. CASE Tick \/ UNCHANGED vars
    <2>1. UNCHANGED <<trees, commits, push, ins, sweep>>
      BY <1>5 DEF Tick, vars, storeVars, pushVars
    <2> QED
      BY <2>1 DEF TreeRowsClosed, NoOrphanTrees, InsertsComplete, SnapshotCovered
  <1> QED
    BY <1>1, <1>2, <1>3, <1>4, <1>5 DEF Next

(* TreeRowsClosed holds in every reachable state, whatever the number of      *)
(* collections: a commit that has landed keeps every row of its Merkle tree. *)
THEOREM TreeRowsStayClosed == Spec => []TreeRowsClosed
  <1>1. Init => TreeInv
    BY InitStoreInv DEF GraceInv, StoreInv
  <1>2. TreeInv => TreeRowsClosed
    BY DEF TreeInv
  <1> QED
    BY <1>1, <1>2, NextTrees, PTL DEF Spec

-----------------------------------------------------------------------------
(* Objects of settled commits. *)

(* A push, an upload, a restart and the clock leave the collectors' deletes   *)
(* alone: no row and no file that is there disappears.                        *)
LEMMA OthersKeepObjects ==
    ASSUME TypeOK, [Next]_vars, ~ \E g \in Sweeper : Collect(g) \/ FailSweep(g)
    PROVE  /\ \A o \in Object : row[o] # Absent => row'[o] = row[o]
           /\ \A o \in Object : row[o] = Absent =>
                 row'[o] = Absent \/ (row'[o] = now /\ o \notin HeldRows)
           /\ \A o \in Object : file'[o] = file[o] \/ file'[o] = now
           /\ commits \subseteq commits'
           /\ sweep' = sweep \/ \A g \in Sweeper : sweep'[g] = NoSweep
           /\ now' = now \/ now' = now + 1
  <1>t. /\ row \in [Object -> Time \cup {Absent}] /\ file \in [Object -> Time \cup {Absent}]
    BY DEF TypeOK
  <1>1. CASE UNCHANGED vars
    BY <1>1 DEF vars, storeVars, pushVars
  <1>2. CASE \E c \in Commit : PushStep(c) \/ FailPush(c)
    BY <1>2 DEF PushStep, FailPush, StartPush, FinishUploads, SendCommit, LandCommit, storeVars
  <1>3. ASSUME NEW c \in Commit, NEW p \in Object, Upload(c, p) \/ DropUpload(c, p)
        PROVE  /\ \A o \in Object : row[o] # Absent => row'[o] = row[o]
               /\ \A o \in Object : row[o] = Absent =>
                     row'[o] = Absent \/ (row'[o] = now /\ o \notin HeldRows)
               /\ \A o \in Object : file'[o] = file[o] \/ file'[o] = now
               /\ UNCHANGED <<commits, sweep, now>>
    <2>1. CASE StoreEnd(c, p)
      BY <2>1, <1>t DEF StoreEnd, UploadStep
    <2>2. CASE InsertRow(c, p)
      BY <2>2, <1>t DEF InsertRow, UploadStep
    <2>3. CASE \/ UploadCheck(c, p) \/ StoreBegin(c, p) \/ StatFile(c, p)
               \/ AddToBloom(c, p) \/ DropUpload(c, p)
      BY <2>3 DEF UploadCheck, StoreBegin, StatFile, AddToBloom, DropUpload, UploadStep
    <2> QED
      BY <1>3, <2>1, <2>2, <2>3 DEF Upload
  <1>4. CASE Restart
    BY <1>4 DEF Restart, storeVars
  <1>5. CASE Tick
    BY <1>5 DEF Tick, storeVars
  <1> QED
    BY <1>1, <1>2, <1>3, <1>4, <1>5 DEF Next

LEMMA NextDeadNotAlive == StoreInv /\ [Next]_vars => DeadNotAlive'
  <1> SUFFICES ASSUME StoreInv, [Next]_vars PROVE DeadNotAlive'
    OBVIOUS
  <1> USE DEF StoreInv, TreeInv
  <1>n. NoSweep.alive = {} /\ NoSweep.dead = {} /\ NoSweep.gone = {}
    BY DEF NoSweep
  <1>1. ASSUME NEW g \in Sweeper, Collect(g) \/ FailSweep(g)
        PROVE  DeadNotAlive'
    <2>1. \A h \in Sweeper \ {g} : sweep'[h] = sweep[h]
      BY <1>1, CollectFrame
    <2>2. /\ sweep'[g].alive \cap (sweep'[g].dead \cup sweep'[g].gone) = {}
          /\ sweep'[g].pc \in {"idle", "roots"} => sweep'[g].dead = {} /\ sweep'[g].gone = {}
      <3>1. CASE ReadTrees(g)
        BY <3>1, ReadTreesRecord
      <3>2. CASE ReadRoots(g)
        BY <3>2, ReadRootsRecord DEF DeadNotAlive, Marking
      <3>3. CASE SelectDead(g)
        BY <3>3, SelectDeadRecord DEF DeadNotAlive, DeadObjects
      <3>4. CASE DeleteRows(g)
        BY <3>4, DeleteRowsRecord DEF DeadNotAlive
      <3>5. CASE \/ PurgeFile(g) \/ EndPurge(g) \/ ResetBloom(g) \/ RebuildBloom(g)
        BY <3>5, PurgeRecord DEF DeadNotAlive
      <3>6. CASE CommitSweep(g) \/ FailSweep(g)
        BY <3>6, <1>n, EndRecord
      <3> QED
        BY <1>1, <3>1, <3>2, <3>3, <3>4, <3>5, <3>6 DEF Collect
    <2> QED
      BY <2>1, <2>2 DEF DeadNotAlive, Marking
  <1>2. CASE ~ \E g \in Sweeper : Collect(g) \/ FailSweep(g)
    BY <1>2, <1>n, OthersKeepObjects DEF DeadNotAlive, Marking
  <1> QED
    BY <1>1, <1>2

LEMMA NextStoreInv == StoreInv /\ [Next]_vars => StoreInv'
  BY NextTrees, NextDeadNotAlive DEF StoreInv

(* One step of a collection, for a commit it has not unsettled so far. *)
LEMMA CollectKeepsSettled ==
    ASSUME StoreInv, NEW g \in Sweeper, Collect(g) \/ FailSweep(g),
           NEW c \in Commit, Settled(c)
    PROVE  Settled(c)'
  <1> USE DEF StoreInv, TreeInv
  <1>f. UNCHANGED commits /\ \A h \in Sweeper \ {g} : sweep'[h] = sweep[h]
    BY CollectFrame
  <1>o. ObjectsOf(c) \subseteq Object /\ TreesOf(c) \subseteq trees
    BY CommitTypes DEF Settled, TreeRowsClosed
  <1>s. ASSUME \A o \in ObjectsOf(c) : row'[o] # Absent /\ file'[o] # Absent,
               sweep'[g].pc = "roots" => TreesOf(c) \subseteq sweep'[g].trees,
               sweep'[g].pc \notin {"idle", "roots"} => ObjectsOf(c) \subseteq sweep'[g].alive
        PROVE  Settled(c)'
    BY <1>f, <1>s DEF Settled, Stored, Marking
  <1>1. CASE ReadTrees(g)
    BY <1>1, <1>o, <1>s, ReadTreesRecord DEF Settled, Stored
  <1>2. CASE ReadRoots(g)
    <2> DEFINE rs == {Root[d] : d \in commits}
    <2>1. Root[c] \in rs /\ rs \subseteq Tree
      BY StoreAssumption DEF Settled, TypeOK
    <2>2. TreesOf(c) \subseteq sweep[g].trees
      BY <1>2, ReadRootsRecord DEF Settled
    <2>3. sweep'[g].alive = Alive(sweep[g].trees, rs)
      BY <1>2, ReadRootsRecord
    <2>4. ObjectsOf(c) \subseteq sweep'[g].alive
      <3> HIDE DEF rs
      <3> QED
        BY <2>1, <2>2, <2>3, MarkCovers
    <2>5. sweep'[g].pc = "select" /\ UNCHANGED <<row, file>>
      BY <1>2, ReadRootsRecord
    <2> QED
      BY <1>s, <2>4, <2>5 DEF Settled, Stored
  <1>3. CASE SelectDead(g)
    BY <1>3, <1>s, SelectDeadRecord DEF Settled, Stored, Marking
  <1>4. CASE DeleteRows(g)
    BY <1>4, <1>s, DeleteRowsRecord DEF Settled, Stored, Marking
  <1>5. CASE \/ PurgeFile(g) \/ EndPurge(g) \/ ResetBloom(g) \/ RebuildBloom(g)
    <2>1. ObjectsOf(c) \subseteq sweep[g].alive
      BY <1>5, PurgeRecord DEF Settled
    <2>2. \A o \in ObjectsOf(c) : file'[o] = file[o] /\ row'[o] = row[o]
      BY <1>5, <2>1, <1>o, PurgeRecord
    <2> QED
      BY <1>5, <1>s, <2>1, <2>2, PurgeRecord DEF Settled, Stored
  <1>6. CASE CommitSweep(g)
    <2>1. ObjectsOf(c) \cap sweep[g].gone = {}
      BY <1>6, EndRecord DEF Settled, DeadNotAlive
    <2>2. \A o \in ObjectsOf(c) : file'[o] = file[o] /\ row'[o] = row[o]
      BY <1>6, <2>1, <1>o, EndRecord
    <2> QED
      BY <1>6, <1>s, <2>2, EndRecord DEF Settled, Stored, NoSweep
  <1>7. CASE FailSweep(g)
    BY <1>7, <1>s, EndRecord DEF Settled, Stored, NoSweep
  <1> QED
    BY <1>1, <1>2, <1>3, <1>4, <1>5, <1>6, <1>7 DEF Collect

LEMMA NextSettled ==
    StoreInv /\ [Next]_vars => \A c \in Commit : Settled(c) => Settled(c)'
  <1> SUFFICES ASSUME StoreInv, [Next]_vars, NEW c \in Commit, Settled(c) PROVE Settled(c)'
    OBVIOUS
  <1>1. CASE \E g \in Sweeper : Collect(g) \/ FailSweep(g)
    BY <1>1, CollectKeepsSettled
  <1>2. CASE ~ \E g \in Sweeper : Collect(g) \/ FailSweep(g)
    <2>1. TypeOK /\ ObjectsOf(c) \subseteq Object
      BY CommitTypes DEF StoreInv, TreeInv
    <2>2. \A o \in ObjectsOf(c) : row'[o] # Absent /\ file'[o] # Absent
      BY <1>2, <2>1, OthersKeepObjects DEF Settled, Stored, TypeOK, Time, Absent
    <2>3. c \in commits'
      BY <1>2, <2>1, OthersKeepObjects DEF Settled
    <2>4. sweep' = sweep \/ \A g \in Sweeper : sweep'[g].pc = "idle"
      BY <1>2, <2>1, OthersKeepObjects DEF NoSweep
    <2> QED
      BY <2>2, <2>3, <2>4 DEF Settled, Stored, Marking
  <1> QED
    BY <1>1, <1>2

(* SettledStaysSettled holds of every behaviour, whatever the number of       *)
(* collections and however they overlap: what a collection marks, or will,    *)
(* neither it nor another one deletes.                                        *)
THEOREM SettledForGood == Spec => SettledStaysSettled
  <1>1. Init => StoreInv
    BY InitStoreInv DEF GraceInv
  <1>2. StoreInv /\ [Next]_vars => [\A c \in Commit : Settled(c) => Settled(c)']_vars
    BY NextSettled
  <1> QED
    BY <1>1, <1>2, NextStoreInv, PTL DEF Spec, SettledStaysSettled

-----------------------------------------------------------------------------
(* The grace period, when collections do not overlap. *)

OneSweeper == \A g, h \in Sweeper : g = h

LEMMA NextDeadRowsOld ==
    ASSUME OneSweeper, StoreInv, DeadRowsOld, [Next]_vars
    PROVE  DeadRowsOld'
  <1> USE DEF StoreInv, TreeInv
  <1>t. /\ row \in [Object -> Time \cup {Absent}] /\ now \in Int /\ Grace \in Nat
        /\ \A g \in Sweeper : sweep[g].cutoff \in Int
        /\ \A g \in Sweeper : sweep[g].dead \cup sweep[g].gone \subseteq Object
    BY StoreAssumption DEF TypeOK, Time, SweepState
  <1>n. NoSweep.pc = "idle" /\ NoSweep.dead = {} /\ NoSweep.gone = {}
    BY DEF NoSweep
  <1>1. ASSUME NEW g \in Sweeper, Collect(g) \/ FailSweep(g)
        PROVE  DeadRowsOld'
    <2>1. \A h \in Sweeper : h = g
      BY DEF OneSweeper
    <2>2. now' = now
      BY <1>1, CollectFrame
    <2>s. ASSUME sweep'[g].pc # "idle" => sweep'[g].cutoff <= now - Grace,
                 \A o \in sweep'[g].dead \cup sweep'[g].gone :
                    row'[o] # Absent /\ row'[o] < sweep'[g].cutoff
          PROVE  DeadRowsOld'
      BY <2>1, <2>2, <2>s DEF DeadRowsOld, Running
    <2>3. CASE ReadTrees(g)
      BY <2>3, <2>s, <1>t, ReadTreesRecord
    <2>4. CASE ReadRoots(g)
      BY <2>4, <2>s, ReadRootsRecord DEF DeadRowsOld, Running
    <2>5. CASE SelectDead(g)
      BY <2>5, <2>s, SelectDeadRecord DEF DeadRowsOld, Running, DeadObjects
    <2>6. CASE DeleteRows(g)
      BY <2>6, <2>s, DeleteRowsRecord DEF DeadRowsOld, Running
    <2>7. CASE \/ PurgeFile(g) \/ EndPurge(g) \/ ResetBloom(g) \/ RebuildBloom(g)
      BY <2>7, <2>s, PurgeRecord DEF DeadRowsOld, Running, Marking
    <2>8. CASE CommitSweep(g) \/ FailSweep(g)
      BY <2>8, <2>s, <1>n, EndRecord
    <2> QED
      BY <1>1, <2>3, <2>4, <2>5, <2>6, <2>7, <2>8 DEF Collect
  <1>2. CASE ~ \E g \in Sweeper : Collect(g) \/ FailSweep(g)
    <2>1. CASE \A g \in Sweeper : sweep'[g] = NoSweep
      BY <2>1, <1>n DEF DeadRowsOld, Running
    <2>2. CASE sweep' = sweep
      <3>1. \A o \in Object : row[o] # Absent => row'[o] = row[o]
        BY <1>2, OthersKeepObjects
      <3>2. now' \in Int /\ now <= now'
        BY <1>2, <1>t, OthersKeepObjects
      <3>3. \A g \in Sweeper : sweep[g].pc # "idle" => sweep[g].cutoff <= now' - Grace
        BY <3>2, <1>t DEF DeadRowsOld, Running
      <3> QED
        BY <2>2, <3>1, <3>3, <1>t DEF DeadRowsOld, Running
    <2> QED
      BY <1>2, <2>1, <2>2, OthersKeepObjects
  <1> QED
    BY <1>1, <1>2

(* A step of the only collection keeps an object that it spares. *)
LEMMA CollectSpares ==
    ASSUME OneSweeper, StoreInv, DeadRowsOld, NEW g \in Sweeper, Collect(g) \/ FailSweep(g),
           NEW o \in Object, Stored(o), Spared(g, o),
           NEW c \in commits, o \in ObjectsOf(c)
    PROVE  Stored(o)' /\ Spared(g, o)'
  <1> USE DEF StoreInv, TreeInv
  <1>f. commits' = commits
    BY CollectFrame
  <1>t. row \in [Object -> Time \cup {Absent}] /\ file \in [Object -> Time \cup {Absent}]
    BY DEF TypeOK
  <1>1. CASE ReadTrees(g)
    <2>1. c \in Commit /\ TreesOf(c) \subseteq sweep'[g].trees
      BY <1>1, ReadTreesRecord DEF TreeRowsClosed, TypeOK
    <2> QED
      BY <1>1, <1>f, <2>1, ReadTreesRecord DEF Spared, Stored, Marking
  <1>2. CASE ReadRoots(g)
    <2> DEFINE rs == {Root[d] : d \in commits}
    <2>1. /\ sweep[g].pc = "roots" /\ sweep'[g].pc = "select"
          /\ sweep'[g].alive = Alive(sweep[g].trees, rs)
          /\ sweep'[g].cutoff = sweep[g].cutoff /\ UNCHANGED <<row, file>>
      BY <1>2, ReadRootsRecord
    <2>2. ASSUME NEW d \in commits, o \in ObjectsOf(d), TreesOf(d) \subseteq sweep[g].trees
          PROVE  o \in sweep'[g].alive
      <3>1. d \in Commit /\ Root[d] \in rs /\ rs \subseteq Tree
        BY StoreAssumption DEF TypeOK
      <3> HIDE DEF rs
      <3> QED
        BY <2>1, <2>2, <3>1, MarkCovers
    <2> QED
      BY <2>1, <2>2 DEF Spared, Stored, Marking
  <1>3. CASE SelectDead(g)
    BY <1>3, SelectDeadRecord DEF Spared, Stored, Marking
  <1>4. CASE DeleteRows(g)
    BY <1>4, DeleteRowsRecord DEF Spared, Stored, Marking
  <1>5. CASE \/ PurgeFile(g) \/ EndPurge(g) \/ ResetBloom(g) \/ RebuildBloom(g)
    <2>1. /\ Marking(g) /\ sweep'[g].pc # "roots"
          /\ sweep'[g].cutoff = sweep[g].cutoff /\ sweep'[g].alive = sweep[g].alive
          /\ row' = row /\ (file'[o] # file[o] => o \notin sweep[g].alive /\ file[o] < sweep[g].cutoff)
      BY <1>5, PurgeRecord
    <2>2. file'[o] = file[o]
      <3>1. file[o] \in Int /\ sweep[g].cutoff \in Int
        BY DEF TypeOK, Time, Absent, SweepState
      <3> QED
        BY <2>1, <3>1 DEF Spared
    <2> QED
      BY <2>1, <2>2 DEF Spared, Stored, Marking
  <1>6. CASE CommitSweep(g)
    <2>1. o \notin sweep[g].gone
      <3>1. ASSUME o \in sweep[g].gone PROVE FALSE
        <4>1. row[o] < sweep[g].cutoff
          BY <3>1 DEF DeadRowsOld
        <4>2. o \in sweep[g].alive \/ row[o] >= sweep[g].cutoff
          BY <1>6, EndRecord DEF Spared
        <4>3. row[o] \in Int /\ sweep[g].cutoff \in Int
          BY DEF TypeOK, Time, Absent, SweepState
        <4> QED
          BY <3>1, <4>1, <4>2, <4>3 DEF DeadNotAlive
      <3> QED
        BY <3>1
    <2> QED
      BY <1>6, <2>1, EndRecord DEF Spared, Stored, Marking, NoSweep
  <1>7. CASE FailSweep(g)
    BY <1>7, EndRecord DEF Spared, Stored, Marking, NoSweep
  <1> QED
    BY <1>1, <1>2, <1>3, <1>4, <1>5, <1>6, <1>7 DEF Collect

(* Nor does any other step: it renews what it changes. *)
LEMMA OthersSpare ==
    ASSUME StoreInv, DeadRowsOld, [Next]_vars,
           ~ \E g \in Sweeper : Collect(g) \/ FailSweep(g),
           NEW o \in Object, Stored(o), NEW g \in Sweeper, Spared(g, o)
    PROVE  Stored(o)' /\ Spared(g, o)'
  <1> USE DEF StoreInv, TreeInv
  <1>1. /\ row[o] \in Int /\ file[o] \in Int /\ now \in Nat /\ Grace \in Nat
        /\ sweep[g].cutoff \in Int
    BY StoreAssumption DEF TypeOK, Time, Absent, SweepState
  <1>2. row'[o] = row[o] /\ (file'[o] = file[o] \/ file'[o] = now) /\ commits \subseteq commits'
    BY OthersKeepObjects DEF Stored
  <1>3. Stored(o)'
    BY <1>1, <1>2 DEF Stored, Absent
  <1>4. CASE sweep' = sweep
    <2>1. sweep[g].pc # "idle" => sweep[g].cutoff <= now
      BY <1>1 DEF DeadRowsOld, Running
    <2>2. sweep[g].pc # "idle" /\ file[o] >= sweep[g].cutoff => file'[o] >= sweep[g].cutoff
      BY <1>1, <1>2, <2>1
    <2> QED
      BY <1>2, <1>3, <1>4, <2>2 DEF Spared, Marking
  <1>5. CASE \A h \in Sweeper : sweep'[h] = NoSweep
    BY <1>3, <1>5 DEF Spared, Marking, NoSweep
  <1> QED
    BY <1>4, <1>5, OthersKeepObjects

(* Only a landing adds a commit to the graced ones, and only with its objects *)
(* young or kept already.                                                     *)
LEMMA GracedGrowth ==
    ASSUME TypeOK, graced \subseteq commits, [Next]_vars
    PROVE  /\ graced' \subseteq commits'
           /\ \A c \in graced' \ graced : c \in Commit /\ GraceHolds(c)
  <1>1. CASE \E c \in Commit : LandCommit(c)
    BY <1>1 DEF LandCommit
  <1>2. CASE ~ \E c \in Commit : LandCommit(c)
    <2>1. UNCHANGED <<graced, commits>>
      <3>1. CASE \E g \in Sweeper : Collect(g) \/ FailSweep(g)
        BY <3>1, CollectFrame
      <3>2. CASE \E c \in Commit : PushStep(c) \/ FailPush(c)
        BY <3>2, <1>2 DEF PushStep, FailPush, StartPush, FinishUploads, SendCommit, storeVars
      <3>3. CASE \E c \in Commit, o \in Object : Upload(c, o) \/ DropUpload(c, o)
        BY <3>3 DEF Upload, UploadCheck, StoreBegin, StoreEnd, StatFile, InsertRow, AddToBloom,
                    DropUpload, UploadStep
      <3>4. CASE Restart \/ Tick \/ UNCHANGED vars
        BY <3>4 DEF Restart, Tick, vars, storeVars
      <3> QED
        BY <3>1, <3>2, <3>3, <3>4 DEF Next
    <2> QED
      BY <2>1
  <1> QED
    BY <1>1, <1>2

LEMMA NextGracedSpared ==
    ASSUME OneSweeper, GraceInv, [Next]_vars
    PROVE  GracedSpared'
  <1> USE DEF GraceInv, StoreInv, TreeInv
  <1>1. graced' \subseteq commits'
    BY GracedGrowth DEF GracedSpared
  <1>2. ASSUME NEW c \in graced', NEW o \in ObjectsOf(c)
        PROVE  Stored(o)' /\ \A g \in Sweeper : Spared(g, o)'
    <2>0. c \in Commit /\ o \in Object
      BY <1>2, GracedGrowth, CommitTypes DEF GracedSpared, TypeOK
    <2>1. Stored(o) /\ \A g \in Sweeper : Spared(g, o)
      <3>1. CASE \E d \in graced : o \in ObjectsOf(d)
        BY <3>1 DEF GracedSpared
      <3>2. CASE row[o] >= now - Grace /\ file[o] >= now - Grace /\ Stored(o)
        <4>1. ASSUME NEW g \in Sweeper, sweep[g].pc # "idle"
              PROVE  row[o] >= sweep[g].cutoff /\ file[o] >= sweep[g].cutoff
          <5>1. sweep[g].cutoff <= now - Grace
            BY <4>1 DEF DeadRowsOld, Running
          <5>2. /\ row[o] \in Int /\ file[o] \in Int /\ now \in Int /\ Grace \in Int
                /\ sweep[g].cutoff \in Int
            BY <2>0, StoreAssumption DEF TypeOK, Time, Absent, SweepState
          <5> QED
            BY <3>2, <5>1, <5>2
        <4> QED
          BY <3>2, <4>1 DEF Spared, Marking
      <3>3. c \in graced \/ GraceHolds(c)
        BY GracedGrowth DEF GracedSpared
      <3> QED
        BY <1>2, <3>1, <3>2, <3>3 DEF GraceHolds
    <2>2. CASE \E g \in Sweeper : Collect(g) \/ FailSweep(g)
      <3>1. PICK g \in Sweeper : Collect(g) \/ FailSweep(g)
        BY <2>2
      <3>2. c \in commits
        BY <3>1, <1>2, CollectFrame DEF GracedSpared
      <3>3. Stored(o)' /\ Spared(g, o)'
        BY <3>1, <3>2, <2>0, <2>1, <1>2, CollectSpares
      <3>4. \A h \in Sweeper : h = g
        BY DEF OneSweeper
      <3> QED
        BY <3>3, <3>4
    <2>3. CASE ~ \E g \in Sweeper : Collect(g) \/ FailSweep(g)
      <3>1. ASSUME NEW g \in Sweeper PROVE Stored(o)' /\ Spared(g, o)'
        BY <2>0, <2>1, <2>3, OthersSpare
      <3>2. Stored(o)'
        <4>1. row'[o] = row[o] /\ (file'[o] = file[o] \/ file'[o] = now)
          BY <2>0, <2>1, <2>3, OthersKeepObjects DEF Stored
        <4> QED
          BY <4>1, <2>1 DEF Stored, TypeOK, Time, Absent
      <3> QED
        BY <3>1, <3>2
    <2> QED
      BY <2>2, <2>3
  <1> QED
    BY <1>1, <1>2 DEF GracedSpared

LEMMA NextGraceInv == OneSweeper /\ GraceInv /\ [Next]_vars => GraceInv'
  BY NextStoreInv, NextDeadRowsOld, NextGracedSpared DEF GraceInv

(* GraceGuarantee, for a registry whose collections do not overlap: a commit  *)
(* that lands while its objects are younger than the grace period, or kept by *)
(* such a commit, keeps them through every later collection.                  *)
THEOREM GraceKept == ASSUME OneSweeper PROVE Spec => []GraceGuarantee
  <1>1. GraceInv => GraceGuarantee
    BY DEF GraceInv, GracedSpared, GraceGuarantee
  <1>2. GraceInv /\ [Next]_vars => GraceInv'
    BY NextGraceInv
  <1> QED
    BY <1>1, <1>2, InitStoreInv, PTL DEF Spec

(* FreshRowNeverCollected, for the same registry: a row younger than the      *)
(* grace period is deleted by no collection.                                  *)
THEOREM FreshRowsKept == ASSUME OneSweeper PROVE Spec => FreshRowNeverCollected
  <1> DEFINE Fresh(o) == row[o] # Absent /\ row[o] >= now - Grace
  <1>1. ASSUME GraceInv, [Next]_vars, NEW o \in Object, Fresh(o)
        PROVE  row'[o] # Absent
    <2> USE DEF GraceInv, StoreInv, TreeInv
    <2>1. ASSUME NEW g \in Sweeper, Collect(g) \/ FailSweep(g)
          PROVE  row'[o] # Absent
      <3>1. CASE CommitSweep(g)
        <4>1. ASSUME o \in sweep[g].gone PROVE FALSE
          <5>1. row[o] < sweep[g].cutoff /\ sweep[g].cutoff <= now - Grace
            BY <1>1, <4>1, <3>1, EndRecord DEF DeadRowsOld, Running, Marking
          <5>2. row[o] \in Int /\ now \in Int /\ Grace \in Int /\ sweep[g].cutoff \in Int
            BY <1>1, StoreAssumption DEF TypeOK, Time, Absent, SweepState
          <5> QED
            BY <5>1, <5>2, <1>1
        <4> QED
          BY <4>1, <3>1, <1>1, EndRecord
      <3>2. CASE ~ CommitSweep(g)
        BY <2>1, <3>2, <1>1, ReadTreesRecord, ReadRootsRecord, SelectDeadRecord, DeleteRowsRecord,
           PurgeRecord, EndRecord DEF Collect
      <3> QED
        BY <3>1, <3>2
    <2>2. CASE ~ \E g \in Sweeper : Collect(g) \/ FailSweep(g)
      BY <2>2, <1>1, OthersKeepObjects
    <2> QED
      BY <2>1, <2>2
  <1>2. GraceInv /\ [Next]_vars =>
          [\A o \in Object : row[o] # Absent /\ row[o] >= now - Grace => row'[o] # Absent]_vars
    BY <1>1
  <1>3. GraceInv /\ [Next]_vars => GraceInv'
    BY NextGraceInv
  <1> QED
    BY <1>2, <1>3, InitStoreInv, PTL DEF Spec, FreshRowNeverCollected
=============================================================================
