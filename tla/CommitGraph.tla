------------------------------ MODULE CommitGraph ------------------------------
(***************************************************************************)
(* The commit graph as a client sees it, and the walks over it:            *)
(* sync.is_ancestor, core._ref_contains, merge.find_merge_base and the     *)
(* first-parent walk of `av pull`.  A commit names its parents by hash     *)
(* whether or not the file of the parent is there, so every walk is        *)
(* relative to the set of commit files it can open.                        *)
(*                                                                         *)
(* Commits are numbered in the order they are made; 0 is "no commit".      *)
(***************************************************************************)
EXTENDS Integers, FiniteSets, Sequences

CONSTANT MaxCommits   \* bound: commits in a behaviour

ASSUME CommitAssumption == MaxCommits \in Nat

None == 0
Commit == 1 .. MaxCommits
CommitOrNone == 0 .. MaxCommits

(* The "parents" list of a commit: empty, one parent, or two for a merge. *)
Parentage == [first : CommitOrNone, second : CommitOrNone]
NoParents == [first |-> None, second |-> None]
ParentsOf(p) == {p.first, p.second} \ {None}

(* The commits a walk from h meets that opens the files fs: h, and the      *)
(* parents of every commit met whose file is there.                          *)
Reach(ps, fs, h) ==
    LET met[k \in 0 .. MaxCommits] ==
            IF k = 0 THEN {h} \ {None}
            ELSE LET seen == met[k - 1]
                 IN  seen \cup UNION {ParentsOf(ps[c]) : c \in seen \cap fs}
    IN  met[MaxCommits]

IsAncestor(ps, fs, a, d) == a \in Reach(ps, fs, d)

(* The parents of c in order, as far as its file is there, and the parents   *)
(* of all of q.                                                              *)
InOrder(ps, fs, c) ==
    IF c \notin fs \/ ps[c].first = None THEN <<>>
    ELSE IF ps[c].second = None THEN <<ps[c].first>>
    ELSE <<ps[c].first, ps[c].second>>

NextLevel(ps, fs, q) ==
    LET ups[i \in 0 .. Len(q)] == IF i = 0 THEN <<>> ELSE ups[i - 1] \o InOrder(ps, fs, q[i])
    IN  ups[Len(q)]

(* The queue of a breadth-first walk: the part k parents away from its start. *)
Levels(ps, fs, start) ==
    LET level[k \in 0 .. MaxCommits] ==
            IF k = 0 THEN <<start>> ELSE LET q == level[k - 1] IN NextLevel(ps, fs, q)
    IN  level

(* find_merge_base: a breadth-first walk from theirs up to the first commit  *)
(* that ours reaches; a commit met again does not matter, the walk asks for  *)
(* the first one of all.                                                     *)
MergeBase(ps, fs, ours, theirs) ==
    LET known == Reach(ps, fs, ours)
        level == Levels(ps, fs, theirs)
        Hits(q) == {i \in DOMAIN q : q[i] \in known}
        near == {k \in 0 .. MaxCommits : Hits(level[k]) # {}}
    IN  IF near = {} THEN None
        ELSE LET q == level[CHOOSE k \in near : \A j \in near : k <= j]
             IN  q[CHOOSE i \in Hits(q) : \A j \in Hits(q) : i <= j]

(* What `av pull` stores on its way back from the remote tip h: the first-  *)
(* parent chain, up to the first commit that is the local tip or already    *)
(* has a file.                                                              *)
Fetched(ps, fs, local, h) ==
    LET new == (1 .. h) \ (fs \cup {local})
        closed == {S \in SUBSET new :
                      /\ h \in new => h \in S
                      /\ \A d \in S : ps[d].first \in new => ps[d].first \in S}
    IN  {c \in new : \A S \in closed : c \in S}
=============================================================================
