----------------------------- MODULE TreeProofs -----------------------------
(***************************************************************************)
(* What a commit holds and what a walk of the working tree finds: the rows *)
(* of the registry give every tree back whole and summarise changes as the *)
(* client does, and the files that are seen are those the rules leave, in  *)
(* one order; for any paths, entries, commits, patterns and listings.      *)
(***************************************************************************)
EXTENDS TreeRows, IgnoreRules, FiniteSetTheorems, OrderLemmas, TLAPS

-----------------------------------------------------------------------------
(* Paths and what lies below a directory.                                    *)

FilePath == Seq(TreeName) \ {<<>>}
FlatTree == UNION {[D -> RowEntry] : D \in SUBSET FilePath}
Tree == UNION {[D -> RowEntry] : D \in SUBSET TreePath}

(* A tree of the model has paths of one to MaxTreeDepth names.               *)
LEMMA TreeIsFlat == Tree \subseteq FlatTree
<1> SUFFICES ASSUME NEW D \in SUBSET TreePath, NEW t \in [D -> RowEntry]
             PROVE  t \in FlatTree
  BY DEF Tree
<1>1. ASSUME NEW p \in TreePath PROVE p \in FilePath
  <2>1. p \in Seq(TreeName) /\ Len(p) \in 1..MaxTreeDepth /\ MaxTreeDepth \in Nat
    BY TreeAssumption
  <2>2. Len(p) # 0
    BY <2>1
  <2> QED
    BY <2>1, <2>2, EmptySeq DEF FilePath
<1>2. D \in SUBSET FilePath
  BY <1>1
<1> QED
  BY <1>2 DEF FlatTree

(* The path of a directory is a proper beginning of the paths of its files.  *)
LEMMA BelowIsPrefix ==
    ASSUME NEW d \in Seq(TreeName), NEW p \in Seq(TreeName)
    PROVE  Below(d, p) <=> Len(d) < Len(p) /\ \A i \in 1..Len(d) : d[i] = p[i]
<1>1. Len(d) \in Nat /\ Len(p) \in Nat
  OBVIOUS
<1>2. SubSeq(d, 1, Len(d)) = d
  OBVIOUS
<1>3. ASSUME Len(d) < Len(p)
      PROVE  d = SubSeq(p, 1, Len(d)) <=> \A i \in 1..Len(d) : d[i] = p[i]
  <2> DEFINE s == SubSeq(p, 1, Len(d))
  <2>1. s \in Seq(TreeName) /\ Len(s) = Len(d) /\ \A i \in 1..Len(d) : s[i] = p[i]
    BY <1>1, <1>3
  <2> QED
    BY <2>1, SeqEqual
<1> QED
  BY <1>1, <1>2, <1>3 DEF Below, IsPrefix

(* What follows d in a path below it.                                        *)
LEMMA BelowSplits ==
    ASSUME NEW d \in Seq(TreeName), NEW p \in Seq(TreeName), Below(d, p)
    PROVE  /\ SubSeq(p, Len(d) + 1, Len(p)) \in FilePath
           /\ d \o SubSeq(p, Len(d) + 1, Len(p)) = p
<1> DEFINE q == SubSeq(p, Len(d) + 1, Len(p))
<1>1. Len(d) \in Nat /\ Len(p) \in Nat /\ Len(d) < Len(p) /\ \A i \in 1..Len(d) : d[i] = p[i]
  BY BelowIsPrefix
<1>2. /\ q \in Seq(TreeName) /\ Len(q) = Len(p) - Len(d)
      /\ \A i \in 1..Len(q) : q[i] = p[Len(d) + i]
  BY <1>1, SubSeqProperties
<1> HIDE DEF q
<1>3. q # <<>>
  <2>1. Len(q) # 0
    BY <1>1, <1>2
  <2> QED
    BY <1>2, <2>1, EmptySeq
<1>4. d \o q \in Seq(TreeName) /\ Len(d \o q) = Len(p)
  BY <1>1, <1>2
<1>5. ASSUME NEW i \in 1..Len(p) PROVE (d \o q)[i] = p[i]
  BY <1>1, <1>2, <1>5
<1>6. d \o q = p
  BY <1>4, <1>5, SeqEqual
<1> QED
  BY <1>2, <1>3, <1>6 DEF FilePath, q

LEMMA JoinedIsBelow ==
    ASSUME NEW d \in Seq(TreeName), NEW q \in FilePath
    PROVE  /\ d \o q \in Seq(TreeName) /\ Below(d, d \o q)
           /\ SubSeq(d \o q, Len(d) + 1, Len(d \o q)) = q
           /\ SubSeq(d \o q, 1, Len(d)) = d
           /\ Len(d \o q) = Len(d) + Len(q)
<1> DEFINE p == d \o q
<1>1. q \in Seq(TreeName) /\ Len(q) \in Nat /\ Len(q) > 0 /\ Len(d) \in Nat
  BY EmptySeq DEF FilePath
<1>2. /\ p \in Seq(TreeName) /\ Len(p) = Len(d) + Len(q)
      /\ \A i \in 1..Len(d) : p[i] = d[i]
      /\ \A i \in 1..Len(q) : p[Len(d) + i] = q[i]
  BY <1>1
<1> HIDE DEF p
<1>3. Below(d, p)
  BY <1>1, <1>2, BelowIsPrefix
<1>4. SubSeq(p, Len(d) + 1, Len(p)) = q
  <2> DEFINE s == SubSeq(p, Len(d) + 1, Len(p))
  <2>1. /\ s \in Seq(TreeName) /\ Len(s) = Len(q)
        /\ \A i \in 1..Len(s) : s[i] = p[Len(d) + i]
    BY <1>1, <1>2, SubSeqProperties
  <2>2. \A i \in 1..Len(q) : s[i] = q[i]
    BY <1>2, <2>1
  <2> QED
    BY <1>1, <2>1, <2>2, SeqEqual
<1>5. SubSeq(p, 1, Len(d)) = d
  <2> DEFINE s == SubSeq(p, 1, Len(d))
  <2>1. s \in Seq(TreeName) /\ Len(s) = Len(d) /\ \A i \in 1..Len(s) : s[i] = p[i]
    BY <1>1, <1>2
  <2> QED
    BY <1>2, <2>1, SeqEqual
<1> QED
  BY <1>2, <1>3, <1>4, <1>5 DEF p
(* The flat tree below a directory, as a function on the paths from there.   *)
LEMMA UnderIsRest ==
    ASSUME NEW t \in FlatTree, NEW d \in Seq(TreeName)
    PROVE  /\ Under(t, d) \in FlatTree
           /\ DOMAIN Under(t, d) = {q \in FilePath : d \o q \in DOMAIN t}
           /\ \A q \in DOMAIN Under(t, d) : Under(t, d)[q] = t[d \o q]
<1>1. DOMAIN t \subseteq FilePath /\ \A p \in DOMAIN t : t[p] \in RowEntry
  BY DEF FlatTree
<1> DEFINE D == {SubSeq(p, Len(d) + 1, Len(p)) : p \in {x \in DOMAIN t : Below(d, x)}}
           R == {q \in FilePath : d \o q \in DOMAIN t}
<1>2. ASSUME NEW q \in D PROVE q \in R
  <2>1. PICK p \in DOMAIN t : Below(d, p) /\ q = SubSeq(p, Len(d) + 1, Len(p))
    OBVIOUS
  <2>2. p \in Seq(TreeName)
    BY <1>1 DEF FilePath
  <2>3. q \in FilePath /\ d \o q = p
    BY <2>1, <2>2, BelowSplits
  <2> QED
    BY <2>3
<1>3. ASSUME NEW q \in R PROVE q \in D
  <2>1. Below(d, d \o q) /\ SubSeq(d \o q, Len(d) + 1, Len(d \o q)) = q
    BY JoinedIsBelow
  <2> QED
    BY <2>1
<1>4. D = R
  BY <1>2, <1>3
<1>5. Under(t, d) = [q \in D |-> t[d \o q]]
  BY Zenon DEF Under
<1> HIDE DEF D
<1>6. DOMAIN Under(t, d) = R /\ \A q \in R : Under(t, d)[q] = t[d \o q]
  BY <1>4, <1>5
<1>7. Under(t, d) \in [R -> RowEntry]
  <2>1. Under(t, d) = [q \in R |-> t[d \o q]]
    BY <1>4, <1>5
  <2>2. \A q \in R : t[d \o q] \in RowEntry
    BY <1>1
  <2> QED
    BY <2>1, <2>2
<1>8. R \in SUBSET FilePath
  OBVIOUS
<1> HIDE DEF R
<1>9. Under(t, d) \in FlatTree
  BY <1>7, <1>8 DEF FlatTree
<1> QED
  BY <1>6, <1>9 DEF R

(* Two trees with the same paths and entries are the same.                   *)
LEMMA FlatTreesEqual ==
    ASSUME NEW s \in FlatTree, NEW t \in FlatTree, DOMAIN s = DOMAIN t,
           \A p \in DOMAIN t : s[p] = t[p]
    PROVE  s = t
<1>1. PICK D : s \in [D -> RowEntry]
  BY DEF FlatTree
<1>2. PICK E : t \in [E -> RowEntry]
  BY DEF FlatTree
<1>3. D = DOMAIN s /\ E = DOMAIN t
  BY <1>1, <1>2
<1>4. s \in [D -> RowEntry] /\ t \in [D -> RowEntry]
  BY <1>1, <1>2, <1>3
<1>5. \A p \in D : s[p] = t[p]
  BY <1>3
<1> QED
  BY <1>4, <1>5

LEMMA UnderRoot ==
    ASSUME NEW t \in FlatTree
    PROVE  Under(t, <<>>) = t
<1>1. <<>> \in Seq(TreeName)
  BY EmptySeq
<1>2. DOMAIN t \subseteq FilePath
  BY DEF FlatTree
<1>3. \A q \in FilePath : <<>> \o q = q
  BY ConcatEmptySeq DEF FilePath
<1> DEFINE e == <<>>
           u == Under(t, e)
<1>4. e \in Seq(TreeName) /\ \A q \in FilePath : e \o q = q
  BY <1>1, <1>3
<1> HIDE DEF e
<1>5. /\ u \in FlatTree /\ DOMAIN u = {q \in FilePath : e \o q \in DOMAIN t}
      /\ \A q \in DOMAIN u : u[q] = t[e \o q]
  BY <1>4, UnderIsRest
<1> HIDE DEF u
<1>6. DOMAIN u = DOMAIN t
  BY <1>2, <1>4, <1>5
<1>7. \A q \in DOMAIN t : u[q] = t[q]
  BY <1>2, <1>4, <1>5, <1>6
<1>8. u = t
  BY <1>5, <1>6, <1>7, FlatTreesEqual
<1> QED
  BY <1>8 DEF u, e

LEMMA UnderUnder ==
    ASSUME NEW t \in FlatTree, NEW d \in Seq(TreeName), NEW e \in Seq(TreeName)
    PROVE  Under(Under(t, d), e) = Under(t, d \o e)
<1> DEFINE u == Under(t, d)
           v == Under(u, e)
           w == Under(t, d \o e)
<1>1. /\ u \in FlatTree /\ DOMAIN u = {q \in FilePath : d \o q \in DOMAIN t}
      /\ \A q \in DOMAIN u : u[q] = t[d \o q]
  BY UnderIsRest
<1>2. d \o e \in Seq(TreeName)
  OBVIOUS
<1> HIDE DEF u
<1>3. /\ v \in FlatTree /\ DOMAIN v = {q \in FilePath : e \o q \in DOMAIN u}
      /\ \A q \in DOMAIN v : v[q] = u[e \o q]
  BY <1>1, UnderIsRest
<1>4. /\ w \in FlatTree /\ DOMAIN w = {q \in FilePath : (d \o e) \o q \in DOMAIN t}
      /\ \A q \in DOMAIN w : w[q] = t[(d \o e) \o q]
  BY <1>2, UnderIsRest
<1> HIDE DEF v, w
<1>5. ASSUME NEW q \in FilePath
      PROVE  e \o q \in FilePath /\ d \o (e \o q) = (d \o e) \o q
  <2>1. q \in Seq(TreeName) /\ q # <<>> /\ e \o q \in Seq(TreeName)
    BY DEF FilePath
  <2>2. e \o q # <<>>
    BY <2>1, ConcatEqualIffEmpty, ConcatEmptySeq, EmptySeq, JoinedIsBelow, LenProperties
  <2>3. d \o (e \o q) = (d \o e) \o q
    BY <2>1, ConcatAssociative
  <2> QED
    BY <2>1, <2>2, <2>3 DEF FilePath
<1>6. DOMAIN v = DOMAIN w
  BY <1>1, <1>3, <1>4, <1>5
<1>7. ASSUME NEW q \in DOMAIN w PROVE v[q] = w[q]
  <2>1. q \in FilePath /\ e \o q \in DOMAIN u /\ q \in DOMAIN v
    BY <1>3, <1>6
  <2>2. v[q] = u[e \o q] /\ u[e \o q] = t[d \o (e \o q)] /\ w[q] = t[(d \o e) \o q]
    BY <1>1, <1>3, <1>4, <2>1
  <2>3. d \o (e \o q) = (d \o e) \o q
    BY <1>5, <2>1
  <2> QED
    BY <2>2, <2>3
<1> QED
  BY <1>3, <1>4, <1>6, <1>7, FlatTreesEqual DEF u, v, w
-----------------------------------------------------------------------------
(* The rows of a set of trees.                                               *)

TableOf(trees) == UNION {RowsOf(t) : t \in trees}

(* The rows of a directory of one of them are its own, whatever other trees  *)
(* hold a directory with the same content.                                   *)
LEMMA RowsAt ==
    ASSUME NEW P \in SUBSET FlatTree, NEW t \in P, NEW d \in Seq(TreeName), NEW r
    PROVE  r \in TableOf(P) /\ r.tree = Under(t, d)
             <=> \E p \in DOMAIN Under(t, d) : r = Row(Under(t, d), p[1])
<1> DEFINE u == Under(t, d)
<1>1. ASSUME r \in TableOf(P), r.tree = u
      PROVE  \E p \in DOMAIN u : r = Row(u, p[1])
  <2>1. PICK s \in P : r \in RowsOf(s)
    BY <1>1 DEF TableOf
  <2>2. PICK dir \in Directories(s) : \E p \in DOMAIN dir : r = Row(dir, p[1])
    BY <2>1 DEF RowsOf
  <2>3. dir = u
    BY <1>1, <2>2 DEF Row
  <2> QED
    BY <2>2, <2>3
<1>2. ASSUME NEW p \in DOMAIN u, r = Row(u, p[1])
      PROVE  r \in TableOf(P) /\ r.tree = u
  <2>1. p \in FilePath /\ d \o p \in DOMAIN t
    BY UnderIsRest
  <2>2. SubSeq(d \o p, 1, Len(d)) = d /\ Len(d) \in 0..Len(d \o p) - 1
    <3>1. SubSeq(d \o p, 1, Len(d)) = d /\ Len(d \o p) = Len(d) + Len(p)
      BY <2>1, JoinedIsBelow
    <3>2. Len(d) \in Nat /\ Len(p) \in Nat /\ Len(p) # 0
      BY <2>1, EmptySeq DEF FilePath
    <3> QED
      BY <3>1, <3>2
  <2>3. u \in Directories(t)
    <3> DEFINE x == d \o p
    <3>1. x \in DOMAIN t /\ u = Under(t, SubSeq(x, 1, Len(d))) /\ Len(d) \in 0..Len(x) - 1
      BY <2>1, <2>2
    <3> HIDE DEF x, u
    <3>2. u \in {Under(t, SubSeq(x, 1, n)) : n \in 0..Len(x) - 1}
      BY <3>1
    <3> QED
      BY <3>1, <3>2 DEF Directories
  <2>4. r \in RowsOf(t)
    BY <1>2, <2>3 DEF RowsOf
  <2> QED
    BY <1>2, <2>4 DEF TableOf, Row
<1> QED
  BY <1>1, <1>2

-----------------------------------------------------------------------------
(* The walk of resolve_trees, level by level.                                *)

(* The directories n names deep, and where a walk that wants W stands there. *)
DirsAt(t, n) == IF n = 0 THEN {<<>>} ELSE {SubSeq(p, 1, n) : p \in {x \in DOMAIN t : Len(x) > n}}
StepAt(t, d) == [root |-> t, tree |-> Under(t, d), path |-> d]
AtLevel(W, n) == UNION {{StepAt(t, d) : d \in DirsAt(t, n)} : t \in W}
FileOf(t, p) == [root |-> t, path |-> p, entry |-> {t[p]}]
FilesAt(W, n) == UNION {{FileOf(t, p) : p \in {x \in DOMAIN t : Len(x) = n + 1}} : t \in W}

(* A file more than n names deep lies in a directory at level n, which has a *)
(* row for the file or for the next directory on its path.                   *)
LEMMA PathThroughLevel ==
    ASSUME NEW t \in FlatTree, NEW n \in Nat, NEW x \in DOMAIN t, Len(x) > n
    PROVE  /\ SubSeq(x, 1, n) \in DirsAt(t, n) /\ SubSeq(x, 1, n) \in Seq(TreeName)
           /\ Len(SubSeq(x, 1, n)) = n
           /\ \E p \in DOMAIN Under(t, SubSeq(x, 1, n)) :
                  /\ p[1] = x[n + 1]
                  /\ Append(SubSeq(x, 1, n), x[n + 1]) = SubSeq(x, 1, n + 1)
<1> DEFINE d == SubSeq(x, 1, n)
<1>1. x \in Seq(TreeName) /\ Len(x) \in Nat
  BY DEF FlatTree, FilePath
<1>2. d \in Seq(TreeName) /\ Len(d) = n /\ \A i \in 1..n : d[i] = x[i]
  BY <1>1
<1>3. d \in DirsAt(t, n)
  <2>1. CASE n = 0
    <3>1. d = <<>>
      BY <1>2, <2>1, EmptySeq
    <3> QED
      BY <2>1, <3>1 DEF DirsAt
  <2>2. CASE n # 0
    BY <2>2 DEF DirsAt
  <2> QED
    BY <2>1, <2>2
<1>4. Below(d, x)
  BY <1>1, <1>2, BelowIsPrefix
<1> DEFINE p == SubSeq(x, Len(d) + 1, Len(x))
<1>5. p \in FilePath /\ d \o p = x
  BY <1>1, <1>2, <1>4, BelowSplits
<1>6. p \in DOMAIN Under(t, d)
  <2>1. DOMAIN Under(t, d) = {q \in FilePath : d \o q \in DOMAIN t}
    BY <1>2, UnderIsRest
  <2> HIDE DEF d, p
  <2> QED
    BY <1>5, <2>1
<1>7. p[1] = x[n + 1]
  BY <1>1, <1>2, SubSeqProperties
<1>8. Append(d, x[n + 1]) = SubSeq(x, 1, n + 1)
  <2> DEFINE s == SubSeq(x, 1, n + 1)
             a == Append(d, x[n + 1])
  <2>1. s \in Seq(TreeName) /\ Len(s) = n + 1 /\ \A i \in 1..n + 1 : s[i] = x[i]
    BY <1>1
  <2>2. x[n + 1] \in TreeName
    BY <1>1
  <2>3. a \in Seq(TreeName) /\ Len(a) = n + 1 /\ \A i \in 1..n + 1 : a[i] = x[i]
    BY <1>2, <2>2
  <2> QED
    BY <2>1, <2>3, SeqEqual
<1> QED
  BY <1>2, <1>3, <1>6, <1>7, <1>8

LEMMA DirsArePaths ==
    ASSUME NEW t \in FlatTree, NEW n \in Nat, NEW d \in DirsAt(t, n)
    PROVE  d \in Seq(TreeName) /\ Len(d) = n
<1>1. CASE n = 0
  BY <1>1, EmptySeq DEF DirsAt
<1>2. CASE n # 0
  <2>1. PICK x \in DOMAIN t : Len(x) > n /\ d = SubSeq(x, 1, n)
    BY <1>2 DEF DirsAt
  <2>2. x \in Seq(TreeName) /\ Len(x) \in Nat
    BY DEF FlatTree, FilePath
  <2> QED
    BY <2>1, <2>2
<1> QED
  BY <1>1, <1>2

(* What the row for the first name of a path below d stands for.             *)
LEMMA RowIsNext ==
    ASSUME NEW t \in FlatTree, NEW n \in Nat, NEW d \in DirsAt(t, n), NEW p \in DOMAIN Under(t, d)
    PROVE  /\ d \in Seq(TreeName) /\ p[1] \in TreeName /\ Append(d, p[1]) \in Seq(TreeName)
           /\ <<p[1]>> \in DOMAIN Under(t, d) <=> Append(d, p[1]) \in DOMAIN t
           /\ <<p[1]>> \in DOMAIN Under(t, d) => Under(t, d)[<<p[1]>>] = t[Append(d, p[1])]
           /\ Under(Under(t, d), <<p[1]>>) = Under(t, Append(d, p[1]))
<1>1. d \in Seq(TreeName)
  BY DirsArePaths
<1> DEFINE u == Under(t, d)
<1>2. /\ u \in FlatTree /\ DOMAIN u = {q \in FilePath : d \o q \in DOMAIN t}
      /\ \A q \in DOMAIN u : u[q] = t[d \o q]
  BY <1>1, UnderIsRest
<1>3. p \in FilePath
  BY <1>2
<1>4. p[1] \in TreeName
  <2>1. p \in Seq(TreeName) /\ Len(p) \in Nat /\ Len(p) # 0
    BY <1>3, EmptySeq DEF FilePath
  <2> QED
    BY <2>1
<1>5. /\ <<p[1]>> \in FilePath /\ d \o <<p[1]>> = Append(d, p[1])
      /\ Append(d, p[1]) \in Seq(TreeName)
  <2>1. <<p[1]>> \in Seq(TreeName) /\ Len(<<p[1]>>) = 1
    BY <1>4
  <2>2. <<p[1]>> # <<>>
    BY <2>1, EmptySeq
  <2> QED
    BY <1>1, <1>4, <2>1, <2>2, AppendIsConcat DEF FilePath
<1>6. Under(u, <<p[1]>>) = Under(t, Append(d, p[1]))
  <2>1. <<p[1]>> \in Seq(TreeName)
    BY <1>4
  <2>2. Under(Under(t, d), <<p[1]>>) = Under(t, d \o <<p[1]>>)
    BY <1>1, <2>1, UnderUnder
  <2> QED
    BY <1>5, <2>2
<1> QED
  BY <1>1, <1>2, <1>4, <1>5, <1>6

(* The first n + 1 names of a path that goes on after them are a directory.  *)
LEMMA NextDirs ==
    ASSUME NEW t \in FlatTree, NEW n \in Nat, NEW d \in DirsAt(t, n), NEW p \in DOMAIN Under(t, d),
           <<p[1]>> \notin DOMAIN Under(t, d)
    PROVE  Append(d, p[1]) \in DirsAt(t, n + 1)
<1>1. d \in Seq(TreeName) /\ Len(d) = n
  BY DirsArePaths
<1>2. p \in FilePath /\ d \o p \in DOMAIN t
  BY <1>1, UnderIsRest
<1>3. p \in Seq(TreeName) /\ Len(p) \in Nat /\ Len(p) # 0
  BY <1>2, EmptySeq DEF FilePath
<1>4. Len(p) # 1
  <2> SUFFICES ASSUME Len(p) = 1 PROVE FALSE
    OBVIOUS
  <2>1. p[1] \in TreeName /\ <<p[1]>> \in Seq(TreeName) /\ Len(<<p[1]>>) = 1
    BY <1>3
  <2>2. p = <<p[1]>>
    BY <1>3, <2>1, SeqEqual
  <2> QED
    BY <2>2
<1> DEFINE x == d \o p
           a == Append(d, p[1])
<1>5. /\ x \in Seq(TreeName) /\ Len(x) = n + Len(p) /\ Len(x) > n + 1
      /\ \A i \in 1..n : x[i] = d[i]
      /\ x[n + 1] = p[1]
  BY <1>1, <1>3, <1>4
<1>6. /\ a \in Seq(TreeName) /\ Len(a) = n + 1 /\ a[n + 1] = p[1]
      /\ \A i \in 1..n : a[i] = d[i]
  BY <1>1, <1>3, <1>4
<1> HIDE DEF x, a
<1> DEFINE s == SubSeq(x, 1, n + 1)
<1>7. s \in Seq(TreeName) /\ Len(s) = n + 1 /\ \A i \in 1..n + 1 : s[i] = x[i]
  BY <1>5
<1>8. s \in DirsAt(t, n + 1)
  <2>1. n + 1 # 0 /\ x \in DOMAIN t
    BY <1>2 DEF x
  <2> QED
    BY <1>5, <2>1 DEF DirsAt
<1> HIDE DEF s
<1>9. ASSUME NEW i \in 1..n + 1 PROVE s[i] = a[i]
  <2>1. i \in 1..n \/ i = n + 1
    OBVIOUS
  <2> QED
    BY <1>5, <1>6, <1>7, <2>1
<1>10. a = s
  BY <1>6, <1>7, <1>9, SeqEqual
<1> QED
  BY <1>10, <1>8 DEF a

(* One level: the rows that a walk at level n finds are the files n + 1      *)
(* names deep and the directories to go on with.                             *)
LEMMA LevelFound ==
    ASSUME NEW P \in SUBSET FlatTree, NEW W \in SUBSET P, NEW n \in Nat,
           \A t \in P : ~Unbuildable(t)
    PROVE  /\ Subdirectories(Found(TableOf(P), AtLevel(W, n))) = AtLevel(W, n + 1)
           /\ Files(Found(TableOf(P), AtLevel(W, n))) = FilesAt(W, n)
<1> DEFINE found == Found(TableOf(P), AtLevel(W, n))
<1>1. ASSUME NEW m \in found
      PROVE  \E t \in W : \E d \in DirsAt(t, n) : \E p \in DOMAIN Under(t, d) :
                 m = <<StepAt(t, d), Row(Under(t, d), p[1])>>
  <2>1. PICK f \in AtLevel(W, n), r \in TableOf(P) : m = <<f, r>> /\ r.tree = f.tree
    BY DEF Found
  <2>2. PICK t \in W : \E d \in DirsAt(t, n) : f = StepAt(t, d)
    BY <2>1 DEF AtLevel
  <2>3. PICK d \in DirsAt(t, n) : f = StepAt(t, d)
    BY <2>2
  <2>4. d \in Seq(TreeName)
    BY DirsArePaths
  <2>5. r.tree = Under(t, d)
    BY <2>1, <2>3 DEF StepAt
  <2>6. PICK p \in DOMAIN Under(t, d) : r = Row(Under(t, d), p[1])
    BY <2>1, <2>4, <2>5, RowsAt
  <2> QED
    BY <2>1, <2>3, <2>6
<1>2. ASSUME NEW t \in W, NEW d \in DirsAt(t, n), NEW p \in DOMAIN Under(t, d)
      PROVE  <<StepAt(t, d), Row(Under(t, d), p[1])>> \in found
  <2>1. d \in Seq(TreeName)
    BY DirsArePaths
  <2>2. Row(Under(t, d), p[1]) \in TableOf(P) /\ Row(Under(t, d), p[1]).tree = Under(t, d)
    BY <2>1, RowsAt
  <2>3. StepAt(t, d) \in AtLevel(W, n) /\ StepAt(t, d).tree = Under(t, d)
    BY DEF AtLevel, StepAt
  <2> QED
    BY <2>2, <2>3 DEF Found
<1> HIDE DEF found
<1>3. Subdirectories(found) = AtLevel(W, n + 1)
  <2>1. ASSUME NEW s \in Subdirectories(found) PROVE s \in AtLevel(W, n + 1)
    <3>1. PICK m \in found : m[2].blob = {} /\ s = [root |-> m[1].root, tree |-> m[2].child,
                                                   path |-> Reached(m)]
      BY DEF Subdirectories
    <3>2. PICK t \in W : \E d \in DirsAt(t, n) : \E p \in DOMAIN Under(t, d) :
                             m = <<StepAt(t, d), Row(Under(t, d), p[1])>>
      BY <1>1
    <3>3. PICK d \in DirsAt(t, n) : \E p \in DOMAIN Under(t, d) :
                             m = <<StepAt(t, d), Row(Under(t, d), p[1])>>
      BY <3>2
    <3>4. PICK p \in DOMAIN Under(t, d) : m = <<StepAt(t, d), Row(Under(t, d), p[1])>>
      BY <3>3
    <3>5. /\ d \in Seq(TreeName) /\ p[1] \in TreeName /\ Append(d, p[1]) \in Seq(TreeName)
          /\ <<p[1]>> \in DOMAIN Under(t, d) <=> Append(d, p[1]) \in DOMAIN t
          /\ Under(Under(t, d), <<p[1]>>) = Under(t, Append(d, p[1]))
      BY RowIsNext
    <3>6. s = StepAt(t, Append(d, p[1])) /\ <<p[1]>> \notin DOMAIN Under(t, d)
      BY <3>1, <3>4, <3>5 DEF StepAt, Row, Reached
    <3>7. Append(d, p[1]) \in DirsAt(t, n + 1)
      BY <3>5, <3>6, NextDirs
    <3> QED
      BY <3>6, <3>7 DEF AtLevel
  <2>2. ASSUME NEW s \in AtLevel(W, n + 1) PROVE s \in Subdirectories(found)
    <3>1. PICK t \in W : \E d \in DirsAt(t, n + 1) : s = StepAt(t, d)
      BY DEF AtLevel
    <3>2. PICK b \in DirsAt(t, n + 1) : s = StepAt(t, b)
      BY <3>1
    <3>3. PICK x \in DOMAIN t : Len(x) > n + 1 /\ b = SubSeq(x, 1, n + 1)
      BY DEF DirsAt
    <3>4. Len(x) > n + 1 /\ s = StepAt(t, SubSeq(x, 1, n + 1))
      BY <3>2, <3>3
    <3> DEFINE d == SubSeq(x, 1, n)
    <3>5. t \in FlatTree /\ ~Unbuildable(t) /\ x \in Seq(TreeName) /\ Len(x) \in Nat /\ Len(x) > n
      <4>1. x \in Seq(TreeName) /\ Len(x) \in Nat
        BY DEF FlatTree, FilePath
      <4> QED
        BY <3>4, <4>1
    <3>6. PICK p \in DOMAIN Under(t, d) :
                  p[1] = x[n + 1] /\ Append(d, p[1]) = SubSeq(x, 1, n + 1) /\ d \in DirsAt(t, n)
      BY <3>4, <3>5, PathThroughLevel
    <3> HIDE DEF d
    <3>7. /\ <<p[1]>> \in DOMAIN Under(t, d) <=> Append(d, p[1]) \in DOMAIN t
          /\ Under(Under(t, d), <<p[1]>>) = Under(t, Append(d, p[1]))
      BY <3>6, RowIsNext
    <3>8. SubSeq(x, 1, n + 1) \notin DOMAIN t
      <4> DEFINE y == SubSeq(x, 1, n + 1)
      <4>1. y \in Seq(TreeName) /\ Len(y) = n + 1 /\ \A i \in 1..n + 1 : y[i] = x[i]
        BY <3>4, <3>5
      <4>2. Below(y, x)
        BY <3>4, <3>5, <4>1, BelowIsPrefix
      <4> QED
        BY <3>5, <4>2 DEF Unbuildable
    <3> DEFINE m == <<StepAt(t, d), Row(Under(t, d), p[1])>>
    <3>9. m \in found
      BY <1>2, <3>6
    <3>10. m[2].blob = {} /\ s = [root |-> m[1].root, tree |-> m[2].child, path |-> Reached(m)]
      BY <3>4, <3>6, <3>7, <3>8 DEF StepAt, Row, Reached
    <3> HIDE DEF m
    <3> QED
      BY <3>9, <3>10 DEF Subdirectories
  <2> QED
    BY <2>1, <2>2
<1>4. Files(found) = FilesAt(W, n)
  <2>1. ASSUME NEW s \in Files(found) PROVE s \in FilesAt(W, n)
    <3>1. PICK m \in found : m[2].blob # {} /\ s = [root |-> m[1].root, path |-> Reached(m),
                                                   entry |-> m[2].blob]
      BY DEF Files
    <3>2. PICK t \in W : \E d \in DirsAt(t, n) : \E p \in DOMAIN Under(t, d) :
                             m = <<StepAt(t, d), Row(Under(t, d), p[1])>>
      BY <1>1
    <3>3. PICK d \in DirsAt(t, n) : \E p \in DOMAIN Under(t, d) :
                             m = <<StepAt(t, d), Row(Under(t, d), p[1])>>
      BY <3>2
    <3>4. PICK p \in DOMAIN Under(t, d) : m = <<StepAt(t, d), Row(Under(t, d), p[1])>>
      BY <3>3
    <3>5. /\ d \in Seq(TreeName) /\ Len(d) = n /\ p[1] \in TreeName
          /\ <<p[1]>> \in DOMAIN Under(t, d) <=> Append(d, p[1]) \in DOMAIN t
          /\ <<p[1]>> \in DOMAIN Under(t, d) => Under(t, d)[<<p[1]>>] = t[Append(d, p[1])]
      BY RowIsNext, DirsArePaths
    <3> DEFINE x == Append(d, p[1])
    <3>6. s = FileOf(t, x) /\ x \in DOMAIN t
      BY <3>1, <3>4, <3>5 DEF StepAt, Row, Reached, FileOf
    <3>7. Len(x) = n + 1
      BY <3>5
    <3> HIDE DEF x
    <3> QED
      BY <3>6, <3>7 DEF FilesAt
  <2>2. ASSUME NEW s \in FilesAt(W, n) PROVE s \in Files(found)
    <3>1. PICK t \in W : \E x \in {y \in DOMAIN t : Len(y) = n + 1} : s = FileOf(t, x)
      BY DEF FilesAt
    <3>2. PICK x \in DOMAIN t : Len(x) = n + 1 /\ s = FileOf(t, x)
      BY <3>1
    <3> DEFINE d == SubSeq(x, 1, n)
    <3>3. t \in FlatTree /\ x \in Seq(TreeName) /\ Len(x) > n
      BY <3>2 DEF FlatTree, FilePath
    <3>4. PICK p \in DOMAIN Under(t, d) :
                  p[1] = x[n + 1] /\ Append(d, p[1]) = SubSeq(x, 1, n + 1) /\ d \in DirsAt(t, n)
      BY <3>2, <3>3, PathThroughLevel
    <3> HIDE DEF d
    <3>5. /\ <<p[1]>> \in DOMAIN Under(t, d) <=> Append(d, p[1]) \in DOMAIN t
          /\ <<p[1]>> \in DOMAIN Under(t, d) => Under(t, d)[<<p[1]>>] = t[Append(d, p[1])]
      BY <3>4, RowIsNext
    <3>6. Append(d, p[1]) = x
      BY <3>2, <3>3, <3>4
    <3> DEFINE m == <<StepAt(t, d), Row(Under(t, d), p[1])>>
    <3>7. m \in found
      BY <1>2, <3>4
    <3>8. m[2].blob # {} /\ s = [root |-> m[1].root, path |-> Reached(m), entry |-> m[2].blob]
      BY <3>2, <3>5, <3>6 DEF StepAt, Row, Reached, FileOf
    <3> HIDE DEF m
    <3> QED
      BY <3>7, <3>8 DEF Files
  <2> QED
    BY <2>1, <2>2
<1> QED
  BY <1>3, <1>4 DEF found

(* The walk stands, after n levels, in the directories n names deep.         *)
LEMMA FrontierLevels ==
    ASSUME NEW P \in SUBSET FlatTree, NEW W \in SUBSET P, \A t \in P : ~Unbuildable(t),
           NEW n \in 0..MaxTreeDepth
    PROVE  Frontiers(TableOf(P), W)[n] = AtLevel(W, n)
<1> DEFINE Start == {[root |-> t, tree |-> t, path |-> <<>>] : t \in W}
           Step(h) == [k \in 0..MaxTreeDepth |->
                         IF k = 0 THEN Start ELSE NextFrontier(Found(TableOf(P), h[k - 1]))]
           f == Frontiers(TableOf(P), W)
           g == [k \in 0..MaxTreeDepth |-> AtLevel(W, k)]
<1>1. MaxTreeDepth \in Nat
  BY TreeAssumption
<1>2. AtLevel(W, 0) = Start
  <2>1. \A t \in W : Under(t, <<>>) = t
    BY UnderRoot
  <2>2. \A t \in W : {StepAt(t, d) : d \in DirsAt(t, 0)} = {[root |-> t, tree |-> t, path |-> <<>>]}
    BY <2>1 DEF StepAt, DirsAt
  <2> QED
    BY <2>2 DEF AtLevel
<1>3. ASSUME NEW k \in 0..MaxTreeDepth, k # 0
      PROVE  NextFrontier(Found(TableOf(P), AtLevel(W, k - 1))) = AtLevel(W, k)
  <2>1. k - 1 \in Nat /\ (k - 1) + 1 = k
    BY <1>1, <1>3
  <2>2. Subdirectories(Found(TableOf(P), AtLevel(W, k - 1))) = AtLevel(W, (k - 1) + 1)
    BY <2>1, LevelFound
  <2> QED
    BY <2>1, <2>2 DEF NextFrontier
<1>4. g = Step(g)
  <2>1. \A k \in 0..MaxTreeDepth : k # 0 => g[k - 1] = AtLevel(W, k - 1)
    BY <1>1
  <2>2. \A k \in 0..MaxTreeDepth : g[k] = Step(g)[k]
    BY <1>2, <1>3, <2>1
  <2> QED
    BY <2>2, Zenon
<1>5. f = CHOOSE h : h = Step(h)
  BY Zenon DEF Frontiers
<1> HIDE DEF f, g
<1>6. f = Step(f)
  BY <1>4, <1>5, Zenon
<1>7. \A k \in 0..MaxTreeDepth : f[k] = AtLevel(W, k)
  <2> DEFINE T == {k \in 0..MaxTreeDepth : f[k] # AtLevel(W, k)}
  <2> SUFFICES T = {}
    OBVIOUS
  <2>1. T \subseteq Nat
    BY <1>1
  <2>2. CASE T # {}
    <3>1. PICK k \in T : \A j \in T : k <= j
      BY <2>1, <2>2, LeastNat
    <3>2. CASE k = 0
      BY <1>2, <1>6, <3>1, <3>2, Zenon
    <3>3. CASE k # 0
      <4>1. k \in 0..MaxTreeDepth /\ k - 1 \in 0..MaxTreeDepth /\ k - 1 < k
        BY <1>1, <3>3
      <4>2. k - 1 \notin T
        BY <3>1, <4>1
      <4>3. f[k - 1] = AtLevel(W, k - 1)
        BY <4>1, <4>2
      <4>4. f[k] = NextFrontier(Found(TableOf(P), f[k - 1]))
        BY <1>6, <3>3, <4>1, Zenon
      <4> QED
        BY <1>3, <3>3, <4>1, <4>3, <4>4
    <3> QED
      BY <3>2, <3>3
  <2> QED
    BY <2>2
<1> QED
  BY <1>7 DEF f

(* No directory is as deep as the longest path has names.                    *)
LEMMA LastLevelIsEmpty ==
    ASSUME NEW W \in SUBSET Tree
    PROVE  AtLevel(W, MaxTreeDepth) = {}
<1>1. MaxTreeDepth \in Nat /\ MaxTreeDepth # 0
  BY TreeAssumption
<1>2. ASSUME NEW t \in W, NEW x \in DOMAIN t PROVE Len(x) \in Nat /\ ~(Len(x) > MaxTreeDepth)
  <2>1. x \in TreePath
    BY DEF Tree
  <2>2. Len(x) \in 1..MaxTreeDepth
    BY <2>1, TreeAssumption
  <2> QED
    BY <1>1, <2>2
<1>3. \A t \in W : DirsAt(t, MaxTreeDepth) = {}
  BY <1>1, <1>2 DEF DirsAt
<1> QED
  BY <1>3 DEF AtLevel

(* Every file of a tree is found at the level of its last name.              *)
LEMMA TreesResolve ==
    ASSUME NEW P \in SUBSET Tree, NEW W \in SUBSET P, \A t \in P : ~Unbuildable(t)
    PROVE  \A t \in W : ResolveTrees(TableOf(P), W)[t] = t
<1> DEFINE frontier == Frontiers(TableOf(P), W)
           files == UNION {Files(Found(TableOf(P), frontier[n])) : n \in 0..MaxTreeDepth}
           Mine(t) == {l \in files : l.root = t}
           Back(t) == [p \in {l.path : l \in Mine(t)} |-> CHOOSE e \in RowEntry : \E l \in Mine(t) :
                                                             l.path = p /\ e \in l.entry]
<1>1. ASSUME NEW t \in W PROVE ResolveTrees(TableOf(P), W)[t] = Back(t)
  BY DEF ResolveTrees
<1>2. P \in SUBSET FlatTree /\ MaxTreeDepth \in Nat
  BY TreeIsFlat, TreeAssumption
<1>3. ASSUME NEW n \in 0..MaxTreeDepth PROVE Files(Found(TableOf(P), frontier[n])) = FilesAt(W, n)
  <2>1. frontier[n] = AtLevel(W, n)
    BY <1>2, FrontierLevels
  <2>2. n \in Nat
    BY <1>2
  <2> QED
    BY <1>2, <2>1, <2>2, LevelFound
<1> HIDE DEF frontier
<1>4. files = UNION {FilesAt(W, n) : n \in 0..MaxTreeDepth}
  BY <1>3
<1> HIDE DEF files
<1>5. ASSUME NEW t \in W
      PROVE  Mine(t) = {FileOf(t, p) : p \in DOMAIN t}
  <2>1. ASSUME NEW l \in Mine(t) PROVE l \in {FileOf(t, p) : p \in DOMAIN t}
    <3>1. PICK n \in 0..MaxTreeDepth : l \in FilesAt(W, n)
      BY <1>4
    <3>2. PICK s \in W : \E p \in {x \in DOMAIN s : Len(x) = n + 1} : l = FileOf(s, p)
      BY <3>1 DEF FilesAt
    <3>3. PICK p \in DOMAIN s : l = FileOf(s, p)
      BY <3>2
    <3>4. l.root = t
      OBVIOUS
    <3>5. s = t
      BY <3>3, <3>4 DEF FileOf
    <3> QED
      BY <3>3, <3>5
  <2>2. ASSUME NEW p \in DOMAIN t PROVE FileOf(t, p) \in Mine(t)
    <3>1. p \in TreePath
      BY DEF Tree
    <3>2. Len(p) \in 1..MaxTreeDepth
      BY <3>1, TreeAssumption
    <3>3. Len(p) - 1 \in 0..MaxTreeDepth /\ Len(p) = (Len(p) - 1) + 1
      BY <1>2, <3>2
    <3> DEFINE n == Len(p) - 1
    <3>4. n \in 0..MaxTreeDepth /\ Len(p) = n + 1
      BY <3>3
    <3> HIDE DEF n
    <3>5. FileOf(t, p) \in FilesAt(W, n)
      BY <3>4 DEF FilesAt
    <3>6. FileOf(t, p) \in files
      BY <1>4, <3>4, <3>5
    <3>7. FileOf(t, p).root = t
      BY DEF FileOf
    <3> QED
      BY <3>6, <3>7
  <2> QED
    BY <2>1, <2>2
<1> HIDE DEF Mine
<1>6. ASSUME NEW t \in W PROVE Back(t) = t
  <2>1. t \in Tree
    OBVIOUS
  <2>2. PICK D \in SUBSET TreePath : t \in [D -> RowEntry]
    BY <2>1 DEF Tree
  <2>3. DOMAIN t = D /\ t = [p \in D |-> t[p]] /\ \A p \in D : t[p] \in RowEntry
    BY <2>2
  <2>4. {l.path : l \in Mine(t)} = D
    <3>1. \A p \in DOMAIN t : FileOf(t, p).path = p
      BY DEF FileOf
    <3> QED
      BY <1>5, <2>3, <3>1
  <2>5. ASSUME NEW p \in D
        PROVE  (CHOOSE e \in RowEntry : \E l \in Mine(t) : l.path = p /\ e \in l.entry) = t[p]
    <3>1. ASSUME NEW e \in RowEntry
          PROVE  (\E l \in Mine(t) : l.path = p /\ e \in l.entry) <=> e = t[p]
      <4>1. \A q \in D : FileOf(t, q).path = q /\ FileOf(t, q).entry = {t[q]}
        BY DEF FileOf
      <4>2. ASSUME NEW l \in Mine(t), l.path = p, e \in l.entry PROVE e = t[p]
        <5>1. PICK q \in D : l = FileOf(t, q)
          BY <1>5, <2>3, <4>2
        <5> QED
          BY <4>1, <4>2, <5>1
      <4>3. ASSUME e = t[p] PROVE \E l \in Mine(t) : l.path = p /\ e \in l.entry
        <5>1. FileOf(t, p) \in Mine(t)
          BY <1>5, <2>3
        <5> QED
          BY <4>1, <4>3, <5>1
      <4> QED
        BY <4>2, <4>3
    <3> QED
      BY <2>3, <3>1
  <2>6. Back(t) = [p \in D |-> t[p]]
    BY <2>4, <2>5
  <2> QED
    BY <2>3, <2>6
<1> QED
  BY <1>1, <1>6

-----------------------------------------------------------------------------
(* The two summaries of a change.                                            *)

(* The registry compares what it resolved path by path, with nothing where   *)
(* there is no path; the client what moved at the paths of both trees.       *)
LEMMA SummariesAgree ==
    ASSUME NEW old \in Tree, NEW new \in Tree
    PROVE  SummarizeTreeDiff(old, new) = DiffTrees(old, new)
<1>1. \A t \in Tree : \A p \in DOMAIN t : AtPath(t, p) = t[p] /\ t[p] \in RowEntry /\ t[p].hash # ""
  <2> SUFFICES ASSUME NEW t \in Tree, NEW p \in DOMAIN t
               PROVE  AtPath(t, p) = t[p] /\ t[p] \in RowEntry /\ t[p].hash # ""
    OBVIOUS
  <2>1. PICK D \in SUBSET TreePath : t \in [D -> RowEntry]
    BY DEF Tree
  <2>2. t[p] \in RowEntry
    BY <2>1
  <2>3. t[p].hash # ""
    BY <2>2, TreeAssumption
  <2>4. AtPath(t, p) = t[p]
    BY DEF AtPath
  <2> QED
    BY <2>2, <2>3, <2>4
<1>2. ASSUME NEW p \in DOMAIN old PROVE AtPath(old, p) = old[p] /\ old[p] \in RowEntry /\ old[p].hash # ""
  BY <1>1
<1>3. ASSUME NEW p \in DOMAIN new PROVE AtPath(new, p) = new[p] /\ new[p] \in RowEntry /\ new[p].hash # ""
  BY <1>1
<1>4. ASSUME NEW p, p \notin DOMAIN old
      PROVE  AtPath(old, p).hash = "" /\ AtPath(old, p).layers = {} /\ AtPath(old, p).chunks = {}
  BY <1>4 DEF AtPath
<1>5. ASSUME NEW p, p \notin DOMAIN new
      PROVE  AtPath(new, p).hash = "" /\ AtPath(new, p).layers = {} /\ AtPath(new, p).chunks = {}
  BY <1>5 DEF AtPath
<1>6. ASSUME NEW p PROVE AtPath(old, p).layers = OldLayers(old, p) /\ AtPath(old, p).chunks = OldChunks(old, p)
  BY <1>2, <1>4 DEF OldLayers, OldChunks
<1>7. DOMAIN new \ DOMAIN old = DOMAIN new \ (DOMAIN old \intersect DOMAIN new)
  OBVIOUS
<1>8. DOMAIN old \ DOMAIN new = DOMAIN old \ (DOMAIN old \intersect DOMAIN new)
  OBVIOUS
<1> DEFINE both == DOMAIN old \intersect DOMAIN new
           all == DOMAIN old \union DOMAIN new
           Moved(p) == {l \in AtPath(new, p).layers : l \notin AtPath(old, p).layers}
           Model(p) == [path |-> p, moved |-> Moved(p), bytes |-> Size(Moved(p)),
                        of |-> Size(AtPath(new, p).layers)]
           NewMoved(p) == new[p].layers \ OldLayers(old, p)
           NewModel(p) == [path |-> p, moved |-> NewMoved(p), bytes |-> Size(NewMoved(p)),
                           of |-> Size(new[p].layers)]
<1>9. {p \in both : AtPath(old, p).hash # AtPath(new, p).hash} = {p \in both : old[p].hash # new[p].hash}
  BY <1>2, <1>3
<1>10. {Model(p) : p \in {q \in all : AtPath(new, q).layers # {}}}
        = {NewModel(p) : p \in {q \in DOMAIN new : new[q].layers # {}}}
  <2>1. {q \in all : AtPath(new, q).layers # {}} = {q \in DOMAIN new : new[q].layers # {}}
    BY <1>3, <1>5
  <2>2. ASSUME NEW p \in DOMAIN new PROVE Model(p) = NewModel(p)
    <3>1. Moved(p) = NewMoved(p)
      BY <1>3, <1>6
    <3> QED
      BY <1>3, <3>1
  <2> HIDE DEF Model, NewModel
  <2> QED
    BY <2>1, <2>2
<1>11. {p \in (Dataset \intersect all) \ (DOMAIN new \ DOMAIN old) : AtPath(old, p).hash # AtPath(new, p).hash}
         = Dataset \intersect ({p \in both : old[p].hash # new[p].hash} \union (DOMAIN old \ both))
  BY <1>2, <1>3, <1>5
<1>12. ASSUME NEW p \in DOMAIN new
       PROVE  /\ AtPath(new, p).chunks \intersect AtPath(old, p).chunks = new[p].chunks \intersect OldChunks(old, p)
              /\ AtPath(new, p).chunks \ AtPath(old, p).chunks = new[p].chunks \ OldChunks(old, p)
  BY <1>3, <1>6
<1>13. /\ [p \in DOMAIN new |-> Cardinality(AtPath(new, p).chunks \intersect AtPath(old, p).chunks)]
            = [p \in DOMAIN new |-> Cardinality(new[p].chunks \intersect OldChunks(old, p))]
       /\ [p \in DOMAIN new |-> Cardinality(AtPath(new, p).chunks \ AtPath(old, p).chunks)]
            = [p \in DOMAIN new |-> Cardinality(new[p].chunks \ OldChunks(old, p))]
       /\ [p \in DOMAIN new |-> Size(AtPath(new, p).chunks \intersect AtPath(old, p).chunks)]
            = [p \in DOMAIN new |-> Size(new[p].chunks \intersect OldChunks(old, p))]
       /\ [p \in DOMAIN new |-> Size(AtPath(new, p).chunks \ AtPath(old, p).chunks)]
            = [p \in DOMAIN new |-> Size(new[p].chunks \ OldChunks(old, p))]
  BY <1>12
<1> QED
  BY <1>7, <1>8, <1>9, <1>10, <1>11, <1>13, Zenon DEF SummarizeTreeDiff, DiffTrees, TotalSize

-----------------------------------------------------------------------------
(* The rows of the registry, through every history.                          *)

(* Commit k changed enough of its parent to be reported.                     *)
Rewrites(k) ==
    /\ log[k].parent # 0
    /\ FilesMoved(DiffTrees(log[log[k].parent].tree, log[k].tree)) >= AV_ANOMALY_MASS_REWRITE_FILES

(* The rows are exactly those of the trees that were pushed, which a tree    *)
(* with a path below a file is never one of; a commit comes after its parent *)
(* in the queue, so that the parent's rows are there when the detector looks.*)
TreeInv ==
    /\ treeIndex \in Tree /\ at \in 0..Len(log) /\ refused \in BOOLEAN
    /\ log \in Seq([tree : Tree, parent : Nat])
    /\ \A k \in 1..Len(log) : log[k].parent < k
    /\ roots \in Seq(Tree) /\ Len(roots) <= Len(log)
    /\ \A k \in 1..Len(roots) : roots[k] = log[k].tree /\ ~Unbuildable(roots[k])
    /\ rows = TableOf(Range(roots))
    /\ told = {k \in 1..Len(roots) : Rewrites(k)}

LEMMA NoTreeIsTree == NoTree \in Tree
<1>1. NoTree \in [{} -> RowEntry] /\ {} \in SUBSET TreePath
  BY DEF NoTree
<1> QED
  BY <1>1 DEF Tree

LEMMA PutIsTree ==
    ASSUME NEW t \in Tree, NEW p \in TreePath, NEW e \in RowEntry
    PROVE  Put(t, p, e) \in Tree
<1>1. PICK D \in SUBSET TreePath : t \in [D -> RowEntry]
  BY DEF Tree
<1>2. Put(t, p, e) \in [D \union {p} -> RowEntry]
  BY <1>1 DEF Put
<1>3. D \union {p} \in SUBSET TreePath
  OBVIOUS
<1> QED
  BY <1>2, <1>3 DEF Tree

LEMMA PartIsTree ==
    ASSUME NEW t \in Tree, NEW S, S \subseteq DOMAIN t
    PROVE  [p \in S |-> t[p]] \in Tree
<1>1. PICK D \in SUBSET TreePath : t \in [D -> RowEntry]
  BY DEF Tree
<1>2. [p \in S |-> t[p]] \in [S -> RowEntry]
  BY <1>1
<1>3. S \in SUBSET TreePath
  BY <1>1
<1> QED
  BY <1>2, <1>3 DEF Tree

LEMMA CommitRecord ==
    ASSUME NEW T, NEW s \in Seq([tree : T, parent : Nat]), NEW k \in 1..Len(s)
    PROVE  s[k].tree \in T /\ s[k].parent \in Nat
<1>1. s[k] \in [tree : T, parent : Nat]
  BY ElementOfSeq
<1> QED
  BY <1>1

LEMMA TreeStart == TreeInit => TreeInv
<1> SUFFICES ASSUME TreeInit PROVE TreeInv
  OBVIOUS
<1>1. treeIndex \in Tree
  BY NoTreeIsTree DEF TreeInit
<1>2. log = <<>> /\ roots = <<>> /\ Len(log) = 0 /\ Len(roots) = 0
  BY DEF TreeInit
<1>3. Range(roots) = {}
  <2>1. DOMAIN roots = 1..0
    BY <1>2
  <2> QED
    BY <2>1 DEF Range
<1>4. TableOf({}) = {}
  BY DEF TableOf
<1>5. 1..Len(roots) = {} /\ 1..Len(log) = {}
  BY <1>2
<1>6. rows = {} /\ told = {} /\ at = 0 /\ refused = FALSE
  BY DEF TreeInit
<1>7. log \in Seq([tree : Tree, parent : Nat]) /\ roots \in Seq(Tree)
  BY <1>2, EmptySeq
<1>8. rows = TableOf(Range(roots)) /\ told = {k \in 1..Len(roots) : Rewrites(k)}
  BY <1>3, <1>4, <1>5, <1>6
<1>9. at \in 0..Len(log) /\ refused \in BOOLEAN /\ Len(roots) <= Len(log)
  <2>1. at = 0 /\ Len(log) = 0 /\ Len(roots) = 0 /\ refused = FALSE
    BY <1>2, <1>6
  <2>2. refused \in BOOLEAN
    BY <2>1, Zenon
  <2>3. at \in 0..Len(log) /\ Len(roots) <= Len(log)
    BY <2>1
  <2> QED
    BY <2>2, <2>3
<1> QED
  BY <1>1, <1>5, <1>7, <1>8, <1>9 DEF TreeInv

(* The queue and the registry stand still: so does what is said of them.     *)
LEMMA PushedStays ==
    ASSUME TreeInv, treeIndex' \in Tree, at' \in 0..Len(log'), UNCHANGED <<rows, roots, refused, told>>,
           log' \in Seq([tree : Tree, parent : Nat]), Len(log) <= Len(log'),
           \A k \in 1..Len(log) : log'[k] = log[k],
           \A k \in 1..Len(log') : log'[k].parent < k
    PROVE  TreeInv'
<1>1. Len(log) \in Nat /\ Len(roots) \in Nat /\ Len(log') \in Nat /\ Len(roots) <= Len(log)
  BY DEF TreeInv
<1>2. ASSUME NEW k \in 1..Len(roots) PROVE Rewrites(k)' <=> Rewrites(k)
  <2>1. k \in 1..Len(log) /\ log[k].parent \in Nat /\ log[k].parent < k
    <3>1. k \in 1..Len(log) /\ log \in Seq([tree : Tree, parent : Nat])
      BY <1>1 DEF TreeInv
    <3>2. log[k].parent < k
      BY <3>1 DEF TreeInv
    <3> QED
      BY <3>1, <3>2, CommitRecord
  <2>2. log[k].parent # 0 => log[k].parent \in 1..Len(log)
    BY <1>1, <2>1
  <2>3. log'[k] = log[k] /\ (log[k].parent # 0 => log'[log[k].parent] = log[log[k].parent])
    BY <2>1, <2>2
  <2> QED
    BY <2>3 DEF Rewrites
<1>3. roots' = roots /\ rows' = rows /\ told' = told /\ refused' = refused
  OBVIOUS
<1>4. ASSUME NEW k \in 1..Len(roots') PROVE roots'[k] = log'[k].tree /\ ~Unbuildable(roots'[k])
  <2>1. k \in 1..Len(roots) /\ k \in 1..Len(log)
    BY <1>1, <1>3
  <2>2. roots[k] = log[k].tree /\ ~Unbuildable(roots[k])
    BY <2>1 DEF TreeInv
  <2> QED
    BY <1>3, <2>1, <2>2
<1>5. rows' = TableOf(Range(roots'))
  BY <1>3 DEF TreeInv
<1>6. told' = {k \in 1..Len(roots') : Rewrites(k)'}
  BY <1>2, <1>3 DEF TreeInv
<1>7. roots' \in Seq(Tree) /\ Len(roots') <= Len(log') /\ refused' \in BOOLEAN
  BY <1>1, <1>3 DEF TreeInv
<1> QED
  BY <1>4, <1>5, <1>6, <1>7 DEF TreeInv

LEMMA AddKeeps == ASSUME TreeInv, NEW p \in TreePath, NEW e \in RowEntry, Add(p, e) PROVE TreeInv'
<1>1. treeIndex' \in Tree
  BY PutIsTree DEF Add, TreeInv
<1> QED
  BY <1>1, PushedStays DEF Add, TreeInv

LEMMA RemovePathKeeps == ASSUME TreeInv, NEW p \in TreePath, RemovePath(p) PROVE TreeInv'
<1> DEFINE selected == {q \in DOMAIN treeIndex : q = p \/ Below(p, q)}
<1>1. treeIndex' = Without(treeIndex, selected)
  BY DEF RemovePath
<1> HIDE DEF selected
<1>2. treeIndex' \in Tree
  BY <1>1, PartIsTree DEF Without, TreeInv
<1> QED
  BY <1>2, PushedStays DEF RemovePath, TreeInv

LEMMA CommitKeeps == ASSUME TreeInv, Commit PROVE TreeInv'
<1> DEFINE c == [tree |-> treeIndex, parent |-> at]
<1>1. /\ log \in Seq([tree : Tree, parent : Nat]) /\ c \in [tree : Tree, parent : Nat]
      /\ Len(log) \in Nat /\ at \in 0..Len(log) /\ c.parent = at
  BY DEF TreeInv
<1>2. log' = Append(log, c) /\ at' = Len(log) + 1
  BY DEF Commit
<1> HIDE DEF c
<1>3. /\ log' \in Seq([tree : Tree, parent : Nat]) /\ Len(log') = Len(log) + 1
      /\ \A k \in 1..Len(log) : log'[k] = log[k]
      /\ log'[Len(log) + 1] = c
  BY <1>1, <1>2
<1>4. ASSUME NEW k \in 1..Len(log') PROVE log'[k].parent < k
  <2>1. CASE k \in 1..Len(log)
    BY <1>3, <2>1 DEF TreeInv
  <2>2. CASE k = Len(log) + 1
    BY <1>1, <1>3, <2>2
  <2> QED
    BY <1>1, <1>3, <2>1, <2>2
<1>5. at' \in 0..Len(log') /\ treeIndex' \in Tree /\ Len(log) <= Len(log')
  BY <1>1, <1>2, <1>3 DEF Commit, TreeInv
<1>6. UNCHANGED <<rows, roots, refused, told>>
  BY DEF Commit
<1> QED
  BY <1>3, <1>4, <1>5, <1>6, PushedStays

LEMMA CheckoutKeeps == ASSUME TreeInv, NEW k \in 1..Len(log), Checkout(k) PROVE TreeInv'
<1>1. log[k].tree \in Tree /\ Len(log) \in Nat
  <2>1. log \in Seq([tree : Tree, parent : Nat])
    BY DEF TreeInv
  <2> QED
    BY <2>1, CommitRecord
<1>2. treeIndex' = CheckedOut(treeIndex, log[k].tree) /\ at' = k /\ log' = log
  BY DEF Checkout
<1>3. CheckedOut(treeIndex, log[k].tree) \in Tree
  <2> DEFINE t == log[k].tree
             S == {p \in DOMAIN t : ~\E q \in DOMAIN treeIndex \union DOMAIN t : Below(p, q) \/ Below(q, p)}
  <2>1. S \subseteq DOMAIN t
    OBVIOUS
  <2>2. CheckedOut(treeIndex, t) = IF HasLegacyName(t) THEN NoTree ELSE [p \in S |-> t[p]]
    BY DEF CheckedOut, Restrict
  <2>3. t \in Tree
    BY <1>1
  <2> HIDE DEF S, t
  <2>4. [p \in S |-> t[p]] \in Tree
    BY <2>1, <2>3, PartIsTree
  <2>5. CheckedOut(treeIndex, t) \in Tree
    BY <2>2, <2>4, NoTreeIsTree
  <2> QED
    BY <2>5 DEF t
<1>4. treeIndex' \in Tree /\ at' \in 0..Len(log')
  BY <1>1, <1>2, <1>3
<1>5. /\ log' \in Seq([tree : Tree, parent : Nat]) /\ Len(log) <= Len(log')
      /\ \A j \in 1..Len(log) : log'[j] = log[j]
      /\ \A j \in 1..Len(log') : log'[j].parent < j
  BY <1>1, <1>2 DEF TreeInv
<1>6. UNCHANGED <<rows, roots, refused, told>>
  BY DEF Checkout
<1> QED
  BY <1>4, <1>5, <1>6, PushedStays

(* One page of commits, resolved from the rows of all that were pushed.      *)
LEMMA PushedResolve ==
    ASSUME NEW r \in Seq(Tree), \A k \in 1..Len(r) : ~Unbuildable(r[k]), NEW W \in SUBSET Range(r)
    PROVE  /\ \A t \in W : ResolveTrees(TableOf(Range(r)), W)[t] = t
           /\ Frontiers(TableOf(Range(r)), W)[MaxTreeDepth] = {}
<1>1. Range(r) \in SUBSET Tree /\ \A t \in Range(r) : ~Unbuildable(t)
  <2>1. DOMAIN r = 1..Len(r) /\ \A k \in 1..Len(r) : r[k] \in Tree
    OBVIOUS
  <2> QED
    BY <2>1 DEF Range
<1>2. W \in SUBSET Tree /\ Range(r) \in SUBSET FlatTree
  BY <1>1, TreeIsFlat
<1>3. MaxTreeDepth \in 0..MaxTreeDepth
  <2>1. MaxTreeDepth \in Nat
    BY TreeAssumption
  <2> QED
    BY <2>1
<1>4. Frontiers(TableOf(Range(r)), W)[MaxTreeDepth] = AtLevel(W, MaxTreeDepth)
  BY <1>1, <1>2, <1>3, FrontierLevels
<1> QED
  BY <1>1, <1>2, <1>4, LastLevelIsEmpty, TreesResolve

LEMMA PushKeeps == ASSUME TreeInv, Push PROVE TreeInv'
<1> DEFINE k == Len(roots) + 1
           tree == log[k].tree
           root == Under(tree, <<>>)
           parent == log[k].parent
<1>1. /\ Len(log) \in Nat /\ Len(roots) \in Nat /\ Len(roots) < Len(log)
      /\ roots \in Seq(Tree) /\ log \in Seq([tree : Tree, parent : Nat])
      /\ k \in 1..Len(log)
  BY DEF TreeInv, Push
<1>2. tree \in Tree /\ root = tree /\ parent \in Nat /\ parent < k
  <2>1. tree \in Tree /\ parent \in Nat
    BY <1>1, CommitRecord
  <2>2. parent < k
    BY <1>1 DEF TreeInv
  <2>3. root = tree
    BY <2>1, TreeIsFlat, UnderRoot
  <2> QED
    BY <2>1, <2>2, <2>3
<1>3. treeIndex' = treeIndex /\ at' = at /\ log' = log
  BY DEF Push
<1>4. CASE Unbuildable(tree) \/ HasLegacyName(tree)
  <2>1. rows' = rows /\ roots' = roots /\ told' = told /\ refused' = TRUE
    BY <1>4 DEF Push
  <2>2. ASSUME NEW j \in 1..Len(roots) PROVE Rewrites(j)' <=> Rewrites(j)
    BY <1>3 DEF Rewrites
  <2> QED
    BY <1>3, <2>1, <2>2 DEF TreeInv
<1>5. CASE ~(Unbuildable(tree) \/ HasLegacyName(tree))
  <2>1. /\ rows' = rows \union RowsOf(tree) /\ roots' = Append(roots, tree) /\ refused' = refused
        /\ told' = IF parent # 0 /\ MassRewrite(rows', roots[parent], tree)
                   THEN told \union {k} ELSE told
    BY <1>2, <1>5 DEF Push
  <2>2. ~Unbuildable(tree)
    BY <1>5
  <2> HIDE DEF tree, root, parent
  <2>3. /\ roots' \in Seq(Tree) /\ Len(roots') = k
        /\ \A j \in 1..Len(roots) : roots'[j] = roots[j]
        /\ roots'[k] = tree
    BY <1>1, <1>2, <2>1
  <2>4. \A j \in 1..Len(roots') : roots'[j] = log[j].tree /\ ~Unbuildable(roots'[j])
    <3>1. \A j \in 1..Len(roots) : roots'[j] = log[j].tree /\ ~Unbuildable(roots'[j])
      BY <2>3 DEF TreeInv
    <3>2. roots'[k] = log[k].tree /\ ~Unbuildable(roots'[k])
      BY <2>2, <2>3 DEF tree
    <3>3. \A j \in 1..Len(roots') : j \in 1..Len(roots) \/ j = k
      BY <1>1, <2>3
    <3> QED
      BY <3>1, <3>2, <3>3
  <2>5. Range(roots') = Range(roots) \union {tree}
    <3>1. DOMAIN roots = 1..Len(roots) /\ DOMAIN roots' = 1..Len(roots')
      BY <1>1, <2>3
    <3>2. \A j \in 1..Len(roots') : j \in 1..Len(roots) \/ j = k
      BY <1>1, <2>3
    <3>3. k \in 1..Len(roots') /\ 1..Len(roots) \subseteq 1..Len(roots')
      BY <1>1, <2>3
    <3> HIDE DEF k
    <3> QED
      BY <2>3, <3>1, <3>2, <3>3 DEF Range
  <2>6. rows' = TableOf(Range(roots'))
    <3>1. TableOf(Range(roots) \union {tree}) = TableOf(Range(roots)) \union RowsOf(tree)
      BY DEF TableOf
    <3> QED
      BY <2>1, <2>5, <3>1 DEF TreeInv
  <2>7. ASSUME parent # 0 PROVE MassRewrite(rows', roots[parent], tree) <=> Rewrites(k)
    <3>1. parent \in 1..Len(roots) /\ parent \in 1..Len(log)
      BY <1>1, <1>2, <2>7
    <3>2. roots[parent] = log[parent].tree /\ roots[parent] = roots'[parent] /\ roots[parent] \in Tree
      BY <1>1, <2>3, <3>1 DEF TreeInv
    <3>3. roots[parent] \in Range(roots') /\ tree \in Range(roots')
      <4>1. parent \in DOMAIN roots' /\ k \in DOMAIN roots'
        BY <1>1, <2>3, <3>1
      <4> QED
        BY <2>3, <3>2, <4>1 DEF Range
    <3>4. \A t \in Range(roots') : ResolveTrees(rows', {t})[t] = t
      <4> SUFFICES ASSUME NEW t \in Range(roots') PROVE ResolveTrees(rows', {t})[t] = t
        OBVIOUS
      <4>1. {t} \in SUBSET Range(roots') /\ t \in {t}
        OBVIOUS
      <4>2. \A j \in 1..Len(roots') : ~Unbuildable(roots'[j])
        BY <2>4
      <4> QED
        BY <2>3, <2>6, <4>1, <4>2, PushedResolve
    <3>5. MassRewrite(rows', roots[parent], tree)
            <=> FilesMoved(SummarizeTreeDiff(roots[parent], tree)) >= AV_ANOMALY_MASS_REWRITE_FILES
      BY <3>3, <3>4 DEF MassRewrite
    <3>6. SummarizeTreeDiff(roots[parent], tree) = DiffTrees(log[parent].tree, tree)
      BY <1>2, <3>2, SummariesAgree
    <3>7. Rewrites(k) <=> FilesMoved(DiffTrees(log[parent].tree, tree)) >= AV_ANOMALY_MASS_REWRITE_FILES
      BY <2>7 DEF Rewrites, parent, tree
    <3> QED
      BY <3>5, <3>6, <3>7
  <2>8. parent = 0 => ~Rewrites(k)
    BY DEF Rewrites, parent
  <2>9. told' = {j \in 1..Len(roots') : Rewrites(j)}
    <3>1. told' = told \union {j \in {k} : Rewrites(j)}
      BY <2>1, <2>7, <2>8
    <3>2. told = {j \in 1..Len(roots) : Rewrites(j)}
      BY DEF TreeInv
    <3>3. 1..Len(roots') = 1..Len(roots) \union {k}
      BY <1>1, <2>3
    <3> HIDE DEF k
    <3> QED
      BY <3>1, <3>2, <3>3
  <2>10. \A j : Rewrites(j)' <=> Rewrites(j)
    BY <1>3 DEF Rewrites
  <2>11. told' = {j \in 1..Len(roots') : Rewrites(j)'}
    BY <2>9, <2>10
  <2>12. Len(roots') <= Len(log') /\ at' \in 0..Len(log') /\ treeIndex' \in Tree /\ refused' \in BOOLEAN
         /\ log' \in Seq([tree : Tree, parent : Nat]) /\ \A j \in 1..Len(log') : log'[j].parent < j
    BY <1>1, <1>3, <2>1, <2>3 DEF TreeInv
  <2>13. \A j \in 1..Len(roots') : roots'[j] = log'[j].tree /\ ~Unbuildable(roots'[j])
    BY <1>3, <2>4
  <2> QED
    BY <2>3, <2>6, <2>11, <2>12, <2>13 DEF TreeInv
<1> QED
  BY <1>4, <1>5

LEMMA TreeStep == TreeInv /\ [TreeNext]_treeVars => TreeInv'
<1> SUFFICES ASSUME TreeInv, [TreeNext]_treeVars PROVE TreeInv'
  OBVIOUS
<1>1. ASSUME NEW p \in TreePath, RemovePath(p) PROVE TreeInv'
  BY <1>1, RemovePathKeeps
<1>2. ASSUME NEW p \in TreePath, NEW e \in RowEntry, Add(p, e) PROVE TreeInv'
  BY <1>2, AddKeeps
<1>3. CASE Commit
  BY <1>3, CommitKeeps
<1>4. CASE Push
  BY <1>4, PushKeeps
<1>5. ASSUME NEW k \in 1..Len(log), Checkout(k) PROVE TreeInv'
  BY <1>5, CheckoutKeeps
<1>6. CASE UNCHANGED treeVars
  <2>1. \A j : Rewrites(j)' <=> Rewrites(j)
    BY <1>6 DEF treeVars, Rewrites
  <2> QED
    BY <1>6, <2>1 DEF treeVars, TreeInv
<1> QED
  BY <1>1, <1>2, <1>3, <1>4, <1>5, <1>6 DEF TreeNext

LEMMA TreeHolds == TreeSpec => []TreeInv
<1> QED
  BY TreeStart, TreeStep, PTL DEF TreeSpec

LEMMA TreeKept == TreeInv => TreeTypeOK /\ RowsKeepTheTrees
<1> SUFFICES ASSUME TreeInv PROVE TreeTypeOK /\ RowsKeepTheTrees
  OBVIOUS
<1>1. /\ Len(log) \in Nat /\ Len(roots) \in Nat /\ Len(roots) <= Len(log)
      /\ roots \in Seq(Tree) /\ log \in Seq([tree : Tree, parent : Nat])
      /\ \A k \in 1..Len(roots) : ~Unbuildable(roots[k])
      /\ \A k \in 1..Len(roots) : roots[k] = log[k].tree
      /\ rows = TableOf(Range(roots))
  BY DEF TreeInv
<1>2. \A k \in 1..Len(roots) : roots[k] \in Range(roots)
  BY <1>1 DEF Range
<1>3. TreeTypeOK
  BY DEF TreeInv, TreeTypeOK, Tree
<1>4. TreesComeBack
  <2>1. Range(roots) \in SUBSET Range(roots)
    OBVIOUS
  <2> DEFINE R == Range(roots)
  <2>2. /\ \A t \in R : ResolveTrees(rows, R)[t] = t
        /\ Frontiers(rows, R)[MaxTreeDepth] = {}
    BY <1>1, <2>1, PushedResolve
  <2> HIDE DEF R
  <2>3. \A k \in 1..Len(roots) : ResolveTrees(rows, R)[roots[k]] = log[k].tree
    BY <1>1, <1>2, <2>2 DEF R
  <2> QED
    BY <2>2, <2>3 DEF TreesComeBack, R
<1>5. DiffsAgree
  <2> SUFFICES ASSUME NEW k \in 1..Len(roots), log[k].parent # 0
               PROVE  LET parent == log[k].parent
                          resolved == ResolveTrees(rows, {roots[k], roots[parent]})
                          summary == DiffTrees(log[parent].tree, log[k].tree)
                      IN /\ SummarizeTreeDiff(resolved[roots[parent]], resolved[roots[k]]) = summary
                         /\ k \in told <=> FilesMoved(summary) >= AV_ANOMALY_MASS_REWRITE_FILES
    BY DEF DiffsAgree
  <2> DEFINE parent == log[k].parent
             W == {roots[k], roots[parent]}
  <2>1. parent \in Nat /\ parent < k /\ parent \in 1..Len(roots)
    <3>1. k \in 1..Len(log)
      BY <1>1
    <3>2. parent \in Nat /\ parent < k
      <4>1. log[k].parent < k
        BY <3>1 DEF TreeInv
      <4> QED
        BY <1>1, <3>1, <4>1, CommitRecord
    <3> QED
      BY <1>1, <3>2
  <2>2. W \in SUBSET Range(roots)
    BY <1>2, <2>1
  <2> HIDE DEF W
  <2>3. \A t \in W : ResolveTrees(rows, W)[t] = t
    <3>1. roots \in Seq(Tree) /\ \A j \in 1..Len(roots) : ~Unbuildable(roots[j])
      BY <1>1
    <3>2. \A t \in W : ResolveTrees(TableOf(Range(roots)), W)[t] = t
      BY <2>2, <3>1, PushedResolve
    <3> QED
      BY <1>1, <3>2
  <2>4. roots[k] = log[k].tree /\ roots[parent] = log[parent].tree
        /\ roots[k] \in Tree /\ roots[parent] \in Tree
    BY <1>1, <2>1
  <2>5. SummarizeTreeDiff(roots[parent], roots[k]) = DiffTrees(log[parent].tree, log[k].tree)
    BY <2>4, SummariesAgree
  <2>6. k \in told <=> Rewrites(k)
    BY DEF TreeInv
  <2>7. Rewrites(k) <=> FilesMoved(DiffTrees(log[parent].tree, log[k].tree)) >= AV_ANOMALY_MASS_REWRITE_FILES
    BY DEF Rewrites
  <2>8. ResolveTrees(rows, W)[roots[k]] = roots[k] /\ ResolveTrees(rows, W)[roots[parent]] = roots[parent]
    BY <2>3 DEF W
  <2> QED
    BY <2>5, <2>6, <2>7, <2>8 DEF W
<1> QED
  BY <1>3, <1>4, <1>5 DEF RowsKeepTheTrees

(* Whatever trees are committed, pushed or shared, and whatever directories  *)
(* they have in common, the rows give every pushed commit its own tree back  *)
(* whole, in as many levels as its paths are deep; the registry summarises   *)
(* every commit as the client does and reports exactly the mass rewrites     *)
(* (store_tree, resolve_trees, _summarize_tree_diff, server.py).             *)
THEOREM TreesAreKept == TreeSpec => []RowsKeepTheTrees
<1> QED
  BY TreeHolds, TreeKept, PTL

(* HEAD is a commit, the registry has a beginning of the queue, and only     *)
(* commits it has are reported.                                              *)
THEOREM TreeTypes == TreeSpec => []TreeTypeOK
<1> QED
  BY TreeHolds, TreeKept, PTL

-----------------------------------------------------------------------------
(* A line of .gitignore and a path.                                          *)

(* Segment i of the pattern covers the names between two cuts.               *)
Covers(pattern, path, i, cut) ==
    IF pattern[i] = AnySegments
    THEN cut[i] >= cut[i - 1] + (IF i = Len(pattern) THEN 1 ELSE 0)
    ELSE cut[i] = cut[i - 1] + 1 /\ path[cut[i]] \in pattern[i]

(* The last k segments can be laid along what follows the first i names.     *)
Laid(pattern, path, k, i) ==
    \E cut \in [0..Len(pattern) -> 0..Len(path)] :
        /\ cut[Len(pattern) - k] = i /\ cut[Len(pattern)] = Len(path)
        /\ \A j \in Len(pattern) - k + 1..Len(pattern) : Covers(pattern, path, j, cut)
LaidAfter(pattern, path, k) == {i \in 0..Len(path) : Laid(pattern, path, k, i)}

LEMMA LaidNone ==
    ASSUME NEW pattern \in Seq(Segment), NEW path \in Seq(Nat)
    PROVE  LaidAfter(pattern, path, 0) = {Len(path)}
<1> DEFINE m == Len(pattern)
           n == Len(path)
<1>1. m \in Nat /\ n \in Nat
  OBVIOUS
<1>2. ASSUME NEW i \in 0..n PROVE Laid(pattern, path, 0, i) <=> i = n
  <2>1. ASSUME Laid(pattern, path, 0, i) PROVE i = n
    <3>1. m - 0 = m
      BY <1>1
    <3> QED
      BY <2>1, <3>1 DEF Laid
  <2>2. ASSUME i = n PROVE Laid(pattern, path, 0, i)
    <3> DEFINE cut == [x \in 0..m |-> n]
    <3>1. cut \in [0..m -> 0..n] /\ cut[m - 0] = i /\ cut[m] = n
      BY <1>1, <2>2
    <3>2. m - 0 + 1..m = {}
      BY <1>1
    <3> QED
      BY <3>1, <3>2 DEF Laid
  <2> QED
    BY <2>1, <2>2
<1> QED
  BY <1>1, <1>2 DEF LaidAfter

(* One segment more: what it covers, and the rest.                           *)
LEMMA LaidFirst ==
    ASSUME NEW pattern \in Seq(Segment), NEW path \in Seq(Nat),
           NEW k \in 1..Len(pattern), NEW i \in 0..Len(path)
    PROVE  LET s == Len(pattern) - k + 1
           IN  Laid(pattern, path, k, i) <=>
                   \E j \in LaidAfter(pattern, path, k - 1) :
                       IF pattern[s] = AnySegments
                       THEN j >= i + (IF s = Len(pattern) THEN 1 ELSE 0)
                       ELSE j = i + 1 /\ path[j] \in pattern[s]
<1> DEFINE m == Len(pattern)
           n == Len(path)
           s == m - k + 1
           First(j) == IF pattern[s] = AnySegments THEN j >= i + (IF s = m THEN 1 ELSE 0)
                       ELSE j = i + 1 /\ path[j] \in pattern[s]
<1>1. m \in Nat /\ n \in Nat /\ s \in 1..m /\ s - 1 = m - k /\ s = m - (k - 1)
  OBVIOUS
<1>2. Laid(pattern, path, k, i) <=>
        \E cut \in [0..m -> 0..n] : /\ cut[s - 1] = i /\ cut[m] = n
                                    /\ \A j \in s..m : Covers(pattern, path, j, cut)
  BY <1>1 DEF Laid
<1>3. ASSUME NEW j
      PROVE  Laid(pattern, path, k - 1, j) <=>
               \E cut \in [0..m -> 0..n] : /\ cut[s] = j /\ cut[m] = n
                                           /\ \A l \in s + 1..m : Covers(pattern, path, l, cut)
  <2>1. m - (k - 1) = s /\ m - (k - 1) + 1 = s + 1
    BY <1>1
  <2> HIDE DEF s
  <2> QED
    BY <2>1, Zenon DEF Laid
<1>4. ASSUME NEW l, NEW cut
      PROVE  Covers(pattern, path, l, cut) <=> IF pattern[l] = AnySegments
                                               THEN cut[l] >= cut[l - 1] + (IF l = m THEN 1 ELSE 0)
                                               ELSE cut[l] = cut[l - 1] + 1 /\ path[cut[l]] \in pattern[l]
  BY DEF Covers
<1> HIDE DEF m, n, s
<1>5. /\ s \in 0..m /\ s - 1 \in 0..m /\ s # s - 1 /\ m # s - 1 /\ s \in s..m
      /\ \A l \in s + 1..m : l \in s..m /\ l - 1 \in 0..m /\ l \in 0..m /\ l # s - 1 /\ l - 1 # s - 1
      /\ \A l \in s..m : l = s \/ l \in s + 1..m
  BY <1>1
<1>6. ASSUME Laid(pattern, path, k, i)
      PROVE  \E j \in LaidAfter(pattern, path, k - 1) : First(j)
  <2>1. PICK cut \in [0..m -> 0..n] :
             /\ cut[s - 1] = i /\ cut[m] = n
             /\ \A j \in s..m : Covers(pattern, path, j, cut)
    BY <1>2, <1>6
  <2>2. cut[s] \in 0..n
    BY <1>5
  <2>3. Laid(pattern, path, k - 1, cut[s])
    BY <1>3, <1>5, <2>1
  <2>4. First(cut[s])
    BY <1>4, <1>5, <2>1
  <2> QED
    BY <2>2, <2>3, <2>4 DEF LaidAfter, n
<1>7. ASSUME NEW j \in LaidAfter(pattern, path, k - 1), First(j)
      PROVE  Laid(pattern, path, k, i)
  <2>1. j \in 0..n /\ Laid(pattern, path, k - 1, j) /\ i \in 0..n
    BY DEF LaidAfter, n
  <2>2. PICK cut \in [0..m -> 0..n] :
             /\ cut[s] = j /\ cut[m] = n
             /\ \A l \in s + 1..m : Covers(pattern, path, l, cut)
    BY <1>3, <2>1
  <2> DEFINE c == [cut EXCEPT ![s - 1] = i]
  <2>3. c \in [0..m -> 0..n] /\ c[s - 1] = i /\ \A l \in 0..m : l # s - 1 => c[l] = cut[l]
    BY <1>5, <2>1
  <2> HIDE DEF c
  <2>4. c[m] = n /\ c[s] = j
    BY <1>1, <1>5, <2>2, <2>3
  <2>5. Covers(pattern, path, s, c)
    BY <1>4, <1>7, <2>3, <2>4
  <2>6. ASSUME NEW l \in s + 1..m PROVE Covers(pattern, path, l, c)
    <3>1. Covers(pattern, path, l, cut) /\ c[l] = cut[l] /\ c[l - 1] = cut[l - 1]
      BY <1>5, <2>2, <2>3
    <3> QED
      BY <1>4, <3>1
  <2>7. \A l \in s..m : Covers(pattern, path, l, c)
    BY <1>5, <2>5, <2>6
  <2> QED
    BY <1>2, <2>3, <2>4, <2>7
<1>8. Laid(pattern, path, k, i) <=> \E j \in LaidAfter(pattern, path, k - 1) : First(j)
  BY <1>6, <1>7
<1> QED
  BY <1>8 DEF m, s

LEMMA LaidMore ==
    ASSUME NEW pattern \in Seq(Segment), NEW path \in Seq(Nat), NEW k \in 1..Len(pattern)
    PROVE  LaidAfter(pattern, path, k) =
               IF pattern[Len(pattern) - k + 1] = AnySegments
               THEN IF k = 1 THEN 0..Len(path) - 1
                    ELSE {i \in 0..Len(path) : \E j \in LaidAfter(pattern, path, k - 1) : i <= j}
               ELSE {i \in 0..Len(path) - 1 : /\ path[i + 1] \in pattern[Len(pattern) - k + 1]
                                              /\ i + 1 \in LaidAfter(pattern, path, k - 1)}
<1> DEFINE m == Len(pattern)
           n == Len(path)
           s == m - k + 1
           A == LaidAfter(pattern, path, k - 1)
           L == LaidAfter(pattern, path, k)
<1>1. m \in Nat /\ n \in Nat /\ (s = m <=> k = 1) /\ A \subseteq 0..n
  BY DEF LaidAfter
<1>2. \A i \in 0..n : i \in L <=> \E j \in A : IF pattern[s] = AnySegments
                                              THEN j >= i + (IF s = m THEN 1 ELSE 0)
                                              ELSE j = i + 1 /\ path[j] \in pattern[s]
  BY LaidFirst DEF LaidAfter
<1>3. L \subseteq 0..n
  BY DEF LaidAfter
<1>4. CASE pattern[s] = AnySegments /\ k = 1
  <2>1. A = {n}
    BY <1>4, LaidNone
  <2>2. \A i \in 0..n : i \in L <=> n >= i + 1
    BY <1>1, <1>2, <1>4, <2>1
  <2> HIDE DEF L, n, A, s, m
  <2>3. \A i : i \in L <=> i \in 0..n - 1
    <3>1. \A i \in 0..n : n >= i + 1 <=> i \in 0..n - 1
      BY <1>1
    <3>2. \A i \in 0..n - 1 : i \in 0..n
      BY <1>1
    <3> QED
      BY <1>3, <2>2, <3>1, <3>2
  <2>4. L = 0..n - 1
    BY <2>3
  <2> QED
    BY <1>4, <2>4 DEF L, n, A, s, m
<1>5. CASE pattern[s] = AnySegments /\ k # 1
  <2>1. \A i \in 0..n : i \in L <=> \E j \in A : i <= j
    BY <1>1, <1>2, <1>5
  <2> HIDE DEF L, n, A, s, m
  <2>2. L = {i \in 0..n : \E j \in A : i <= j}
    BY <1>3, <2>1
  <2> QED
    BY <1>5, <2>2 DEF L, n, A, s, m
<1>6. CASE pattern[s] # AnySegments
  <2>1. \A i \in 0..n : i \in L <=> i + 1 \in A /\ path[i + 1] \in pattern[s]
    BY <1>2, <1>6
  <2> HIDE DEF L, n, A, s, m
  <2>2. \A i \in 0..n : i + 1 \in A => i \in 0..n - 1
    BY <1>1
  <2>3. \A i \in 0..n - 1 : i \in 0..n
    BY <1>1
  <2>4. \A i : i \in L <=> i \in 0..n - 1 /\ path[i + 1] \in pattern[s] /\ i + 1 \in A
    BY <1>3, <2>1, <2>2, <2>3
  <2>5. L = {i \in 0..n - 1 : path[i + 1] \in pattern[s] /\ i + 1 \in A}
    BY <2>4, Zenon
  <2> QED
    BY <1>6, <2>5, Zenon DEF L, n, A, s, m
<1> QED
  BY <1>4, <1>5, <1>6

(* The matcher, from the last segment to the first, finds a way to lay the   *)
(* pattern along the path when there is one.                                 *)
LEMMA SegmentsFit ==
    ASSUME NEW pattern \in Seq(Segment), NEW path \in Seq(Nat)
    PROVE  SegmentsMatch(pattern, path) <=> Laid(pattern, path, Len(pattern), 0)
<1> DEFINE m == Len(pattern)
           n == Len(path)
           Step(h) ==
             [k \in 0..m |->
                IF k = 0 THEN {n}
                ELSE IF pattern[m - k + 1] = AnySegments
                     THEN IF k = 1 THEN 0..n - 1 ELSE {i \in 0..n : \E j \in h[k - 1] : i <= j}
                ELSE {i \in 0..n - 1 : path[i + 1] \in pattern[m - k + 1] /\ i + 1 \in h[k - 1]}]
           f == CHOOSE h : h = Step(h)
           g == [k \in 0..m |-> LaidAfter(pattern, path, k)]
<1>1. m \in Nat /\ n \in Nat
  OBVIOUS
<1>2. SegmentsMatch(pattern, path) <=> 0 \in f[m]
  BY Zenon DEF SegmentsMatch
<1>3. ASSUME NEW h, NEW k \in 0..m, k # 0, h[k - 1] = LaidAfter(pattern, path, k - 1)
      PROVE  Step(h)[k] = LaidAfter(pattern, path, k)
  <2>1. k \in 1..m
    BY <1>1, <1>3
  <2>2. Step(h)[k] = IF pattern[m - k + 1] = AnySegments
                     THEN IF k = 1 THEN 0..n - 1 ELSE {i \in 0..n : \E j \in h[k - 1] : i <= j}
                     ELSE {i \in 0..n - 1 : path[i + 1] \in pattern[m - k + 1] /\ i + 1 \in h[k - 1]}
    BY <1>3, Zenon
  <2>3. LaidAfter(pattern, path, k) =
          IF pattern[m - k + 1] = AnySegments
          THEN IF k = 1 THEN 0..n - 1
               ELSE {i \in 0..n : \E j \in LaidAfter(pattern, path, k - 1) : i <= j}
          ELSE {i \in 0..n - 1 : /\ path[i + 1] \in pattern[m - k + 1]
                                 /\ i + 1 \in LaidAfter(pattern, path, k - 1)}
    BY <2>1, LaidMore
  <2> HIDE DEF Step
  <2> QED
    BY <1>3, <2>2, <2>3, Zenon
<1>4. ASSUME NEW h PROVE Step(h)[0] = LaidAfter(pattern, path, 0)
  BY <1>1, LaidNone
<1>5. g = Step(g)
  <2>1. \A k \in 0..m : k # 0 => g[k - 1] = LaidAfter(pattern, path, k - 1)
    BY <1>1
  <2> HIDE DEF g
  <2>2. \A k \in 0..m : Step(g)[k] = LaidAfter(pattern, path, k)
    BY <1>3, <1>4, <2>1
  <2> HIDE DEF Step
  <2>3. Step(g) = [k \in 0..m |-> Step(g)[k]]
    BY Zenon DEF Step
  <2> QED
    BY <2>2, <2>3, Zenon DEF g
<1> HIDE DEF f, g
<1>6. f = Step(f)
  BY <1>5, Zenon DEF f
<1>7. f[m] = LaidAfter(pattern, path, m)
  <2> DEFINE T == {k \in 0..m : f[k] # LaidAfter(pattern, path, k)}
  <2>1. T \subseteq Nat
    BY <1>1
  <2>2. ASSUME T # {} PROVE FALSE
    <3>1. PICK k \in T : \A j \in T : k <= j
      BY <2>1, <2>2, LeastNat
    <3>2. CASE k = 0
      BY <1>4, <1>6, <3>1, <3>2, Zenon
    <3>3. CASE k # 0
      <4>1. k \in 0..m /\ k - 1 \in 0..m /\ k - 1 < k
        BY <1>1, <3>3
      <4>2. k - 1 \notin T
        BY <3>1, <4>1
      <4>3. f[k - 1] = LaidAfter(pattern, path, k - 1)
        BY <4>1, <4>2
      <4>4. Step(f)[k] = LaidAfter(pattern, path, k)
        BY <1>3, <3>3, <4>1, <4>3
      <4> QED
        BY <1>6, <3>1, <4>4, Zenon
    <3> QED
      BY <3>2, <3>3
  <2>3. m \in 0..m
    BY <1>1
  <2> QED
    BY <2>2, <2>3
<1>8. 0 \in 0..n
  BY <1>1
<1> QED
  BY <1>2, <1>7, <1>8 DEF LaidAfter

GitRule == [negate : BOOLEAN, lead : BOOLEAN, segments : Seq(Segment), trail : BOOLEAN]

(* What a line becomes matches a path when the line fits it.                 *)
LEMMA LineFits ==
    ASSUME NEW line \in GitRule, NEW path \in Seq(Nat), path # <<>>, NEW isDir
    PROVE  HasPattern(line) /\ RuleMatches(Rule(line), path, isDir) <=> Fits(line, path, isDir)
<1> DEFINE m == Len(line.segments)
           n == Len(path)
<1>1. line.segments \in Seq(Segment) /\ m \in Nat /\ (HasPattern(line) <=> m > 0)
  <2>1. line.segments \in Seq(Segment)
    BY DEF GitRule
  <2> QED
    BY <2>1, EmptySeq DEF HasPattern
<1>2. ASSUME NEW i, NEW cut
      PROVE  Covers(line.segments, path, i, cut) <=>
                 IF line.segments[i] = AnySegments
                 THEN cut[i] >= cut[i - 1] + (IF i = m THEN 1 ELSE 0)
                 ELSE cut[i] = cut[i - 1] + 1 /\ path[cut[i]] \in line.segments[i]
  BY DEF Covers
<1>3. SegmentsMatch(line.segments, path) <=>
        \E cut \in [0..m -> 0..n] : /\ cut[0] = 0 /\ cut[m] = n
                                    /\ \A i \in 1..m : Covers(line.segments, path, i, cut)
  <2>1. m - m = 0 /\ m - m + 1 = 1
    BY <1>1
  <2>2. SegmentsMatch(line.segments, path) <=> Laid(line.segments, path, m, 0)
    BY <1>1, SegmentsFit
  <2> HIDE DEF m
  <2>3. Laid(line.segments, path, m, 0) <=>
          \E cut \in [0..m -> 0..n] : /\ cut[0] = 0 /\ cut[m] = n
                                      /\ \A i \in 1..m : Covers(line.segments, path, i, cut)
    BY <2>1 DEF Laid, m
  <2> QED
    BY <2>2, <2>3
<1>4. Fits(line, path, isDir) <=>
        /\ m > 0
        /\ line.trail => isDir
        /\ IF m = 1 /\ ~line.lead
           THEN line.segments[1] = AnySegments \/ path[n] \in line.segments[1]
           ELSE SegmentsMatch(line.segments, path)
  BY <1>2, <1>3 DEF Fits
<1>5. RuleMatches(Rule(line), path, isDir) <=>
        /\ line.trail => isDir
        /\ IF line.lead \/ m > 1 THEN SegmentsMatch(line.segments, path)
           ELSE line.segments[1] = AnySegments \/ path[n] \in line.segments[1]
  BY DEF RuleMatches, Rule, GlobMatches, Last
<1>6. m > 0 => ((line.lead \/ m > 1) <=> ~(m = 1 /\ ~line.lead))
  <2>1. line.lead \in BOOLEAN
    BY DEF GitRule
  <2> HIDE DEF m
  <2>2. m > 0 => (m > 1 <=> m # 1)
    BY <1>1
  <2> QED
    BY <2>1, <2>2, Zenon
<1> QED
  BY <1>1, <1>4, <1>5, <1>6

(* The last line that matches decides whether a path is ignored.             *)
LEMMA LastDecides ==
    ASSUME gitignore \in Seq(GitRule), NEW path \in Seq(Nat), path # <<>>, NEW isDir
    PROVE  IsGitignored(path, isDir) <=> TakenOut(path, isDir)
<1> DEFINE N == Len(gitignore)
           M(i) == HasPattern(gitignore[i]) /\ RuleMatches(Rule(gitignore[i]), path, isDir)
           Step(h) == [i \in 0..N |-> IF i = 0 THEN FALSE
                                      ELSE IF M(i) THEN ~gitignore[i].negate ELSE h[i - 1]]
           Out(i) == \E j \in 1..i : M(j) /\ ~gitignore[j].negate /\ \A l \in j + 1..i : ~M(l)
           f == CHOOSE h : h = Step(h)
           g == [i \in 0..N |-> Out(i)]
<1>1. N \in Nat /\ DOMAIN gitignore = 1..N
  OBVIOUS
<1>2. IsGitignored(path, isDir) = f[N]
  BY Zenon DEF IsGitignored
<1>3. ASSUME NEW i \in 1..N PROVE M(i) <=> Fits(gitignore[i], path, isDir)
  <2>1. gitignore[i] \in GitRule
    BY ElementOfSeq
  <2> QED
    BY <2>1, LineFits
<1>4. TakenOut(path, isDir) <=> Out(N)
  <2>1. TakenOut(path, isDir) <=>
          \E i \in 1..N : /\ M(i) /\ ~gitignore[i].negate
                          /\ \A j \in 1..N : j > i => ~M(j)
    BY <1>1, <1>3 DEF TakenOut
  <2> HIDE DEF M
  <2>2. \A i \in 1..N : (\A j \in 1..N : j > i => ~M(j)) <=> (\A j \in i + 1..N : ~M(j))
    BY <1>1
  <2> QED
    BY <2>1, <2>2
<1> HIDE DEF M
<1>5. Out(0) <=> FALSE
  OBVIOUS
<1>6. ASSUME NEW i \in 1..N PROVE Out(i) <=> IF M(i) THEN ~gitignore[i].negate ELSE Out(i - 1)
  <2>1. CASE M(i)
    <3>1. ASSUME NEW j \in 1..i, \A l \in j + 1..i : ~M(l) PROVE j = i
      BY <1>1, <2>1, <3>1
    <3>2. i \in 1..i /\ i + 1..i = {}
      BY <1>1
    <3> QED
      BY <2>1, <3>1, <3>2
  <2>2. CASE ~M(i)
    <3>1. \A j \in 1..i : j \in 1..i - 1 \/ j = i
      BY <1>1
    <3>2. \A j \in 1..i - 1 : j \in 1..i /\ \A l \in j + 1..i : l \in j + 1..i - 1 \/ l = i
      BY <1>1
    <3>3. \A j \in 1..i - 1 : \A l \in j + 1..i - 1 : l \in j + 1..i
      BY <1>1
    <3> QED
      BY <2>2, <3>1, <3>2, <3>3
  <2> QED
    BY <2>1, <2>2
<1> HIDE DEF Out
<1>7. \A i : Out(i) \in BOOLEAN
  BY DEF Out
<1>8. ASSUME NEW h, NEW i \in 0..N, i # 0 => (h[i - 1] = Out(i - 1))
      PROVE  Step(h)[i] = Out(i)
  <2>1. CASE i = 0
    <3>1. Step(h)[i] = FALSE
      BY <2>1, Zenon
    <3>2. Out(i) = FALSE
      BY <1>5, <1>7, <2>1
    <3> QED
      BY <3>1, <3>2
  <2>2. CASE i # 0
    <3>1. i \in 1..N
      BY <1>1, <2>2
    <3>2. Step(h)[i] = IF M(i) THEN ~gitignore[i].negate ELSE Out(i - 1)
      BY <1>8, <2>2, Zenon
    <3>3. CASE M(i)
      <4>1. Step(h)[i] = ~gitignore[i].negate
        BY <3>2, <3>3, Zenon
      <4>2. Out(i) <=> ~gitignore[i].negate
        BY <1>6, <3>1, <3>3
      <4> QED
        BY <1>7, <4>1, <4>2
    <3>4. CASE ~M(i)
      <4>1. Step(h)[i] = Out(i - 1)
        BY <3>2, <3>4, Zenon
      <4>2. Out(i) <=> Out(i - 1)
        BY <1>6, <3>1, <3>4
      <4> QED
        BY <1>7, <4>1, <4>2
    <3> QED
      BY <3>3, <3>4
  <2> QED
    BY <2>1, <2>2
<1>9. g = Step(g)
  <2>1. \A i \in 0..N : i # 0 => g[i - 1] = Out(i - 1)
    BY <1>1
  <2> HIDE DEF g
  <2>2. \A i \in 0..N : Step(g)[i] = Out(i)
    BY <1>8, <1>7, <2>1
  <2> HIDE DEF Step
  <2>3. Step(g) = [i \in 0..N |-> Step(g)[i]]
    BY Zenon DEF Step
  <2> QED
    BY <2>2, <2>3, Zenon DEF g
<1> HIDE DEF f, g
<1>10. f = Step(f)
  BY <1>9, Zenon DEF f
<1>11. f[N] = Out(N)
  <2> DEFINE T == {i \in 0..N : f[i] # Out(i)}
  <2>1. T \subseteq Nat
    BY <1>1
  <2>2. ASSUME T # {} PROVE FALSE
    <3>1. PICK i \in T : \A j \in T : i <= j
      BY <2>1, <2>2, LeastNat
    <3>2. i \in 0..N /\ (i # 0 => i - 1 \in 0..N /\ i - 1 < i)
      BY <1>1
    <3>3. i # 0 => f[i - 1] = Out(i - 1)
      <4>1. i # 0 => i - 1 \notin T
        BY <3>1, <3>2
      <4> QED
        BY <3>2, <4>1
    <3>4. Step(f)[i] = Out(i)
      BY <1>8, <1>7, <3>2, <3>3
    <3> QED
      BY <1>10, <3>1, <3>4, Zenon
  <2>3. N \in 0..N
    BY <1>1
  <2> QED
    BY <2>2, <2>3
<1> QED
  BY <1>2, <1>4, <1>11

-----------------------------------------------------------------------------
(* A listing, sorted.                                                        *)

(* A listing of a finite set gives every name of it.                         *)
LEMMA ListingHasAll ==
    ASSUME NEW S, IsFiniteSet(S), NEW s \in SetToSeqs(S)
    PROVE  s \in Seq(S) /\ Len(s) = Cardinality(S) /\ Range(s) = S
<1> DEFINE D == 1..Cardinality(S)
<1>1. Cardinality(S) \in Nat
  BY FS_CardinalityType
<1>2. s \in [D -> S] /\ \A i, j \in D : i # j => s[i] # s[j]
  BY DEF SetToSeqs
<1>3. s \in Injection(D, S)
  BY <1>2 DEF Injection, IsInjective
<1>4. Cardinality(D) = Cardinality(S)
  BY <1>1, FS_Interval
<1>5. s \in Surjection(D, S)
  BY <1>3, <1>4, FS_Injection
<1>6. \A x \in S : \E i \in D : s[i] = x
  BY <1>5 DEF Surjection
<1>7. s \in Seq(S) /\ Len(s) = Cardinality(S)
  BY <1>1, <1>2
<1>8. Range(s) = S
  BY <1>2, <1>6 DEF Range
<1> QED
  BY <1>7, <1>8

Ascending(s) == \A i, j \in DOMAIN s : i < j => s[i] < s[j]

(* Every finite set of numbers can be listed in their order.                 *)
LEMMA SortedExists ==
    ASSUME NEW S \in SUBSET Nat, IsFiniteSet(S)
    PROVE  \E s \in SetToSeqs(S) : Ascending(s)
<1> DEFINE Bad == {n \in Nat : \E X \in SUBSET Nat : /\ IsFiniteSet(X) /\ Cardinality(X) = n
                                                     /\ ~\E s \in SetToSeqs(X) : Ascending(s)}
<1>1. ASSUME Bad # {} PROVE FALSE
  <2>1. PICK n \in Bad : \A b \in Bad : n <= b
    <3>1. Bad \subseteq Nat
      OBVIOUS
    <3> HIDE DEF Bad
    <3> QED
      BY <1>1, <3>1, LeastNat
  <2>2. PICK X \in SUBSET Nat : /\ IsFiniteSet(X) /\ Cardinality(X) = n
                                /\ ~\E s \in SetToSeqs(X) : Ascending(s)
    BY <2>1
  <2>3. X # {}
    <3> SUFFICES ASSUME X = {} PROVE FALSE
      OBVIOUS
    <3>1. Cardinality(X) = 0
      BY FS_EmptySet
    <3> DEFINE s == [i \in 1..0 |-> 0]
    <3>2. 1..Cardinality(X) = {} /\ 1..0 = {}
      BY <3>1
    <3>3. s \in [1..Cardinality(X) -> X] /\ DOMAIN s = {}
      BY <3>2
    <3> HIDE DEF s
    <3>4. s \in SetToSeqs(X) /\ Ascending(s)
      BY <3>2, <3>3 DEF SetToSeqs, Ascending
    <3> QED
      BY <2>2, <3>4
  <2>4. PICK x \in X : \A y \in X : x <= y
    BY <2>3, LeastNat
  <2> DEFINE Y == X \ {x}
  <2>5. IsFiniteSet(Y) /\ Cardinality(Y) = n - 1 /\ n \in Nat /\ n # 0
    <3>1. IsFiniteSet(Y) /\ Cardinality(Y) = n - 1
      BY <2>2, <2>4, FS_RemoveElement
    <3>2. Cardinality(Y) \in Nat
      BY <3>1, FS_CardinalityType
    <3>3. n \in Nat
      OBVIOUS
    <3> QED
      BY <3>1, <3>2, <3>3
  <2>6. n - 1 \notin Bad
    BY <2>1, <2>5
  <2>7. PICK r \in SetToSeqs(Y) : Ascending(r)
    BY <2>5, <2>6
  <2>8. r \in [1..n - 1 -> Y]
    BY <2>5, <2>7 DEF SetToSeqs
  <2> DEFINE s == [i \in 1..n |-> IF i = 1 THEN x ELSE r[i - 1]]
  <2>9. ASSUME NEW i \in 1..n, i # 1 PROVE i - 1 \in 1..n - 1 /\ r[i - 1] \in Y
    <3>1. i - 1 \in 1..n - 1
      BY <2>5, <2>9
    <3> QED
      BY <2>8, <3>1
  <2>10. \A y \in Y : y \in Nat /\ x < y
    BY <2>4
  <2>11. s \in [1..n -> X]
    BY <2>4, <2>9
  <2>12. ASSUME NEW i \in 1..n, NEW j \in 1..n, i < j PROVE s[i] < s[j]
    <3>1. j # 1 /\ j - 1 \in 1..n - 1 /\ r[j - 1] \in Y /\ s[j] = r[j - 1]
      BY <2>5, <2>9, <2>12
    <3>2. CASE i = 1
      BY <2>10, <3>1, <3>2
    <3>3. CASE i # 1
      <4>1. i - 1 \in 1..n - 1 /\ i - 1 < j - 1 /\ s[i] = r[i - 1]
        BY <2>5, <2>9, <2>12, <3>3
      <4>2. DOMAIN r = 1..n - 1
        BY <2>8
      <4>3. r[i - 1] < r[j - 1]
        BY <2>7, <3>1, <4>1, <4>2 DEF Ascending
      <4> QED
        BY <3>1, <4>1, <4>3
    <3> QED
      BY <3>2, <3>3
  <2> HIDE DEF s
  <2>13. \A i \in 1..n : s[i] \in Nat
    BY <2>11
  <2>14. \A i, j \in 1..n : i # j => s[i] # s[j]
    <3> SUFFICES ASSUME NEW i \in 1..n, NEW j \in 1..n, i # j PROVE s[i] # s[j]
      OBVIOUS
    <3>1. i < j \/ j < i
      BY <2>5
    <3> QED
      BY <2>12, <2>13, <3>1
  <2>15. s \in SetToSeqs(X) /\ Ascending(s)
    <3>1. DOMAIN s = 1..n /\ 1..Cardinality(X) = 1..n
      BY <2>2, <2>11
    <3> QED
      BY <2>11, <2>12, <2>14, <3>1 DEF SetToSeqs, Ascending
  <2> QED
    BY <2>2, <2>15
<1>2. Cardinality(S) \in Nat
  BY FS_CardinalityType
<1> QED
  BY <1>1, <1>2

(* Whatever order a directory is listed in, it is given in one.              *)
LEMMA SortedListing ==
    ASSUME NEW S \in SUBSET Nat, IsFiniteSet(S), NEW s \in SetToSeqs(S)
    PROVE  Sorted(s) \in Seq(S) /\ Range(Sorted(s)) = S /\ Ascending(Sorted(s))
<1>1. Range(s) = S
  BY ListingHasAll
<1>2. Sorted(s) = CHOOSE t \in SetToSeqs(S) : Ascending(t)
  BY <1>1 DEF Sorted, Ascending
<1>3. Sorted(s) \in SetToSeqs(S) /\ Ascending(Sorted(s))
  BY <1>2, SortedExists
<1> QED
  BY <1>3, ListingHasAll

-----------------------------------------------------------------------------
(* The walk of the working tree.                                             *)

(* A file below a directory.                                                 *)
LiesIn(f, dir) == Len(dir) < Len(f) /\ \A i \in 1..Len(dir) : f[i] = dir[i]

(* Two directories where neither lies in the other, the first to come first. *)
Parted(d, e) ==
    \E i \in DOMAIN d \intersect DOMAIN e : d[i] < e[i] /\ \A j \in 1..i - 1 : d[j] = e[j]

(* A file that comes before all that lies in a directory.                    *)
Ahead(f, dir) ==
    \E i \in DOMAIN f \intersect DOMAIN dir :
        (i = Len(f) \/ f[i] < dir[i]) /\ \A j \in 1..i - 1 : f[j] = dir[j]

(* A directory that the walk enters.                                         *)
Entered(dir) ==
    /\ Len(walkRoot) <= Len(dir) /\ \A i \in 1..Len(walkRoot) : dir[i] = walkRoot[i]
    /\ \A i \in Len(walkRoot) + 1..Len(dir) : KeepsDir(SubSeq(dir, 1, i))

(* What was given precedes what lies in the directories still to be listed,  *)
(* and every file to be seen was given or lies in one of them.               *)
WalkInv ==
    /\ gitignore \in Seq(GitLine) /\ walkRoot \in Seq(Nat)
    /\ pending \in Seq(Seq(Nat)) /\ yielded \in Seq(TreeFile)
    /\ \A d \in Range(pending) : Entered(d)
    /\ \A i, j \in 1..Len(pending) : i < j => Parted(pending[i], pending[j])
    /\ \A i, j \in 1..Len(yielded) : i < j => Precedes(yielded[i], yielded[j])
    /\ \A i \in 1..Len(yielded), j \in 1..Len(pending) : Ahead(yielded[i], pending[j])
    /\ \A f \in Range(yielded) : Seen(f)
    /\ \A f \in TreeFile : Seen(f) => \/ f \in Range(yielded)
                                      \/ \E i \in 1..Len(pending) : LiesIn(f, pending[i])

LEMMA TreeFiles ==
    ASSUME NEW f \in TreeFile
    PROVE  f \in Seq(Nat) /\ f # <<>> /\ Len(f) \in Nat /\ Len(f) > 0
<1>1. f \in Seq(Nat) /\ f # <<>>
  BY IgnoreAssumption
<1> QED
  BY <1>1, EmptySeq

LEMMA LinesAreRules == gitignore \in Seq(GitLine) => gitignore \in Seq(GitRule)
<1>1. GitLine \subseteq GitRule
  BY IgnoreAssumption DEF GitRule
<1> QED
  BY <1>1, SeqMonotonic

(* The beginning of a path.                                                  *)
LEMMA FirstNames ==
    ASSUME NEW f \in Seq(Nat), NEW k \in 0..Len(f)
    PROVE  /\ SubSeq(f, 1, k) \in Seq(Nat) /\ Len(SubSeq(f, 1, k)) = k
           /\ \A i \in 1..k : SubSeq(f, 1, k)[i] = f[i]
OBVIOUS

(* A path with one more name.                                                *)
LEMMA OneMore ==
    ASSUME NEW d \in Seq(Nat), NEW x \in Nat
    PROVE  /\ Append(d, x) \in Seq(Nat) /\ Len(Append(d, x)) = Len(d) + 1
           /\ Append(d, x)[Len(d) + 1] = x
           /\ \A i \in 1..Len(d) : Append(d, x)[i] = d[i]
           /\ \A i \in 1..Len(d) : SubSeq(Append(d, x), 1, i) = SubSeq(d, 1, i)
           /\ Len(d) \in Nat /\ DOMAIN d = 1..Len(d) /\ DOMAIN Append(d, x) = 1..Len(d) + 1
<1> DEFINE a == Append(d, x)
<1>1. /\ a \in Seq(Nat) /\ Len(a) = Len(d) + 1 /\ a[Len(d) + 1] = x /\ Len(d) \in Nat
      /\ \A i \in 1..Len(d) : a[i] = d[i]
  BY AppendProperties
<1> HIDE DEF a
<1>2. ASSUME NEW i \in 1..Len(d) PROVE SubSeq(a, 1, i) = SubSeq(d, 1, i)
  <2> DEFINE r == SubSeq(a, 1, i)
             s == SubSeq(d, 1, i)
  <2>1. r \in Seq(Nat) /\ Len(r) = i /\ \A j \in 1..i : r[j] = a[j]
    <3>1. i \in 0..Len(a)
      BY <1>1
    <3> QED
      BY <1>1, <3>1, FirstNames
  <2>2. s \in Seq(Nat) /\ Len(s) = i /\ \A j \in 1..i : s[j] = d[j]
    <3>1. i \in 0..Len(d)
      BY <1>1
    <3> QED
      BY <3>1, FirstNames
  <2>3. \A j \in 1..i : a[j] = d[j]
    BY <1>1
  <2> HIDE DEF r, s
  <2>4. r = s
    BY <2>1, <2>2, <2>3, SeqEqual
  <2> QED
    BY <2>4 DEF r, s
<1> QED
  BY <1>1, <1>2 DEF a

(* A file is seen when every directory on its way and the file are kept.     *)
LEMMA SeenIsKept ==
    ASSUME gitignore \in Seq(GitLine), walkRoot \in Seq(Nat), NEW f \in TreeFile
    PROVE  Seen(f) <=> /\ LiesIn(f, walkRoot)
                       /\ \A i \in Len(walkRoot) + 1..Len(f) - 1 : KeepsDir(SubSeq(f, 1, i))
                       /\ KeepsFile(f)
<1> DEFINE Clause(i) ==
             /\ ~TakenOut(SubSeq(f, 1, i), i < Len(f))
             /\ f[i] \notin avignored
             /\ f[i] \notin (IF ~(i < Len(f)) THEN Noise
                             ELSE HardIgnored \union (IF defaults THEN DefaultIgnored ELSE {}))
<1>1. f \in Seq(Nat) /\ f # <<>> /\ Len(f) \in Nat /\ Len(f) > 0 /\ Len(walkRoot) \in Nat
  BY TreeFiles
<1>2. gitignore \in Seq(GitRule)
  BY LinesAreRules
<1>3. ASSUME NEW i \in 1..Len(f)
      PROVE  LET p == SubSeq(f, 1, i) IN p \in Seq(Nat) /\ p # <<>> /\ Last(p) = f[i]
  <2> DEFINE p == SubSeq(f, 1, i)
  <2>1. p \in Seq(Nat) /\ Len(p) = i /\ p[i] = f[i] /\ i # 0
    BY <1>1
  <2>2. p # <<>>
    BY <2>1, EmptySeq
  <2> QED
    BY <2>1, <2>2 DEF Last
<1>4. ASSUME NEW i \in 1..Len(f) - 1 PROVE Clause(i) <=> KeepsDir(SubSeq(f, 1, i))
  <2> DEFINE p == SubSeq(f, 1, i)
  <2>1. i \in 1..Len(f) /\ i < Len(f)
    BY <1>1
  <2>2. p \in Seq(Nat) /\ p # <<>> /\ Last(p) = f[i]
    BY <1>3, <2>1
  <2>3. (i < Len(f)) = TRUE
    BY <2>1
  <2> HIDE DEF p
  <2>4. IsGitignored(p, TRUE) <=> TakenOut(p, TRUE)
    BY <1>2, <2>2, LastDecides
  <2>5. Clause(i) <=> /\ ~TakenOut(p, TRUE) /\ f[i] \notin avignored
                      /\ f[i] \notin HardIgnored \union (IF defaults THEN DefaultIgnored ELSE {})
    BY <2>3 DEF p
  <2>6. KeepsDir(p) <=> /\ ~TakenOut(p, TRUE) /\ f[i] \notin avignored
                        /\ f[i] \notin HardIgnored \union (IF defaults THEN DefaultIgnored ELSE {})
    BY <2>2, <2>4 DEF KeepsDir, SkippedByName, MatchesAvignore
  <2> QED
    BY <2>5, <2>6 DEF p
<1>5. Clause(Len(f)) <=> KeepsFile(f)
  <2>1. SubSeq(f, 1, Len(f)) = f /\ Last(f) = f[Len(f)]
    BY <1>1 DEF Last
  <2>2. (Len(f) < Len(f)) = FALSE
    BY <1>1
  <2>3. IsGitignored(f, FALSE) <=> TakenOut(f, FALSE)
    BY <1>1, <1>2, LastDecides
  <2>4. Clause(Len(f)) <=> ~TakenOut(f, FALSE) /\ f[Len(f)] \notin avignored /\ f[Len(f)] \notin Noise
    BY <2>1, <2>2
  <2>5. KeepsFile(f) <=> ~TakenOut(f, FALSE) /\ f[Len(f)] \notin avignored /\ f[Len(f)] \notin Noise
    BY <2>1, <2>3 DEF KeepsFile, MatchesAvignore
  <2> QED
    BY <2>4, <2>5
<1>6. Seen(f) <=> /\ Len(f) > Len(walkRoot) /\ SubSeq(f, 1, Len(walkRoot)) = walkRoot
                  /\ \A i \in Len(walkRoot) + 1..Len(f) : Clause(i)
  BY DEF Seen
<1> HIDE DEF Clause
<1>7. LiesIn(f, walkRoot) <=> Len(f) > Len(walkRoot) /\ SubSeq(f, 1, Len(walkRoot)) = walkRoot
  <2>1. ASSUME Len(f) > Len(walkRoot)
        PROVE  SubSeq(f, 1, Len(walkRoot)) = walkRoot <=> \A i \in 1..Len(walkRoot) : f[i] = walkRoot[i]
    <3> DEFINE s == SubSeq(f, 1, Len(walkRoot))
    <3>1. s \in Seq(Nat) /\ Len(s) = Len(walkRoot) /\ \A i \in 1..Len(walkRoot) : s[i] = f[i]
      BY <1>1, <2>1
    <3> HIDE DEF s
    <3>2. (\A i \in 1..Len(walkRoot) : f[i] = walkRoot[i]) => s = walkRoot
      <4> SUFFICES ASSUME \A i \in 1..Len(walkRoot) : f[i] = walkRoot[i] PROVE s = walkRoot
        OBVIOUS
      <4>1. \A i \in 1..Len(s) : s[i] = walkRoot[i]
        BY <3>1
      <4> QED
        BY <3>1, <4>1, SeqEqual
    <3>3. s = walkRoot => \A i \in 1..Len(walkRoot) : f[i] = walkRoot[i]
      BY <3>1
    <3> QED
      BY <3>2, <3>3 DEF s
  <2> QED
    BY <1>1, <2>1 DEF LiesIn
<1>8. ASSUME Len(f) > Len(walkRoot)
      PROVE  (\A i \in Len(walkRoot) + 1..Len(f) : Clause(i)) <=>
                 (\A i \in Len(walkRoot) + 1..Len(f) - 1 : Clause(i)) /\ Clause(Len(f))
  <2>1. /\ Len(f) \in Len(walkRoot) + 1..Len(f)
        /\ \A i \in Len(walkRoot) + 1..Len(f) - 1 : i \in Len(walkRoot) + 1..Len(f)
        /\ \A i \in Len(walkRoot) + 1..Len(f) : i \in Len(walkRoot) + 1..Len(f) - 1 \/ i = Len(f)
    BY <1>1, <1>8
  <2> QED
    BY <2>1
<1>9. \A i \in Len(walkRoot) + 1..Len(f) - 1 : i \in 1..Len(f) - 1
  BY <1>1
<1> QED
  BY <1>4, <1>5, <1>6, <1>7, <1>8, <1>9

-----------------------------------------------------------------------------
(* The order of the walk, from a directory to what is in it.                 *)

LEMMA AheadOfMore ==
    ASSUME NEW f \in Seq(Nat), NEW d \in Seq(Nat), NEW x \in Nat, Ahead(f, d)
    PROVE  Precedes(f, Append(d, x)) /\ Ahead(f, Append(d, x))
<1> DEFINE g == Append(d, x)
<1>1. PICK i \in DOMAIN f \intersect DOMAIN d :
           (i = Len(f) \/ f[i] < d[i]) /\ \A j \in 1..i - 1 : f[j] = d[j]
  BY DEF Ahead
<1>2. /\ Len(d) \in Nat /\ DOMAIN d = 1..Len(d) /\ DOMAIN g = 1..Len(d) + 1 /\ Len(g) = Len(d) + 1
      /\ \A j \in 1..Len(d) : g[j] = d[j]
  BY OneMore
<1> HIDE DEF g
<1>3. i \in DOMAIN f \intersect DOMAIN g /\ i < Len(g) /\ g[i] = d[i]
  BY <1>2
<1>4. \A j \in 1..i - 1 : f[j] = g[j]
  BY <1>1, <1>2
<1>5. Ahead(f, g)
  BY <1>1, <1>3, <1>4 DEF Ahead
<1>6. Precedes(f, g)
  <2>1. i = Len(f) \/ f[i] < g[i]
    BY <1>1, <1>3
  <2>2. i # Len(g)
    BY <1>2, <1>3
  <2> QED
    BY <1>3, <1>4, <2>1, <2>2 DEF Precedes
<1> QED
  BY <1>5, <1>6 DEF g

LEMMA PartedBelow ==
    ASSUME NEW d \in Seq(Nat), NEW e \in Seq(Nat), NEW x \in Nat, Parted(d, e)
    PROVE  Parted(Append(d, x), e) /\ Ahead(Append(d, x), e)
<1> DEFINE g == Append(d, x)
<1>1. PICK i \in DOMAIN d \intersect DOMAIN e : d[i] < e[i] /\ \A j \in 1..i - 1 : d[j] = e[j]
  BY DEF Parted
<1>2. /\ Len(d) \in Nat /\ DOMAIN d = 1..Len(d) /\ DOMAIN g = 1..Len(d) + 1
      /\ \A j \in 1..Len(d) : g[j] = d[j]
  BY OneMore
<1> HIDE DEF g
<1>3. i \in DOMAIN g \intersect DOMAIN e /\ g[i] < e[i] /\ \A j \in 1..i - 1 : g[j] = e[j]
  BY <1>1, <1>2
<1> QED
  BY <1>3 DEF Parted, Ahead, g

LEMMA SideBySide ==
    ASSUME NEW d \in Seq(Nat), NEW x \in Nat, NEW y \in Nat
    PROVE  /\ Ahead(Append(d, x), Append(d, y))
           /\ x < y => Precedes(Append(d, x), Append(d, y)) /\ Parted(Append(d, x), Append(d, y))
<1> DEFINE f == Append(d, x)
           g == Append(d, y)
           i == Len(d) + 1
<1>1. /\ Len(d) \in Nat /\ DOMAIN f = 1..i /\ DOMAIN g = 1..i /\ Len(f) = i /\ Len(g) = i
      /\ \A j \in 1..Len(d) : f[j] = d[j]
      /\ \A j \in 1..Len(d) : g[j] = d[j]
      /\ f[i] = x /\ g[i] = y
  BY OneMore
<1> HIDE DEF f, g
<1>2. i \in DOMAIN f \intersect DOMAIN g /\ i - 1 = Len(d)
  BY <1>1
<1> HIDE DEF i
<1>3. \A j \in 1..i - 1 : f[j] = g[j]
  BY <1>1, <1>2
<1>4. Ahead(f, g)
  BY <1>1, <1>2, <1>3 DEF Ahead
<1>5. ASSUME x < y PROVE Precedes(f, g) /\ Parted(f, g)
  BY <1>1, <1>2, <1>3, <1>5 DEF Precedes, Parted
<1> QED
  BY <1>4, <1>5 DEF f, g

-----------------------------------------------------------------------------
(* One turn of the walk.                                                     *)

(* The names a directory shows are finitely many numbers.                    *)
LEMMA NamesInDir ==
    ASSUME NEW d \in Seq(Nat)
    PROVE  /\ FilesIn(d) \in SUBSET Nat /\ IsFiniteSet(FilesIn(d))
           /\ DirsIn(d) \in SUBSET Nat /\ IsFiniteSet(DirsIn(d))
<1> DEFINE X == {g \in TreeFile : Front(g) = d}
           Y == {g \in TreeFile : Len(g) > Len(d) + 1 /\ SubSeq(g, 1, Len(d)) = d}
<1>1. Len(d) \in Nat
  OBVIOUS
<1>2. FilesIn(d) = {Last(f) : f \in X} /\ DirsIn(d) = {f[Len(d) + 1] : f \in Y}
  BY DEF FilesIn, DirsIn
<1>3. X \in SUBSET TreeFile /\ Y \in SUBSET TreeFile /\ IsFiniteSet(TreeFile)
  BY IgnoreAssumption
<1>4. IsFiniteSet(X) /\ IsFiniteSet(Y)
  BY <1>3, FS_Subset
<1>5. ASSUME NEW f \in X PROVE Last(f) \in Nat
  BY TreeFiles DEF Last
<1>6. ASSUME NEW f \in Y PROVE f[Len(d) + 1] \in Nat
  <2>1. f \in TreeFile /\ Len(f) > Len(d) + 1
    OBVIOUS
  <2>2. f \in Seq(Nat) /\ Len(f) \in Nat
    BY <2>1, TreeFiles
  <2> QED
    BY <1>1, <2>1, <2>2
<1> HIDE DEF X, Y
<1>7. IsFiniteSet(FilesIn(d))
  <2>1. [f \in X |-> Last(f)] \in Surjection(X, FilesIn(d))
    BY <1>2 DEF Surjection
  <2> QED
    BY <1>4, <2>1, FS_Surjection
<1>8. IsFiniteSet(DirsIn(d))
  <2>1. [f \in Y |-> f[Len(d) + 1]] \in Surjection(Y, DirsIn(d))
    BY <1>2 DEF Surjection
  <2> QED
    BY <1>4, <2>1, FS_Surjection
<1> QED
  BY <1>2, <1>5, <1>6, <1>7, <1>8

LEMMA ListedFile ==
    ASSUME NEW d \in Seq(Nat), NEW x \in FilesIn(d)
    PROVE  Append(d, x) \in TreeFile
<1>1. PICK f \in TreeFile : Front(f) = d /\ Last(f) = x
  BY DEF FilesIn
<1>2. f \in Seq(Nat) /\ f # <<>> /\ Len(f) \in Nat /\ Len(f) > 0
  BY TreeFiles
<1>3. d = SubSeq(f, 1, Len(f) - 1) /\ x = f[Len(f)] /\ x \in Nat
  BY <1>1, <1>2 DEF Front, Last
<1>4. Len(d) = Len(f) - 1 /\ \A i \in 1..Len(d) : d[i] = f[i]
  <2>1. Len(f) - 1 \in 0..Len(f)
    BY <1>2
  <2>2. /\ Len(SubSeq(f, 1, Len(f) - 1)) = Len(f) - 1
        /\ \A i \in 1..Len(f) - 1 : SubSeq(f, 1, Len(f) - 1)[i] = f[i]
    BY <1>2, <2>1, FirstNames
  <2> QED
    BY <1>3, <2>2
<1> DEFINE a == Append(d, x)
<1>5. a \in Seq(Nat) /\ Len(a) = Len(d) + 1 /\ a[Len(d) + 1] = x /\ \A i \in 1..Len(d) : a[i] = d[i]
  BY <1>3, OneMore
<1> HIDE DEF a
<1>6. ASSUME NEW i \in 1..Len(a) PROVE a[i] = f[i]
  <2>1. i \in 1..Len(d) \/ i = Len(d) + 1
    BY <1>2, <1>4, <1>5
  <2> QED
    BY <1>2, <1>3, <1>4, <1>5, <2>1
<1>7. Len(a) = Len(f)
  BY <1>2, <1>4, <1>5
<1>8. a = f
  BY <1>2, <1>5, <1>6, <1>7, SeqEqual
<1> QED
  BY <1>8 DEF a

(* A file below a directory is one of its files, or below one of its         *)
(* directories.                                                              *)
LEMMA BelowIsListed ==
    ASSUME NEW d \in Seq(Nat), NEW f \in TreeFile, LiesIn(f, d)
    PROVE  \/ /\ Len(f) = Len(d) + 1 /\ Last(f) \in FilesIn(d) /\ Append(d, Last(f)) = f
           \/ /\ Len(f) > Len(d) + 1 /\ f[Len(d) + 1] \in DirsIn(d)
              /\ Append(d, f[Len(d) + 1]) = SubSeq(f, 1, Len(d) + 1)
              /\ LiesIn(f, Append(d, f[Len(d) + 1]))
<1>1. /\ f \in Seq(Nat) /\ Len(f) \in Nat /\ Len(d) \in Nat /\ Len(f) > Len(d)
      /\ \A i \in 1..Len(d) : f[i] = d[i]
  BY TreeFiles DEF LiesIn
<1>2. SubSeq(f, 1, Len(d)) = d
  <2> DEFINE s == SubSeq(f, 1, Len(d))
  <2>1. s \in Seq(Nat) /\ Len(s) = Len(d) /\ \A i \in 1..Len(s) : s[i] = f[i]
    BY <1>1
  <2> HIDE DEF s
  <2>2. \A i \in 1..Len(s) : s[i] = d[i]
    BY <1>1, <2>1
  <2>3. s = d
    BY <2>1, <2>2, SeqEqual
  <2> QED
    BY <2>3 DEF s
<1> DEFINE k == Len(d) + 1
           x == f[k]
           a == Append(d, x)
           s == SubSeq(f, 1, k)
<1>3. x \in Nat /\ k \in 1..Len(f)
  BY <1>1
<1>4. s \in Seq(Nat) /\ Len(s) = k /\ \A i \in 1..k : s[i] = f[i]
  BY <1>1
<1>5. a \in Seq(Nat) /\ Len(a) = k /\ a[k] = x /\ \A i \in 1..Len(d) : a[i] = d[i]
  BY <1>3, OneMore
<1>6. \A i \in 1..k : i \in 1..Len(d) \/ i = k
  BY <1>1
<1> HIDE DEF a, s
<1>7. \A i \in 1..k : a[i] = f[i]
  BY <1>1, <1>5, <1>6
<1>8. a = s
  BY <1>4, <1>5, <1>7, SeqEqual
<1>9. CASE Len(f) = k
  <2>1. Last(f) = x /\ Front(f) = d /\ s = f
    BY <1>1, <1>2, <1>9 DEF Last, Front, s
  <2>2. Last(f) \in FilesIn(d)
    BY <2>1 DEF FilesIn
  <2> QED
    BY <1>8, <1>9, <2>1, <2>2 DEF a
<1>10. CASE Len(f) > k
  <2>1. x \in DirsIn(d)
    BY <1>2, <1>10 DEF DirsIn
  <2>2. LiesIn(f, a)
    BY <1>5, <1>7, <1>10 DEF LiesIn
  <2> QED
    BY <1>8, <1>10, <2>1, <2>2 DEF a, s
<1> QED
  BY <1>1, <1>9, <1>10

(* What a listing of the first directory leaves to be listed and gives.      *)
LEMMA OneListing ==
    ASSUME pending \in Seq(Seq(Nat)), ListDirectory
    PROVE  /\ pending # <<>> /\ Head(pending) \in Seq(Nat)
           /\ \E ds \in Seq(Nat), fs \in Seq(Nat) :
                 /\ Range(ds) = {d \in DirsIn(Head(pending)) : KeepsDir(Append(Head(pending), d))}
                 /\ Range(fs) = {f \in FilesIn(Head(pending)) : KeepsFile(Append(Head(pending), f))}
                 /\ Ascending(ds) /\ Ascending(fs)
                 /\ pending' = [i \in DOMAIN ds |-> Append(Head(pending), ds[i])] \o Tail(pending)
                 /\ yielded' = yielded \o [i \in DOMAIN fs |-> Append(Head(pending), fs[i])]
<1> DEFINE dir == Head(pending)
           keptDirs == {d \in DirsIn(dir) : KeepsDir(Append(dir, d))}
           keptFiles == {f \in FilesIn(dir) : KeepsFile(Append(dir, f))}
<1>1. pending # <<>>
  BY DEF ListDirectory
<1>2. dir \in Seq(Nat)
  BY <1>1, HeadTailProperties
<1>3. PICK dirs \in SetToSeqs(keptDirs), files \in SetToSeqs(keptFiles) :
           /\ pending' = [i \in DOMAIN Sorted(dirs) |-> Append(dir, Sorted(dirs)[i])] \o Tail(pending)
           /\ yielded' = yielded \o [i \in DOMAIN Sorted(files) |-> Append(dir, Sorted(files)[i])]
  BY DEF ListDirectory
<1>4. /\ keptDirs \in SUBSET Nat /\ IsFiniteSet(keptDirs)
      /\ keptFiles \in SUBSET Nat /\ IsFiniteSet(keptFiles)
  <2>1. /\ FilesIn(dir) \in SUBSET Nat /\ IsFiniteSet(FilesIn(dir))
        /\ DirsIn(dir) \in SUBSET Nat /\ IsFiniteSet(DirsIn(dir))
    BY <1>2, NamesInDir
  <2>2. keptDirs \in SUBSET DirsIn(dir) /\ keptFiles \in SUBSET FilesIn(dir)
    OBVIOUS
  <2> HIDE DEF keptDirs, keptFiles
  <2> QED
    BY <2>1, <2>2, FS_Subset
<1> HIDE DEF keptDirs, keptFiles, dir
<1>5. Sorted(dirs) \in Seq(keptDirs) /\ Range(Sorted(dirs)) = keptDirs /\ Ascending(Sorted(dirs))
  BY <1>4, SortedListing
<1>6. Sorted(files) \in Seq(keptFiles) /\ Range(Sorted(files)) = keptFiles /\ Ascending(Sorted(files))
  BY <1>4, SortedListing
<1>7. Sorted(dirs) \in Seq(Nat) /\ Sorted(files) \in Seq(Nat)
  BY <1>4, <1>5, <1>6, SeqMonotonic
<1> QED
  BY <1>1, <1>2, <1>3, <1>5, <1>6, <1>7 DEF keptDirs, keptFiles, dir

LEMMA HasElement ==
    ASSUME NEW T, NEW s \in Seq(T)
    PROVE  \A x : x \in Range(s) <=> \E i \in 1..Len(s) : s[i] = x
<1>1. DOMAIN s = 1..Len(s)
  OBVIOUS
<1> QED
  BY <1>1 DEF Range

(* Two sequences in a row.                                                   *)
LEMMA Joined ==
    ASSUME NEW T, NEW s \in Seq(T), NEW t \in Seq(T)
    PROVE  /\ s \o t \in Seq(T) /\ Len(s) \in Nat /\ Len(t) \in Nat
           /\ \A i \in 1..Len(s \o t) :
                 \/ i \in 1..Len(s) /\ (s \o t)[i] = s[i]
                 \/ i > Len(s) /\ i - Len(s) \in 1..Len(t) /\ (s \o t)[i] = t[i - Len(s)]
           /\ \A i \in 1..Len(s) : i \in 1..Len(s \o t) /\ (s \o t)[i] = s[i]
           /\ \A i \in 1..Len(t) : Len(s) + i \in 1..Len(s \o t) /\ (s \o t)[Len(s) + i] = t[i]
<1> DEFINE u == s \o t
<1>1. /\ u \in Seq(T) /\ Len(s) \in Nat /\ Len(t) \in Nat /\ Len(u) = Len(s) + Len(t)
      /\ \A i \in 1..Len(s) + Len(t) : u[i] = IF i <= Len(s) THEN s[i] ELSE t[i - Len(s)]
  BY ConcatProperties
<1> HIDE DEF u
<1>2. ASSUME NEW i \in 1..Len(u)
      PROVE  \/ i \in 1..Len(s) /\ u[i] = s[i]
             \/ i > Len(s) /\ i - Len(s) \in 1..Len(t) /\ u[i] = t[i - Len(s)]
  <2>1. CASE i <= Len(s)
    BY <1>1, <2>1
  <2>2. CASE ~(i <= Len(s))
    BY <1>1, <2>2
  <2> QED
    BY <2>1, <2>2
<1>3. \A i \in 1..Len(s) : i \in 1..Len(u) /\ u[i] = s[i]
  BY <1>1
<1>4. ASSUME NEW i \in 1..Len(t) PROVE Len(s) + i \in 1..Len(u) /\ u[Len(s) + i] = t[i]
  <2>1. Len(s) + i \in 1..Len(s) + Len(t) /\ ~(Len(s) + i <= Len(s)) /\ (Len(s) + i) - Len(s) = i
    BY <1>1
  <2> QED
    BY <1>1, <2>1
<1> QED
  BY <1>1, <1>2, <1>3, <1>4 DEF u

(* The rules stand while the walk runs.                                      *)
LEMMA RulesStand ==
    ASSUME UNCHANGED <<gitignore, avignored, defaults, walkRoot>>
    PROVE  /\ \A f : Seen(f)' <=> Seen(f)
           /\ \A d : Entered(d)' <=> Entered(d)
<1>1. gitignore' = gitignore /\ avignored' = avignored /\ defaults' = defaults /\ walkRoot' = walkRoot
  OBVIOUS
<1>2. /\ \A p, b : TakenOut(p, b)' <=> TakenOut(p, b)
      /\ \A p, b : IsGitignored(p, b)' = IsGitignored(p, b)
  BY <1>1, Zenon DEF TakenOut, IsGitignored
<1>3. ASSUME NEW f PROVE Seen(f)' <=> Seen(f)
  <2> DEFINE Clean(i, w) ==
        LET isDir == i < Len(f)
        IN  /\ ~w
            /\ f[i] \notin avignored
            /\ f[i] \notin (IF ~isDir THEN Noise
                            ELSE HardIgnored \union (IF defaults THEN DefaultIgnored ELSE {}))
  <2>1. \A i, w : Clean(i, w)' <=> Clean(i, w)
    BY <1>1
  <2> QED
    BY <1>1, <1>2 DEF Seen
<1>4. ASSUME NEW q PROVE KeepsDir(q)' <=> KeepsDir(q)
  <2>1. SkippedByName(Last(q))' <=> SkippedByName(Last(q))
    BY <1>1 DEF SkippedByName
  <2>2. MatchesAvignore(Last(q))' <=> MatchesAvignore(Last(q))
    BY <1>1 DEF MatchesAvignore
  <2>3. IsGitignored(q, TRUE)' = IsGitignored(q, TRUE)
    BY <1>2
  <2> QED
    BY <2>1, <2>2, <2>3, Zenon DEF KeepsDir
<1>5. ASSUME NEW d PROVE Entered(d)' <=> Entered(d)
  BY <1>1, <1>4 DEF Entered
<1> QED
  BY <1>3, <1>5

LEMMA EnteredFurther ==
    ASSUME walkRoot \in Seq(Nat), NEW d \in Seq(Nat), NEW x \in Nat, Entered(d), KeepsDir(Append(d, x))
    PROVE  Entered(Append(d, x))
<1> DEFINE a == Append(d, x)
<1>1. /\ a \in Seq(Nat) /\ Len(a) = Len(d) + 1 /\ Len(d) \in Nat /\ Len(walkRoot) \in Nat
      /\ \A i \in 1..Len(d) : a[i] = d[i]
      /\ \A i \in 1..Len(d) : SubSeq(a, 1, i) = SubSeq(d, 1, i)
  BY OneMore
<1>2. KeepsDir(a)
  OBVIOUS
<1> HIDE DEF a
<1>3. Len(walkRoot) <= Len(d) /\ \A i \in 1..Len(walkRoot) : d[i] = walkRoot[i]
  BY DEF Entered
<1>4. Len(walkRoot) <= Len(a) /\ \A i \in 1..Len(walkRoot) : a[i] = walkRoot[i]
  BY <1>1, <1>3
<1>5. ASSUME NEW i \in Len(walkRoot) + 1..Len(a) PROVE KeepsDir(SubSeq(a, 1, i))
  <2>1. CASE i = Len(a)
    <3>1. SubSeq(a, 1, Len(a)) = a
      BY <1>1
    <3> QED
      BY <1>2, <2>1, <3>1
  <2>2. CASE i # Len(a)
    <3>1. i \in Len(walkRoot) + 1..Len(d) /\ i \in 1..Len(d)
      BY <1>1, <2>2
    <3>2. KeepsDir(SubSeq(d, 1, i))
      BY <3>1 DEF Entered
    <3>3. SubSeq(a, 1, i) = SubSeq(d, 1, i)
      BY <1>1, <3>1
    <3> QED
      BY <3>2, <3>3
  <2> QED
    BY <2>1, <2>2
<1>6. Entered(a)
  BY <1>4, <1>5 DEF Entered
<1> QED
  BY <1>6 DEF a

LEMMA SeenInside ==
    ASSUME gitignore \in Seq(GitLine), walkRoot \in Seq(Nat), NEW d \in Seq(Nat), NEW x \in Nat,
           Entered(d), Append(d, x) \in TreeFile, KeepsFile(Append(d, x))
    PROVE  Seen(Append(d, x))
<1> DEFINE a == Append(d, x)
<1>1. /\ a \in Seq(Nat) /\ Len(a) = Len(d) + 1 /\ Len(d) \in Nat /\ Len(walkRoot) \in Nat
      /\ \A i \in 1..Len(d) : a[i] = d[i]
      /\ \A i \in 1..Len(d) : SubSeq(a, 1, i) = SubSeq(d, 1, i)
  BY OneMore
<1>2. a \in TreeFile /\ KeepsFile(a)
  OBVIOUS
<1> HIDE DEF a
<1>3. Len(walkRoot) <= Len(d) /\ \A i \in 1..Len(walkRoot) : d[i] = walkRoot[i]
  BY DEF Entered
<1>4. LiesIn(a, walkRoot)
  BY <1>1, <1>3 DEF LiesIn
<1>5. ASSUME NEW i \in Len(walkRoot) + 1..Len(a) - 1 PROVE KeepsDir(SubSeq(a, 1, i))
  <2>1. i \in Len(walkRoot) + 1..Len(d) /\ i \in 1..Len(d)
    BY <1>1
  <2>2. KeepsDir(SubSeq(d, 1, i))
    BY <2>1 DEF Entered
  <2>3. SubSeq(a, 1, i) = SubSeq(d, 1, i)
    BY <1>1, <2>1
  <2> QED
    BY <2>2, <2>3
<1>6. Seen(a)
  BY <1>2, <1>4, <1>5, SeenIsKept
<1> QED
  BY <1>6 DEF a

LEMMA WalkStart == WalkInit => WalkInv
<1> SUFFICES ASSUME WalkInit PROVE WalkInv
  OBVIOUS
<1>1. gitignore \in Seq(GitLine)
  <2>1. PICK n \in 0..MaxGitLines : gitignore \in [1..n -> GitLine]
    BY DEF WalkInit
  <2>2. n \in Nat
    BY IgnoreAssumption
  <2> QED
    BY <2>1, <2>2
<1>2. walkRoot \in Seq(Nat)
  BY IgnoreAssumption DEF WalkInit
<1>3. /\ pending \in Seq(Seq(Nat)) /\ Len(pending) = 1 /\ pending[1] = walkRoot
      /\ yielded \in Seq(TreeFile) /\ Len(yielded) = 0
  BY <1>2 DEF WalkInit
<1>4. Entered(walkRoot)
  <2>1. Len(walkRoot) \in Nat
    BY <1>2
  <2>2. Len(walkRoot) + 1..Len(walkRoot) = {}
    BY <2>1
  <2> QED
    BY <2>1, <2>2 DEF Entered
<1>5. \A f \in TreeFile : Seen(f) => LiesIn(f, walkRoot)
  BY <1>1, <1>2, SeenIsKept
<1>6. 1..Len(pending) = {1} /\ 1..Len(yielded) = {}
  BY <1>3
<1>7. \A i, j \in 1..Len(pending) : ~(i < j)
  BY <1>6
<1>8. Range(pending) = {walkRoot} /\ Range(yielded) = {}
  BY <1>3, <1>6 DEF Range
<1> QED
  BY <1>1, <1>2, <1>3, <1>4, <1>5, <1>6, <1>7, <1>8 DEF WalkInv

LEMMA ListingKeeps == ASSUME WalkInv, ListDirectory PROVE WalkInv'
<1> DEFINE dir == Head(pending)
           R == Tail(pending)
<1>1. /\ gitignore \in Seq(GitLine) /\ walkRoot \in Seq(Nat)
      /\ pending \in Seq(Seq(Nat)) /\ yielded \in Seq(TreeFile)
  BY DEF WalkInv
<1>2. pending # <<>> /\ dir \in Seq(Nat)
  BY <1>1, OneListing
<1>3. PICK ds \in Seq(Nat), fs \in Seq(Nat) :
           /\ Range(ds) = {d \in DirsIn(dir) : KeepsDir(Append(dir, d))}
           /\ Range(fs) = {f \in FilesIn(dir) : KeepsFile(Append(dir, f))}
           /\ Ascending(ds) /\ Ascending(fs)
           /\ pending' = [i \in DOMAIN ds |-> Append(dir, ds[i])] \o R
           /\ yielded' = yielded \o [i \in DOMAIN fs |-> Append(dir, fs[i])]
  BY <1>1, OneListing
<1> DEFINE A == [i \in DOMAIN ds |-> Append(dir, ds[i])]
           B == [i \in DOMAIN fs |-> Append(dir, fs[i])]
<1>4. /\ pending[1] = dir /\ 1 \in 1..Len(pending)
      /\ R \in Seq(Seq(Nat)) /\ Len(pending) \in Nat
      /\ \A i \in 1..Len(R) : i + 1 \in 1..Len(pending) /\ 1 < i + 1 /\ R[i] = pending[i + 1]
      /\ \A i \in 1..Len(pending) : i # 1 => i - 1 \in 1..Len(R) /\ R[i - 1] = pending[i]
  <2>1. Len(pending) \in Nat /\ Len(pending) # 0
    BY <1>1, <1>2, EmptySeq
  <2>2. R \in Seq(Seq(Nat)) /\ Len(R) = Len(pending) - 1 /\ \A i \in 1..Len(R) : R[i] = pending[i + 1]
    BY <1>1, <1>2, HeadTailProperties
  <2>3. pending[1] = dir
    BY <1>1, <1>2
  <2> HIDE DEF R, dir
  <2>4. ASSUME NEW i \in 1..Len(pending), i # 1 PROVE i - 1 \in 1..Len(R) /\ R[i - 1] = pending[i]
    <3>1. i - 1 \in 1..Len(R) /\ (i - 1) + 1 = i
      BY <2>1, <2>2, <2>4
    <3> QED
      BY <2>2, <3>1
  <2> QED
    BY <2>1, <2>2, <2>3, <2>4
<1> HIDE DEF dir, R
<1>5. /\ Len(ds) \in Nat /\ DOMAIN ds = 1..Len(ds) /\ \A i \in 1..Len(ds) : ds[i] \in Nat
      /\ Len(fs) \in Nat /\ DOMAIN fs = 1..Len(fs) /\ \A i \in 1..Len(fs) : fs[i] \in Nat
  OBVIOUS
<1>6. /\ A \in Seq(Seq(Nat)) /\ Len(A) = Len(ds)
      /\ \A i \in 1..Len(A) : A[i] = Append(dir, ds[i])
  <2>1. \A i \in 1..Len(ds) : Append(dir, ds[i]) \in Seq(Nat)
    BY <1>2, <1>5, OneMore
  <2>2. A \in [1..Len(ds) -> Seq(Nat)]
    BY <1>5, <2>1
  <2>3. A \in Seq(Seq(Nat)) /\ Len(A) = Len(ds)
    BY <1>5, <2>2
  <2> QED
    BY <1>5, <2>3
<1>7. \A i \in 1..Len(B) : fs[i] \in FilesIn(dir) /\ KeepsFile(Append(dir, fs[i]))
  <2>1. DOMAIN B = 1..Len(fs) /\ Len(B) = Len(fs)
    BY <1>5
  <2>2. \A i \in 1..Len(fs) : fs[i] \in Range(fs)
    BY <1>5 DEF Range
  <2> QED
    BY <1>3, <2>1, <2>2
<1>8. /\ B \in Seq(TreeFile) /\ Len(B) = Len(fs)
      /\ \A i \in 1..Len(B) : B[i] = Append(dir, fs[i]) /\ B[i] \in TreeFile /\ KeepsFile(B[i])
  <2>1. DOMAIN B = 1..Len(fs) /\ Len(B) = Len(fs)
    BY <1>5
  <2>2. \A i \in 1..Len(fs) : B[i] = Append(dir, fs[i])
    BY <1>5
  <2> HIDE DEF B
  <2>3. \A i \in 1..Len(fs) : Append(dir, fs[i]) \in TreeFile /\ KeepsFile(Append(dir, fs[i]))
    BY <1>2, <1>7, <2>1, ListedFile
  <2>4. B = [i \in 1..Len(fs) |-> B[i]]
    BY <1>5, Zenon DEF B
  <2>5. B \in [1..Len(fs) -> TreeFile]
    BY <2>2, <2>3, <2>4
  <2>6. B \in Seq(TreeFile)
    BY <1>5, <2>5
  <2> QED
    BY <2>1, <2>2, <2>3, <2>6
<1>9. \A i \in 1..Len(A) : KeepsDir(A[i]) /\ ds[i] \in Nat
  <2>1. \A i \in 1..Len(ds) : ds[i] \in Range(ds)
    BY <1>5 DEF Range
  <2> HIDE DEF A
  <2> QED
    BY <1>3, <1>5, <1>6, <2>1
<1>10. pending' = A \o R /\ yielded' = yielded \o B
  BY <1>3
<1>11. /\ \A i, j \in 1..Len(A) : i < j => ds[i] < ds[j]
       /\ \A i, j \in 1..Len(B) : i < j => fs[i] < fs[j]
  BY <1>3, <1>5, <1>6, <1>8 DEF Ascending
<1> HIDE DEF A, B
<1>12. /\ pending' \in Seq(Seq(Nat)) /\ Len(A) \in Nat /\ Len(R) \in Nat
       /\ \A i \in 1..Len(pending') :
             \/ i \in 1..Len(A) /\ pending'[i] = A[i]
             \/ i > Len(A) /\ i - Len(A) \in 1..Len(R) /\ pending'[i] = R[i - Len(A)]
       /\ \A i \in 1..Len(A) : i \in 1..Len(pending') /\ pending'[i] = A[i]
       /\ \A i \in 1..Len(R) : Len(A) + i \in 1..Len(pending') /\ pending'[Len(A) + i] = R[i]
  <2>1. A \in Seq(Seq(Nat)) /\ R \in Seq(Seq(Nat)) /\ pending' = A \o R
    BY <1>4, <1>6, <1>10
  <2> QED
    BY <2>1, Joined
<1>13. /\ yielded' \in Seq(TreeFile) /\ Len(yielded) \in Nat /\ Len(B) \in Nat
       /\ \A i \in 1..Len(yielded') :
             \/ i \in 1..Len(yielded) /\ yielded'[i] = yielded[i]
             \/ i > Len(yielded) /\ i - Len(yielded) \in 1..Len(B) /\ yielded'[i] = B[i - Len(yielded)]
       /\ \A i \in 1..Len(yielded) : i \in 1..Len(yielded') /\ yielded'[i] = yielded[i]
       /\ \A i \in 1..Len(B) : Len(yielded) + i \in 1..Len(yielded') /\ yielded'[Len(yielded) + i] = B[i]
  <2>1. yielded \in Seq(TreeFile) /\ B \in Seq(TreeFile) /\ yielded' = yielded \o B
    BY <1>1, <1>8, <1>10
  <2> QED
    BY <2>1, Joined
<1>14. UNCHANGED <<gitignore, avignored, defaults, walkRoot>>
  BY DEF ListDirectory
<1>15. (\A f : Seen(f)' <=> Seen(f)) /\ (\A d : Entered(d)' <=> Entered(d))
  BY <1>14, RulesStand
<1>16. \A i \in 1..Len(yielded) : yielded[i] \in Seq(Nat)
  BY <1>1, TreeFiles
<1>17. Entered(dir)
  <2>1. dir \in Range(pending)
    BY <1>1, <1>4 DEF Range
  <2> QED
    BY <2>1 DEF WalkInv
<1>18. /\ \A d : d \in Range(pending') <=> \E i \in 1..Len(pending') : pending'[i] = d
       /\ \A f : f \in Range(yielded') <=> \E i \in 1..Len(yielded') : yielded'[i] = f
       /\ \A d : d \in Range(pending) <=> \E i \in 1..Len(pending) : pending[i] = d
       /\ \A f : f \in Range(yielded) <=> \E i \in 1..Len(yielded) : yielded[i] = f
  <2>1. pending' \in Seq(Seq(Nat)) /\ yielded' \in Seq(TreeFile)
    BY <1>12, <1>13
  <2>2. \A d : d \in Range(pending') <=> \E i \in 1..Len(pending') : pending'[i] = d
    BY <2>1, HasElement
  <2>3. \A f : f \in Range(yielded') <=> \E i \in 1..Len(yielded') : yielded'[i] = f
    BY <2>1, HasElement
  <2>4. \A d : d \in Range(pending) <=> \E i \in 1..Len(pending) : pending[i] = d
    BY <1>1, HasElement
  <2>5. \A f : f \in Range(yielded) <=> \E i \in 1..Len(yielded) : yielded[i] = f
    BY <1>1, HasElement
  <2> QED
    BY <2>2, <2>3, <2>4, <2>5
<1>19. ASSUME NEW k \in 1..Len(pending), 1 < k PROVE Parted(dir, pending[k]) /\ pending[k] \in Seq(Nat)
  <2>1. Parted(pending[1], pending[k])
    BY <1>4, <1>19 DEF WalkInv
  <2>2. pending[k] \in Seq(Nat)
    BY <1>1, ElementOfSeq
  <2> QED
    BY <1>4, <2>1, <2>2
<1>20. ASSUME NEW i \in 1..Len(pending') PROVE Entered(pending'[i])
  <2>1. CASE i \in 1..Len(A) /\ pending'[i] = A[i]
    <3>1. A[i] = Append(dir, ds[i]) /\ ds[i] \in Nat /\ KeepsDir(A[i])
      BY <1>6, <1>9, <2>1
    <3>2. Entered(Append(dir, ds[i]))
      BY <1>1, <1>2, <1>17, <3>1, EnteredFurther
    <3> QED
      BY <2>1, <3>1, <3>2
  <2>2. CASE i > Len(A) /\ i - Len(A) \in 1..Len(R) /\ pending'[i] = R[i - Len(A)]
    <3>1. pending'[i] = pending[i - Len(A) + 1] /\ i - Len(A) + 1 \in 1..Len(pending)
      BY <1>4, <2>2
    <3>2. pending'[i] \in Range(pending)
      BY <1>18, <3>1
    <3> QED
      BY <3>2 DEF WalkInv
  <2> QED
    BY <1>12, <2>1, <2>2
<1>21. ASSUME NEW i \in 1..Len(pending'), NEW j \in 1..Len(pending'), i < j
       PROVE  Parted(pending'[i], pending'[j])
  <2>1. CASE j \in 1..Len(A) /\ pending'[j] = A[j]
    <3>1. i \in 1..Len(A) /\ pending'[i] = A[i]
      BY <1>12, <1>21, <2>1
    <3>2. ds[i] < ds[j] /\ ds[i] \in Nat /\ ds[j] \in Nat
      BY <1>9, <1>11, <1>21, <2>1, <3>1
    <3>3. Parted(Append(dir, ds[i]), Append(dir, ds[j]))
      BY <1>2, <3>2, SideBySide
    <3> QED
      BY <1>6, <2>1, <3>1, <3>3
  <2>2. CASE j > Len(A) /\ j - Len(A) \in 1..Len(R) /\ pending'[j] = R[j - Len(A)]
    <3>1. pending'[j] = pending[j - Len(A) + 1] /\ j - Len(A) + 1 \in 1..Len(pending) /\ 1 < j - Len(A) + 1
      BY <1>4, <2>2
    <3>2. CASE i \in 1..Len(A) /\ pending'[i] = A[i]
      <4>1. Parted(dir, pending'[j]) /\ pending'[j] \in Seq(Nat)
        BY <1>19, <3>1
      <4>2. pending'[i] = Append(dir, ds[i]) /\ ds[i] \in Nat
        BY <1>6, <1>9, <3>2
      <4> QED
        BY <1>2, <4>1, <4>2, PartedBelow
    <3>3. CASE i > Len(A) /\ i - Len(A) \in 1..Len(R) /\ pending'[i] = R[i - Len(A)]
      <4>1. pending'[i] = pending[i - Len(A) + 1] /\ i - Len(A) + 1 \in 1..Len(pending)
        BY <1>4, <3>3
      <4>2. i - Len(A) + 1 < j - Len(A) + 1
        BY <1>12, <1>21
      <4> QED
        BY <3>1, <4>1, <4>2 DEF WalkInv
    <3> QED
      BY <1>12, <3>2, <3>3
  <2> QED
    BY <1>12, <2>1, <2>2
<1>22. ASSUME NEW i \in 1..Len(yielded'), NEW j \in 1..Len(yielded'), i < j
       PROVE  Precedes(yielded'[i], yielded'[j])
  <2>1. CASE j \in 1..Len(yielded) /\ yielded'[j] = yielded[j]
    <3>1. i \in 1..Len(yielded) /\ yielded'[i] = yielded[i]
      BY <1>13, <1>22, <2>1
    <3> QED
      BY <1>22, <2>1, <3>1 DEF WalkInv
  <2>2. CASE j > Len(yielded) /\ j - Len(yielded) \in 1..Len(B) /\ yielded'[j] = B[j - Len(yielded)]
    <3> DEFINE l == j - Len(yielded)
    <3>1. yielded'[j] = Append(dir, fs[l]) /\ l \in 1..Len(B) /\ fs[l] \in Nat
      BY <1>5, <1>8, <2>2
    <3>2. CASE i \in 1..Len(yielded) /\ yielded'[i] = yielded[i]
      <4>1. Ahead(yielded[i], dir) /\ yielded[i] \in Seq(Nat)
        BY <1>4, <1>16, <3>2 DEF WalkInv
      <4> QED
        BY <1>2, <3>1, <3>2, <4>1, AheadOfMore
    <3>3. CASE i > Len(yielded) /\ i - Len(yielded) \in 1..Len(B) /\ yielded'[i] = B[i - Len(yielded)]
      <4> DEFINE k == i - Len(yielded)
      <4>1. yielded'[i] = Append(dir, fs[k]) /\ k \in 1..Len(B) /\ fs[k] \in Nat
        BY <1>5, <1>8, <3>3
      <4>2. k < l
        BY <1>13, <1>22
      <4> HIDE DEF k, l
      <4>3. fs[k] < fs[l]
        BY <1>11, <3>1, <4>1, <4>2
      <4> QED
        BY <1>2, <3>1, <4>1, <4>3, SideBySide
    <3> QED
      BY <1>13, <3>2, <3>3
  <2> QED
    BY <1>13, <2>1, <2>2
<1>23. ASSUME NEW i \in 1..Len(yielded'), NEW j \in 1..Len(pending')
       PROVE  Ahead(yielded'[i], pending'[j])
  <2>1. CASE i \in 1..Len(yielded) /\ yielded'[i] = yielded[i]
    <3>1. yielded[i] \in Seq(Nat) /\ \A k \in 1..Len(pending) : Ahead(yielded[i], pending[k])
      BY <1>16, <2>1 DEF WalkInv
    <3>2. CASE j \in 1..Len(A) /\ pending'[j] = A[j]
      <4>1. pending'[j] = Append(dir, ds[j]) /\ ds[j] \in Nat /\ Ahead(yielded[i], dir)
        BY <1>4, <1>6, <1>9, <3>1, <3>2
      <4> QED
        BY <1>2, <2>1, <3>1, <4>1, AheadOfMore
    <3>3. CASE j > Len(A) /\ j - Len(A) \in 1..Len(R) /\ pending'[j] = R[j - Len(A)]
      <4>1. R[j - Len(A)] = pending[j - Len(A) + 1] /\ j - Len(A) + 1 \in 1..Len(pending)
        BY <1>1, <1>4, <3>3
      <4>2. Ahead(yielded[i], pending[j - Len(A) + 1])
        BY <3>1, <4>1
      <4> QED
        BY <2>1, <3>3, <4>1, <4>2
    <3> QED
      BY <1>12, <3>2, <3>3
  <2>2. CASE i > Len(yielded) /\ i - Len(yielded) \in 1..Len(B) /\ yielded'[i] = B[i - Len(yielded)]
    <3> DEFINE k == i - Len(yielded)
    <3>1. yielded'[i] = Append(dir, fs[k]) /\ fs[k] \in Nat
      BY <1>5, <1>8, <2>2
    <3> HIDE DEF k
    <3>2. CASE j \in 1..Len(A) /\ pending'[j] = A[j]
      <4>1. pending'[j] = Append(dir, ds[j]) /\ ds[j] \in Nat
        BY <1>6, <1>9, <3>2
      <4> QED
        BY <1>2, <3>1, <4>1, SideBySide
    <3>3. CASE j > Len(A) /\ j - Len(A) \in 1..Len(R) /\ pending'[j] = R[j - Len(A)]
      <4>1. /\ pending'[j] = pending[j - Len(A) + 1] /\ j - Len(A) + 1 \in 1..Len(pending)
            /\ 1 < j - Len(A) + 1
        BY <1>4, <3>3
      <4>2. Parted(dir, pending'[j]) /\ pending'[j] \in Seq(Nat)
        BY <1>19, <4>1
      <4> QED
        BY <1>2, <3>1, <4>2, PartedBelow
    <3> QED
      BY <1>12, <3>2, <3>3
  <2> QED
    BY <1>13, <2>1, <2>2
<1>24. ASSUME NEW i \in 1..Len(yielded') PROVE Seen(yielded'[i])
  <2>1. CASE i \in 1..Len(yielded) /\ yielded'[i] = yielded[i]
    <3>1. yielded'[i] \in Range(yielded)
      BY <1>18, <2>1
    <3> QED
      BY <3>1 DEF WalkInv
  <2>2. CASE i > Len(yielded) /\ i - Len(yielded) \in 1..Len(B) /\ yielded'[i] = B[i - Len(yielded)]
    <3> DEFINE k == i - Len(yielded)
    <3>1. /\ yielded'[i] = Append(dir, fs[k]) /\ fs[k] \in Nat
          /\ Append(dir, fs[k]) \in TreeFile /\ KeepsFile(Append(dir, fs[k]))
      BY <1>5, <1>8, <2>2
    <3> HIDE DEF k
    <3>2. Seen(Append(dir, fs[k]))
      BY <1>1, <1>2, <1>17, <3>1, SeenInside
    <3> QED
      BY <3>1, <3>2
  <2> QED
    BY <1>13, <2>1, <2>2
<1>25. ASSUME NEW f \in TreeFile, Seen(f)
       PROVE  \/ \E i \in 1..Len(yielded') : yielded'[i] = f
              \/ \E i \in 1..Len(pending') : LiesIn(f, pending'[i])
  <2>1. CASE \E i \in 1..Len(yielded) : yielded[i] = f
    BY <1>13, <2>1
  <2>2. ASSUME NEW i \in 1..Len(pending), LiesIn(f, pending[i]), i # 1
        PROVE  \E j \in 1..Len(pending') : LiesIn(f, pending'[j])
    <3>1. i - 1 \in 1..Len(R) /\ R[i - 1] = pending[i]
      BY <1>4, <2>2
    <3>2. Len(A) + (i - 1) \in 1..Len(pending') /\ pending'[Len(A) + (i - 1)] = pending[i]
      BY <1>12, <3>1
    <3> QED
      BY <2>2, <3>2
  <2>3. ASSUME LiesIn(f, dir)
        PROVE  \/ \E i \in 1..Len(yielded') : yielded'[i] = f
               \/ \E i \in 1..Len(pending') : LiesIn(f, pending'[i])
    <3>1. /\ KeepsFile(f)
          /\ \A i \in Len(walkRoot) + 1..Len(f) - 1 : KeepsDir(SubSeq(f, 1, i))
      BY <1>1, <1>25, SeenIsKept
    <3>2. CASE Len(f) = Len(dir) + 1 /\ Last(f) \in FilesIn(dir) /\ Append(dir, Last(f)) = f
      <4>1. Last(f) \in Range(fs)
        BY <1>3, <3>1, <3>2
      <4>2. PICK i \in 1..Len(fs) : fs[i] = Last(f)
        BY <1>5, <4>1 DEF Range
      <4>3. i \in 1..Len(B) /\ B[i] = f
        BY <1>8, <3>2, <4>2
      <4> QED
        BY <1>13, <4>3
    <3>3. CASE /\ Len(f) > Len(dir) + 1 /\ f[Len(dir) + 1] \in DirsIn(dir)
               /\ Append(dir, f[Len(dir) + 1]) = SubSeq(f, 1, Len(dir) + 1)
               /\ LiesIn(f, Append(dir, f[Len(dir) + 1]))
      <4> DEFINE x == f[Len(dir) + 1]
      <4>1. Len(dir) + 1 \in Len(walkRoot) + 1..Len(f) - 1
        <5>1. Len(dir) \in Nat /\ Len(walkRoot) \in Nat /\ Len(f) \in Nat /\ Len(walkRoot) <= Len(dir)
          BY <1>1, <1>2, <1>17, TreeFiles DEF Entered
        <5> QED
          BY <3>3, <5>1
      <4>2. x \in DirsIn(dir) /\ KeepsDir(Append(dir, x)) /\ LiesIn(f, Append(dir, x))
        BY <3>1, <3>3, <4>1
      <4> HIDE DEF x
      <4>3. x \in Range(ds)
        BY <1>3, <4>2
      <4>4. PICK i \in 1..Len(ds) : ds[i] = x
        BY <1>5, <4>3 DEF Range
      <4>5. i \in 1..Len(A) /\ A[i] = Append(dir, x)
        BY <1>6, <4>4
      <4>6. i \in 1..Len(pending') /\ pending'[i] = Append(dir, x)
        BY <1>12, <4>5
      <4> QED
        BY <4>2, <4>6
    <3> QED
      BY <1>2, <2>3, <3>2, <3>3, BelowIsListed
  <2>4. \/ \E i \in 1..Len(yielded) : yielded[i] = f
        \/ \E i \in 1..Len(pending) : LiesIn(f, pending[i])
    BY <1>25, <1>18 DEF WalkInv
  <2> QED
    BY <1>4, <2>1, <2>2, <2>3, <2>4
<1>26. gitignore' \in Seq(GitLine) /\ walkRoot' \in Seq(Nat)
  BY <1>1, <1>14
<1>27. \A d \in Range(pending') : Entered(d)'
  BY <1>15, <1>20, <1>18
<1>28. \A f \in Range(yielded') : Seen(f)'
  BY <1>15, <1>24, <1>18
<1>29. \A f \in TreeFile : Seen(f)' => \/ f \in Range(yielded')
                                      \/ \E i \in 1..Len(pending') : LiesIn(f, pending'[i])
  BY <1>15, <1>25, <1>18
<1> QED
  BY <1>12, <1>13, <1>21, <1>22, <1>23, <1>26, <1>27, <1>28, <1>29 DEF WalkInv

LEMMA WalkHolds == WalkSpec => []WalkInv
<1>1. WalkInv /\ [WalkNext]_walkVars => WalkInv'
  <2> SUFFICES ASSUME WalkInv, [WalkNext]_walkVars PROVE WalkInv'
    OBVIOUS
  <2>1. CASE ListDirectory
    BY <2>1, ListingKeeps
  <2>2. CASE UNCHANGED walkVars
    <3>1. (\A f : Seen(f)' <=> Seen(f)) /\ (\A d : Entered(d)' <=> Entered(d))
      BY <2>2, RulesStand DEF walkVars
    <3> QED
      BY <2>2, <3>1 DEF walkVars, WalkInv
  <2> QED
    BY <2>1, <2>2 DEF WalkNext
<1> QED
  BY <1>1, WalkStart, PTL DEF WalkSpec

LEMMA WalkKept == WalkInv => WalkIsTheRules
<1> SUFFICES ASSUME WalkInv PROVE WalkIsTheRules
  OBVIOUS
<1>1. yielded \in Seq(TreeFile) /\ DOMAIN yielded = 1..Len(yielded)
  BY DEF WalkInv
<1>2. \A i, j \in DOMAIN yielded : i < j => Precedes(yielded[i], yielded[j])
  BY <1>1 DEF WalkInv
<1>3. ASSUME pending = <<>> PROVE ToSet(yielded) = {f \in TreeFile : Seen(f)}
  <2>1. 1..Len(pending) = {}
    BY <1>3
  <2>2. Range(yielded) = ToSet(yielded) /\ \A f \in Range(yielded) : f \in TreeFile
    BY <1>1 DEF Range, ToSet
  <2>3. \A f \in Range(yielded) : Seen(f)
    BY DEF WalkInv
  <2>4. \A f \in TreeFile : Seen(f) => f \in Range(yielded)
    BY <2>1 DEF WalkInv
  <2> QED
    BY <2>2, <2>3, <2>4
<1> QED
  BY <1>2, <1>3 DEF WalkIsTheRules

(* Whatever files there are, whatever .gitignore, .avignore and the defaults *)
(* say, and in whatever order directories are listed, the walk gives the     *)
(* files that the rules leave, each once and all in one order                *)
(* (iter_working_files, _is_gitignored, _glob_segments_match, core.py).      *)
THEOREM WalkFollowsTheRules == WalkSpec => []WalkIsTheRules
<1> QED
  BY WalkHolds, WalkKept, PTL

=============================================================================
