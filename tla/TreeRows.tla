------------------------------- MODULE TreeRows -------------------------------
(***************************************************************************)
(* The trees of commits: flat in the client (path -> entry), one row per   *)
(* entry of a directory in the registry (build_merkle_tree, resolve_trees, *)
(* server.py), and flat again for whoever asks. Both sides summarise what  *)
(* changed between two trees, each with its own code (semdiff.py,          *)
(* _summarize_tree_diff). The hash of a directory, which covers all that   *)
(* is in it, is modelled as that content: the files below it.              *)
(***************************************************************************)
EXTENDS Integers, Sequences, FiniteSets, SequencesExt, Functions

CONSTANTS
    TreePath,              \* sequences of names
    RowEntry,             \* [hash, size, layers, chunks]: what may be staged at a path
    SizeOf,            \* [part -> Nat]
    LegacyName,        \* the names that mark a tree of the old format: "code", "artifacts"
    Dataset,           \* the paths that are of a dataset, by their name
    AV_ANOMALY_MASS_REWRITE_FILES,
    MaxTreeDepth,      \* bound: the names of the longest path
    MaxTreeCommits, MaxTreeEdits

VARIABLES
    treeIndex,  \* path -> entry: .av/index, and the working tree while it is clean
    at,         \* HEAD: an index into log, 0 before the first commit
    log,        \* Seq([tree, parent]): the local commits, in the order of the push queue
    rows,       \* the rows of the registry, [tree, name, blob, child]
    roots,      \* root tree hashes of the commits the registry has, in push order
    refused,    \* the registry answered 500 to the first commit of the queue
    told,       \* commits whose push emitted a mass_rewrite event
    treeEdits   \* how many paths were staged or removed

treeVars == <<treeIndex, at, log, rows, roots, refused, told, treeEdits>>

-----------------------------------------------------------------------------
TreeName == UNION {Range(p) : p \in TreePath}

(* Entries have a hash, which the word for "no such path" is not.             *)
ASSUME TreeAssumption ==
    /\ MaxTreeDepth \in Nat \ {0} /\ MaxTreeCommits \in Nat /\ MaxTreeEdits \in Nat
    /\ TreePath \subseteq Seq(TreeName)
    /\ \A p \in TreePath : Len(p) \in 1..MaxTreeDepth
    /\ \A e \in RowEntry : e.hash # ""

NoTree == [p \in {} |-> CHOOSE e \in RowEntry : TRUE]
Put(tree, p, e) == [q \in DOMAIN tree \union {p} |-> IF q = p THEN e ELSE tree[q]]
Without(tree, ps) == [q \in DOMAIN tree \ ps |-> tree[q]]
Below(p, q) == Len(p) < Len(q) /\ IsPrefix(p, q)

(* build_merkle_tree: a path that is a file and the directory of another file *)
(* has no place in it.                                                        *)
Unbuildable(tree) == \E p, q \in DOMAIN tree : Below(p, q)
HasLegacyName(tree) == \E p \in DOMAIN tree : Len(p) = 1 /\ p[1] \in LegacyName

(* What lies below a directory, which stands for the directory's hash.        *)
Under(tree, dir) ==
    [q \in {SubSeq(p, Len(dir) + 1, Len(p)) : p \in {x \in DOMAIN tree : Below(dir, x)}}
       |-> tree[dir \o q]]
Directories(tree) ==
    UNION {{Under(tree, SubSeq(p, 1, n)) : n \in 0..Len(p) - 1} : p \in DOMAIN tree}

(* One entry of a directory: a file, or a directory in it.                    *)
Row(dir, name) == [tree |-> dir, name |-> name,
                   blob |-> IF <<name>> \in DOMAIN dir THEN {dir[<<name>>]} ELSE {},
                   child |-> Under(dir, <<name>>)]
RowsOf(tree) == UNION {{Row(dir, p[1]) : p \in DOMAIN dir} : dir \in Directories(tree)}

(* resolve_trees: one breadth-first walk for all the roots, with one query a  *)
(* level. The variant takes a directory that several roots reach for the      *)
(* first of them only.                                                        *)
Found(table, frontier) == {m \in frontier \X table : m[2].tree = m[1].tree}
Reached(m) == Append(m[1].path, m[2].name)
Subdirectories(found) == {[root |-> m[1].root, tree |-> m[2].child, path |-> Reached(m)] :
                            m \in {x \in found : x[2].blob = {}}}
NextFrontierOnce(found) == LET next == Subdirectories(found) IN
                           {CHOOSE s \in next : s.tree = t : t \in {s.tree : s \in next}}
NextFrontier(found) == Subdirectories(found)

(* The frontier of each level; the last is empty, since no path is deeper.    *)
Frontiers(table, wanted) ==
    LET frontier[n \in 0..MaxTreeDepth] ==
            IF n = 0 THEN {[root |-> t, tree |-> t, path |-> <<>>] : t \in wanted}
            ELSE NextFrontier(Found(table, frontier[n - 1]))
    IN  frontier

Files(found) == {[root |-> m[1].root, path |-> Reached(m), entry |-> m[2].blob] :
                   m \in {x \in found : x[2].blob # {}}}
ResolveTrees(table, wanted) ==
    LET frontier == Frontiers(table, wanted)
        files == UNION {Files(Found(table, frontier[n])) : n \in 0..MaxTreeDepth}
    IN  [t \in wanted |->
           LET mine == {l \in files : l.root = t} IN
           [p \in {l.path : l \in mine} |-> CHOOSE e \in RowEntry : \E l \in mine :
                                                l.path = p /\ e \in l.entry]]

-----------------------------------------------------------------------------
(* What the client says moved from one tree to the next (diff_trees).         *)
Size(parts) == SumFunction([x \in parts |-> SizeOf[x.hash]])
TotalSize(tree) == SumFunction([p \in DOMAIN tree |-> tree[p].size])
OldLayers(tree, p) == IF p \in DOMAIN tree THEN tree[p].layers ELSE {}
OldChunks(tree, p) == IF p \in DOMAIN tree THEN tree[p].chunks ELSE {}

DiffTrees(old, new) ==
    LET both == DOMAIN old \intersect DOMAIN new
        changed == {p \in both : old[p].hash # new[p].hash}
        Reused(p) == new[p].chunks \intersect OldChunks(old, p)
        New(p) == new[p].chunks \ OldChunks(old, p)
        Moved(p) == new[p].layers \ OldLayers(old, p)
    IN [added |-> DOMAIN new \ both, removed |-> DOMAIN old \ both, changed |-> changed,
        models |-> {[path |-> p, moved |-> Moved(p), bytes |-> Size(Moved(p)),
                     of |-> Size(new[p].layers)] : p \in {q \in DOMAIN new : new[q].layers # {}}},
        reused |-> SumFunction([p \in DOMAIN new |-> Cardinality(Reused(p))]),
        fresh |-> SumFunction([p \in DOMAIN new |-> Cardinality(New(p))]),
        reusedBytes |-> SumFunction([p \in DOMAIN new |-> Size(Reused(p))]),
        freshBytes |-> SumFunction([p \in DOMAIN new |-> Size(New(p))]),
        datasets |-> Dataset \intersect (changed \union (DOMAIN old \ both)),
        before |-> TotalSize(old), after |-> TotalSize(new)]

(* What the registry says, path by path over both trees, from what it         *)
(* resolved: a path that is not there has no hash, layers or chunks.          *)
AtPath(tree, p) == IF p \in DOMAIN tree THEN tree[p]
                   ELSE [hash |-> "", size |-> 0, layers |-> {}, chunks |-> {}]
SummarizeTreeDiff(old, new) ==
    LET all == DOMAIN old \union DOMAIN new
        Was(p) == AtPath(old, p)
        Is(p) == AtPath(new, p)
        added == DOMAIN new \ DOMAIN old
        Moved(p) == {l \in Is(p).layers : l \notin Was(p).layers}
        Summed(Of(_)) == SumFunction([p \in DOMAIN new |-> Of(p)])
    IN [added |-> added, removed |-> DOMAIN old \ DOMAIN new,
        changed |-> {p \in DOMAIN old \intersect DOMAIN new : Was(p).hash # Is(p).hash},
        models |-> {[path |-> p, moved |-> Moved(p), bytes |-> Size(Moved(p)),
                     of |-> Size(Is(p).layers)] : p \in {q \in all : Is(q).layers # {}}},
        reused |-> Summed(LAMBDA p : Cardinality(Is(p).chunks \intersect Was(p).chunks)),
        fresh |-> Summed(LAMBDA p : Cardinality(Is(p).chunks \ Was(p).chunks)),
        reusedBytes |-> Summed(LAMBDA p : Size(Is(p).chunks \intersect Was(p).chunks)),
        freshBytes |-> Summed(LAMBDA p : Size(Is(p).chunks \ Was(p).chunks)),
        datasets |-> {p \in (Dataset \intersect all) \ added : Was(p).hash # Is(p).hash},
        before |-> SumFunction([p \in DOMAIN old |-> old[p].size]),
        after |-> SumFunction([p \in DOMAIN new |-> new[p].size])]

-----------------------------------------------------------------------------
TreeInit ==
    /\ treeIndex = NoTree /\ at = 0 /\ log = <<>>
    /\ rows = {} /\ roots = <<>> /\ refused = FALSE /\ told = {}
    /\ treeEdits = 0

(* `av add` stages what is on disk, and forgets no path that is not there any *)
(* more; `av rm` removes a path, or every path below a directory.             *)
Add(p, e) ==
    /\ treeEdits < MaxTreeEdits /\ treeEdits' = treeEdits + 1
    /\ ~(p \in DOMAIN treeIndex /\ treeIndex[p] = e)
    /\ treeIndex' = Put(treeIndex, p, e)
    /\ UNCHANGED <<at, log, rows, roots, refused, told>>

RemovePath(p) ==
    /\ treeEdits < MaxTreeEdits /\ treeEdits' = treeEdits + 1
    /\ LET selected == {q \in DOMAIN treeIndex : q = p \/ Below(p, q)} IN
       selected # {} /\ treeIndex' = Without(treeIndex, selected)
    /\ UNCHANGED <<at, log, rows, roots, refused, told>>

TreeAt(k) == IF k = 0 THEN NoTree ELSE log[k].tree

Commit ==
    /\ Len(log) < MaxTreeCommits /\ treeIndex # TreeAt(at)
    /\ log' = Append(log, [tree |-> treeIndex, parent |-> at])
    /\ at' = Len(log) + 1
    /\ UNCHANGED <<treeIndex, rows, roots, refused, told, treeEdits>>

(* _materialize_tree over the clean files of `old`. A path of the new tree    *)
(* cannot be written below a file, or over a directory, of the old one, whose *)
(* files are removed last; and a tree with a file named as one of the parts   *)
(* of the old format is read as that format, where no file of it is found.    *)
CheckedOut(old, tree) ==
    IF HasLegacyName(tree) THEN NoTree
    ELSE Restrict(tree, {p \in DOMAIN tree :
             ~\E q \in DOMAIN old \union DOMAIN tree : Below(p, q) \/ Below(q, p)})

(* `av checkout`; one that fails half-way moves neither HEAD nor the index.   *)
Checkout(k) ==
    /\ treeIndex = TreeAt(at) /\ k # at
    /\ DOMAIN CheckedOut(treeIndex, log[k].tree) \in {DOMAIN log[k].tree, {}}
    /\ treeIndex' = CheckedOut(treeIndex, log[k].tree)
    /\ at' = k
    /\ UNCHANGED <<log, rows, roots, refused, told, treeEdits>>

-----------------------------------------------------------------------------
FilesMoved(summary) == Cardinality(summary.added) + Cardinality(summary.removed)
                       + Cardinality(summary.changed)

(* The detector compares a commit with its parent as the rows give both.      *)
MassRewrite(table, parent, root) ==
    LET Resolved(t) == ResolveTrees(table, {t})[t] IN
    FilesMoved(SummarizeTreeDiff(Resolved(parent), Resolved(root)))
        >= AV_ANOMALY_MASS_REWRITE_FILES

(* POST of the first commit of the queue: its rows, and the detector.         *)
Push ==
    /\ Len(roots) < Len(log) /\ ~refused
    /\ LET k == Len(roots) + 1
           tree == log[k].tree
           root == Under(tree, <<>>)
           parent == log[k].parent
       IN IF Unbuildable(tree) \/ HasLegacyName(tree)
          THEN refused' = TRUE /\ UNCHANGED <<rows, roots, told>>
          ELSE /\ rows' = rows \union RowsOf(tree)
               /\ roots' = Append(roots, root)
               /\ told' = IF parent # 0 /\ MassRewrite(rows', roots[parent], root)
                          THEN told \union {k} ELSE told
               /\ UNCHANGED refused
    /\ UNCHANGED <<treeIndex, at, log, treeEdits>>

TreeNext ==
    \/ \E p \in TreePath : RemovePath(p) \/ \E e \in RowEntry : Add(p, e)
    \/ Commit \/ Push
    \/ \E k \in 1..Len(log) : Checkout(k)

TreeSpec == TreeInit /\ [][TreeNext]_treeVars

-----------------------------------------------------------------------------
TreeTypeOK ==
    /\ DOMAIN treeIndex \subseteq TreePath /\ at \in 0..Len(log)
    /\ Len(roots) <= Len(log) /\ told \subseteq 1..Len(roots) /\ refused \in BOOLEAN

(* However many directories two commits share, one walk over the rows comes   *)
(* to an end and gives every commit on the page its own tree back, whole      *)
(* (resolve_trees).                                                           *)
TreesComeBack ==
    LET resolved == ResolveTrees(rows, Range(roots)) IN
    /\ Frontiers(rows, Range(roots))[MaxTreeDepth] = {}
    /\ \A k \in 1..Len(roots) : resolved[roots[k]] = log[k].tree

(* The summary the registry computes from its rows is the one the client      *)
(* computes from the commits, and a commit is reported as a mass rewrite      *)
(* exactly when that summary names as many files.                             *)
DiffsAgree ==
    \A k \in {j \in 1..Len(roots) : log[j].parent # 0} :
        LET parent == log[k].parent
            resolved == ResolveTrees(rows, {roots[k], roots[parent]})
            summary == DiffTrees(log[parent].tree, log[k].tree)
        IN /\ SummarizeTreeDiff(resolved[roots[parent]], resolved[roots[k]]) = summary
           /\ k \in told <=> FilesMoved(summary) >= AV_ANOMALY_MASS_REWRITE_FILES

(* The rows lose nothing: neither a commit's tree nor what a commit changed.  *)
RowsKeepTheTrees == TreesComeBack /\ DiffsAgree

(* "one atomic commit that checks out identically on any machine"             *)
(* (README.md:29): any commit, over any clean working tree.                   *)
EveryCommitChecksOut ==
    treeIndex = TreeAt(at) => \A k \in 1..Len(log) : CheckedOut(treeIndex, log[k].tree) = log[k].tree
=============================================================================
