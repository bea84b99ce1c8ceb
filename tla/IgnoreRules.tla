---------------------------- MODULE IgnoreRules ----------------------------
(***************************************************************************)
(* Which files of the working tree `av add`, `av status` and the rest see: *)
(* the walk of python/av_cli/core.py (iter_working_files) with .avignore,  *)
(* .gitignore and the directories it skips by itself. A directory that is  *)
(* ignored is not entered, so what a later line takes back inside it stays *)
(* unseen, as in git. The operating system lists a directory in any order. *)
(*                                                                         *)
(* A name is a number, in the order of sorted(); a path is a sequence of   *)
(* names from the root of the repository. A segment of a pattern is the    *)
(* set of names its glob matches, or AnySegments for `**`. The walk starts *)
(* inside the repository, and the tree stands still while it runs.         *)
(***************************************************************************)
EXTENDS Integers, Sequences, FiniteSets, SequencesExt

CONSTANTS TreeFile,         \* the paths of the files of the working tree
          WalkRoot,         \* the directories a walk may start from
          GitLine,          \* the lines that may stand in .gitignore
          MaxGitLines,      \* bound: lines of .gitignore
          NameGlobs,        \* the names the globs of .avignore may match
          HardIgnored,      \* _IGNORED_DIRS
          DefaultIgnored,   \* _DEFAULT_IGNORED_DIR_NAMES
          Noise,            \* names that end with .pyc or .av-pointer
          AnySegments

VARIABLES gitignore,   \* the lines of .gitignore
          avignored,   \* the names that a pattern of .avignore matches
          defaults,    \* AV_NO_DEFAULT_IGNORES is not set
          walkRoot,
          pending,     \* the directories still to be listed, in order
          yielded      \* the files the walk has given

walkVars == <<gitignore, avignored, defaults, walkRoot, pending, yielded>>

Segment == {AnySegments} \union SUBSET Nat

ASSUME IgnoreAssumption ==
    /\ IsFiniteSet(TreeFile) /\ TreeFile \subseteq Seq(Nat) \ {<<>>}
    /\ WalkRoot \subseteq Seq(Nat)
    /\ GitLine \subseteq [negate : BOOLEAN, lead : BOOLEAN, segments : Seq(Segment), trail : BOOLEAN]
    /\ MaxGitLines \in Nat

WalkInit ==
    /\ gitignore \in UNION {[1..n -> GitLine] : n \in 0..MaxGitLines}
    /\ avignored \in NameGlobs
    /\ defaults \in BOOLEAN
    /\ walkRoot \in WalkRoot
    /\ pending = <<walkRoot>>
    /\ yielded = <<>>

-----------------------------------------------------------------------------
(* The rules of .gitignore. *)

(* _parse_gitignore_lines: a line is [negate, lead, segments, trail], where  *)
(* lead and trail are the slashes before and after its segments. A line      *)
(* without segments (blank, a comment, a lone slash) is no rule.             *)
Rule(line) ==
    [negate |-> line.negate, dirOnly |-> line.trail, segments |-> line.segments,
     anchored |-> line.lead \/ Len(line.segments) > 1]
HasPattern(line) == line.segments # <<>>

GlobMatches(segment, name) == segment = AnySegments \/ name \in segment

(* Mutant: a trailing `**` also matches the directory before it. *)
SegmentsMatchEmpty(pattern, path) ==
    LET m == Len(pattern)
        n == Len(path)
        after[k \in 0..m] ==
            IF k = 0 THEN {n}
            ELSE IF pattern[m - k + 1] = AnySegments THEN {i \in 0..n : \E j \in after[k - 1] : i <= j}
            ELSE {i \in 0..n - 1 : path[i + 1] \in pattern[m - k + 1] /\ i + 1 \in after[k - 1]}
    IN  0 \in after[m]

(* _glob_segments_match: the last k segments match what is left of the path  *)
(* after i names when i is in after[k]; a trailing `**` needs one that is    *)
(* left.                                                                     *)
SegmentsMatch(pattern, path) ==
    LET m == Len(pattern)
        n == Len(path)
        after[k \in 0..m] ==
            IF k = 0 THEN {n}
            ELSE IF pattern[m - k + 1] = AnySegments
                 THEN IF k = 1 THEN 0..n - 1 ELSE {i \in 0..n : \E j \in after[k - 1] : i <= j}
            ELSE {i \in 0..n - 1 : path[i + 1] \in pattern[m - k + 1] /\ i + 1 \in after[k - 1]}
    IN  0 \in after[m]

RuleMatches(rule, path, isDir) ==
    /\ rule.dirOnly => isDir
    /\ IF rule.anchored THEN SegmentsMatch(rule.segments, path)
                        ELSE GlobMatches(rule.segments[1], Last(path))

(* The last rule that matches decides. *)
IsGitignored(path, isDir) ==
    LET Matches(line) == HasPattern(line) /\ RuleMatches(Rule(line), path, isDir)
        ignored[i \in 0..Len(gitignore)] ==
            IF i = 0 THEN FALSE
            ELSE IF Matches(gitignore[i]) THEN ~gitignore[i].negate ELSE ignored[i - 1]
    IN  ignored[Len(gitignore)]

-----------------------------------------------------------------------------
(* The walk. *)

Sorted(names) ==
    CHOOSE s \in SetToSeqs(Range(names)) : \A i, j \in DOMAIN s : i < j => s[i] < s[j]

MatchesAvignore(name) == name \in avignored
SkippedByName(name) == name \in HardIgnored \/ (defaults /\ name \in DefaultIgnored)

KeepsDir(path) ==
    /\ ~SkippedByName(Last(path)) /\ ~MatchesAvignore(Last(path))
    /\ ~IsGitignored(path, TRUE)

KeepsFile(path) ==
    /\ Last(path) \notin Noise /\ ~MatchesAvignore(Last(path))
    /\ ~IsGitignored(path, FALSE)

(* What a listing of a directory shows. *)
FilesIn(dir) == {Last(f) : f \in {g \in TreeFile : Front(g) = dir}}
DirsIn(dir) == {f[Len(dir) + 1] :
                    f \in {g \in TreeFile : Len(g) > Len(dir) + 1 /\ SubSeq(g, 1, Len(dir)) = dir}}

(* One turn of os.walk: the directory is listed in some order, its files are *)
(* given in theirs, and the directories that are kept come next.             *)
ListDirectory ==
    /\ pending # <<>>
    /\ LET dir == Head(pending)
           Inside(names) == [i \in DOMAIN names |-> Append(dir, names[i])]
           keptDirs == {d \in DirsIn(dir) : KeepsDir(Append(dir, d))}
           keptFiles == {f \in FilesIn(dir) : KeepsFile(Append(dir, f))}
       IN  \E dirs \in SetToSeqs(keptDirs), files \in SetToSeqs(keptFiles) :
               /\ pending' = Inside(Sorted(dirs)) \o Tail(pending)
               /\ yielded' = yielded \o Inside(Sorted(files))
    /\ UNCHANGED <<gitignore, avignored, defaults, walkRoot>>

WalkNext == ListDirectory
WalkSpec == WalkInit /\ [][WalkNext]_walkVars

-----------------------------------------------------------------------------
(* A line matches a path: the segments of the line can be laid along the     *)
(* path, cut[i] names of it covered by the first i of them; a line of one    *)
(* segment without a leading slash looks at the last name alone.             *)
Fits(line, path, isDir) ==
    LET m == Len(line.segments)
        n == Len(path)
        Covers(i, cut) ==
            IF line.segments[i] = AnySegments
            THEN cut[i] >= cut[i - 1] + (IF i = m THEN 1 ELSE 0)
            ELSE cut[i] = cut[i - 1] + 1 /\ path[cut[i]] \in line.segments[i]
    IN  /\ m > 0
        /\ line.trail => isDir
        /\ IF m = 1 /\ ~line.lead
           THEN line.segments[1] = AnySegments \/ path[n] \in line.segments[1]
           ELSE \E cut \in [0..m -> 0..n] :
                    cut[0] = 0 /\ cut[m] = n /\ \A i \in 1..m : Covers(i, cut)

TakenOut(path, isDir) ==
    \E i \in DOMAIN gitignore :
        /\ Fits(gitignore[i], path, isDir) /\ ~gitignore[i].negate
        /\ \A j \in DOMAIN gitignore : j > i => ~Fits(gitignore[j], path, isDir)

Seen(f) ==
    /\ Len(f) > Len(walkRoot) /\ SubSeq(f, 1, Len(walkRoot)) = walkRoot
    /\ \A i \in Len(walkRoot) + 1..Len(f) :
           LET isDir == i < Len(f)
           IN  /\ ~TakenOut(SubSeq(f, 1, i), isDir)
               /\ f[i] \notin avignored
               /\ f[i] \notin (IF ~isDir THEN Noise
                               ELSE HardIgnored \union (IF defaults THEN DefaultIgnored ELSE {}))

(* Where two paths part, a file comes before a directory, then a lower name. *)
Precedes(f, g) ==
    \E i \in DOMAIN f \intersect DOMAIN g :
        /\ \A j \in 1..i - 1 : f[j] = g[j]
        /\ \/ i = Len(f) /\ i < Len(g)
           \/ (i = Len(f) <=> i = Len(g)) /\ f[i] < g[i]

(***************************************************************************)
(* A walk gives each file that no rule takes out and that is in no         *)
(* directory a rule takes out, and gives no other; and it gives them in    *)
(* one order whatever order the directories were listed in, which is what  *)
(* makes the index and the commits of two machines the same.               *)
(***************************************************************************)
WalkIsTheRules ==
    /\ \A i, j \in DOMAIN yielded : i < j => Precedes(yielded[i], yielded[j])
    /\ pending = <<>> => ToSet(yielded) = {f \in TreeFile : Seen(f)}
=============================================================================
