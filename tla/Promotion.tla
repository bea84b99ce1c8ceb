------------------------------- MODULE Promotion -------------------------------
(***************************************************************************)
(* The branches of one repository, `av merge`, and the promotion gate in   *)
(* front of it: `av policy set`, enforce_policy and `av promote`.          *)
(*                                                                         *)
(* A tree is the content of one path, so a three-way merge has one         *)
(* decision to take; a commit that changes another path keeps it.  A       *)
(* commit carries the one metric the policies are about, or none, and may  *)
(* carry a valid signature.  Working files are clean throughout: what      *)
(* merge and checkout do about edits is the subject of WorkTree.           *)
(***************************************************************************)
EXTENDS CommitGraph

CONSTANTS Branch, Main, Content,
          Metric,       \* the values a commit's metric takes, NoMetric among them
                        \* when commits may have none
          Policy,       \* the entries `av policy set` is called with
          HasKey        \* the answers a commit gets when it looks for a signing key

NoMetric == 0
NoThreshold == 0

(* An entry of .av/policies.json.  A policy has a metric (with a baseline   *)
(* ref, as branch and number of ~ hops, or a threshold), asks for a         *)
(* signature, or both.                                                      *)
Entries ==
    [metric : BOOLEAN, op : {"<", "<=", ">", ">="}, baseline : Branch \cup {"none"},
     hops : Nat, threshold : Nat, require_signature : BOOLEAN]
Settable(p) ==
    /\ p.metric \/ p.require_signature
    /\ p.metric => p.baseline # "none" \/ p.threshold # NoThreshold

VARIABLES commits,    \* commit -> [parents, tree, metric, signed], in order
          tip,        \* branch -> .av/refs/heads, None when there is no file
          head,       \* the branch .av/HEAD names
          policies,   \* branch -> its entry of .av/policies.json, or {}
          landed      \* history: branch -> metric of the last gated promotion

promVars == <<commits, tip, head, policies, landed>>

Made == 1 .. Len(commits)
Parents == [c \in Made |-> commits[c].parents]
TreeOf(c) == IF c = None THEN "absent" ELSE commits[c].tree

PromInit ==
    /\ commits = <<>>
    /\ tip = [b \in Branch |-> None]
    /\ head = Main
    /\ policies = [b \in Branch |-> {}]
    /\ landed = [b \in Branch |-> NoMetric]

(***************************************************************************)
(* The gate                                                                *)
(***************************************************************************)
(* _latest_metrics_for_ref: first parents only, to the first metric.        *)
LatestMetric(h) ==
    LET latest[c \in 0 .. Len(commits)] ==
            IF c = None THEN NoMetric
            ELSE IF commits[c].metric # NoMetric THEN commits[c].metric
            ELSE latest[commits[c].parents.first]
    IN  latest[h]

(* _resolve_ref_ancestor: n first-parent hops back from a tip. *)
Back(h, n) ==
    LET back[k \in 0 .. n] ==
            IF k = 0 THEN h
            ELSE IF back[k - 1] = None THEN None ELSE commits[back[k - 1]].parents.first
    IN  back[n]

Holds(op, a, b) ==
    \/ op = "<" /\ a < b
    \/ op = "<=" /\ a <= b
    \/ op = ">" /\ a > b
    \/ op = ">=" /\ a >= b

(* evaluate: a missing number on either side denies; a baseline, when there  *)
(* is one, is used rather than the threshold.                                *)
Evaluate(p, candidate) ==
    LET bound == IF p.baseline # "none" THEN LatestMetric(Back(tip[p.baseline], p.hops))
                 ELSE p.threshold
    IN  candidate # NoMetric /\ bound # NoMetric /\ Holds(p.op, candidate, bound)

(* candidate_is_signed.  `av merge` asks it about the word "HEAD", which is  *)
(* the name of no commit file: None here.                                    *)
IsSigned(ref) == \E c \in Made : c = ref /\ commits[c].signed

(* The decision of enforce_policy and of promote.                            *)
Allows(entry, ref, metric) ==
    \A p \in entry :
        /\ p.require_signature => IsSigned(ref)
        /\ p.metric => Evaluate(p, metric)

PolicySet(b) ==
    /\ \E p \in Policy : Settable(p) /\ policies' = [policies EXCEPT ![b] = {p}]
    /\ UNCHANGED <<commits, tip, head, landed>>

PolicyRemove(b) ==
    /\ policies[b] # {}
    /\ policies' = [policies EXCEPT ![b] = {}]
    /\ UNCHANGED <<commits, tip, head, landed>>

(***************************************************************************)
(* Branches and commits                                                    *)
(***************************************************************************)
AppendTo(b, c) ==
    /\ Len(commits) < MaxCommits
    /\ commits' = Append(commits, c)
    /\ tip' = [tip EXCEPT ![b] = Len(commits) + 1]

CommitWork ==
    /\ \E t \in Content, m \in Metric, s \in HasKey :
           AppendTo(head, [parents |-> [first |-> tip[head], second |-> None],
                          tree |-> t, metric |-> m, signed |-> s])
    /\ UNCHANGED <<head, policies, landed>>

(* `av branch b` writes the commit of HEAD to the file of b, new or not.     *)
CreateBranch(b) ==
    /\ tip' = [tip EXCEPT ![b] = tip[head]]
    /\ UNCHANGED <<commits, head, policies, landed>>

CheckoutBranch(b) ==
    /\ tip[b] # None
    /\ head' = b
    /\ UNCHANGED <<commits, tip, policies, landed>>

(***************************************************************************)
(* Merge                                                                   *)
(***************************************************************************)
Conflict == "conflict"

(* three_way_tree_merge, for the one path; "absent" is a deletion.           *)
ThreeWay(base, ours, theirs) ==
    CASE ours = theirs -> ours
      [] ours # theirs /\ base = ours -> theirs
      [] ours # theirs /\ base = theirs /\ base # ours -> ours
      [] OTHER -> Conflict

(* What `av merge` does to branch b, from the target commit on: nothing when *)
(* the target is the base, a fast-forward when the tip is, and otherwise a   *)
(* commit with two parents and no metrics, unless a conflict stops it.       *)
Land(b, theirs, base, side, noFf) ==
    LET ours == tip[b]
        three == ThreeWay(TreeOf(base), TreeOf(ours), TreeOf(theirs))
        merged == IF three # Conflict THEN three
                  ELSE IF side = "ours" THEN TreeOf(ours) ELSE TreeOf(theirs)
    IN  /\ base # theirs
        /\ IF base = ours /\ ~noFf
           THEN /\ tip' = [tip EXCEPT ![b] = theirs]
                /\ UNCHANGED commits
           ELSE /\ three = Conflict => side # "none"
                /\ AppendTo(b, [parents |-> [first |-> ours, second |-> theirs],
                               tree |-> merged, metric |-> NoMetric, signed |-> FALSE])

Side == {"none", "ours", "theirs"}

(* `av merge`: the gate reads the metric of the branch merged into, and asks *)
(* whether "HEAD" is signed.                                                 *)
MergeInto(theirs) ==
    /\ tip[head] \notin {None, theirs}
    /\ LET base == MergeBase(Parents, Made, tip[head], theirs)
       IN  \E force, noFf \in BOOLEAN, side \in Side :
               /\ force \/ Allows(policies[head], None, LatestMetric(tip[head]))
               /\ Land(head, theirs, base, side, noFf)
    /\ UNCHANGED <<head, policies, landed>>

(* `av promote`: decides from the metric of the candidate's own commit, then *)
(* switches to the branch and merges with --no-ff, past the gate of merge    *)
(* when an entry is armed.  --dry-run changes nothing.                       *)
Promote(c, b, force) ==
    /\ tip[b] \notin {None, c}
    /\ force \/ Allows(policies[b], c, commits[c].metric)
    /\ head' = b
    /\ Land(b, c, MergeBase(Parents, Made, tip[b], c), "none", TRUE)
    /\ landed' = IF ~force /\ \E p \in policies[b] : p.metric
                 THEN [landed EXCEPT ![b] = commits[c].metric]
                 ELSE landed
    /\ UNCHANGED policies

PromNext ==
    \/ CommitWork
    \/ \E b \in Branch :
           CreateBranch(b) \/ CheckoutBranch(b) \/ PolicySet(b) \/ PolicyRemove(b)
    \/ \E c \in Made : MergeInto(c)
    \/ \E c \in Made, b \in Branch, force \in BOOLEAN : Promote(c, b, force)

PromSpec == PromInit /\ [][PromNext]_promVars

(***************************************************************************)
(* Properties                                                              *)
(***************************************************************************)
PromTypeOK ==
    /\ commits \in Seq([parents : Parentage, tree : Content \cup {"absent"},
                        metric : Metric \cup {NoMetric}, signed : BOOLEAN])
    /\ tip \in [Branch -> {None} \cup Made]
    /\ head \in Branch
    /\ policies \in [Branch -> SUBSET (Policy \cap Entries)]
    /\ landed \in [Branch -> Metric \cup {NoMetric}]

(* A branch that is strictly behind takes the other side whole: when every   *)
(* commit of the branch is in the history of the target, a merge leaves the  *)
(* target's files.  It fails: the walk of find_merge_base may meet an older  *)
(* common ancestor before the tip of the branch itself.                      *)
BehindTakesTheirs ==
    [][\A b \in Branch :
          /\ Len(commits') > Len(commits)
          /\ tip'[b] = Len(commits') /\ tip[b] # None
          /\ commits'[Len(commits')].parents.second # None
          /\ IsAncestor(Parents, Made, tip[b], commits'[Len(commits')].parents.second)
          => commits'[Len(commits')].tree = TreeOf(commits'[Len(commits')].parents.second)]_promVars

(* Under a gate that asks for a smaller metric than the branch's, a promotion *)
(* lands nothing worse than what the last one landed, unless it is forced.   *)
(* It fails: the commit that lands a candidate has no metrics, and the walk  *)
(* for the baseline passes it by.                                            *)
NoRegressionLands ==
    [][\A b \in Branch :
          /\ landed'[b] # landed[b] /\ landed[b] # NoMetric
          => landed'[b] < landed[b]]_promVars
================================================================================
