------------------------------ MODULE Improver ------------------------------
(***************************************************************************)
(* Self-edits under governance: improver versions, change sets, reviews,   *)
(* critiques, canary results and the project freeze on the registry        *)
(* (python/av_server/server.py), and the commands of av_cli/cmd_improver,  *)
(* cmd_review, cmd_canary and cmd_freeze that drive them.                   *)
(***************************************************************************)
EXTENDS Integers, FiniteSets, Sequences

CONSTANTS
    Agent,          \* processes in one workspace; each has its own token
    Scenario        \* the armed rules, and bounds: see ImproverAssumption

NoUser == "anonymous"

(* rules: .av/improver_policy.json for the branch; anonymous: the registry   *)
(* runs without tokens, its default; the other fields bound the rows of a    *)
(* behaviour, and the requests that get no answer.                           *)
ASSUME ImproverAssumption ==
    /\ NoUser \notin Agent
    /\ \A s \in Scenario :
           /\ s.rules \subseteq {"require_canaries", "require_signature", "require_review"}
           /\ s.anonymous \in BOOLEAN
           /\ {s.versions, s.changes, s.critiques, s.reviews, s.outages} \subseteq Nat

NoVersion == 0
NoCommand == [op |-> "none"]

VARIABLES
    scenario,   \* the member of Scenario that the behaviour is about; never changes
    versions,   \* improver versions, in the order of creation
    changes,    \* change sets
    reviews,    \* approving reviews of improver versions (a rejecting one gates nothing)
    critiques,  \* critiques of improver versions
    canary,     \* canary[i]: the latest canary result of version i exists and passed
    frozen,     \* the freeze row
    outages,    \* requests without an answer that let pass, counted against the bound
    current, lastGood, promotedTo,  \* files of .av/improver
    command,    \* command[a]: what agent a is running
    approved,   \* history: change sets that were ever approved
    gate        \* history: what was promoted last, and how many critiques its gate was shown

improverVars == <<scenario, versions, changes, reviews, critiques, canary, frozen, outages,
                  current, lastGood, promotedTo, command, approved, gate>>
rows == <<versions, changes, reviews, critiques, canary>>
pointers == <<current, lastGood, promotedTo, gate>>

VersionId == 1 .. Len(versions)
ChangeId == 1 .. Len(changes)
NoGate == [candidate |-> NoVersion, critiques |-> 0]

ImproverInit ==
    /\ scenario \in Scenario
    /\ versions = <<>> /\ changes = <<>> /\ reviews = {} /\ critiques = <<>> /\ canary = <<>>
    /\ frozen = FALSE /\ outages = 0
    /\ current = NoVersion /\ lastGood = NoVersion /\ promotedTo = NoVersion
    /\ command = [a \in Agent |-> NoCommand]
    /\ approved = {} /\ gate = NoGate

-----------------------------------------------------------------------------
(* Handlers of the registry. *)

(* The user that a request of agent a comes from, for the registry. Its rows *)
(* hold that user; here they hold the agent.                                 *)
UserOf(a) == IF scenario.anonymous THEN NoUser ELSE a

(* create_improver_version *)
CreateVersion(parent, who, signed) ==
    /\ Len(versions) < scenario.versions
    /\ versions' = Append(versions, [parent |-> parent, by |-> who, signed |-> signed])
    /\ canary' = Append(canary, FALSE)

(* create_change_set *)
CreateChangeSet(base) ==
    /\ Len(changes) < scenario.changes
    /\ changes' = Append(changes, [base |-> base, status |-> "proposed"])

(* _CHANGE_SET_TRANSITIONS *)
Transitions(from) ==
    CASE from = "proposed" -> {"approved", "rejected"}
      [] from = "approved" -> {"applied", "rejected"}
      [] from = "applied" -> {"rolled_back"}
      [] OTHER -> {}

Becomes(a, c) == command' = [command EXCEPT ![a] = c]

(* update_change_set_status reads the row without a lock ...                *)
StatusRead(a, k, to, next) ==
    /\ to \in Transitions(changes[k].status)
    /\ Becomes(a, [op |-> "status", change |-> k, to |-> to, next |-> next])

(* ... and commits what it was asked for, whatever the row says by then. An *)
(* apply goes on to move the pointers.                                       *)
StatusCommit(a) ==
    /\ command[a].op = "status"
    /\ LET k == command[a].change  to == command[a].to IN
       /\ changes' = [changes EXCEPT ![k].status = to]
       /\ approved' = IF to = "approved" THEN approved \cup {k} ELSE approved
    /\ Becomes(a, command[a].next)
    /\ UNCHANGED <<versions, reviews, critiques, canary, frozen, outages, pointers>>

(* create_review of an improver version: the user that proposed it may not   *)
(* review it, if the request has a user.                                     *)
MayReview(who, i) ==
    /\ i \in VersionId
    /\ UserOf(who) = NoUser \/ UserOf(who) # UserOf(versions[i].by)

CreateReview(a) ==
    \E i \in VersionId :
        /\ MayReview(a, i)
        /\ Cardinality(reviews) < scenario.reviews
        /\ reviews' = reviews \cup {[target |-> i, reviewer |-> a]}
        /\ UNCHANGED <<versions, changes, critiques, canary, frozen, outages, pointers,
                       command, approved>>

CreateCritique ==
    \E i \in VersionId :
        /\ Len(critiques) < scenario.critiques
        /\ critiques' = Append(critiques, [target |-> i, open |-> TRUE])
        /\ UNCHANGED <<versions, changes, reviews, canary, frozen, outages, pointers,
                       command, approved>>

(* _set_critique_status: resolve or waive, once. *)
SetCritiqueStatus ==
    \E k \in DOMAIN critiques :
        /\ critiques[k].open
        /\ critiques' = [critiques EXCEPT ![k].open = FALSE]
        /\ UNCHANGED <<versions, changes, reviews, canary, frozen, outages, pointers,
                       command, approved>>

(* report_canary_result adds a row, of which the latest counts. *)
ReportCanaryResult(i, result) ==
    /\ canary' = [canary EXCEPT ![i] = result]
    /\ UNCHANGED <<versions, changes, reviews, critiques, frozen, outages, pointers,
                   command, approved>>

(* set_freeze_state *)
SetFreezeState ==
    /\ frozen' = ~frozen
    /\ UNCHANGED <<rows, outages, pointers, command, approved>>

-----------------------------------------------------------------------------
(* Commands: sequences of requests and file writes. A process may die        *)
(* between two of them.                                                      *)

(* freeze_guard: exit 18 while frozen; an unreachable registry lets pass.    *)
FreezeGuard ==
    \/ ~frozen /\ UNCHANGED outages
    \/ outages < scenario.outages /\ outages' = outages + 1

(* canary run: the checks compare metrics of HEAD to thresholds. Its result  *)
(* is read under require_canaries only.                                       *)
CanaryRun ==
    /\ "require_canaries" \in scenario.rules
    /\ \E i \in VersionId, result \in BOOLEAN : ReportCanaryResult(i, result)

Register(a) ==
    /\ command[a] = NoCommand
    /\ FreezeGuard
    /\ Becomes(a, [op |-> "register", parent |-> current])
    /\ UNCHANGED <<rows, frozen, pointers, approved>>

RegisterPost(a) ==
    /\ command[a].op = "register"
    /\ \E signed \in BOOLEAN : CreateVersion(command[a].parent, a, signed)
    /\ Becomes(a, [op |-> "use", to |-> Len(versions')])
    /\ UNCHANGED <<changes, reviews, critiques, frozen, outages, pointers, approved>>

(* The end of register, and all of "improver use" and "improver rollback".  *)
SetCurrent(v) ==
    /\ current' = v
    /\ UNCHANGED <<rows, frozen, outages, lastGood, promotedTo, gate, approved>>
RegisterDone(a) == command[a].op = "use" /\ SetCurrent(command[a].to) /\ Becomes(a, NoCommand)
Use == \E v \in VersionId : SetCurrent(v) /\ UNCHANGED command
Rollback == lastGood # NoVersion /\ SetCurrent(lastGood) /\ UNCHANGED command

Propose(a) ==
    /\ command[a] = NoCommand
    /\ FreezeGuard
    /\ CreateChangeSet(current)
    /\ UNCHANGED <<versions, reviews, critiques, canary, frozen, pointers, command, approved>>

(* "improver review", and any other caller of the status route. *)
Review(a) ==
    /\ command[a] = NoCommand
    /\ \E k \in ChangeId, to \in {"approved", "rejected", "applied", "rolled_back"} :
           StatusRead(a, k, to, NoCommand)
    /\ UNCHANGED <<rows, frozen, outages, pointers, approved>>

(* "improver apply": guard, GET and the pointer's value, then the new        *)
(* version, then the change set's transition, then the pointers.             *)
Apply(a) ==
    /\ command[a] = NoCommand
    /\ FreezeGuard
    /\ \E k \in ChangeId :
           /\ changes[k].status = "approved"
           /\ Becomes(a, [op |-> "mint", change |-> k, previous |-> current])
    /\ UNCHANGED <<rows, frozen, pointers, approved>>

ApplyMint(a) ==
    /\ command[a].op = "mint"
    /\ LET base == changes[command[a].change].base IN
       CreateVersion(base, a, base # NoVersion /\ versions[base].signed)
    /\ Becomes(a, [op |-> "apply", change |-> command[a].change,
                   next |-> [op |-> "point", to |-> Len(versions'),
                             previous |-> command[a].previous]])
    /\ UNCHANGED <<changes, reviews, critiques, frozen, outages, pointers, approved>>

ApplyTransition(a) ==
    /\ command[a].op = "apply"
    /\ StatusRead(a, command[a].change, "applied", command[a].next)
    /\ UNCHANGED <<rows, frozen, outages, pointers, approved>>

ApplyPoint(a) ==
    /\ command[a].op = "point"
    /\ lastGood' = IF command[a].previous = NoVersion THEN lastGood ELSE command[a].previous
    /\ current' = command[a].to
    /\ Becomes(a, NoCommand)
    /\ UNCHANGED <<rows, frozen, outages, promotedTo, gate, approved>>

(* _evaluate_improver_policy: canary and signature, then the reviews, then   *)
(* the open critiques, one request each. Without an answer there are no      *)
(* reviews, which denies, and no critiques, which does not. The variant asks *)
(* for none.                                                                 *)
CanaryAndSignature(i) ==
    /\ "require_canaries" \in scenario.rules => canary[i]
    /\ "require_signature" \in scenario.rules => versions[i].signed
Reviewed(i) ==
    "require_review" \in scenario.rules =>
        \E r \in reviews : r.target = i
UncontestedSkip(i) == TRUE
Uncontested(i) ==
    "require_review" \in scenario.rules =>
        \A k \in DOMAIN critiques : critiques[k].target = i => ~critiques[k].open

(* "improver promote", without --force: the pointer is the candidate.        *)
Promote(a) ==
    /\ command[a] = NoCommand
    /\ current # NoVersion /\ CanaryAndSignature(current)
    /\ Becomes(a, [op |-> "reviews", candidate |-> current])
    /\ UNCHANGED <<rows, frozen, outages, pointers, approved>>

PromoteReviews(a) ==
    /\ command[a].op = "reviews" /\ Reviewed(command[a].candidate)
    /\ Becomes(a, [op |-> "critiques", candidate |-> command[a].candidate])
    /\ UNCHANGED <<rows, frozen, outages, pointers, approved>>

PromoteCritiques(a) ==
    /\ command[a].op = "critiques"
    /\ \E shown \in {0, Len(critiques)} :
         /\ \/ shown = Len(critiques) /\ Uncontested(command[a].candidate) /\ UNCHANGED outages
            \/ shown = 0 /\ outages < scenario.outages /\ outages' = outages + 1
         /\ Becomes(a, [op |-> "land", gate |-> [candidate |-> command[a].candidate,
                                                critiques |-> shown]])
    /\ UNCHANGED <<rows, frozen, pointers, approved>>

PromoteLand(a) ==
    /\ command[a].op = "land"
    /\ FreezeGuard
    /\ promotedTo' = command[a].gate.candidate
    /\ gate' = command[a].gate
    /\ Becomes(a, NoCommand)
    /\ UNCHANGED <<rows, frozen, current, lastGood, approved>>

(* A denial, a refused request or a death: the command ends where it is.    *)
Abandon(a) ==
    /\ command[a] \notin {NoCommand} /\ command[a].op # "status"
    /\ Becomes(a, NoCommand)
    /\ UNCHANGED <<rows, frozen, outages, pointers, approved>>

ImproverNext ==
    /\ UNCHANGED scenario
    /\ \/ \E a \in Agent :
            \/ StatusCommit(a) \/ CreateReview(a)
            \/ Register(a) \/ RegisterPost(a) \/ RegisterDone(a)
            \/ Propose(a) \/ Review(a)
            \/ Apply(a) \/ ApplyMint(a) \/ ApplyTransition(a) \/ ApplyPoint(a)
            \/ Promote(a) \/ PromoteReviews(a) \/ PromoteCritiques(a) \/ PromoteLand(a)
            \/ Abandon(a)
       \/ CreateCritique \/ SetCritiqueStatus \/ CanaryRun \/ SetFreezeState
       \/ Use \/ Rollback

ImproverSpec == ImproverInit /\ [][ImproverNext]_improverVars

-----------------------------------------------------------------------------
ImproverTypeOK ==
    /\ \A i \in VersionId : versions[i].parent < i /\ versions[i].by \in Agent
    /\ Len(canary) = Len(versions)
    /\ {current, lastGood, promotedTo} \subseteq VersionId \cup {NoVersion}
    /\ \A k \in ChangeId : changes[k].base \in VersionId \cup {NoVersion}
    /\ approved \subseteq ChangeId
    /\ gate.candidate = promotedTo

(* update_change_set_status: "av improver apply can never apply something    *)
(* nobody approved". Whatever handlers race on the row, a change set that    *)
(* was applied, and one that an agent is about to apply, had been approved.  *)
AppliedWasApproved ==
    /\ \A k \in ChangeId : changes[k].status \in {"applied", "rolled_back"} => k \in approved
    /\ \A a \in Agent : command[a].op \in {"mint", "apply"} => command[a].change \in approved

(* "improver promote" under require_review: what is promoted was approved, by *)
(* another agent than created it where the registry knows who asks; and every *)
(* critique that the gate was shown when it was evaluated is settled.         *)
PromotedIsReviewed ==
    "require_review" \in scenario.rules /\ promotedTo # NoVersion =>
        /\ \E r \in reviews : /\ r.target = promotedTo
                              /\ scenario.anonymous \/ r.reviewer # versions[promotedTo].by
        /\ \A k \in 1 .. gate.critiques :
               critiques[k].target = promotedTo => ~critiques[k].open

(* Nothing comes into use that nobody approved: no change set, no version.   *)
OnlyApprovedLands == AppliedWasApproved /\ PromotedIsReviewed

(* create_review: "The reviewer must NOT be the target's own proposer -- a    *)
(* self-review is rejected". Refuted without tokens: nobody is then anyone's  *)
(* proposer.                                                                  *)
ProposersDoNotReview == \A r \in reviews : r.reviewer # versions[r.target].by
=============================================================================
