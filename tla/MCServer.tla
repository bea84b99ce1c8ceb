------------------------------ MODULE MCServer ------------------------------
(***************************************************************************)
(* Small instances of the components behind the registry's requests that   *)
(* share no state: its event feed, audit chain, rate limiter, alarms of    *)
(* failed authentication, credentials and schema at start, the governance  *)
(* of improvers, budgets, the trail of a run, sandbox jobs and             *)
(* evaluations. One run checks them side by side:                          *)
(* `part`, chosen at first, is the one that moves.                         *)
(***************************************************************************)
EXTENDS EventFeed, AuditChain, RateLimit, Access, SchemaBoot, Improver, Budget, RunTrail, Sandbox,
        EvalVault, AuthSpike

VARIABLE part

(* EventFeed: the reader follows the project that writer w1 pushes to.       *)
FollowsDef == [r \in Reader |-> "p"]

(* AuditChain: one request of each of two tenants.                           *)
TenantOfDef == [r \in TenantRequest |-> IF r = "r1" THEN "acme" ELSE "default"]

(* SchemaBoot: an older build, and two replicas of the current one.          *)
HeadDef == [s \in Replica |-> IF s = "old" THEN 15 ELSE 17]

(* RateLimit: one request per window.                                        *)
MaxRequestsDef == [k \in Limited |-> 1]

(* Improver: change sets without armed rules; two versions that race for     *)
(* promotion under review; one version under every rule; a review where the  *)
(* registry knows no users.                                                  *)
ScenarioDef ==
    {[rules |-> {}, versions |-> 1, changes |-> 2, critiques |-> 0, reviews |-> 0, outages |-> 0,
      anonymous |-> FALSE],
     [rules |-> {"require_review"}, versions |-> 2, changes |-> 0, critiques |-> 1, reviews |-> 1,
      outages |-> 0, anonymous |-> FALSE],
     [rules |-> {"require_canaries", "require_signature", "require_review"}, versions |-> 1,
      changes |-> 0, critiques |-> 2, reviews |-> 2, outages |-> 1, anonymous |-> FALSE],
     [rules |-> {"require_review"}, versions |-> 1, changes |-> 0, critiques |-> 1, reviews |-> 1,
      outages |-> 0, anonymous |-> TRUE]}
OneScenario == CHOOSE s \in Scenario : TRUE

(* Budget: a limit on steps and none on compute; a consumption of both, one  *)
(* of steps alone, and a negative one of steps.                              *)
SpendDef == {[x \in Dim |-> 1]} \cup {[x \in Dim |-> IF x = "steps" THEN n ELSE 0] : n \in {-1, 2}}
LimitDef == [x \in Dim |-> IF x = "steps" THEN 3 ELSE NoLimit]

(* RunTrail: three commits of one run, with a metric that falls 5, 3, 0.     *)
RankDef == [c \in Commit |-> CASE c = "c1" -> 1 [] c = "c2" -> 2 [] OTHER -> 3]
MetricDef == [c \in Commit |-> CASE c = "c1" -> 5 [] c = "c2" -> 3 [] OTHER -> 0]

(* Sandbox: a job for each driver; the docker job wants a writable mount.    *)
DriverDef == [j \in Job |-> CASE j = "l" -> "local" [] j = "d" -> "docker"
                              [] j = "k" -> "kubernetes" [] OTHER -> "slurm"]
WantsDef == [j \in Job |-> IF j = "d" THEN {"rw"} ELSE {}]
ActionLogDef == <<"l">>

ServerInit ==
    /\ part \in {"feed", "audit", "limit", "access", "schema", "improver", "budget", "trail", "sandbox", "eval",
                "spike"}
    /\ FeedInit /\ AuditInit /\ RateInit /\ AccessInit /\ SchemaInit /\ ImproverInit /\ BudgetInit
    /\ RunTrailInit /\ SandboxInit /\ EvalInit /\ SpikeInit
    /\ part # "audit" => enforce = FALSE
    /\ part # "limit" => backend = "memory"
    /\ part # "schema" => schema = Empty
    /\ part # "improver" => scenario = OneScenario
    /\ part # "sandbox" => armed = {}
    /\ part # "spike" => spikeBackend = "memory"

serverVars == <<part, feedVars, auditVars, rateVars, accessVars, schemaVars, improverVars,
                budgetVars, runVars, sandboxVars, evalVars, spikeVars>>

ServerNext ==
    /\ UNCHANGED part
    /\ \/ part = "feed" /\ FeedNext
       \/ part # "feed" /\ UNCHANGED feedVars
    /\ \/ part = "audit" /\ AuditNext
       \/ part # "audit" /\ UNCHANGED auditVars
    /\ \/ part = "limit" /\ RateNext
       \/ part # "limit" /\ UNCHANGED rateVars
    /\ \/ part = "access" /\ AccessNext
       \/ part # "access" /\ UNCHANGED accessVars
    /\ \/ part = "schema" /\ SchemaNext
       \/ part # "schema" /\ UNCHANGED schemaVars
    /\ \/ part = "improver" /\ ImproverNext
       \/ part # "improver" /\ UNCHANGED improverVars
    /\ \/ part = "budget" /\ BudgetNext
       \/ part # "budget" /\ UNCHANGED budgetVars
    /\ \/ part = "trail" /\ RunTrailNext
       \/ part # "trail" /\ UNCHANGED runVars
    /\ \/ part = "sandbox" /\ SandboxNext
       \/ part # "sandbox" /\ UNCHANGED sandboxVars
    /\ \/ part = "eval" /\ EvalNext
       \/ part # "eval" /\ UNCHANGED evalVars
    /\ \/ part = "spike" /\ SpikeNext
       \/ part # "spike" /\ UNCHANGED spikeVars

ServerSpec == ServerInit /\ [][ServerNext]_serverVars
=============================================================================
