------------------------------ MODULE SchemaBoot ------------------------------
(***************************************************************************)
(* How a registry brings its database to the schema of its build when it   *)
(* starts (src/python/av_server/database.py, migrations/versions): the     *)
(* migration chain for a new database, healing and stamping for one whose  *)
(* chain is not recorded, neither for one that a newer build has migrated. *)
(* Several replicas, of different builds, start against one database.      *)
(***************************************************************************)
EXTENDS Integers, FiniteSets

CONSTANTS
    Replica,
    BuildHead,         \* [Replica -> Revision]: the last revision its build knows
    MaxLosses,    \* bound: times the recorded revision is lost
    MaxCrashes    \* bound: crashes and restarts

(* The migration chain: what each revision brings. An effect is a pair of a   *)
(* revision and a kind of change.                                             *)
Baseline == {1} \X {"tables", "indexes"}
RunsEventsWebhooksAudit == {2} \X {"tables", "indexes"}
WebhookDeliveries == {3} \X {"tables", "columns", "indexes"}
WebhookHealth == {4} \X {"columns", "indexes"}
RunPolicyOutcome == {5} \X {"columns"}
ImproverFreeze == {6} \X {"tables", "columns", "indexes"}
EvalRegistry == {7} \X {"tables", "columns", "indexes"}
PlanningBudgets == {8} \X {"tables", "columns", "indexes"}
MultiagentStrategy == {9} \X {"tables", "columns", "indexes"}
SandboxIsolation == {10} \X {"tables", "indexes"}
EnterpriseIdentity == {11} \X {"tables", "indexes"}
IdentitySeeds == {11} \X {"seeds"}             \* the default tenant, the built-in roles
TenantScopingAdd == {12} \X {"columns"}
TenantScopingEnforce == {13} \X {"policies", "indexes"}  \* foreign keys, row-level security
PerTenantCas == {14} \X {"columns", "keys"}    \* tenant_id joins the primary keys; their lookups
AppRole == {15} \X {"grants"}
AuditLogChain == {16} \X {"columns", "chain"}
CommitsIndex == {17} \X {"indexes"}
Revision == 1..17
Effects == UNION {Baseline, RunsEventsWebhooksAudit, WebhookDeliveries, WebhookHealth,
                  RunPolicyOutcome, ImproverFreeze, EvalRegistry, PlanningBudgets,
                  MultiagentStrategy, SandboxIsolation, EnterpriseIdentity, IdentitySeeds,
                  TenantScopingAdd, TenantScopingEnforce, PerTenantCas, AppRole,
                  AuditLogChain, CommitsIndex}
Structure == {e \in Effects : e[2] \in {"tables", "columns", "indexes"}}
Brings(r) == {e \in Effects : e[1] = r}
UpTo(effects, r) == {e \in effects : e[1] <= r}

VARIABLES
    schema,       \* the database: [has: its effects, recorded: its revision, 0 if none]
    work,         \* what the migrating replica's transaction has made of it
    migrating,    \* the replica that holds the advisory lock, or NoReplica
    replica,      \* [Replica -> "down", "waiting", "migrating", "serving" or "failed"]
    behind,       \* history: a build has stamped its head on a newer schema
    losses, crashes

schemaVars == <<schema, work, migrating, replica, behind, losses, crashes>>

NoReplica == "nobody"
ASSUME SchemaAssumption == BuildHead \in [Replica -> Revision] /\ NoReplica \notin Replica

Empty == [has |-> {}, recorded |-> 0]

(* A new database, or one create_all made before there was a chain: it has    *)
(* the structure of some early revision, and none is recorded.                *)
SchemaInit ==
    /\ schema \in {Empty} \union {[has |-> UpTo(Structure, r), recorded |-> 0] : r \in {1, 3}}
    /\ work = Empty /\ migrating = NoReplica
    /\ replica = [s \in Replica |-> "down"]
    /\ behind = FALSE /\ losses = 0 /\ crashes = 0

-----------------------------------------------------------------------------
StartReplica(s) ==
    /\ replica[s] = "down"
    /\ replica' = [replica EXCEPT ![s] = "waiting"]
    /\ UNCHANGED <<schema, work, migrating, behind, losses, crashes>>

(* engine.begin() and pg_advisory_xact_lock: the database is looked at after. *)
TakeLock(s) ==
    /\ replica[s] = "waiting" /\ migrating = NoReplica
    /\ migrating' = s /\ work' = schema
    /\ replica' = [replica EXCEPT ![s] = "migrating"]
    /\ UNCHANGED <<schema, behind, losses, crashes>>

(* needs_adoption: there is a commits table and no recorded revision. The     *)
(* variant takes what is there for a chain that was begun.                    *)
NeedsAdoptionNever(d) == FALSE
NeedsAdoption(d) == <<1, "tables">> \in d.has /\ d.recorded = 0

(* _create_missing_tables, _heal_legacy_columns, _heal_legacy_indexes and     *)
(* _heal_audit_chain_hash, then the head of this build is stamped. The        *)
(* variant leaves the indexes out.                                            *)
HealedNoIndexes == {e \in Effects : e[2] \in {"tables", "columns", "chain"}}
Healed == {e \in Effects : e[2] \in {"tables", "columns", "indexes", "chain"}}
Adopt(s) ==
    /\ migrating = s /\ NeedsAdoption(work)
    /\ work' = [has |-> work.has \union UpTo(Healed, BuildHead[s]), recorded |-> BuildHead[s]]
    /\ behind' = (behind \/ \E e \in work.has : e[1] > BuildHead[s])
    /\ UNCHANGED <<schema, migrating, replica, losses, crashes>>

(* alembic upgrade head, one revision: what exists already cannot be made     *)
(* again, and a replica that fails to start rolls everything back.            *)
Ends(s, state) == migrating' = NoReplica /\ replica' = [replica EXCEPT ![s] = state]
Replays(d) == Brings(d.recorded + 1) \intersect Structure \intersect d.has # {}
ApplyRevision(s) ==
    /\ migrating = s /\ ~NeedsAdoption(work) /\ work.recorded < BuildHead[s] /\ ~Replays(work)
    /\ work' = [has |-> work.has \union Brings(work.recorded + 1), recorded |-> work.recorded + 1]
    /\ UNCHANGED <<schema, migrating, replica, behind, losses, crashes>>
FailStart(s) ==
    /\ migrating = s /\ ~NeedsAdoption(work) /\ work.recorded < BuildHead[s] /\ Replays(work)
    /\ Ends(s, "failed")
    /\ work' = Empty
    /\ UNCHANGED <<schema, behind, losses, crashes>>

(* At its head, or ahead of this build: the upgrade is skipped, the           *)
(* transaction commits and the replica serves.                                *)
Serve(s) ==
    /\ migrating = s /\ ~NeedsAdoption(work) /\ work.recorded >= BuildHead[s]
    /\ schema' = work /\ work' = Empty
    /\ Ends(s, "serving")
    /\ UNCHANGED <<behind, losses, crashes>>

(* A replica stops or crashes; its transaction rolls back. One that failed is *)
(* started again.                                                             *)
StopReplica(s) ==
    /\ crashes < MaxCrashes /\ crashes' = crashes + 1
    /\ replica[s] # "down"
    /\ replica' = [replica EXCEPT ![s] = "down"]
    /\ IF migrating = s THEN migrating' = NoReplica /\ work' = Empty
                        ELSE UNCHANGED <<migrating, work>>
    /\ UNCHANGED <<schema, behind, losses>>

(* The version row is lost or truncated while the tables stay.                *)
LoseVersion ==
    /\ losses < MaxLosses /\ losses' = losses + 1
    /\ migrating = NoReplica
    /\ schema' = [schema EXCEPT !.recorded = 0]
    /\ UNCHANGED <<work, migrating, replica, behind, crashes>>

SchemaNext ==
    \/ \E s \in Replica : \/ StartReplica(s) \/ TakeLock(s) \/ Adopt(s) \/ ApplyRevision(s)
                          \/ FailStart(s) \/ Serve(s) \/ StopReplica(s)
    \/ LoseVersion

SchemaSpec == SchemaInit /\ [][SchemaNext]_schemaVars

-----------------------------------------------------------------------------
SchemaTypeOK ==
    /\ schema.has \subseteq Effects /\ schema.recorded \in {0} \union Revision
    /\ work.has \subseteq Effects
    /\ migrating \in Replica \union {NoReplica}
    /\ replica \in [Replica -> {"down", "waiting", "migrating", "serving", "failed"}]

(* A replica that serves finds every table, column and index its build was    *)
(* written for, whichever builds started, adopted, migrated or crashed        *)
(* before it.                                                                 *)
ServesItsSchema ==
    \A s \in Replica : replica[s] = "serving" => UpTo(Structure, BuildHead[s]) \subseteq schema.has

(* No replica fails to start by replaying a revision that is there: unless an *)
(* older build had adopted a newer schema whose version row was lost.         *)
NoReplay == \A s \in Replica : replica[s] = "failed" => behind

(* VERSIONING.md: a database from before the chain is "healed + stamped       *)
(* zero-touch on first boot". Stamping skips what the chain seeds: the        *)
(* default tenant, which the tables that were just made refer to.             *)
DefaultTenantExists ==
    \A s \in Replica : replica[s] = "serving" => UpTo(IdentitySeeds, BuildHead[s]) \subseteq schema.has
=============================================================================
