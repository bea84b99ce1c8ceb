---------------------------- MODULE GuardProofs -----------------------------
(***************************************************************************)
(* What guards a registry of several replicas, proved for any number of    *)
(* them: a replica that serves has its schema, the audit chain tells of    *)
(* tampering, a cached identity is recent, the limits of requests hold,    *)
(* and the alarms of failed authentication are of bursts.                  *)
(***************************************************************************)
EXTENDS SchemaBoot, AuditChain, Access, RateLimit, AuthSpike, OrderLemmas,
        FiniteSetTheorems, TLAPS

-----------------------------------------------------------------------------
(* The schema at start.                                                     *)

(* What a database holds fits the revision it records: all the structure up  *)
(* to it, and without one either nothing or a chain that was begun.          *)
Coherent(d) ==
    /\ d \in [has : SUBSET Effects, recorded : {0} \union Revision]
    /\ UpTo(Structure, d.recorded) \subseteq d.has
    /\ d.recorded = 0 => d.has = {} \/ <<1, "tables">> \in d.has
(* ... and nothing beyond it. *)
InStep(d) == d.recorded # 0 => \A e \in d.has : e[1] <= d.recorded

SchemaInv ==
    /\ Coherent(schema) /\ Coherent(work)
    /\ ~behind => InStep(schema) /\ InStep(work)
    /\ migrating \in Replica \union {NoReplica}
    /\ migrating # NoReplica => schema.has \subseteq work.has
    /\ replica \in [Replica -> {"down", "waiting", "migrating", "serving", "failed"}]
    /\ ServesItsSchema /\ NoReplay

LEMMA EffectRevisions == \A e \in Effects : e[1] \in Revision
<1> DEFINE Of(r) == {r} \X {"tables", "columns", "indexes", "seeds", "policies", "keys", "grants",
                           "chain"}
<1>1. \A e \in Effects : \E r \in Revision : e \in Of(r)
    BY SMTT(60) DEF Effects, Revision, Baseline, RunsEventsWebhooksAudit, WebhookDeliveries,
       WebhookHealth, RunPolicyOutcome, ImproverFreeze, EvalRegistry, PlanningBudgets,
       MultiagentStrategy, SandboxIsolation, EnterpriseIdentity, IdentitySeeds, TenantScopingAdd,
       TenantScopingEnforce, PerTenantCas, AppRole, AuditLogChain, CommitsIndex
<1>2. ASSUME NEW r \in Revision, NEW e \in Of(r) PROVE e[1] = r
    BY <1>2
<1> QED BY <1>1, <1>2

LEMMA FirstTables == <<1, "tables">> \in Structure
  BY DEF Structure, Effects, Baseline

LEMMA StructureFacts ==
    /\ Structure \subseteq Effects
    /\ \A e \in Structure : e[1] \in Revision
    /\ Structure \subseteq Healed /\ Healed \subseteq Effects
    /\ \A r : UpTo(Structure, r) \subseteq Structure /\ UpTo(Healed, r) \subseteq Effects
    /\ UpTo(Structure, 0) = {}
    /\ \A r \in Revision : <<1, "tables">> \in UpTo(Structure, r)
    /\ \A r, m \in {0} \union Revision : r <= m => UpTo(Structure, r) \subseteq UpTo(Structure, m)
<1>1. Structure \subseteq Effects /\ Structure \subseteq Healed /\ Healed \subseteq Effects
    BY DEF Structure, Healed
<1>2. \A e \in Structure : e[1] \in Revision
    BY <1>1, EffectRevisions
<1>3. \A r : UpTo(Structure, r) \subseteq Structure /\ UpTo(Healed, r) \subseteq Effects
    BY <1>1 DEF UpTo
<1>4. UpTo(Structure, 0) = {}
    BY <1>2 DEF UpTo, Revision
<1>5. \A r \in Revision : <<1, "tables">> \in UpTo(Structure, r)
    BY FirstTables DEF UpTo, Revision
<1>6. \A r, m \in {0} \union Revision : r <= m => UpTo(Structure, r) \subseteq UpTo(Structure, m)
    BY <1>2 DEF UpTo, Revision
<1> QED BY <1>1, <1>2, <1>3, <1>4, <1>5, <1>6

LEMMA EmptyCoherent == Coherent(Empty) /\ InStep(Empty)
  BY StructureFacts DEF Coherent, InStep, Empty

LEMMA SchemaInitInv == SchemaInit => SchemaInv
<1> SUFFICES ASSUME SchemaInit PROVE SchemaInv
    OBVIOUS
<1>1. Coherent(schema) /\ InStep(schema)
  <2>1. CASE schema = Empty
      BY <2>1, EmptyCoherent
  <2>2. ASSUME NEW r \in {1, 3}, schema = [has |-> UpTo(Structure, r), recorded |-> 0]
        PROVE  Coherent(schema) /\ InStep(schema)
    <3>1. r \in Revision
        BY DEF Revision
    <3> QED BY <2>2, <3>1, StructureFacts DEF Coherent, InStep
  <2> QED BY <2>1, <2>2 DEF SchemaInit
<1> QED BY <1>1, EmptyCoherent DEF SchemaInit, SchemaInv, ServesItsSchema, NoReplay

(* What a replica that serves needs stays in a database that only grows. *)
LEMMA StillServed ==
    ASSUME SchemaInv, schema.has \subseteq schema'.has,
           \A s \in Replica : replica'[s] = "serving" =>
               replica[s] = "serving" \/ UpTo(Structure, BuildHead[s]) \subseteq schema'.has
    PROVE  ServesItsSchema'
  BY DEF SchemaInv, ServesItsSchema

LEMMA SchemaStepInv == SchemaInv /\ [SchemaNext]_schemaVars => SchemaInv'
<1> SUFFICES ASSUME SchemaInv, [SchemaNext]_schemaVars PROVE SchemaInv'
    OBVIOUS
<1>0. /\ Coherent(schema) /\ Coherent(work)
      /\ ~behind => InStep(schema) /\ InStep(work)
      /\ migrating \in Replica \union {NoReplica}
      /\ migrating # NoReplica => schema.has \subseteq work.has
      /\ replica \in [Replica -> {"down", "waiting", "migrating", "serving", "failed"}]
      /\ ServesItsSchema /\ NoReplay
    BY DEF SchemaInv
<1>1. ASSUME NEW s \in Replica, StartReplica(s) PROVE SchemaInv'
    BY <1>0, <1>1 DEF StartReplica, SchemaInv, Coherent, InStep, ServesItsSchema, NoReplay
<1>2. ASSUME NEW s \in Replica, TakeLock(s) PROVE SchemaInv'
    BY <1>0, <1>2 DEF TakeLock, SchemaInv, Coherent, InStep, ServesItsSchema, NoReplay
<1>3. ASSUME NEW s \in Replica, Adopt(s) PROVE SchemaInv'
  <2> DEFINE h == BuildHead[s]
             new == [has |-> work.has \union UpTo(Healed, h), recorded |-> h]
  <2>1. h \in Revision /\ h # 0
      BY SchemaAssumption DEF Revision
  <2>2. /\ work' = new /\ UNCHANGED <<schema, migrating, replica>>
        /\ behind' = (behind \/ \E e \in work.has : e[1] > h)
      BY <1>3 DEF Adopt
  <2>3. new \in [has : SUBSET Effects, recorded : {0} \union Revision]
      BY <1>0, <2>1, StructureFacts DEF Coherent
  <2>4. UpTo(Structure, h) \subseteq UpTo(Healed, h)
      BY StructureFacts DEF UpTo
  <2>5. Coherent(new)
      BY <2>1, <2>3, <2>4 DEF Coherent
  <2>6. ~behind' => InStep(new)
    <3> HAVE ~behind'
    <3>1. \A e \in work.has : ~(e[1] > h)
        BY <2>2
    <3>2. \A e \in work.has : e[1] \in Revision
        BY <1>0, EffectRevisions DEF Coherent
    <3>3. \A e \in UpTo(Healed, h) : e[1] <= h
        BY DEF UpTo
    <3>4. \A e \in work.has : e[1] <= h
        BY <2>1, <3>1, <3>2 DEF Revision
    <3> QED BY <3>3, <3>4 DEF InStep
  <2>8. Coherent(work)' /\ (~behind' => InStep(work)')
      BY <2>2, <2>5, <2>6 DEF Coherent, InStep
  <2>9. ServesItsSchema' /\ NoReplay'
      BY <1>0, <2>2 DEF ServesItsSchema, NoReplay
  <2>10. Coherent(schema)' /\ (~behind' => InStep(schema)')
      BY <1>0, <2>2 DEF Coherent, InStep
  <2> QED BY <1>0, <2>2, <2>8, <2>9, <2>10 DEF SchemaInv
<1>4. ASSUME NEW s \in Replica, ApplyRevision(s) PROVE SchemaInv'
  <2> DEFINE n == work.recorded + 1
             new == [has |-> work.has \union Brings(n), recorded |-> n]
  <2>1. n \in Revision /\ work.recorded \in {0} \union Revision
      BY <1>0, <1>4, SchemaAssumption DEF ApplyRevision, Coherent, Revision
  <2>2. /\ work' = new /\ UNCHANGED <<schema, migrating, replica, behind>>
        /\ ~NeedsAdoption(work)
      BY <1>4 DEF ApplyRevision
  <2>3. new \in [has : SUBSET Effects, recorded : {0} \union Revision]
      BY <1>0, <2>1 DEF Coherent, Brings
  <2>4. UpTo(Structure, n) \subseteq UpTo(Structure, work.recorded) \union Brings(n)
    <3> SUFFICES ASSUME NEW e \in Structure, e[1] <= n
                 PROVE  e[1] <= work.recorded \/ e[1] = n
        BY StructureFacts DEF UpTo, Brings
    <3> QED BY <2>1, StructureFacts DEF Revision
  <2>5. Coherent(new)
      BY <1>0, <2>1, <2>3, <2>4 DEF Coherent, Revision
  <2>6. ~behind => InStep(new)
    <3> HAVE ~behind
    <3>1. \A e \in work.has : e[1] <= work.recorded
        BY <1>0, <2>2 DEF Coherent, InStep, NeedsAdoption
    <3>2. \A e \in work.has : e[1] \in Revision
        BY <1>0, EffectRevisions DEF Coherent
    <3>3. \A e \in Brings(n) : e[1] = n
        BY DEF Brings
    <3> HIDE DEF n
    <3>4. \A e \in work.has : e[1] <= n
        BY <2>1, <3>1, <3>2 DEF Revision, n
    <3> QED BY <2>1, <3>3, <3>4 DEF InStep, Revision
  <2>8. Coherent(work)' /\ (~behind' => InStep(work)')
      BY <2>2, <2>5, <2>6 DEF Coherent, InStep
  <2>9. ServesItsSchema' /\ NoReplay' /\ Coherent(schema)' /\ (~behind' => InStep(schema)')
      BY <1>0, <2>2 DEF ServesItsSchema, NoReplay, Coherent, InStep
  <2> QED BY <1>0, <2>2, <2>8, <2>9 DEF SchemaInv
<1>5. ASSUME NEW s \in Replica, FailStart(s) PROVE SchemaInv'
  <2>1. /\ work' = Empty /\ migrating' = NoReplica /\ UNCHANGED <<schema, behind>>
        /\ replica' = [replica EXCEPT ![s] = "failed"]
        /\ ~NeedsAdoption(work) /\ Replays(work)
      BY <1>5 DEF FailStart, Ends
  <2>2. ~InStep(work) /\ behind
    <3>1. PICK e \in work.has : e[1] = work.recorded + 1 /\ e \in Effects
        BY <2>1 DEF Replays, Brings
    <3>2. work.recorded \in {0} \union Revision /\ work.recorded # 0
        BY <1>0, <2>1, <3>1 DEF Coherent, NeedsAdoption
    <3> QED BY <1>0, <3>1, <3>2 DEF InStep, Revision
  <2>3. Coherent(work)'
      BY <2>1, EmptyCoherent DEF Coherent
  <2> QED BY <1>0, <2>1, <2>2, <2>3 DEF SchemaInv, ServesItsSchema, NoReplay, Coherent
<1>6. ASSUME NEW s \in Replica, Serve(s) PROVE SchemaInv'
  <2>1. /\ schema' = work /\ work' = Empty /\ migrating' = NoReplica /\ UNCHANGED behind
        /\ replica' = [replica EXCEPT ![s] = "serving"]
        /\ work.recorded >= BuildHead[s] /\ migrating = s
      BY <1>6 DEF Serve, Ends
  <2>2. BuildHead[s] \in Revision /\ work.recorded \in {0} \union Revision
      BY <1>0, SchemaAssumption DEF Coherent
  <2>3. UpTo(Structure, BuildHead[s]) \subseteq work.has
    <3>1. BuildHead[s] <= work.recorded
        BY <2>1, <2>2 DEF Revision
    <3> QED BY <1>0, <2>2, <3>1, StructureFacts DEF Coherent
  <2>4. schema.has \subseteq work.has
      BY <1>0, <2>1, SchemaAssumption
  <2>5. Coherent(schema)' /\ Coherent(work)' /\ (~behind' => InStep(schema)' /\ InStep(work)')
      BY <1>0, <2>1, EmptyCoherent DEF Coherent, InStep
  <2> QED BY <1>0, <2>1, <2>3, <2>4, <2>5 DEF SchemaInv, ServesItsSchema, NoReplay
<1>7. ASSUME NEW s \in Replica, StopReplica(s) PROVE SchemaInv'
  <2>1. /\ replica' = [replica EXCEPT ![s] = "down"] /\ UNCHANGED <<schema, behind>>
        /\ \/ migrating' = NoReplica /\ work' = Empty
           \/ UNCHANGED <<migrating, work>>
      BY <1>7 DEF StopReplica
  <2>2. Coherent(work)' /\ (~behind' => InStep(work)')
      BY <1>0, <2>1, EmptyCoherent DEF Coherent, InStep
  <2>3. Coherent(schema)' /\ (~behind' => InStep(schema)')
      BY <1>0, <2>1 DEF Coherent, InStep
  <2> QED BY <1>0, <2>1, <2>2, <2>3 DEF SchemaInv, ServesItsSchema, NoReplay
<1>8. ASSUME LoseVersion PROVE SchemaInv'
  <2>1. /\ schema' = [schema EXCEPT !.recorded = 0] /\ migrating = NoReplica
        /\ UNCHANGED <<work, migrating, replica, behind>>
      BY <1>8 DEF LoseVersion
  <2>2. /\ schema'.has = schema.has /\ schema'.recorded = 0
        /\ schema' \in [has : SUBSET Effects, recorded : {0} \union Revision]
      BY <1>0, <2>1 DEF Coherent
  <2>3. Coherent(schema)' /\ InStep(schema)'
      BY <1>0, <2>2, StructureFacts DEF Coherent, InStep
  <2>4. Coherent(work)' /\ (~behind' => InStep(work)')
      BY <1>0, <2>1 DEF Coherent, InStep
  <2> QED BY <1>0, <2>1, <2>2, <2>3, <2>4 DEF SchemaInv, ServesItsSchema, NoReplay
<1>9. ASSUME UNCHANGED schemaVars PROVE SchemaInv'
    BY <1>0, <1>9 DEF schemaVars, SchemaInv, Coherent, InStep, ServesItsSchema, NoReplay
<1> QED BY <1>1, <1>2, <1>3, <1>4, <1>5, <1>6, <1>7, <1>8, <1>9 DEF SchemaNext

(* A replica that serves has the structure its build was written for, and none*)
(* fails by replaying a revision that is there, for any replicas, builds and  *)
(* crashes between the revisions.                                             *)
THEOREM ServingReplicasFindTheirSchema ==
    SchemaSpec => [](SchemaTypeOK /\ ServesItsSchema /\ NoReplay)
<1>1. SchemaInv => SchemaTypeOK /\ ServesItsSchema /\ NoReplay
    BY DEF SchemaInv, SchemaTypeOK, Coherent
<1> QED BY <1>1, SchemaInitInv, SchemaStepInv, PTL DEF SchemaSpec

-----------------------------------------------------------------------------
(* The audit chain.                                                         *)

(* A log: rows by their ids, each chained to an id before its own.            *)
AuditRow == [tenant : Tenant, prev : Nat, edited : BOOLEAN]
IsLog(f, n) ==
    /\ f \in [DOMAIN f -> AuditRow] /\ DOMAIN f \subseteq 1..n
    /\ \A i \in DOMAIN f : f[i].prev < i

(* Of what tenant t sees, each row is chained to the one before; the first to *)
(* one that was pruned, or to none.                                           *)
Linked(f, t, cut) ==
    \A k \in Sees(f, t) :
        /\ ~f[k].edited
        /\ \/ /\ f[k].prev \in Sees(f, t)
              /\ \A j \in Sees(f, t) : j < k => j <= f[k].prev
           \/ f[k].prev <= cut /\ \A j \in Sees(f, t) : ~(j < k)

AuditTyped ==
    /\ auditId \in 0..MaxAudit /\ enforce \in BOOLEAN /\ tampers \in Nat
    /\ prunedTo \in [Tenant -> Nat] /\ broken \subseteq 1..auditId
    /\ holder \in AuditSession \union {Nobody}
    /\ IsLog(audit, auditId)
    /\ DOMAIN flushed = AuditSession /\ \A s \in AuditSession : IsLog(flushed[s], auditId)

(* Who holds the lock alone has rows to commit, and they are the last.        *)
FlushedLast ==
    \A s \in AuditSession :
        /\ flushed[s] # <<>> => holder = s
        /\ \A i \in DOMAIN flushed[s], j \in DOMAIN audit \union broken : j < i

EditsShow == \A i \in broken \intersect DOMAIN audit : audit[i].edited

Chained ==
    \A t \in Tenant : tampers = 0 /\ ~(enforce /\ mixed /\ t = DefaultTenant) =>
        /\ Linked(audit, t, prunedTo[t])
        /\ \A s \in AuditSession : Linked(Joined(flushed[s], audit), t, prunedTo[t])

AuditInv == AuditTyped /\ FlushedLast /\ EditsShow /\ Chained

LEMMA NoRows == DOMAIN <<>> = {} /\ \A n \in Nat : IsLog(<<>>, n)
<1>1. <<>> \in Seq(AuditRow) /\ Len(<<>>) = 0
    BY EmptySeq
<1>2. DOMAIN <<>> = 1..0
    BY <1>1, LenProperties
<1>3. DOMAIN <<>> = {}
    BY <1>2
<1>4. <<>> \in [{} -> AuditRow]
    BY <1>1, <1>2, <1>3, LenProperties
<1> QED BY <1>3, <1>4 DEF IsLog

LEMMA JoinedRows ==
    ASSUME NEW f, NEW g
    PROVE  /\ DOMAIN Joined(f, g) = DOMAIN f \union DOMAIN g
           /\ \A i \in DOMAIN f : Joined(f, g)[i] = f[i]
           /\ \A i \in DOMAIN g : i \notin DOMAIN f => Joined(f, g)[i] = g[i]
           /\ Joined(f, g) = [i \in DOMAIN f \union DOMAIN g |-> Joined(f, g)[i]]
BY DEF Joined

LEMMA JoinedLogs ==
    ASSUME NEW n \in Nat, NEW f, NEW g, IsLog(f, n), IsLog(g, n)
    PROVE  IsLog(Joined(f, g), n)
<1> DEFINE h == Joined(f, g)
<1>1. \A i \in DOMAIN h : h[i] \in AuditRow /\ h[i].prev < i /\ i \in 1..n
  <2> SUFFICES ASSUME NEW i \in DOMAIN f \union DOMAIN g
               PROVE  h[i] \in AuditRow /\ h[i].prev < i /\ i \in 1..n
      BY JoinedRows
  <2>1. h[i] = IF i \in DOMAIN f THEN f[i] ELSE g[i]
      BY DEF Joined
  <2> QED BY <2>1 DEF IsLog
<1>2. h = [i \in DOMAIN h |-> h[i]]
    BY JoinedRows
<1> HIDE DEF h
<1>3. h \in [DOMAIN h -> AuditRow]
    BY <1>1, <1>2
<1> QED BY <1>1, <1>3 DEF IsLog, h

LEMMA JoinedToNone ==
    ASSUME NEW n \in Nat, NEW g, IsLog(g, n)
    PROVE  Joined(<<>>, g) = g
<1> DEFINE h == Joined(<<>>, g)
<1>0. DOMAIN <<>> = {}
    BY NoRows
<1>1. DOMAIN h = DOMAIN g /\ \A i \in DOMAIN g : h[i] = g[i]
    BY <1>0 DEF Joined
<1>2. h = [i \in DOMAIN h |-> h[i]]
    BY JoinedRows
<1>3. g = [i \in DOMAIN g |-> g[i]]
    BY DEF IsLog
<1> HIDE DEF h
<1>4. h = g
    BY <1>1, <1>2, <1>3
<1> QED BY <1>4 DEF h

LEMMA GreatestOf ==
    ASSUME NEW S, NEW n \in Nat, S \subseteq 0..n
    PROVE  /\ Greatest(S) \in 0..n
           /\ S # {} => Greatest(S) \in S /\ \A j \in S : j <= Greatest(S)
           /\ S = {} => Greatest(S) = 0
<1>1. CASE S = {}
    BY <1>1 DEF Greatest, None
<1>2. CASE S # {}
  <2>0. S \subseteq Nat /\ \A x \in S : x <= n
      OBVIOUS
  <2>1. \E i \in S : \A j \in S : j <= i
      BY <1>2, <2>0, GreatestNat
  <2>2. Greatest(S) \in S /\ \A j \in S : j <= Greatest(S)
      BY <1>2, <2>1 DEF Greatest
  <2> QED BY <1>2, <2>2
<1> QED BY <1>1, <1>2

LEMMA GreatestIs ==
    ASSUME NEW S, S \subseteq Nat, NEW m \in S, \A j \in S : j <= m
    PROVE  Greatest(S) = m
<1>1. \E i \in S : \A j \in S : j <= i
    OBVIOUS
<1>2. Greatest(S) \in S /\ \A j \in S : j <= Greatest(S)
    BY <1>1 DEF Greatest
<1>3. Greatest(S) \in Nat /\ m \in Nat /\ m <= Greatest(S) /\ Greatest(S) <= m
    BY <1>2
<1> QED BY <1>3

(* What the walks of a verification find in a linked log.                     *)
LEMMA LinkedVerifies ==
    ASSUME AuditTyped, NEW t \in Tenant, Linked(audit, t, prunedTo[t])
    PROVE  /\ \A i \in Sees(audit, t) : Verify(t, i)
           /\ prunedTo[t] = 0 => VerifyExport(t)
<1> DEFINE V == Sees(audit, t)
<1>1. /\ V \subseteq DOMAIN audit /\ V \subseteq Nat \ {0} /\ prunedTo[t] \in Nat
      /\ \A k \in V : audit[k].prev \in Nat /\ audit[k].prev < k
    BY DEF AuditTyped, IsLog, AuditRow, Sees
<1>2. \A k \in V : /\ ~audit[k].edited
                   /\ \/ audit[k].prev \in V /\ \A j \in V : j < k => j <= audit[k].prev
                      \/ audit[k].prev <= prunedTo[t] /\ \A j \in V : ~(j < k)
    BY DEF Linked
<1> HIDE DEF V
<1>3. ASSUME NEW i \in V, NEW k \in {j \in V : j > i}
      PROVE  audit[k].prev = Greatest({j \in {h \in V : h > i} : j < k} \union {i})
  <2> DEFINE S == {j \in {h \in V : h > i} : j < k} \union {i}
  <2>1. S \subseteq Nat /\ k \in V /\ i < k /\ i \in Nat /\ k \in Nat
      BY <1>1
  <2>2. audit[k].prev \in V /\ (\A j \in V : j < k => j <= audit[k].prev) /\ audit[k].prev < k
      BY <1>1, <1>2, <2>1
  <2>3. audit[k].prev \in S /\ \A j \in S : j <= audit[k].prev
      BY <1>1, <2>1, <2>2
  <2> QED BY <2>1, <2>3, GreatestIs
<1>4. ASSUME prunedTo[t] = 0, NEW k \in V
      PROVE  audit[k].prev = Greatest({j \in V : j < k} \union {None})
  <2> DEFINE S == {j \in V : j < k} \union {None}
  <2>1. S \subseteq Nat /\ k \in Nat /\ audit[k].prev \in Nat /\ audit[k].prev < k
      BY <1>1 DEF None
  <2>2. audit[k].prev \in S /\ \A j \in S : j <= audit[k].prev
    <3>1. CASE audit[k].prev \in V /\ \A j \in V : j < k => j <= audit[k].prev
        BY <1>1, <2>1, <3>1 DEF None
    <3>2. CASE audit[k].prev <= prunedTo[t] /\ \A j \in V : ~(j < k)
        BY <1>4, <2>1, <3>2 DEF None
    <3> QED BY <1>2, <3>1, <3>2
  <2> QED BY <2>1, <2>2, GreatestIs
<1>5. ASSUME NEW i \in V PROVE Verify(t, i)
    BY <1>2, <1>3 DEF Verify, ChainOk, V
<1>6. ASSUME prunedTo[t] = 0 PROVE VerifyExport(t)
    BY <1>2, <1>4, <1>6 DEF VerifyExport, ChainOk, V
<1> QED BY <1>5, <1>6 DEF V

LEMMA AuditTells == AuditInv => AuditTypeOK /\ ChainTells
<1> SUFFICES ASSUME AuditInv PROVE AuditTypeOK /\ ChainTells
    OBVIOUS
<1>1. AuditTypeOK
    BY DEF AuditInv, AuditTyped, FlushedLast, AuditTypeOK, IsLog, AuditRow
<1>2. ChainVerifies
    BY LinkedVerifies DEF AuditInv, Chained, ChainVerifies
<1>3. ASSUME NEW t \in Tenant, NEW i \in broken, ~enforce,
             NEW j \in DOMAIN audit, j >= i, j = i \/ audit[j].prev = i, VerifyExport(t)
      PROVE  FALSE
  <2>1. Sees(audit, t) = DOMAIN audit
      BY <1>3 DEF Sees
  <2>2. \A k \in DOMAIN audit :
            /\ ~audit[k].edited
            /\ audit[k].prev = Greatest({h \in DOMAIN audit : h < k} \union {None})
      BY <1>3, <2>1 DEF VerifyExport, ChainOk
  <2>3. i \notin DOMAIN audit
      BY <2>2 DEF AuditInv, EditsShow
  <2>4. {h \in DOMAIN audit : h < j} \union {None} \subseteq 0..auditId /\ i \in 1..auditId
        /\ auditId \in Nat
      BY DEF AuditInv, AuditTyped, IsLog, None
  <2>5. audit[j].prev \in {h \in DOMAIN audit : h < j} \union {None}
      BY <2>2, <2>4, GreatestOf
  <2> QED BY <1>3, <2>3, <2>4, <2>5 DEF None
<1>4. TamperingShows
    BY <1>3 DEF TamperingShows
<1> QED BY <1>1, <1>2, <1>4 DEF ChainTells

LEMMA AuditInitInv == AuditInit => AuditInv
<1> SUFFICES ASSUME AuditInit PROVE AuditInv
    OBVIOUS
<1>1. AuditTyped
  <2>1. \A s \in AuditSession : flushed[s] = <<>>
      BY DEF AuditInit
  <2>2. auditId = 0 /\ 0 \in Nat /\ IsLog(<<>>, auditId)
      BY NoRows DEF AuditInit
  <2>3. IsLog(audit, auditId) /\ \A s \in AuditSession : IsLog(flushed[s], auditId)
      BY <2>1, <2>2 DEF AuditInit
  <2>4. prunedTo \in [Tenant -> Nat] /\ DOMAIN flushed = AuditSession /\ broken = {}
      BY DEF AuditInit
  <2>5. auditId \in 0..MaxAudit /\ tampers \in Nat /\ enforce \in BOOLEAN
      BY AuditAssumption DEF AuditInit, AuditAssumption
  <2> QED BY <2>3, <2>4, <2>5 DEF AuditInit, AuditTyped
<1>2. FlushedLast /\ EditsShow
    BY NoRows DEF AuditInit, FlushedLast, EditsShow
<1>3. \A t \in Tenant, c \in Nat : Linked(<<>>, t, c)
    BY NoRows DEF Linked, Sees
<1>4. \A s \in AuditSession : Joined(flushed[s], audit) = <<>>
    BY NoRows, JoinedToNone DEF AuditInit
<1>5. Chained
    BY <1>3, <1>4, <1>1 DEF AuditInit, Chained, AuditTyped
<1> QED BY <1>1, <1>2, <1>5 DEF AuditInv

(* Steps that only add sessions without rows: the logs of all are the audit.  *)
LEMMA Settled ==
    ASSUME AuditTyped, NEW s \in AuditSession, flushed[s] = <<>>
    PROVE  Joined(flushed[s], audit) = audit
<1>1. auditId \in Nat /\ IsLog(audit, auditId)
    BY AuditAssumption DEF AuditTyped, AuditAssumption
<1> QED BY <1>1, JoinedToNone

(* A row chained to the last one that its session sees leaves the log linked  *)
(* for every tenant that the session's chain is one with.                     *)
LEMMA LinkedOn ==
    ASSUME NEW n \in Nat, NEW f, IsLog(f, n), NEW entry \in AuditRow, NEW g,
           DOMAIN g = DOMAIN f \union {n + 1}, \A i \in DOMAIN f : g[i] = f[i], g[n + 1] = entry,
           ~entry.edited, NEW t, NEW cut \in Nat, Linked(f, t, cut),
           (enforce => entry.tenant = t) => entry.prev = Greatest(Sees(f, t))
    PROVE  Linked(g, t, cut)
<1>1. Sees(f, t) \subseteq 1..n /\ Sees(f, t) \subseteq DOMAIN f /\ DOMAIN f \subseteq 1..n
    BY DEF Sees, IsLog
<1>2. Sees(g, t) = Sees(f, t) \union {i \in {n + 1} : enforce => entry.tenant = t}
    BY <1>1 DEF Sees
<1>3. ASSUME NEW k \in Sees(f, t)
      PROVE  /\ ~g[k].edited
             /\ \/ /\ g[k].prev \in Sees(g, t)
                   /\ \A j \in Sees(g, t) : j < k => j <= g[k].prev
                \/ g[k].prev <= cut /\ \A j \in Sees(g, t) : ~(j < k)
  <2>1. g[k] = f[k] /\ k < n + 1
      BY <1>1
  <2>2. \A j \in Sees(g, t) : j < k => j \in Sees(f, t)
      BY <1>1, <1>2, <2>1
  <2> QED BY <1>2, <2>1, <2>2 DEF Linked
<1>4. ASSUME enforce => entry.tenant = t
      PROVE  /\ ~g[n + 1].edited
             /\ \/ /\ g[n + 1].prev \in Sees(g, t)
                   /\ \A j \in Sees(g, t) : j < n + 1 => j <= g[n + 1].prev
                \/ g[n + 1].prev <= cut /\ \A j \in Sees(g, t) : ~(j < n + 1)
  <2>1. Sees(f, t) \subseteq 0..n
      BY <1>1
  <2>2. \A j \in Sees(g, t) : j < n + 1 => j \in Sees(f, t)
      BY <1>2
  <2>3. entry.prev = Greatest(Sees(f, t))
      BY <1>4
  <2>4. CASE Sees(f, t) = {}
    <3>1. entry.prev = 0
        BY <2>1, <2>3, <2>4, GreatestOf
    <3> QED BY <2>2, <2>4, <3>1
  <2>5. CASE Sees(f, t) # {}
    <3>1. entry.prev \in Sees(f, t) /\ \A j \in Sees(f, t) : j <= entry.prev
        BY <2>1, <2>3, <2>5, GreatestOf
    <3> QED BY <1>2, <2>2, <3>1
  <2> QED BY <2>4, <2>5
<1> QED BY <1>2, <1>3, <1>4 DEF Linked

LEMMA AppendKeeps ==
    ASSUME AuditInv, NEW s \in AuditSession, AppendAudit(s) PROVE AuditInv'
<1>0. AuditTyped /\ FlushedLast /\ EditsShow /\ Chained
    BY DEF AuditInv
<1> DEFINE n == auditId + 1
           f == flushed[s]
<1>1. /\ holder \in {Nobody, s} /\ auditId < MaxAudit /\ holder' = s /\ auditId' = n
      /\ flushed' = [flushed EXCEPT ![s] = [i \in DOMAIN f \union {n} |->
                         IF i = n THEN NewRow(s) ELSE f[i]]]
      /\ mixed' = (mixed \/ s \in Background)
      /\ UNCHANGED <<enforce, audit, prunedTo, broken, tampers>>
    BY DEF AppendAudit, MayChain
<1>2. /\ auditId \in Nat /\ MaxAudit \in Nat /\ IsLog(audit, auditId) /\ IsLog(f, auditId)
      /\ DOMAIN flushed = AuditSession /\ n \in 0..MaxAudit /\ n \in Nat
    BY <1>0, <1>1, AuditAssumption DEF AuditTyped, AuditAssumption
<1> DEFINE g == [i \in DOMAIN f \union {n} |-> IF i = n THEN NewRow(s) ELSE f[i]]
<1>3. \A q \in AuditSession : flushed'[q] = IF q = s THEN g ELSE flushed[q]
    BY <1>1, <1>2
<1>4. \A q \in AuditSession \ {s} : flushed[q] = <<>>
    BY <1>0, <1>1, SessionAssumption DEF FlushedLast
<1>5. NewRow(s) \in AuditRow /\ NewRow(s).prev < n /\ ~NewRow(s).edited
      /\ NewRow(s).tenant = RowTenant(s) /\ NewRow(s).prev = Greatest(Visible(s))
  <2>1. RowTenant(s) \in Tenant
      BY AuditAssumption DEF RowTenant, AuditAssumption
  <2>2. Visible(s) \subseteq DOMAIN f \union DOMAIN audit
      BY DEF Visible, Sees, Joined
  <2>3. Visible(s) \subseteq 0..auditId
      BY <1>2, <2>2 DEF IsLog
  <2>4. Greatest(Visible(s)) \in 0..auditId
      BY <1>2, <2>3, GreatestOf
  <2> QED BY <1>2, <2>1, <2>4 DEF NewRow, LastRow, AuditRow
<1>6. /\ DOMAIN g = DOMAIN f \union {n} /\ g[n] = NewRow(s)
      /\ \A i \in DOMAIN f : g[i] = f[i] /\ i \in 1..auditId /\ i # n
    BY <1>2 DEF IsLog
<1> HIDE DEF g
<1>7. IsLog(g, n) /\ \A h : IsLog(h, auditId) => IsLog(h, n)
  <2>1. \A i \in DOMAIN g : g[i] \in AuditRow /\ i \in 1..n /\ g[i].prev < i
      BY <1>2, <1>5, <1>6 DEF IsLog
  <2>2. g = [i \in DOMAIN g |-> g[i]]
      BY <1>6 DEF g
  <2>3. g \in [DOMAIN g -> AuditRow]
      BY <2>1, <2>2
  <2>4. 1..auditId \subseteq 1..n
      BY <1>2
  <2> QED BY <2>1, <2>3, <2>4 DEF IsLog
<1>8. AuditTyped'
  <2>1. \A q \in AuditSession : IsLog(flushed'[q], n)
      BY <1>0, <1>3, <1>7 DEF AuditTyped
  <2>2. DOMAIN flushed' = AuditSession
      BY <1>1, <1>2
  <2>3. broken' \subseteq 1..n
      BY <1>0, <1>1, <1>2 DEF AuditTyped
  <2>4. IsLog(audit', n)
      BY <1>1, <1>2, <1>7
  <2> QED BY <1>0, <1>1, <1>2, <2>1, <2>2, <2>3, <2>4 DEF AuditTyped, IsLog
<1>9. FlushedLast'
  <2>1. \A j \in DOMAIN audit \union broken : j \in 1..auditId
      BY <1>0 DEF AuditTyped, IsLog
  <2>2. \A i \in DOMAIN g, j \in DOMAIN audit \union broken : j < i
      BY <1>0, <1>2, <1>6, <2>1 DEF FlushedLast
  <2> QED BY <1>0, <1>1, <1>3, <1>4, <2>2 DEF FlushedLast
<1>10. EditsShow'
    BY <1>0, <1>1 DEF EditsShow
<1>11. Chained'
  <2> SUFFICES ASSUME NEW t \in Tenant, tampers = 0, ~(enforce /\ mixed' /\ t = DefaultTenant)
               PROVE  /\ Linked(audit, t, prunedTo[t])'
                      /\ \A q \in AuditSession : Linked(Joined(flushed[q], audit), t, prunedTo[t])'
      BY <1>1 DEF Chained
  <2>1. /\ Linked(audit, t, prunedTo[t])
        /\ \A q \in AuditSession : Linked(Joined(flushed[q], audit), t, prunedTo[t])
      BY <1>0, <1>1 DEF Chained
  <2>2. \A q \in AuditSession \ {s} : Linked(Joined(flushed'[q], audit), t, prunedTo[t])
      BY <1>3, <2>1
  <2> DEFINE all == Joined(f, audit)
             more == Joined(g, audit)
  <2>3. IsLog(all, auditId) /\ Linked(all, t, prunedTo[t])
      BY <1>2, <2>1, JoinedLogs
  <2>4. /\ DOMAIN more = DOMAIN all \union {n} /\ more[n] = NewRow(s)
        /\ \A i \in DOMAIN all : more[i] = all[i]
    <3>1. n \notin DOMAIN audit
        BY <1>2 DEF IsLog
    <3> QED BY <1>6, <3>1 DEF Joined
  <2>5. (enforce => NewRow(s).tenant = t) => NewRow(s).prev = Greatest(Sees(all, t))
    <3>1. ASSUME enforce => NewRow(s).tenant = t PROVE Visible(s) = Sees(all, t)
      <4>1. CASE ~enforce
          BY <4>1 DEF Visible, Sees
      <4>2. CASE enforce /\ s \notin Background
        <5>1. s \in TenantRequest /\ t = TenantOf[s]
            BY <1>5, <3>1, <4>2 DEF RowTenant, AuditSession
        <5> QED BY <4>2, <5>1 DEF Visible
      <4>3. CASE enforce /\ s \in Background
          BY <1>1, <1>5, <3>1, <4>3, SessionAssumption DEF RowTenant
      <4> QED BY <4>1, <4>2, <4>3
    <3> QED BY <1>5, <3>1
  <2>6. prunedTo[t] \in Nat
      BY <1>0 DEF AuditTyped
  <2> HIDE DEF all, more
  <2>7. Linked(more, t, prunedTo[t])
      BY <1>2, <1>5, <2>3, <2>4, <2>5, <2>6, LinkedOn
  <2>8. \A q \in AuditSession : Linked(Joined(flushed'[q], audit), t, prunedTo[t])
      BY <1>3, <2>2, <2>7 DEF more
  <2>9. \A q \in AuditSession : Joined(flushed[q], audit)' = Joined(flushed'[q], audit)
      BY <1>1 DEF Joined
  <2>10. Linked(audit, t, prunedTo[t])'
      BY <1>1, <2>1 DEF Linked, Sees
  <2>11. ASSUME NEW q \in AuditSession PROVE Linked(Joined(flushed[q], audit), t, prunedTo[t])'
    <3> DEFINE h == Joined(flushed'[q], audit)
    <3>1. Linked(h, t, prunedTo[t]) /\ Joined(flushed[q], audit)' = h
        BY <2>8, <2>9
    <3> HIDE DEF h
    <3> QED BY <1>1, <3>1 DEF Linked, Sees
  <2> QED BY <2>10, <2>11
<1> QED BY <1>8, <1>9, <1>10, <1>11 DEF AuditInv

LEMMA CommitKeeps ==
    ASSUME AuditInv, NEW s \in AuditSession, CommitAudit(s) PROVE AuditInv'
<1>0. AuditTyped /\ FlushedLast /\ EditsShow /\ Chained
    BY DEF AuditInv
<1>1. /\ flushed[s] # <<>> /\ audit' = Joined(flushed[s], audit)
      /\ flushed' = [flushed EXCEPT ![s] = <<>>]
      /\ holder' = IF holder = s THEN Nobody ELSE holder
      /\ UNCHANGED <<enforce, auditId, prunedTo, mixed, broken, tampers>>
    BY DEF CommitAudit
<1>2. /\ auditId \in Nat /\ IsLog(audit, auditId) /\ IsLog(flushed[s], auditId)
      /\ DOMAIN flushed = AuditSession
    BY <1>0, AuditAssumption DEF AuditTyped, AuditAssumption
<1>3. \A q \in AuditSession : flushed'[q] = <<>>
    BY <1>0, <1>1, <1>2 DEF FlushedLast
<1>4. IsLog(audit', auditId)
    BY <1>1, <1>2, JoinedLogs
<1>5. AuditTyped'
  <2>1. \A q \in AuditSession : IsLog(flushed'[q], auditId)
      BY <1>2, <1>3, NoRows
  <2>2. DOMAIN flushed' = AuditSession
      BY <1>1, <1>2
  <2> QED BY <1>0, <1>1, <1>4, <2>1, <2>2 DEF AuditTyped, IsLog
<1>6. FlushedLast'
    BY <1>3, NoRows DEF FlushedLast
<1>7. EditsShow'
  <2> SUFFICES ASSUME NEW i \in broken, i \in DOMAIN audit' PROVE audit'[i].edited
      BY <1>1 DEF EditsShow
  <2>1. i \in Int /\ i \notin DOMAIN flushed[s]
      BY <1>0 DEF AuditTyped, FlushedLast
  <2>2. i \in DOMAIN audit /\ audit'[i] = audit[i]
      BY <1>1, <2>1 DEF Joined
  <2> QED BY <1>0, <2>2 DEF EditsShow
<1>8. Chained'
  <2> SUFFICES ASSUME NEW t \in Tenant, tampers = 0, ~(enforce /\ mixed /\ t = DefaultTenant)
               PROVE  /\ Linked(audit, t, prunedTo[t])'
                      /\ \A q \in AuditSession : Linked(Joined(flushed[q], audit), t, prunedTo[t])'
      BY <1>1 DEF Chained
  <2>1. Linked(audit', t, prunedTo[t])
      BY <1>0, <1>1 DEF Chained
  <2>2. \A q \in AuditSession : Joined(flushed[q], audit)' = audit'
      BY <1>2, <1>3, <1>4, JoinedToNone
  <2> QED BY <1>1, <2>1, <2>2 DEF Linked, Sees
<1> QED BY <1>5, <1>6, <1>7, <1>8 DEF AuditInv

LEMMA RollbackKeeps ==
    ASSUME AuditInv, NEW s \in AuditSession, RollbackAudit(s) PROVE AuditInv'
<1>0. AuditTyped /\ FlushedLast /\ EditsShow /\ Chained
    BY DEF AuditInv
<1>1. /\ flushed[s] # <<>> /\ flushed' = [flushed EXCEPT ![s] = <<>>]
      /\ holder' = IF holder = s THEN Nobody ELSE holder
      /\ UNCHANGED <<enforce, auditId, audit, prunedTo, mixed, broken, tampers>>
    BY DEF RollbackAudit
<1>2. /\ auditId \in Nat /\ IsLog(audit, auditId) /\ DOMAIN flushed = AuditSession
    BY <1>0, AuditAssumption DEF AuditTyped, AuditAssumption
<1>3. \A q \in AuditSession : flushed'[q] = <<>>
    BY <1>0, <1>1, <1>2 DEF FlushedLast
<1>5. AuditTyped'
  <2>1. \A q \in AuditSession : IsLog(flushed'[q], auditId)
      BY <1>2, <1>3, NoRows
  <2>2. DOMAIN flushed' = AuditSession
      BY <1>1, <1>2
  <2> QED BY <1>0, <1>1, <2>1, <2>2 DEF AuditTyped, IsLog
<1>6. FlushedLast' /\ EditsShow'
    BY <1>0, <1>1, <1>3, NoRows DEF FlushedLast, EditsShow
<1>8. Chained'
  <2> SUFFICES ASSUME NEW t \in Tenant, tampers = 0, ~(enforce /\ mixed /\ t = DefaultTenant)
               PROVE  /\ Linked(audit, t, prunedTo[t])'
                      /\ \A q \in AuditSession : Linked(Joined(flushed[q], audit), t, prunedTo[t])'
      BY <1>1 DEF Chained
  <2>1. Linked(audit, t, prunedTo[t])
      BY <1>0 DEF Chained
  <2>2. \A q \in AuditSession : Joined(flushed[q], audit)' = audit
      BY <1>1, <1>2, <1>3, JoinedToNone
  <2> QED BY <1>1, <2>1, <2>2 DEF Linked, Sees
<1> QED BY <1>5, <1>6, <1>8 DEF AuditInv

(* Retention leaves the log linked: what it removes of a tenant are the first *)
(* rows, up to where the tenant counts as pruned.                             *)
LEMMA LinkedPruned ==
    ASSUME NEW n \in Nat, NEW f, IsLog(f, n), NEW g, DOMAIN g \subseteq DOMAIN f,
           \A i \in DOMAIN g : g[i] = f[i], NEW t, NEW cut \in Nat, NEW to \in Nat, cut <= to,
           \A i \in Sees(f, t) \ DOMAIN g :
               i <= to /\ \A j \in Sees(f, t) : j < i => j \notin DOMAIN g,
           Linked(f, t, cut)
    PROVE  Linked(g, t, to)
<1>1. Sees(f, t) \subseteq 1..n /\ Sees(g, t) = Sees(f, t) \intersect DOMAIN g
    BY DEF Sees, IsLog
<1> SUFFICES ASSUME NEW k \in Sees(g, t)
             PROVE  /\ ~g[k].edited
                    /\ \/ /\ g[k].prev \in Sees(g, t)
                          /\ \A j \in Sees(g, t) : j < k => j <= g[k].prev
                       \/ g[k].prev <= to /\ \A j \in Sees(g, t) : ~(j < k)
    BY DEF Linked
<1>2. /\ g[k] = f[k] /\ k \in Sees(f, t) /\ ~f[k].edited /\ k \in DOMAIN f
      /\ f[k].prev \in Nat
    BY <1>1 DEF Linked, Sees, IsLog, AuditRow
<1>3. CASE f[k].prev \in Sees(f, t) /\ \A j \in Sees(f, t) : j < k => j <= f[k].prev
  <2>1. CASE f[k].prev \in DOMAIN g
      BY <1>1, <1>2, <1>3, <2>1
  <2>2. CASE f[k].prev \notin DOMAIN g
    <3>1. f[k].prev <= to /\ \A j \in Sees(f, t) : j < f[k].prev => j \notin DOMAIN g
        BY <1>3, <2>2
    <3>2. ASSUME NEW j \in Sees(g, t), j < k PROVE FALSE
      <4>1. j \in Sees(f, t) /\ j \in DOMAIN g /\ j <= f[k].prev /\ j # f[k].prev /\ j \in Int
          BY <1>1, <1>3, <2>2, <3>2
      <4> QED BY <1>2, <3>1, <4>1
    <3> QED BY <1>2, <3>1, <3>2
  <2> QED BY <2>1, <2>2
<1>4. CASE f[k].prev <= cut /\ \A j \in Sees(f, t) : ~(j < k)
    BY <1>1, <1>2, <1>4
<1> QED BY <1>2, <1>3, <1>4 DEF Linked

LEMMA PruneKeeps ==
    ASSUME AuditInv, NEW s \in AuditSession, PruneAudit(s) PROVE AuditInv'
<1>0. AuditTyped /\ FlushedLast /\ EditsShow /\ Chained
    BY DEF AuditInv
<1> DEFINE seen == IF s \in Background THEN DOMAIN audit ELSE Sees(audit, TenantOf[s])
<1>1. PICK cutoff \in 1..auditId :
          LET old == {i \in seen : i <= cutoff} IN
          /\ audit' = Keep(DOMAIN audit \ old)
          /\ prunedTo' = [t \in Tenant |->
               IF enforce /\ s \in TenantRequest /\ t # TenantOf[s] THEN prunedTo[t]
               ELSE IF cutoff > prunedTo[t] THEN cutoff ELSE prunedTo[t]]
          /\ UNCHANGED <<enforce, auditId, flushed, holder, mixed, broken, tampers>>
    BY DEF PruneAudit
<1> DEFINE kept == DOMAIN audit \ {i \in seen : i <= cutoff}
<1>2. /\ auditId \in Nat /\ IsLog(audit, auditId) /\ DOMAIN flushed = AuditSession
      /\ prunedTo \in [Tenant -> Nat] /\ cutoff \in Nat
    BY <1>0, AuditAssumption DEF AuditTyped, AuditAssumption
<1>3. /\ DOMAIN audit' = kept /\ \A i \in kept : audit'[i] = audit[i] /\ i \in DOMAIN audit
      /\ audit' = [i \in kept |-> audit[i]]
    BY <1>1 DEF Keep
<1>4. \A t \in Tenant : prunedTo'[t] \in Nat /\ prunedTo[t] <= prunedTo'[t]
    BY <1>1, <1>2
<1>5. \A t \in Tenant : \/ enforce /\ s \in TenantRequest /\ t # TenantOf[s]
                        \/ cutoff <= prunedTo'[t]
    BY <1>1, <1>2
<1>6. IsLog(audit', auditId)
    BY <1>2, <1>3 DEF IsLog
<1>7. AuditTyped'
  <2>1. prunedTo' \in [Tenant -> Nat]
      BY <1>1, <1>2, <1>4
  <2> QED BY <1>0, <1>1, <1>6, <2>1 DEF AuditTyped, IsLog
<1>8. FlushedLast' /\ EditsShow'
    BY <1>0, <1>1, <1>3 DEF FlushedLast, EditsShow
<1>9. ASSUME NEW t \in Tenant, NEW i \in Sees(audit, t), i \notin kept
      PROVE  i <= prunedTo'[t] /\ \A j \in Sees(audit, t) : j < i => j \notin kept
  <2>1. i \in seen /\ i <= cutoff /\ Sees(audit, t) \subseteq DOMAIN audit
      BY <1>9 DEF Sees
  <2>2. ~(enforce /\ s \in TenantRequest /\ t # TenantOf[s])
      BY <1>9, <2>1, SessionAssumption DEF Sees
  <2>3. Sees(audit, t) \subseteq seen
      BY <2>2 DEF Sees, AuditSession
  <2>4. cutoff <= prunedTo'[t] /\ Sees(audit, t) \subseteq Int /\ i \in Int
      BY <1>2, <1>5, <1>9, <2>1, <2>2 DEF IsLog
  <2> QED BY <1>2, <1>4, <2>1, <2>3, <2>4
<1>10. Chained'
  <2> SUFFICES ASSUME NEW t \in Tenant, tampers = 0, ~(enforce /\ mixed /\ t = DefaultTenant)
               PROVE  /\ Linked(audit, t, prunedTo[t])'
                      /\ \A q \in AuditSession : Linked(Joined(flushed[q], audit), t, prunedTo[t])'
      BY <1>1 DEF Chained
  <2>1. /\ Linked(audit, t, prunedTo[t])
        /\ \A q \in AuditSession : Linked(Joined(flushed[q], audit), t, prunedTo[t])
      BY <1>0 DEF Chained
  <2>2. /\ prunedTo[t] \in Nat /\ prunedTo'[t] \in Nat /\ prunedTo[t] <= prunedTo'[t]
      BY <1>2, <1>4
  <2>3. Linked(audit', t, prunedTo'[t])
      BY <1>2, <1>3, <1>9, <2>1, <2>2, LinkedPruned
  <2>4. ASSUME NEW q \in AuditSession
        PROVE  Linked(Joined(flushed[q], audit'), t, prunedTo'[t])
    <3> DEFINE f == Joined(flushed[q], audit)
               g == Joined(flushed[q], audit')
    <3>1. IsLog(flushed[q], auditId) /\ IsLog(f, auditId)
        BY <1>0, <1>2, JoinedLogs DEF AuditTyped
    <3>2. DOMAIN g \subseteq DOMAIN f /\ \A i \in DOMAIN g : g[i] = f[i]
        BY <1>3 DEF Joined
    <3>3. \A i \in DOMAIN flushed[q], j \in DOMAIN audit : j < i /\ i \in Int /\ j \in Int
        BY <1>0, <1>2, <3>1 DEF FlushedLast, IsLog
    <3>4. ASSUME NEW i \in Sees(f, t), i \notin DOMAIN g
          PROVE  i <= prunedTo'[t] /\ \A j \in Sees(f, t) : j < i => j \notin DOMAIN g
      <4>1. i \in DOMAIN audit /\ i \notin DOMAIN flushed[q] /\ i \notin kept
          BY <1>3, <3>4 DEF Sees, Joined
      <4>2. i \in Sees(audit, t)
          BY <3>4, <4>1 DEF Sees, Joined
      <4>3. ASSUME NEW j \in Sees(f, t), j < i PROVE j \notin DOMAIN g
        <5>1. j \in DOMAIN audit /\ j \notin DOMAIN flushed[q]
            BY <3>3, <4>1, <4>3 DEF Sees, Joined
        <5>2. j \in Sees(audit, t)
            BY <5>1 DEF Sees, Joined
        <5>3. j \notin kept
            BY <1>9, <4>1, <4>2, <4>3, <5>2
        <5> QED BY <1>3, <5>1, <5>3 DEF Joined
      <4> QED BY <1>9, <4>1, <4>2, <4>3
    <3>5. Linked(f, t, prunedTo[t])
        BY <2>1
    <3> HIDE DEF f, g
    <3>6. Linked(g, t, prunedTo'[t])
        BY <1>2, <2>2, <3>1, <3>2, <3>4, <3>5, LinkedPruned
    <3> QED BY <3>6 DEF g
  <2>5. \A q \in AuditSession : Joined(flushed[q], audit)' = Joined(flushed[q], audit')
      BY <1>1 DEF Joined
  <2>6. enforce' = enforce
      BY <1>1
  <2>7. Linked(audit, t, prunedTo[t])'
      BY <2>3, <2>6 DEF Linked, Sees
  <2>8. \A q \in AuditSession : Linked(Joined(flushed[q], audit), t, prunedTo[t])'
      BY <2>4, <2>5, <2>6 DEF Linked, Sees
  <2> QED BY <2>7, <2>8
<1> QED BY <1>7, <1>8, <1>10 DEF AuditInv

LEMMA TamperKeeps ==
    ASSUME AuditInv, Tamper PROVE AuditInv'
<1>0. AuditTyped /\ FlushedLast /\ EditsShow
    BY DEF AuditInv
<1>1. PICK i \in DOMAIN audit :
        /\ tampers' = tampers + 1
        /\ \/ audit' = [audit EXCEPT ![i].edited = TRUE] /\ broken' = broken \union {i}
           \/ /\ audit' = Keep(DOMAIN audit \ {i})
              /\ broken' = broken \union {i} \/ broken' = broken
        /\ UNCHANGED <<enforce, auditId, flushed, holder, prunedTo, mixed>>
    BY DEF Tamper
<1>2. auditId \in Nat /\ IsLog(audit, auditId) /\ i \in 1..auditId
    BY <1>0, AuditAssumption DEF AuditTyped, AuditAssumption, IsLog
<1>3. /\ DOMAIN audit' \subseteq DOMAIN audit /\ broken' \subseteq broken \union {i}
      /\ IsLog(audit', auditId) /\ EditsShow'
  <2>1. CASE audit' = [audit EXCEPT ![i].edited = TRUE] /\ broken' = broken \union {i}
    <3> DEFINE entry == [audit[i] EXCEPT !.edited = TRUE]
    <3>1. audit[i] \in AuditRow
        BY <1>2 DEF IsLog
    <3>2. entry \in AuditRow /\ entry.prev = audit[i].prev /\ entry.edited
        BY <3>1 DEF AuditRow
    <3>3. audit' = [audit EXCEPT ![i] = entry]
        BY <2>1
    <3> HIDE DEF entry
    <3> QED BY <1>0, <1>2, <2>1, <3>2, <3>3 DEF IsLog, EditsShow
  <2>2. CASE /\ audit' = Keep(DOMAIN audit \ {i})
             /\ broken' = broken \union {i} \/ broken' = broken
      BY <1>0, <1>2, <2>2 DEF Keep, IsLog, EditsShow
  <2> QED BY <1>1, <2>1, <2>2
<1>4. AuditTyped'
    BY <1>0, <1>1, <1>2, <1>3 DEF AuditTyped, IsLog
<1>5. FlushedLast'
    BY <1>0, <1>1, <1>3 DEF FlushedLast
<1>6. Chained'
  <2>1. tampers' # 0
      BY <1>0, <1>1 DEF AuditTyped
  <2> QED BY <2>1 DEF Chained
<1> QED BY <1>3, <1>4, <1>5, <1>6 DEF AuditInv

LEMMA AuditStepInv == AuditInv /\ [AuditNext]_auditVars => AuditInv'
<1> SUFFICES ASSUME AuditInv, [AuditNext]_auditVars PROVE AuditInv'
    OBVIOUS
<1>1. ASSUME NEW s \in AuditSession,
             AppendAudit(s) \/ CommitAudit(s) \/ RollbackAudit(s) \/ PruneAudit(s)
      PROVE  AuditInv'
    BY <1>1, AppendKeeps, CommitKeeps, RollbackKeeps, PruneKeeps
<1>2. CASE UNCHANGED auditVars
  <2>1. AuditTyped' /\ FlushedLast' /\ EditsShow'
      BY <1>2 DEF auditVars, AuditInv, AuditTyped, IsLog, FlushedLast, EditsShow
  <2>2. \A q \in AuditSession : Joined(flushed[q], audit)' = Joined(flushed[q], audit)
      BY <1>2 DEF auditVars, Joined
  <2>3. Chained'
      BY <1>2, <2>2, SMTT(30) DEF auditVars, AuditInv, Chained, Linked, Sees
  <2> QED BY <2>1, <2>3 DEF AuditInv
<1> QED BY <1>1, <1>2, TamperKeeps DEF AuditNext

(* An untampered log verifies from every row that is kept, and from its start *)
(* while nothing was pruned, and a tampered one never does again, for any     *)
(* sessions, tenants, prunings and rollbacks (_chain_audit_log and its lock). *)
THEOREM AuditChainTells == AuditSpec => [](AuditTypeOK /\ ChainTells)
<1> QED BY AuditInitInv, AuditStepInv, AuditTells, PTL DEF AuditSpec

-----------------------------------------------------------------------------
(* Who a bearer token stands for.                                           *)

Kinds == {"token", "session"}
Roles == {{"read"}, {"write"}}
Looking == [step : {"look"}, kind : Kinds, cred : Credential, age : 0..LATENCY]
Reading == [step : {"roles", "put"}, kind : Kinds, cred : Credential, age : 0..LATENCY,
            ok : BOOLEAN, scopes : SUBSET {"read", "write"}]
Entry == [left : 0..AUTH_CACHE_TTL, ok : BOOLEAN, scopes : SUBSET {"read", "write"}]

(* An answer the tables gave at most n ticks ago: the validity of the key, and *)
(* the roles of its subject.                                                   *)
GivenAs(k, ok, n) == said[<<k, ok>>] <= n /\ (ok => row[k[2]] # Unused)
RolesAs(k, s, n) == s \in Roles /\ granted[<<row[k[2]].user, s>>] <= n
Answer(k, ok, s, n) == GivenAs(k, ok, n) /\ (ok => RolesAs(k, s, n))

RowsTrue ==
    /\ row \in [Credential -> [user : User \cup {"none"}, left : Nat, revoked : BOOLEAN]]
    /\ \A c \in Credential : row[c].user = "none" => row[c] = Unused
AgesTrue == said \in [Key \X BOOLEAN -> 0..Old] /\ granted \in [User \X Roles -> 0..Old]

(* A session that a callback holds has no row yet, and is held by one only.    *)
LoginsTrue ==
    /\ login \in [User -> {"none", "read", "done"} \cup Session]
    /\ \A u \in User : login[u] \in Session => row[login[u]] = Unused
    /\ \A u, v \in User : u # v /\ login[u] \in Session => login[u] # login[v]

EntrySound(k, e) ==
    /\ e \in Entry
    /\ e.left > 0 => Answer(k, e.ok, e.scopes, Old - e.left)
CacheTrue == DOMAIN cache \subseteq Key /\ \A k \in DOMAIN cache : EntrySound(k, cache[k])

ResolutionSound(r) ==
    /\ r \in {NoRequest} \cup Looking \cup Reading
    /\ r.step = "roles" => r.ok /\ GivenAs(<<r.kind, r.cred>>, TRUE, r.age)
    /\ r.step = "put" => Answer(<<r.kind, r.cred>>, r.ok, r.scopes, r.age)
RequestsTrue == DOMAIN request = Resolver /\ \A q \in Resolver : ResolutionSound(request[q])

AccessInv == RowsTrue /\ AgesTrue /\ LoginsTrue /\ CacheTrue /\ RequestsTrue

LEMMA AccessNumbers ==
    /\ AUTH_CACHE_TTL \in Nat \ {0} /\ LATENCY \in Nat \ {0} /\ SESSION_TTL \in Nat \ {0}
    /\ Old = AUTH_CACHE_TTL + LATENCY /\ Old \in Nat
    /\ "none" \notin User /\ "group" \notin User
    /\ "none" \notin Session /\ "read" \notin Session /\ "done" \notin Session
BY AccessAssumption DEF AccessAssumption, Old

(* The row of a credential, once there, stays and keeps its user.              *)
RowsKept == \A c \in Credential : row[c] # Unused => row'[c] # Unused /\ row'[c].user = row[c].user

LEMMA AgesGrow ==
    ASSUME AccessInv, NEW t \in {0, 1}, RememberAfter(t)
    PROVE  /\ AgesTrue'
           /\ \A k \in Key, b \in BOOLEAN : said'[<<k, b>>] <= said[<<k, b>>] + t
           /\ \A u \in User, s \in Roles : granted'[<<u, s>>] <= granted[<<u, s>>] + t
           /\ \A k \in Key : said'[<<k, Valid(k)'>>] = 0
           /\ \A u \in User : Scopes(u)' \in Roles /\ granted'[<<u, Scopes(u)'>>] = 0
<1>1. /\ said \in [Key \X BOOLEAN -> 0..Old] /\ granted \in [User \X Roles -> 0..Old]
      /\ Old \in Nat
    BY AccessNumbers DEF AccessInv, AgesTrue
<1>2. \A n \in 0..Old : Aged(n, t) \in 0..Old /\ Aged(n, t) <= n + t
    BY <1>1 DEF Aged
<1>3. \A u : Scopes(u)' \in Roles
    BY DEF Scopes, Roles
<1>4. \A k : Valid(k)' \in BOOLEAN
    BY DEF Valid
<1>5. said' = [kb \in Key \X BOOLEAN |->
                   IF Valid(kb[1])' = kb[2] THEN 0 ELSE Aged(said[kb], t)]
    BY DEF RememberAfter
<1>6. granted' = [us \in User \X Roles |->
                      IF Scopes(us[1])' = us[2] THEN 0 ELSE Aged(granted[us], t)]
    BY DEF RememberAfter, Roles
<1>7. /\ \A k \in Key, b \in BOOLEAN :
            said'[<<k, b>>] = IF Valid(k)' = b THEN 0 ELSE Aged(said[<<k, b>>], t)
      /\ DOMAIN said' = Key \X BOOLEAN
    BY <1>5
<1>8. /\ \A u \in User, s \in Roles :
            granted'[<<u, s>>] = IF Scopes(u)' = s THEN 0 ELSE Aged(granted[<<u, s>>], t)
      /\ DOMAIN granted' = User \X Roles
    BY <1>6
<1>9. said' \in [Key \X BOOLEAN -> 0..Old]
  <2>1. \A kb \in Key \X BOOLEAN : said[kb] \in 0..Old /\ Aged(said[kb], t) \in 0..Old
      BY <1>1, <1>2
  <2>2. 0 \in 0..Old
      BY <1>1
  <2> QED BY <1>5, <2>1, <2>2
<1>10. granted' \in [User \X Roles -> 0..Old]
  <2>1. \A us \in User \X Roles : granted[us] \in 0..Old /\ Aged(granted[us], t) \in 0..Old
      BY <1>1, <1>2
  <2>2. 0 \in 0..Old
      BY <1>1
  <2> QED BY <1>6, <2>1, <2>2
<1>11. \A k \in Key, b \in BOOLEAN : said'[<<k, b>>] <= said[<<k, b>>] + t
  <2> SUFFICES ASSUME NEW k \in Key, NEW b \in BOOLEAN
               PROVE  said'[<<k, b>>] <= said[<<k, b>>] + t
      OBVIOUS
  <2>1. PICK n \in 0..Old : n = said[<<k, b>>]
      BY <1>1
  <2> QED BY <1>1, <1>2, <1>7, <2>1
<1>12. \A u \in User, s \in Roles : granted'[<<u, s>>] <= granted[<<u, s>>] + t
  <2> SUFFICES ASSUME NEW u \in User, NEW s \in Roles
               PROVE  granted'[<<u, s>>] <= granted[<<u, s>>] + t
      OBVIOUS
  <2>1. PICK n \in 0..Old : n = granted[<<u, s>>]
      BY <1>1
  <2> QED BY <1>1, <1>2, <1>8, <2>1
<1> QED BY <1>3, <1>4, <1>7, <1>8, <1>9, <1>10, <1>11, <1>12 DEF AgesTrue

LEMMA AnswersAge ==
    ASSUME AccessInv, NEW t \in {0, 1}, RememberAfter(t), RowsKept,
           NEW k \in Key, NEW ok \in BOOLEAN, NEW s, NEW n \in Nat
    PROVE  /\ GivenAs(k, ok, n) => GivenAs(k, ok, n + t)'
           /\ Answer(k, ok, s, n) => Answer(k, ok, s, n + t)'
<1>1. /\ said[<<k, ok>>] \in 0..Old /\ said'[<<k, ok>>] \in 0..Old
      /\ said'[<<k, ok>>] <= said[<<k, ok>>] + t /\ Old \in Nat
    BY AgesGrow, AccessNumbers DEF AccessInv, AgesTrue
<1>2. k[2] \in Credential
    BY DEF Key
<1>3. GivenAs(k, ok, n) => GivenAs(k, ok, n + t)'
    BY <1>1, <1>2 DEF GivenAs, RowsKept
<1>4. ASSUME Answer(k, ok, s, n), ok PROVE RolesAs(k, s, n + t)'
  <2>1. row[k[2]] # Unused /\ RolesAs(k, s, n)
      BY <1>4 DEF Answer, GivenAs
  <2>2. PICK u \in User : u = row[k[2]].user /\ u = row'[k[2]].user
      BY <1>2, <2>1 DEF RowsKept, AccessInv, RowsTrue
  <2>3. /\ granted[<<u, s>>] \in 0..Old /\ granted'[<<u, s>>] \in 0..Old
        /\ granted'[<<u, s>>] <= granted[<<u, s>>] + t
      BY <2>1, <2>2, AgesGrow DEF AccessInv, AgesTrue, RolesAs
  <2> QED BY <1>1, <2>1, <2>2, <2>3 DEF RolesAs
<1> QED BY <1>3, <1>4 DEF Answer

LEMMA SoundnessAges ==
    ASSUME AccessInv, NEW t \in {0, 1}, RememberAfter(t), RowsKept
    PROVE  /\ \A k \in Key : \A e, f :
                 EntrySound(k, e) /\ f \in Entry /\ f.ok = e.ok /\ f.scopes = e.scopes
                   /\ (f.left > 0 => e.left = f.left + t)
                 => EntrySound(k, f)'
           /\ \A r, s \in Reading :
                 ResolutionSound(r) /\ s.step = r.step /\ s.kind = r.kind /\ s.cred = r.cred
                   /\ s.age = r.age + t /\ s.ok = r.ok /\ s.scopes = r.scopes
                 => ResolutionSound(s)'
<1>1. ASSUME NEW k \in Key, NEW e, NEW f, EntrySound(k, e), f \in Entry, f.ok = e.ok,
             f.scopes = e.scopes, f.left > 0 => e.left = f.left + t
      PROVE  EntrySound(k, f)'
  <2>1. CASE f.left > 0
    <3>1. /\ e.left > 0 /\ Answer(k, e.ok, e.scopes, Old - e.left) /\ e.ok \in BOOLEAN
          /\ Old - e.left \in Nat /\ Old - f.left = (Old - e.left) + t
        BY <1>1, <2>1, AccessNumbers DEF EntrySound, Entry
    <3>2. PICK n \in Nat : n = Old - e.left
        BY <3>1
    <3>3. Answer(k, e.ok, e.scopes, n + t)'
        BY <3>1, <3>2, AnswersAge
    <3> QED BY <1>1, <3>1, <3>2, <3>3 DEF EntrySound
  <2> QED BY <1>1, <2>1 DEF EntrySound
<1>2. ASSUME NEW r \in Reading, NEW s \in Reading, ResolutionSound(r), s.step = r.step,
             s.kind = r.kind, s.cred = r.cred, s.age = r.age + t, s.ok = r.ok,
             s.scopes = r.scopes
      PROVE  ResolutionSound(s)'
  <2>1. <<r.kind, r.cred>> \in Key /\ r.ok \in BOOLEAN /\ r.age \in Nat
      BY AccessNumbers DEF Reading, Key, Kinds
  <2>2. PICK k \in Key, n \in Nat : k = <<r.kind, r.cred>> /\ n = r.age
      BY <2>1
  <2>3. /\ GivenAs(k, TRUE, n) => GivenAs(k, TRUE, n + t)'
        /\ Answer(k, r.ok, r.scopes, n) => Answer(k, r.ok, r.scopes, n + t)'
      BY <2>1, AnswersAge
  <2> QED BY <1>2, <2>2, <2>3 DEF ResolutionSound
<1> QED BY <1>1, <1>2

(* A step that leaves a resolution to itself, or all of them and the cache.    *)
LEMMA ResolutionStands ==
    ASSUME AccessInv, Remember, RowsKept, NEW r, ResolutionSound(r)
    PROVE  ResolutionSound(r)'
<1>1. CASE r \in Reading
  <2>1. RememberAfter(0) /\ r.age + 0 = r.age
      BY <1>1, AccessNumbers DEF Remember, Reading
  <2> QED BY <1>1, <2>1, SoundnessAges
<1>2. CASE r \in {NoRequest} \cup Looking
  <2>1. r.step # "roles" /\ r.step # "put"
      BY <1>2 DEF NoRequest, Looking
  <2> QED BY <1>2, <2>1 DEF ResolutionSound
<1> QED BY <1>1, <1>2 DEF ResolutionSound

LEMMA EntryStands ==
    ASSUME AccessInv, Remember, RowsKept, NEW k \in Key, NEW e, EntrySound(k, e)
    PROVE  EntrySound(k, e)'
<1>1. RememberAfter(0) /\ e \in Entry /\ e.left + 0 = e.left
    BY AccessNumbers DEF Remember, EntrySound, Entry
<1> QED BY <1>1, SoundnessAges

LEMMA AnswersStand ==
    ASSUME AccessInv, Remember, RowsKept, RowsTrue', LoginsTrue', UNCHANGED <<cache, request>>
    PROVE  AccessInv'
<1>1. AgesTrue'
    BY AgesGrow DEF Remember
<1>2. CacheTrue'
  <2>1. ASSUME NEW k \in DOMAIN cache PROVE EntrySound(k, cache[k])'
    <3>1. PICK e : e = cache[k]
        OBVIOUS
    <3>2. k \in Key /\ EntrySound(k, e)
        BY <3>1 DEF AccessInv, CacheTrue
    <3>3. EntrySound(k, e)'
        BY <3>2, EntryStands
    <3> QED BY <3>1, <3>3
  <2> QED BY <2>1 DEF AccessInv, CacheTrue
<1>3. RequestsTrue'
  <2>1. ASSUME NEW q \in Resolver PROVE ResolutionSound(request[q])'
    <3>1. PICK r : r = request[q]
        OBVIOUS
    <3>2. ResolutionSound(r)'
        BY <3>1, ResolutionStands DEF AccessInv, RequestsTrue
    <3> QED BY <3>1, <3>2
  <2> QED BY <2>1 DEF AccessInv, RequestsTrue
<1> QED BY <1>1, <1>2, <1>3 DEF AccessInv

(* Rows that keep their users; no row appears or goes.                         *)
LEMMA RowsChange ==
    ASSUME AccessInv, login' = login,
           row' \in [Credential -> [user : User \cup {"none"}, left : Nat, revoked : BOOLEAN]],
           \A c \in Credential : /\ row[c] = Unused => row'[c] = Unused
                                 /\ row'[c].user = row[c].user
    PROVE  RowsTrue' /\ RowsKept /\ LoginsTrue'
<1>1. \A c \in Credential : row[c] # Unused <=> row[c].user # "none"
    BY DEF AccessInv, RowsTrue, Unused
<1>2. \A c \in Credential : row'[c] # Unused <=> row'[c].user # "none"
    BY <1>1 DEF Unused
<1>3. \A u \in User : login[u] \in Session => login[u] \in Credential
    BY DEF Credential
<1> QED BY <1>1, <1>2, <1>3 DEF AccessInv, RowsTrue, RowsKept, LoginsTrue, Unused

LEMMA RevokedRows ==
    ASSUME AccessInv, login' = login,
           NEW creds \in SUBSET Credential, NEW u \in User, row' = RevokedOf(u, creds)
    PROVE  RowsTrue' /\ RowsKept /\ LoginsTrue'
<1>1. row \in [Credential -> [user : User \cup {"none"}, left : Nat, revoked : BOOLEAN]]
    BY DEF AccessInv, RowsTrue
<1>2. \A c \in Credential : row[c] = Unused => row[c].user # u
    BY AccessNumbers DEF Unused
<1>3. row' = [c \in Credential |-> IF c \in creds /\ row[c].user = u
                                   THEN [row[c] EXCEPT !.revoked = TRUE] ELSE row[c]]
    BY DEF RevokedOf
<1>4. row' \in [Credential -> [user : User \cup {"none"}, left : Nat, revoked : BOOLEAN]]
  <2>1. \A c \in Credential :
            /\ row[c] \in [user : User \cup {"none"}, left : Nat, revoked : BOOLEAN]
            /\ [row[c] EXCEPT !.revoked = TRUE]
                   \in [user : User \cup {"none"}, left : Nat, revoked : BOOLEAN]
      BY <1>1
  <2> QED BY <1>3, <2>1
<1>5. \A c \in Credential : /\ row[c] = Unused => row'[c] = Unused
                            /\ row'[c].user = row[c].user
    BY <1>1, <1>2, <1>3
<1> QED BY <1>4, <1>5, RowsChange

LEMMA SameRows ==
    ASSUME AccessInv, row' = row, login' = login
    PROVE  RowsTrue' /\ RowsKept /\ LoginsTrue'
BY RowsChange DEF AccessInv, RowsTrue

LEMMA RowAdded ==
    ASSUME AccessInv, NEW c \in Credential, row[c] = Unused, NEW u \in User, NEW e \in Nat,
           row' = [row EXCEPT ![c] = [user |-> u, left |-> e, revoked |-> FALSE]]
    PROVE  /\ RowsTrue' /\ RowsKept
           /\ \A d \in Credential : d # c => row'[d] = row[d]
<1>1. row \in [Credential -> [user : User \cup {"none"}, left : Nat, revoked : BOOLEAN]]
    BY DEF AccessInv, RowsTrue
<1>2. row' \in [Credential -> [user : User \cup {"none"}, left : Nat, revoked : BOOLEAN]]
    BY <1>1
<1>3. \A d \in Credential : row'[d] = IF d = c THEN [user |-> u, left |-> e, revoked |-> FALSE]
                                              ELSE row[d]
    BY <1>1
<1>4. u # "none"
    BY AccessNumbers
<1> QED BY <1>1, <1>2, <1>3, <1>4 DEF AccessInv, RowsTrue, RowsKept, Unused

LEMMA AdministrationStays ==
    ASSUME AccessInv,
           \/ \E c \in ApiToken : RevokeApiToken(c) \/ \E u \in User : CreateApiToken(c, u)
           \/ \E u \in User : SuspendUser(u) \/ \E a \in BOOLEAN : ScimSetUserActive(u, a)
           \/ \E s \in Subject : CreateRoleBinding(s) \/ RevokeRoleBinding(s)
           \/ \E users \in SUBSET User : ScimSetMembers(users)
    PROVE  AccessInv'
<1>1. ASSUME NEW c \in ApiToken, RevokeApiToken(c) PROVE AccessInv'
  <2>1. row' = [row EXCEPT ![c].revoked = TRUE] /\ row[c] # Unused /\ c \in Credential
      BY <1>1 DEF RevokeApiToken, Exists, Credential
  <2>2. row \in [Credential -> [user : User \cup {"none"}, left : Nat, revoked : BOOLEAN]]
      BY DEF AccessInv, RowsTrue
  <2>3. row' \in [Credential -> [user : User \cup {"none"}, left : Nat, revoked : BOOLEAN]]
      BY <2>1, <2>2
  <2>4. \A d \in Credential : /\ row[d] = Unused => row'[d] = Unused
                              /\ row'[d].user = row[d].user
      BY <2>1, <2>2
  <2>5. login' = login
      BY <1>1 DEF RevokeApiToken, Rest
  <2>6. RowsTrue' /\ RowsKept /\ LoginsTrue'
      BY <2>3, <2>4, <2>5, RowsChange
  <2> QED BY <1>1, <2>6, AnswersStand DEF RevokeApiToken, Rest
<1>2. ASSUME NEW c \in ApiToken, NEW u \in User, CreateApiToken(c, u) PROVE AccessInv'
  <2>1. PICK e \in {1, Never} :
            row' = [row EXCEPT ![c] = [user |-> u, left |-> e, revoked |-> FALSE]]
      BY <1>2 DEF CreateApiToken
  <2>2. row[c] = Unused /\ c \in Credential /\ c \notin Session /\ e \in Nat /\ login' = login
      BY <1>2, AccessNumbers, AccessAssumption
         DEF CreateApiToken, Rest, Credential, Never, AccessAssumption
  <2>3. /\ RowsTrue' /\ RowsKept
        /\ \A d \in Credential : d # c => row'[d] = row[d]
      BY <2>1, <2>2, RowAdded
  <2>4. LoginsTrue'
      BY <2>2, <2>3 DEF AccessInv, LoginsTrue, Credential, Unused
  <2> QED BY <1>2, <2>3, <2>4, AnswersStand DEF CreateApiToken, Rest
<1>3. ASSUME NEW u \in User, SuspendUser(u) PROVE AccessInv'
  <2>1. RowsTrue' /\ RowsKept /\ LoginsTrue'
      BY <1>3, RevokedRows DEF SuspendUser, Rest
  <2> QED BY <1>3, <2>1, AnswersStand DEF SuspendUser, Rest
<1>4. ASSUME NEW u \in User, NEW a \in BOOLEAN, ScimSetUserActive(u, a) PROVE AccessInv'
  <2>1. login' = login /\ (row' = RevokedOf(u, Session) \/ row' = row)
      BY <1>4 DEF ScimSetUserActive, Rest
  <2>2. RowsTrue' /\ RowsKept /\ LoginsTrue'
      BY <2>1, RevokedRows, SameRows DEF Credential
  <2> QED BY <1>4, <2>2, AnswersStand DEF ScimSetUserActive, Rest
<1>5. ASSUME NEW s \in Subject, CreateRoleBinding(s) \/ RevokeRoleBinding(s) PROVE AccessInv'
    BY <1>5, SameRows, AnswersStand DEF CreateRoleBinding, RevokeRoleBinding, Rest
<1>6. ASSUME NEW users \in SUBSET User, ScimSetMembers(users) PROVE AccessInv'
    BY <1>6, SameRows, AnswersStand DEF ScimSetMembers, Rest
<1> QED BY <1>1, <1>2, <1>3, <1>4, <1>5, <1>6

LEMMA LoginStays ==
    ASSUME AccessInv,
           \/ \E u \in User : LoginRead(u) \/ LoginApprove(u) \/ LoginCommit(u)
           \/ DeviceStart \/ DevicePoll \/ DeviceExpires
    PROVE  AccessInv'
<1>1. ASSUME NEW u \in User, LoginRead(u) PROVE AccessInv'
  <2>1. row' = row /\ login' = [login EXCEPT ![u] = "read"]
      BY <1>1 DEF LoginRead, tableVars
  <2>2. RowsTrue' /\ RowsKept
      BY <2>1 DEF AccessInv, RowsTrue, RowsKept, Unused
  <2>3. LoginsTrue'
      BY <2>1, AccessNumbers DEF AccessInv, LoginsTrue, Unused
  <2> QED BY <1>1, <2>2, <2>3, AnswersStand DEF LoginRead
<1>2. ASSUME NEW u \in User, LoginApprove(u) PROVE AccessInv'
  <2>1. PICK s \in Session : /\ row[s] = Unused /\ \A v \in User : login[v] # s
                             /\ login' = [login EXCEPT ![u] = s]
      BY <1>2 DEF LoginApprove
  <2>2. row' = row
      BY <1>2 DEF LoginApprove, tableVars
  <2>3. RowsTrue' /\ RowsKept
      BY <2>2 DEF AccessInv, RowsTrue, RowsKept, Unused
  <2>4. LoginsTrue'
      BY <2>1, <2>2 DEF AccessInv, LoginsTrue, Unused
  <2> QED BY <1>2, <2>3, <2>4, AnswersStand DEF LoginApprove
<1>3. ASSUME NEW u \in User, LoginCommit(u) PROVE AccessInv'
  <2>1. PICK s \in Session : s = login[u]
      BY <1>3 DEF LoginCommit
  <2>2. /\ row' = [row EXCEPT ![s] = [user |-> u, left |-> SESSION_TTL, revoked |-> FALSE]]
        /\ login' = [login EXCEPT ![u] = "done"] /\ s \in Credential /\ row[s] = Unused
        /\ SESSION_TTL \in Nat
      BY <1>3, <2>1, AccessNumbers DEF LoginCommit, SessionRow, Credential, AccessInv, LoginsTrue
  <2>3. /\ RowsTrue' /\ RowsKept
        /\ \A d \in Credential : d # s => row'[d] = row[d]
      BY <2>2, RowAdded
  <2>4. LoginsTrue'
      BY <2>1, <2>2, <2>3, AccessNumbers DEF AccessInv, LoginsTrue, Credential, Unused
  <2> QED BY <1>3, <2>3, <2>4, AnswersStand DEF LoginCommit
<1>4. ASSUME DeviceStart \/ DevicePoll \/ DeviceExpires PROVE AccessInv'
    BY <1>4, SameRows, AnswersStand DEF DeviceStart, DevicePoll, DeviceExpires, tableVars
<1> QED BY <1>1, <1>2, <1>3, <1>4

LEMMA ResolutionStays ==
    ASSUME AccessInv, Remember, UNCHANGED tableVars, login' = login, DOMAIN cache' \subseteq Key,
           NEW q \in Resolver, NEW r, request' = [request EXCEPT ![q] = r], ResolutionSound(r)',
           \A k \in DOMAIN cache' :
               (k \in DOMAIN cache /\ cache'[k] = cache[k]) \/ EntrySound(k, cache[k])'
    PROVE  AccessInv'
<1>1. RowsTrue' /\ RowsKept /\ LoginsTrue'
    BY SameRows DEF tableVars
<1>2. AgesTrue'
    BY AgesGrow DEF Remember
<1>3. ASSUME NEW p \in Resolver PROVE ResolutionSound(request[p])'
  <2>1. PICK s : s = request[p]
      OBVIOUS
  <2>2. ResolutionSound(s)' /\ DOMAIN request = Resolver
      BY <1>1, <2>1, ResolutionStands DEF AccessInv, RequestsTrue
  <2>3. request'[p] = IF p = q THEN r ELSE s
      BY <2>1, <2>2
  <2>4. CASE p = q
      BY <2>3, <2>4
  <2>5. CASE p # q
      BY <2>2, <2>3, <2>5
  <2> QED BY <2>4, <2>5
<1>4. ASSUME NEW k \in DOMAIN cache' PROVE EntrySound(k, cache[k])'
  <2>1. CASE k \in DOMAIN cache /\ cache'[k] = cache[k]
    <3>1. PICK e : e = cache[k]
        OBVIOUS
    <3>2. k \in Key /\ EntrySound(k, e)
        BY <2>1, <3>1 DEF AccessInv, CacheTrue
    <3>3. EntrySound(k, e)'
        BY <1>1, <3>2, EntryStands
    <3> QED BY <2>1, <3>1, <3>3
  <2> QED BY <2>1
<1>5. DOMAIN request' = Resolver
    BY DEF AccessInv, RequestsTrue
<1> QED BY <1>1, <1>2, <1>3, <1>4, <1>5 DEF AccessInv, RequestsTrue, CacheTrue

LEMMA RequestsStay ==
    ASSUME AccessInv, NEW q \in Resolver,
           StartRequest(q) \/ Look(q) \/ ReadCredential(q) \/ ReadRoles(q) \/ CachePut(q)
    PROVE  AccessInv'
<1> DEFINE r == request[q]
<1>0. /\ Remember /\ UNCHANGED tableVars /\ login' = login /\ DOMAIN request = Resolver
      /\ ResolutionSound(r) /\ DOMAIN cache \subseteq Key /\ RowsKept
      /\ AgesTrue /\ AgesTrue'
  <2>1. Remember /\ UNCHANGED tableVars /\ login' = login
      BY DEF StartRequest, Look, ReadCredential, ReadRoles, CachePut
  <2> QED BY <2>1, AgesGrow, SameRows
          DEF AccessInv, RequestsTrue, CacheTrue, Remember, tableVars
<1>1. ASSUME StartRequest(q) PROVE AccessInv'
  <2>1. PICK c \in Credential :
            request' = [request EXCEPT ![q] =
                            [step |-> "look", kind |-> "token", cred |-> c, age |-> 0]]
      BY <1>1 DEF StartRequest
  <2>2. ResolutionSound([step |-> "look", kind |-> "token", cred |-> c, age |-> 0])'
      BY AccessNumbers DEF ResolutionSound, Looking, Kinds
  <2>3. cache' = cache
      BY <1>1 DEF StartRequest
  <2> QED BY <1>0, <2>1, <2>2, <2>3, ResolutionStays
<1>2. ASSUME Look(q) PROVE AccessInv'
  <2>1. r \in Looking
      BY <1>0, <1>2 DEF Look, ResolutionSound, NoRequest, Reading
  <2>2. PICK s : /\ request' = [request EXCEPT ![q] = s]
                 /\ s = NoRequest \/ s = [r EXCEPT !.kind = "session", !.age = 0]
      BY <1>2 DEF Look
  <2>3. s = NoRequest \/ s \in Looking
    <3>1. 0 \in 0..LATENCY /\ "session" \in Kinds
        BY AccessNumbers DEF Kinds
    <3>2. \A x \in Looking : [x EXCEPT !.kind = "session", !.age = 0] \in Looking
        BY <3>1 DEF Looking
    <3> QED BY <2>1, <2>2, <3>2
  <2>4. ResolutionSound(s)'
    <3>1. s.step # "roles" /\ s.step # "put"
        BY <2>3 DEF Looking, NoRequest
    <3> QED BY <2>3, <3>1 DEF ResolutionSound
  <2>5. cache' = cache
      BY <1>2 DEF Look
  <2> QED BY <1>0, <2>2, <2>4, <2>5, ResolutionStays
<1>3. ASSUME ReadCredential(q) PROVE AccessInv'
  <2>1. r \in Looking
      BY <1>0, <1>3 DEF ReadCredential, ResolutionSound, NoRequest, Reading
  <2>2. /\ KeyOf(q) = <<r.kind, r.cred>> /\ KeyOf(q) \in Key
        /\ r.kind \in Kinds /\ r.cred \in Credential
      BY <2>1 DEF KeyOf, Key, Looking, Kinds
  <2>3. Valid(KeyOf(q)) \in BOOLEAN
      BY DEF Valid
  <2>4. PICK k \in Key, v \in BOOLEAN, kind \in Kinds, cred \in Credential :
            /\ k = KeyOf(q) /\ v = Valid(KeyOf(q)) /\ k = <<kind, cred>>
            /\ kind = r.kind /\ cred = r.cred
      BY <2>2, <2>3
  <2>5. (v => row[cred] # Unused) /\ Valid(k)' = v /\ row' = row
    <3>1. v = Valid(k) /\ k[2] = cred
        BY <2>4
    <3> QED BY <1>0, <3>1 DEF tableVars, Valid, Kind, Exists
  <2>6. said'[<<k, v>>] = 0
      BY <1>0, <2>5, AgesGrow DEF Remember
  <2> DEFINE s == [step |-> IF v THEN "roles" ELSE "put", kind |-> kind, cred |-> cred,
                   age |-> 0, ok |-> v, scopes |-> {}]
  <2>7. request' = [request EXCEPT ![q] = s]
      BY <1>3, <2>4 DEF ReadCredential
  <2>8. s \in Reading
      BY AccessNumbers DEF Reading
  <2>9. ResolutionSound(s)'
    <3>1. (GivenAs(k, v, 0))' /\ k = <<s.kind, s.cred>> /\ s.age = 0 /\ s.ok = v
        BY <2>4, <2>5, <2>6, <2>8 DEF GivenAs
    <3>2. (s.step = "roles" => v) /\ (s.step = "put" => ~v)
        OBVIOUS
    <3> HIDE DEF s
    <3> QED BY <2>8, <3>1, <3>2 DEF ResolutionSound, Answer
  <2>10. cache' = [x \in DOMAIN cache \ {KeyOf(q)} |-> cache[x]]
      BY <1>3 DEF ReadCredential
  <2>11. /\ DOMAIN cache' \subseteq Key
         /\ \A x \in DOMAIN cache' : x \in DOMAIN cache /\ cache'[x] = cache[x]
      BY <1>0, <2>10
  <2> HIDE DEF s
  <2> QED BY <1>0, <2>7, <2>9, <2>11, ResolutionStays
<1>4. ASSUME ReadRoles(q) PROVE AccessInv'
  <2>1. r \in Reading /\ r.step = "roles" /\ r.ok /\ GivenAs(KeyOf(q), TRUE, r.age)
    <3>1. r.step = "roles" /\ r \in {NoRequest} \cup Looking \cup Reading
        BY <1>0, <1>4 DEF ReadRoles, ResolutionSound
    <3>2. r \in Reading
        BY <3>1 DEF NoRequest, Looking
    <3> QED BY <1>0, <3>1, <3>2 DEF ResolutionSound, KeyOf
  <2>2. KeyOf(q) = <<r.kind, r.cred>> /\ KeyOf(q) \in Key /\ KeyOf(q)[2] = r.cred
      BY <2>1 DEF KeyOf, Key, Reading, Kinds
  <2>3. row[r.cred] # Unused /\ r.cred \in Credential
      BY <2>1, <2>2 DEF GivenAs, Reading
  <2>4. PICK u \in User, x \in Reading : u = row[r.cred].user /\ x = r
      BY <2>1, <2>3 DEF AccessInv, RowsTrue
  <2>5. PICK sc : sc = Scopes(u)
      OBVIOUS
  <2>6. /\ sc = Scopes(u)' /\ row' = row
      BY <1>0, <2>5 DEF tableVars, Scopes
  <2>7. sc \in Roles /\ granted'[<<u, sc>>] = 0
      BY <1>0, <2>6, AgesGrow DEF Remember
  <2> DEFINE s == [x EXCEPT !.step = "put", !.scopes = sc]
  <2>8. request' = [request EXCEPT ![q] = s]
      BY <1>0, <1>4, <2>4, <2>5 DEF ReadRoles
  <2>9. /\ s \in Reading /\ s.step = "put" /\ s.ok = x.ok /\ s.age = x.age /\ s.scopes = sc
        /\ s.kind = x.kind /\ s.cred = x.cred
    <3>1. x \in Reading /\ sc \in SUBSET {"read", "write"}
        BY <2>1, <2>4, <2>7 DEF Roles
    <3> QED BY <3>1 DEF Reading
  <2> HIDE DEF s
  <2>10. ResolutionSound(x) /\ x \in Reading /\ x.ok /\ x.age \in 0..LATENCY
         /\ x.ok \in BOOLEAN /\ <<x.kind, x.cred>> \in Key
      BY <1>0, <2>1, <2>2, <2>4 DEF Reading
  <2>11. ResolutionSound(x)'
      BY <1>0, <2>10, ResolutionStands
  <2>12. (GivenAs(<<x.kind, x.cred>>, TRUE, x.age))'
      BY <2>1, <2>4, <2>11 DEF ResolutionSound
  <2>13. (RolesAs(<<x.kind, x.cred>>, sc, x.age))'
      BY <2>4, <2>6, <2>7, <2>10, AccessNumbers DEF RolesAs
  <2>14. ResolutionSound(s)'
      BY <2>9, <2>10, <2>12, <2>13 DEF ResolutionSound, Answer
  <2>15. cache' = cache
      BY <1>4 DEF ReadRoles
  <2> QED BY <1>0, <2>8, <2>14, <2>15, ResolutionStays
<1>5. ASSUME CachePut(q) PROVE AccessInv'
  <2>1. PICK x : x = r
      OBVIOUS
  <2>2. /\ x \in Reading /\ x.step = "put" /\ Answer(<<x.kind, x.cred>>, x.ok, x.scopes, x.age)
        /\ ResolutionSound(x)
    <3>1. x.step = "put" /\ x \in {NoRequest} \cup Looking \cup Reading
        BY <1>0, <1>5, <2>1 DEF CachePut, ResolutionSound
    <3>2. x \in Reading
        BY <3>1 DEF NoRequest, Looking
    <3> QED BY <1>0, <2>1, <3>1, <3>2 DEF ResolutionSound
  <2>3. PICK k \in Key : k = KeyOf(q) /\ k = <<x.kind, x.cred>>
      BY <2>1, <2>2 DEF KeyOf, Key, Reading, Kinds
  <2> DEFINE e == [left |-> AUTH_CACHE_TTL, ok |-> x.ok, scopes |-> x.scopes]
             s == IF x.kind = "token" /\ ~x.ok
                  THEN [step |-> "look", kind |-> "session", cred |-> x.cred, age |-> 0]
                  ELSE NoRequest
  <2>4. PICK gone : cache' = [j \in (DOMAIN cache \ gone) \cup {k} |->
                                 IF j # k THEN cache[j] ELSE e]
      BY <1>5, <2>1, <2>3 DEF CachePut
  <2>5. request' = [request EXCEPT ![q] = s]
      BY <1>0, <1>5, <2>1 DEF CachePut
  <2>6. ResolutionSound(s)'
    <3>1. s = NoRequest \/ s \in Looking
        BY <2>2, AccessNumbers DEF Looking, Reading, Kinds
    <3>2. s.step # "roles" /\ s.step # "put"
        BY <3>1 DEF Looking, NoRequest
    <3> HIDE DEF s
    <3> QED BY <3>1, <3>2 DEF ResolutionSound
  <2>7. EntrySound(k, e)'
    <3>1. e \in Entry /\ e.left = AUTH_CACHE_TTL /\ e.ok = x.ok /\ e.scopes = x.scopes
        BY <2>2, AccessNumbers DEF Reading, Entry
    <3>2. x.age \in 0..LATENCY /\ x.ok \in BOOLEAN
        BY <2>2 DEF Reading
    <3>3. Old - e.left = LATENCY
        BY <3>1, AccessNumbers
    <3>4. ResolutionSound(x)'
        BY <1>0, <2>2, ResolutionStands
    <3>5. (Answer(k, x.ok, x.scopes, x.age))'
        BY <2>2, <2>3, <3>4 DEF ResolutionSound
    <3>6. \A m \in BOOLEAN : said'[<<k, m>>] \in 0..Old
        BY <1>0 DEF AgesTrue
    <3>7. x.ok => /\ row'[k[2]].user \in User
                  /\ granted'[<<row'[k[2]].user, x.scopes>>] \in 0..Old
      <4>1. SUFFICES ASSUME x.ok PROVE /\ row'[k[2]].user \in User
                  /\ granted'[<<row'[k[2]].user, x.scopes>>] \in 0..Old
          OBVIOUS
      <4>2. row'[k[2]] # Unused /\ x.scopes \in Roles /\ row' = row /\ k[2] \in Credential
          BY <1>0, <3>5, <4>1 DEF Answer, GivenAs, RolesAs, tableVars, Key
      <4>3. row'[k[2]].user \in User
          BY <4>2 DEF AccessInv, RowsTrue
      <4> QED BY <1>0, <4>2, <4>3 DEF AgesTrue
    <3>8. (Answer(k, x.ok, x.scopes, LATENCY))'
        BY <3>2, <3>5, <3>6, <3>7, AccessNumbers DEF Answer, GivenAs, RolesAs
    <3> HIDE DEF e
    <3> QED BY <3>1, <3>3, <3>8 DEF EntrySound
  <2>8. /\ DOMAIN cache' \subseteq Key
        /\ \A j \in DOMAIN cache' : (j \in DOMAIN cache /\ cache'[j] = cache[j])
                                    \/ (j = k /\ cache'[j] = e)
    <3> HIDE DEF e
    <3> QED BY <1>0, <2>4
  <2>9. \A j \in DOMAIN cache' :
            (j \in DOMAIN cache /\ cache'[j] = cache[j]) \/ EntrySound(j, cache[j])'
    <3> HIDE DEF e
    <3> QED BY <2>7, <2>8
  <2> HIDE DEF s, e
  <2> QED BY <1>0, <2>5, <2>6, <2>8, <2>9, ResolutionStays
<1> QED BY <1>1, <1>2, <1>3, <1>4, <1>5

LEMMA TickStays == ASSUME AccessInv, AccessTick PROVE AccessInv'
<1>1. /\ row' = [c \in Credential |-> IF row[c].left = Never THEN row[c]
                                    ELSE [row[c] EXCEPT !.left = Less(@)]]
      /\ cache' = [k \in DOMAIN cache |-> [cache[k] EXCEPT !.left = Less(@)]]
      /\ request' = [q \in Resolver |-> IF request[q] = NoRequest THEN NoRequest
                                        ELSE [request[q] EXCEPT !.age = @ + 1]]
      /\ \A q \in Resolver : request[q] # NoRequest => request[q].age < LATENCY
      /\ login' = login /\ RememberAfter(1)
    BY DEF AccessTick
<1>2. /\ \A n \in Nat : Less(n) \in Nat /\ Less(n) <= n /\ (Less(n) > 0 => n = Less(n) + 1)
      /\ Less(0) = 0
    BY DEF Less
<1> DEFINE RowType == [user : User \cup {"none"}, left : Nat, revoked : BOOLEAN]
<1>3. \A c \in Credential : /\ row[c] \in RowType
                            /\ [row[c] EXCEPT !.left = Less(@)] \in RowType
                            /\ [row[c] EXCEPT !.left = Less(@)].user = row[c].user
    BY <1>2 DEF AccessInv, RowsTrue
<1>4. row' \in [Credential -> RowType]
    BY <1>1, <1>3
<1>5. \A c \in Credential : row'[c].user = row[c].user
    BY <1>1, <1>3
<1>6. \A c \in Credential : row[c] = Unused => row'[c] = Unused
    BY <1>1, <1>2 DEF Unused
<1>7. RowsTrue' /\ RowsKept /\ LoginsTrue'
    BY <1>1, <1>4, <1>5, <1>6, RowsChange
<1>8. AgesTrue'
    BY <1>1, AgesGrow
<1>9. CacheTrue'
  <2>1. ASSUME NEW k \in DOMAIN cache PROVE EntrySound(k, cache[k])'
    <3>1. PICK e : e = cache[k]
        OBVIOUS
    <3>2. EntrySound(k, e) /\ k \in Key /\ e \in Entry
        BY <3>1 DEF AccessInv, CacheTrue, EntrySound
    <3>3. PICK f : f = [e EXCEPT !.left = Less(@)]
        OBVIOUS
    <3>4. e.left \in 0..AUTH_CACHE_TTL /\ Less(e.left) \in 0..AUTH_CACHE_TTL
        BY <1>2, <3>2, AccessNumbers DEF Entry
    <3>5. f \in Entry /\ f.ok = e.ok /\ f.scopes = e.scopes /\ f.left = Less(e.left)
        BY <3>2, <3>3, <3>4 DEF Entry
    <3>6. f.left > 0 => e.left = f.left + 1
        BY <1>2, <3>4, <3>5
    <3>7. EntrySound(k, f)'
        BY <1>1, <1>7, <3>2, <3>5, <3>6, SoundnessAges
    <3> QED BY <1>1, <3>1, <3>3, <3>7
  <2>2. DOMAIN cache' = DOMAIN cache
      BY <1>1
  <2> QED BY <2>1, <2>2 DEF AccessInv, CacheTrue
<1>10. RequestsTrue'
  <2>1. ASSUME NEW q \in Resolver PROVE ResolutionSound(request[q])'
    <3>1. PICK r : r = request[q]
        OBVIOUS
    <3>2. ResolutionSound(r) /\ r \in {NoRequest} \cup Looking \cup Reading
        BY <3>1 DEF AccessInv, RequestsTrue, ResolutionSound
    <3>3. PICK s : s = request'[q] /\ s = IF r = NoRequest THEN NoRequest
                                          ELSE [r EXCEPT !.age = @ + 1]
        BY <1>1, <3>1
    <3>4. CASE r = NoRequest
        BY <3>3, <3>4 DEF ResolutionSound, NoRequest
    <3>5. CASE r # NoRequest
      <4>1. r.age < LATENCY /\ r.age \in 0..LATENCY /\ r.age + 1 \in 0..LATENCY
          BY <1>1, <3>1, <3>2, <3>5, AccessNumbers DEF Looking, Reading
      <4>2. CASE r \in Looking
        <5>1. s \in Looking
            BY <3>3, <3>5, <4>1, <4>2 DEF Looking
        <5>2. s.step # "roles" /\ s.step # "put"
            BY <5>1 DEF Looking
        <5> QED BY <3>3, <5>1, <5>2 DEF ResolutionSound
      <4>3. CASE r \in Reading
        <5>1. /\ s \in Reading /\ s.step = r.step /\ s.kind = r.kind /\ s.cred = r.cred
              /\ s.age = r.age + 1 /\ s.ok = r.ok /\ s.scopes = r.scopes
            BY <3>3, <3>5, <4>1, <4>3 DEF Reading
        <5>2. ResolutionSound(s)'
            BY <1>1, <1>7, <3>2, <4>3, <5>1, SoundnessAges
        <5> QED BY <3>3, <5>2
      <4> QED BY <3>2, <3>5, <4>2, <4>3
    <3> QED BY <3>4, <3>5
  <2>2. DOMAIN request' = Resolver
      BY <1>1
  <2> QED BY <2>1, <2>2 DEF RequestsTrue
<1> QED BY <1>7, <1>8, <1>9, <1>10 DEF AccessInv

LEMMA AccessStepInv == AccessInv /\ [AccessNext]_accessVars => AccessInv'
<1> SUFFICES ASSUME AccessInv, [AccessNext]_accessVars PROVE AccessInv'
    OBVIOUS
<1>1. CASE AccessNext
    BY <1>1, AdministrationStays, LoginStays, RequestsStay, TickStays DEF AccessNext
<1>2. CASE UNCHANGED accessVars
    BY <1>2 DEF accessVars, tableVars, AccessInv, RowsTrue, AgesTrue, LoginsTrue, CacheTrue,
                RequestsTrue, EntrySound, ResolutionSound, Answer, GivenAs, RolesAs
<1> QED BY <1>1, <1>2

LEMMA AccessInitInv == AccessInit => AccessInv
<1> SUFFICES ASSUME AccessInit PROVE AccessInv
    OBVIOUS
<1>1. RowsTrue
    BY DEF AccessInit, RowsTrue, Unused
<1>2. said \in [Key \X BOOLEAN -> 0..Old]
    BY AccessNumbers DEF AccessInit
<1>3. granted \in [User \X Roles -> 0..Old]
    BY AccessNumbers DEF AccessInit, Roles
<1>4. LoginsTrue
    BY AccessNumbers DEF AccessInit, LoginsTrue
<1>5. CacheTrue
    BY DEF AccessInit, CacheTrue
<1>6. RequestsTrue
    BY DEF AccessInit, RequestsTrue, ResolutionSound, NoRequest
<1> QED BY <1>1, <1>2, <1>3, <1>4, <1>5, <1>6 DEF AccessInv, AgesTrue

LEMMA AccessRecent == AccessInv => CacheIsRecent
<1> SUFFICES ASSUME AccessInv, NEW k \in DOMAIN cache, Hit(k)
             PROVE  /\ said[<<k, cache[k].ok>>] < Old
                    /\ cache[k].ok => granted[<<row[k[2]].user, cache[k].scopes>>] < Old
    BY DEF CacheIsRecent
<1>1. PICK e : e = cache[k]
    OBVIOUS
<1>2. /\ k \in Key /\ e \in Entry /\ e.left > 0 /\ k[2] \in Credential
      /\ Answer(k, e.ok, e.scopes, Old - e.left)
    BY <1>1 DEF AccessInv, CacheTrue, EntrySound, Hit, Key
<1>3. e.left \in Nat /\ Old - e.left < Old /\ Old - e.left \in Int /\ e.ok \in BOOLEAN
    BY <1>2, AccessNumbers DEF Entry
<1>4. said[<<k, e.ok>>] \in 0..Old /\ said[<<k, e.ok>>] <= Old - e.left
    BY <1>2, <1>3 DEF AccessInv, AgesTrue, Answer, GivenAs
<1>5. ASSUME e.ok PROVE granted[<<row[k[2]].user, e.scopes>>] < Old
  <2>1. row[k[2]].user \in User /\ RolesAs(k, e.scopes, Old - e.left)
      BY <1>2, <1>5 DEF Answer, GivenAs, AccessInv, RowsTrue
  <2>2. granted[<<row[k[2]].user, e.scopes>>] \in 0..Old
      BY <2>1 DEF AccessInv, AgesTrue, RolesAs
  <2> QED BY <1>3, <2>1, <2>2, AccessNumbers DEF RolesAs
<1> QED BY <1>1, <1>3, <1>4, <1>5, AccessNumbers

(* Whatever the cache can answer was true at most a TTL and a resolution ago   *)
(* (_cache_get, _cache_put and resolve_db_token of identity.py).               *)
THEOREM CacheStaysRecent == AccessSpec => []CacheIsRecent
<1>1. AccessSpec => []AccessInv
    BY AccessInitInv, AccessStepInv, PTL DEF AccessSpec
<1> QED BY <1>1, AccessRecent, PTL

-----------------------------------------------------------------------------
(* Rate limits.                                                             *)

Answered == [server : Server, counter : Counter, at : Int, wait : Nat, counted : BOOLEAN,
             by : {"counter", "outage"}]
Allowed(q) == MaxRequests[q[2]]
Apart(v, w) == v = w \/ v + WINDOW_SECONDS <= w \/ w + WINDOW_SECONDS <= v

(* The requests that the counter q (of replica s) saw; those that passed in the *)
(* window that began at w, among the first n, by the counter's word (K is       *)
(* Told) or by it or without it (Either). f tells the window of each.        *)
Saw(be, r, s, q) == r.counted /\ r.counter = q /\ (be = "memory" => r.server = s)
Told == {"counter"}
Either == {"counter", "outage"}
PassedIn(be, a, f, s, q, w, n, K) ==
    {j \in 1..n : Saw(be, a[j], s, q) /\ f[j] = w /\ a[j].wait = 0 /\ a[j].by \in K}

(* The windows of a counter lie apart, in none does it say yes to more than is  *)
(* allowed, and a refusal follows as many that passed in its window and waits   *)
(* for its end, but for the rounding.                                           *)
Windows(be, a, f) ==
    /\ f \in [1..Len(a) -> Int]
    /\ \A i \in 1..Len(a) :
          /\ ~a[i].counted => a[i].wait = 0
          /\ a[i].counted => f[i] <= a[i].at /\ a[i].at < f[i] + WINDOW_SECONDS
          /\ a[i].wait > 0 =>
                /\ f[i] + WINDOW_SECONDS <= a[i].at + a[i].wait + Rounding(be)
                /\ Cardinality(PassedIn(be, a, f, a[i].server, a[i].counter, f[i], i - 1, Either))
                        >= Allowed(a[i].counter)
    /\ \A s \in Server, q \in Counter, i, j \in 1..Len(a) :
          Saw(be, a[i], s, q) /\ Saw(be, a[j], s, q) => Apart(f[i], f[j])
    /\ \A s \in Server, q \in Counter, w \in Int :
          Cardinality(PassedIn(be, a, f, s, q, w, Len(a), Told)) <= Allowed(q)

LEMMA RateNumbers ==
    /\ WINDOW_SECONDS \in Nat \ {0} /\ PRUNE_INTERVAL \in Nat /\ MaxTime \in Nat
    /\ \A q \in Counter : Allowed(q) \in Nat \ {0}
BY RateAssumption DEF RateAssumption, Allowed, Counter

(* The fixed windows of a clock.                                                *)
LEMMA TellingFacts ==
    \A r \in Answered : /\ r.by \in Either
                        /\ (r.by \in Told <=> r.by = "counter")
BY DEF Told, Either, Answered

LEMMA ClockWindows ==
    ASSUME NEW t \in Nat
    PROVE  \E w \in Nat : /\ w = t \div WINDOW_SECONDS
                          /\ WINDOW_SECONDS * w <= t /\ t < WINDOW_SECONDS * w + WINDOW_SECONDS
BY RateNumbers

LEMMA ClockApart ==
    ASSUME NEW v \in Nat, NEW w \in Nat
    PROVE  /\ WINDOW_SECONDS * v \in Nat /\ Apart(WINDOW_SECONDS * v, WINDOW_SECONDS * w)
           /\ WINDOW_SECONDS * v = WINDOW_SECONDS * w => v = w
<1>1. PICK W \in Nat \ {0} : W = WINDOW_SECONDS
    BY RateNumbers
<1>2. W * v \in Nat /\ W * w \in Nat
    OBVIOUS
<1>3. v < w => W * v + W <= W * w
    OBVIOUS
<1>4. w < v => W * w + W <= W * v
    OBVIOUS
<1> QED BY <1>1, <1>2, <1>3, <1>4 DEF Apart

LEMMA PassedFinite ==
    ASSUME NEW be, NEW a, NEW f, NEW s, NEW q, NEW w, NEW n \in Nat, NEW K
    PROVE  /\ IsFiniteSet(PassedIn(be, a, f, s, q, w, n, K))
           /\ Cardinality(PassedIn(be, a, f, s, q, w, n, K)) \in Nat
<1>1. IsFiniteSet(1..n)
    BY FS_Interval
<1>2. PassedIn(be, a, f, s, q, w, n, K) \subseteq 1..n
    BY DEF PassedIn
<1> QED BY <1>1, <1>2, FS_Subset, FS_CardinalityType

(* One more answer, in the window w.                                            *)
Extended(f, n, w) == [i \in 1..n + 1 |-> IF i = n + 1 THEN w ELSE f[i]]

LEMMA PassedExtends ==
    ASSUME NEW be, NEW a \in Seq(Answered), NEW f \in [1..Len(a) -> Int], NEW r \in Answered,
           NEW w \in Int, NEW s, NEW q, NEW v, NEW K
    PROVE  LET b == Append(a, r)
               g == Extended(f, Len(a), w)
               old == PassedIn(be, a, f, s, q, v, Len(a), K)
               new == PassedIn(be, b, g, s, q, v, Len(b), K)
           IN  /\ \A n \in 0..Len(a) :
                      PassedIn(be, b, g, s, q, v, n, K) = PassedIn(be, a, f, s, q, v, n, K)
               /\ Saw(be, r, s, q) /\ v = w /\ r.wait = 0 /\ r.by \in K =>
                      Cardinality(new) = Cardinality(old) + 1
               /\ ~(Saw(be, r, s, q) /\ v = w /\ r.wait = 0 /\ r.by \in K) => new = old
<1> DEFINE b == Append(a, r)
           g == Extended(f, Len(a), w)
           old == PassedIn(be, a, f, s, q, v, Len(a), K)
           new == PassedIn(be, b, g, s, q, v, Len(b), K)
<1>1. PICK m \in Nat : m = Len(a)
    BY LenProperties
<1>2. /\ Len(b) = m + 1 /\ b[m + 1] = r /\ g[m + 1] = w
      /\ \A i \in 1..m : b[i] = a[i] /\ g[i] = f[i]
    BY <1>1, AppendProperties DEF Extended
<1> HIDE DEF b, g
<1>3. \A n \in 0..m : PassedIn(be, b, g, s, q, v, n, K) = PassedIn(be, a, f, s, q, v, n, K)
  <2> SUFFICES ASSUME NEW n \in 0..m
               PROVE  PassedIn(be, b, g, s, q, v, n, K) = PassedIn(be, a, f, s, q, v, n, K)
      OBVIOUS
  <2>1. \A i \in 1..n : i \in 1..m
      OBVIOUS
  <2> QED BY <1>2, <2>1 DEF PassedIn
<1>4. new = IF Saw(be, r, s, q) /\ v = w /\ r.wait = 0 /\ r.by \in K THEN old \union {m + 1} ELSE old
  <2>1. \A i \in 1..m + 1 : i \in 1..m \/ i = m + 1
      OBVIOUS
  <2>2. 1..m \subseteq 1..m + 1 /\ m + 1 \in 1..m + 1
      OBVIOUS
  <2> QED BY <1>1, <1>2, <2>1, <2>2 DEF PassedIn
<1>5. IsFiniteSet(old) /\ m + 1 \notin old
  <2>1. IsFiniteSet(old)
      BY <1>1, PassedFinite
  <2>2. m + 1 \notin 1..m
      BY <1>1
  <2> QED BY <1>1, <2>1, <2>2 DEF PassedIn
<1>6. Cardinality(old \union {m + 1}) = Cardinality(old) + 1
    BY <1>5, FS_AddElement
<1> QED BY <1>1, <1>3, <1>4, <1>6 DEF b, g

(* An answer in a window of its own or in the newest.                           *)
LEMMA WindowsExtend ==
    ASSUME NEW be, NEW a \in Seq(Answered), NEW f, Windows(be, a, f), NEW r \in Answered,
           NEW w \in Int,
           r.counted => w <= r.at /\ r.at < w + WINDOW_SECONDS,
           r.counted => \A j \in 1..Len(a) : Saw(be, a[j], r.server, r.counter) => Apart(f[j], w),
           ~r.counted => r.wait = 0,
           r.counted /\ r.wait = 0 /\ r.by = "counter" =>
               Cardinality(PassedIn(be, a, f, r.server, r.counter, w, Len(a), Told))
                   < Allowed(r.counter),
           r.wait > 0 =>
               /\ w + WINDOW_SECONDS <= r.at + r.wait + Rounding(be)
               /\ Cardinality(PassedIn(be, a, f, r.server, r.counter, w, Len(a), Either))
                      >= Allowed(r.counter)
    PROVE  Windows(be, Append(a, r), Extended(f, Len(a), w))
<1> DEFINE b == Append(a, r)
           g == Extended(f, Len(a), w)
<1>1. PICK m \in Nat : m = Len(a)
    BY LenProperties
<1>2. /\ Len(b) = m + 1 /\ b[m + 1] = r /\ g[m + 1] = w
      /\ \A i \in 1..m : b[i] = a[i] /\ g[i] = f[i]
      /\ g \in [1..m + 1 -> Int] /\ f \in [1..m -> Int]
  <2>1. f \in [1..m -> Int]
      BY <1>1 DEF Windows
  <2>2. \A i \in 1..m + 1 : i \in 1..m \/ i = m + 1
      OBVIOUS
  <2>3. g \in [1..m + 1 -> Int] /\ g[m + 1] = w /\ \A i \in 1..m : g[i] = f[i]
      BY <1>1, <2>1, <2>2 DEF Extended
  <2> QED BY <1>1, <2>1, <2>3, AppendProperties
<1>3. \A i \in 1..m + 1 : i \in 1..m \/ i = m + 1
    OBVIOUS
<1>4. \A s, q, v, K :
        /\ \A n \in 0..m : PassedIn(be, b, g, s, q, v, n, K) = PassedIn(be, a, f, s, q, v, n, K)
        /\ Saw(be, r, s, q) /\ v = w /\ r.wait = 0 /\ r.by \in K =>
              Cardinality(PassedIn(be, b, g, s, q, v, m + 1, K))
                = Cardinality(PassedIn(be, a, f, s, q, v, m, K)) + 1
        /\ ~(Saw(be, r, s, q) /\ v = w /\ r.wait = 0 /\ r.by \in K) =>
              PassedIn(be, b, g, s, q, v, m + 1, K) = PassedIn(be, a, f, s, q, v, m, K)
  <2> SUFFICES ASSUME NEW s, NEW q, NEW v, NEW K PROVE
        /\ \A n \in 0..m : PassedIn(be, b, g, s, q, v, n, K) = PassedIn(be, a, f, s, q, v, n, K)
        /\ Saw(be, r, s, q) /\ v = w /\ r.wait = 0 /\ r.by \in K =>
              Cardinality(PassedIn(be, b, g, s, q, v, m + 1, K))
                = Cardinality(PassedIn(be, a, f, s, q, v, m, K)) + 1
        /\ ~(Saw(be, r, s, q) /\ v = w /\ r.wait = 0 /\ r.by \in K) =>
              PassedIn(be, b, g, s, q, v, m + 1, K) = PassedIn(be, a, f, s, q, v, m, K)
      OBVIOUS
  <2> HIDE DEF b, g
  <2> QED BY <1>1, <1>2, PassedExtends DEF b, g
<1> HIDE DEF b, g
<1>4a. \A s, q, v, n : n \in 0..m =>
          PassedIn(be, b, g, s, q, v, n, Either) = PassedIn(be, a, f, s, q, v, n, Either)
    BY <1>4
<1>5. ASSUME NEW i \in 1..m + 1
      PROVE  /\ ~b[i].counted => b[i].wait = 0
             /\ b[i].counted => g[i] <= b[i].at /\ b[i].at < g[i] + WINDOW_SECONDS
             /\ b[i].wait > 0 =>
                /\ g[i] + WINDOW_SECONDS <= b[i].at + b[i].wait + Rounding(be)
                /\ Cardinality(PassedIn(be, b, g, b[i].server, b[i].counter, g[i], i - 1, Either))
                        >= Allowed(b[i].counter)
  <2>1. i - 1 \in 0..m
      OBVIOUS
  <2>2. CASE i \in 1..m
    <3>1. /\ ~a[i].counted => a[i].wait = 0
          /\ a[i].counted => f[i] <= a[i].at /\ a[i].at < f[i] + WINDOW_SECONDS
          /\ a[i].wait > 0 =>
                /\ f[i] + WINDOW_SECONDS <= a[i].at + a[i].wait + Rounding(be)
                /\ Cardinality(PassedIn(be, a, f, a[i].server, a[i].counter, f[i], i - 1, Either))
                        >= Allowed(a[i].counter)
        BY <1>1, <2>2 DEF Windows
    <3>2. PassedIn(be, b, g, a[i].server, a[i].counter, f[i], i - 1, Either)
            = PassedIn(be, a, f, a[i].server, a[i].counter, f[i], i - 1, Either)
        BY <1>4a, <2>1
    <3> QED BY <1>2, <2>2, <3>1, <3>2
  <2>3. CASE i = m + 1
      BY <1>1, <1>2, <1>4, <2>1, <2>3
  <2> QED BY <1>3, <2>2, <2>3
<1>6. ASSUME NEW s \in Server, NEW q \in Counter, NEW i \in 1..m + 1, NEW j \in 1..m + 1,
             Saw(be, b[i], s, q), Saw(be, b[j], s, q)
      PROVE  Apart(g[i], g[j])
  <2>1. CASE i \in 1..m /\ j \in 1..m
      BY <1>1, <1>2, <1>6, <2>1 DEF Windows
  <2>2. CASE i = m + 1 /\ j = m + 1
      BY <2>2 DEF Apart
  <2>3. ASSUME NEW k \in 1..m, Saw(be, r, s, q), Saw(be, a[k], s, q)
        PROVE  Apart(f[k], w)
      BY <1>1, <2>3 DEF Saw
  <2>4. CASE i = m + 1 /\ j \in 1..m
      BY <1>2, <1>6, <2>3, <2>4 DEF Apart
  <2>5. CASE i \in 1..m /\ j = m + 1
      BY <1>2, <1>6, <2>3, <2>5 DEF Apart
  <2> QED BY <1>3, <2>1, <2>2, <2>4, <2>5
<1>7. ASSUME NEW s \in Server, NEW q \in Counter, NEW v \in Int
      PROVE  Cardinality(PassedIn(be, b, g, s, q, v, m + 1, Told)) <= Allowed(q)
  <2>1. /\ Cardinality(PassedIn(be, a, f, s, q, v, m, Told)) <= Allowed(q)
        /\ Cardinality(PassedIn(be, a, f, s, q, v, m, Told)) \in Nat /\ Allowed(q) \in Nat
      BY <1>1, PassedFinite, RateNumbers DEF Windows
  <2>2. CASE Saw(be, r, s, q) /\ v = w /\ r.wait = 0 /\ r.by \in Told
    <3>1. r.counted /\ r.counter = q
        BY <2>2 DEF Saw
    <3>2. PassedIn(be, a, f, r.server, r.counter, w, m, Told)
            = PassedIn(be, a, f, s, q, v, m, Told)
        BY <2>2 DEF Saw, PassedIn
    <3> QED BY <1>1, <1>4, <2>1, <2>2, <3>1, <3>2, TellingFacts
  <2>3. CASE ~(Saw(be, r, s, q) /\ v = w /\ r.wait = 0 /\ r.by \in Told)
      BY <1>4, <2>1, <2>3
  <2> QED BY <2>2, <2>3
<1>8. Windows(be, b, g)
    BY <1>2, <1>5, <1>6, <1>7 DEF Windows
<1> QED BY <1>8 DEF b, g

Passing(be, a, s, q, t, K) ==
    {j \in 1..Len(a) : /\ Saw(be, a[j], s, q) /\ a[j].wait = 0 /\ a[j].by \in K
                       /\ t <= a[j].at /\ a[j].at < t + WINDOW_SECONDS}

(* Any span of a window's length meets two windows of a counter at most.        *)
LEMMA SpanPasses ==
    ASSUME NEW be, NEW a \in Seq(Answered), NEW f, Windows(be, a, f),
           NEW s \in Server, NEW q \in Counter, NEW t \in Int
    PROVE  /\ IsFiniteSet(Passing(be, a, s, q, t, Told))
           /\ Cardinality(Passing(be, a, s, q, t, Told)) <= 2 * Allowed(q)
<1> USE DEF Passing
<1> DEFINE P == Passing(be, a, s, q, t, Told)
           In(w) == PassedIn(be, a, f, s, q, w, Len(a), Told)
<1>1. Len(a) \in Nat /\ f \in [1..Len(a) -> Int] /\ \A i \in 1..Len(a) : a[i] \in Answered
    BY LenProperties, ElementOfSeq DEF Windows
<1>2. /\ Allowed(q) \in Nat /\ WINDOW_SECONDS \in Nat
      /\ \A w \in Int : /\ IsFiniteSet(In(w)) /\ Cardinality(In(w)) \in Nat
                        /\ Cardinality(In(w)) <= Allowed(q)
    BY <1>1, PassedFinite, RateNumbers DEF Windows
<1>3. \E v, w \in Int : P \subseteq In(v) \union In(w)
  <2>1. CASE \A j, k \in P : f[j] = f[k]
    <3>1. CASE P = {}
        BY <3>1, 0 \in Int
    <3>2. CASE P # {}
      <4>1. PICK j \in P : TRUE
          BY <3>2
      <4>2. f[j] \in Int /\ \A k \in P : k \in In(f[j])
          BY <1>1, <2>1, <4>1 DEF PassedIn
      <4> QED BY <4>2
    <3> QED BY <3>1, <3>2
  <2>2. CASE ~ \A j, k \in P : f[j] = f[k]
    <3>1. PICK j \in P, k \in P : f[j] # f[k]
        BY <2>2
    <3>2. ASSUME NEW l \in P PROVE f[l] = f[j] \/ f[l] = f[k]
      <4>1. \A i \in {j, k, l} : /\ f[i] \in Int /\ f[i] <= a[i].at
                                 /\ a[i].at < f[i] + WINDOW_SECONDS /\ a[i].at \in Int
                                 /\ t <= a[i].at /\ a[i].at < t + WINDOW_SECONDS
          BY <1>1 DEF Windows, Saw, Answered
      <4>2. Apart(f[j], f[k]) /\ Apart(f[j], f[l]) /\ Apart(f[k], f[l])
          BY DEF Windows
      <4>3. PICK x \in Int, y \in Int, z \in Int, X \in Int, Y \in Int, Z \in Int :
                /\ x = f[j] /\ y = f[k] /\ z = f[l]
                /\ X = a[j].at /\ Y = a[k].at /\ Z = a[l].at
          BY <4>1
      <4>4. /\ x <= X /\ X < x + WINDOW_SECONDS /\ t <= X /\ X < t + WINDOW_SECONDS
            /\ y <= Y /\ Y < y + WINDOW_SECONDS /\ t <= Y /\ Y < t + WINDOW_SECONDS
            /\ z <= Z /\ Z < z + WINDOW_SECONDS /\ t <= Z /\ Z < t + WINDOW_SECONDS
          BY <4>1, <4>3
      <4>5. Apart(x, y) /\ Apart(x, z) /\ Apart(y, z) /\ x # y
          BY <3>1, <4>2, <4>3
      <4>6. z = x \/ z = y
        <5>1. PICK W \in Nat : W = WINDOW_SECONDS
            BY <1>2
        <5>2. /\ x <= X /\ X < x + W /\ t <= X /\ X < t + W
              /\ y <= Y /\ Y < y + W /\ t <= Y /\ Y < t + W
              /\ z <= Z /\ Z < z + W /\ t <= Z /\ Z < t + W
            BY <4>4, <5>1
        <5>3. t - W < x /\ x < t + W /\ t - W < y /\ y < t + W /\ t - W < z /\ z < t + W
            BY <5>2
        <5>4. /\ x + W <= y \/ y + W <= x
              /\ x = z \/ x + W <= z \/ z + W <= x
              /\ y = z \/ y + W <= z \/ z + W <= y
            BY <4>5, <5>1 DEF Apart
        <5> QED BY <5>3, <5>4
      <4> QED BY <4>3, <4>6
    <3>3. P \subseteq In(f[j]) \union In(f[k])
        BY <3>2 DEF PassedIn
    <3> QED BY <1>1, <3>3
  <2> QED BY <2>1, <2>2
<1>4. PICK v \in Int, w \in Int : P \subseteq In(v) \union In(w)
    BY <1>3
<1> HIDE DEF P, In
<1>5. /\ IsFiniteSet(In(v) \union In(w))
      /\ Cardinality(In(v) \union In(w)) <= Cardinality(In(v)) + Cardinality(In(w))
  <2>1. /\ IsFiniteSet(In(v) \union In(w))
        /\ Cardinality(In(v) \union In(w))
             = Cardinality(In(v)) + Cardinality(In(w)) - Cardinality(In(v) \cap In(w))
      BY <1>2, FS_Union
  <2>2. Cardinality(In(v) \cap In(w)) \in Nat
      BY <1>2, FS_Intersection, FS_CardinalityType
  <2> QED BY <1>2, <2>1, <2>2
<1>6. IsFiniteSet(P) /\ Cardinality(P) <= Cardinality(In(v) \union In(w))
    BY <1>4, <1>5, FS_Subset
<1>7. Cardinality(P) \in Nat /\ Cardinality(In(v) \union In(w)) \in Nat
    BY <1>5, <1>6, FS_CardinalityType
<1>8. Cardinality(P) <= 2 * Allowed(q)
  <2>1. /\ Cardinality(In(v)) \in Nat /\ Cardinality(In(v)) <= Allowed(q)
        /\ Cardinality(In(w)) \in Nat /\ Cardinality(In(w)) <= Allowed(q) /\ Allowed(q) \in Nat
      BY <1>2
  <2> QED BY <1>5, <1>6, <1>7, <2>1
<1> QED BY <1>6, <1>8 DEF P

-----------------------------------------------------------------------------
AnswersInOrder ==
    /\ answers \in Seq(Answered) /\ instant \in Nat
    /\ \A i \in 1..Len(answers) : answers[i].at <= instant
    /\ \A i, j \in 1..Len(answers) : i < j => answers[i].at <= answers[j].at

AtMost(n, N) == IF n < N THEN n ELSE N

(* A counter that stands at c said yes to so many of its window at most, and at  *)
(* least so many passed.                                                         *)
Matches(be, a, f, s, q, w, c) ==
    /\ Cardinality(PassedIn(be, a, f, s, q, w, Len(a), Told)) <= AtMost(c, Allowed(q))
    /\ Cardinality(PassedIn(be, a, f, s, q, w, Len(a), Either)) >= AtMost(c, Allowed(q))

(* The window that a replica keeps for a counter is the last one that it opened. *)
BucketSound(b, a, f, s, q, t) ==
    \/ /\ b = NoBucket
       /\ \A j \in 1..Len(a) : Saw("memory", a[j], s, q) => f[j] + WINDOW_SECONDS <= t
    \/ /\ b \in [count : Nat \ {0}, start : 0..t]
       /\ \A j \in 1..Len(a) : Saw("memory", a[j], s, q) =>
              f[j] = b.start \/ f[j] + WINDOW_SECONDS <= b.start
       /\ Matches("memory", a, f, s, q, b.start, b.count)

(* The windows of Redis are the clock's, and an entry outlives its window.       *)
CountSound(n, e, a, f, q, w) ==
    \/ /\ e = 0
       /\ \A j \in 1..Len(a), s \in Server : Saw("redis", a[j], s, q) => f[j] # WINDOW_SECONDS * w
    \/ /\ n \in Nat \ {0} /\ e \in Nat /\ WINDOW_SECONDS * w + WINDOW_SECONDS <= e
       /\ \A s \in Server : Matches("redis", a, f, s, q, WINDOW_SECONDS * w, n)

MemorySound(f) ==
    /\ buckets \in [Server -> [Counter -> [count : Nat, start : Int]]]
    /\ \A s \in Server, q \in Counter : BucketSound(buckets[s][q], answers, f, s, q, instant)
RedisSound(f) ==
    /\ counters \in [Counter -> [Window -> Nat]] /\ expires \in [Counter -> [Window -> Nat]]
    /\ \A q \in Counter, w \in Window : CountSound(counters[q][w], expires[q][w], answers, f, q, w)
    /\ \A j \in 1..Len(answers) :
           answers[j].counted => \E w \in Nat : f[j] = WINDOW_SECONDS * w

RateInv ==
    /\ AnswersInOrder /\ instant \in Window
    /\ \E f : /\ Windows(backend, answers, f)
              /\ \/ backend = "memory" /\ MemorySound(f)
                 \/ backend = "redis" /\ RedisSound(f)

LEMMA MatchesNone ==
    ASSUME NEW be, NEW a \in Seq(Answered), NEW f, NEW s, NEW q \in Counter, NEW w,
           \A j \in 1..Len(a) : Saw(be, a[j], s, q) => f[j] # w
    PROVE  Matches(be, a, f, s, q, w, 0)
<1>1. \A K : PassedIn(be, a, f, s, q, w, Len(a), K) = {}
    BY DEF PassedIn
<1>2. Cardinality({}) = 0
    BY FS_EmptySet
<1>3. AtMost(0, Allowed(q)) = 0
    BY RateNumbers DEF AtMost
<1>4. \A K : Cardinality(PassedIn(be, a, f, s, q, w, Len(a), K)) = 0
    BY <1>1, <1>2
<1>5. /\ Cardinality(PassedIn(be, a, f, s, q, w, Len(a), Told)) = 0
      /\ Cardinality(PassedIn(be, a, f, s, q, w, Len(a), Either)) = 0
    BY <1>4
<1> QED BY <1>3, <1>5 DEF Matches

(* One more hit: the counter says yes to it only up to the limit, and up to the  *)
(* limit it passes in any case.                                                  *)
LEMMA MatchesExtends ==
    ASSUME NEW be, NEW a \in Seq(Answered), NEW f \in [1..Len(a) -> Int], NEW r \in Answered,
           NEW w \in Int, NEW s, NEW q \in Counter, NEW c \in Nat \ {0},
           Matches(be, a, f, s, q, w, c - 1), Saw(be, r, s, q),
           c <= Allowed(q) => r.wait = 0,
           r.by = "counter" /\ r.wait = 0 => c <= Allowed(q)
    PROVE  Matches(be, Append(a, r), Extended(f, Len(a), w), s, q, w, c)
<1> DEFINE b == Append(a, r)
           g == Extended(f, Len(a), w)
           Before(K) == PassedIn(be, a, f, s, q, w, Len(a), K)
           After(K) == PassedIn(be, b, g, s, q, w, Len(b), K)
<1>1. ASSUME NEW K
      PROVE  /\ r.wait = 0 /\ r.by \in K => Cardinality(After(K)) = Cardinality(Before(K)) + 1
             /\ ~(r.wait = 0 /\ r.by \in K) => After(K) = Before(K)
             /\ Cardinality(Before(K)) \in Nat
  <2>1. Len(a) \in Nat
      BY LenProperties
  <2> QED BY <2>1, PassedExtends, PassedFinite
<1>2. /\ Cardinality(Before(Told)) <= AtMost(c - 1, Allowed(q))
      /\ Cardinality(Before(Either)) >= AtMost(c - 1, Allowed(q))
    BY DEF Matches
<1>3. /\ Allowed(q) \in Nat \ {0} /\ r.by \in Either
      /\ (r.by \in Told <=> r.by = "counter")
    BY RateNumbers, TellingFacts
<1>4. PICK N \in Nat \ {0} : N = Allowed(q)
    BY <1>3
<1> HIDE DEF Before, After
<1>5. Cardinality(After(Told)) <= AtMost(c, N)
  <2>1. PICK o \in Nat : o = Cardinality(Before(Told))
      BY <1>1
  <2>2. o <= AtMost(c - 1, N)
      BY <1>2, <1>4, <2>1
  <2>3. CASE r.wait = 0 /\ r.by = "counter"
    <3>1. Cardinality(After(Told)) = o + 1
        BY <1>1, <1>3, <2>1, <2>3
    <3> QED BY <1>4, <2>2, <2>3, <3>1 DEF AtMost
  <2>4. CASE ~(r.wait = 0 /\ r.by = "counter")
    <3>1. Cardinality(After(Told)) = o
        BY <1>1, <1>3, <2>1, <2>4
    <3> QED BY <2>2, <3>1 DEF AtMost
  <2> QED BY <2>3, <2>4
<1>6. Cardinality(After(Either)) >= AtMost(c, N)
  <2>1. PICK o \in Nat : o = Cardinality(Before(Either))
      BY <1>1
  <2>2. o >= AtMost(c - 1, N)
      BY <1>2, <1>4, <2>1
  <2>3. CASE r.wait = 0
    <3>1. Cardinality(After(Either)) = o + 1
        BY <1>1, <1>3, <2>1, <2>3
    <3> QED BY <2>2, <3>1 DEF AtMost
  <2>4. CASE r.wait # 0
    <3>1. Cardinality(After(Either)) = o /\ c > N
      <4>1. After(Either) = Before(Either) /\ ~(c <= N)
          BY <1>1, <1>4, <2>4
      <4> QED BY <2>1, <4>1
    <3> QED BY <2>2, <3>1 DEF AtMost
  <2> QED BY <2>3, <2>4
<1> QED BY <1>4, <1>5, <1>6 DEF Matches, After, b, g

LEMMA RateKeepsLimit == RateInv => LimitKept
<1> SUFFICES ASSUME RateInv, NEW i \in DOMAIN answers
             PROVE  LET N == MaxRequests[answers[i].counter[2]]
                    IN  /\ Cardinality({j \in PassedFrom(i, answers[i].at) : answers[j].by = "counter"})
                              <= 2 * N
                        /\ answers[i].wait > 0 =>
                               /\ Cardinality(PassedFrom(i, answers[i].at + 1 - WINDOW_SECONDS)) >= N
                               /\ \A j \in DOMAIN answers :
                                      (/\ i < j /\ Together(i, j)
                                       /\ answers[j].at >= answers[i].at + answers[i].wait
                                                            + Rounding(backend)
                                       /\ \A k \in i + 1..j - 1 : ~Together(i, k))
                                      => answers[j].wait = 0
    BY DEF LimitKept
<1>1. PICK f : Windows(backend, answers, f)
    BY DEF RateInv
<1> DEFINE s == answers[i].server
           q == answers[i].counter
<1>2. /\ answers \in Seq(Answered) /\ Len(answers) \in Nat /\ DOMAIN answers = 1..Len(answers)
      /\ i \in 1..Len(answers) /\ f \in [1..Len(answers) -> Int]
      /\ \A j \in 1..Len(answers) : answers[j] \in Answered
      /\ \A j \in 1..Len(answers) : answers[j].at \in Int /\ answers[j].wait \in Nat
      /\ s \in Server /\ q \in Counter
  <2>1. answers \in Seq(Answered)
      BY DEF RateInv, AnswersInOrder
  <2>2. Len(answers) \in Nat /\ DOMAIN answers = 1..Len(answers)
        /\ \A j \in 1..Len(answers) : answers[j] \in Answered
      BY <2>1, LenProperties, ElementOfSeq
  <2> QED BY <1>1, <2>1, <2>2 DEF Windows, Answered
<1>3. /\ WINDOW_SECONDS \in Nat \ {0} /\ Allowed(q) \in Nat \ {0}
      /\ MaxRequests[answers[i].counter[2]] = Allowed(q)
    BY <1>2, RateNumbers DEF Allowed
<1>4. \A j \in DOMAIN answers :
          Together(i, j) <=> answers[i].counted /\ Saw(backend, answers[j], s, q)
    BY DEF Together, Saw
<1>5. CASE ~answers[i].counted
  <2>1. answers[i].wait = 0 /\ \A t : PassedFrom(i, t) = {}
      BY <1>1, <1>2, <1>4, <1>5 DEF Windows, PassedFrom
  <2>2. Cardinality({}) = 0
      BY FS_EmptySet
  <2>3. Cardinality({j \in PassedFrom(i, answers[i].at) : answers[j].by = "counter"}) = 0
    <3>1. {j \in PassedFrom(i, answers[i].at) : answers[j].by = "counter"} = {}
        BY <2>1
    <3> QED BY <2>2, <3>1
  <2>4. 0 <= 2 * Allowed(q)
      BY <1>3
  <2> QED BY <1>3, <2>1, <2>3, <2>4
<1>6. CASE answers[i].counted
  <2>1. ASSUME NEW t \in Int
        PROVE  /\ PassedFrom(i, t) = Passing(backend, answers, s, q, t, Either)
               /\ IsFiniteSet(PassedFrom(i, t))
               /\ Cardinality({j \in PassedFrom(i, t) : answers[j].by = "counter"}) <= 2 * Allowed(q)
    <3>1. \A j \in 1..Len(answers) : /\ answers[j].by \in Either
                                    /\ (answers[j].by \in Told <=> answers[j].by = "counter")
        BY <1>2, TellingFacts
    <3>2. PassedFrom(i, t) = Passing(backend, answers, s, q, t, Either)
      <4>1. \A j \in 1..Len(answers) : j \in PassedFrom(i, t)
                                        <=> j \in Passing(backend, answers, s, q, t, Either)
          BY <1>2, <1>4, <1>6, <3>1 DEF PassedFrom, Passing
      <4>2. /\ PassedFrom(i, t) \subseteq 1..Len(answers)
            /\ Passing(backend, answers, s, q, t, Either) \subseteq 1..Len(answers)
          BY <1>2 DEF PassedFrom, Passing
      <4> QED BY <4>1, <4>2
    <3>3. {j \in PassedFrom(i, t) : answers[j].by = "counter"} = Passing(backend, answers, s, q, t, Told)
      <4>1. \A j \in 1..Len(answers) : j \in PassedFrom(i, t) /\ answers[j].by = "counter"
                                        <=> j \in Passing(backend, answers, s, q, t, Told)
          BY <3>1, <3>2 DEF Passing
      <4>2. /\ PassedFrom(i, t) \subseteq 1..Len(answers)
            /\ Passing(backend, answers, s, q, t, Told) \subseteq 1..Len(answers)
          BY <1>2 DEF PassedFrom, Passing
      <4> QED BY <4>1, <4>2
    <3>4. IsFiniteSet(PassedFrom(i, t))
      <4>1. IsFiniteSet(1..Len(answers)) /\ PassedFrom(i, t) \subseteq 1..Len(answers)
          BY <1>2, FS_Interval DEF PassedFrom
      <4> QED BY <4>1, FS_Subset
    <3> QED BY <1>1, <1>2, <3>2, <3>3, <3>4, SpanPasses
  <2>2. ASSUME answers[i].wait > 0
        PROVE  Cardinality(PassedFrom(i, answers[i].at + 1 - WINDOW_SECONDS)) >= Allowed(q)
    <3> DEFINE In == PassedIn(backend, answers, f, s, q, f[i], i - 1, Either)
               t == answers[i].at + 1 - WINDOW_SECONDS
    <3>1. Cardinality(In) >= Allowed(q) /\ t \in Int /\ i - 1 \in Nat
        BY <1>1, <1>2, <1>3, <2>2 DEF Windows
    <3>2. In \subseteq PassedFrom(i, t)
      <4>1. ASSUME NEW j \in In PROVE j \in PassedFrom(i, t)
        <5>1. /\ j \in 1..i - 1 /\ Saw(backend, answers[j], s, q) /\ f[j] = f[i]
              /\ answers[j].wait = 0 /\ answers[j].by \in Either
            BY <4>1 DEF PassedIn
        <5>2. j \in 1..Len(answers) /\ j < i /\ answers[j].counted
            BY <1>2, <5>1 DEF Saw
        <5>3. /\ f[j] <= answers[j].at /\ answers[i].at < f[i] + WINDOW_SECONDS
              /\ f[i] \in Int
            BY <1>1, <1>2, <1>6, <5>2 DEF Windows
        <5>4. answers[j].at <= answers[i].at
            BY <1>2, <5>2 DEF RateInv, AnswersInOrder
        <5>5. answers[j].at \in Int /\ answers[i].at \in Int
            BY <1>2, <5>2
        <5>6. t <= answers[j].at /\ answers[j].at < t + WINDOW_SECONDS
            BY <1>3, <5>1, <5>3, <5>4, <5>5
        <5> QED BY <2>1, <3>1, <5>1, <5>2, <5>6 DEF Passing
      <4> QED BY <4>1
    <3>3. Cardinality(In) <= Cardinality(PassedFrom(i, t))
        BY <2>1, <3>1, <3>2, FS_Subset
    <3>4. Cardinality(In) \in Nat /\ Cardinality(PassedFrom(i, t)) \in Nat
        BY <2>1, <3>1, PassedFinite, FS_CardinalityType
    <3> QED BY <1>3, <3>1, <3>3, <3>4
  <2>3. ASSUME answers[i].wait > 0, NEW j \in DOMAIN answers, i < j, Together(i, j),
               answers[j].at >= answers[i].at + answers[i].wait + Rounding(backend),
               \A k \in i + 1..j - 1 : ~Together(i, k), answers[j].wait # 0
        PROVE  FALSE
    <3>1. /\ j \in 1..Len(answers) /\ answers[j].counted /\ answers[j].counter = q
          /\ backend = "memory" => answers[j].server = s
        BY <1>2, <2>3 DEF Together
    <3> DEFINE In == PassedIn(backend, answers, f, answers[j].server, q, f[j], j - 1, Either)
    <3>2. Cardinality(In) >= Allowed(q) /\ j - 1 \in Nat
      <4>1. answers[j].wait > 0 /\ j - 1 \in Nat
          BY <1>2, <2>3, <3>1
      <4> QED BY <1>1, <3>1, <4>1 DEF Windows
    <3>3. In # {}
      <4>1. Cardinality({}) = 0
          BY FS_EmptySet
      <4>2. Cardinality(In) >= Allowed(q) /\ Allowed(q) \in Nat \ {0}
          BY <1>3, <3>2
      <4> HIDE DEF In, q
      <4>3. Cardinality(In) # 0
          BY <4>2
      <4> QED BY <4>1, <4>3
    <3>4. PICK k \in In : TRUE
        BY <3>3
    <3>5. /\ k \in 1..j - 1 /\ Saw(backend, answers[k], s, q) /\ f[k] = f[j]
        BY <3>1, <3>4 DEF PassedIn, Saw
    <3>6. k \in 1..Len(answers) /\ Together(i, k) /\ answers[k].counted
        BY <1>2, <1>4, <1>6, <3>1, <3>5 DEF Saw
    <3>7. k <= i
        BY <1>2, <2>3, <3>1, <3>5, <3>6
    <3>8. k = i \/ answers[k].at <= answers[i].at
      <4>1. \A a, b \in 1..Len(answers) : a < b => answers[a].at <= answers[b].at
          BY DEF RateInv, AnswersInOrder
      <4>2. k \in 1..Len(answers) /\ i \in 1..Len(answers) /\ (k = i \/ k < i)
          BY <1>2, <3>6, <3>7
      <4> QED BY <4>1, <4>2
    <3>9. /\ f[i] + WINDOW_SECONDS <= answers[i].at + answers[i].wait + Rounding(backend)
          /\ f[k] <= answers[k].at /\ answers[j].at < f[j] + WINDOW_SECONDS
          /\ answers[i].at < f[i] + WINDOW_SECONDS
        BY <1>1, <1>2, <1>6, <2>3, <3>1, <3>6 DEF Windows
    <3>10. Saw(backend, answers[i], s, q)
        BY <1>6 DEF Saw
    <3>11. Apart(f[i], f[k])
        BY <1>1, <1>2, <3>5, <3>6, <3>10 DEF Windows
    <3>12. PICK x \in Int, y \in Int, A \in Int, B \in Int, C \in Int, d \in Nat, R \in Nat :
              /\ x = f[i] /\ y = f[k] /\ A = answers[i].at /\ B = answers[j].at
              /\ C = answers[k].at /\ d = answers[i].wait /\ R = Rounding(backend)
      <4>1. Rounding(backend) \in Nat
          BY DEF Rounding
      <4> QED BY <1>2, <3>1, <3>6, <4>1
    <3> QED BY <1>3, <2>3, <3>5, <3>8, <3>9, <3>11, <3>12 DEF Apart
  <2>4. answers[i].wait > 0 => answers[i].wait \in Nat /\ \A j \in DOMAIN answers : answers[j].wait \in Nat
      BY <1>2
  <2> QED BY <1>2, <1>3, <2>1, <2>2, <2>3
<1> QED BY <1>5, <1>6

(* Another counter answers, or time passes, or the sweep takes the window.       *)
LEMMA BucketStands ==
    ASSUME NEW a \in Seq(Answered), NEW f \in [1..Len(a) -> Int], NEW r \in Answered,
           NEW w \in Int, NEW s \in Server, NEW q \in Counter, NEW b, NEW t \in Nat,
           NEW u \in Nat, t <= u, BucketSound(b, a, f, s, q, t)
    PROVE  /\ BucketSound(b, a, f, s, q, u)
           /\ ~Saw("memory", r, s, q) =>
                 BucketSound(b, Append(a, r), Extended(f, Len(a), w), s, q, u)
           /\ u - b.start >= WINDOW_SECONDS => BucketSound(NoBucket, a, f, s, q, u)
<1>1. PICK m \in Nat : m = Len(a)
    BY LenProperties
<1>2. /\ WINDOW_SECONDS \in Nat /\ \A j \in 1..m : f[j] \in Int
    BY <1>1, RateNumbers
<1>3. BucketSound(b, a, f, s, q, u)
    BY <1>1, <1>2 DEF BucketSound
<1>4. ASSUME ~Saw("memory", r, s, q)
      PROVE  BucketSound(b, Append(a, r), Extended(f, Len(a), w), s, q, u)
  <2> DEFINE c == Append(a, r)
             g == Extended(f, Len(a), w)
  <2>1. /\ Len(c) = m + 1 /\ c[m + 1] = r
        /\ \A i \in 1..m : c[i] = a[i] /\ g[i] = f[i]
      BY <1>1, AppendProperties DEF Extended
  <2>2. \A v, K : PassedIn("memory", c, g, s, q, v, Len(c), K)
                   = PassedIn("memory", a, f, s, q, v, Len(a), K)
      BY <1>4, PassedExtends
  <2> HIDE DEF c, g
  <2>3. \A j \in 1..m + 1 : Saw("memory", c[j], s, q) =>
            j \in 1..m /\ Saw("memory", a[j], s, q) /\ g[j] = f[j]
    <3>1. \A j \in 1..m + 1 : j \in 1..m \/ j = m + 1
        OBVIOUS
    <3> QED BY <1>4, <2>1, <3>1
  <2>4. BucketSound(b, c, g, s, q, u)
      BY <1>1, <1>3, <2>1, <2>2, <2>3 DEF BucketSound, Matches
  <2> QED BY <2>4 DEF c, g
<1>5. ASSUME u - b.start >= WINDOW_SECONDS PROVE BucketSound(NoBucket, a, f, s, q, u)
  <2>1. CASE b = NoBucket
      BY <1>3, <2>1
  <2>2. CASE b # NoBucket
    <3>1. /\ b \in [count : Nat \ {0}, start : 0..t]
          /\ \A j \in 1..m : Saw("memory", a[j], s, q) =>
                 f[j] = b.start \/ f[j] + WINDOW_SECONDS <= b.start
        BY <1>1, <2>2 DEF BucketSound
    <3>2. PICK x \in Nat : x = b.start
        BY <3>1
    <3>3. \A j \in 1..m : Saw("memory", a[j], s, q) => f[j] + WINDOW_SECONDS <= u
      <4> SUFFICES ASSUME NEW j \in 1..m, Saw("memory", a[j], s, q)
                   PROVE  f[j] + WINDOW_SECONDS <= u
          OBVIOUS
      <4>1. f[j] \in Int /\ (f[j] = x \/ f[j] + WINDOW_SECONDS <= x)
          BY <1>2, <3>1, <3>2
      <4>2. x + WINDOW_SECONDS <= u
          BY <1>2, <1>5, <3>2
      <4> QED BY <1>2, <4>1, <4>2
    <3> QED BY <1>1, <3>3 DEF BucketSound
  <2> QED BY <2>1, <2>2
<1> QED BY <1>3, <1>4, <1>5

LEMMA HitInMemory ==
    ASSUME RateInv, backend = "memory", NEW s \in Server, NEW q \in Counter,
           LimitRequestRate(s, q)
    PROVE  RateInv'
<1>1. PICK f : Windows(backend, answers, f) /\ MemorySound(f)
    BY DEF RateInv
<1>2. /\ CheckInMemory(s, q) /\ UNCHANGED <<backend, instant>>
    BY DEF LimitRequestRate
<1>3. PICK a \in Seq(Answered), t \in Nat, m \in Nat :
            a = answers /\ t = instant /\ m = Len(answers) /\ m = Len(a)
  <2>1. answers \in Seq(Answered) /\ instant \in Nat
      BY DEF RateInv, AnswersInOrder
  <2> QED BY <2>1, LenProperties
<1>4. /\ a \in Seq(Answered) /\ f \in [1..m -> Int] /\ \A j \in 1..m : a[j] \in Answered
      /\ Windows("memory", a, f)
    BY <1>1, <1>3, ElementOfSeq DEF RateInv, AnswersInOrder, Windows
<1>5. WINDOW_SECONDS \in Nat \ {0} /\ Allowed(q) \in Nat \ {0}
    BY RateNumbers
<1>6. PICK b : b = buckets[s][q]
    OBVIOUS
<1>7. b \in [count : Nat, start : Int] /\ BucketSound(b, a, f, s, q, t)
    BY <1>1, <1>3, <1>6 DEF MemorySound
<1> DEFINE opens == b = NoBucket \/ t - b.start >= WINDOW_SECONDS
           w == IF opens THEN t ELSE b.start
           c == IF opens THEN 1 ELSE b.count + 1
           new == [count |-> c, start |-> w]
<1>8. WithHit(Pruned(s)[q]) = new
  <2>1. Pruned(s)[q] = IF PruneIsDue(s) /\ Expired(b) THEN NoBucket ELSE b
      BY <1>6 DEF Pruned
  <2>2. Pruned(s)[q] = b \/ (Pruned(s)[q] = NoBucket /\ opens)
      BY <1>3, <2>1 DEF Expired
  <2>3. WithHit(NoBucket) = [count |-> 1, start |-> t]
      BY <1>3 DEF WithHit
  <2>4. WithHit(b) = new
    <3>1. CASE opens
        BY <1>3, <3>1 DEF WithHit
    <3>2. CASE ~opens
        BY <1>3, <1>7, <3>2 DEF WithHit
    <3> QED BY <3>1, <3>2
  <2> QED BY <2>2, <2>3, <2>4
<1>9. /\ c \in Nat \ {0} /\ w \in 0..t /\ w <= t /\ t < w + WINDOW_SECONDS
  <2>1. CASE opens
      BY <1>5, <2>1
  <2>2. CASE ~opens
    <3>1. b \in [count : Nat \ {0}, start : 0..t]
        BY <1>7, <2>2 DEF BucketSound
    <3> QED BY <1>5, <2>2, <3>1
  <2> QED BY <2>1, <2>2
<1>10. \A j \in 1..m : Saw("memory", a[j], s, q) =>
           f[j] \in Int /\ (f[j] + WINDOW_SECONDS <= w \/ (~opens /\ f[j] = w))
  <2>1. CASE b = NoBucket
      BY <1>3, <1>4, <1>7, <2>1 DEF BucketSound, NoBucket
  <2>2. CASE b # NoBucket
    <3>1. /\ b \in [count : Nat \ {0}, start : 0..t]
          /\ \A j \in 1..m : Saw("memory", a[j], s, q) =>
                 f[j] = b.start \/ f[j] + WINDOW_SECONDS <= b.start
        BY <1>3, <1>7, <2>2 DEF BucketSound
    <3> QED BY <1>4, <1>5, <2>2, <3>1
  <2> QED BY <2>1, <2>2
<1>11. Matches("memory", a, f, s, q, w, c - 1)
  <2>1. CASE opens
    <3>1. \A j \in 1..Len(a) : Saw("memory", a[j], s, q) => f[j] # w
        BY <1>3, <1>5, <1>9, <1>10, <2>1
    <3>2. c - 1 = 0
        BY <2>1
    <3> HIDE DEF w, c
    <3> QED BY <3>1, <3>2, MatchesNone
  <2>2. CASE ~opens
    <3>1. /\ b \in [count : Nat \ {0}, start : 0..t]
          /\ Matches("memory", a, f, s, q, b.start, b.count)
        BY <1>7, <2>2 DEF BucketSound
    <3>2. w = b.start /\ c - 1 = b.count
        BY <2>2, <3>1
    <3> QED BY <3>1, <3>2
  <2> QED BY <2>1, <2>2
<1>12. PICK wait \in Nat : /\ wait = IF c > Allowed(q) THEN AtLeastOne(WINDOW_SECONDS - (t - w)) ELSE 0
                           /\ c > Allowed(q) => wait > 0 /\ w + WINDOW_SECONDS <= t + wait
  <2>1. AtLeastOne(WINDOW_SECONDS - (t - w)) \in Nat \ {0}
        /\ w + WINDOW_SECONDS <= t + AtLeastOne(WINDOW_SECONDS - (t - w))
      BY <1>5, <1>9 DEF AtLeastOne
  <2> QED BY <1>5, <1>9, <2>1
<1> DEFINE r == [server |-> s, counter |-> q, at |-> t, wait |-> wait, counted |-> TRUE,
                 by |-> "counter"]
<1>13. /\ answers' = Append(a, r)
       /\ buckets' = [buckets EXCEPT ![s] = [Pruned(s) EXCEPT ![q] = new]]
  <2>1. new.count = c /\ new.start = w
      OBVIOUS
  <2> HIDE DEF new
  <2> QED BY <1>2, <1>3, <1>8, <1>12, <2>1 DEF CheckInMemory, Record, Allowed
<1> HIDE DEF opens, w, c, new
<1>14. r \in Answered /\ Saw("memory", r, s, q)
    BY <1>3 DEF Answered, Saw
<1>15. Windows("memory", Append(a, r), Extended(f, m, w))
  <2>1. \A j \in 1..m : Saw("memory", a[j], s, q) => Apart(f[j], w)
      BY <1>10 DEF Apart
  <2>2. wait = 0 => Cardinality(PassedIn("memory", a, f, s, q, w, m, Told)) < Allowed(q)
    <3>1. Cardinality(PassedIn("memory", a, f, s, q, w, m, Told)) \in Nat
        BY PassedFinite
    <3> QED BY <1>3, <1>5, <1>9, <1>11, <1>12, <3>1 DEF AtMost, Matches
  <2>3. wait > 0 =>
            /\ w + WINDOW_SECONDS <= t + wait + Rounding("memory")
            /\ Cardinality(PassedIn("memory", a, f, s, q, w, m, Either)) >= Allowed(q)
    <3>1. Cardinality(PassedIn("memory", a, f, s, q, w, m, Either)) \in Nat
        BY PassedFinite
    <3>2. Rounding("memory") = 0
        BY DEF Rounding
    <3> QED BY <1>3, <1>5, <1>9, <1>11, <1>12, <3>1, <3>2 DEF AtMost, Matches
  <2>4. /\ r.server = s /\ r.counter = q /\ r.at = t /\ r.wait = wait /\ r.counted /\ r.by = "counter"
      OBVIOUS
  <2> HIDE DEF r
  <2>5. /\ w \in Int
        /\ r.counted => w <= r.at /\ r.at < w + WINDOW_SECONDS
        /\ r.counted => \A j \in 1..Len(a) : Saw("memory", a[j], r.server, r.counter) => Apart(f[j], w)
        /\ ~r.counted => r.wait = 0
        /\ r.counted /\ r.wait = 0 /\ r.by = "counter" =>
              Cardinality(PassedIn("memory", a, f, r.server, r.counter, w, Len(a), Told))
                  < Allowed(r.counter)
        /\ r.wait > 0 =>
              /\ w + WINDOW_SECONDS <= r.at + r.wait + Rounding("memory")
              /\ Cardinality(PassedIn("memory", a, f, r.server, r.counter, w, Len(a), Either))
                     >= Allowed(r.counter)
      BY <1>3, <1>9, <2>1, <2>2, <2>3, <2>4
  <2>6. Windows("memory", Append(a, r), Extended(f, Len(a), w))
      BY <1>4, <1>14, <2>5, WindowsExtend
  <2> QED BY <1>3, <2>6
<1> DEFINE g == Extended(f, m, w)
<1>16. BucketSound(new, Append(a, r), g, s, q, t)
  <2>1. /\ Len(Append(a, r)) = m + 1 /\ Append(a, r)[m + 1] = r
        /\ \A i \in 1..m : Append(a, r)[i] = a[i] /\ g[i] = f[i]
        /\ g[m + 1] = w
      BY <1>3, <1>4, <1>14, AppendProperties DEF Extended
  <2>2. \A j \in 1..m + 1 : j \in 1..m \/ j = m + 1
      OBVIOUS
  <2>3. \A j \in 1..m + 1 : Saw("memory", Append(a, r)[j], s, q) =>
            g[j] = w \/ g[j] + WINDOW_SECONDS <= w
      BY <1>10, <2>1, <2>2
  <2>4. r.wait = wait /\ r.by = "counter"
      OBVIOUS
  <2> HIDE DEF r
  <2>5. Matches("memory", Append(a, r), g, s, q, w, c)
    <3>1. (c <= Allowed(q) => wait = 0) /\ (wait = 0 => c <= Allowed(q))
        BY <1>5, <1>9, <1>12
    <3> QED BY <1>3, <1>4, <1>9, <1>11, <1>14, <2>4, <3>1, MatchesExtends
  <2>6. new \in [count : Nat \ {0}, start : 0..t] /\ new.count = c /\ new.start = w
      BY <1>9 DEF new
  <2> QED BY <2>1, <2>3, <2>5, <2>6 DEF BucketSound
<1>17. ASSUME NEW v \in Server, NEW p \in Counter, ~(v = s /\ p = q)
       PROVE  /\ BucketSound(buckets'[v][p], Append(a, r), g, v, p, t)
              /\ buckets'[v][p] \in [count : Nat, start : Int]
  <2>1. ~Saw("memory", r, v, p)
      BY <1>17 DEF Saw
  <2>2. /\ BucketSound(buckets[v][p], a, f, v, p, t)
        /\ buckets[v][p] \in [count : Nat, start : Int]
      BY <1>1, <1>3 DEF MemorySound
  <2>3. PICK d : /\ d = buckets'[v][p]
                 /\ d = buckets[v][p] \/ (d = NoBucket /\ Expired(buckets[v][p]))
      BY <1>1, <1>13, <1>17 DEF MemorySound, Pruned
  <2>4. BucketSound(d, a, f, v, p, t) /\ d \in [count : Nat, start : Int]
    <3>1. NoBucket \in [count : Nat, start : Int]
        BY DEF NoBucket
    <3> QED BY <1>3, <1>4, <1>14, <2>2, <2>3, <3>1, BucketStands DEF Expired
  <2>5. BucketSound(d, Append(a, r), g, v, p, t)
    <3> HIDE DEF r
    <3> QED BY <1>3, <1>4, <1>9, <1>14, <2>1, <2>4, BucketStands
  <2> QED BY <2>3, <2>4, <2>5
<1>18. buckets'[s][q] = new /\ new \in [count : Nat, start : Int]
    BY <1>1, <1>9, <1>13 DEF MemorySound, new, Pruned
<1>19. \A v \in Server, p \in Counter :
           /\ BucketSound(buckets'[v][p], Append(a, r), g, v, p, t)
           /\ buckets'[v][p] \in [count : Nat, start : Int]
    BY <1>16, <1>17, <1>18
<1>20. buckets' \in [Server -> [Counter -> [count : Nat, start : Int]]]
  <2>1. DOMAIN buckets' = Server /\ \A v \in Server : buckets'[v] = [p \in Counter |-> buckets'[v][p]]
      BY <1>1, <1>13 DEF MemorySound, Pruned
  <2>2. \A v \in Server : buckets'[v] \in [Counter -> [count : Nat, start : Int]]
      BY <1>19, <2>1
  <2>3. buckets' = [v \in Server |-> buckets'[v]]
      BY <1>1, <1>13 DEF MemorySound
  <2> QED BY <2>2, <2>3
<1>21. MemorySound(g)'
  <2> HIDE DEF r, g
  <2> QED BY <1>2, <1>3, <1>13, <1>19, <1>20 DEF MemorySound
<1>22. AnswersInOrder'
  <2>1. Append(a, r) \in Seq(Answered) /\ Len(Append(a, r)) = m + 1 /\ Append(a, r)[m + 1] = r
        /\ \A i \in 1..m : Append(a, r)[i] = a[i]
      BY <1>3, <1>4, <1>14, AppendProperties
  <2> QED BY <1>2, <1>3, <1>4, <1>13, <2>1 DEF RateInv, AnswersInOrder
<1>23. Windows(backend, answers, g)'
  <2> HIDE DEF r
  <2> QED BY <1>2, <1>13, <1>15
<1> HIDE DEF g
<1> QED BY <1>2, <1>21, <1>22, <1>23 DEF RateInv

(* An entry of another counter, or of another window of the clock.               *)
LEMMA CountStands ==
    ASSUME NEW a \in Seq(Answered), NEW f \in [1..Len(a) -> Int], NEW r \in Answered,
           NEW w \in Int, NEW q \in Counter, NEW v \in Nat, NEW n, NEW e,
           CountSound(n, e, a, f, q, v),
           ~(r.counted /\ r.counter = q /\ w = WINDOW_SECONDS * v)
    PROVE  CountSound(n, e, Append(a, r), Extended(f, Len(a), w), q, v)
<1> DEFINE c == Append(a, r)
           g == Extended(f, Len(a), w)
<1>1. PICK m \in Nat : m = Len(a)
    BY LenProperties
<1>2. PICK x \in Nat : x = WINDOW_SECONDS * v
    BY RateNumbers
<1>3. /\ Len(c) = m + 1 /\ c[m + 1] = r /\ g[m + 1] = w
      /\ \A i \in 1..m : c[i] = a[i] /\ g[i] = f[i]
    BY <1>1, AppendProperties DEF Extended
<1>4. \A s, K : PassedIn("redis", c, g, s, q, x, Len(c), K)
                 = PassedIn("redis", a, f, s, q, x, Len(a), K)
  <2>1. \A s : ~(Saw("redis", r, s, q) /\ x = w /\ r.wait = 0)
      BY <1>2 DEF Saw
  <2> QED BY <2>1, PassedExtends
<1> HIDE DEF c, g
<1>5. \A j \in 1..m + 1, s \in Server : Saw("redis", c[j], s, q) /\ g[j] = x =>
          j \in 1..m /\ Saw("redis", a[j], s, q) /\ f[j] = x
  <2>1. \A j \in 1..m + 1 : j \in 1..m \/ j = m + 1
      OBVIOUS
  <2> QED BY <1>2, <1>3, <2>1 DEF Saw
<1>6. CountSound(n, e, c, g, q, v)
    BY <1>1, <1>2, <1>3, <1>4, <1>5 DEF CountSound, Matches
<1> QED BY <1>6 DEF c, g

LEMMA HitInRedis ==
    ASSUME RateInv, backend = "redis", NEW s \in Server, NEW q \in Counter,
           LimitRequestRate(s, q)
    PROVE  RateInv'
<1>1. PICK f : Windows(backend, answers, f) /\ RedisSound(f)
    BY DEF RateInv
<1>2. (CheckInRedis(s, q) \/ FailOpen(s, q)) /\ UNCHANGED <<backend, instant>>
    BY DEF LimitRequestRate
<1>3. PICK a \in Seq(Answered), t \in Nat, m \in Nat :
            a = answers /\ t = instant /\ m = Len(answers) /\ m = Len(a) /\ t \in Window
  <2>1. answers \in Seq(Answered) /\ instant \in Nat
      BY DEF RateInv, AnswersInOrder
  <2> QED BY <2>1, LenProperties DEF RateInv
<1>4. /\ f \in [1..m -> Int] /\ \A j \in 1..m : a[j] \in Answered
      /\ Windows("redis", a, f)
    BY <1>1, <1>3, ElementOfSeq DEF Windows
<1>5. WINDOW_SECONDS \in Nat \ {0} /\ Allowed(q) \in Nat \ {0}
    BY RateNumbers
<1>6. ASSUME NEW r \in Answered, r.server = s, r.counter = q, r.at = t, answers' = Append(a, r),
             NEW w \in Int, Windows("redis", Append(a, r), Extended(f, m, w)),
             r.counted => \E v \in Nat : w = WINDOW_SECONDS * v,
             counters' \in [Counter -> [Window -> Nat]], expires' \in [Counter -> [Window -> Nat]],
             \A p \in Counter, v \in Window :
                 CountSound(counters'[p][v], expires'[p][v], Append(a, r), Extended(f, m, w), p, v)
      PROVE  RateInv'
  <2>1. PICK b, g : b = Append(a, r) /\ g = Extended(f, m, w)
      OBVIOUS
  <2>2. /\ b \in Seq(Answered) /\ Len(b) = m + 1 /\ b[m + 1] = r
        /\ \A i \in 1..m : b[i] = a[i]
        /\ g[m + 1] = w /\ \A i \in 1..m : g[i] = f[i]
      BY <1>3, <2>1, AppendProperties DEF Extended
  <2>3. \A j \in 1..m + 1 : j \in 1..m \/ j = m + 1
      OBVIOUS
  <2>4. AnswersInOrder'
    <3>1. /\ \A i \in 1..m : a[i].at <= t
          /\ \A i, j \in 1..m : i < j => a[i].at <= a[j].at
        BY <1>3 DEF RateInv, AnswersInOrder
    <3>2. b[m + 1].at = t
        BY <1>6, <2>2
    <3>3. \A i \in 1..m + 1 : b[i].at <= t
        BY <2>2, <2>3, <3>1, <3>2
    <3>4. \A i, j \in 1..m + 1 : i < j => b[i].at <= b[j].at
      <4> SUFFICES ASSUME NEW i \in 1..m + 1, NEW j \in 1..m + 1, i < j
                   PROVE  b[i].at <= b[j].at
          OBVIOUS
      <4>1. i \in 1..m
          BY <2>3
      <4> QED BY <2>2, <2>3, <3>1, <3>2, <4>1
    <3>5. answers' = b /\ instant' = t
        BY <1>2, <1>3, <1>6, <2>1
    <3> QED BY <2>2, <3>3, <3>4, <3>5 DEF AnswersInOrder
  <2>5. \A j \in 1..m + 1 : b[j].counted => \E v \in Nat : g[j] = WINDOW_SECONDS * v
    <3>1. \A j \in 1..m : a[j].counted => \E v \in Nat : f[j] = WINDOW_SECONDS * v
        BY <1>1, <1>3 DEF RedisSound
    <3> QED BY <1>6, <2>2, <2>3, <3>1
  <2>6. RedisSound(g)'
      BY <1>6, <2>1, <2>2, <2>5 DEF RedisSound
  <2>7. Windows(backend, answers, g)'
      BY <1>2, <1>6, <2>1
  <2> QED BY <1>2, <1>3, <2>4, <2>6, <2>7 DEF RateInv
(* The request passes and Redis has not counted it.                              *)
<1>7. ASSUME Record(s, q, 0, FALSE, "outage"), UNCHANGED <<counters, expires>> PROVE RateInv'
  <2> DEFINE r == [server |-> s, counter |-> q, at |-> t, wait |-> 0, counted |-> FALSE,
                   by |-> "outage"]
  <2>1. r \in Answered /\ ~r.counted /\ r.wait = 0 /\ r.server = s /\ r.counter = q /\ r.at = t
      BY <1>3 DEF Answered
  <2>2. answers' = Append(a, r) /\ UNCHANGED <<counters, expires>>
      BY <1>3, <1>7 DEF Record
  <2> HIDE DEF r
  <2>3. Windows("redis", Append(a, r), Extended(f, m, 0))
    <3>1. /\ 0 \in Int
          /\ r.counted => 0 <= r.at /\ r.at < 0 + WINDOW_SECONDS
          /\ r.counted => \A j \in 1..Len(a) : Saw("redis", a[j], r.server, r.counter) => Apart(f[j], 0)
          /\ ~r.counted => r.wait = 0
          /\ r.counted /\ r.wait = 0 /\ r.by = "counter" =>
                Cardinality(PassedIn("redis", a, f, r.server, r.counter, 0, Len(a), Told))
                    < Allowed(r.counter)
          /\ r.wait > 0 =>
                /\ 0 + WINDOW_SECONDS <= r.at + r.wait + Rounding("redis")
                /\ Cardinality(PassedIn("redis", a, f, r.server, r.counter, 0, Len(a), Either))
                       >= Allowed(r.counter)
        BY <2>1
    <3>2. Windows("redis", Append(a, r), Extended(f, Len(a), 0))
        BY <1>4, <2>1, <3>1, WindowsExtend
    <3> QED BY <1>3, <3>2
  <2>4. \A p \in Counter, v \in Window :
            CountSound(counters[p][v], expires[p][v], Append(a, r), Extended(f, m, 0), p, v)
    <3> SUFFICES ASSUME NEW p \in Counter, NEW v \in Window
                 PROVE  CountSound(counters[p][v], expires[p][v], Append(a, r),
                                   Extended(f, m, 0), p, v)
        OBVIOUS
    <3>1. v \in Nat /\ CountSound(counters[p][v], expires[p][v], a, f, p, v)
        BY <1>1, <1>3 DEF RedisSound, Window
    <3>2. 0 \in Int /\ f \in [1..Len(a) -> Int] /\ m = Len(a)
        BY <1>3, <1>4
    <3> QED BY <2>1, <3>1, <3>2, CountStands
  <2>5. \A p \in Counter, v \in Window :
            CountSound(counters'[p][v], expires'[p][v], Append(a, r), Extended(f, m, 0), p, v)
      BY <2>2, <2>4
  <2>6. counters' \in [Counter -> [Window -> Nat]] /\ expires' \in [Counter -> [Window -> Nat]]
      BY <1>1, <2>2 DEF RedisSound
  <2> QED BY <1>6, <2>1, <2>2, <2>3, <2>5, <2>6, 0 \in Int
(* Redis has counted it; its answer is told, or is lost and the request passes.  *)
<1>8. ASSUME IncrAndExpire(q), NEW wait \in Nat, NEW by \in {"counter", "outage"},
             Record(s, q, wait, TRUE, by),
             by = "outage" => wait = 0,
             by = "counter" => (wait = 0 <=> CountOf(q) <= Allowed(q)),
             wait > 0 => \/ wait + 1 >= ExpiryOf(q) - instant
                         \/ wait = WINDOW_SECONDS
      PROVE  RateInv'
  <2>1. PICK v \in Nat : /\ v = t \div WINDOW_SECONDS
                         /\ WINDOW_SECONDS * v <= t /\ t < WINDOW_SECONDS * v + WINDOW_SECONDS
      BY ClockWindows
  <2>2. PICK w \in Nat : w = WINDOW_SECONDS * v
      BY ClockApart
  <2>3. w <= t /\ t < w + WINDOW_SECONDS
      BY <2>1, <2>2
  <2>4. v \in Window
    <3>1. v <= w
        BY <1>5, <2>2
    <3>2. t <= MaxTime /\ MaxTime \in Nat
        BY <1>3, RateNumbers DEF Window
    <3> QED BY <2>3, <3>1, <3>2 DEF Window
  <2>5. PICK n \in Nat, e \in Nat : n = counters[q][v] /\ e = expires[q][v]
      BY <1>1, <2>4 DEF RedisSound
  <2>6. CountSound(n, e, a, f, q, v)
      BY <1>1, <1>3, <2>4, <2>5 DEF RedisSound
  <2> DEFINE c == IF t < e THEN n + 1 ELSE 1
             x == IF c = 1 THEN t + WINDOW_SECONDS ELSE e
  <2>7. /\ c \in Nat \ {0} /\ x \in Nat /\ w + WINDOW_SECONDS <= x
        /\ \A u \in Server : Matches("redis", a, f, u, q, w, c - 1)
    <3>1. CASE /\ e = 0
               /\ \A j \in 1..m, u \in Server : Saw("redis", a[j], u, q) => f[j] # w
      <4>1. c = 1 /\ c - 1 = 0
          BY <3>1
      <4>2. \A u \in Server : Matches("redis", a, f, u, q, w, 0)
          BY <1>3, <3>1, MatchesNone
      <4>3. x = t + WINDOW_SECONDS
          BY <4>1
      <4> HIDE DEF c, x
      <4>4. c \in Nat \ {0} /\ x \in Nat /\ w + WINDOW_SECONDS <= x
          BY <1>5, <2>3, <4>1, <4>3
      <4> QED BY <4>1, <4>2, <4>4
    <3>2. CASE /\ n \in Nat \ {0} /\ w + WINDOW_SECONDS <= e
               /\ \A u \in Server : Matches("redis", a, f, u, q, w, n)
      <4>1. t < e /\ c = n + 1 /\ c - 1 = n /\ x = e
          BY <1>5, <2>3, <3>2
      <4> HIDE DEF c, x
      <4> QED BY <3>2, <4>1
    <3> QED BY <1>3, <2>2, <2>6, <3>1, <3>2 DEF CountSound
  <2>8. CountOf(q) = c /\ ExpiryOf(q) = x /\ WindowId = v
      BY <1>3, <2>1, <2>5 DEF CountOf, ExpiryOf, WindowId
  <2>9. counters' = [counters EXCEPT ![q][v] = c] /\ expires' = [expires EXCEPT ![q][v] = x]
      BY <1>8, <2>8 DEF IncrAndExpire
  <2> HIDE DEF c, x
  <2> DEFINE r == [server |-> s, counter |-> q, at |-> t, wait |-> wait, counted |-> TRUE,
                   by |-> by]
  <2>10. /\ r \in Answered /\ r.server = s /\ r.counter = q /\ r.at = t /\ r.wait = wait
         /\ r.counted /\ r.by = by /\ answers' = Append(a, r)
      BY <1>3, <1>8 DEF Answered, Record
  <2> HIDE DEF r
  <2>11. /\ c <= Allowed(q) => wait = 0
         /\ by = "counter" /\ wait = 0 => c <= Allowed(q)
         /\ wait > 0 => c > Allowed(q) /\ w + WINDOW_SECONDS <= t + wait + Rounding("redis")
    <3>1. Rounding("redis") = 1
        BY DEF Rounding
    <3>2. wait > 0 => wait + 1 >= x - t \/ wait = WINDOW_SECONDS
        BY <1>3, <1>8, <2>8
    <3>3. wait > 0 => w + WINDOW_SECONDS <= t + wait + 1
        BY <1>5, <2>3, <2>7, <3>2
    <3>4. by = "counter" => (wait = 0 <=> c <= Allowed(q))
        BY <1>8, <2>8
    <3> QED BY <1>5, <1>8, <2>7, <3>1, <3>3, <3>4
  <2>12. Windows("redis", Append(a, r), Extended(f, m, w))
    <3>1. \A j \in 1..m : Saw("redis", a[j], s, q) => Apart(f[j], w)
      <4> SUFFICES ASSUME NEW j \in 1..m, Saw("redis", a[j], s, q) PROVE Apart(f[j], w)
          OBVIOUS
      <4>1. PICK u \in Nat : f[j] = WINDOW_SECONDS * u
          BY <1>1, <1>3 DEF RedisSound, Saw
      <4> QED BY <2>2, <4>1, ClockApart
    <3>2. by = "counter" /\ wait = 0 =>
              Cardinality(PassedIn("redis", a, f, s, q, w, m, Told)) < Allowed(q)
      <4>1. Cardinality(PassedIn("redis", a, f, s, q, w, m, Told)) \in Nat
          BY PassedFinite
      <4>2. Cardinality(PassedIn("redis", a, f, s, q, w, m, Told)) <= AtMost(c - 1, Allowed(q))
          BY <1>3, <2>7 DEF Matches
      <4> QED BY <1>5, <2>7, <2>11, <4>1, <4>2 DEF AtMost
    <3>3. wait > 0 => Cardinality(PassedIn("redis", a, f, s, q, w, m, Either)) >= Allowed(q)
      <4>1. Cardinality(PassedIn("redis", a, f, s, q, w, m, Either)) \in Nat
          BY PassedFinite
      <4>2. Cardinality(PassedIn("redis", a, f, s, q, w, m, Either)) >= AtMost(c - 1, Allowed(q))
          BY <1>3, <2>7 DEF Matches
      <4> QED BY <1>5, <2>7, <2>11, <4>1, <4>2 DEF AtMost
    <3>4. /\ w \in Int
          /\ r.counted => w <= r.at /\ r.at < w + WINDOW_SECONDS
          /\ r.counted => \A j \in 1..Len(a) : Saw("redis", a[j], r.server, r.counter) => Apart(f[j], w)
          /\ ~r.counted => r.wait = 0
          /\ r.counted /\ r.wait = 0 /\ r.by = "counter" =>
                Cardinality(PassedIn("redis", a, f, r.server, r.counter, w, Len(a), Told))
                    < Allowed(r.counter)
          /\ r.wait > 0 =>
                /\ w + WINDOW_SECONDS <= r.at + r.wait + Rounding("redis")
                /\ Cardinality(PassedIn("redis", a, f, r.server, r.counter, w, Len(a), Either))
                       >= Allowed(r.counter)
        BY <1>3, <2>2, <2>3, <2>10, <2>11, <3>1, <3>2, <3>3
    <3>5. Windows("redis", Append(a, r), Extended(f, Len(a), w))
        BY <1>4, <2>10, <3>4, WindowsExtend
    <3> QED BY <1>3, <3>5
  <2>13. ASSUME NEW p \in Counter, NEW u \in Window
         PROVE  CountSound(counters'[p][u], expires'[p][u], Append(a, r), Extended(f, m, w), p, u)
    <3>1. u \in Nat /\ CountSound(counters[p][u], expires[p][u], a, f, p, u)
        BY <1>1, <1>3 DEF RedisSound, Window
    <3>2. CASE p = q /\ u = v
      <4>1. counters'[p][u] = c /\ expires'[p][u] = x
          BY <1>1, <2>9, <3>2 DEF RedisSound
      <4>2. ASSUME NEW z \in Server
            PROVE  Matches("redis", Append(a, r), Extended(f, m, w), z, q, w, c)
        <5>1. Saw("redis", r, z, q)
            BY <2>10 DEF Saw
        <5> QED BY <1>3, <1>4, <2>7, <2>10, <2>11, <5>1, MatchesExtends
      <4> QED BY <2>2, <2>7, <3>2, <4>1, <4>2 DEF CountSound
    <3>3. CASE ~(p = q /\ u = v)
      <4>1. counters'[p][u] = counters[p][u] /\ expires'[p][u] = expires[p][u]
          BY <1>1, <2>9, <3>3 DEF RedisSound
      <4>2. ~(r.counted /\ r.counter = p /\ w = WINDOW_SECONDS * u)
          BY <2>2, <2>10, <3>1, <3>3, ClockApart
      <4> QED BY <1>3, <1>4, <2>10, <3>1, <4>1, <4>2, CountStands
    <3> QED BY <3>2, <3>3
  <2>14. /\ counters' \in [Counter -> [Window -> Nat]] /\ expires' \in [Counter -> [Window -> Nat]]
      BY <1>1, <2>4, <2>7, <2>9 DEF RedisSound
  <2>15. w \in Int /\ \E u \in Nat : w = WINDOW_SECONDS * u
      BY <2>2
  <2> QED BY <1>6, <2>10, <2>12, <2>13, <2>14, <2>15
<1>9. ASSUME CheckInRedis(s, q) PROVE RateInv'
  <2>1. PICK ttl \in Ttl(q) :
            Record(s, q, IF CountOf(q) > Allowed(q)
                         THEN IF ttl > 0 THEN ttl ELSE WINDOW_SECONDS ELSE 0, TRUE, "counter")
      BY <1>9 DEF CheckInRedis, Allowed
  <2> DEFINE told == IF ttl > 0 THEN ttl ELSE WINDOW_SECONDS
  <2>2. CountOf(q) \in Nat /\ ExpiryOf(q) \in Nat /\ instant \in Nat
    <3>1. WindowId \in Window
      <4>1. PICK v \in Nat : v = t \div WINDOW_SECONDS /\ WINDOW_SECONDS * v <= t
          BY ClockWindows
      <4>2. v <= WINDOW_SECONDS * v
          BY <1>5
      <4>3. WINDOW_SECONDS * v \in Nat /\ t <= MaxTime /\ MaxTime \in Nat
          BY <1>3, <1>5, RateNumbers DEF Window
      <4> QED BY <1>3, <4>1, <4>2, <4>3 DEF WindowId, Window
    <3>2. counters[q][WindowId] \in Nat /\ expires[q][WindowId] \in Nat /\ instant \in Nat
        BY <1>1, <1>3, <3>1 DEF RedisSound
    <3> QED BY <1>5, <3>2 DEF CountOf, ExpiryOf
  <2>3. ttl \in Int /\ (ttl > 0 => ttl + 1 >= ExpiryOf(q) - instant)
      BY <2>1, <2>2 DEF Ttl
  <2>4. told \in Nat \ {0} /\ (told + 1 >= ExpiryOf(q) - instant \/ told = WINDOW_SECONDS)
      BY <1>5, <2>1, <2>3
  <2>5. CASE CountOf(q) > Allowed(q)
    <3>1. Record(s, q, told, TRUE, "counter") /\ IncrAndExpire(q)
        BY <1>9, <2>1, <2>5 DEF CheckInRedis
    <3>2. told \in Nat /\ ~(told = 0) /\ ~(CountOf(q) <= Allowed(q))
        BY <1>5, <2>2, <2>4, <2>5
    <3>3. /\ told \in Nat /\ ("counter" = "outage" => told = 0)
          /\ "counter" = "counter" => (told = 0 <=> CountOf(q) <= Allowed(q))
          /\ told > 0 => told + 1 >= ExpiryOf(q) - instant \/ told = WINDOW_SECONDS
        BY <2>4, <3>2
    <3> HIDE DEF told
    <3> QED BY <1>8, <3>1, <3>3, "counter" \in {"counter", "outage"}, Zenon
  <2>6. CASE ~(CountOf(q) > Allowed(q))
    <3>1. Record(s, q, 0, TRUE, "counter") /\ IncrAndExpire(q)
        BY <1>9, <2>1, <2>6 DEF CheckInRedis
    <3>2. /\ 0 \in Nat /\ ("counter" = "outage" => 0 = 0)
          /\ "counter" = "counter" => (0 = 0 <=> CountOf(q) <= Allowed(q))
          /\ 0 > 0 => 0 + 1 >= ExpiryOf(q) - instant \/ 0 = WINDOW_SECONDS
        BY <1>5, <2>2, <2>6
    <3> QED BY <1>8, <3>1, <3>2, "counter" \in {"counter", "outage"}, Zenon
  <2> QED BY <2>5, <2>6
<1>10. ASSUME FailOpen(s, q) PROVE RateInv'
  <2>1. CASE Record(s, q, 0, FALSE, "outage") /\ UNCHANGED <<counters, expires>>
      BY <1>7, <2>1
  <2>2. CASE Record(s, q, 0, TRUE, "outage") /\ IncrAndExpire(q)
    <3>1. /\ 0 \in Nat /\ ("outage" = "outage" => 0 = 0)
          /\ "outage" = "counter" => (0 = 0 <=> CountOf(q) <= Allowed(q))
          /\ 0 > 0 => 0 + 1 >= ExpiryOf(q) - instant \/ 0 = WINDOW_SECONDS
        OBVIOUS
    <3> QED BY <1>8, <2>2, <3>1, "outage" \in {"counter", "outage"}, Zenon
  <2> QED BY <1>10, <2>1, <2>2 DEF FailOpen
<1> QED BY <1>2, <1>9, <1>10

LEMMA RateInitInv == RateInit => RateInv
<1> SUFFICES ASSUME RateInit PROVE RateInv
    OBVIOUS
<1>1. /\ answers = <<>> /\ instant = 0 /\ backend \in {"memory", "redis"}
      /\ <<>> \in Seq(Answered) /\ Len(<<>>) = 0
    BY EmptySeq DEF RateInit
<1>2. AnswersInOrder /\ instant \in Window
    BY <1>1, RateNumbers DEF AnswersInOrder, Window
<1>3. \A be, s, q, w, K : PassedIn(be, answers, <<>>, s, q, w, 0, K) = {}
    BY DEF PassedIn
<1>4. Cardinality({}) = 0
    BY FS_EmptySet
<1>5. <<>> \in [1..0 -> Int]
    OBVIOUS
<1>6. Windows(backend, answers, <<>>)
  <2>1. \A q \in Counter : Allowed(q) \in Nat
      BY RateNumbers
  <2>2. \A q \in Counter : \A be, s, w :
            Cardinality(PassedIn(be, answers, <<>>, s, q, w, 0, Told)) <= Allowed(q)
    <3>1. \A be, s, q, w, K : Cardinality(PassedIn(be, answers, <<>>, s, q, w, 0, K)) = 0
        BY <1>3, <1>4
    <3>2. \A q \in Counter : 0 <= Allowed(q)
        BY <2>1
    <3> QED BY <3>1, <3>2
  <2>3. Len(answers) = 0 /\ 1..0 = {}
      BY <1>1
  <2> QED BY <1>5, <2>2, <2>3 DEF Windows
<1>7. MemorySound(<<>>)
    BY <1>1 DEF RateInit, MemorySound, BucketSound, NoBucket
<1>8. RedisSound(<<>>)
    BY <1>1 DEF RateInit, RedisSound, CountSound
<1> QED BY <1>1, <1>2, <1>6, <1>7, <1>8 DEF RateInv

LEMMA RateStepInv == RateInv /\ [RateNext]_rateVars => RateInv'
<1> SUFFICES ASSUME RateInv, [RateNext]_rateVars PROVE RateInv'
    OBVIOUS
<1>1. CASE TimePasses
  <2>1. /\ instant' = instant + 1 /\ instant < MaxTime
        /\ UNCHANGED <<backend, buckets, lastPrune, counters, expires, answers>>
      BY <1>1 DEF TimePasses
  <2>2. instant \in Nat /\ instant' \in Nat /\ instant <= instant' /\ instant' \in Window
      BY <2>1, RateNumbers DEF RateInv, AnswersInOrder, Window
  <2>3. answers \in Seq(Answered) /\ Len(answers) \in Nat
      BY LenProperties DEF RateInv, AnswersInOrder
  <2>4. \A j \in 1..Len(answers) : answers[j].at \in Int
    <3>1. \A j \in 1..Len(answers) : answers[j] \in Answered
        BY <2>3, ElementOfSeq
    <3> QED BY <3>1 DEF Answered
  <2>5. AnswersInOrder'
    <3>1. /\ answers \in Seq(Answered) /\ instant \in Nat
          /\ \A j \in 1..Len(answers) : answers[j].at <= instant
          /\ \A j, k \in 1..Len(answers) : j < k => answers[j].at <= answers[k].at
        BY DEF RateInv, AnswersInOrder
    <3> QED BY <2>1, <2>2, <2>4, <3>1 DEF AnswersInOrder
  <2>6. PICK f : /\ Windows(backend, answers, f)
                 /\ \/ backend = "memory" /\ MemorySound(f)
                    \/ backend = "redis" /\ RedisSound(f)
      BY DEF RateInv
  <2>7. Windows(backend, answers, f)'
      BY <2>1, <2>6
  <2>8. RedisSound(f) => RedisSound(f)'
      BY <2>1 DEF RedisSound
  <2>9. MemorySound(f) => MemorySound(f)'
    <3> SUFFICES ASSUME MemorySound(f), NEW s \in Server, NEW q \in Counter
                 PROVE  BucketSound(buckets[s][q], answers, f, s, q, instant')
        BY <2>1 DEF MemorySound
    <3>1. BucketSound(buckets[s][q], answers, f, s, q, instant)
        BY DEF MemorySound
    <3>2. f \in [1..Len(answers) -> Int]
        BY <2>6 DEF Windows
    <3>3. [server |-> s, counter |-> q, at |-> 0, wait |-> 0, counted |-> TRUE,
           by |-> "counter"] \in Answered
        BY DEF Answered
    <3> QED BY <2>2, <2>3, <3>1, <3>2, <3>3, BucketStands
  <2> QED BY <2>1, <2>2, <2>5, <2>6, <2>7, <2>8, <2>9 DEF RateInv
<1>2. ASSUME NEW s \in Server, NEW q \in Counter, LimitRequestRate(s, q) PROVE RateInv'
    BY <1>2, HitInMemory, HitInRedis DEF RateInv
<1>3. CASE UNCHANGED rateVars
    BY <1>3 DEF rateVars, RateInv, AnswersInOrder, MemorySound, RedisSound
<1> QED BY <1>1, <1>2, <1>3 DEF RateNext

(* No span of a window's length passes more than two windows' worth, a refusal  *)
(* is due, and waiting as told is enough (rate_limit.py, limit_request_rate).   *)
THEOREM LimitsKept == RateSpec => []LimitKept
<1>1. RateSpec => []RateInv
    BY RateInitInv, RateStepInv, PTL DEF RateSpec
<1> QED BY <1>1, RateKeepsLimit, PTL

-----------------------------------------------------------------------------
(* The detector of bursts of failed authentication.                          *)

(* A failure that joins the history leaves those before it as they were.     *)
LEMMA FailureJoins ==
    ASSUME SpikeTypeOK, NEW e \in Failure, e.at = moment,
           failures' = Append(failures, e), moment' = moment
    PROVE  /\ failures' \in Seq(Failure) /\ Len(failures) \in Nat /\ Len(failures') = Len(failures) + 1
           /\ DOMAIN failures = 1 .. Len(failures) /\ DOMAIN failures' = 1 .. Len(failures) + 1
           /\ \A c \in 1 .. Len(failures) : failures'[c] = failures[c]
           /\ failures'[Len(failures) + 1] = e
           /\ \A c \in DOMAIN failures' : failures'[c] \in Failure /\ failures'[c].at <= moment'
           /\ \A a, b \in DOMAIN failures' : a < b => failures'[a].at <= failures'[b].at
<1>1. failures \in Seq(Failure) /\ moment \in Nat
  BY DEF SpikeTypeOK
<1>2. /\ failures' \in Seq(Failure) /\ Len(failures) \in Nat /\ Len(failures') = Len(failures) + 1
      /\ DOMAIN failures = 1 .. Len(failures) /\ DOMAIN failures' = 1 .. Len(failures) + 1
      /\ \A c \in 1 .. Len(failures) : failures'[c] = failures[c]
      /\ failures'[Len(failures) + 1] = e
  BY <1>1
<1>3. \A c \in 1 .. Len(failures) : failures[c] \in Failure
  BY <1>1
<1>4. ASSUME NEW c \in DOMAIN failures'
      PROVE  failures'[c] \in Failure /\ failures'[c].at <= moment'
  <2>1. c \in 1 .. Len(failures) \/ c = Len(failures) + 1
    BY <1>2
  <2>2. CASE c \in 1 .. Len(failures)
    BY <1>2, <1>3, <2>2 DEF SpikeTypeOK
  <2>3. CASE c = Len(failures) + 1
    BY <1>1, <1>2, <2>3
  <2> QED BY <2>1, <2>2, <2>3
<1>5. ASSUME NEW a \in DOMAIN failures', NEW b \in DOMAIN failures', a < b
      PROVE  failures'[a].at <= failures'[b].at
  <2>1. a \in 1 .. Len(failures) /\ (b \in 1 .. Len(failures) \/ b = Len(failures) + 1)
    BY <1>2, <1>5
  <2>2. CASE b \in 1 .. Len(failures)
    BY <1>2, <1>5, <2>1, <2>2 DEF SpikeTypeOK
  <2>3. CASE b = Len(failures) + 1
    BY <1>1, <1>2, <2>1, <2>3 DEF SpikeTypeOK
  <2> QED BY <2>1, <2>2, <2>3
<1> QED BY <1>2, <1>4, <1>5

LEMMA BurstFinite ==
    ASSUME NEW a \in Nat, NEW b \in Nat
    PROVE  IsFiniteSet(Burst(a, b)') /\ Cardinality(Burst(a, b)') \in Nat
<1>1. Burst(a, b)' \subseteq b + 1 .. a
  BY DEF Burst
<1>2. IsFiniteSet(b + 1 .. a)
  BY FS_Interval
<1>3. IsFiniteSet(Burst(a, b)')
  BY <1>1, <1>2, FS_Subset
<1> QED BY <1>3, FS_CardinalityType

(* What was said of earlier failures stays true.                             *)
LEMMA AlarmsStayRight ==
    ASSUME SpikeTypeOK, AlarmsRight, NEW e \in Failure, e.at = moment, failures' = Append(failures, e),
           moment' = moment, spikeBackend' = spikeBackend, forgotten \subseteq forgotten',
           NEW n, n = Len(failures) + 1, IF e.alarm THEN AlarmIsBurst(n)' ELSE NoBurstPassed(n)'
    PROVE  AlarmsRight'
<1>1. /\ Len(failures) \in Nat
      /\ DOMAIN failures = 1 .. Len(failures) /\ DOMAIN failures' = 1 .. Len(failures) + 1
      /\ \A c \in 1 .. Len(failures) : failures'[c] = failures[c]
      /\ failures'[Len(failures) + 1] = e
  BY FailureJoins
<1>2. ASSUME NEW a \in 1 .. Len(failures)
      PROVE  IF failures'[a].alarm THEN AlarmIsBurst(a)' ELSE NoBurstPassed(a)'
  <2>1. a \in Nat /\ failures'[a] = failures[a]
    BY <1>1
  <2>2. ASSUME NEW c \in 1 .. a
        PROVE  failures'[c] = failures[c] /\ SameCounter(a, c)' = SameCounter(a, c)
    <3>1. c \in 1 .. Len(failures)
      BY <1>1
    <3>2. failures'[c] = failures[c]
      BY <1>1, <3>1
    <3> QED BY <2>1, <3>2 DEF SameCounter
  <2>3. ASSUME NEW b \in 0 .. a - 1
        PROVE  Burst(a, b)' = Burst(a, b)
    <3>1. \A c \in b + 1 .. a : c \in 1 .. a
      BY <2>1
    <3> QED BY <2>1, <2>2, <3>1 DEF Burst
  <2>4. CASE failures[a].alarm
    <3>1. AlarmIsBurst(a)
      BY <1>1, <2>4 DEF AlarmsRight
    <3>2. Burst(a, 0)' = Burst(a, 0) /\ \A b \in 1 .. a - 1 : b \in 0 .. a - 1 /\ b \in 1 .. a
      BY <2>1, <2>3
    <3>3. AlarmIsBurst(a)'
      BY <2>2, <2>3, <3>1, <3>2 DEF AlarmIsBurst
    <3> QED BY <2>1, <2>4, <3>3
  <2>5. CASE ~failures[a].alarm
    <3>1. NoBurstPassed(a)
      BY <1>1, <2>5 DEF AlarmsRight
    <3>2. ASSUME spikeBackend = "memory", <<failures[a].instance, failures[a].key>> \notin forgotten
          PROVE  NoBurstPassed(a)'
      <4>1. PICK b \in 0 .. a - 1 : /\ b = 0 \/ (failures[b].alarm /\ SameCounter(a, b))
                                    /\ Cardinality(Burst(a, b)) < AUTH_SPIKE_THRESHOLD
        BY <3>1, <3>2 DEF NoBurstPassed
      <4>2. b # 0 => b \in 1 .. a
        BY <2>1
      <4>3. b = 0 \/ (failures'[b].alarm /\ SameCounter(a, b)')
        BY <2>2, <4>1, <4>2
      <4> QED BY <2>3, <4>1, <4>3 DEF NoBurstPassed
    <3>3. NoBurstPassed(a)'
      BY <2>1, <3>2 DEF NoBurstPassed
    <3> QED BY <2>1, <2>5, <3>3
  <2> QED BY <2>4, <2>5
<1>3. ASSUME NEW a \in DOMAIN failures'
      PROVE  IF failures'[a].alarm THEN AlarmIsBurst(a)' ELSE NoBurstPassed(a)'
  <2>1. a \in 1 .. Len(failures) \/ a = n
    BY <1>1
  <2>2. CASE a = n
    BY <1>1, <2>2
  <2> QED BY <1>2, <2>1, <2>2
<1> QED BY <1>3 DEF AlarmsRight

(* A failure in memory: earlier ones of the windows stay what they were.     *)
LEMMA WindowKept ==
    ASSUME SpikeTypeOK, NEW e \in Failure, e.at = moment, failures' = Append(failures, e),
           moment' = moment, NEW j \in Instance, NEW l \in FailureKey
    PROVE  /\ OfWindow(j, l) \subseteq 1 .. Len(failures)
           /\ \A c \in OfWindow(j, l) : Recent(c)' = Recent(c)
           /\ ~(e.instance = j /\ e.key = l) => OfWindow(j, l)' = OfWindow(j, l)
           /\ e.instance = j /\ e.key = l /\ e.counted
                => OfWindow(j, l)' = OfWindow(j, l) \cup {Len(failures) + 1}
<1>1. /\ Len(failures) \in Nat /\ failures' \in Seq(Failure)
      /\ DOMAIN failures = 1 .. Len(failures) /\ DOMAIN failures' = 1 .. Len(failures) + 1
      /\ \A c \in 1 .. Len(failures) : failures'[c] = failures[c]
      /\ failures'[Len(failures) + 1] = e
  BY FailureJoins
<1>2. OfWindow(j, l) \subseteq 1 .. Len(failures)
  BY <1>1 DEF OfWindow
<1>3. \A c \in OfWindow(j, l) : Recent(c)' = Recent(c)
  BY <1>1, <1>2 DEF Recent
<1>4. \A c \in 1 .. Len(failures) + 1 : c \in 1 .. Len(failures) \/ c = Len(failures) + 1
  BY <1>1
<1>5. ~(e.instance = j /\ e.key = l) => OfWindow(j, l)' = OfWindow(j, l)
  BY <1>1, <1>4 DEF OfWindow
<1>6. e.instance = j /\ e.key = l /\ e.counted
        => OfWindow(j, l)' = OfWindow(j, l) \cup {Len(failures) + 1}
  BY <1>1, <1>4 DEF OfWindow
<1> QED BY <1>2, <1>3, <1>5, <1>6

(* Dropping keys takes from the windows only what the cap drops, and what is *)
(* not recent.                                                               *)
LEMMA DroppedIsStale ==
    ASSUME SpikeTypeOK, NEW i \in Instance, NEW l \in FailureKey, NEW c \in failureWindow[i][l],
           Recent(c)
    PROVE  l \notin Stale(failureWindow[i])
<1> DEFINE W == failureWindow[i][l]
<1>1. /\ failures \in Seq(Failure) /\ Len(failures) \in Nat /\ DOMAIN failures = 1 .. Len(failures)
      /\ moment \in Nat /\ W \subseteq 1 .. Len(failures) /\ c \in W /\ AUTH_SPIKE_WINDOW \in Nat
  BY SpikeAssumption DEF SpikeTypeOK
<1>2. \E z \in W : \A y \in W : y <= z
  <2> HIDE DEF W
  <2>1. W \subseteq Nat /\ W # {} /\ \A x \in W : x <= Len(failures)
    BY <1>1
  <2> QED BY <1>1, <2>1, GreatestNat
<1>3. Max(W) \in W /\ \A y \in W : y <= Max(W)
  <2> HIDE DEF W
  <2>1. PICK z \in W : \A y \in W : z >= y
    BY <1>1, <1>2
  <2>2. Max(W) = CHOOSE x \in W : \A y \in W : x >= y
    BY DEF Max
  <2>3. Max(W) \in W /\ \A y \in W : Max(W) >= y
    BY <2>1, <2>2
  <2> QED BY <1>1, <2>3
<1>4. PICK m : m = Max(W)
  OBVIOUS
<1>5. m \in 1 .. Len(failures) /\ c \in 1 .. Len(failures) /\ c <= m
  BY <1>1, <1>3, <1>4
<1>6. failures[c].at <= failures[m].at /\ failures[c].at \in Nat /\ failures[m].at \in Nat
  <2>1. failures[c] \in Failure /\ failures[m] \in Failure
    BY <1>1, <1>5
  <2>2. c = m \/ c < m
    BY <1>5
  <2>3. failures[c].at \in Nat /\ failures[m].at \in Nat
    BY <2>1 DEF Failure
  <2>4. \A a, b \in 1 .. Len(failures) : a < b => failures[a].at <= failures[b].at
    BY <1>1 DEF SpikeTypeOK
  <2>5. failures[c].at <= failures[m].at
    BY <1>5, <2>2, <2>3, <2>4
  <2> QED BY <2>3, <2>5
<1>7. Recent(m)
  BY <1>1, <1>6 DEF Recent
<1> QED BY <1>4, <1>7 DEF Stale

(* What a replica that notes a failure of k keeps of its windows.            *)
KeptByPrune(kept, i) ==
    /\ kept \in [FailureKey -> SUBSET DOMAIN failures]
    /\ \A l \in FailureKey :
         /\ kept[l] \subseteq failureWindow[i][l]
         /\ <<i, l>> \notin forgotten' => {c \in failureWindow[i][l] : Recent(c)} \subseteq kept[l]

LEMMA PruningKeeps ==
    ASSUME SpikeTypeOK, NEW i \in Instance, NEW gone \in SUBSET FailureKey,
           NEW dropped \in SUBSET (gone \cup Stale(failureWindow[i])),
           forgotten' = forgotten \cup ({i} \X gone)
    PROVE  KeptByPrune(WithoutKeys(failureWindow[i], dropped), i)
<1> DEFINE kept == WithoutKeys(failureWindow[i], dropped)
<1>1. failureWindow[i] \in [FailureKey -> SUBSET DOMAIN failures]
  BY DEF SpikeTypeOK
<1>2. kept = [l \in FailureKey |-> IF l \in dropped THEN {} ELSE failureWindow[i][l]]
  BY DEF WithoutKeys
<1>3. kept \in [FailureKey -> SUBSET DOMAIN failures]
  <2> HIDE DEF kept
  <2> QED BY <1>1, <1>2
<1>4. ASSUME NEW l \in FailureKey
      PROVE  kept[l] \subseteq failureWindow[i][l]
  <2> HIDE DEF kept
  <2> QED BY <1>2
<1>5. ASSUME NEW l \in FailureKey, <<i, l>> \notin forgotten', NEW c \in failureWindow[i][l], Recent(c)
      PROVE  c \in kept[l]
  <2>1. l \notin gone
    BY <1>5
  <2>2. l \notin Stale(failureWindow[i])
    BY <1>5, DroppedIsStale
  <2> HIDE DEF kept
  <2> QED BY <1>2, <2>1, <2>2
<1> HIDE DEF kept
<1>6. KeptByPrune(kept, i)
  BY <1>3, <1>4, <1>5 DEF KeptByPrune
<1> QED BY <1>6 DEF kept

Boundary(n, b) == b = 0 \/ (failures[b].alarm /\ SameCounter(n, b))
JoinsWindow(i, k, e, kept, n, w) ==
    /\ e \in Failure /\ e.at = moment /\ e.instance = i /\ e.key = k /\ e.counted
    /\ failures' = Append(failures, e) /\ n = Len(failures) + 1
    /\ KeptByPrune(kept, i) /\ w = {c \in kept[k] : Recent(c)} \cup {n}

(* The window with the failure that joins it is the burst since the last     *)
(* alarm of its counter.                                                     *)
LEMMA WindowIsBurst ==
    ASSUME SpikeTypeOK, CountersHold, spikeBackend = "memory", UNCHANGED <<spikeBackend, moment>>,
           forgotten \subseteq forgotten', NEW i \in Instance, NEW k \in FailureKey,
           NEW e, NEW kept, NEW n, NEW w, JoinsWindow(i, k, e, kept, n, w)
    PROVE  /\ IsFiniteSet(w) /\ Cardinality(w) \in Nat
           /\ \A b \in 0 .. n - 1 :
                Boundary(n, b)' => w \subseteq Burst(n, b)'
           /\ <<i, k>> \notin forgotten' =>
                \E b \in 0 .. n - 1 : /\ Boundary(n, b)'
                                      /\ Burst(n, b)' \subseteq w
<1> USE DEF Boundary
<1>0. /\ e \in Failure /\ e.at = moment /\ e.instance = i /\ e.key = k /\ e.counted
      /\ failures' = Append(failures, e) /\ n = Len(failures) + 1
      /\ KeptByPrune(kept, i) /\ w = {c \in kept[k] : Recent(c)} \cup {n}
  BY DEF JoinsWindow
<1>1. /\ Len(failures) \in Nat /\ failures' \in Seq(Failure) /\ failures \in Seq(Failure) /\ moment \in Nat
      /\ DOMAIN failures = 1 .. Len(failures) /\ DOMAIN failures' = 1 .. Len(failures) + 1
      /\ \A c \in 1 .. Len(failures) : failures'[c] = failures[c]
      /\ failures'[Len(failures) + 1] = e
      /\ AUTH_SPIKE_WINDOW \in Nat \ {0}
  BY <1>0, FailureJoins, SpikeAssumption DEF SpikeTypeOK
<1>2. n \in Nat /\ n \in DOMAIN failures' /\ failures'[n] = e
  BY <1>0, <1>1
<1>3. /\ kept[k] \subseteq failureWindow[i][k] /\ kept[k] \subseteq 1 .. Len(failures)
      /\ <<i, k>> \notin forgotten' => {c \in failureWindow[i][k] : Recent(c)} \subseteq kept[k]
  BY <1>0, <1>1 DEF KeptByPrune
<1>4. WindowHolds(i, k)
  BY <1>0 DEF CountersHold
<1>5. IsFiniteSet(w) /\ Cardinality(w) \in Nat
  <2>1. w \subseteq 1 .. n
    BY <1>0, <1>1, <1>3
  <2>2. IsFiniteSet(1 .. n)
    <3>1. n \in Nat /\ 1 \in Nat
      BY <1>0, <1>2
    <3> QED BY <1>0, <3>1, FS_Interval
  <2> QED BY <1>0, <2>1, <2>2, FS_Subset, FS_CardinalityType
<1>6. ASSUME NEW b \in 0 .. n - 1, Boundary(n, b)', NEW c \in w
      PROVE  c \in Burst(n, b)'
  <2>1. CASE c = n
    <3>1. failures'[n].at - failures'[n].at < AUTH_SPIKE_WINDOW
      BY <1>0, <1>1, <1>2
    <3> QED BY <1>0, <1>2, <2>1, <3>1 DEF Burst, SameCounter
  <2>2. CASE c # n
    <3>1. c \in kept[k] /\ Recent(c)
      BY <1>0, <2>2, <1>6
    <3>2. c \in SinceAlarm(OfWindow(i, k))
      BY <1>0, <1>3, <1>4, <3>1 DEF WindowHolds
    <3>3. c \in 1 .. Len(failures) /\ failures[c].instance = i /\ failures[c].key = k /\ failures[c].counted
      BY <1>0, <1>1, <3>2 DEF SinceAlarm, OfWindow
    <3>4. b < c
      <4>1. CASE b = 0
        BY <1>0, <3>3, <4>1
      <4>2. CASE b # 0
        <5>1. b \in 1 .. Len(failures) /\ failures'[b] = failures[b] /\ failures[b] \in Failure
          BY <1>0, <1>1, <1>2, <4>2
        <5>2. failures[b].alarm /\ failures[b].instance = i /\ failures[b].key = k
          BY <1>0, <1>2, <1>6, <4>2, <5>1 DEF SameCounter
        <5>3. b \in OfWindow(i, k)
          BY <1>0, <1>1, <5>1, <5>2 DEF OfWindow, Failure
        <5> QED BY <1>0, <3>2, <5>2, <5>3 DEF SinceAlarm
      <4> QED BY <1>0, <4>1, <4>2
    <3>5. SameCounter(n, c)' /\ failures'[c] = failures[c]
      BY <1>0, <1>1, <1>2, <3>3 DEF SameCounter
    <3>6. failures'[n].at - failures'[c].at < AUTH_SPIKE_WINDOW
      BY <1>0, <1>2, <3>1, <3>5 DEF Recent
    <3>7. c \in b + 1 .. n
      BY <1>0, <1>1, <3>3, <3>4
    <3> QED BY <1>0, <3>3, <3>5, <3>6, <3>7 DEF Burst
  <2> QED BY <1>0, <2>1, <2>2
<1>7. ASSUME <<i, k>> \notin forgotten'
      PROVE  \E b \in 0 .. n - 1 : /\ Boundary(n, b)'
                                   /\ Burst(n, b)' \subseteq w
  <2> DEFINE A == {b \in OfWindow(i, k) : failures[b].alarm}
  <2>1. A \subseteq 1 .. Len(failures)
    BY <1>0, <1>1 DEF OfWindow
  <2>2. \E b \in 0 .. n - 1 : (b = 0 \/ b \in A) /\ \A x \in A : x <= b
    <3>1. CASE A = {}
      BY <1>0, <1>1, <3>1
    <3>2. CASE A # {}
      <4> HIDE DEF A
      <4>1. A \subseteq Nat /\ \A x \in A : x <= Len(failures)
        BY <1>0, <1>1, <2>1
      <4>2. \E b \in A : \A y \in A : y <= b
        BY <1>0, <1>1, <3>2, <4>1, GreatestNat
      <4> QED BY <1>0, <1>1, <2>1, <4>2
    <3> QED BY <1>0, <3>1, <3>2
  <2>3. PICK b \in 0 .. n - 1 : (b = 0 \/ b \in A) /\ \A x \in A : x <= b
    BY <1>0, <2>2
  <2>4. Boundary(n, b)'
    <3>1. b \in A => b \in 1 .. Len(failures) /\ failures'[b] = failures[b]
      BY <1>0, <1>1, <2>1
    <3>2. b \in A => failures[b].alarm /\ failures[b].instance = i /\ failures[b].key = k
      BY <1>0 DEF OfWindow
    <3> QED BY <1>0, <1>2, <2>3, <3>1, <3>2 DEF SameCounter
  <2>5. ASSUME NEW c \in Burst(n, b)'
        PROVE  c \in w
    <3>1. /\ c \in b + 1 .. n /\ failures'[c].counted /\ SameCounter(n, c)'
          /\ failures'[n].at - failures'[c].at < AUTH_SPIKE_WINDOW
      BY <1>0 DEF Burst
    <3>2. CASE c # n
      <4>1. c \in 1 .. Len(failures) /\ failures'[c] = failures[c] /\ b < c
        BY <1>0, <1>1, <3>1, <3>2
      <4>2. failures[c].instance = i /\ failures[c].key = k /\ failures[c].counted /\ Recent(c)
        BY <1>0, <1>2, <3>1, <4>1 DEF SameCounter, Recent
      <4>3. c \in OfWindow(i, k)
        BY <1>0, <1>1, <4>1, <4>2 DEF OfWindow
      <4>4. \A x \in OfWindow(i, k) : failures[x].alarm => x < c
        BY <1>0, <1>1, <2>1, <2>3, <4>1
      <4>5. c \in SinceAlarm(OfWindow(i, k))
        BY <1>0, <4>3, <4>4 DEF SinceAlarm
      <4>6. c \in failureWindow[i][k]
        BY <1>0, <1>4, <1>7, <4>2, <4>5 DEF WindowHolds
      <4>7. c \in kept[k]
        BY <1>0, <1>3, <1>7, <4>2, <4>6
      <4> QED BY <1>0, <4>2, <4>7
    <3> QED BY <1>0, <3>2
  <2> QED BY <1>0, <2>3, <2>4, <2>5
<1> QED BY <1>0, <1>5, <1>6, <1>7

(* A failure that a replica's memory counts.                                 *)
LEMMA MemoryStep ==
    ASSUME SpikeInv, NEW i \in Instance, NEW k \in FailureKey, spikeBackend = "memory",
           NoteInMemory(i, k), UNCHANGED <<spikeBackend, moment, raised>>
    PROVE  SpikeInv'
<1> DEFINE n == Len(failures) + 1
<1>1. PICK gone \in IF PruneIsDueFor(i) THEN Overflow(failureWindow[i]) ELSE {{}} :
        LET dropped == IF PruneIsDueFor(i) THEN gone \cup Stale(failureWindow[i]) ELSE {}
            kept == WithoutKeys(failureWindow[i], dropped)
            w == {c \in kept[k] : Recent(c)} \cup {Len(failures) + 1}
            alarm == Cardinality(w) >= AUTH_SPIKE_THRESHOLD
        IN  /\ failureWindow' = [failureWindow EXCEPT ![i] = [kept EXCEPT ![k] = Afterwards(w, alarm)]]
            /\ forgotten' = forgotten \cup ({i} \X gone)
            /\ Note(i, k, alarm, TRUE, TRUE)
            /\ UNCHANGED failureCount
  BY DEF NoteInMemory
<1> DEFINE dropped == IF PruneIsDueFor(i) THEN gone \cup Stale(failureWindow[i]) ELSE {}
<1>2. PICK kept : kept = WithoutKeys(failureWindow[i], dropped)
  OBVIOUS
<1>3. PICK w : w = {c \in kept[k] : Recent(c)} \cup {Len(failures) + 1}
  OBVIOUS
<1>4. gone \in SUBSET FailureKey
  <2>1. \A S \in Overflow(failureWindow[i]) : S \subseteq FailureKey
    BY DEF Overflow, Entries
  <2> QED BY <2>1
<1>5. dropped \in SUBSET (gone \cup Stale(failureWindow[i])) /\ forgotten' = forgotten \cup ({i} \X gone)
  BY <1>1
<1> HIDE DEF dropped
<1>6. SpikeTypeOK /\ CountersHold /\ AlarmsRight
  BY DEF SpikeInv
<1>7. KeptByPrune(kept, i)
  BY <1>2, <1>4, <1>5, <1>6, PruningKeeps
<1>8. Cardinality(w) \in Nat /\ AUTH_SPIKE_THRESHOLD \in Nat
  <2>1. failures \in Seq(Failure) /\ kept[k] \subseteq DOMAIN failures
    BY <1>6, <1>7 DEF KeptByPrune, SpikeTypeOK
  <2>2. Len(failures) + 1 \in Nat /\ w \subseteq 1 .. Len(failures) + 1
    BY <1>3, <2>1
  <2>3. IsFiniteSet(1 .. Len(failures) + 1)
    BY <2>2, FS_Interval
  <2>4. IsFiniteSet(w)
    BY <2>2, <2>3, FS_Subset
  <2> QED BY <2>4, FS_CardinalityType, SpikeAssumption
<1>9. PICK alarm \in BOOLEAN : alarm = (Cardinality(w) >= AUTH_SPIKE_THRESHOLD)
  <2>1. (Cardinality(w) >= AUTH_SPIKE_THRESHOLD) \in BOOLEAN
    BY <1>8, SMT
  <2> QED BY <2>1, Zenon
<1>9b. alarm => Cardinality(w) >= AUTH_SPIKE_THRESHOLD
  BY <1>9
<1>9c. ~alarm => ~(Cardinality(w) >= AUTH_SPIKE_THRESHOLD)
  BY <1>9
<1>9a. /\ failureWindow' = [failureWindow EXCEPT ![i] = [kept EXCEPT ![k] = Afterwards(w, alarm)]]
       /\ Note(i, k, alarm, TRUE, TRUE)
       /\ UNCHANGED failureCount
  BY <1>1, <1>2, <1>3, <1>9 DEF dropped
<1>10. PICK e : e = [instance |-> i, key |-> k, at |-> moment, alarm |-> alarm, counted |-> TRUE,
                     cleared |-> TRUE]
  OBVIOUS
<1>11. /\ e \in Failure /\ e.at = moment /\ e.instance = i /\ e.key = k /\ e.counted /\ e.alarm = alarm
  <2>1. moment \in Nat
    BY <1>6 DEF SpikeTypeOK
  <2> QED BY <1>10, <2>1 DEF Failure
<1>12. /\ failures' = Append(failures, e)
       /\ pending' = IF alarm THEN pending \cup {n} ELSE pending
  BY <1>9a, <1>10 DEF Note
<1>13. moment' = moment /\ spikeBackend' = spikeBackend /\ raised' = raised
  OBVIOUS
<1>14. forgotten \subseteq forgotten'
  BY <1>5
<1>15. /\ failures' \in Seq(Failure) /\ Len(failures) \in Nat
       /\ DOMAIN failures = 1 .. Len(failures) /\ DOMAIN failures' = 1 .. Len(failures) + 1
       /\ \A c \in 1 .. Len(failures) : failures'[c] = failures[c]
       /\ failures'[Len(failures) + 1] = e
       /\ \A c \in DOMAIN failures' : failures'[c] \in Failure /\ failures'[c].at <= moment'
       /\ \A a, b \in DOMAIN failures' : a < b => failures'[a].at <= failures'[b].at
  BY <1>6, <1>11, <1>12, <1>13, FailureJoins
<1>16. PICK m : m = Len(failures) + 1
  OBVIOUS
<1>17. w = {c \in kept[k] : Recent(c)} \cup {m}
  BY <1>3, <1>16
<1>17a. JoinsWindow(i, k, e, kept, m, w)
  BY <1>7, <1>11, <1>12, <1>16, <1>17 DEF JoinsWindow
<1>18. /\ IsFiniteSet(w) /\ Cardinality(w) \in Nat
       /\ \A b \in 0 .. m - 1 :
            Boundary(m, b)' => w \subseteq Burst(m, b)'
       /\ <<i, k>> \notin forgotten' =>
            \E b \in 0 .. m - 1 : /\ Boundary(m, b)'
                                  /\ Burst(m, b)' \subseteq w
  <2>1. IsFiniteSet(w) /\ Cardinality(w) \in Nat
    BY <1>6, <1>13, <1>14, <1>17a, WindowIsBurst
  <2>2. \A b \in 0 .. m - 1 :
           Boundary(m, b)' => w \subseteq Burst(m, b)'
    BY <1>6, <1>13, <1>14, <1>17a, WindowIsBurst
  <2>3. <<i, k>> \notin forgotten' =>
           \E b \in 0 .. m - 1 : /\ Boundary(m, b)'
                                 /\ Burst(m, b)' \subseteq w
    BY <1>6, <1>13, <1>14, <1>17a, WindowIsBurst
  <2> QED BY <2>1, <2>2, <2>3
<1>19. m \in Nat /\ m \in DOMAIN failures' /\ failures'[m] = e /\ AUTH_SPIKE_THRESHOLD \in Nat
  BY <1>15, <1>16, SpikeAssumption
<1>20. w \subseteq DOMAIN failures' /\ m \in w
  <2>1. kept[k] \subseteq DOMAIN failures
    BY <1>7 DEF KeptByPrune
  <2> QED BY <1>15, <1>17, <1>19, <2>1
<1>21. SpikeTypeOK'
  <2>1. failureWindow' \in [Instance -> [FailureKey -> SUBSET DOMAIN failures']]
    <3>1. DOMAIN failures \subseteq DOMAIN failures'
      BY <1>15
    <3>2. Afterwards(w, alarm) \subseteq DOMAIN failures'
      BY <1>20 DEF Afterwards
    <3>3. kept \in [FailureKey -> SUBSET DOMAIN failures']
      BY <1>7, <3>1 DEF KeptByPrune
    <3>4. [kept EXCEPT ![k] = Afterwards(w, alarm)] \in [FailureKey -> SUBSET DOMAIN failures']
      BY <3>2, <3>3
    <3>5. failureWindow \in [Instance -> [FailureKey -> SUBSET DOMAIN failures']]
      BY <1>6, <3>1 DEF SpikeTypeOK
    <3> QED BY <1>9a, <3>4, <3>5
  <2>2. \A a \in (raised \cup pending)' : a \in DOMAIN failures' /\ failures'[a].alarm
    <3>1. \A a \in raised \cup pending : a \in DOMAIN failures /\ failures[a].alarm
      BY <1>6 DEF SpikeTypeOK
    <3>2. \A a \in raised \cup pending : a \in DOMAIN failures' /\ failures'[a].alarm
      BY <1>15, <3>1
    <3> QED BY <1>11, <1>12, <1>13, <1>16, <1>19, <3>2
  <2>3. failureCount' \in [FailureKey -> [count : Nat, expires : Nat]] /\ spikeBackend' \in {"memory", "redis"}
        /\ moment' \in Nat
    BY <1>9a, <1>6, <1>13 DEF SpikeTypeOK
  <2> QED BY <1>15, <2>1, <2>2, <2>3 DEF SpikeTypeOK
<1>22. ASSUME NEW j \in Instance, NEW l \in FailureKey
       PROVE  WindowHolds(j, l)'
  <2>1. /\ OfWindow(j, l) \subseteq 1 .. Len(failures)
        /\ \A c \in OfWindow(j, l) : Recent(c)' = Recent(c)
        /\ ~(e.instance = j /\ e.key = l) => OfWindow(j, l)' = OfWindow(j, l)
        /\ e.instance = j /\ e.key = l /\ e.counted
             => OfWindow(j, l)' = OfWindow(j, l) \cup {Len(failures) + 1}
    BY <1>6, <1>11, <1>12, <1>13, WindowKept
  <2>2. WindowHolds(j, l)
    BY <1>6 DEF CountersHold
  <2>3. failureWindow \in [Instance -> [FailureKey -> SUBSET DOMAIN failures]]
    BY <1>6 DEF SpikeTypeOK
  <2>4. kept \in [FailureKey -> SUBSET DOMAIN failures]
    BY <1>7 DEF KeptByPrune
  <2>5. CASE ~(j = i /\ l = k)
    <3>1. OfWindow(j, l)' = OfWindow(j, l)
      BY <1>11, <2>1, <2>5
    <3>2. SinceAlarm(OfWindow(j, l))' = SinceAlarm(OfWindow(j, l))
      BY <1>15, <2>1, <3>1 DEF SinceAlarm
    <3>3. /\ failureWindow'[j][l] \subseteq failureWindow[j][l]
          /\ <<j, l>> \notin forgotten' =>
               {c \in failureWindow[j][l] : Recent(c)} \subseteq failureWindow'[j][l]
      <4>1. CASE j # i
        BY <1>9a, <2>3, <4>1
      <4>2. CASE j = i
        <5>1. failureWindow'[j][l] = kept[l]
          BY <1>9a, <2>3, <2>4, <2>5, <4>2
        <5> QED BY <1>7, <4>2, <5>1 DEF KeptByPrune
      <4> QED BY <4>1, <4>2
    <3>4. \A c \in SinceAlarm(OfWindow(j, l)) : Recent(c)' = Recent(c)
      BY <2>1 DEF SinceAlarm
    <3> QED BY <1>14, <2>2, <3>2, <3>3, <3>4 DEF WindowHolds
  <2>6. CASE j = i /\ l = k
    <3>1. OfWindow(j, l)' = OfWindow(j, l) \cup {m}
      BY <1>11, <1>16, <2>1, <2>6
    <3>2. failureWindow'[j][l] = Afterwards(w, alarm)
      BY <1>9a, <2>3, <2>4, <2>6
    <3>3. \A c \in OfWindow(j, l) : c \in Nat /\ c < m /\ failures'[c] = failures[c]
      BY <1>15, <1>16, <2>1
    <3>4. CASE alarm
      <4>1. SinceAlarm(OfWindow(j, l))' = {}
        <5>1. m \in OfWindow(j, l)' /\ failures'[m].alarm
          BY <1>11, <1>19, <3>1, <3>4
        <5>2. \A c \in OfWindow(j, l)' : ~(m < c)
          BY <1>19, <3>1, <3>3
        <5> QED BY <5>1, <5>2 DEF SinceAlarm
      <4>2. failureWindow'[j][l] = {}
        BY <3>2, <3>4 DEF Afterwards
      <4> QED BY <4>1, <4>2 DEF WindowHolds
    <3>5. CASE ~alarm
      <4>1. SinceAlarm(OfWindow(j, l))' = SinceAlarm(OfWindow(j, l)) \cup {m}
        BY <1>11, <1>19, <3>1, <3>3, <3>5 DEF SinceAlarm
      <4>2. failureWindow'[j][l] = w
        BY <3>2, <3>5 DEF Afterwards
      <4>3. kept[l] \subseteq failureWindow[j][l]
            /\ (<<j, l>> \notin forgotten' => {c \in failureWindow[j][l] : Recent(c)} \subseteq kept[l])
        BY <1>7, <2>6 DEF KeptByPrune
      <4>4. \A c \in SinceAlarm(OfWindow(j, l)) : Recent(c)' = Recent(c)
        BY <2>1 DEF SinceAlarm
      <4>5. w \subseteq SinceAlarm(OfWindow(j, l))'
        BY <1>17, <2>2, <2>6, <4>1, <4>3 DEF WindowHolds
      <4>6. ASSUME <<j, l>> \notin forgotten', NEW c \in SinceAlarm(OfWindow(j, l))', Recent(c)'
            PROVE  c \in w
        <5>1. CASE c \in SinceAlarm(OfWindow(j, l))
          <6>1. Recent(c)
            BY <4>4, <4>6, <5>1
          <6>2. c \in failureWindow[j][l]
            BY <1>14, <2>2, <4>6, <5>1, <6>1 DEF WindowHolds
          <6> QED BY <1>17, <2>6, <4>3, <4>6, <6>1, <6>2
        <5> QED BY <1>20, <4>1, <4>6, <5>1
      <4> QED BY <4>2, <4>5, <4>6 DEF WindowHolds
    <3> QED BY <3>4, <3>5
  <2> QED BY <2>5, <2>6
<1>23. CountersHold'
  BY <1>13, <1>22 DEF CountersHold
<1>24. alarm => AlarmIsBurst(m)'
  <2> SUFFICES ASSUME alarm PROVE AlarmIsBurst(m)'
    OBVIOUS
  <2>1. ASSUME NEW b \in 0 .. m - 1, Boundary(m, b)'
        PROVE  Cardinality(Burst(m, b)') >= AUTH_SPIKE_THRESHOLD
    <3>1. w \subseteq Burst(m, b)'
      BY <1>18, <2>1
    <3>2. b \in Nat
      BY <1>19
    <3>3. IsFiniteSet(Burst(m, b)') /\ Cardinality(Burst(m, b)') \in Nat
      BY <1>19, <3>2, BurstFinite
    <3>4. Cardinality(w) <= Cardinality(Burst(m, b)')
      BY <3>1, <3>3, FS_Subset
    <3> QED BY <1>9b, <1>9c, <1>8, <1>18, <1>19, <3>3, <3>4
  <2>2. \A b \in 1 .. m - 1 : b \in 0 .. m - 1
    BY <1>19
  <2>3. 0 \in 0 .. m - 1
    BY <1>15, <1>16
  <2> QED BY <2>1, <2>2, <2>3 DEF AlarmIsBurst, Boundary
<1>25. ~alarm => NoBurstPassed(m)'
  <2> SUFFICES ASSUME ~alarm, <<i, k>> \notin forgotten' PROVE NoBurstPassed(m)'
    BY <1>11, <1>19 DEF NoBurstPassed
  <2>1. PICK b \in 0 .. m - 1 : /\ Boundary(m, b)'
                               /\ Burst(m, b)' \subseteq w
    BY <1>18
  <2>2. /\ IsFiniteSet(Burst(m, b)') /\ Cardinality(Burst(m, b)') \in Nat
        /\ Cardinality(Burst(m, b)') <= Cardinality(w)
    BY <1>18, <2>1, FS_Subset, FS_CardinalityType
  <2>3. Cardinality(Burst(m, b)') < AUTH_SPIKE_THRESHOLD
    BY <1>9b, <1>9c, <1>8, <1>18, <1>19, <2>2
  <2> QED BY <2>1, <2>3 DEF NoBurstPassed, Boundary
<1>26. AlarmsRight'
  BY <1>6, <1>11, <1>12, <1>13, <1>14, <1>16, <1>24, <1>25, AlarmsStayRight
<1> QED BY <1>21, <1>23, <1>26 DEF SpikeInv

(* A failure in Redis: the count of its key is of failures of the burst.     *)
JoinsCount(k, e, n) ==
    /\ e \in Failure /\ e.at = moment /\ e.key = k
    /\ failures' = Append(failures, e) /\ n = Len(failures) + 1

LEMMA CountOfBurst ==
    ASSUME SpikeTypeOK, CountersHold, spikeBackend = "redis", UNCHANGED <<spikeBackend, moment>>,
           NEW k \in FailureKey, NEW e, NEW n, JoinsCount(k, e, n), e.counted
    PROVE  \E S \in SUBSET DOMAIN failures :
             /\ CountNow(k).count <= Cardinality(S \cup {n})
             /\ \A c \in S : /\ failures[c].key = k /\ failures[c].counted
                             /\ failures[c].at >= CountNow(k).expires - AUTH_SPIKE_WINDOW
                             /\ moment - failures[c].at < AUTH_SPIKE_WINDOW
                             /\ \A b \in DOMAIN failures :
                                  failures[b].key = k /\ failures[b].alarm /\ failures[b].cleared => b < c
<1>1. /\ failures \in Seq(Failure) /\ Len(failures) \in Nat /\ n = Len(failures) + 1 /\ moment \in Nat
      /\ AUTH_SPIKE_WINDOW \in Nat
  BY SpikeAssumption DEF SpikeTypeOK, JoinsCount
<1>2. /\ failureCount[k] \in [count : Nat, expires : Nat]
      /\ failureCount[k].count <= Cardinality(OfKey(k))
  BY DEF SpikeTypeOK, CountersHold
<1>3. CASE ~(moment < failureCount[k].expires)
  <2>1. CountNow(k).count = 1 /\ Cardinality({n}) = 1
    BY <1>3, FS_Singleton DEF CountNow
  <2>2. {} \in SUBSET DOMAIN failures /\ {} \cup {n} = {n}
    OBVIOUS
  <2>3. CountNow(k).count <= Cardinality({} \cup {n})
    BY <2>1, <2>2
  <2> QED BY <2>2, <2>3
<1>4. CASE moment < failureCount[k].expires
  <2> DEFINE S == OfKey(k)
  <2>1. CountNow(k).count = failureCount[k].count + 1 /\ CountNow(k).expires = failureCount[k].expires
    BY <1>2, <1>4 DEF CountNow
  <2>2. S \in SUBSET DOMAIN failures
    BY DEF OfKey
  <2>3. IsFiniteSet(S) /\ Cardinality(S) \in Nat /\ Cardinality(S \cup {n}) = Cardinality(S) + 1
    <3> HIDE DEF S
    <3>1. PICK m \in Nat : m = Len(failures)
      BY <1>1
    <3>2. IsFiniteSet(1 .. m)
      <4>1. 1 \in Int /\ m \in Int
        BY <3>1
      <4> QED BY <4>1, FS_Interval
    <3>3. S \subseteq 1 .. m
      BY <1>1, <2>2, <3>1
    <3>4. IsFiniteSet(S)
      BY <3>2, <3>3, FS_Subset
    <3>5. n \notin S
      BY <1>1, <3>1, <3>3
    <3> QED BY <3>4, <3>5, FS_AddElement, FS_CardinalityType
  <2>4. CountNow(k).count <= Cardinality(S \cup {n})
    BY <1>2, <2>1, <2>3
  <2>5. ASSUME NEW c \in S
        PROVE  /\ failures[c].key = k /\ failures[c].counted
               /\ failures[c].at >= CountNow(k).expires - AUTH_SPIKE_WINDOW
               /\ moment - failures[c].at < AUTH_SPIKE_WINDOW
               /\ \A b \in DOMAIN failures :
                    failures[b].key = k /\ failures[b].alarm /\ failures[b].cleared => b < c
    <3>1. /\ failures[c].key = k /\ failures[c].counted
          /\ failures[c].at >= failureCount[k].expires - AUTH_SPIKE_WINDOW
          /\ \A b \in DOMAIN failures :
               failures[b].key = k /\ failures[b].alarm /\ failures[b].cleared => b < c
      BY DEF OfKey
    <3>2. failures[c] \in Failure
      BY <1>1, <2>2
    <3>3. failures[c].at \in Nat /\ failureCount[k].expires \in Nat
      BY <1>2, <3>2 DEF Failure
    <3>4. moment - failures[c].at < AUTH_SPIKE_WINDOW
      BY <1>1, <1>4, <3>1, <3>3
    <3> QED BY <2>1, <3>1, <3>4
  <2> HIDE DEF S
  <2> QED BY <2>2, <2>4, <2>5
<1> QED BY <1>3, <1>4

LEMMA RedisAlarmIsBurst ==
    ASSUME SpikeTypeOK, CountersHold, spikeBackend = "redis", UNCHANGED <<spikeBackend, moment>>,
           NEW k \in FailureKey, NEW e, NEW n, JoinsCount(k, e, n), e.counted,
           CountNow(k).count >= AUTH_SPIKE_THRESHOLD
    PROVE  AlarmIsBurst(n)'
<1>1. PICK S \in SUBSET DOMAIN failures :
             /\ CountNow(k).count <= Cardinality(S \cup {n})
             /\ \A c \in S : /\ failures[c].key = k /\ failures[c].counted
                             /\ failures[c].at >= CountNow(k).expires - AUTH_SPIKE_WINDOW
                             /\ moment - failures[c].at < AUTH_SPIKE_WINDOW
                             /\ \A b \in DOMAIN failures :
                                  failures[b].key = k /\ failures[b].alarm /\ failures[b].cleared => b < c
  BY CountOfBurst
<1>2. /\ e \in Failure /\ e.at = moment /\ e.key = k /\ failures' = Append(failures, e)
      /\ n = Len(failures) + 1 /\ moment' = moment /\ spikeBackend' = "redis"
  BY DEF JoinsCount
<1>3. /\ Len(failures) \in Nat /\ DOMAIN failures = 1 .. Len(failures)
      /\ \A c \in 1 .. Len(failures) : failures'[c] = failures[c]
      /\ failures'[n] = e /\ n \in Nat /\ moment \in Nat
  BY <1>2, FailureJoins DEF SpikeTypeOK
<1>4. ASSUME NEW b \in 0 .. n - 1,
             b = 0 \/ (SameCounter(n, b)' /\ failures'[b].alarm /\ failures'[b].cleared)
      PROVE  Cardinality(Burst(n, b)') >= AUTH_SPIKE_THRESHOLD
  <2>1. ASSUME NEW c \in S \cup {n}
        PROVE  c \in Burst(n, b)'
    <3>1. CASE c = n
      <4>1. failures'[n].at - failures'[n].at < AUTH_SPIKE_WINDOW
        BY <1>2, <1>3, SpikeAssumption
      <4>2. n \in b + 1 .. n
        BY <1>3
      <4>3. spikeBackend' # "memory"
        BY <1>2
      <4> QED BY <1>2, <1>3, <3>1, <4>1, <4>2, <4>3 DEF Burst, SameCounter
    <3>2. CASE c \in S
      <4>1. /\ c \in 1 .. Len(failures) /\ failures'[c] = failures[c]
            /\ failures[c].key = k /\ failures[c].counted
            /\ moment - failures[c].at < AUTH_SPIKE_WINDOW
            /\ \A x \in DOMAIN failures :
                 failures[x].key = k /\ failures[x].alarm /\ failures[x].cleared => x < c
        BY <1>1, <1>3, <3>2
      <4>2. b < c
        <5>1. CASE b = 0
          BY <4>1, <5>1
        <5>2. CASE b # 0
          <6>1. b \in 1 .. Len(failures) /\ failures'[b] = failures[b]
            BY <1>2, <1>3, <5>2
          <6>2. failures[b].key = k /\ failures[b].alarm /\ failures[b].cleared
            BY <1>2, <1>3, <1>4, <5>2, <6>1 DEF SameCounter
          <6> QED BY <1>3, <4>1, <6>1, <6>2
        <5> QED BY <5>1, <5>2
      <4>3. c \in b + 1 .. n
        BY <1>2, <1>3, <4>1, <4>2
      <4>4. SameCounter(n, c)' /\ failures'[c].counted /\ failures'[n].at - failures'[c].at < AUTH_SPIKE_WINDOW
        BY <1>2, <1>3, <4>1 DEF SameCounter
      <4> QED BY <4>3, <4>4 DEF Burst
    <3> QED BY <3>1, <3>2
  <2>2. b \in Nat
    BY <1>3
  <2>3. IsFiniteSet(Burst(n, b)') /\ Cardinality(Burst(n, b)') \in Nat
    BY <1>3, <2>2, BurstFinite
  <2>4. IsFiniteSet(S \cup {n}) /\ Cardinality(S \cup {n}) <= Cardinality(Burst(n, b)')
    <3>1. S \cup {n} \subseteq Burst(n, b)'
      BY <2>1
    <3> QED BY <2>3, <3>1, FS_Subset
  <2>5. CountNow(k).count \in Nat /\ AUTH_SPIKE_THRESHOLD \in Nat
    <3>1. failureCount[k].count \in Nat
      BY DEF SpikeTypeOK
    <3> QED BY <3>1, SpikeAssumption DEF CountNow, SpikeTypeOK
  <2>6. Cardinality(S \cup {n}) \in Nat
    BY <2>4, FS_CardinalityType
  <2> QED BY <1>1, <2>3, <2>4, <2>5, <2>6
<1>5. 0 \in 0 .. n - 1 /\ \A b \in 1 .. n - 1 : b \in 0 .. n - 1
  BY <1>2, <1>3
<1> QED BY <1>4, <1>5 DEF AlarmIsBurst

(* The counts stay counts of failures since the last alarm.                  *)
LEMMA CountsStay ==
    ASSUME SpikeTypeOK, CountersHold, spikeBackend = "redis", UNCHANGED <<spikeBackend, moment>>,
           NEW k \in FailureKey, NEW e, NEW n, JoinsCount(k, e, n), NEW v,
           failureCount' = [failureCount EXCEPT ![k] = v],
           \/ v = [count |-> 0, expires |-> 0]
           \/ ~(e.alarm /\ e.cleared) /\ v = failureCount[k]
           \/ ~(e.alarm /\ e.cleared) /\ e.counted /\ v = CountNow(k)
    PROVE  CountersHold' /\ failureCount' \in [FailureKey -> [count : Nat, expires : Nat]]
<1>1. /\ e \in Failure /\ e.at = moment /\ e.key = k /\ failures' = Append(failures, e)
      /\ n = Len(failures) + 1 /\ moment' = moment /\ spikeBackend' = "redis"
  BY DEF JoinsCount
<1>2. /\ Len(failures) \in Nat /\ DOMAIN failures = 1 .. Len(failures)
      /\ DOMAIN failures' = 1 .. Len(failures) + 1
      /\ \A c \in 1 .. Len(failures) : failures'[c] = failures[c]
      /\ failures'[n] = e /\ n \in Nat /\ moment \in Nat /\ AUTH_SPIKE_WINDOW \in Nat
  BY <1>1, FailureJoins, SpikeAssumption DEF SpikeTypeOK
<1>3. failureCount \in [FailureKey -> [count : Nat, expires : Nat]]
  BY DEF SpikeTypeOK
<1>4. CountNow(k) \in [count : Nat, expires : Nat] /\ CountNow(k).expires <= moment + AUTH_SPIKE_WINDOW
  <2>1. failureCount[k] \in [count : Nat, expires : Nat]
    BY <1>3
  <2>2. failureCount[k].expires <= moment + AUTH_SPIKE_WINDOW
    BY DEF CountersHold
  <2>3. CASE moment < failureCount[k].expires
    <3>1. CountNow(k) = [count |-> failureCount[k].count + 1, expires |-> failureCount[k].expires]
      BY <2>1, <2>3 DEF CountNow
    <3> QED BY <2>1, <2>2, <3>1
  <2>4. CASE ~(moment < failureCount[k].expires)
    BY <1>2, <2>4 DEF CountNow
  <2> QED BY <2>3, <2>4
<1>5. v \in [count : Nat, expires : Nat]
  BY <1>3, <1>4
<1>6. failureCount' \in [FailureKey -> [count : Nat, expires : Nat]]
  BY <1>3, <1>5
<1>7. ASSUME NEW l \in FailureKey
      PROVE  IsFiniteSet(OfKey(l)') /\ Cardinality(OfKey(l)') \in Nat
  <2>1. OfKey(l)' \subseteq 1 .. n
    BY <1>1, <1>2 DEF OfKey
  <2>2. 1 \in Int /\ n \in Int
    BY <1>2
  <2>3. IsFiniteSet(1 .. n)
    BY <2>2, FS_Interval
  <2>4. IsFiniteSet(OfKey(l)')
    BY <2>1, <2>3, FS_Subset
  <2> QED BY <2>4, FS_CardinalityType
<1>8. ASSUME NEW l \in FailureKey, failureCount'[l] = failureCount[l], l # k \/ ~(e.alarm /\ e.cleared)
      PROVE  failureCount'[l].expires <= moment' + AUTH_SPIKE_WINDOW
             /\ failureCount'[l].count <= Cardinality(OfKey(l)')
  <2>1. /\ failureCount[l].expires <= moment + AUTH_SPIKE_WINDOW
        /\ failureCount[l].count <= Cardinality(OfKey(l))
    BY DEF CountersHold
  <2>2. ASSUME NEW c \in OfKey(l)
        PROVE  c \in OfKey(l)'
    <3>1. /\ c \in 1 .. Len(failures) /\ failures'[c] = failures[c]
          /\ failures[c].key = l /\ failures[c].counted
          /\ failures[c].at >= failureCount[l].expires - AUTH_SPIKE_WINDOW
          /\ \A b \in 1 .. Len(failures) :
               failures[b].key = l /\ failures[b].alarm /\ failures[b].cleared => b < c
      BY <1>2 DEF OfKey
    <3>2. ASSUME NEW b \in DOMAIN failures', failures'[b].key = l, failures'[b].alarm, failures'[b].cleared
          PROVE  b < c
      <4>1. CASE b = n
        BY <1>1, <1>2, <1>8, <3>2, <4>1
      <4>2. CASE b # n
        <5>1. b \in 1 .. Len(failures)
          BY <1>1, <1>2, <4>2
        <5> QED BY <1>2, <3>1, <3>2, <5>1
      <4> QED BY <4>1, <4>2
    <3>3. c \in DOMAIN failures'
      BY <1>2, <3>1
    <3> QED BY <1>8, <3>1, <3>2, <3>3 DEF OfKey
  <2>3. Cardinality(OfKey(l)) <= Cardinality(OfKey(l)') /\ Cardinality(OfKey(l)) \in Nat
    <3>1. OfKey(l) \subseteq OfKey(l)'
      BY <2>2
    <3> QED BY <1>7, <3>1, FS_Subset, FS_CardinalityType
  <2>4. failureCount[l].count \in Nat
    BY <1>3
  <2> QED BY <1>1, <1>7, <1>8, <2>1, <2>3, <2>4
<1>9. ASSUME NEW l \in FailureKey
      PROVE  failureCount'[l].expires <= moment' + AUTH_SPIKE_WINDOW
             /\ failureCount'[l].count <= Cardinality(OfKey(l)')
  <2>1. CASE l # k
    BY <1>3, <1>8, <2>1
  <2>2. CASE l = k /\ ~(e.alarm /\ e.cleared) /\ v = failureCount[k]
    BY <1>3, <1>8, <2>2
  <2>3. CASE l = k /\ v = [count |-> 0, expires |-> 0]
    <3>1. failureCount'[l].count = 0 /\ failureCount'[l].expires = 0
      BY <1>3, <2>3
    <3>2. 0 <= Cardinality(OfKey(l)') /\ 0 <= moment' + AUTH_SPIKE_WINDOW
      BY <1>1, <1>2, <1>7
    <3> QED BY <3>1, <3>2
  <2>4. CASE l = k /\ ~(e.alarm /\ e.cleared) /\ e.counted /\ v = CountNow(k)
    <3>1. PICK S \in SUBSET DOMAIN failures :
             /\ CountNow(k).count <= Cardinality(S \cup {n})
             /\ \A c \in S : /\ failures[c].key = k /\ failures[c].counted
                             /\ failures[c].at >= CountNow(k).expires - AUTH_SPIKE_WINDOW
                             /\ moment - failures[c].at < AUTH_SPIKE_WINDOW
                             /\ \A b \in DOMAIN failures :
                                  failures[b].key = k /\ failures[b].alarm /\ failures[b].cleared => b < c
      BY <2>4, CountOfBurst
    <3>2. failureCount'[l] = CountNow(k)
      BY <1>3, <2>4
    <3>3. ASSUME NEW c \in S \cup {n}
          PROVE  c \in OfKey(l)'
      <4>1. ASSUME NEW b \in DOMAIN failures', failures'[b].key = k, failures'[b].alarm, failures'[b].cleared
            PROVE  b \in 1 .. Len(failures) /\ failures'[b] = failures[b]
        <5>1. b # n
          BY <1>2, <2>4, <4>1
        <5> QED BY <1>1, <1>2, <5>1
      <4>2. CASE c = n
        <5>1. moment >= CountNow(k).expires - AUTH_SPIKE_WINDOW
          BY <1>2, <1>4
        <5>2. \A b \in DOMAIN failures' :
                failures'[b].key = k /\ failures'[b].alarm /\ failures'[b].cleared => b < n
          BY <1>1, <1>2, <4>1
        <5>3. n \in DOMAIN failures'
          BY <1>1, <1>2
        <5> QED BY <1>1, <1>2, <2>4, <3>2, <4>2, <5>1, <5>2, <5>3 DEF OfKey
      <4>3. CASE c \in S
        <5>1. /\ c \in 1 .. Len(failures) /\ failures'[c] = failures[c] /\ c \in DOMAIN failures'
              /\ failures[c].key = k /\ failures[c].counted
              /\ failures[c].at >= CountNow(k).expires - AUTH_SPIKE_WINDOW
          BY <1>2, <3>1, <4>3
        <5>2. \A b \in DOMAIN failures :
                 failures[b].key = k /\ failures[b].alarm /\ failures[b].cleared => b < c
          BY <3>1, <4>3
        <5>3. \A b \in DOMAIN failures' :
                failures'[b].key = k /\ failures'[b].alarm /\ failures'[b].cleared => b < c
          BY <1>2, <4>1, <5>2
        <5> QED BY <2>4, <3>2, <5>1, <5>3 DEF OfKey
      <4> QED BY <4>2, <4>3
    <3>4. IsFiniteSet(S \cup {n}) /\ Cardinality(S \cup {n}) <= Cardinality(OfKey(l)')
      <4>1. S \cup {n} \subseteq OfKey(l)'
        BY <3>3
      <4> QED BY <1>7, <4>1, FS_Subset
    <3>5. Cardinality(S \cup {n}) \in Nat /\ CountNow(k).count \in Nat
      BY <1>4, <3>4, FS_CardinalityType
    <3> QED BY <1>1, <1>4, <1>7, <3>1, <3>2, <3>4, <3>5
  <2> QED BY <2>1, <2>2, <2>3, <2>4
<1>10. CountersHold'
  BY <1>1, <1>9 DEF CountersHold
<1> QED BY <1>6, <1>10

LEMMA RedisStep ==
    ASSUME SpikeInv, spikeBackend = "redis",
           UNCHANGED <<spikeBackend, moment, raised, failureWindow, forgotten>>,
           NEW k \in FailureKey, NEW e, NEW n, JoinsCount(k, e, n), NEW v,
           failureCount' = [failureCount EXCEPT ![k] = v],
           \/ v = [count |-> 0, expires |-> 0]
           \/ ~(e.alarm /\ e.cleared) /\ v = failureCount[k]
           \/ ~(e.alarm /\ e.cleared) /\ e.counted /\ v = CountNow(k),
           e.alarm => e.counted /\ CountNow(k).count >= AUTH_SPIKE_THRESHOLD,
           pending' = IF e.alarm THEN pending \cup {n} ELSE pending
    PROVE  SpikeInv'
<1>1. SpikeTypeOK /\ CountersHold /\ AlarmsRight
  BY DEF SpikeInv
<1>2. /\ e \in Failure /\ e.at = moment /\ e.key = k /\ failures' = Append(failures, e)
      /\ n = Len(failures) + 1 /\ moment' = moment /\ spikeBackend' = "redis"
  BY DEF JoinsCount
<1>3. CountersHold' /\ failureCount' \in [FailureKey -> [count : Nat, expires : Nat]]
  BY <1>1, CountsStay
<1>4. e.alarm => AlarmIsBurst(n)'
  BY <1>1, RedisAlarmIsBurst
<1>5. NoBurstPassed(n)'
  BY <1>2 DEF NoBurstPassed
<1>6. AlarmsRight'
  BY <1>1, <1>2, <1>4, <1>5, AlarmsStayRight
<1>7. /\ failures' \in Seq(Failure) /\ Len(failures) \in Nat
      /\ DOMAIN failures = 1 .. Len(failures) /\ DOMAIN failures' = 1 .. Len(failures) + 1
      /\ \A c \in 1 .. Len(failures) : failures'[c] = failures[c]
      /\ failures'[Len(failures) + 1] = e
      /\ \A c \in DOMAIN failures' : failures'[c] \in Failure /\ failures'[c].at <= moment'
      /\ \A a, b \in DOMAIN failures' : a < b => failures'[a].at <= failures'[b].at
  BY <1>1, <1>2, FailureJoins
<1>8. SpikeTypeOK'
  <2>1. failureWindow' \in [Instance -> [FailureKey -> SUBSET DOMAIN failures']]
    <3>1. DOMAIN failures \subseteq DOMAIN failures'
      BY <1>7
    <3> QED BY <1>1, <3>1 DEF SpikeTypeOK
  <2>2. \A a \in (raised \cup pending)' : a \in DOMAIN failures' /\ failures'[a].alarm
    <3>1. \A a \in raised \cup pending : a \in DOMAIN failures /\ failures[a].alarm
      BY <1>1 DEF SpikeTypeOK
    <3>2. \A a \in raised \cup pending : a \in DOMAIN failures' /\ failures'[a].alarm
      BY <1>7, <3>1
    <3>3. n \in DOMAIN failures' /\ failures'[n] = e
      BY <1>2, <1>7
    <3> QED BY <3>2, <3>3
  <2>3. spikeBackend' \in {"memory", "redis"} /\ moment' \in Nat
    BY <1>1, <1>2 DEF SpikeTypeOK
  <2> QED BY <1>3, <1>7, <2>1, <2>2, <2>3 DEF SpikeTypeOK
<1> QED BY <1>3, <1>6, <1>8 DEF SpikeInv

LEMMA NotesKeepInv ==
    ASSUME SpikeInv, NEW i \in Instance, NEW k \in FailureKey, NoteAuthFailure(i, k)
    PROVE  SpikeInv'
<1>1. UNCHANGED <<spikeBackend, moment, raised>> /\ SpikeTypeOK
  BY DEF NoteAuthFailure, SpikeInv
<1>2. CASE spikeBackend = "memory" /\ NoteInMemory(i, k)
  BY <1>1, <1>2, MemoryStep
<1>3. CASE spikeBackend = "redis" /\ NoteInRedis(i, k)
  <2>1. PICK alarm \in BOOLEAN : alarm = (CountNow(k).count >= AUTH_SPIKE_THRESHOLD)
    <3>1. failureCount[k].count \in Nat /\ AUTH_SPIKE_THRESHOLD \in Nat
      BY <1>1, SpikeAssumption DEF SpikeTypeOK
    <3>2. CountNow(k).count \in Nat
      BY <1>1, <3>1 DEF CountNow, SpikeTypeOK
    <3>3. (CountNow(k).count >= AUTH_SPIKE_THRESHOLD) \in BOOLEAN
      BY <3>1, <3>2, SMT
    <3> QED BY <3>3, Zenon
  <2>2. PICK deleted \in {TRUE, ~alarm} :
           /\ failureCount' = [failureCount EXCEPT ![k] =
                  IF alarm /\ deleted THEN [count |-> 0, expires |-> 0] ELSE CountNow(k)]
           /\ Note(i, k, alarm, TRUE, deleted)
    BY <1>3, <2>1 DEF NoteInRedis
  <2>3. PICK e : e = [instance |-> i, key |-> k, at |-> moment, alarm |-> alarm, counted |-> TRUE,
                      cleared |-> deleted]
    OBVIOUS
  <2>4. deleted \in BOOLEAN /\ moment \in Nat
    BY <1>1 DEF SpikeTypeOK
  <2>5. /\ e \in Failure /\ e.at = moment /\ e.key = k /\ e.alarm = alarm /\ e.counted
        /\ e.cleared = deleted
    BY <2>3, <2>4 DEF Failure
  <2>6. PICK n : n = Len(failures) + 1
    OBVIOUS
  <2>7. JoinsCount(k, e, n) /\ pending' = IF e.alarm THEN pending \cup {n} ELSE pending
    BY <2>2, <2>3, <2>5, <2>6 DEF Note, JoinsCount
  <2>8. PICK v : v = IF alarm /\ deleted THEN [count |-> 0, expires |-> 0] ELSE CountNow(k)
    OBVIOUS
  <2>9. failureCount' = [failureCount EXCEPT ![k] = v]
    BY <2>2, <2>8
  <2>10. \/ v = [count |-> 0, expires |-> 0]
         \/ ~(e.alarm /\ e.cleared) /\ e.counted /\ v = CountNow(k)
    BY <2>5, <2>8
  <2>11. e.alarm => e.counted /\ CountNow(k).count >= AUTH_SPIKE_THRESHOLD
    BY <2>1, <2>5
  <2>12. UNCHANGED <<failureWindow, forgotten>>
    BY <1>3 DEF NoteInRedis
  <2> QED BY <1>1, <1>3, <2>7, <2>9, <2>10, <2>11, <2>12, RedisStep
<1>4. CASE spikeBackend = "redis" /\ NoteFailsOpen(i, k)
  <2>1. PICK counted \in BOOLEAN :
           /\ failureCount' = [failureCount EXCEPT ![k] = IF counted THEN CountNow(k) ELSE @]
           /\ Note(i, k, FALSE, counted, FALSE)
    BY <1>4 DEF NoteFailsOpen
  <2>2. PICK e : e = [instance |-> i, key |-> k, at |-> moment, alarm |-> FALSE, counted |-> counted,
                      cleared |-> FALSE]
    OBVIOUS
  <2>3. moment \in Nat
    BY <1>1 DEF SpikeTypeOK
  <2>4. /\ e \in Failure /\ e.at = moment /\ e.key = k /\ ~e.alarm /\ e.counted = counted
    BY <2>2, <2>3 DEF Failure
  <2>5. PICK n : n = Len(failures) + 1
    OBVIOUS
  <2>6. JoinsCount(k, e, n) /\ pending' = IF e.alarm THEN pending \cup {n} ELSE pending
    BY <2>1, <2>2, <2>4, <2>5 DEF Note, JoinsCount
  <2>7. PICK v : v = IF counted THEN CountNow(k) ELSE failureCount[k]
    OBVIOUS
  <2>8. failureCount' = [failureCount EXCEPT ![k] = v]
    BY <2>1, <2>7
  <2>9. \/ ~(e.alarm /\ e.cleared) /\ v = failureCount[k]
        \/ ~(e.alarm /\ e.cleared) /\ e.counted /\ v = CountNow(k)
    BY <2>4, <2>7
  <2>10. UNCHANGED <<failureWindow, forgotten>>
    BY <1>4 DEF NoteFailsOpen
  <2> QED BY <1>1, <1>4, <2>4, <2>6, <2>8, <2>9, <2>10, RedisStep
<1> QED BY <1>2, <1>3, <1>4 DEF NoteAuthFailure

(* Without a failure nothing of what is said of failures changes.            *)
LEMMA AlarmsStay ==
    ASSUME UNCHANGED <<spikeBackend, failures, forgotten>>, AlarmsRight
    PROVE  AlarmsRight'
<1>2. ASSUME NEW a, NEW b
      PROVE  Burst(a, b)' = Burst(a, b)
  BY DEF Burst, SameCounter
<1>3. ASSUME NEW a, AlarmIsBurst(a)
      PROVE  AlarmIsBurst(a)'
  <2>1. \A b : SameCounter(a, b)' = SameCounter(a, b)
    BY DEF SameCounter
  <2> QED BY <1>2, <1>3, <2>1 DEF AlarmIsBurst
<1>4. ASSUME NEW a, NoBurstPassed(a)
      PROVE  NoBurstPassed(a)'
  <2>1. \A b : SameCounter(a, b)' = SameCounter(a, b)
    BY DEF SameCounter
  <2> QED BY <1>2, <1>4, <2>1 DEF NoBurstPassed
<1> QED BY <1>3, <1>4 DEF AlarmsRight

LEMMA CountersStay ==
    ASSUME UNCHANGED <<spikeBackend, moment, failureWindow, failureCount, failures, forgotten>>, CountersHold
    PROVE  CountersHold'
<1>1. ASSUME NEW i, NEW k
      PROVE  WindowHolds(i, k)' = WindowHolds(i, k)
  <2>1. OfWindow(i, k)' = OfWindow(i, k)
    BY DEF OfWindow
  <2>2. SinceAlarm(OfWindow(i, k))' = SinceAlarm(OfWindow(i, k))
    BY <2>1 DEF SinceAlarm
  <2>3. \A c : Recent(c)' = Recent(c)
    BY DEF Recent
  <2> QED BY <2>2, <2>3 DEF WindowHolds
<1>2. \A k : OfKey(k)' = OfKey(k)
  BY DEF OfKey
<1> QED BY <1>1, <1>2 DEF CountersHold

(* An event is written, or time passes.                                      *)
LEMMA EmittingKeepsInv ==
    ASSUME SpikeInv, NEW a, EmitAnomaly(a)
    PROVE  SpikeInv'
<1>1. SpikeTypeOK /\ CountersHold /\ AlarmsRight
  BY DEF SpikeInv
<1>2. /\ UNCHANGED <<spikeBackend, moment, failureWindow, failureCount, failures, forgotten>>
      /\ (raised \cup pending)' \subseteq raised \cup pending
  BY DEF EmitAnomaly
<1>3. SpikeTypeOK'
  BY <1>1, <1>2 DEF SpikeTypeOK
<1>4. CountersHold'
  BY <1>1, <1>2, CountersStay
<1>5. AlarmsRight'
  BY <1>1, <1>2, AlarmsStay
<1> QED BY <1>3, <1>4, <1>5 DEF SpikeInv

LEMMA TimeKeepsInv ==
    ASSUME SpikeInv, MomentPasses
    PROVE  SpikeInv'
<1>1. SpikeTypeOK /\ CountersHold /\ AlarmsRight
  BY DEF SpikeInv
<1>2. /\ UNCHANGED <<spikeBackend, failureWindow, failureCount, failures, forgotten, raised, pending>>
      /\ moment \in Nat /\ moment' = moment + 1 /\ AUTH_SPIKE_WINDOW \in Nat
  BY <1>1, SpikeAssumption DEF MomentPasses, SpikeTypeOK
<1>3. \A c \in DOMAIN failures : failures[c].at \in Nat /\ failures[c].at <= moment
  <2>1. \A c \in DOMAIN failures : failures[c] \in Failure
    BY <1>1 DEF SpikeTypeOK
  <2> QED BY <1>1, <2>1 DEF SpikeTypeOK, Failure
<1>4. SpikeTypeOK'
  <2>1. \A c \in DOMAIN failures : failures[c].at <= moment + 1
    BY <1>2, <1>3
  <2> QED BY <1>1, <1>2, <2>1 DEF SpikeTypeOK
<1>5. ASSUME NEW i \in Instance, NEW k \in FailureKey, WindowHolds(i, k)
      PROVE  WindowHolds(i, k)'
  <2>1. SinceAlarm(OfWindow(i, k))' = SinceAlarm(OfWindow(i, k))
    BY <1>2 DEF SinceAlarm, OfWindow
  <2>2. \A c \in SinceAlarm(OfWindow(i, k)) : c \in DOMAIN failures
    BY DEF SinceAlarm, OfWindow
  <2>3. ASSUME NEW c \in DOMAIN failures, Recent(c)'
        PROVE  Recent(c)
    BY <1>2, <1>3, <2>3 DEF Recent
  <2> QED BY <1>2, <1>5, <2>1, <2>2, <2>3 DEF WindowHolds
<1>6. CountersHold'
  <2>1. \A k \in FailureKey : OfKey(k)' = OfKey(k)
    BY <1>2 DEF OfKey
  <2>2. \A k \in FailureKey : failureCount[k].expires \in Nat
    BY <1>1 DEF SpikeTypeOK
  <2> QED BY <1>1, <1>2, <1>5, <2>1, <2>2 DEF CountersHold
<1>7. AlarmsRight'
  BY <1>1, <1>2, AlarmsStay
<1> QED BY <1>4, <1>6, <1>7 DEF SpikeInv

LEMMA SpikeInvariant == SpikeSpec => []SpikeInv
<1>1. SpikeInit => SpikeInv
  <2> SUFFICES ASSUME SpikeInit PROVE SpikeInv
    OBVIOUS
  <2>1. failures = <<>> /\ DOMAIN failures = {} /\ failures \in Seq(Failure)
    BY DEF SpikeInit
  <2>2. SpikeTypeOK
    BY <2>1 DEF SpikeInit, SpikeTypeOK
  <2>3. CountersHold
    <3>1. \A i \in Instance, k \in FailureKey : WindowHolds(i, k)
      BY <2>1 DEF SpikeInit, WindowHolds, SinceAlarm, OfWindow
    <3>2. \A k \in FailureKey : OfKey(k) = {}
      BY <2>1 DEF OfKey
    <3>3. \A k \in FailureKey : failureCount[k].count = 0 /\ failureCount[k].expires = 0
      BY DEF SpikeInit
    <3>4. Cardinality({}) = 0 /\ moment = 0 /\ AUTH_SPIKE_WINDOW \in Nat
      BY FS_EmptySet, SpikeAssumption DEF SpikeInit
    <3> QED BY <3>1, <3>2, <3>3, <3>4 DEF CountersHold
  <2>4. AlarmsRight
    BY <2>1 DEF AlarmsRight
  <2> QED BY <2>2, <2>3, <2>4 DEF SpikeInv
<1>2. SpikeInv /\ [SpikeNext]_spikeVars => SpikeInv'
  <2> SUFFICES ASSUME SpikeInv, [SpikeNext]_spikeVars PROVE SpikeInv'
    OBVIOUS
  <2>1. ASSUME NEW i \in Instance, Deny401(i) \/ Deny403(i)
        PROVE  SpikeInv'
    <3>1. \E k \in FailureKey : NoteAuthFailure(i, k)
      BY <2>1 DEF Deny401, Deny403, FailureKey
    <3> QED BY <3>1, NotesKeepInv
  <2>2. ASSUME NEW a \in 1 .. MaxFailures, EmitAnomaly(a)
        PROVE  SpikeInv'
    BY <2>2, EmittingKeepsInv
  <2>3. CASE MomentPasses
    BY <2>3, TimeKeepsInv
  <2>4. CASE UNCHANGED spikeVars
    <3>1. UNCHANGED <<spikeBackend, moment, failureWindow, failureCount, failures, forgotten, pending, raised>>
      BY <2>4 DEF spikeVars
    <3>2. SpikeTypeOK'
      BY <3>1 DEF SpikeInv, SpikeTypeOK
    <3> QED BY <3>1, <3>2, CountersStay, AlarmsStay DEF SpikeInv
  <2> QED BY <2>1, <2>2, <2>3, <2>4 DEF SpikeNext
<1> QED BY <1>1, <1>2, PTL DEF SpikeSpec

(* Every anomaly event that is written, or is to be, is of a failure that    *)
(* completes a burst of at least the threshold within the window, counted    *)
(* anew since the last alarm that was cleared; and a replica's memory lets   *)
(* no burst pass unless the cap dropped its window (_note_auth_failure,      *)
(* _prune_auth_failure_window): for any number of replicas and clients, any  *)
(* threshold, window, prune period and cap.                                  *)
THEOREM AlarmsTellBursts == SpikeSpec => []AlarmsAreBursts
<1>1. SpikeInv => AlarmsAreBursts
  <2> SUFFICES ASSUME SpikeTypeOK, AlarmsRight PROVE AlarmsAreBursts
    BY DEF SpikeInv
  <2>1. \A a \in raised \cup pending : a \in DOMAIN failures /\ failures[a].alarm
    BY DEF SpikeTypeOK
  <2>2. \A a \in raised \cup pending : AlarmIsBurst(a)
    BY <2>1 DEF AlarmsRight
  <2>3. \A a \in DOMAIN failures : ~failures[a].alarm => NoBurstPassed(a)
    BY DEF AlarmsRight
  <2>4. \A a \in raised \cup pending :
         /\ failures[a].alarm /\ Cardinality(Burst(a, 0)) >= AUTH_SPIKE_THRESHOLD
         /\ \A b \in 1 .. a - 1 :
              SameCounter(a, b) /\ failures[b].alarm /\ failures[b].cleared
                => Cardinality(Burst(a, b)) >= AUTH_SPIKE_THRESHOLD
    BY <2>1, <2>2 DEF AlarmIsBurst
  <2>5. ASSUME NEW a \in DOMAIN failures, spikeBackend = "memory", ~failures[a].alarm,
               <<failures[a].instance, failures[a].key>> \notin forgotten
        PROVE  \E b \in 0 .. a - 1 : /\ b = 0 \/ (failures[b].alarm /\ SameCounter(a, b))
                                     /\ Cardinality(Burst(a, b)) < AUTH_SPIKE_THRESHOLD
    BY <2>3, <2>5 DEF NoBurstPassed
  <2> QED BY <2>4, <2>5 DEF AlarmsAreBursts
<1> QED BY <1>1, SpikeInvariant, PTL
=============================================================================
