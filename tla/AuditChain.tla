------------------------------ MODULE AuditChain ------------------------------
(***************************************************************************)
(* The hash-chained audit log (av_server/database.py::_chain_audit_log,    *)
(* audit_chain.py, server.py's _audit, prune and verify, and the offline   *)
(* av_cli/audit_chain_verify.py). A chain hash is modelled by the id whose *)
(* hash it was computed from: hashes of different rows differ.             *)
(***************************************************************************)
EXTENDS Integers, FiniteSets

CONSTANTS
    TenantRequest,      \* sessions of HTTP requests
    Background,   \* sessions that bypass row-level security: retry worker, collection
    Tenant,
    DefaultTenant,
    TenantOf,     \* TenantOf[s]: the tenant of the identity behind a request
    MaxAudit,     \* bound: ids of audit rows
    MaxTampers    \* bound: rows edited or deleted behind the server's back

ASSUME AuditAssumption ==
    /\ TenantOf \in [TenantRequest -> Tenant] /\ DefaultTenant \in Tenant
    /\ MaxAudit \in Nat /\ MaxTampers \in Nat

VARIABLES
    enforce,    \* AV_TENANCY_ENFORCE, read once when the registry starts
    auditId,    \* the last id drawn
    audit,      \* audit[i]: committed rows, a function of their ids
    flushed,    \* flushed[s]: rows flushed by the open transaction of s
    holder,     \* the session that holds the advisory lock, or Nobody
    prunedTo,   \* history: rows up to here were pruned by retention
    mixed,      \* history: a background session has appended a row
    broken,     \* history: ids of rows edited or deleted while they had a successor
    tampers

auditVars == <<enforce, auditId, audit, flushed, holder, prunedTo, mixed, broken, tampers>>

AuditSession == TenantRequest \cup Background
Nobody == "nobody"
None == 0                   \* the prev_hash of the first row

ASSUME SessionAssumption == TenantRequest \cap Background = {} /\ Nobody \notin AuditSession

AuditInit ==
    /\ enforce \in BOOLEAN
    /\ auditId = 0 /\ audit = <<>>
    /\ flushed = [s \in AuditSession |-> <<>>]
    /\ holder = Nobody
    /\ prunedTo = [t \in Tenant |-> 0]
    /\ mixed = FALSE /\ broken = {} /\ tampers = 0

(* _populate_tenant_id: rows of a session without a tenant are the default's. *)
RowTenant(s) == IF s \in TenantRequest THEN TenantOf[s] ELSE DefaultTenant

(* Rows of a log, and those of another one. *)
Joined(new, rows) ==
    [i \in DOMAIN new \cup DOMAIN rows |-> IF i \in DOMAIN new THEN new[i] ELSE rows[i]]

(* Row-level security: what a session of tenant t, or one that bypasses, sees. *)
Sees(rows, t) == {i \in DOMAIN rows : enforce => rows[i].tenant = t}
Visible(s) == LET rows == Joined(flushed[s], audit) IN
    IF s \in Background THEN DOMAIN rows ELSE Sees(rows, TenantOf[s])

Greatest(S) == IF S = {} THEN None ELSE CHOOSE i \in S : \A j \in S : j <= i

(* before_flush with a new audit row: the advisory lock of the transaction,   *)
(* then the last row by id, read from what is committed by now, then the      *)
(* INSERT. The variant takes no lock.                                         *)
MayChainUnlocked(s) == TRUE
MayChain(s) == holder \in {Nobody, s}

LastRow(s) == Greatest(Visible(s))
NewRow(s) == [tenant |-> RowTenant(s), prev |-> LastRow(s), edited |-> FALSE]

AppendAudit(s) ==
    /\ MayChain(s) /\ auditId < MaxAudit
    /\ holder' = s
    /\ auditId' = auditId + 1
    /\ flushed' = [flushed EXCEPT ![s] = [i \in DOMAIN @ \cup {auditId + 1} |->
         IF i = auditId + 1 THEN NewRow(s) ELSE @[i]]]
    /\ mixed' = (mixed \/ s \in Background)
    /\ UNCHANGED <<enforce, audit, prunedTo, broken, tampers>>

(* Commit and rollback release the lock; ids of a rollback are not reused.    *)
CommitAudit(s) ==
    /\ flushed[s] # <<>>
    /\ audit' = Joined(flushed[s], audit)
    /\ flushed' = [flushed EXCEPT ![s] = <<>>]
    /\ holder' = IF holder = s THEN Nobody ELSE holder
    /\ UNCHANGED <<enforce, auditId, prunedTo, mixed, broken, tampers>>

RollbackAudit(s) ==
    /\ flushed[s] # <<>>
    /\ flushed' = [flushed EXCEPT ![s] = <<>>]
    /\ holder' = IF holder = s THEN Nobody ELSE holder
    /\ UNCHANGED <<enforce, auditId, audit, prunedTo, mixed, broken, tampers>>

Keep(ids) == [i \in ids |-> audit[i]]

(* prune_audit_log and the collector's sweep: the committed rows that the     *)
(* session sees and that are older than a cutoff; committed on its own, the   *)
(* row that records the pruning follows in the next transaction.              *)
PruneAudit(s) ==
    \E cutoff \in 1 .. auditId :
        LET seen == IF s \in Background THEN DOMAIN audit ELSE Sees(audit, TenantOf[s])
            old == {i \in seen : i <= cutoff} IN
        /\ flushed[s] = <<>> /\ old # {}
        /\ audit' = Keep(DOMAIN audit \ old)
        /\ prunedTo' = [t \in Tenant |->
             IF enforce /\ s \in TenantRequest /\ t # TenantOf[s] THEN prunedTo[t]
             ELSE IF cutoff > prunedTo[t] THEN cutoff ELSE prunedTo[t]]
        /\ UNCHANGED <<enforce, auditId, flushed, holder, mixed, broken, tampers>>

(* Somebody with access to the database edits a row or deletes one.           *)
Tamper ==
    \E i \in DOMAIN audit :
        /\ tampers < MaxTampers
        /\ tampers' = tampers + 1
        /\ \/ /\ audit' = [audit EXCEPT ![i].edited = TRUE]
              /\ broken' = broken \cup {i}
           \/ /\ audit' = Keep(DOMAIN audit \ {i})
              /\ broken' = IF \E j \in DOMAIN audit : j > i /\ audit[j].prev = i
                           THEN broken \cup {i} ELSE broken
        /\ UNCHANGED <<enforce, auditId, flushed, holder, prunedTo, mixed>>

AuditNext ==
    \/ \E s \in AuditSession :
         AppendAudit(s) \/ CommitAudit(s) \/ RollbackAudit(s) \/ PruneAudit(s)
    \/ Tamper

AuditSpec == AuditInit /\ [][AuditNext]_auditVars

-----------------------------------------------------------------------------
(* Verification. *)

(* The walk of verify_audit_chain and of verify_export: rows in the order of  *)
(* ids, each recomputed from the hash of the one before.                      *)
ChainOk(ids, from) ==
    \A i \in ids :
        /\ ~audit[i].edited
        /\ audit[i].prev = Greatest({j \in ids : j < i} \cup {from})

(* GET /api/admin/audit/verify?since_id=from by tenant t.                     *)
Verify(t, from) == ChainOk({i \in Sees(audit, t) : i > from}, from)

(* av audit verify --export: the exported rows, from the first one.           *)
VerifyExport(t) == ChainOk(Sees(audit, t), None)

-----------------------------------------------------------------------------
AuditTypeOK ==
    /\ auditId \in 0 .. MaxAudit
    /\ DOMAIN audit \subseteq 1 .. auditId
    /\ \A i \in DOMAIN audit : /\ audit[i].tenant \in Tenant
                               /\ audit[i].prev \in 0 .. i - 1
    /\ holder \in AuditSession \cup {Nobody}
    /\ \A s \in AuditSession : flushed[s] # <<>> => holder = s

(* The lock is there so that two requests do not fork "off the same prior     *)
(* hash". Whatever the interleaving of appends, commits, rollbacks and        *)
(* prunings, an untampered log verifies from every row that is retained, and  *)
(* from its start while nothing was pruned. The exception: with tenancy       *)
(* enforced, background sessions chain rows of the default tenant to rows     *)
(* that its own sessions do not see.                                          *)
ChainVerifies ==
    \A t \in Tenant :
        tampers = 0 /\ ~(enforce /\ mixed /\ t = DefaultTenant) =>
            /\ \A i \in Sees(audit, t) : Verify(t, i)
            /\ prunedTo[t] = 0 => VerifyExport(t)

(* audit_chain.py: "deleting or editing any row breaks every chain_hash from  *)
(* that point forward". As long as nothing was pruned, no later append ever   *)
(* repairs the chain: a row that was edited, or deleted once it had a         *)
(* successor, makes the walk from the start fail for ever, unless somebody    *)
(* also deletes everything from it on.                                        *)
TamperingShows ==
    \A t \in Tenant : \A i \in broken :
        /\ ~enforce /\ prunedTo[t] = 0
        /\ \E j \in DOMAIN audit : j >= i /\ (j = i \/ audit[j].prev = i)
        => ~VerifyExport(t)

(* The verdict of a verification is true: of an untampered log that it is    *)
(* whole, of a tampered one that it is not.                                   *)
ChainTells == ChainVerifies /\ TamperingShows
=============================================================================
