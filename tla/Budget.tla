------------------------------- MODULE Budget -------------------------------
(***************************************************************************)
(* A budget account of the registry (python/av_server/server.py,           *)
(* create_budget and consume_budget) and the consumers that record spend   *)
(* with "av budget consume" (python/av_cli/cmd_budget.py).                  *)
(***************************************************************************)
EXTENDS Integers

CONSTANTS Consumer, Dim, Limit, NoLimit, Spend,     \* see Ledger
          MaxCalls                                  \* bound: requests

ASSUME BudgetAssumption ==
    /\ NoLimit \notin Int
    /\ Limit \in [Dim -> Int \cup {NoLimit}]
    /\ Spend \subseteq [Dim -> Int]
    /\ MaxCalls \in Nat

VARIABLES
    used,       \* used[d]: the counters of the DBBudget row
    tx,         \* tx[c]: the open request of c: see BudgetTypeOK
    verdict,    \* verdict[c]: what the last committed request of c answers
    exit,       \* exit[c]: how the last command of c ended
    calls       \* requests so far

budgetVars == <<used, tx, verdict, exit, calls>>

Idle == [state |-> "idle"]

BudgetInit ==
    /\ used = [d \in Dim |-> 0]
    /\ tx = [c \in Consumer |-> Idle]
    /\ verdict = [c \in Consumer |-> {}]
    /\ exit = [c \in Consumer |-> "none"]
    /\ calls = 0

(* _budget_exceeded_dims: spending up to a limit is within it.               *)
ExceededDims(row) == {d \in Dim : Limit[d] # NoLimit /\ row[d] > Limit[d]}

(* "av budget consume" sends its request.                                    *)
Consume(c) ==
    /\ tx[c] = Idle /\ calls < MaxCalls
    /\ \E s \in Spend : tx' = [tx EXCEPT ![c] = [state |-> "sent", spend |-> s]]
    /\ calls' = calls + 1
    /\ UNCHANGED <<used, verdict, exit>>

(* SELECT ... FOR UPDATE: the row is locked from the read to the commit. The *)
(* variant reads it without the lock.                                        *)
MayReadUnlocked(c) == TRUE
MayRead(c) == \A b \in Consumer : tx[b].state # "locked"

ReadRow(c) ==
    /\ tx[c].state = "sent" /\ MayRead(c)
    /\ tx' = [tx EXCEPT ![c] = [state |-> "locked", spend |-> @.spend, read |-> used]]
    /\ UNCHANGED <<used, verdict, exit, calls>>

(* The amounts, of whichever sign the request has (nothing checks it), are   *)
(* added, and the answer is computed, before the commit that makes both      *)
(* durable.                                                                  *)
CommitSpend(c) ==
    /\ tx[c].state = "locked"
    /\ used' = [d \in Dim |-> tx[c].read[d] + tx[c].spend[d]]
    /\ verdict' = [verdict EXCEPT ![c] = ExceededDims(used')]
    /\ tx' = [tx EXCEPT ![c] = [state |-> "done"]]
    /\ UNCHANGED <<exit, calls>>

(* The request fails before its commit. *)
RollbackSpend(c) ==
    /\ tx[c].state \in {"sent", "locked"}
    /\ tx' = [tx EXCEPT ![c] = Idle]
    /\ exit' = [exit EXCEPT ![c] = "error"]
    /\ UNCHANGED <<used, verdict, calls>>

(* The command exits 17 when the answer names a dimension; the answer may be *)
(* lost on the way, and nothing is retried.                                   *)
Finish(c) ==
    /\ tx[c].state = "done"
    /\ \/ exit' = [exit EXCEPT ![c] = IF verdict[c] = {} THEN "ok" ELSE "exhausted"]
       \/ exit' = [exit EXCEPT ![c] = "error"]
    /\ tx' = [tx EXCEPT ![c] = Idle]
    /\ UNCHANGED <<used, verdict, calls>>

BudgetNext ==
    \E c \in Consumer :
        Consume(c) \/ ReadRow(c) \/ CommitSpend(c) \/ RollbackSpend(c) \/ Finish(c)

BudgetSpec == BudgetInit /\ [][BudgetNext]_budgetVars

-----------------------------------------------------------------------------
Request ==
    {Idle} \cup [state : {"sent"}, spend : Spend]
           \cup [state : {"locked"}, spend : Spend, read : [Dim -> Int]]
           \cup {[state |-> "done"]}

BudgetTypeOK ==
    /\ used \in [Dim -> Int]
    /\ \A c \in Consumer : tx[c] \in Request
    /\ DOMAIN tx = Consumer
    /\ verdict \in [Consumer -> SUBSET Dim]
    /\ exit \in [Consumer -> {"none", "ok", "exhausted", "error"}]
    /\ calls \in 0 .. MaxCalls

(* What a transaction that holds the row read is still in the row. *)
LockedRowIsCurrent ==
    /\ \A c \in Consumer : tx[c].state = "locked" => tx[c].read = used
    /\ \A b, c \in Consumer : tx[b].state = "locked" /\ tx[c].state = "locked" => b = c

(* The account implements the promise of Ledger: no spend is lost, whatever   *)
(* requests overlap, and the answer of the request that crosses a limit names  *)
(* it: the caller reacts "in the SAME round trip that recorded the spend".    *)
Promise == INSTANCE Ledger WITH spent <- used, verdict <- verdict
LedgerKept == Promise!LedgerSpec

(* consume_budget's docstring: it "Increments usage counters (never           *)
(* decrements)". The handler adds an amount of either sign.                   *)
NeverDecrements == [][\A d \in Dim : used'[d] >= used[d]]_budgetVars
=============================================================================
