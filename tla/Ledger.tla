------------------------------- MODULE Ledger -------------------------------
(***************************************************************************)
(* What a budget account promises its consumers (consume_budget in         *)
(* python/av_server/server.py): the counters are the sum of the recorded   *)
(* amounts, none is lost or counted twice, and the consumer that records   *)
(* one is told, in the same step, which limits the account now exceeds.    *)
(* An amount may be negative: the handler takes any.                       *)
(***************************************************************************)
EXTENDS Integers

CONSTANTS
    Consumer,
    Dim,        \* the dimensions of a budget
    Limit,      \* Limit[d]: a limit, or NoLimit
    NoLimit,    \* an unset column
    Spend       \* the amounts a consumer may record

VARIABLES
    spent,      \* spent[d]: the counter of dimension d
    verdict     \* verdict[c]: the dimensions last reported to c as exceeded

ledgerVars == <<spent, verdict>>

Exceeded(counters) == {d \in Dim : Limit[d] # NoLimit /\ counters[d] > Limit[d]}

LedgerInit ==
    /\ spent = [d \in Dim |-> 0]
    /\ verdict = [c \in Consumer |-> {}]

Record(c, s) ==
    /\ spent' = [d \in Dim |-> spent[d] + s[d]]
    /\ verdict' = [verdict EXCEPT ![c] = Exceeded(spent')]

LedgerNext == \E c \in Consumer, s \in Spend : Record(c, s)

LedgerSpec == LedgerInit /\ [][LedgerNext]_ledgerVars
=============================================================================
