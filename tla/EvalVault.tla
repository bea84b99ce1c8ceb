------------------------------ MODULE EvalVault ------------------------------
(***************************************************************************)
(* Evaluation suites and the scores recorded against them                  *)
(* (src/python/av_server/server.py, src/python/av_cli/cmd_eval.py).        *)
(* A suite may be frozen, and may be blind: a score against a blind suite  *)
(* is withheld from readers without the scorer scope until it is revealed. *)
(* A handler reads its suite, waits for the database, and commits later.   *)
(***************************************************************************)
EXTENDS Naturals, Sequences, SequencesExt

CONSTANTS
    Suite,        \* suite ids
    Definition,   \* suite objects that were uploaded
    Client,       \* callers, each with one request at a time
    MaxScores     \* bound: scores recorded

ASSUME EvalAssumption == MaxScores \in Nat

VARIABLES
    suites,       \* [Suite -> NoSuite or its row]
    requests,     \* [Client -> NoUpdate, or what its handler has read]
    results,      \* result rows by id: [suite, revealed, blind]; blind is what
                  \* the scoring handler had read
    revealed,     \* ids a scorer has revealed
    shown         \* ids whose score a reader without the scorer scope has seen

evalVars == <<suites, requests, results, revealed, shown>>

NoSuite == [object |-> "none", blind |-> FALSE, frozen |-> FALSE]
NoUpdate == [op |-> "none"]
Known == {s \in Suite : suites[s] # NoSuite}
SuiteRow == {NoSuite} \union [object : Definition, blind : BOOLEAN, frozen : BOOLEAN]

EvalInit ==
    /\ suites = [s \in Suite |-> NoSuite]
    /\ requests = [c \in Client |-> NoUpdate]
    /\ results = <<>> /\ revealed = {} /\ shown = {}

Asks(c, request) == requests[c] = NoUpdate /\ requests' = [requests EXCEPT ![c] = request]
Answers(c) == requests' = [requests EXCEPT ![c] = NoUpdate]

-----------------------------------------------------------------------------
(* POST /api/eval/suites: a known id is answered "exists".                    *)
RegisterSuite(s, object, blind) ==
    /\ s \notin Known
    /\ suites' = [suites EXCEPT ![s] = [object |-> object, blind |-> blind, frozen |-> FALSE]]
    /\ UNCHANGED <<requests, results, revealed, shown>>

(* PUT /api/eval/suites/{id}: a frozen row is refused with 409; the row that  *)
(* was read is then changed and committed, only the columns that differ from  *)
(* what was read are written.                                                 *)
BeginUpdate(c, s, object, blind) ==
    /\ s \in Known /\ ~suites[s].frozen
    /\ Asks(c, [op |-> "update", suite |-> s, read |-> suites[s], object |-> object,
                blind |-> blind])
    /\ UNCHANGED <<suites, results, revealed, shown>>

Column(now, read, new) == IF new # read THEN new ELSE now
CommitUpdate(c) ==
    /\ requests[c].op = "update"
    /\ LET r == requests[c]
       IN suites' = [suites EXCEPT
            ![r.suite].object = Column(@, r.read.object, r.object),
            ![r.suite].blind = Column(@, r.read.blind, r.blind)]
    /\ Answers(c)
    /\ UNCHANGED <<results, revealed, shown>>

(* POST /api/eval/suites/{id}/freeze; nothing unfreezes a suite.              *)
FreezeSuite(s) ==
    /\ s \in Known
    /\ suites' = [suites EXCEPT ![s].frozen = TRUE]
    /\ UNCHANGED <<requests, results, revealed, shown>>

-----------------------------------------------------------------------------
(* POST /api/eval/results, with the scorer scope: whether the score is        *)
(* revealed is settled by the suite as it was read.                           *)
BeginScore(c, s) ==
    /\ s \in Known
    /\ Asks(c, [op |-> "score", suite |-> s, blind |-> suites[s].blind])
    /\ UNCHANGED <<suites, results, revealed, shown>>

CommitScore(c) ==
    /\ requests[c].op = "score" /\ Len(results) < MaxScores
    /\ results' = Append(results, [suite |-> requests[c].suite, blind |-> requests[c].blind,
                                   revealed |-> ~requests[c].blind])
    /\ Answers(c)
    /\ UNCHANGED <<suites, revealed, shown>>

RevealScore(i) ==
    /\ i \in DOMAIN results
    /\ results' = [results EXCEPT ![i].revealed = TRUE]
    /\ revealed' = revealed \union {i}
    /\ UNCHANGED <<suites, requests, shown>>

(* GET /api/eval/results without the scorer scope. The variant withholds what *)
(* belongs to a suite that is blind now.                                      *)
RedactedBySuite(row) == suites[row.suite].blind
Redacted(row) == ~row.revealed
ListScores ==
    /\ shown' = shown \union {i \in DOMAIN results : ~Redacted(results[i])}
    /\ UNCHANGED <<suites, requests, results, revealed>>

EvalNext ==
    \/ \E s \in Suite, o \in Definition, b \in BOOLEAN :
          \/ RegisterSuite(s, o, b)
          \/ \E c \in Client : BeginUpdate(c, s, o, b)
    \/ \E c \in Client : CommitUpdate(c) \/ CommitScore(c) \/ \E s \in Suite : BeginScore(c, s)
    \/ \E s \in Suite : FreezeSuite(s)
    \/ \E i \in 1..MaxScores : RevealScore(i)
    \/ ListScores

EvalSpec == EvalInit /\ [][EvalNext]_evalVars

-----------------------------------------------------------------------------
EvalTypeOK ==
    /\ suites \in [Suite -> SuiteRow]
    /\ \A c \in Client : requests[c].op \in {"none", "update", "score"}
    /\ revealed \union shown \subseteq DOMAIN results /\ Len(results) <= MaxScores

(* A score recorded while its suite was blind stays hidden from readers       *)
(* without the scorer scope until a scorer reveals it, whatever is made of    *)
(* the suite afterwards.                                                      *)
BlindScoresStayHidden == \A i \in shown : results[i].blind => i \in revealed

(* The update route's docstring (server.py): "Rejects ANY mutation of a frozen*)
(* suite with 409". An update that read the suite before it was frozen may    *)
(* commit afterwards.                                                         *)
FrozenStaysPut ==
    [][\A s \in Suite : suites[s].frozen => suites'[s] = suites[s]]_evalVars
=============================================================================
