---------------------------- MODULE MCPromotion ----------------------------
(***************************************************************************)
(* A small instance of Promotion: two branches, one policy on the loss.    *)
(***************************************************************************)
EXTENDS Promotion

(* The candidate's loss must be below that of the baseline, main.            *)
PolicyDef == {[metric |-> TRUE, op |-> "<", baseline |-> "main", hops |-> 0, threshold |-> 0,
               require_signature |-> FALSE]}
=============================================================================
