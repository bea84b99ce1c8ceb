------------------------------- MODULE MCRefSync -------------------------------
(* Small instances of RefSync for TLC: one or two clones, one or two        *)
(* processes in each.                                                       *)
EXTENDS RefSync, TLC

CONSTANTS A, B, pa, pb, pw

(* pa and pw run in the clone A, pb in B. *)
HomeOf == [p \in Proc |-> IF p = pb THEN B ELSE A]
=============================================================================
