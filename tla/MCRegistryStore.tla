---------------------------- MODULE MCRegistryStore ----------------------------
(* Small registries for TLC: two objects, two nested trees, two commits that  *)
(* share a subtree, or one commit that carries an env snapshot.               *)
EXTENDS RegistryStore, TLC

CONSTANTS o1, o2, t1, t2, c1, c2

(* c1 is the tree t1 = {o1}; c2 is t2 = {o2} with the subdirectory t1. *)
SharedLeaves == [t \in Tree |-> IF t = t1 THEN {o1} ELSE {o2}]
SharedKids == [t \in Tree |-> IF t = t1 THEN {} ELSE {t1}]
SharedRoot == [c \in Commit |-> IF c = c1 THEN t1 ELSE t2]
(* Every commit is the one tree t1. *)
SameRoot == [c \in Commit |-> t1]

NoExtra == [c \in Commit |-> {}]

(* c1 carries the env snapshot o2. *)
EnvExtra == [c \in Commit |-> {o2}]
=============================================================================
