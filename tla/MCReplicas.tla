------------------------------ MODULE MCReplicas -------------------------------
(****************************************************************************)
(* A small instance of Replicas for TLC: two processes serve partner q1, one *)
(* of them partner q2 as well.                                              *)
(****************************************************************************)
EXTENDS Replicas

CONSTANTS m1, m2       \* processes
CONSTANTS q1, q2       \* partners
CONSTANTS c1, c2, c3   \* callers
CONSTANT p1            \* the profile

Processes == [c \in Callers |-> IF c = c3 THEN m2 ELSE m1]
Serving == [c \in Callers |-> IF c = c2 THEN q2 ELSE q1]
================================================================================
