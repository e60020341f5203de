----------------------------- MODULE MCConformance ------------------------------
(****************************************************************************)
(* A small instance of Conformance for TLC.                                 *)
(****************************************************************************)
EXTENDS Conformance

CONSTANTS p1   \* a profile

NoneBound == [d \in Ids |-> 0]
================================================================================
