------------------------------- MODULE MCClient --------------------------------
(****************************************************************************)
(* A small instance of Client for TLC.                                      *)
(****************************************************************************)
EXTENDS Client

CONSTANTS c1, c2   \* calls
================================================================================
