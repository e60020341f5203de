------------------------------- MODULE MCMigrate -------------------------------
(****************************************************************************)
(* A small instance of Migrate for TLC.                                     *)
(****************************************************************************)
EXTENDS Migrate

CONSTANTS m1, m2, m3   \* processes
================================================================================
