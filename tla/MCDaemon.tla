------------------------------- MODULE MCDaemon --------------------------------
(****************************************************************************)
(* Small instances of Daemon for TLC.                                       *)
(****************************************************************************)
EXTENDS Daemon

CONSTANTS w1, p1   \* the process, and the one profile

\* Record 2 carries an id of the real base that the in-memory store would mint
\* for somebody else.
SecondBound == [d \in Ids |-> IF d = 2 THEN 1 ELSE 0]

OnTime == 0
================================================================================
