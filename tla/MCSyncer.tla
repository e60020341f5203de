------------------------------- MODULE MCSyncer --------------------------------
(****************************************************************************)
(* Small instances of Syncer for TLC.                                       *)
(****************************************************************************)
EXTENDS SyncerInvariant, Promises

CONSTANTS w1, w2   \* worker replicas
CONSTANT p1        \* the profile

\* No record of the directory carries an externalId yet.
NoneBound == [d \in Ids |-> 0]

\* Each record carries the id of its own helpper, when the base knows it, except
\* that record 3 carries none.
ThirdUnbound == [d \in Ids |-> IF d \in Known \ {3} THEN d ELSE 0]

\* Record 1 carries the id of the helpper of record 2.
FirstSwapped == [d \in Ids |-> IF d = 1 THEN 2 ELSE 0]

\* The local clock is right, or one unit slow.
OnTime == 0
Slow == -1

\* Any number of unusable records.
NoLimit == -1

WorkerSymmetry == {[w \in Workers |-> w],
                   [w \in Workers |-> IF w = w1 THEN w2 ELSE w1]}
================================================================================
