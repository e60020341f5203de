-------------------------------- MODULE Migrate --------------------------------
(****************************************************************************)
(* The schema migrations of store/postgres/migrate.go: processes that start *)
(* at the same moment bring one database up to date.  Each takes a session  *)
(* lock on one connection and, on that same connection, applies the files   *)
(* that are not recorded yet, in order, each in a transaction of its own.   *)
(****************************************************************************)
EXTENDS Integers

CONSTANTS
    Procs,      \* processes that call Migrate
    NumFiles,   \* the migration files, numbered in sorted order
    MaxFaults   \* bound on failures

ASSUME MigrateAssumption == NumFiles \in Nat /\ MaxFaults \in Nat

Files == 1 .. NumFiles

VARIABLES
    lock,      \* the processes whose session holds the advisory lock
    versions,  \* the files recorded in schema_migrations
    effects,   \* how many times each file took effect on the schema
    pc,        \* where each process is
    file,      \* the file it is at
    faults     \* failures so far

vars == <<lock, versions, effects, pc, file, faults>>

Working == {"check", "apply", "record", "commit"}

Places == Working \cup {"start", "done"}

\* Every variable has its type; a process is never past the end of the list.
MigrateTypeOK ==
    /\ lock \in SUBSET Procs
    /\ versions \in SUBSET Files
    /\ effects \in [Files -> Nat]
    /\ pc \in [Procs -> Places]
    /\ file \in [Procs -> 1 .. NumFiles + 1]
    /\ faults \in Nat

Init ==
    /\ lock = {}
    /\ versions = {}
    /\ effects = [f \in Files |-> 0]
    /\ pc = [p \in Procs |-> "start"]
    /\ file = [p \in Procs |-> 1]
    /\ faults = 0

Goto(p, place) == pc' = [pc EXCEPT ![p] = place]

--------------------------------------------------------------------------------
\* Mutant: the lock is tried, and its answer is not looked at.
TakeLockAnyway(p) ==
    /\ pc[p] = "start"
    /\ lock' = lock \cup {p}
    /\ Goto(p, "check")
    /\ file' = [file EXCEPT ![p] = 1]
    /\ UNCHANGED <<versions, effects, faults>>

\* Takes the lock, waiting for it; then the table of versions is created if
\* there is none.
TakeLock(p) ==
    /\ pc[p] = "start"
    /\ lock = {}
    /\ lock' = {p}
    /\ Goto(p, "check")
    /\ file' = [file EXCEPT ![p] = 1]
    /\ UNCHANGED <<versions, effects, faults>>

\* The version is looked up.
Check(p) ==
    /\ pc[p] = "check"
    /\ file[p] \in Files
    /\ IF file[p] \in versions
       THEN file' = [file EXCEPT ![p] = @ + 1] /\ UNCHANGED pc
       ELSE Goto(p, "apply") /\ UNCHANGED file
    /\ UNCHANGED <<lock, versions, effects, faults>>

\* Mutant: the body of the file runs outside the transaction.
ApplyAtOnce(p) ==
    /\ pc[p] = "apply"
    /\ Goto(p, "record")
    /\ effects' = [effects EXCEPT ![file[p]] = @ + 1]
    /\ UNCHANGED <<lock, versions, file, faults>>

\* A transaction begins and runs the body of the file; nobody else sees it yet.
Apply(p) ==
    /\ pc[p] = "apply"
    /\ Goto(p, "record")
    /\ UNCHANGED <<lock, versions, effects, file, faults>>

\* The session gives the lock back, also when ctx is done.
Unlock(p) == lock' = lock \ {p}

\* The version is inserted in the same transaction; a version that is there
\* already violates the primary key, and Migrate fails.
Record(p) ==
    /\ pc[p] = "record"
    /\ IF file[p] \in versions
       THEN Goto(p, "start") /\ Unlock(p)
       ELSE Goto(p, "commit") /\ UNCHANGED lock
    /\ UNCHANGED <<versions, effects, file, faults>>

\* The transaction takes effect.
Committed(p) ==
    /\ versions' = versions \cup {file[p]}
    /\ effects' = [effects EXCEPT ![file[p]] = @ + 1]

Commit(p) ==
    /\ pc[p] = "commit"
    /\ Committed(p)
    /\ Goto(p, "check")
    /\ file' = [file EXCEPT ![p] = @ + 1]
    /\ UNCHANGED <<lock, faults>>

\* Every file has been seen.
Finish(p) ==
    /\ pc[p] = "check"
    /\ file[p] = NumFiles + 1
    /\ Goto(p, "done")
    /\ Unlock(p)
    /\ UNCHANGED <<versions, effects, file, faults>>

--------------------------------------------------------------------------------
Fault == faults < MaxFaults /\ faults' = faults + 1

\* Mutant: the lock stays with a connection that goes back to the pool.
FailLocked(p) ==
    /\ pc[p] \in Working
    /\ Fault
    /\ Goto(p, "start")
    /\ UNCHANGED <<lock, versions, effects, file>>

\* Mutant: a file that fails is skipped.
FailContinue(p) ==
    /\ pc[p] \in {"apply", "record", "commit"}
    /\ Fault
    /\ Goto(p, "check")
    /\ file' = [file EXCEPT ![p] = @ + 1]
    /\ UNCHANGED <<lock, versions, effects>>

\* Mutant: an error is swallowed, and Migrate reports success.
FailSilently(p) ==
    /\ pc[p] \in Working
    /\ Fault
    /\ Goto(p, "done")
    /\ Unlock(p)
    /\ UNCHANGED <<versions, effects, file>>

\* A statement fails, the connection is lost or the process dies: the open
\* transaction is rolled back, the lock is given back, by Migrate or by the
\* database, and the process starts again.
Fail(p) ==
    /\ pc[p] \in Working
    /\ Fault
    /\ Goto(p, "start")
    /\ Unlock(p)
    /\ UNCHANGED <<versions, effects, file>>

\* The commit takes effect and its answer is lost: Migrate reports a failure.
LoseCommit(p) ==
    /\ pc[p] = "commit"
    /\ Fault
    /\ Committed(p)
    /\ Goto(p, "start")
    /\ Unlock(p)
    /\ UNCHANGED file

Step(p) ==
    TakeLock(p) \/ Check(p) \/ Apply(p) \/ Record(p) \/ Commit(p) \/ Finish(p)

Next == \E p \in Procs : Step(p) \/ Fail(p) \/ LoseCommit(p)

Spec == Init /\ [][Next]_vars

\* A process that can go on does; one that failed is started again.  No order
\* is asked of the sessions that wait for the lock.
FairSpec == Spec /\ \A p \in Procs : WF_vars(Step(p))

--------------------------------------------------------------------------------
\* A file takes effect exactly once, and is recorded exactly then, however many
\* processes migrate and wherever they die or lose the answer of a commit.
OnceEach == \A f \in Files : effects[f] = IF f \in versions THEN 1 ELSE 0

\* Files take effect in their order: none is recorded before an earlier one.
InOrder == \A f \in versions : \A g \in Files : g < f => g \in versions

\* Two processes never work on the same file: nobody's insert meets a version
\* that another recorded after the lookup.
NoCollision ==
    \A p \in Procs : pc[p] \in {"apply", "record", "commit"} => file[p] \notin versions

\* Whoever's Migrate returned without an error found the schema up to date, the
\* files that others applied while it waited included.
DoneMeansMigrated == \A p \in Procs : pc[p] = "done" => versions = Files

\* Everybody's Migrate returns with the schema up to date once failures stop.
EveryoneMigrates == <>[](versions = Files /\ \A p \in Procs : pc[p] = "done")
================================================================================
