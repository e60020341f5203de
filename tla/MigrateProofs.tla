----------------------------- MODULE MigrateProofs -----------------------------
(****************************************************************************)
(* Migrate is correct for any number of processes, files and failures.      *)
(****************************************************************************)
EXTENDS Migrate, TLAPS

\* Whoever works holds the lock, alone.
Exclusive == \A p \in Procs : pc[p] \in Working => lock = {p}

\* A process has every file before its own behind it, and applies only files.
Prefix ==
    \A p \in Procs : pc[p] \in Working =>
        /\ \A g \in Files : g < file[p] => g \in versions
        /\ pc[p] # "check" => file[p] \in Files

\* The inductive invariant of Migrate: the five properties, with what the lock
\* guarantees its holder.
MigrateInv ==
    MigrateTypeOK /\ Exclusive /\ Prefix /\ NoCollision /\ OnceEach /\ InOrder /\ DoneMeansMigrated

\* A database that nobody has migrated satisfies the invariant.
LEMMA MigrateInit == Init => MigrateInv
BY MigrateAssumption
DEF Init, MigrateInv, MigrateTypeOK, Exclusive, Prefix, NoCollision, OnceEach, InOrder,
    DoneMeansMigrated, Files, Places, Working

\* What a transaction does when it takes effect: the next file is added at the
\* end of what is recorded, for the first time.
LEMMA CommitExtends ==
    ASSUME MigrateInv, NEW p \in Procs, pc[p] = "commit", Committed(p)
    PROVE  /\ file[p] \in Files
           /\ versions' = versions \cup {file[p]}
           /\ versions' \in SUBSET Files
           /\ effects' \in [Files -> Nat]
           /\ OnceEach'
           /\ InOrder'
           /\ \A q \in Procs : q # p => pc[q] \notin Working
<1>1. file[p] \in Files /\ file[p] \notin versions /\ lock = {p}
      /\ \A g \in Files : g < file[p] => g \in versions
  BY DEF MigrateInv, Exclusive, Prefix, NoCollision, Working
<1>2. versions' \in SUBSET Files /\ effects' \in [Files -> Nat]
  BY <1>1 DEF MigrateInv, MigrateTypeOK, Committed
<1>3. OnceEach'
  BY <1>1 DEF MigrateInv, MigrateTypeOK, OnceEach, Committed
<1>4. InOrder'
  BY <1>1 DEF MigrateInv, InOrder, Committed
<1>5. \A q \in Procs : q # p => pc[q] \notin Working
  BY <1>1 DEF MigrateInv, Exclusive
<1> QED
  BY <1>1, <1>2, <1>3, <1>4, <1>5 DEF Committed

\* Every step of every process, a failure included, preserves the invariant.
LEMMA MigrateStep == MigrateInv /\ [Next]_vars => MigrateInv'
<1> SUFFICES ASSUME MigrateInv, [Next]_vars
             PROVE  MigrateInv'
  OBVIOUS
<1> USE MigrateAssumption
<1>1. ASSUME NEW p \in Procs, TakeLock(p)
      PROVE  MigrateInv'
  <2>1. MigrateTypeOK'
    BY <1>1 DEF MigrateInv, MigrateTypeOK, Places, Working, TakeLock, Goto, Files
  <2>2. OnceEach' /\ InOrder'
    BY <1>1 DEF MigrateInv, OnceEach, InOrder, TakeLock
  <2>3. Exclusive' /\ NoCollision' /\ DoneMeansMigrated'
    BY <1>1 DEF MigrateInv, MigrateTypeOK, Exclusive, NoCollision, DoneMeansMigrated, Working,
           TakeLock, Goto
  <2>4. Prefix'
    BY <1>1 DEF MigrateInv, MigrateTypeOK, Prefix, Working, TakeLock, Goto, Files
  <2> QED
    BY <2>1, <2>2, <2>3, <2>4 DEF MigrateInv
<1>2. ASSUME NEW p \in Procs, Check(p)
      PROVE  MigrateInv'
  <2>1. MigrateTypeOK'
    <3>1. file[p] \in 1 .. NumFiles + 1 /\ (file[p] \in Files => file[p] + 1 \in 1 .. NumFiles + 1)
      BY DEF MigrateInv, MigrateTypeOK, Files
    <3> QED
      BY <1>2, <3>1 DEF MigrateInv, MigrateTypeOK, Places, Working, Check, Goto
  <2>2. OnceEach' /\ InOrder'
    BY <1>2 DEF MigrateInv, OnceEach, InOrder, Check
  <2>3. DoneMeansMigrated'
    BY <1>2 DEF MigrateInv, MigrateTypeOK, DoneMeansMigrated, Check, Goto
  <2>4. Exclusive' /\ NoCollision'
    BY <1>2 DEF MigrateInv, MigrateTypeOK, Exclusive, NoCollision, Working, Check, Goto
  <2>5. Prefix'
    BY <1>2 DEF MigrateInv, MigrateTypeOK, Prefix, Files, Working, Check, Goto
  <2> QED
    BY <2>1, <2>2, <2>3, <2>4, <2>5 DEF MigrateInv
<1>3. ASSUME NEW p \in Procs, Apply(p)
      PROVE  MigrateInv'
  <2>1. MigrateTypeOK'
    BY <1>3 DEF MigrateInv, MigrateTypeOK, Places, Working, Apply, Goto
  <2>2. OnceEach' /\ InOrder'
    BY <1>3 DEF MigrateInv, OnceEach, InOrder, Apply
  <2>3. Exclusive' /\ NoCollision' /\ DoneMeansMigrated'
    BY <1>3 DEF MigrateInv, MigrateTypeOK, Exclusive, NoCollision, DoneMeansMigrated, Working,
           Apply, Goto
  <2>4. Prefix'
    BY <1>3 DEF MigrateInv, MigrateTypeOK, Prefix, Working, Apply, Goto
  <2> QED
    BY <2>1, <2>2, <2>3, <2>4 DEF MigrateInv
<1>4. ASSUME NEW p \in Procs, Record(p)
      PROVE  MigrateInv'
  <2>1. MigrateTypeOK'
    BY <1>4 DEF MigrateInv, MigrateTypeOK, Places, Working, Record, Goto, Unlock
  <2>2. OnceEach' /\ InOrder'
    BY <1>4 DEF MigrateInv, OnceEach, InOrder, Record
  <2>3. Exclusive' /\ NoCollision' /\ DoneMeansMigrated'
    BY <1>4 DEF MigrateInv, MigrateTypeOK, Exclusive, NoCollision, DoneMeansMigrated, Working,
           Record, Goto, Unlock
  <2>4. Prefix'
    BY <1>4 DEF MigrateInv, MigrateTypeOK, Prefix, Working, Record, Goto, Unlock
  <2> QED
    BY <2>1, <2>2, <2>3, <2>4 DEF MigrateInv
<1>5. ASSUME NEW p \in Procs, Commit(p)
      PROVE  MigrateInv'
  <2>1. pc[p] = "commit" /\ Committed(p)
    BY <1>5 DEF Commit
  <2>2. /\ file[p] \in Files
        /\ versions' = versions \cup {file[p]}
        /\ versions' \in SUBSET Files
        /\ effects' \in [Files -> Nat]
        /\ OnceEach'
        /\ InOrder'
        /\ \A q \in Procs : q # p => pc[q] \notin Working
    BY <2>1, CommitExtends
  <2>3. MigrateTypeOK'
    BY <1>5, <2>2 DEF MigrateInv, MigrateTypeOK, Commit, Goto, Places, Working, Files
  <2>4. Exclusive' /\ NoCollision'
    BY <1>5, <2>2 DEF MigrateInv, MigrateTypeOK, Exclusive, NoCollision, Commit, Goto, Working
  <2>5. Prefix'
    BY <1>5, <2>2 DEF MigrateInv, MigrateTypeOK, Prefix, Commit, Goto, Working, Files
  <2>6. DoneMeansMigrated'
    BY <1>5, <2>2 DEF MigrateInv, MigrateTypeOK, DoneMeansMigrated, Commit, Goto
  <2> QED
    BY <2>2, <2>3, <2>4, <2>5, <2>6 DEF MigrateInv
<1>6. ASSUME NEW p \in Procs, Finish(p)
      PROVE  MigrateInv'
  <2>1. versions = Files
    <3>1. \A g \in Files : g < file[p]
      BY <1>6 DEF Finish, Files
    <3>2. \A g \in Files : g < file[p] => g \in versions
      BY <1>6 DEF MigrateInv, Prefix, Finish, Working
    <3>3. versions \subseteq Files
      BY DEF MigrateInv, MigrateTypeOK
    <3> QED
      BY <3>1, <3>2, <3>3
  <2>2. MigrateTypeOK'
    BY <1>6 DEF MigrateInv, MigrateTypeOK, Places, Working, Finish, Goto, Unlock
  <2>3. OnceEach' /\ InOrder'
    BY <1>6 DEF MigrateInv, OnceEach, InOrder, Finish
  <2>4. DoneMeansMigrated'
    BY <1>6, <2>1 DEF DoneMeansMigrated, Finish
  <2>5. Exclusive' /\ Prefix' /\ NoCollision'
    BY <1>6 DEF MigrateInv, MigrateTypeOK, Exclusive, Prefix, NoCollision, Working, Finish,
           Goto, Unlock
  <2> QED
    BY <2>2, <2>3, <2>4, <2>5 DEF MigrateInv
<1>7. ASSUME NEW p \in Procs, Fail(p)
      PROVE  MigrateInv'
  <2>1. MigrateTypeOK'
    BY <1>7 DEF MigrateInv, MigrateTypeOK, Places, Working, Fail, Fault, Goto, Unlock
  <2>2. OnceEach' /\ InOrder'
    BY <1>7 DEF MigrateInv, OnceEach, InOrder, Fail
  <2>3. Exclusive' /\ NoCollision' /\ DoneMeansMigrated'
    BY <1>7 DEF MigrateInv, MigrateTypeOK, Exclusive, NoCollision, DoneMeansMigrated, Working,
           Fail, Fault, Goto, Unlock
  <2>4. Prefix'
    BY <1>7 DEF MigrateInv, MigrateTypeOK, Prefix, Working, Fail, Fault, Goto, Unlock
  <2> QED
    BY <2>1, <2>2, <2>3, <2>4 DEF MigrateInv
<1>8. ASSUME NEW p \in Procs, LoseCommit(p)
      PROVE  MigrateInv'
  <2>1. pc[p] = "commit" /\ Committed(p)
    BY <1>8 DEF LoseCommit
  <2>2. /\ file[p] \in Files
        /\ versions' = versions \cup {file[p]}
        /\ versions' \in SUBSET Files
        /\ effects' \in [Files -> Nat]
        /\ OnceEach'
        /\ InOrder'
        /\ \A q \in Procs : q # p => pc[q] \notin Working
    BY <2>1, CommitExtends
  <2>3. MigrateTypeOK'
    BY <1>8, <2>2 DEF MigrateInv, MigrateTypeOK, LoseCommit, Fault, Goto, Unlock, Places, Working
  <2>4. Exclusive' /\ Prefix' /\ NoCollision' /\ DoneMeansMigrated'
    BY <1>8, <2>2 DEF MigrateInv, MigrateTypeOK, Exclusive, Prefix, NoCollision,
           DoneMeansMigrated, LoseCommit, Goto, Working
  <2> QED
    BY <2>2, <2>3, <2>4 DEF MigrateInv
<1>9. CASE UNCHANGED vars
  BY <1>9 DEF MigrateInv, MigrateTypeOK, Exclusive, Prefix, NoCollision, OnceEach, InOrder,
         DoneMeansMigrated, vars
<1> QED
  BY <1>1, <1>2, <1>3, <1>4, <1>5, <1>6, <1>7, <1>8, <1>9 DEF Next, Step

\* The inductive invariant holds in every reachable state.
THEOREM MigrateInvariant == Spec => []MigrateInv
BY MigrateInit, MigrateStep, PTL DEF Spec

\* A file takes effect exactly once and is recorded exactly then, for any number
\* of processes and files, and wherever they fail or lose the answer of a commit.
THEOREM AppliedOnce == Spec => []OnceEach
<1>1. MigrateInv => OnceEach
  BY DEF MigrateInv
<1> QED
  BY <1>1, MigrateInvariant, PTL

\* Whoever's Migrate returns without an error leaves or finds every file applied.
THEOREM ReturnsMigrated == Spec => []DoneMeansMigrated
<1>1. MigrateInv => DoneMeansMigrated
  BY DEF MigrateInv
<1> QED
  BY <1>1, MigrateInvariant, PTL

\* Files take effect in their order, whoever applies them.
THEOREM AppliedInOrder == Spec => []InOrder
<1>1. MigrateInv => InOrder
  BY DEF MigrateInv
<1> QED
  BY <1>1, MigrateInvariant, PTL

\* The advisory lock keeps the lookup of a version and its insert together.
THEOREM NobodyCollides == Spec => []NoCollision
<1>1. MigrateInv => NoCollision
  BY DEF MigrateInv
<1> QED
  BY <1>1, MigrateInvariant, PTL
================================================================================
