---------------------------- MODULE ReplicasProofs -----------------------------
(****************************************************************************)
(* WithSyncLock does what it is for, with any number of processes, callers, *)
(* partners and connections: the lock is never left behind, one cycle of a  *)
(* partner runs at a time, no checkpoint moves back, every connection is    *)
(* given back once; and the tables the cycles write, whoever holds a lock,  *)
(* keep the contract of store.Store.                                        *)
(****************************************************************************)
EXTENDS Replicas, FiniteSetTheorems, TLAPS

Running == {"fn", "query"}

\* The table of checkpoints.
StatesOK == DOMAIN states \subseteq Partners /\ states \in [DOMAIN states -> Nat \ {0}]

\* The part of the types the argument rests on.
LockTypes ==
    /\ at \in [Callers -> {"out", "try"} \cup Inside]
    /\ stage \in [Callers -> {"begin", "body", "tail", "end"}]
    /\ found \in [Callers -> Nat \ {Epoch}]
    /\ held \subseteq Callers
    /\ StatesOK
    /\ adrift \subseteq Stray

\* A partner's lock has one owner.
OneOwner == \A c, d \in held : PartnerOf[c] = PartnerOf[d] => c = d

\* Whoever is inside has the lock, unless its session was lost.
InsideHolds ==
    \A c \in Callers : at[c] \in Inside /\ PartnerOf[c] \notin broken => c \in held

\* A cycle begins with WithSyncLock's fn.
Fresh == \A c \in Callers : at[c] \in {"out", "try"} => stage[c] = "begin"

\* What a cycle read of the checkpoint is what the table holds, where the lock
\* covers every write.
StillCurrent ==
    \A c \in Callers :
        /\ at[c] \in Running /\ stage[c] \in {"body", "tail"}
        /\ PartnerOf[c] \notin broken \cup Strayed
        => found[c] = Checkpoint(PartnerOf[c])

LockInv ==
    LockTypes /\ LockIsInside /\ OneOwner /\ InsideHolds /\ Fresh /\ StillCurrent

\* The initial states satisfy it.
LEMMA LockInit == ReplicasInit => LockInv
<1> SUFFICES ASSUME ReplicasInit PROVE LockInv OBVIOUS
<1>1. StatesOK BY DEF ReplicasInit, StatesOK, Epoch
<1>2. LockTypes BY <1>1 DEF ReplicasInit, LockTypes, Inside, Epoch
<1>3. LockIsInside /\ OneOwner /\ InsideHolds /\ Fresh /\ StillCurrent
  BY DEF ReplicasInit, LockIsInside, OneOwner, InsideHolds, Fresh, StillCurrent, Inside, Running
<1> QED BY <1>2, <1>3 DEF LockInv

\* The invariant excludes two running cycles of one partner.
LEMMA Excludes == LockInv => OneAtATime
BY DEF LockInv, OneAtATime, InsideHolds, OneOwner, Inside

\* Checkpoint answers a time, and never the epoch.
LEMMA CheckpointType ==
    ASSUME StatesOK, NEW q
    PROVE  Checkpoint(q) \in Nat \ {Epoch}
BY DEF StatesOK, Checkpoint, Epoch

\* A statement that is not the last one leaves the checkpoints alone; the last
\* one sets that of its partner to a time after the one the cycle had read.
LEMMA StatementSets ==
    ASSUME StatesOK, NEW kind, NEW q \in Partners, NEW t0, Statement(kind, q, t0)
    PROVE  /\ StatesOK'
           /\ kind # "tail" => states' = states
           /\ \A p : p # q => Checkpoint(p)' = Checkpoint(p)
           /\ kind = "tail" => \E t \in Nat : /\ t > t0 /\ t > Epoch
                                              /\ Checkpoint(q)' = t /\ UpsertCheckpoint(q, t)
<1>1. CASE kind # "tail"
  <2>1. states' = states BY <1>1 DEF Statement, InsertHelpper, UpdateRow
  <2> QED BY <1>1, <2>1 DEF StatesOK, Checkpoint
<1>2. CASE kind = "tail"
  <2>1. PICK t \in (Epoch + 1) .. MaxStamp : t > t0 /\ UpsertCheckpoint(q, t)
    BY <1>2 DEF Statement
  <2>2. t \in Nat \ {0} /\ t > Epoch BY ReplicasAssumption DEF Epoch
  <2>3. states' = [p \in DOMAIN states \cup {q} |-> IF p = q THEN t ELSE states[p]]
    BY <2>1 DEF UpsertCheckpoint
  <2>4. DOMAIN states' = DOMAIN states \cup {q} BY <2>3
  <2>5. StatesOK' BY <2>2, <2>3, <2>4 DEF StatesOK
  <2>6. Checkpoint(q)' = t BY <2>2, <2>3, <2>4 DEF Checkpoint, Epoch
  <2>7. \A p : p # q => Checkpoint(p)' = Checkpoint(p) BY <2>3, <2>4 DEF Checkpoint
  <2> QED BY <1>2, <2>1, <2>2, <2>5, <2>6, <2>7
<1> QED BY <1>1, <1>2

\* What callers leave behind.
LEMMA LeftType ==
    ASSUME NEW S \in SUBSET Callers, found \in [Callers -> Nat \ {Epoch}]
    PROVE  Left(S) \subseteq Stray
<1>1. SUFFICES ASSUME NEW c \in Callers, stage[c] \in {"body", "tail"}
               PROVE  [stage |-> stage[c], partner |-> PartnerOf[c],
                       found |-> IF stage[c] = "tail" THEN found[c] ELSE 0, done |-> FALSE]
                      \in Stray
  BY DEF Left
<1> DEFINE f == IF stage[c] = "tail" THEN found[c] ELSE 0
<1>2. f \in Nat \ {Epoch} BY DEF Epoch
<1>3. PartnerOf[c] \in Partners BY DEF Partners
<1>4. FALSE \in BOOLEAN OBVIOUS
<1> HIDE DEF f
<1>5. [stage |-> stage[c], partner |-> PartnerOf[c], found |-> f, done |-> FALSE] \in Stray
  BY <1>1, <1>2, <1>3, <1>4, Zenon DEF Stray
<1> QED BY <1>5 DEF f

\* And what becomes of it.
LEMMA LateType ==
    ASSUME NEW s \in Stray
    PROVE  [stage |-> s.stage, partner |-> s.partner, found |-> 0, done |-> TRUE] \in Stray
<1>1. s.stage \in {"body", "tail"} /\ s.partner \in Partners BY DEF Stray
<1>2. 0 \in Nat \ {Epoch} BY DEF Epoch
<1>3. TRUE \in BOOLEAN OBVIOUS
<1> QED BY <1>1, <1>2, <1>3, Zenon DEF Stray

\* A partner stays marked.
LEMMA StrayedGrows ==
    ASSUME adrift \subseteq adrift'
    PROVE  Strayed \subseteq Strayed'
BY DEF Strayed

\* Steps that leave the tables, and what a cycle knows, alone: it is enough that
\* the owners of locks stay what they should be.
LEMMA QuietStep ==
    ASSUME LockInv, UNCHANGED states, LockTypes', LockIsInside', OneOwner', InsideHolds',
           Fresh', broken \subseteq broken', adrift \subseteq adrift',
           \A c \in Callers : at'[c] \in Running /\ stage'[c] \in {"body", "tail"}
              => at[c] \in Running /\ stage[c] = stage'[c] /\ found[c] = found'[c]
    PROVE  LockInv'
<1>1. StillCurrent'
  BY StrayedGrows DEF LockInv, StillCurrent, Checkpoint
<1> QED BY <1>1 DEF LockInv

\* The caller leaves: what is left of the invariant when c is out.
LEMMA OutStep ==
    ASSUME LockInv, NEW c \in Callers, Out(c), UNCHANGED <<states, broken>>,
           held' = held \ {c}, adrift \subseteq adrift', adrift' \subseteq Stray
    PROVE  LockInv'
<1> USE DEF LockInv
<1>1. LockTypes' BY DEF Out, Move, LockTypes, StatesOK, Epoch
<1>2. at'[c] = "out" /\ stage'[c] = "begin" BY DEF Out, Move, LockTypes
<1>3. \A d \in Callers : d # c => /\ at'[d] = at[d] /\ stage'[d] = stage[d]
                                  /\ found'[d] = found[d]
  BY DEF Out, Move, LockTypes
<1>4. LockIsInside' BY <1>3 DEF LockIsInside, LockTypes
<1>5. OneOwner' BY DEF OneOwner
<1>6. InsideHolds' BY <1>2, <1>3 DEF InsideHolds, Inside
<1>7. Fresh' BY <1>2, <1>3 DEF Fresh
<1>8. \A d \in Callers : at'[d] \in Running /\ stage'[d] \in {"body", "tail"}
         => at[d] \in Running /\ stage[d] = stage'[d] /\ found[d] = found'[d]
  BY <1>2, <1>3 DEF Running
<1> QED BY <1>1, <1>4, <1>5, <1>6, <1>7, <1>8, QuietStep

\* A caller takes the lock, or is told that another has it.
LEMMA TryStep ==
    ASSUME LockInv, NEW c \in Callers, TryLock(c)
    PROVE  LockInv'
<1> USE DEF LockInv
<1>0. c \notin held BY DEF TryLock, LockIsInside, Inside
<1>1. CASE \E d \in held : PartnerOf[d] = PartnerOf[c]
  <2>1. Out(c) /\ held' = held \ {c} /\ UNCHANGED <<states, broken, adrift>>
    BY <1>0, <1>1 DEF TryLock, tables
  <2> QED BY <2>1, OutStep DEF LockTypes
<1>2. CASE ~ \E d \in held : PartnerOf[d] = PartnerOf[c]
  <2>1. /\ held' = held \cup {c} /\ Move(c, "fn")
        /\ UNCHANGED <<stage, found, states, broken, adrift>>
    BY <1>2 DEF TryLock, tables
  <2>2. LockTypes' BY <2>1 DEF Move, LockTypes, Inside, StatesOK
  <2>3. at'[c] = "fn" /\ at[c] = "try" /\ \A d \in Callers : d # c => at'[d] = at[d]
    BY <2>1 DEF Move, LockTypes, TryLock
  <2>4. LockIsInside' BY <2>1, <2>3 DEF LockIsInside, LockTypes, Inside
  <2>5. OneOwner' BY <1>2, <2>1 DEF OneOwner
  <2>6. InsideHolds' BY <2>1, <2>3 DEF InsideHolds
  <2>7. Fresh' BY <2>1, <2>3 DEF Fresh
  <2>8. stage[c] = "begin" BY <2>3 DEF Fresh
  <2>9. \A d \in Callers : at'[d] \in Running /\ stage'[d] \in {"body", "tail"}
           => at[d] \in Running /\ stage[d] = stage'[d] /\ found[d] = found'[d]
    BY <2>1, <2>3, <2>8
  <2> QED BY <2>1, <2>2, <2>4, <2>5, <2>6, <2>7, <2>9, QuietStep
<1> QED BY <1>1, <1>2

\* A statement takes effect.
LEMMA QueryStep ==
    ASSUME LockInv, NEW c \in Callers, Query(c)
    PROVE  LockInv'
<1> USE DEF LockInv
<1> DEFINE q == PartnerOf[c]
<1>0. q \in Partners /\ Checkpoint(q) \in Nat \ {Epoch} BY CheckpointType DEF Partners, LockTypes
<1>1. UNCHANGED <<held, broken, adrift>> /\ at[c] = "query" BY DEF Query
<1>a. Strayed' = Strayed BY <1>1 DEF Strayed
<1>2. at'[c] \in {"fn", "unlock"} /\ \A d \in Callers : d # c => at'[d] = at[d]
  BY DEF Query, Move, LockTypes
<1>3. /\ at' \in [Callers -> {"out", "try"} \cup Inside]
      /\ stage' \in [Callers -> {"begin", "body", "tail", "end"}]
      /\ found' \in [Callers -> Nat \ {Epoch}]
      /\ \A d \in Callers : d # c => stage'[d] = stage[d] /\ found'[d] = found[d]
  <2> HIDE DEF q
  <2> QED BY <1>0 DEF Query, Move, LockTypes, Inside, Epoch, q
<1>4. LockIsInside' BY <1>1, <1>2 DEF LockIsInside, LockTypes, Inside
<1>5. OneOwner' BY <1>1 DEF OneOwner
<1>6. InsideHolds' BY <1>1, <1>2 DEF InsideHolds, Inside
<1>7. Fresh' BY <1>1, <1>2, <1>3 DEF Fresh
<1>8. CASE stage[c] # "tail"
  <2>1. states' = states
    BY <1>8 DEF Query, tables, Statement, InsertHelpper, UpdateRow
  <2>2. LockTypes' BY <1>1, <1>3, <2>1 DEF LockTypes, StatesOK
  <2>3. \A p \in Partners : Checkpoint(p)' = Checkpoint(p) BY <2>1 DEF Checkpoint
  <2>4. stage[c] = "begin" => found'[c] = Checkpoint(q) BY DEF Query, LockTypes
  <2>5. stage[c] # "begin" => found'[c] = found[c] /\ stage[c] = "body"
    BY <1>8 DEF Query, LockTypes
  <2>6. StillCurrent'
    <3>1. SUFFICES ASSUME NEW d \in Callers, at'[d] \in Running,
                          stage'[d] \in {"body", "tail"},
                          PartnerOf[d] \notin broken \cup Strayed
                   PROVE  found'[d] = Checkpoint(PartnerOf[d])
      BY <1>1, <1>a, <2>3 DEF StillCurrent, Partners
    <3>2. CASE d = c BY <1>1, <2>4, <2>5, <3>1, <3>2 DEF StillCurrent, Running
    <3>3. CASE d # c BY <1>2, <1>3, <3>1, <3>3 DEF StillCurrent
    <3> QED BY <3>2, <3>3
  <2> QED BY <1>4, <1>5, <1>6, <1>7, <2>2, <2>6
<1>9. CASE stage[c] = "tail"
  <2>1. Statement("tail", q, found[c]) BY <1>9 DEF Query
  <2>2. LockTypes'
    <3>1. StatesOK' BY <1>0, <2>1, StatementSets DEF LockTypes
    <3> QED BY <1>1, <1>3, <3>1 DEF LockTypes
  <2>3. at'[c] = "unlock" BY <1>9 DEF Query, Move, LockTypes
  <2>4. \A p \in Partners : p # q => Checkpoint(p)' = Checkpoint(p)
    BY <1>0, <2>1, StatementSets DEF LockTypes
  <2>5. StillCurrent'
    <3>1. SUFFICES ASSUME NEW d \in Callers, at'[d] \in Running,
                          stage'[d] \in {"body", "tail"},
                          PartnerOf[d] \notin broken \cup Strayed
                   PROVE  found'[d] = Checkpoint(PartnerOf[d])'
      BY <1>1, <1>a DEF StillCurrent
    <3>2. d # c BY <2>3, <3>1 DEF Running
    <3>3. at[d] \in Running BY <1>2, <3>1, <3>2
    <3>4. PartnerOf[d] # q
      BY <1>1, <3>1, <3>2, <3>3, Excludes DEF OneAtATime, Running
    <3> QED BY <1>2, <1>3, <2>4, <3>1, <3>2, <3>3, <3>4 DEF StillCurrent, Partners
  <2> QED BY <1>4, <1>5, <1>6, <1>7, <2>2, <2>5
<1> QED BY <1>8, <1>9

\* The steps that neither take nor free a lock.
LEMMA PassStep ==
    ASSUME LockInv, NEW c \in Callers,
           Acquire(c) \/ Ask(c) \/ ReturnFn(c) \/ Expire(c)
           \/ (Interrupted(c) /\ at[c] = "query")
    PROVE  LockInv'
<1> USE DEF LockInv
<1>1. UNCHANGED <<held, broken, states>>
  BY DEF Acquire, Ask, ReturnFn, Expire, Interrupted, tables
<1>2. /\ at' \in [Callers -> {"out", "try"} \cup Inside]
      /\ stage' \in [Callers -> {"begin", "body", "tail", "end"}]
      /\ found' \in [Callers -> Nat \ {Epoch}]
  BY DEF Acquire, Ask, ReturnFn, Expire, Interrupted, Move, Out, LockTypes, Inside, Epoch
<1>a. adrift \subseteq adrift' /\ adrift' \subseteq Stray
  <2>1. Left({c}) \subseteq Stray BY LeftType DEF LockTypes
  <2> QED BY <2>1 DEF Acquire, Ask, ReturnFn, Expire, Interrupted, LockTypes
<1>3. \A d \in Callers : d # c => at'[d] = at[d] /\ stage'[d] = stage[d] /\ found'[d] = found[d]
  BY DEF Acquire, Ask, ReturnFn, Expire, Interrupted, Move, Out, LockTypes
<1>4. \/ at[c] = "out" /\ at'[c] = "try" /\ stage'[c] = stage[c]
      \/ at[c] \in Running /\ at'[c] \in Running /\ stage'[c] = stage[c] /\ found'[c] = found[c]
      \/ at[c] \in Running /\ at'[c] = "unlock"
      \/ at'[c] = at[c] /\ stage'[c] = stage[c] /\ found'[c] = found[c]
  BY DEF Acquire, Ask, ReturnFn, Expire, Interrupted, Move, Out, LockTypes, Running
<1>5. LockTypes' BY <1>1, <1>2, <1>a DEF LockTypes, StatesOK
<1>6. LockIsInside' BY <1>1, <1>3, <1>4 DEF LockIsInside, LockTypes, Inside, Running
<1>7. OneOwner' BY <1>1 DEF OneOwner
<1>8. InsideHolds' BY <1>1, <1>3, <1>4 DEF InsideHolds, Inside, Running
<1>9. Fresh' BY <1>3, <1>4 DEF Fresh, Running
<1>10. \A d \in Callers : at'[d] \in Running /\ stage'[d] \in {"body", "tail"}
         => at[d] \in Running /\ stage[d] = stage'[d] /\ found[d] = found'[d]
  BY <1>3, <1>4 DEF Running
<1> QED BY <1>1, <1>a, <1>5, <1>6, <1>7, <1>8, <1>9, <1>10, QuietStep

\* The session of the lock is lost: the partner is marked.
LEMMA LossStep ==
    ASSUME LockInv, NEW c \in Callers, LoseSession(c)
    PROVE  LockInv'
<1> USE DEF LockInv, LoseSession, tables
<1>1. LockTypes' /\ LockIsInside' /\ OneOwner'
  BY DEF LockTypes, StatesOK, LockIsInside, OneOwner
<1>2. InsideHolds' BY DEF InsideHolds
<1>3. Fresh' BY DEF Fresh
<1> QED BY <1>1, <1>2, <1>3, QuietStep

\* A process dies: all its callers are out.
LEMMA DieStep ==
    ASSUME LockInv, NEW p \in Procs, Die(p)
    PROVE  LockInv'
<1> USE DEF LockInv
<1> DEFINE mine == {c \in Callers : ProcessOf[c] = p}
<1>1. /\ at' = [c \in Callers |-> IF c \in mine THEN "out" ELSE at[c]]
      /\ stage' = [c \in Callers |-> IF c \in mine THEN "begin" ELSE stage[c]]
      /\ found' = [c \in Callers |-> IF c \in mine THEN 0 ELSE found[c]]
      /\ held' = held \ mine
      /\ adrift' = adrift \cup Left(mine)
      /\ UNCHANGED <<states, broken>>
  BY DEF Die, tables
<1>a. Left(mine) \subseteq Stray BY LeftType DEF LockTypes
<1> HIDE DEF mine
<1>2. LockTypes' BY <1>1, <1>a DEF LockTypes, StatesOK, Epoch
<1>3. LockIsInside' /\ OneOwner' BY <1>1 DEF LockIsInside, OneOwner, LockTypes
<1>4. InsideHolds' BY <1>1 DEF InsideHolds, Inside
<1>5. Fresh' BY <1>1 DEF Fresh
<1>6. \A d \in Callers : at'[d] \in Running /\ stage'[d] \in {"body", "tail"}
         => at[d] \in Running /\ stage[d] = stage'[d] /\ found[d] = found'[d]
  BY <1>1 DEF Running
<1> QED BY <1>1, <1>2, <1>3, <1>4, <1>5, <1>6, QuietStep

\* A statement takes effect after its caller is gone: the partner is marked.
LEMMA LandStep ==
    ASSUME LockInv, NEW s \in adrift, Land(s)
    PROVE  LockInv'
<1> USE DEF LockInv
<1> DEFINE late == [stage |-> s.stage, partner |-> s.partner, found |-> 0, done |-> TRUE]
<1>1. /\ UNCHANGED <<at, stage, found, held, broken>>
      /\ Statement(s.stage, s.partner, s.found)
      /\ adrift' = (adrift \ {s}) \cup {late}
  BY DEF Land
<1>2. s \in Stray /\ s.partner \in Partners BY DEF LockTypes, Stray
<1>3. late \in Stray /\ late.stage = s.stage /\ late.partner = s.partner
  BY <1>2, LateType
<1> HIDE DEF late
<1>4. Strayed' = Strayed /\ (s.stage = "tail" => s.partner \in Strayed)
  BY <1>1, <1>3 DEF Strayed
<1>5. /\ StatesOK'
      /\ s.stage # "tail" => states' = states
      /\ \A p : p # s.partner => Checkpoint(p)' = Checkpoint(p)
  BY <1>1, <1>2, StatementSets DEF LockTypes
<1>6. LockTypes' BY <1>1, <1>3, <1>5 DEF LockTypes
<1>7. LockIsInside' /\ OneOwner' /\ InsideHolds' /\ Fresh'
  BY <1>1 DEF LockIsInside, OneOwner, InsideHolds, Fresh
<1>8. \A p : p \notin Strayed => Checkpoint(p)' = Checkpoint(p)
  BY <1>4, <1>5 DEF Checkpoint
<1>9. StillCurrent' BY <1>1, <1>4, <1>8 DEF StillCurrent
<1> QED BY <1>6, <1>7, <1>9

\* Every step keeps the invariant.
LEMMA LockStep ==
    ASSUME LockInv, [ReplicasNext]_vars
    PROVE  LockInv'
<1>1. ASSUME NEW c \in Callers, CallStep(c) \/ Ask(c) \/ Expire(c) \/ LoseSession(c)
      PROVE  LockInv'
  <2>1. CASE UnlockAndRelease(c)
    BY <2>1, OutStep DEF UnlockAndRelease, tables, LockInv, LockTypes
  <2>2. CASE Interrupted(c) /\ at[c] # "query"
    <3>1. c \notin held BY <2>2 DEF Interrupted, LockInv, LockIsInside, Inside
    <3>2. Left({c}) \subseteq Stray BY LeftType DEF LockInv, LockTypes
    <3> QED BY <2>2, <3>1, <3>2, OutStep DEF Interrupted, tables, LockInv, LockTypes
  <2> QED BY <1>1, <2>1, <2>2, TryStep, QueryStep, PassStep, LossStep DEF CallStep
<1>2. CASE UNCHANGED vars
  BY <1>2 DEF vars, LockInv, LockTypes, StatesOK, LockIsInside, OneOwner, InsideHolds, Fresh,
              StillCurrent, Strayed, Checkpoint, Inside, Running
<1> QED BY <1>1, <1>2, DieStep, LandStep DEF ReplicasNext

\* The inductive invariant holds in every reachable state.
THEOREM LockInvariant == ReplicasSpec => []LockInv
<1>1. LockInv /\ [ReplicasNext]_vars => LockInv' BY LockStep
<1> QED BY <1>1, LockInit, PTL DEF ReplicasSpec

\* The lock of a partner belongs to a caller inside WithSyncLock, however calls
\* end: contexts done, sessions lost, processes dead.
THEOREM NoLockLeftBehind == ReplicasSpec => []LockIsInside
<1>1. LockInv => LockIsInside BY DEF LockInv
<1> QED BY <1>1, LockInvariant, PTL

\* One cycle of a partner runs at a time, unless the session of a lock was lost.
THEOREM CyclesExclude == ReplicasSpec => []OneAtATime
BY LockInvariant, Excludes, PTL

\* A statement moves a checkpoint forward or not at all, where the lock covers it.
LEMMA CheckpointStep ==
    ASSUME LockInv, [ReplicasNext]_vars, NEW q \in Partners \ (broken' \cup Strayed')
    PROVE  Checkpoint(q)' >= Checkpoint(q)
<1>0. Checkpoint(q) \in Nat BY CheckpointType DEF LockInv, LockTypes
<1>1. CASE states' = states BY <1>0, <1>1 DEF Checkpoint
<1>2. ASSUME NEW c \in Callers, Query(c), stage[c] = "tail" PROVE Checkpoint(q)' >= Checkpoint(q)
  <2>1. /\ Statement("tail", PartnerOf[c], found[c]) /\ PartnerOf[c] \in Partners
        /\ broken' = broken /\ Strayed' = Strayed
    BY <1>2 DEF Query, Partners, Strayed
  <2>2. CASE PartnerOf[c] # q
    <3>1. Checkpoint(q)' = Checkpoint(q)
      BY <2>1, <2>2, StatementSets DEF LockInv, LockTypes
    <3> QED BY <1>0, <3>1
  <2>3. CASE PartnerOf[c] = q
    <3>1. found[c] = Checkpoint(q)
      BY <1>2, <2>1, <2>3 DEF Query, LockInv, StillCurrent, Running
    <3>2. PICK t \in Nat : t > found[c] /\ Checkpoint(q)' = t
      BY <2>1, <2>3, StatementSets DEF LockInv, LockTypes
    <3> QED BY <1>0, <3>1, <3>2
  <2> QED BY <2>2, <2>3
<1>3. ASSUME NEW c \in Callers, Query(c), stage[c] # "tail" PROVE states' = states
  BY <1>3 DEF Query, tables, Statement, InsertHelpper, UpdateRow
<1>4. ASSUME NEW c \in Callers,
             \/ CallStep(c) /\ ~Query(c)
             \/ Ask(c) \/ Expire(c) \/ LoseSession(c)
      PROVE  states' = states
  BY <1>4 DEF CallStep, Acquire, TryLock, ReturnFn, UnlockAndRelease, Interrupted, Ask,
              Expire, LoseSession, tables
<1>5. CASE (\E p \in Procs : Die(p)) \/ UNCHANGED vars
  BY <1>1, <1>5 DEF Die, vars, tables
<1>6. ASSUME NEW s \in adrift, Land(s) PROVE Checkpoint(q)' >= Checkpoint(q)
  <2> DEFINE late == [stage |-> s.stage, partner |-> s.partner, found |-> 0, done |-> TRUE]
  <2>1. s \in Stray /\ late \in adrift' /\ Statement(s.stage, s.partner, s.found)
    BY <1>6 DEF Land, LockInv, LockTypes
  <2>2. s.partner \in Partners /\ late.stage = s.stage /\ late.partner = s.partner
    BY <2>1 DEF Stray
  <2> HIDE DEF late
  <2>3. s.stage = "tail" => s.partner \in Strayed' BY <2>1, <2>2 DEF Strayed
  <2>4. /\ s.stage # "tail" => states' = states
        /\ s.partner # q => Checkpoint(q)' = Checkpoint(q)
    BY <2>1, <2>2, StatementSets DEF LockInv, LockTypes
  <2> QED BY <1>0, <1>1, <2>3, <2>4
<1> QED BY <1>1, <1>2, <1>3, <1>4, <1>5, <1>6 DEF ReplicasNext, CallStep

\* The store compares nothing and the checkpoint never moves back: the lock is
\* what makes it so, as far as it covers the write.
THEOREM CheckpointsAdvance == ReplicasSpec => CheckpointMonotone
<1>1. LockInv /\ [ReplicasNext]_vars
      => [\A q \in Partners \ (broken' \cup Strayed') : Checkpoint(q)' >= Checkpoint(q)]_vars
  BY CheckpointStep
<1> QED BY <1>1, LockInvariant, PTL DEF ReplicasSpec, CheckpointMonotone

--------------------------------------------------------------------------------
(* The pool.  A count that is never below what is taken needs the balance,  *)
(* and the balance needs the type of the count: they are proved together.   *)

PoolInv == ReplicasTypeOK /\ PoolBalanced

\* The callers of a process that keep a connection for the lock, and those whose
\* statement has another.
Lockers(p) == {c \in Callers : ProcessOf[c] = p /\ at[c] \in {"try"} \cup Inside}
Askers(p) == {c \in Callers : ProcessOf[c] = p /\ at[c] = "query"}

\* The connections a caller has where it is.
Weight(place) == IF place = "out" THEN 0 ELSE IF place = "query" THEN 2 ELSE 1

\* Both are finite sets.
LEMMA CountsAreNatural ==
    ASSUME NEW p
    PROVE  /\ IsFiniteSet(Lockers(p)) /\ Cardinality(Lockers(p)) \in Nat
           /\ IsFiniteSet(Askers(p)) /\ Cardinality(Askers(p)) \in Nat
<1>1. Lockers(p) \in SUBSET Callers /\ Askers(p) \in SUBSET Callers
  BY DEF Lockers, Askers
<1> QED BY <1>1, FS_Subset, FS_CardinalityType, ReplicasAssumption

\* A caller that moves, and takes or gives back the difference, leaves the books
\* of every process balanced.
LEMMA Recount ==
    ASSUME at \in [Callers -> {"out", "try"} \cup Inside], used \in [Procs -> Int], PoolBalanced,
           NEW c \in Callers, NEW place \in {"out", "try"} \cup Inside, Move(c, place),
           used' = [used EXCEPT ![ProcessOf[c]] = @ + Weight(place) - Weight(at[c])]
    PROVE  PoolBalanced'
<1> DEFINE m == ProcessOf[c]
<1>0. m \in Procs BY ReplicasAssumption
<1>1. at'[c] = place /\ \A d \in Callers : d # c => at'[d] = at[d] BY DEF Move
<1>2. ASSUME NEW p \in Procs, p # m
      PROVE  Lockers(p)' = Lockers(p) /\ Askers(p)' = Askers(p) /\ used'[p] = used[p]
  BY <1>1, <1>2 DEF Lockers, Askers
<1>3. Lockers(m)' = IF place = "out" THEN Lockers(m) \ {c} ELSE Lockers(m) \cup {c}
  BY <1>1 DEF Lockers, Inside
<1>4. Askers(m)' = IF place = "query" THEN Askers(m) \cup {c} ELSE Askers(m) \ {c}
  BY <1>1 DEF Askers
<1>5. (c \in Lockers(m) <=> at[c] # "out") /\ (c \in Askers(m) <=> at[c] = "query")
  BY DEF Lockers, Askers, Inside
<1>6. used[m] = Cardinality(Lockers(m)) + Cardinality(Askers(m))
  BY <1>0 DEF PoolBalanced, Lockers, Askers
<1> DEFINE l == Cardinality(Lockers(m))
           a == Cardinality(Askers(m))
<1>7. l \in Nat /\ a \in Nat BY CountsAreNatural
<1>8. Cardinality(Lockers(m)') =
        IF place = "out" THEN (IF at[c] = "out" THEN l ELSE l - 1)
        ELSE (IF at[c] = "out" THEN l + 1 ELSE l)
  <2> HIDE DEF m
  <2>1. IsFiniteSet(Lockers(m)) BY CountsAreNatural
  <2>2. Cardinality(Lockers(m) \cup {c}) = IF c \in Lockers(m) THEN l ELSE l + 1
    BY <2>1, FS_AddElement
  <2>3. Cardinality(Lockers(m) \ {c}) = IF c \in Lockers(m) THEN l - 1 ELSE l
    BY <2>1, FS_RemoveElement
  <2> HIDE DEF l
  <2> QED BY <1>3, <1>5, <2>2, <2>3
<1>9. Cardinality(Askers(m)') =
        IF place = "query" THEN (IF at[c] = "query" THEN a ELSE a + 1)
        ELSE (IF at[c] = "query" THEN a - 1 ELSE a)
  <2> HIDE DEF m
  <2>1. IsFiniteSet(Askers(m)) BY CountsAreNatural
  <2>2. Cardinality(Askers(m) \cup {c}) = IF c \in Askers(m) THEN a ELSE a + 1
    BY <2>1, FS_AddElement
  <2>3. Cardinality(Askers(m) \ {c}) = IF c \in Askers(m) THEN a - 1 ELSE a
    BY <2>1, FS_RemoveElement
  <2> HIDE DEF a
  <2> QED BY <1>4, <1>5, <2>2, <2>3
<1>10. used'[m] = used[m] + Weight(place) - Weight(at[c]) BY <1>0
<1>11. used'[m] = Cardinality(Lockers(m)') + Cardinality(Askers(m)')
  <2> HIDE DEF l, a, m
  <2>1. used[m] = l + a BY <1>6 DEF l, a
  <2> QED BY <1>7, <1>8, <1>9, <1>10, <2>1 DEF Weight
<1>12. \A p \in Procs : used'[p] = Cardinality(Lockers(p)') + Cardinality(Askers(p)')
  <2>1. \A p \in Procs : used[p] = Cardinality(Lockers(p)) + Cardinality(Askers(p))
    BY DEF PoolBalanced, Lockers, Askers
  <2> HIDE DEF m
  <2> QED BY <1>2, <1>11, <2>1
<1> QED BY <1>12 DEF PoolBalanced, Lockers, Askers

\* What moves and what the pool of its process does, in every call of a caller.
LEMMA CallsPay ==
    ASSUME ReplicasTypeOK, PoolBalanced, NEW c \in Callers, CallStep(c) \/ Ask(c)
    PROVE  \E place \in {"out", "try"} \cup Inside :
              /\ Move(c, place)
              /\ used' = [used EXCEPT ![ProcessOf[c]] = @ + Weight(place) - Weight(at[c])]
              /\ Weight(place) <= Weight(at[c]) \/ used'[ProcessOf[c]] <= PoolSize
<1>0. ProcessOf[c] \in Procs /\ used \in [Procs -> 0 .. PoolSize] /\ PoolSize \in Nat
  BY ReplicasAssumption DEF ReplicasTypeOK
<1>a. ASSUME ReleaseConn(c), NEW place, Weight(place) = Weight(at[c]) - 1, Weight(place) \in Nat
      PROVE  used' = [used EXCEPT ![ProcessOf[c]] = @ + Weight(place) - Weight(at[c])]
  <2>1. Weight(at[c]) \in Nat BY DEF Weight
  <2>2. \A n \in Int : n + Weight(place) - Weight(at[c]) = n - 1 BY <1>a, <2>1
  <2>3. used[ProcessOf[c]] \in Int BY <1>0
  <2> QED BY <1>a, <2>2, <2>3 DEF ReleaseConn
<1> USE DEF Weight, Inside
<1>1. CASE Acquire(c) BY <1>0, <1>1 DEF Acquire, TakeConn
<1>2. CASE TryLock(c)
  <2>1. CASE \E d \in held : PartnerOf[d] = PartnerOf[c]
    BY <1>0, <1>2, <2>1 DEF TryLock, ReleaseConn, Out
  <2>2. CASE ~ \E d \in held : PartnerOf[d] = PartnerOf[c]
    BY <1>0, <1>2, <2>2 DEF TryLock
  <2> QED BY <2>1, <2>2
<1>3. CASE Query(c)
  <2>1. at[c] = "query" /\ ReleaseConn(c) /\ (Move(c, "fn") \/ Move(c, "unlock"))
    BY <1>3 DEF Query
  <2>2. CASE Move(c, "fn") BY <1>a, <2>1, <2>2
  <2>3. CASE Move(c, "unlock") BY <1>a, <2>1, <2>3
  <2> QED BY <2>1, <2>2, <2>3
<1>4. CASE ReturnFn(c) BY <1>0, <1>4 DEF ReturnFn
<1>5. CASE UnlockAndRelease(c) BY <1>5, <1>a DEF UnlockAndRelease, Out
<1>6. CASE Interrupted(c)
  <2>1. CASE at[c] = "try" BY <1>0, <1>6, <2>1 DEF Interrupted, ReleaseConn, Out
  <2>2. CASE at[c] # "try" BY <1>0, <1>6, <2>2 DEF Interrupted, ReleaseConn
  <2> QED BY <2>1, <2>2
<1>7. CASE Ask(c) BY <1>0, <1>7 DEF Ask, TakeConn
<1> QED BY <1>1, <1>2, <1>3, <1>4, <1>5, <1>6, <1>7 DEF CallStep

\* A process that dies has no connection, and the others keep theirs.
LEMMA DeadProcessesOweNothing ==
    ASSUME used \in [Procs -> Int], PoolBalanced, NEW p \in Procs, Die(p)
    PROVE  PoolBalanced'
<1>1. at' = [c \in Callers |-> IF ProcessOf[c] = p THEN "out" ELSE at[c]]
  BY DEF Die
<1>2. Lockers(p)' = {} /\ Askers(p)' = {} BY <1>1 DEF Lockers, Askers, Inside
<1>3. ASSUME NEW m \in Procs, m # p
      PROVE  Lockers(m)' = Lockers(m) /\ Askers(m)' = Askers(m) /\ used'[m] = used[m]
  BY <1>1, <1>3 DEF Lockers, Askers, Die
<1>4. used'[p] = 0 BY DEF Die
<1>5. \A m \in Procs : used[m] = Cardinality(Lockers(m)) + Cardinality(Askers(m))
  BY DEF PoolBalanced, Lockers, Askers
<1>6. \A m \in Procs : used'[m] = Cardinality(Lockers(m)') + Cardinality(Askers(m)')
  <2>1. used'[p] = Cardinality(Lockers(p)') + Cardinality(Askers(p)')
    BY <1>2, <1>4, FS_EmptySet
  <2> QED BY <1>3, <1>5, <2>1
<1> QED BY <1>6 DEF PoolBalanced, Lockers, Askers

\* What a statement does to the tables keeps their types.
LEMMA StatementTypes ==
    ASSUME ReplicasTypeOK, NEW kind, NEW q \in Partners, NEW t0, Statement(kind, q, t0)
    PROVE  rows' \subseteq Row /\ seq' \in Nat /\ StatesOK'
<1>1. StatesOK' BY StatementSets DEF ReplicasTypeOK, StatesOK
<1>2. CASE kind = "tail" BY <1>1, <1>2 DEF Statement, UpsertCheckpoint, ReplicasTypeOK
<1>3. CASE kind # "tail"
  <2>1. PICK p \in Profiles : \/ \E d \in Ids : InsertHelpper(d, p)
                              \/ \E id \in 1 .. MaxSeq, e \in BOOLEAN : UpdateRow(id, e, p)
    BY <1>3 DEF Statement
  <2>2. ASSUME NEW d \in Ids, InsertHelpper(d, p) PROVE rows' \subseteq Row /\ seq' \in Nat
    <3>1. seq' = seq + 1 /\ seq + 1 \in Nat \ {0} BY <2>2 DEF InsertHelpper, ReplicasTypeOK
    <3>2. [id |-> seq + 1, directory_id |-> d, enabled |-> TRUE, profile |-> p] \in Row
      BY <3>1 DEF Row
    <3> QED BY <2>2, <3>1, <3>2 DEF InsertHelpper, ReplicasTypeOK
  <2>3. ASSUME NEW id, NEW e \in BOOLEAN, UpdateRow(id, e, p)
        PROVE  rows' \subseteq Row /\ seq' \in Nat
    BY <2>3 DEF UpdateRow, Row, ReplicasTypeOK
  <2> QED BY <1>1, <2>1, <2>2, <2>3
<1> QED BY <1>2, <1>3

\* The types of everything but the pool.
LEMMA OtherTypes ==
    ASSUME ReplicasTypeOK, [ReplicasNext]_vars
    PROVE  /\ at' \in [Callers -> {"out", "try"} \cup Inside]
           /\ stage' \in [Callers -> {"begin", "body", "tail", "end"}]
           /\ found' \in [Callers -> Nat \ {Epoch}]
           /\ expired' \subseteq Callers /\ held' \subseteq Callers
           /\ broken' \subseteq Partners
           /\ rows' \subseteq Row /\ seq' \in Nat /\ StatesOK'
           /\ adrift' \subseteq Stray
           /\ faults' \in Nat
<1> USE DEF ReplicasTypeOK
<1>0. /\ StatesOK
      /\ UNCHANGED tables => rows' \subseteq Row /\ seq' \in Nat /\ StatesOK'
  BY DEF StatesOK, tables
<1>1. ASSUME NEW c \in Callers, Query(c) PROVE /\ found' \in [Callers -> Nat \ {Epoch}]
                                               /\ rows' \subseteq Row /\ seq' \in Nat /\ StatesOK'
  <2>0. PartnerOf[c] \in Partners /\ Checkpoint(PartnerOf[c]) \in Nat \ {Epoch}
    BY <1>0, CheckpointType DEF Partners
  <2>1. CASE stage[c] = "begin" BY <1>0, <1>1, <2>0, <2>1 DEF Query
  <2>2. CASE stage[c] # "begin"
    <3>1. Statement(stage[c], PartnerOf[c], found[c]) BY <1>1, <2>2 DEF Query
    <3>2. found' \in [Callers -> Nat \ {Epoch}] BY <1>1, <2>2 DEF Query, Epoch
    <3> QED BY <2>0, <3>1, <3>2, StatementTypes
  <2> QED BY <2>1, <2>2
<1>2. ASSUME NEW c \in Callers, Query(c)
      PROVE  /\ at' \in [Callers -> {"out", "try"} \cup Inside]
             /\ stage' \in [Callers -> {"begin", "body", "tail", "end"}]
             /\ UNCHANGED <<expired, held, broken, faults, adrift>>
  BY <1>2 DEF Query, Move, Inside
<1>3. ASSUME NEW c \in Callers,
             Acquire(c) \/ TryLock(c) \/ ReturnFn(c) \/ UnlockAndRelease(c) \/ Interrupted(c)
             \/ Ask(c)
      PROVE  /\ at' \in [Callers -> {"out", "try"} \cup Inside]
             /\ stage' \in [Callers -> {"begin", "body", "tail", "end"}]
             /\ found' \in [Callers -> Nat \ {Epoch}]
             /\ expired' \subseteq Callers /\ held' \subseteq Callers
             /\ adrift' \subseteq Stray
             /\ UNCHANGED <<broken, faults, tables>>
  <2> USE DEF Move, Out, Inside, Epoch
  <2>0. Left({c}) \subseteq Stray BY LeftType
  <2>1. CASE TryLock(c) BY <2>1 DEF TryLock
  <2>2. CASE Interrupted(c) BY <2>0, <2>2 DEF Interrupted
  <2>3. CASE UnlockAndRelease(c) BY <2>3 DEF UnlockAndRelease
  <2>4. CASE Acquire(c) \/ ReturnFn(c) \/ Ask(c) BY <2>4 DEF Acquire, ReturnFn, Ask
  <2> QED BY <1>3, <2>1, <2>2, <2>3, <2>4
<1>4. ASSUME NEW c \in Callers, Expire(c) \/ LoseSession(c)
      PROVE  /\ UNCHANGED <<tables, adrift, at, stage, found>> /\ faults' \in Nat
             /\ expired' \subseteq Callers /\ held' \subseteq Callers
             /\ broken' \subseteq Partners
  BY <1>4 DEF Expire, LoseSession, Fault, Partners
<1>5. ASSUME NEW p \in Procs, Die(p)
      PROVE  /\ at' \in [Callers -> {"out", "try"} \cup Inside]
             /\ stage' \in [Callers -> {"begin", "body", "tail", "end"}]
             /\ found' \in [Callers -> Nat \ {Epoch}]
             /\ expired' \subseteq Callers /\ held' \subseteq Callers
             /\ adrift' \subseteq Stray
             /\ UNCHANGED <<tables, broken>> /\ faults' \in Nat
  <2>1. Left({c \in Callers : ProcessOf[c] = p}) \subseteq Stray BY LeftType
  <2> QED BY <1>5, <2>1 DEF Die, Fault, Epoch
<1>6. ASSUME NEW s \in adrift, Land(s)
      PROVE  /\ UNCHANGED <<at, stage, found, expired, held, broken, faults>>
             /\ rows' \subseteq Row /\ seq' \in Nat /\ StatesOK'
             /\ adrift' \subseteq Stray
  <2>1. /\ s \in Stray /\ s.partner \in Partners
        /\ [stage |-> s.stage, partner |-> s.partner, found |-> 0, done |-> TRUE] \in Stray
    BY LateType DEF Stray
  <2>2. Statement(s.stage, s.partner, s.found) BY <1>6 DEF Land
  <2>3. rows' \subseteq Row /\ seq' \in Nat /\ StatesOK' BY <2>1, <2>2, StatementTypes
  <2> QED BY <1>6, <2>1, <2>3 DEF Land
<1>7. CASE UNCHANGED vars BY <1>0, <1>7 DEF vars, tables
<1> QED BY <1>0, <1>1, <1>2, <1>3, <1>4, <1>5, <1>6, <1>7 DEF ReplicasNext, CallStep

\* Every step keeps the types and the balance.
LEMMA PoolStep ==
    ASSUME PoolInv, [ReplicasNext]_vars
    PROVE  PoolInv'
<1>0. used \in [Procs -> 0 .. PoolSize] /\ PoolSize \in Nat /\ used \in [Procs -> Int]
  BY ReplicasAssumption DEF PoolInv, ReplicasTypeOK
<1>1. SUFFICES used' \in [Procs -> 0 .. PoolSize] /\ PoolBalanced'
  BY OtherTypes DEF PoolInv, ReplicasTypeOK, StatesOK
<1>2. \A p \in Procs : Cardinality(Lockers(p)') \in Nat /\ Cardinality(Askers(p)') \in Nat
  <2>1. \A p : Lockers(p)' \in SUBSET Callers /\ Askers(p)' \in SUBSET Callers
    BY DEF Lockers, Askers
  <2> QED BY <2>1, FS_Subset, FS_CardinalityType, ReplicasAssumption
<1>3. ASSUME PoolBalanced', NEW p \in Procs PROVE used'[p] \in Nat
  <2>1. used'[p] = Cardinality(Lockers(p)') + Cardinality(Askers(p)')
    BY <1>3 DEF PoolBalanced, Lockers, Askers
  <2> QED BY <1>2, <2>1
<1>4. ASSUME NEW c \in Callers, CallStep(c) \/ Ask(c)
      PROVE  used' \in [Procs -> 0 .. PoolSize] /\ PoolBalanced'
  <2>1. PICK place \in {"out", "try"} \cup Inside :
              /\ Move(c, place)
              /\ used' = [used EXCEPT ![ProcessOf[c]] = @ + Weight(place) - Weight(at[c])]
              /\ Weight(place) <= Weight(at[c]) \/ used'[ProcessOf[c]] <= PoolSize
    BY <1>4, CallsPay DEF PoolInv
  <2>2. PoolBalanced' BY <1>0, <2>1, Recount DEF PoolInv, ReplicasTypeOK
  <2>3. ProcessOf[c] \in Procs BY ReplicasAssumption
  <2>4. Weight(place) \in Int /\ Weight(at[c]) \in Int BY DEF Weight
  <2>5. used'[ProcessOf[c]] \in 0 .. PoolSize
    BY <1>0, <1>3, <2>1, <2>2, <2>3, <2>4
  <2> QED BY <1>0, <2>1, <2>2, <2>3, <2>5
<1>5. ASSUME NEW c \in Callers, Expire(c) \/ LoseSession(c)
      PROVE  UNCHANGED <<used, at>>
  BY <1>5 DEF Expire, LoseSession
<1>6. ASSUME NEW p \in Procs, Die(p)
      PROVE  used' \in [Procs -> 0 .. PoolSize] /\ PoolBalanced'
  <2>1. used' = [used EXCEPT ![p] = 0] BY <1>6 DEF Die
  <2> QED BY <1>0, <1>6, <2>1, DeadProcessesOweNothing DEF PoolInv
<1>7. CASE UNCHANGED <<used, at>> BY <1>0, <1>7 DEF PoolInv, PoolBalanced
<1>8. ASSUME NEW s \in adrift, Land(s) PROVE UNCHANGED <<used, at>> BY <1>8 DEF Land
<1> QED BY <1>4, <1>5, <1>6, <1>7, <1>8 DEF ReplicasNext, vars

\* The initial states have both.
LEMMA PoolInit == ReplicasInit => PoolInv
<1> SUFFICES ASSUME ReplicasInit PROVE PoolInv OBVIOUS
<1>1. ReplicasTypeOK
  <2>1. DOMAIN states \subseteq Partners /\ states \in [DOMAIN states -> Nat \ {0}]
    BY DEF ReplicasInit, Epoch
  <2> QED BY <2>1, ReplicasAssumption DEF ReplicasInit, ReplicasTypeOK, Inside, Epoch
<1>2. \A p \in Procs : Lockers(p) = {} /\ Askers(p) = {} /\ used[p] = 0
  BY DEF ReplicasInit, Lockers, Askers, Inside
<1>3. PoolBalanced BY <1>2, FS_EmptySet DEF PoolBalanced, Lockers, Askers
<1> QED BY <1>1, <1>3 DEF PoolInv

\* Every variable has its type: no pool counts below zero or above its size, and
\* no cycle takes the 'epoch' of a row that was never set for a checkpoint.
THEOREM ReplicasTypes == ReplicasSpec => []ReplicasTypeOK
<1>1. PoolInv /\ [ReplicasNext]_vars => PoolInv' BY PoolStep
<1>2. PoolInv => ReplicasTypeOK BY DEF PoolInv
<1> QED BY <1>1, <1>2, PoolInit, PTL DEF ReplicasSpec

\* Every connection is given back once, whichever way a call ends.
THEOREM ConnectionsReturn == ReplicasSpec => []PoolBalanced
<1>1. PoolInv /\ [ReplicasNext]_vars => PoolInv' BY PoolStep
<1>2. PoolInv => PoolBalanced BY DEF PoolInv
<1> QED BY <1>1, <1>2, PoolInit, PTL DEF ReplicasSpec

--------------------------------------------------------------------------------
(* The tables keep the contract of store.Store: a refinement.  The indexes  *)
(* of the schema make the row of a directory id the only one.               *)

\* Both keys are unique.
Keyed(table) ==
    /\ table \subseteq Row
    /\ \A r, s \in table : r.id = s.id \/ r.directory_id = s.directory_id => r = s

\* And ids come from the sequence.
TableInv ==
    /\ Keyed(rows)
    /\ seq \in Nat /\ \A r \in rows : r.id <= seq
    /\ StatesOK

\* The contract's view of a row.
Shown(r) == [id |-> r.id, enabled |-> r.enabled, profile |-> r.profile]

\* And of somebody who has none.
Nobody == [id |-> 0, enabled |-> FALSE, profile |-> CHOOSE p \in Profiles : TRUE]

\* The row of a directory id is the one there is.
LEMMA TheRow ==
    ASSUME NEW table, Keyed(table), NEW r \in table
    PROVE  HelpperIn(table, r.directory_id) = Shown(r)
<1> DEFINE d == r.directory_id
           Newest(x) == x.directory_id = d /\ \A s \in table : s.directory_id = d => s.id <= x.id
<1>1. r.id \in Nat BY DEF Keyed, Row
<1>2. \A s \in table : s.directory_id = d => s = r BY DEF Keyed
<1>3. Newest(r) BY <1>1, <1>2
<1>4. (CHOOSE x \in table : Newest(x)) = r BY <1>2, <1>3
<1> QED BY <1>4 DEF HelpperIn, Shown

\* Somebody without a row.
LEMMA NoSuchRow ==
    ASSUME NEW table, NEW d, \A r \in table : r.directory_id # d
    PROVE  HelpperIn(table, d) = Nobody
BY DEF HelpperIn, Nobody

\* What the contract sees of the table has its type, and an id for every row.
LEMMA ShownType ==
    ASSUME NEW table, Keyed(table), NEW d
    PROVE  /\ HelpperIn(table, d) \in [id: Nat, enabled: BOOLEAN, profile: Profiles]
           /\ HelpperIn(table, d).id = 0 <=> \A r \in table : r.directory_id # d
<1>1. CASE \E r \in table : r.directory_id = d
  <2>1. PICK r \in table : r.directory_id = d BY <1>1
  <2>2. HelpperIn(table, d) = Shown(r) BY <2>1, TheRow
  <2>3. r \in Row BY DEF Keyed
  <2> QED BY <2>1, <2>2, <2>3 DEF Shown, Row
<1>2. CASE \A r \in table : r.directory_id # d
  <2>1. HelpperIn(table, d) = Nobody BY <1>2, NoSuchRow
  <2>2. (CHOOSE p \in Profiles : TRUE) \in Profiles BY ProfilesAssumption
  <2> QED BY <1>2, <2>1, <2>2 DEF Nobody
<1> QED BY <1>1, <1>2

\* The contract's variables follow the tables.
LEMMA Untouched ==
    ASSUME UNCHANGED tables
    PROVE  UNCHANGED Contract!contractVars
BY DEF tables, Contract!contractVars, Checkpoint

\* An insert: a new row, or a value of the sequence lost.
LEMMA InsertRefines ==
    ASSUME TableInv, NEW d \in Ids, NEW p \in Profiles, InsertHelpper(d, p)
    PROVE  TableInv' /\ Contract!ContractNext
<1>0. /\ seq' = seq + 1 /\ seq \in Nat /\ states' = states
      /\ Checkpoint(Viewer)' = Checkpoint(Viewer)
  BY DEF InsertHelpper, TableInv, Checkpoint
<1>1. CASE \E r \in rows : r.directory_id = d
  <2>1. rows' = rows BY <1>1 DEF InsertHelpper
  <2>2. TableInv' BY <1>0, <2>1 DEF TableInv, Keyed, Row, StatesOK
  <2>3. \A e : HelpperIn(rows', e) = HelpperIn(rows, e) BY <2>1 DEF HelpperIn
  <2>4. Contract!Refuse BY <1>0, <2>3 DEF Contract!Refuse
  <2> QED BY <2>2, <2>4 DEF Contract!ContractNext
<1>2. CASE \A r \in rows : r.directory_id # d
  <2> DEFINE new == [id |-> seq + 1, directory_id |-> d, enabled |-> TRUE, profile |-> p]
  <2>1. rows' = rows \cup {new} BY <1>2 DEF InsertHelpper
  <2>2. new \in Row /\ new.id = seq + 1 /\ new.directory_id = d BY <1>0 DEF Row
  <2>3. Shown(new) = [id |-> seq', enabled |-> TRUE, profile |-> p] BY <1>0 DEF Shown
  <2> HIDE DEF new
  <2>4. \A r \in rows : r \in Row /\ r.id \in Nat /\ r.id <= seq BY DEF TableInv, Keyed, Row
  <2>5. Keyed(rows) /\ Keyed(rows') /\ TableInv'
    <3>1. \A r \in rows' : r \in Row /\ r.id <= seq' BY <1>0, <2>1, <2>2, <2>4
    <3>2. \A r \in rows : r.id # new.id BY <1>0, <2>2, <2>4
    <3>3. Keyed(rows') BY <1>2, <2>1, <2>2, <3>1, <3>2 DEF TableInv, Keyed
    <3> QED BY <1>0, <3>1, <3>3 DEF TableInv, StatesOK
  <2>6. HelpperIn(rows', d) = Shown(new)
    <3>1. new \in rows' BY <2>1
    <3>2. HelpperIn(rows', new.directory_id) = Shown(new) BY <2>5, <3>1, TheRow
    <3> QED BY <2>2, <3>2
  <2>7. ASSUME NEW e \in Ids, e # d PROVE HelpperIn(rows', e) = HelpperIn(rows, e)
    <3>1. CASE \E r \in rows : r.directory_id = e
      <4>1. PICK r \in rows : r.directory_id = e BY <3>1
      <4>2. r \in rows' BY <2>1
      <4>3. HelpperIn(rows, e) = Shown(r) BY <2>5, <4>1, TheRow
      <4>4. HelpperIn(rows', e) = Shown(r) BY <2>5, <4>1, <4>2, TheRow
      <4> QED BY <4>3, <4>4
    <3>2. CASE \A r \in rows : r.directory_id # e
      <4>1. \A r \in rows' : r.directory_id # e BY <2>1, <2>2, <2>7, <3>2
      <4>2. HelpperIn(rows', e) = Nobody BY <4>1, NoSuchRow
      <4> QED BY <3>2, <4>2, NoSuchRow
    <3> QED BY <3>1, <3>2
  <2>8. HelpperIn(rows, d).id = 0 BY <1>2, <2>5, ShownType
  <2>9. Contract!Insert(d)
    <3>1. [f \in Ids |-> HelpperIn(rows', f)] =
            [[f \in Ids |-> HelpperIn(rows, f)] EXCEPT
                ![d] = [id |-> seq', enabled |-> TRUE, profile |-> p]]
      BY <2>3, <2>6, <2>7
    <3>2. seq' \in Nat /\ seq' > seq BY <1>0
    <3> QED BY <1>0, <2>8, <3>1, <3>2 DEF Contract!Insert
  <2> QED BY <2>5, <2>9 DEF Contract!ContractNext
<1> QED BY <1>1, <1>2

\* An update reaches the row that has the id, or none.
LEMMA UpdateRefines ==
    ASSUME TableInv, NEW id, NEW e \in BOOLEAN, NEW p \in Profiles, UpdateRow(id, e, p)
    PROVE  TableInv' /\ [Contract!ContractNext]_(Contract!contractVars)
<1> DEFINE Upd(r) == IF r.id = id THEN [r EXCEPT !.enabled = e, !.profile = p] ELSE r
<1>0. /\ rows' = {Upd(r) : r \in rows} /\ UNCHANGED <<seq, states>>
      /\ Checkpoint(Viewer)' = Checkpoint(Viewer)
  BY DEF UpdateRow, Checkpoint
<1>1. \A r \in rows : /\ r \in Row /\ Upd(r) \in Row
                       /\ Upd(r).id = r.id /\ Upd(r).directory_id = r.directory_id
  BY DEF TableInv, Keyed, Row
<1>2. \A r \in rows : r.id = id => Shown(Upd(r)) = [id |-> r.id, enabled |-> e, profile |-> p]
  BY <1>1 DEF Shown, TableInv, Keyed, Row
<1>3. \A r \in rows : r.id # id => Upd(r) = r OBVIOUS
<1> HIDE DEF Upd
<1>4. Keyed(rows) /\ Keyed(rows') /\ TableInv'
  <2>1. Keyed(rows') BY <1>0, <1>1 DEF TableInv, Keyed
  <2>2. \A r \in rows' : r.id <= seq' BY <1>0, <1>1 DEF TableInv
  <2> QED BY <1>0, <2>1, <2>2 DEF TableInv, StatesOK
<1>5. \A r \in rows : HelpperIn(rows', r.directory_id) = Shown(Upd(r))
  <2> TAKE r \in rows
  <2>1. Upd(r) \in rows' BY <1>0
  <2>2. HelpperIn(rows', Upd(r).directory_id) = Shown(Upd(r)) BY <1>4, <2>1, TheRow
  <2> QED BY <1>1, <2>2
<1>6. ASSUME NEW d \in Ids, \A r \in rows : r.directory_id = d => r.id # id
      PROVE  HelpperIn(rows', d) = HelpperIn(rows, d)
  <2>1. CASE \E r \in rows : r.directory_id = d
    <3>1. PICK r \in rows : r.directory_id = d BY <2>1
    <3> QED BY <1>3, <1>4, <1>5, <1>6, <3>1, TheRow
  <2>2. CASE \A r \in rows : r.directory_id # d
    <3>1. \A r \in rows' : r.directory_id # d BY <1>0, <1>1, <2>2
    <3>2. HelpperIn(rows', d) = Nobody BY <3>1, NoSuchRow
    <3> QED BY <2>2, <3>2, NoSuchRow
  <2> QED BY <2>1, <2>2
<1>7. CASE \E r \in rows : r.id = id
  <2>1. PICK r \in rows : r.id = id BY <1>7
  <2> DEFINE d == r.directory_id
  <2>2. d \in Ids BY <1>1 DEF Row
  <2>3. \A f \in Ids : f # d => HelpperIn(rows', f) = HelpperIn(rows, f)
    BY <1>4, <1>6, <2>1 DEF Keyed
  <2>4. HelpperIn(rows', d) = [id |-> HelpperIn(rows, d).id, enabled |-> e, profile |-> p]
    <3>1. HelpperIn(rows, d) = Shown(r) BY <1>4, TheRow
    <3>2. HelpperIn(rows, d).id = r.id BY <3>1 DEF Shown
    <3> QED BY <1>2, <1>5, <2>1, <3>2
  <2>5. HelpperIn(rows, d).id # 0 BY <1>4, <2>2, ShownType
  <2> HIDE DEF d
  <2>6. Contract!Overwrite(d)
    <3> DEFINE H == [f \in Ids |-> HelpperIn(rows, f)]
               G == [f \in Ids |-> HelpperIn(rows', f)]
    <3>1. H[d] = HelpperIn(rows, d) BY <2>2
    <3>2. G = [H EXCEPT ![d] = [id |-> @.id, enabled |-> e, profile |-> p]]
      BY <2>2, <2>3, <2>4
    <3>3. seq' = seq /\ Checkpoint(Viewer)' = Checkpoint(Viewer) BY <1>0
    <3>4. H[d].id # 0 BY <2>5, <3>1
    <3>5. \E x \in BOOLEAN, y \in Profiles :
             G = [H EXCEPT ![d] = [id |-> @.id, enabled |-> x, profile |-> y]]
      BY <3>2
    <3> QED BY <3>3, <3>4, <3>5 DEF Contract!Overwrite
  <2> QED BY <1>4, <2>2, <2>6 DEF Contract!ContractNext
<1>8. CASE \A r \in rows : r.id # id
  <2>1. \A d \in Ids : HelpperIn(rows', d) = HelpperIn(rows, d) BY <1>6, <1>8
  <2>2. UNCHANGED Contract!contractVars BY <1>0, <2>1 DEF Contract!contractVars
  <2> QED BY <1>4, <2>2
<1> QED BY <1>7, <1>8

\* A checkpoint set: the viewer's moves, another's is not seen.
LEMMA UpsertRefines ==
    ASSUME TableInv, NEW q \in Partners, NEW t0, Statement("tail", q, t0)
    PROVE  TableInv' /\ [Contract!ContractNext]_(Contract!contractVars)
<1>1. PICK t \in Nat : t > Epoch /\ Checkpoint(q)' = t /\ UpsertCheckpoint(q, t)
  BY StatementSets DEF TableInv
<1>2. StatesOK' /\ \A p : p # q => Checkpoint(p)' = Checkpoint(p)
  BY StatementSets DEF TableInv
<1>3. UNCHANGED <<rows, seq>> BY <1>1 DEF UpsertCheckpoint
<1>4. TableInv' BY <1>2, <1>3 DEF TableInv
<1>5. \A d : HelpperIn(rows', d) = HelpperIn(rows, d) BY <1>3 DEF HelpperIn
<1>6. CASE q = Viewer
  <2>1. t \in Nat \ {0} BY <1>1 DEF Epoch
  <2>2. Contract!MoveCheckpoint
    BY <1>1, <1>3, <1>5, <1>6, <2>1 DEF Contract!MoveCheckpoint
  <2> QED BY <1>4, <2>2 DEF Contract!ContractNext
<1>7. CASE q # Viewer
  <2>1. Checkpoint(Viewer)' = Checkpoint(Viewer) BY <1>2, <1>7
  <2> QED BY <1>3, <1>4, <1>5, <2>1 DEF Contract!contractVars
<1> QED BY <1>6, <1>7

\* A statement is a step of the contract, whether its caller still waits for it
\* or is gone.
LEMMA StatementRefines ==
    ASSUME TableInv, NEW kind, NEW q \in Partners, NEW t0, Statement(kind, q, t0)
    PROVE  TableInv' /\ [Contract!ContractNext]_(Contract!contractVars)
<1>1. CASE kind = "body"
  <2>1. PICK p \in Profiles : \/ \E d \in Ids : InsertHelpper(d, p)
                              \/ \E id \in 1 .. MaxSeq, e \in BOOLEAN : UpdateRow(id, e, p)
    BY <1>1 DEF Statement
  <2> QED BY <2>1, InsertRefines, UpdateRefines
<1>2. CASE kind = "tail" BY <1>2, UpsertRefines
<1> QED BY <1>1, <1>2 DEF Statement

\* Every step of the replicas is a step of the contract, or is not seen.
LEMMA TableStep ==
    ASSUME TableInv, adrift \subseteq Stray, [ReplicasNext]_vars
    PROVE  TableInv' /\ [Contract!ContractNext]_(Contract!contractVars)
<1>1. CASE UNCHANGED tables
  <2>1. TableInv' BY <1>1 DEF TableInv, tables, StatesOK
  <2> QED BY <1>1, <2>1, Untouched
<1>2. ASSUME NEW c \in Callers, Query(c)
      PROVE  TableInv' /\ [Contract!ContractNext]_(Contract!contractVars)
  <2>1. PartnerOf[c] \in Partners BY DEF Partners
  <2>2. \/ UNCHANGED tables
        \/ Statement("body", PartnerOf[c], found[c])
        \/ Statement("tail", PartnerOf[c], found[c])
    BY <1>2 DEF Query
  <2> QED BY <1>1, <2>1, <2>2, StatementRefines
<1>3. ASSUME NEW c \in Callers,
             \/ Acquire(c) \/ TryLock(c) \/ ReturnFn(c) \/ UnlockAndRelease(c) \/ Interrupted(c)
             \/ Ask(c) \/ Expire(c) \/ LoseSession(c)
      PROVE  UNCHANGED tables
  BY <1>3 DEF Acquire, TryLock, ReturnFn, UnlockAndRelease, Interrupted, Ask, Expire, LoseSession
<1>4. CASE (\E p \in Procs : Die(p)) \/ UNCHANGED vars
  BY <1>1, <1>4 DEF Die, vars, tables
<1>5. ASSUME NEW s \in adrift, Land(s)
      PROVE  TableInv' /\ [Contract!ContractNext]_(Contract!contractVars)
  <2>1. s.partner \in Partners BY DEF Stray
  <2>2. Statement(s.stage, s.partner, s.found) BY <1>5 DEF Land
  <2> QED BY <2>1, <2>2, StatementRefines
<1> QED BY <1>1, <1>2, <1>3, <1>4, <1>5 DEF ReplicasNext, CallStep

\* An empty table is a base the contract allows, whichever partners have a row
\* of their own in the other.
LEMMA TableInit == ReplicasInit => TableInv /\ Contract!ContractInit
<1> SUFFICES ASSUME ReplicasInit PROVE TableInv /\ Contract!ContractInit OBVIOUS
<1>0. PICK S \in SUBSET Partners : states = [q \in S |-> Epoch] BY DEF ReplicasInit
<1>1. TableInv
  <2>1. StatesOK BY <1>0 DEF StatesOK, Epoch
  <2> QED BY <2>1 DEF ReplicasInit, TableInv, Keyed
<1>2. \A d \in Ids : HelpperIn(rows, d).id = 0 BY <1>1, ShownType DEF ReplicasInit, TableInv
<1>3. [d \in Ids |-> HelpperIn(rows, d)] \in [Ids -> [id: Nat, enabled: BOOLEAN, profile: Profiles]]
  BY <1>1, ShownType DEF TableInv
<1>4. Checkpoint(Viewer) = 0 BY <1>0 DEF Checkpoint
<1>5. seq = 0 BY DEF ReplicasInit
<1>6. Contract!ContractInit BY <1>2, <1>3, <1>4, <1>5 DEF Contract!ContractInit
<1> QED BY <1>1, <1>6

\* The two tables, used by any number of processes at once, with or without the
\* lock, and also by statements that outlive their callers, implement the
\* contract the reconciler is written against.
THEOREM PostgresKeepsContract == ReplicasSpec => TablesKeepContract
<1>1. TableInv /\ ReplicasTypeOK /\ [ReplicasNext]_vars
      => TableInv' /\ [Contract!ContractNext]_(Contract!contractVars)
  BY TableStep DEF ReplicasTypeOK
<1> QED BY <1>1, TableInit, ReplicasTypes, PTL
        DEF ReplicasSpec, TablesKeepContract, Contract!ContractSpec
================================================================================
