------------------------------- MODULE Replicas --------------------------------
(****************************************************************************)
(* Replicas of the worker on one Postgres database (store/postgres), whose  *)
(* schema is up to date (see Migrate).  The callers of a process, one for   *)
(* each partner directory, run their cycles inside WithSyncLock.  A caller  *)
(* keeps one connection of the process's pool for the lock, while the       *)
(* cycle's store calls take more from the same pool, one for each           *)
(* statement.                                                               *)
(*                                                                          *)
(* The cycle itself is cut down to what it does to the database: it reads   *)
(* the checkpoint, creates or updates a helpper, and may move the           *)
(* checkpoint forward at the end.  Postgres and pgxpool are external.       *)
(****************************************************************************)
EXTENDS Identities

CONSTANTS
    Procs,       \* the processes
    Callers,     \* the goroutines that call WithSyncLock
    ProcessOf,   \* the process of each
    PartnerOf,   \* and the partner its Store is made for
    PoolSize,    \* connections in the pool of a process
    MaxSeq,      \* bound on the ids drawn from the sequence
    MaxStamp,    \* bound on the watermarks
    MaxFaults    \* bound on failures

ASSUME ReplicasAssumption ==
    /\ IsFiniteSet(Callers) /\ Callers # {}
    /\ ProcessOf \in [Callers -> Procs]
    /\ PoolSize \in Nat \ {0}
    /\ MaxSeq \in Nat
    /\ MaxStamp \in Nat /\ MaxStamp > 1
    /\ MaxFaults \in Nat

VARIABLES
    at,        \* where each caller is in WithSyncLock
    stage,     \* how far its cycle is
    found,     \* the checkpoint the cycle read
    expired,   \* the callers whose context is done
    held,      \* the callers whose session holds the lock of their partner
    used,      \* connections taken from the pool of each process
    broken,    \* history: partners whose lock was lost under a running cycle
    rows,      \* table helppers
    seq,       \* the last value drawn from its sequence
    states,    \* table directory_sync_state: the checkpoint of each partner with a row
    adrift,    \* the statements whose caller is gone, and whether they took effect
    faults     \* failures so far

tables == <<rows, seq, states>>
vars == <<at, stage, found, expired, held, used, broken, rows, seq, states, adrift, faults>>

Partners == {PartnerOf[c] : c \in Callers}

\* The 'epoch' a row of directory_sync_state comes with.  Go's zero time, which
\* is what a store that has never synchronized answers, is 0; the stamps of a
\* directory are later than both.
Epoch == 1

\* A row of helppers.
Row == [id: Nat \ {0}, directory_id: Ids, enabled: BOOLEAN, profile: Profiles]

Inside == {"fn", "query", "unlock"}

\* A statement left behind: the stage and the partner of its cycle, and the
\* checkpoint the cycle had read.
Stray == [stage: {"body", "tail"}, partner: Partners, found: Nat \ {Epoch}, done: BOOLEAN]

\* Every variable has its type.  In particular no cycle takes the 'epoch' of a
\* row that was never set for a checkpoint.
ReplicasTypeOK ==
    /\ at \in [Callers -> {"out", "try"} \cup Inside]
    /\ stage \in [Callers -> {"begin", "body", "tail", "end"}]
    /\ found \in [Callers -> Nat \ {Epoch}]
    /\ expired \subseteq Callers
    /\ held \subseteq Callers
    /\ used \in [Procs -> 0 .. PoolSize]
    /\ broken \subseteq Partners
    /\ rows \subseteq Row
    /\ seq \in Nat
    /\ DOMAIN states \subseteq Partners
    /\ states \in [DOMAIN states -> Nat \ {0}]
    /\ adrift \subseteq Stray
    /\ faults \in Nat

ReplicasInit ==
    /\ at = [c \in Callers |-> "out"]
    /\ stage = [c \in Callers |-> "begin"]
    /\ found = [c \in Callers |-> 0]
    /\ expired = {}
    /\ held = {}
    /\ used = [p \in Procs |-> 0]
    /\ broken = {}
    /\ rows = {}
    /\ seq = 0
    /\ \E S \in SUBSET Partners : states = [q \in S |-> Epoch]
    /\ adrift = {}
    /\ faults = 0

Move(c, place) == at' = [at EXCEPT ![c] = place]
TakeConn(c) == used[ProcessOf[c]] < PoolSize /\ used' = [used EXCEPT ![ProcessOf[c]] = @ + 1]
ReleaseConn(c) == used' = [used EXCEPT ![ProcessOf[c]] = @ - 1]

\* The caller is out again, and its cycle's variables are gone.
Out(c) ==
    /\ Move(c, "out")
    /\ stage' = [stage EXCEPT ![c] = "begin"]
    /\ found' = [found EXCEPT ![c] = 0]
    /\ expired' = expired \ {c}

--------------------------------------------------------------------------------
(* WithSyncLock.                                                            *)

\* A caller gets a connection.  (One whose context ends while it waits for it
\* returns an error, and is where it was.)
Acquire(c) ==
    /\ at[c] = "out"
    /\ TakeConn(c)
    /\ Move(c, "try")
    /\ UNCHANGED <<faults, tables, adrift, stage, found, expired, held, broken>>

\* Mutant: `acquired' is not looked at.
TryLockAnyway(c) ==
    /\ at[c] = "try" /\ c \notin expired
    /\ held' = held \cup {c}
    /\ Move(c, "fn")
    /\ UNCHANGED <<faults, tables, adrift, stage, found, expired, used, broken>>

\* Mutant: pg_try_advisory_xact_lock, which ends with its statement.
TryLockXact(c) ==
    /\ at[c] = "try" /\ c \notin expired
    /\ Move(c, "fn")
    /\ UNCHANGED <<faults, tables, adrift, stage, found, expired, held, used, broken>>

\* Mutant: the connection is not released when the lock is held by another.
TryLockLeaking(c) ==
    /\ at[c] = "try" /\ c \notin expired
    /\ IF \E d \in held : PartnerOf[d] = PartnerOf[c]
       THEN Out(c) /\ UNCHANGED <<held, used>>
       ELSE held' = held \cup {c} /\ Move(c, "fn") /\ UNCHANGED <<stage, found, expired, used>>
    /\ UNCHANGED <<faults, tables, adrift, broken>>

\* pg_try_advisory_lock: does not wait; the answer no is ErrLockHeld.
TryLock(c) ==
    /\ at[c] = "try" /\ c \notin expired
    /\ IF \E d \in held : PartnerOf[d] = PartnerOf[c]
       THEN Out(c) /\ ReleaseConn(c) /\ UNCHANGED held
       ELSE held' = held \cup {c} /\ Move(c, "fn") /\ UNCHANGED <<stage, found, expired, used>>
    /\ UNCHANGED <<faults, tables, adrift, broken>>

\* The cycle makes a store call, and waits for a connection of its own.  The
\* last one, SetCheckpoint, is made when it has a later watermark.
Ask(c) ==
    /\ at[c] = "fn" /\ c \notin expired
    /\ stage[c] = "tail" => found[c] < MaxStamp
    /\ TakeConn(c)
    /\ Move(c, "query")
    /\ UNCHANGED <<faults, tables, adrift, stage, found, expired, held, broken>>

\* fn returns without moving the checkpoint: there is no later watermark, or
\* the context is done.
ReturnFn(c) ==
    /\ at[c] = "fn"
    /\ stage[c] = "tail" \/ c \in expired
    /\ stage' = [stage EXCEPT ![c] = IF c \in expired THEN @ ELSE "end"]
    /\ found' = [found EXCEPT ![c] = 0]
    /\ Move(c, "unlock")
    /\ UNCHANGED <<faults, tables, adrift, expired, held, used, broken>>

\* Mutant: the unlock is sent with ctx, and is not sent at all once ctx is done.
UnlockWithCtx(c) ==
    /\ at[c] = "unlock"
    /\ held' = IF c \in expired THEN held ELSE held \ {c}
    /\ ReleaseConn(c)
    /\ Out(c)
    /\ UNCHANGED <<faults, tables, adrift, broken>>

\* The deferred unlock, whatever the state of ctx, and the deferred Release.
UnlockAndRelease(c) ==
    /\ at[c] = "unlock"
    /\ held' = held \ {c}
    /\ ReleaseConn(c)
    /\ Out(c)
    /\ UNCHANGED <<faults, tables, adrift, broken>>

--------------------------------------------------------------------------------
(* The statements of the store, each atomic.                                *)

\* Mutant: what the row holds.
CheckpointEpoch(q) == IF q \notin DOMAIN states THEN 0 ELSE states[q]

\* Checkpoint: no row, and the epoch of a row that was never set, read as the
\* zero time.
Checkpoint(q) == IF q \notin DOMAIN states \/ states[q] = Epoch THEN 0 ELSE states[q]

\* Mutant: no unique index on directory_id.
InsertAgain(d, profile) ==
    /\ seq < MaxSeq
    /\ seq' = seq + 1
    /\ rows' = rows \cup {[id |-> seq + 1, directory_id |-> d, enabled |-> TRUE, profile |-> profile]}
    /\ UNCHANGED states

\* CreateHelpper: "on conflict do nothing".  A value is drawn from the sequence
\* before the conflict is noticed, and is not given back.
InsertHelpper(d, profile) ==
    /\ seq < MaxSeq
    /\ seq' = seq + 1
    /\ rows' = IF \E r \in rows : r.directory_id = d THEN rows
               ELSE rows \cup {[id |-> seq + 1, directory_id |-> d,
                                enabled |-> TRUE, profile |-> profile]}
    /\ UNCHANGED states

\* UpdateHelpper: no row has the id, and it is ErrNotFound.
UpdateRow(id, enabled, profile) ==
    /\ rows' = {IF r.id = id
                THEN [r EXCEPT !.enabled = enabled, !.profile = profile]
                ELSE r : r \in rows}
    /\ UNCHANGED <<seq, states>>

\* SetCheckpoint: insert, or update on conflict; nothing is compared.
UpsertCheckpoint(q, t) ==
    /\ states' = [p \in DOMAIN states \cup {q} |-> IF p = q THEN t ELSE states[p]]
    /\ UNCHANGED <<rows, seq>>

\* What a cycle's statement does to the tables: a helpper is created or updated,
\* or the checkpoint is set to a watermark later than the one that was read.
Statement(kind, q, t0) ==
    \/ /\ kind = "body"
       /\ \E p \in Profiles :
             \/ \E d \in Ids : InsertHelpper(d, p)
             \/ \E id \in 1 .. MaxSeq, e \in BOOLEAN : UpdateRow(id, e, p)
    \/ /\ kind = "tail"
       /\ \E t \in (Epoch + 1) .. MaxStamp : t > t0 /\ UpsertCheckpoint(q, t)

\* The statement of the cycle takes effect and its connection is released; fn
\* returns after the last one.
Query(c) ==
    /\ at[c] = "query"
    /\ \/ /\ stage[c] = "begin"
          /\ found' = [found EXCEPT ![c] = Checkpoint(PartnerOf[c])]
          /\ stage' = [stage EXCEPT ![c] = "body"]
          /\ Move(c, "fn")
          /\ UNCHANGED tables
       \/ /\ stage[c] = "body"
          /\ Statement("body", PartnerOf[c], found[c])
          /\ stage' = [stage EXCEPT ![c] = "tail"]
          /\ Move(c, "fn")
          /\ UNCHANGED found
       \/ /\ stage[c] = "tail"
          /\ Statement("tail", PartnerOf[c], found[c])
          /\ stage' = [stage EXCEPT ![c] = "end"]
          /\ found' = [found EXCEPT ![c] = 0]
          /\ Move(c, "unlock")
    /\ ReleaseConn(c)
    /\ UNCHANGED <<faults, adrift, expired, held, broken>>

--------------------------------------------------------------------------------
(* Failure.                                                                 *)

Fault == faults < MaxFaults /\ faults' = faults + 1

\* The context of a caller is done.
Expire(c) ==
    /\ at[c] # "out" /\ c \notin expired
    /\ Fault
    /\ expired' = expired \cup {c}
    /\ UNCHANGED <<tables, adrift, at, stage, found, held, used, broken>>

\* The writes of callers that the database may still be at when they are gone.
Left(callers) ==
    {[stage |-> stage[c], partner |-> PartnerOf[c],
      found |-> IF stage[c] = "tail" THEN found[c] ELSE 0, done |-> FALSE] :
        c \in {d \in callers : at[d] = "query" /\ stage[d] \in {"body", "tail"}}}

\* A statement that is interrupted returns an error; its connection is closed,
\* and what its session had locked is free.  A write that was sent is not taken
\* back by that.
Interrupted(c) ==
    /\ c \in expired
    /\ \/ at[c] = "try" /\ Out(c) /\ ReleaseConn(c)
       \/ at[c] = "query" /\ Move(c, "fn") /\ ReleaseConn(c) /\ UNCHANGED <<stage, found, expired>>
    /\ adrift' = adrift \cup Left({c})
    /\ UNCHANGED <<faults, tables, held, broken>>

\* A statement takes effect after its caller is gone, as it may or may not.
Land(s) ==
    /\ s \in adrift /\ ~s.done
    /\ Statement(s.stage, s.partner, s.found)
    /\ adrift' = (adrift \ {s})
                 \cup {[stage |-> s.stage, partner |-> s.partner, found |-> 0, done |-> TRUE]}
    /\ UNCHANGED <<faults, at, stage, found, expired, held, used, broken>>

\* The database loses the session that holds the lock; the cycle, which works
\* on other connections, goes on.
LoseSession(c) ==
    /\ c \in held /\ Fault
    /\ held' = held \ {c}
    /\ broken' = broken \cup {PartnerOf[c]}
    /\ UNCHANGED <<tables, adrift, at, stage, found, expired, used>>

\* A process dies, and starts again; the database frees its locks.
Die(p) ==
    /\ Fault
    /\ LET mine == {c \in Callers : ProcessOf[c] = p}
       IN  /\ at' = [c \in Callers |-> IF c \in mine THEN "out" ELSE at[c]]
           /\ stage' = [c \in Callers |-> IF c \in mine THEN "begin" ELSE stage[c]]
           /\ found' = [c \in Callers |-> IF c \in mine THEN 0 ELSE found[c]]
           /\ expired' = expired \ mine
           /\ held' = held \ mine
           /\ adrift' = adrift \cup Left(mine)
    /\ used' = [used EXCEPT ![p] = 0]
    /\ UNCHANGED <<tables, broken>>

CallStep(c) ==
    \/ Acquire(c) \/ TryLock(c) \/ Query(c) \/ ReturnFn(c) \/ UnlockAndRelease(c)
    \/ Interrupted(c)

ReplicasNext ==
    \/ \E c \in Callers : CallStep(c) \/ Ask(c) \/ Expire(c) \/ LoseSession(c)
    \/ \E p \in Procs : Die(p)
    \/ \E s \in adrift : Land(s)

\* Processes go on, and the pool serves those who wait for a connection in turn.
ReplicasSpec ==
    /\ ReplicasInit /\ [][ReplicasNext]_vars
    /\ \A c \in Callers : WF_vars(CallStep(c)) /\ SF_vars(Ask(c))

--------------------------------------------------------------------------------
\* The lock of a partner is never left behind: it belongs to a caller that is
\* still inside WithSyncLock, also when its context ended before the unlock.
LockIsInside == \A c \in held : at[c] \in Inside

\* Every connection taken is given back once: the pool counts one for each
\* caller between Acquire and Release and one for each statement under way.
PoolBalanced ==
    \A p \in Procs :
        used[p] = Cardinality({c \in Callers : ProcessOf[c] = p /\ at[c] \in {"try"} \cup Inside})
                  + Cardinality({c \in Callers : ProcessOf[c] = p /\ at[c] = "query"})

\* As long as no session is lost, one cycle of a partner runs at a time, in
\* whichever processes.
OneAtATime ==
    \A c, d \in Callers :
        /\ c # d /\ PartnerOf[c] = PartnerOf[d]
        /\ at[c] \in {"fn", "query"} /\ at[d] \in {"fn", "query"}
        => PartnerOf[c] \in broken

\* The partners of whom a SetCheckpoint outlived its caller, and so the lock.
Strayed == {s.partner : s \in {r \in adrift : r.stage = "tail"}}

\* The store compares nothing, and yet no checkpoint moves back: a cycle that
\* holds the lock is the only one that read and will write it.  The lock covers
\* no more than that: not a cycle whose session was lost, and not a SetCheckpoint
\* that the database executes after its caller gave up.
CheckpointMonotone ==
    [][\A q \in Partners \ (broken' \cup Strayed') : Checkpoint(q)' >= Checkpoint(q)]_vars

\* The row of a directory id in the table, the newest if there were several.
HelpperIn(table, d) ==
    IF \E r \in table : r.directory_id = d
    THEN LET row == CHOOSE r \in table :
                       /\ r.directory_id = d
                       /\ \A s \in table : s.directory_id = d => s.id <= r.id
         IN  [id |-> row.id, enabled |-> row.enabled, profile |-> row.profile]
    ELSE [id |-> 0, enabled |-> FALSE, profile |-> CHOOSE p \in Profiles : TRUE]

\* The partner through whose Store the tables are looked at: any of them.
Viewer == CHOOSE q \in Partners : TRUE

Contract == INSTANCE StoreContract WITH
    helppers <- [d \in Ids |-> HelpperIn(rows, d)],
    nextID <- seq, checkpoint <- Checkpoint(Viewer)

\* The tables keep the promises of store.Store, with or without the lock, through
\* refused inserts, interrupted statements and processes that die.
TablesKeepContract == Contract!ContractSpec

\* Cycles of every partner come to their end again and again once failures
\* stop: nobody keeps the lock, and the pool is never used up by the lockers.
CyclesComplete ==
    \A q \in Partners : []<>(\E c \in Callers : PartnerOf[c] = q /\ stage[c] = "end")
================================================================================
