-------------------------------- MODULE Daemon ---------------------------------
(****************************************************************************)
(* The worker process of cmd/directorysyncd: it refuses an in-memory store  *)
(* unless told otherwise, asks the directory what it supports, runs a full  *)
(* cycle, then serves two tickers until a signal ends it.  It can also die  *)
(* at any moment; the store it is built with is store/memory, so a new      *)
(* process starts from an empty base, whatever the directory holds by then. *)
(*                                                                          *)
(* The cycles are Syncer's, step by step, with the alerts they raise.  The  *)
(* metrics are cut down to what /readyz answers.                            *)
(****************************************************************************)
EXTENDS Syncer

CONSTANTS
    Configs,      \* answers to ServiceProviderConfig, see Preflight
    MaxRestarts   \* bound on the processes started after the first

ASSUME DaemonAssumption ==
    /\ IsFiniteSet(Workers) /\ Cardinality(Workers) = 1
    /\ Kinds = {"inc", "full"}
    /\ Known = {}
    /\ Configs \subseteq {"ok", "error", "rejected", "noFilter", "noPatch"}
    /\ MaxRestarts \in Nat

VARIABLES
    flags,      \* [once, allowMemory]; -dry-run is DryRun
    mode,       \* where run() is
    stopping,   \* a signal has cancelled its context
    incTick,    \* a tick waits in incTicker.C ...
    fullTick,   \* ... or in fullTicker.C
    ready,      \* metrics.cycles is not zero
    alerted,    \* the keys alertOnce has seen in this process
    restarts    \* processes started after the first

daemonVars == <<flags, mode, stopping, incTick, fullTick, ready, alerted, restarts>>
allVars == <<users, said, clock, changes, helppers, nextID, checkpoint,
             pc, cycle, walk, todo, snap, cur, hand, drift, faults,
             flags, mode, stopping, incTick, fullTick, ready, alerted, restarts>>

W == CHOOSE w \in Workers : TRUE

Alive == {"preflight", "seed", "cycle", "select", "leaving"}
Keys == ({"malformed", "conflict"} \X Ids) \cup {<<"future", 0>>}

\* Every variable has its type, and a cycle is under way in no other mode.
DaemonTypeOK ==
    /\ TypeOK
    /\ flags \in [once: BOOLEAN, allowMemory: BOOLEAN]
    /\ mode \in Alive \cup {"down", "exited"}
    /\ stopping \in BOOLEAN /\ incTick \in BOOLEAN /\ fullTick \in BOOLEAN
    /\ ready \in BOOLEAN
    /\ alerted \subseteq Keys
    /\ restarts \in 0 .. MaxRestarts
    /\ mode = "cycle" <=> pc[W] # "idle"

\* The helppers of memory.New: none.
NoHelppers == [d \in Ids |-> [id |-> 0, enabled |-> FALSE,
                              profile |-> CHOOSE p \in Profiles : TRUE]]

DaemonInit ==
    /\ Init
    /\ helppers = NoHelppers
    /\ flags \in [once: BOOLEAN, allowMemory: BOOLEAN]
    /\ mode = "down"
    /\ stopping = FALSE
    /\ incTick = FALSE
    /\ fullTick = FALSE
    /\ ready = FALSE
    /\ alerted = {}
    /\ restarts = 0

syncerVars == <<dirVars, storeVars, localVars, faults>>

--------------------------------------------------------------------------------
(* Starting and stopping.                                                   *)

\* The process is gone, and everything in its memory: the base of helppers, the
\* checkpoint and the id counter of memory.New, the alerts, the metrics.
Gone(where) ==
    /\ mode' = where
    /\ helppers' = NoHelppers
    /\ nextID' = FirstID
    /\ checkpoint' = 0
    /\ alerted' = {}
    /\ ready' = FALSE /\ stopping' = FALSE /\ incTick' = FALSE /\ fullTick' = FALSE

\* Mutant: no guard, the in-memory store is used whatever the flags.
RefusesNothing == FALSE

\* An ephemeral store, and neither -dry-run nor -allow-ephemeral-store.
Refuses == ~DryRun /\ ~flags.allowMemory

\* run() begins.
Boot ==
    /\ mode = "down"
    /\ mode' = IF Refuses THEN "exited" ELSE "preflight"
    /\ UNCHANGED <<syncerVars, flags, stopping, incTick, fullTick, ready, alerted, restarts>>

\* preflight: a rejected credential or a missing capability is fatal, any other
\* error is not.
Preflight ==
    /\ mode = "preflight"
    /\ \E answer \in IF stopping THEN {"error"} ELSE Configs :
          IF answer \in {"ok", "error"}
          THEN mode' = "seed" /\ UNCHANGED <<storeVars, stopping, incTick, fullTick, ready, alerted>>
          ELSE Gone("exited")
    /\ UNCHANGED <<dirVars, localVars, faults, flags, restarts>>

\* SIGINT or SIGTERM cancels the context of everything.
Signal ==
    /\ mode \in Alive /\ ~stopping
    /\ stopping' = TRUE
    /\ UNCHANGED <<syncerVars, flags, mode, incTick, fullTick, ready, alerted, restarts>>

\* The process dies, wherever it is.
Crash ==
    /\ mode \in Alive
    /\ restarts < MaxRestarts
    /\ restarts' = restarts + 1
    /\ Gone("down")
    /\ Return(W)
    /\ UNCHANGED <<dirVars, faults, flags>>

\* Somebody starts it again after it exited.
Restart ==
    /\ mode = "exited"
    /\ restarts < MaxRestarts
    /\ restarts' = restarts + 1
    /\ mode' = "down"
    /\ UNCHANGED <<syncerVars, flags, stopping, incTick, fullTick, ready, alerted>>

--------------------------------------------------------------------------------
(* The loop.                                                                *)

\* Mutant: the tickers are stopped when the first cycle is over.
TickingStopped == mode = "cycle" /\ ready

\* A ticker's channel holds one tick; the next ones are dropped.  The tickers
\* exist once the first cycle is over.
Ticking == ready /\ mode \in {"select", "cycle"}

TickInc ==
    /\ Ticking /\ ~incTick
    /\ incTick' = TRUE
    /\ UNCHANGED <<syncerVars, flags, mode, stopping, fullTick, ready, alerted, restarts>>

TickFull ==
    /\ Ticking /\ ~fullTick
    /\ fullTick' = TRUE
    /\ UNCHANGED <<syncerVars, flags, mode, stopping, incTick, ready, alerted, restarts>>

Begin(kind) ==
    /\ Start(W, kind)
    /\ mode' = "cycle"
    /\ UNCHANGED <<flags, stopping, ready, alerted, restarts>>

\* The first full cycle, before the tickers exist.
Seed == mode = "seed" /\ Begin("full") /\ UNCHANGED <<incTick, fullTick>>

\* select takes any of the cases that are ready.
SelectFull ==
    /\ mode = "select" /\ fullTick
    /\ fullTick' = FALSE
    /\ Begin("full") /\ UNCHANGED incTick

SelectInc ==
    /\ mode = "select" /\ incTick
    /\ incTick' = FALSE
    /\ Begin("inc") /\ UNCHANGED fullTick

\* run() returns: after the one cycle of -once, or when select sees that the
\* context has ended.
Leave ==
    /\ mode = "leaving" \/ (mode = "select" /\ stopping)
    /\ Gone("exited")
    /\ UNCHANGED <<dirVars, localVars, faults, flags, restarts>>

--------------------------------------------------------------------------------
(* A cycle, and what the process does when it returns.                      *)

\* Mutant: the key is kept and the alert is not raised.
AlertNever(key) == UNCHANGED alerted

\* alertOnce.
AlertOnce(key) == alerted' = alerted \cup {key}

\* The directory refuses the write-back.
Refused == pc[W] = "patch" /\ users[cur[W]].present /\ Conflicts(cur[W], hand[W])

\* advance leaves the checkpoint alone because the watermark is in the future.
FutureWatermark ==
    /\ pc[W] = "drifted" \/ (pc[W] = "walk" /\ todo[W] = {})
    /\ LET wm == Watermark(walk[W])
       IN  wm > cycle[W].cp /\ wm > clock + LocalSkew + FutureSkew

\* One step of the cycle, with the alert it raises.  A cancelled context fails
\* the next request; the calls of store/memory do not look at it.  The store is
\* the process's own, so no race to create a helpper is lost.
CycleStep ==
    \/ \E d \in Ids : Malformed(W, d) /\ AlertOnce(<<"malformed", d>>)
    \/ /\ \E d \in Ids : SkipInactive(W, d) \/ FindNew(W, d) \/ FindKnown(W, d)
       /\ UNCHANGED alerted
    \/ /\ Create(W) \/ Update(W) \/ GiveUp(W) \/ ReportDrift(W)
       /\ UNCHANGED alerted
    \/ ~stopping /\ FetchPage(W) /\ UNCHANGED alerted
    \/ ~stopping /\ Refused /\ WriteBack(W) /\ AlertOnce(<<"conflict", cur[W]>>)
    \/ ~stopping /\ ~Refused /\ WriteBack(W) /\ UNCHANGED alerted
    \/ Advance(W) /\ IF FutureWatermark THEN AlertOnce(<<"future", 0>>) ELSE UNCHANGED alerted

\* Mutant: a request that does not look at its context.
CancelledNever == stopping /\ pc[W] = "none" /\ Return(W) /\ UNCHANGED <<dirVars, storeVars, faults, alerted>>

\* The request that a cancelled context fails.
Cancelled ==
    /\ stopping
    /\ pc[W] = "patch" \/ (pc[W] = "walk" /\ todo[W] = {} /\ walk[W].status = "more")
    /\ Return(W)
    /\ UNCHANGED <<dirVars, storeVars, faults, alerted>>

\* Mutant: a cycle that fails returns without unlocking the mutex.
RecordedLocked ==
    IF pc'[W] = "idle"
    THEN ready' = TRUE /\ mode' = IF checkpoint' = 0 THEN "cycle" ELSE "select"
    ELSE UNCHANGED <<ready, mode>>

\* metrics.record and what follows a cycle: -once leaves, else the loop goes on.
Recorded ==
    IF pc'[W] = "idle"
    THEN ready' = TRUE /\ mode' = IF flags.once THEN "leaving" ELSE "select"
    ELSE UNCHANGED <<ready, mode>>

Work ==
    /\ mode = "cycle"
    /\ CycleStep \/ Cancelled
    /\ Recorded
    /\ UNCHANGED <<flags, stopping, incTick, fullTick, restarts>>

\* What goes wrong in a cycle: a request fails for good, an answer is lost, the
\* deadline passes.
Trouble ==
    /\ mode = "cycle"
    /\ Abort(W) \/ LoseAnswer(W) \/ Timeout(W)
    /\ Recorded
    /\ UNCHANGED <<flags, stopping, incTick, fullTick, alerted, restarts>>

Outside == (Environment \/ Tick) /\ UNCHANGED daemonVars

Progress == Boot \/ Preflight \/ Seed \/ SelectFull \/ SelectInc \/ Leave \/ Work

DaemonNext ==
    \/ Progress \/ TickInc \/ TickFull
    \/ Signal \/ Crash \/ Restart \/ Trouble \/ Outside

\* The process runs, its tickers tick, and select does not pass over a case
\* that is ready for ever: it chooses at random.
DaemonSpec ==
    /\ DaemonInit /\ [][DaemonNext]_allVars
    /\ WF_allVars(Progress) /\ WF_allVars(TickInc) /\ WF_allVars(TickFull)
    /\ SF_allVars(SelectFull) /\ SF_allVars(SelectInc) /\ SF_allVars(Leave)

--------------------------------------------------------------------------------
\* Without -allow-ephemeral-store no externalId the directory holds is ever
\* replaced, on whatever path the process starts, dies and starts again.
RealIdsSurvive ==
    [][~flags.allowMemory =>
         \A d \in Ids : users'[d].externalId \in {0, users[d].externalId}]_allVars

\* "So a restart tells you whether it is still there" (OPERATIONS.md): a usable
\* record whose binding is wrong, and which the next incremental cycle will not
\* read, is one this process has raised an alert for.
WrongBindingIsKnown ==
    ready => \A d \in Ids :
       Dated(d) /\ Usable(users[d]) /\ ~NotFound(d)
       => \/ users[d].externalId = helppers[d].id
          \/ Pending(d)
          \/ <<"conflict", d>> \in alerted

\* After a signal the process exits, cycle and ticks notwithstanding; so does
\* a process that was asked for one cycle.
Terminates ==
    (mode \in Alive /\ (stopping \/ flags.once)) ~> mode \in {"exited", "down"}

\* Once changes and failures stop and the process stays up, every usable record
\* is in agreement for good, and bound to its helpper unless this process has
\* alerted that the directory refuses the id: an earlier process gave it to
\* somebody else, or a record that is not converged any more carries it.
Settles ==
    <>[](mode \in {"select", "cycle"} /\ ~stopping)
    => <>[](\A d \in Ids : Dated(d) /\ Usable(users[d]) =>
               \/ Converged(d)
               \/ Agrees(d) /\ <<"conflict", d>> \in alerted)
================================================================================
