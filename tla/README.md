# Provisioning reconciler: TLA+ models, checks and proofs

This directory models the worker that keeps the local base of *helppers* in
agreement with a partner's SCIM 2.0 directory. TLC checks the models on small
instances; TLAPS proves the central results for every value of the constants.
`PROJECT.json` maps every definition to the lines it translates, and lists the
runs, the mutants that show each property can fail, the findings, the hazards
and the theorems.

## 1. The system

| Part | Source | State | Operations |
|---|---|---|---|
| Reconciler | `directory/directory.go` | none between cycles, except the set of alerts already sent; within a cycle the checkpoint it read, the page, the newest stamp, the oldest unusable stamp, the drift report | `Incremental`, `Full`; inside them `walkWith`, `apply`, `ensureHelpper`, `syncState`, `writeBack`, `advance`, `alertOnce` |
| Pagination | `scim/client.go` (`ListUsers`) | the cursor, the page count, the page limit, the id of the last page's first record | one GET per page, the callback for each record of it |
| SCIM client | `scim/client.go`, `limiter.go`, `errors.go` | the next free slot of the limiter, under a mutex; per call the attempt counter | `do` and `attempt`: retries with back-off and `Retry-After`; `Page`, `GetUser`, `Patch`, `PatchExternalID`, `ServiceProviderConfig` |
| Partner directory | not in the repository; its double is `scimtest/scimtest.go`, its types `scim/types.go` | the records, their stamps, the externalIds bound | filtered and paged GET, PATCH of externalId, the changes people make |
| Store | `store/store.go`; `store/memory`, `store/postgres` | the rows, the row id counter, the checkpoint | `HelpperByDirectoryID`, `CreateHelpper`, `UpdateHelpper`, `EnabledHelppers`, `Checkpoint`, `SetCheckpoint` |
| Sync lock | `store/postgres/lock.go` | a session-level advisory lock per partner, on a pooled connection | `WithSyncLock` |
| Migrations | `store/postgres/migrate.go` | the applied versions | `Migrate` |
| Worker daemon | `cmd/directorysyncd/main.go`, `metrics.go` | the two tickers' pending ticks, the signal's context, counters, the in-memory store it is built with | the guard against an ephemeral store, preflight, first full cycle, `select`, `-once`, `-dry-run`, `/readyz`, `/metrics`, shutdown |
| Conformance suite | `conformance/`, `cmd/conformance` | the first page, the newest stamp, the verdicts so far | fourteen cases in two phases against a partner's directory |

How they interact. The daemon calls `Incremental` and `Full` from one loop, each
under a context with a deadline (`cycle-timeout`). A cycle asks `ListUsers` for
pages; each record is converged by `apply` before the next page is requested, so
the requests of one cycle are sequential, but the directory changes between any
two of them. `apply` reads and writes the store and PATCHes the directory. The
last act of a cycle that succeeded is `SetCheckpoint`. Nothing ties these writes
together: no transaction spans the store and the directory, and the advisory
lock that keeps a second replica out (`WithSyncLock`) is offered by the Postgres
store but not taken by the daemon.

What is hard:

- a record changes after its page was read and before it is applied, after it
  was applied and before the cycle ends, or on a page already passed;
- the list the cursor walks changes length and order under the walk;
- stamps become visible late, run ahead of the local clock, or are missing; the
  filter is cut to whole seconds;
- an unusable record must neither stop everyone nor be forgotten;
- the process dies between create and PATCH, or the answer of a PATCH is lost
  and it is sent again;
- two replicas run cycles at once and race for the same person;
- absence and a missing flag must not be taken for "inactive";
- the in-memory store forgets every id at a restart while the directory keeps
  them;
- a caller of `WithSyncLock` keeps one pooled connection and needs more, its
  context may end before the unlock, and its session may be lost under it;
- `select` meets a signal and two ticks at once, and a signal arrives inside a
  cycle;
- the conformance suite compares answers to requests made at different moments.

What makes each part correct:

- *Reconciler*: whatever the directory says of a person is in the base, or the
  next incremental cycle will read it; nobody is disabled, or created, except on
  the directory's word; the externalId written back is the base's id for that
  person; the checkpoint does not go back; a dry run writes nothing; once changes
  stop, everything agrees.
- *Pagination*: every record listed from the first page to the last is handed
  to the callback, or the walk fails; a walk always ends.
- *Client*: a request is sent at most the permitted number of times, never before
  its slot nor before `Retry-After` allows it; calls that share the limiter are
  spaced; a call returns when its context expires, wherever it sleeps.
- *Store*: one row per directory id, row ids never reused, operations atomic.
- *Lock*: one cycle of a partner at a time, the lock never left behind, every
  connection given back, and cycles that keep completing.
- *Daemon*: a run that cannot remember its rows is refused; a wrong binding is
  settled or somebody is alerted; after a signal the process exits.
- *Conformance suite*: a pass means what it says, a failure names its cause, and
  the partner's directory is left as it was found.
- *Migrations*: each file takes effect once and in order, success means the
  schema is up to date, and a process that fails blocks nobody.

## 2. Modules

| Module | What it holds |
|---|---|
| `Identities` | the people and their profiles, shared by the others |
| `Directory` | the partner's directory: records, filter, pages, changes, PATCH (external code) |
| `Store` | the base of helppers and the checkpoint, as the reconciler uses it |
| `Syncer` | the reconciler's cycles over both, with failures and time; the properties |
| `SyncerInvariant` | the inductive invariant `IInv` and the conditions `OverlapCovers` and `OwnBindings` |
| `Provisioning` | abstract: access follows the directory's word, and nothing else moves anybody |
| `StoreContract` | abstract: what `store.Store` promises, in the terms of `store.go` and `storetest` |
| `Promises` | `Syncer` implements both (refinement mappings) |
| `Replicas` | callers of `WithSyncLock` in several processes, the pool, the two tables and their statements; implements `StoreContract` |
| `Daemon` | the worker process around `Syncer`'s cycles: start, guard, preflight, tickers, `select`, signals, crashes, restarts, alerts, readiness |
| `Client` | calls of `do` that share the limiter: slots, retries, pauses, contexts |
| `Migrate` | processes that migrate one database |
| `Conformance` | the suite's fourteen cases against servers with defects |
| `MCSyncer`, `MCReplicas`, `MCDaemon`, `MCClient`, `MCMigrate`, `MCConformance` | instances for TLC |
| `DirectoryProofs` | lemmas on ranks, pages and the directory's changes |
| `SyncerProofs` | type correctness of `Syncer`; step shapes, window arithmetic, the simple conjuncts of `IInv` |
| `NoLostUpdateProofs` | what is written back; the cycle invariant; no update, repair or binding is lost |
| `PromiseProofs` | the two refinements; the drift report, the dry run, the checkpoint; the worker process of `Daemon` |
| `ReplicasProofs` | the lock, the pool, and the tables as an implementation of `StoreContract` |
| `ConformanceProofs` | what a report is worth, and the directory left as found |
| `ClientProofs`, `MigrateProofs` | their invariants and theorems |

`Syncer` composes `Directory` and `Store`; `Daemon` puts the process around it;
`Conformance` runs its cases against the same `Directory`. `Client` is the detail
below one of `Syncer`'s requests: there a request succeeds, fails for good
(`Abort`) or takes effect twice (`LoseAnswer`). `Replicas` is the detail below the
store calls, and keeps of a cycle only what it does to the database. `Migrate`
stands alone: it runs before any cycle.

### State and actions against the code

One step of `Syncer` is one request to the directory or to the store. Everything
between two requests is local computation and belongs to the step before it.

| Model | Code |
|---|---|
| `Start(w,k)` | `Incremental` / `Full` up to the walk: `Checkpoint`, the choice of filter |
| `FetchPage` | one round of `ListUsers`' loop: GET, end conditions, loop guards (`AfterPage`) |
| `GiveUp` | `ListUsers` returns an error: the same first record twice, or too many pages |
| `Malformed` | `validate` refuses the record; `walkWith` counts it, keeps its stamp, may stop |
| `SkipInactive`, `FindNew`, `FindKnown` | `apply` after `HelpperByDirectoryID` |
| `Create`, `Reread` | `ensureHelpper` and its `ErrAlreadyExists` branch |
| `Update` | `syncState`'s `UpdateHelpper` |
| `WriteBack` | `writeBack`: bound, 409, or gone |
| `ReportDrift` | the end of `Full`: enabled helppers the walk did not see |
| `Advance` | `advance` and the return of the cycle |
| `Abort`, `Timeout`, `LoseAnswer` | a request that fails for good or a crash; the context expires; the answer of a PATCH is lost and the client repeats it |
| `Tick`, `Environment` | time; the directory's side |

`walk[w]` carries the cursor and the variables of `walkWith`: `high` is the
newest stamp applied, `bad` the oldest stamp of an unusable record, `nbad` their
number. `snap[w]` is the page *as it was when it was read*; every later step of
the cycle uses it, so stale readings are in the model.

The other modules:

| Model | Code |
|---|---|
| `Client!Begin`, `TakeSlot` | `do` is called; `limiter.wait` reserves the next slot and sleeps for it |
| `Client!Wake`, `Cancel` | the two ways out of `sleepCtx`, in the limiter and between attempts |
| `Client!Send`, `Answer`, `Trouble` | `attempt`: the request, an answer that ends the call, 429 / 5xx / no answer; the end of `do`'s loop |
| `Migrate!TakeLock` | `pg_advisory_lock` on one connection, the table of versions |
| `Migrate!Check`, `Apply`, `Record`, `Commit` | the loop over the files, statement by statement |
| `Migrate!Finish`, `Fail`, `LoseCommit` | `Migrate` returns nil; an error or a crash; a commit whose answer is lost |
| `Replicas!Acquire`, `TryLock` | the pooled connection, `pg_try_advisory_lock`, `ErrLockHeld` |
| `Replicas!Ask`, `Query`, `ReturnFn` | `fn`: a store call waits for a connection of the same pool; its statement takes effect; `fn` returns |
| `Replicas!InsertHelpper`, `UpdateRow`, `Checkpoint`, `UpsertCheckpoint` | the statements of `store/postgres` |
| `Replicas!UnlockAndRelease` | the two deferred calls of `WithSyncLock` |
| `Replicas!Expire`, `Interrupted`, `LoseSession`, `Die` | a context ends, pgx notices, Postgres loses a session, a process dies |
| `Replicas!Land` | a write that was sent takes effect although its caller is gone |
| `Daemon!Boot`, `Preflight`, `Seed` | `run` up to the end of the first full cycle |
| `Daemon!TickInc`, `TickFull`, `SelectInc`, `SelectFull`, `Leave` | the two tickers (one tick is kept, the rest dropped) and the cases of `select` |
| `Daemon!Work`, `Recorded` | a step of the cycle with the alert it raises; `metrics.record` and what follows |
| `Daemon!Signal`, `Crash`, `Restart` | SIGTERM, death anywhere, somebody starts it again |
| `Conformance!Check...` | one case each (P1.01 to P2.03), a step per request |
| `Conformance!Others`, `Expire` | other people's changes; the deadline |

`Client!slot`, `Migrate!effects` and `Replicas!broken` are history: the slot each
call was given, how many times each file changed the schema (a transaction's body
counts when it commits), and the partners whose lock was lost under a cycle.
`Replicas!adrift` holds the writes whose callers are gone and, as history, those that
took effect. `Directory!said` is history too: what the directory has said of each
person; so are `Conformance!found` and `touched`, the directory when the suite began
and the records others changed since.

### Abstractions

- A profile stands for (login, displayName). The flag `"nil"` stands for every
  record `validate` refuses.
- Time is a natural number, 0 being Go's zero time. `Grain` is the number of
  units per second, the precision to which the filter is cut.
- A stamp lies at most `MaxLag` behind and `MaxLead` ahead of the true clock at
  the moment of the change. The directory is not part of this repository; the
  test double adds a second to the stamp it held, a partner uses its clock.
- In `Syncer` a worker may start a cycle of either kind at any time. The daemon's
  schedule (a full cycle first, then two tickers) is one such schedule.
- No cycle outlives its context: `Tick` waits until an expired cycle has
  returned. A write already on its way at the deadline is not modelled.
- `Abort` covers an error of any request and a crash alike: a cycle keeps
  nothing, so both leave the same state behind.
- The drift report of a record is taken at its lookup. Logs and counters are
  outputs and left out; alerts are in `Daemon`.
- The list of the directory is ordered by id and a page is as long as asked for.
  A server that caps pages below the count asked for ends every walk after its
  first page (`client.go:200`); that is a server the reconciler cannot work with,
  and SCIM permits it; the suite does not notice it (`Conformance!Permitted`).
- `Client`: an answer is retried or it is not; paths, headers and bodies are left
  out. Time may pass between any two steps. The back-off is any delay its jitter
  can give. Integers do not wrap, so `defaultBackoff` beyond its 35th attempt is
  out of the model.
- `Migrate`: `Fail` is an error of any statement or a crash; in each case the
  transaction is rolled back and the session's lock given back, by the deferred
  unlock or by the database. A process that failed is started again.
- `Replicas`: a statement is atomic. A write that is interrupted, by its context or
  by the death of its process, may take effect at any later time, or never (`adrift`,
  `Land`). Equal writes left behind by the same partner count once. Go's zero time
  is 0, the `epoch` of a row that was never set is 1 (`Epoch`), and watermarks are
  later; a partner without a row is not in the domain of `states`. `lockKey` is taken
  to be injective on the partners in use. All partners share table `helppers`, as in
  the code.
- `Daemon`: the store is `store/memory`, the only one the command is built with, so
  a new process starts from an empty base. A cancelled context fails the next
  request to the directory; the in-memory store does not look at it.
- `Conformance`: a defect is on or off for the whole run; servers have none, one or
  two of them. Others change the directory, the reserved record included, and the
  deadline passes, with servers of at most one defect (`Busy`). A defect belongs to
  every case whose code notices it (`Causes`): P1.07 tells records apart by their ids,
  so ids that are missing or repeated fail it as well as P1.03. One unit of time is
  the hour that P1.06 allows a clock to be off.

## 3. Runs

Bounds of `MCSyncer` and `MCDaemon`: `MaxClock`, `MaxChanges` (changes on the
directory's side), `MaxFaults` (aborts and lost answers together), two or three
ids, one or two workers, and `PageSlack`, the pages a walk may take beyond those
expected (8 in the code). A page of one record with two or three people makes a walk
span several requests; the clock lets a record fall behind the overlap, which is
when a loss would show (with an overlap of 3, five units do); two changes suffice to
alter a record twice, or one record each before and behind the cursor.

| Run | Instance | What it shows |
|---|---|---|
| `single` | one worker, both kinds of cycle, two records on one page, stamps that lag, unusable records, records that leave after their retention, a failure | type correctness, the inductive invariant (which contains no lost update and no lost repair), no lost binding, the drift report accuses nobody without the directory's word, the checkpoint does not regress, and `Syncer` implements `Provisioning` |
| `pair` | two replicas and no lock, a page of one, an overlap that outlasts two cycles, a person both may create | no update and no binding is lost even when the replicas' readings cross; the id written back is the base's, the race causes no 409, and the base implements `StoreContract` |
| `skew` | three people, one of whom appears in front of the cursor; stamps up to 3 ahead, a slow local clock, a filter coarser than the stamps, damaged records with and without a stamp, one page of slack | the watermark's limit keeps a fast stamp from hiding others, a record without a stamp does not release the hold of an earlier one, and a walk that goes wrong fails rather than skips |
| `client` | two calls, one retry each, an interval of 2, `Retry-After` longer than the back-off, contexts shorter and longer than the pauses | no request leaves too soon, slots are spaced, the attempt counter stays within the retries, an expired call returns |
| `migrate` | three processes, three files, three failures anywhere | each file takes effect once and in order, nobody collides, success means up to date, everybody gets there |
| `postgres` | two processes with three connections each; in one of them a caller for each of two partners, in the other one for the first partner; any of the partners with a row that was never set; one failure of any kind, and the writes it leaves adrift | the lock is not left behind, cycles of a partner exclude each other, checkpoints do not move back while the lock covers the write, the epoch is not taken for a checkpoint, connections balance, the tables implement `StoreContract`, and cycles of both partners complete again and again |
| `daemon` | an overlap that outlasts a cycle, two records, both listed, of which the second carries an id that the in-memory store mints for the first, one change (which may close the second record, so that its id is never taken back), one failure, one crash or restart, every answer to preflight, all flags | without `-allow-ephemeral-store` no externalId is replaced; a wrong binding outside the next window has been alerted; once things are quiet every usable record agrees, and is bound or alerted as refused |
| `dryrun` | the same process with `-dry-run`, unusable records and stamps in the future | nothing is written, the checkpoint included; after a signal or with `-once` the process exits |
| `conformance` | three records on pages of two, 466 sets of defects, three sets of options, two changes of any record by others, the deadline | a pass means no defect but the two that P1.10 and P2.01 overlook, a failure has a cause its case looks at, one connection problem is one failure, nobody whom others left alone is changed |
| `slow` *(violated)* | a cycle longer than the overlap | a change made while an earlier page is applied is lost |
| `shift` *(violated)* | a record removed from a page already read | the cursor skips a record that did not change |
| `conflict` *(violated)* | 409 at the write-back | the refused record is not read again once the checkpoint has passed |

`postgres` has stamps up to 3: a cycle sets 2 or 3, and a write left adrift can then
land below what another cycle has set meanwhile. Without the exception for such
partners (`Strayed`) TLC violates `CheckpointMonotone` in that way: a process dies
with a `SetCheckpoint` on its way, a cycle of another process sets a later one, and
the first takes effect. The mutant of `ReplicasTypeOK` returns what the row holds:
a partner with a row that was never set then begins from the epoch.

`Settles` excuses a record only while this process has alerted that the directory
refuses its id. That an id stands in the way does not need a restart: a record that
is closed keeps its externalId and is not converged any more.

Each of the three violated runs states what a comment or a document of the
repository says; the lines are quoted under "findings". In `slow` and `shift`
that is the promise that nothing is lost; sections 4 and 5 give the condition
under which it does hold.

*Deadlock* is checked in the runs of `MCSyncer`, in `postgres` and in `conformance`:
an idle worker can always start a cycle, a caller can always ask for the lock again,
a finished report stays. `client`, `migrate`, `daemon` and `dryrun` do not check it:
each call is made once, every process gets done, the worker may exit for good. What
stops there must be the intended end: `ExpiredReturns`, `EveryoneMigrates` and
`Terminates` say so.

*Symmetry* is used for the two workers of `pair`; no definition tells them apart,
and its one temporal property is a safety property.

*The pool.* `CyclesComplete` needs a pool with one connection more than the callers
of a process: with `PoolSize = 2` both callers of `m1` hold a connection for the
lock and wait for another (`lock.go:34`), and TLC finds the behaviour that stands
still. Nothing in the code sizes the pool.

### Refinement

- `Provisioning` under `access <- the base's row, words <- what the directory said`
  is implemented by `Syncer` (`OnlyOnItsWord`, run `single`, proved).
- `StoreContract` is implemented by `Syncer`'s use of `Store`
  (`KeepsStoreContract`, run `pair`, proved) and by the Postgres tables of
  `Replicas` (`TablesKeepContract`, run `postgres`). There `nextID` is the sequence,
  whose gaps are `Refuse` steps, and the checkpoint is read through `Checkpoint`,
  which hides the epoch of a row that was never set.

### Fairness

- `Daemon`: weak fairness of the process's own steps and of the tickers, strong
  fairness of the cases of `select`, which Go chooses at random among those that are
  ready. Nothing is asked of signals, changes, failures or time. `Settles` has as
  its premise that the process stays up and is not being stopped; the bounds on
  changes and faults say that both end.
- `Replicas`: weak fairness of each caller's steps, strong fairness of `Ask`, because
  pgxpool serves those who wait in turn.
- `Client`: weak fairness of each call's own steps: its goroutine runs when it can.
  It asks nothing of time nor of the directory: with an expired context Go's HTTP
  client ends the request.
- `Migrate`: weak fairness of each process's steps, restart after a failure
  included; no order is asked of the sessions that wait for the lock.

## 4. The overlap condition

`OverlapCovers` in `SyncerInvariant`:

    CycleTimeout + Slack + MaxLag + Lead < Overlap,  no retention,  no dry run

where `Lead` is how far ahead of true time an accepted watermark can be (the
smaller of `LocalSkew + FutureSkew` and `MaxLead`), and `Slack` is 0 with one
worker and another `CycleTimeout` with several. The reason: a record that
changes behind the cursor carries a stamp no older than the start of the cycle
less the lag; the checkpoint the cycle sets is no newer than its end plus the
lead; so the next filter, an overlap lower, still selects the record. With
several workers the page another one is about to write was read up to one cycle
earlier: one replica reads a person as active, the person is closed, the other
replica reads the closed record, skips it as unknown and advances, and the first
then creates the row enabled. With an overlap that outlasts one cycle and not two
that row stays enabled; the unique index (`store/postgres/lock.go:17`) does not
prevent it. The daemon's defaults (overlap 2 minutes, cycle-timeout 30 minutes)
do not satisfy the condition: it then holds only of cycles that in fact end
within the overlap.

## 5. Proofs

All proofs are checked by TLAPS with Z3, Zenon and LS4. The assumptions are the
named `ASSUME`s on the constants, which TLC evaluates in every run.

- `SyncerProofs!TypeCorrect`: `Spec => []TypeOK`, for every value of the
  constants. Its only difficulty is that a walk's cursor and counters come from
  cardinalities of pages (`PageType`, `PageWalk`).
- `NoLostUpdateProofs!Invariant`: `OverlapCovers => (Spec => []IInv)`.
- `NoLostUpdateProofs!NoUpdateIsLost` and `RepairIsNotMissed`: under the same
  condition, `[]NoLostUpdate` and `[]RepairNotMissed`, for any number of people,
  workers, changes and failures, any page size, lag and skew.
- `NoLostUpdateProofs!BindingsSurvive`: under the same condition and `OwnBindings`,
  `[]BindingNotLost`. A helpper whose id did not reach the directory is read by
  the next cycle, whichever cycle died between the create and the PATCH.

`NoLostUpdate` is not inductive: it says nothing of what a cycle under way has
read. `IInv` adds, for each busy worker,

- `Tracks`: each dated record is *done with* (the base agrees and its id is in the
  directory, or it changed too recently to be missed, or an unusable record holds
  the watermark below it), or *ahead* of the cursor, or *owed* (on the page in hand
  and not yet applied, or applied and still to be written back);
- `Current`: what is in hand equals the directory's record, unless the record
  changed since the cycle began. Without it a stale write could undo an
  agreement another worker had reached;
- `TimeInv`, `StampInv`: the cycle is within its deadline and stamps, watermarks
  and checkpoints are not too far in the future. They give the window arithmetic
  of section 4;
- `MintInv`, `CurInv`, `HandInv`, `IdleInv`: row ids are unique (so
  `UpdateHelpper` by id changes one person), and the locals fit the place the
  worker is at;
- `PatchInv`, `OursInv`: the id about to be written back is the row's, and every
  externalId is what was there from the start or the row's.

Bindings can be lost for one reason: a 409 settles the record without binding it
and without stamping it. So `Tracks` and `NothingLost` take a set `X` of *excused*
records, of which nothing is said about the id they carry; the step lemma
(`TrackStep`) asks that only records of `X` are refused (`Refusals`). Under
`OwnBindings` (the directory starts with none but the base's own ids) nobody is
refused and `X` is empty; otherwise everybody is excused, and updates and repairs
are still not lost. `Daemon` uses the same lemma with the records it has alerted on.

The proof has one lemma per conjunct and, within each, one step per action. Two
facts carry it. A page turn: a record ahead of the cursor is on the page
just read or ahead of the new cursor, because ranks in a list are consecutive
(`RankOnto`, `PageFull`) and the list selected never shrinks while
records are only added or restamped (`RankGrows`). And the advance: when a cycle
succeeds nothing is ahead or owed, so each record is settled, recent or held, and
each of these leaves it `Pending` under the new checkpoint.

`PromiseProofs`, for any number of people, workers, pages, changes and failures,
and whatever the overlap:

- `StoreContractKept` (`Spec => KeepsStoreContract`). Every step of `Syncer` maps to
  a step of `StoreContract` or to a stutter: `Create` to `Insert`, `Update` to
  `Overwrite`, `Advance` to `MoveCheckpoint`. `BaseInv` (types, unique row ids, the
  record in hand) is needed because `UpdateHelpper` addresses a row by its id, and
  the contract by its person.
- `AccessFollowsTheWord` (`Spec => OnlyOnItsWord`) and `DriftWarranted`
  (`[]DriftIsWarranted`), from `WordInv`: whatever a worker holds of a person (on the
  page it read, in the notes of a full walk) the directory has said at some time.
  The refinement alone is not inductive, since a worker acts on a page that may be
  older than the directory's last word.
- `DryRunIsDry` (`DryRunWritesNothing`): a dry run never comes to a place from which
  it could write (`DryInv`).
- `AloneNeverRegresses`: with one worker, `CheckpointNeverRegresses`, because the
  checkpoint still is what its cycle read (`OwnInv`). Two workers without the lock
  can move it back; then the next cycle reads more.
- `OursIsWrittenBack` (`[]WriteBackIsOurs`) and, under `OwnBindings`,
  `RacesDoNotConflict` (`[]RaceMakesNoConflict`), both in `NoLostUpdateProofs`, from
  `PatchInv` and `OursInv`: the id a worker is about to write is the row's, although
  its lookup, the lost race to create and the re-read are separate steps.

The worker process, also in `PromiseProofs`, for any number of people, changes,
failures, signals, crashes and restarts. To the reconciler every step of the process
is a step of its own that raises the alert a 409 asks for (`Works`), or the end of a
cycle or of the process, with the store kept or emptied (`Stops`); `DaemonShape`
shows it, action by action, and the theorems need only the two.

- `DaemonTypes` (`[]DaemonTypeOK`): a cycle is under way exactly when `run` waits
  for one.
- `GuardKeepsRealIds` (`RealIdsSurvive`), from `GuardInv`: without
  `-allow-ephemeral-store` a process that would write never gets past the check of
  its store, and a dry run never comes to a place where it would write.
- `DryProcessWritesNothing` (`DryRunWritesNothing`, here of the process): the store
  of a dry run stays the empty one it was made with.
- `WrongBindingsAreKnown` (`OverlapCovers => []WrongBindingIsKnown`). Here the ids
  that an earlier process wrote do stand in the way, so `OursInv` is false and
  nothing like `OwnBindings` can be assumed. `ReportInv` says that the cycles are on
  track with a set of excused records for each of which this process has raised a
  conflict. A refusal enlarges that set in the very step that raises its alert;
  that the enlarged set still fits what the cycle has in hand (`ExcuseMore`) needs
  the invariant with everybody excused beside it.
- `RestartsLoseNothing`: under the same condition no update and no repair is lost by
  a process that forgets its store, since a new one has no checkpoint.

`ReplicasProofs`, for any number of processes, callers, partners, connections and
failures:

- `NoLockLeftBehind`, `CyclesExclude`, `CheckpointsAdvance`, from `LockInv`: a
  partner's lock has one owner (`OneOwner`), whoever is inside has it unless its
  session was lost (`InsideHolds`), and what a cycle read of the checkpoint is still
  in the table (`StillCurrent`), unless the session was lost or a `SetCheckpoint` of
  the partner is adrift (`Strayed`). The last is what makes an upsert that compares
  nothing monotone.
- `ReplicasTypes` and `ConnectionsReturn` (`PoolBalanced`), proved together: that a
  count is not below what is given back needs the balance, and the balance needs
  the type of the count. The types include that no cycle holds the epoch as its
  checkpoint. Every action moves one caller by the difference of the
  connections its two places have (`Weight`, `Recount`), or ends a whole process.
- `PostgresKeepsContract` (`TablesKeepContract`), from `TableInv`: both keys are
  unique, so the row that the contract's view chooses is the only one (`TheRow`).
  `InsertHelpper` is an `Insert`, or a `Refuse` that leaves a gap in the sequence;
  `UpdateRow` is an `Overwrite`; an upsert for the partner looked at is a
  `MoveCheckpoint`, one for another partner a stutter. A statement whose caller is
  gone is no different (`StatementRefines`).

`ConformanceProofs`, for any number of records and any set of defects, where the run
has pairs of them:

- `ConformanceTypes`, `UnusableIsOneFailure` (`OneProblem`) and
  `DirectoryLeftAsFound` (`LeavesAsFound`), from `SuiteInv`: cases run in their order,
  a directory that cannot be used blocks the rest, and what `writeTarget` read is,
  when each PATCH is sent, still true of a record that nobody else touched (`Holds`),
  and something the directory has said of any other (`Spoken`). No server and no
  change by others is excluded.
- `FailuresHaveTheirCause` (`Probe # Reserved /\ WellFormed => []Blame`), from
  `SoundInv`: whatever others change, stamps stay credible, the page that the first
  case read keeps what it said of its records (`PageSound`), and externalIds are
  distinct (`Unbound`), so that a case fails only for a cause in `DueTo`.
- `ReportIsThorough` (`[]Thorough`), from `QuietInv`: while nobody
  else changes the directory, the first page and the newest stamp that the early
  cases read are still true when the later ones use them. One lemma per group of
  cases (`FairPage` to `FairWrites`) shows that a case passes only without the
  defects it notices.
- `WellFormed` says that others publish records with an `active` flag and a stamp at
  most an hour ahead: a record without either is a defect of the server, of its data
  rather than of its code.
- The hypotheses of `FailuresHaveTheirCause` are needed; TLC shows a counterexample
  without `Probe # Reserved` and with records that others publish without a flag. A
  probe value that the reserved record already carries makes the write of a server
  that answers with the wrong record meet a 409 in P2.01, which is not what that case
  looks for. `ReportIsThorough` needs none: on pages of one record P1.03 cannot see
  that an id is repeated, but P1.07 does.

`ClientProofs`, for any number of calls, retries, intervals and delays:

- `AttemptsBounded` (`[]ClientTypeOK`, which bounds the attempts of a call by its
  retries), `NeverTooSoon` (`[]NotTooSoon`) and `LimiterSpaces` (`Throttled`). The invariant
  adds to the type: the limiter's next slot lies an interval after every slot
  given (`SlotInv`), and a call that sleeps or queues wakes no sooner than its
  slot and what `Retry-After` asked for (`WaitInv`).

`MigrateProofs`, for any number of processes, files and failures:

- `AppliedOnce`, `AppliedInOrder`, `NobodyCollides` and `ReturnsMigrated`, from
  `MigrateInv`: whoever works holds the lock alone (`Exclusive`), every file before
  its own is recorded (`Prefix`), and the file it is at is not (`NoCollision`).

### Only model-checked

- Liveness under fairness is out of the prover's reach: `Settles`, `Terminates`,
  `CyclesComplete`, `ExpiredReturns`, `EveryoneMigrates`.
- `ConflictIsReRead` and, without `OverlapCovers`, `NoLostUpdate` are false: see the
  violated runs. `CyclesComplete` needs a pool with a connection to spare (section 3).
- `Migrate`'s type invariant is the reverse: it is proved with `MigrateInv` and not
  checked again by its run.

Every invariant, action property and refinement of the passing runs is stated by a
theorem, for all values of the constants that satisfy the hypotheses named above; what
TLC alone shows is the liveness.

## 6. Where the documents say something else

Seven disagreements are recorded as findings in `PROJECT.json`, each with the lines it
quotes. Three are the violated runs. The other four are claims that a document makes
and the passing runs speak about; the property states what the code does instead.

- "The resulting 409 storm" (`main.go:10`, `lock.go:18`; `docs/OPERATIONS.md:24`, "a
  burst of 409s"): two replicas that race to create cause no 409, because the loser
  re-reads the winner's row and writes back the same id (`RaceMakesNoConflict`, run
  `pair`; proved as `RacesDoNotConflict`).
- "An HTML 404 is not enough" (`docs/CONFORMANCE.md:60`; `checks.go:371`, "404 with a
  SCIM error envelope"): P1.10 looks at the status alone. "Reflects it"
  (`CONFORMANCE.md:62`; `checks.go:460`, "accepted and reflected on read"): P2.01 looks
  at the answer of the PATCH and reads nothing back. `Thorough` names both defects as
  `Overlooked`; with either of them alone a server passes every case.
- "Nobody's access changed" (`CONFORMANCE.md:79`; `conformance.go:20`,
  `checks.go:513`): P2.03 writes the `active` it read one request earlier. TLC
  violates the claim that no step but the others' changes a flag: somebody suspends
  the reserved person between the read and the PATCH, and a server that accepts the
  write enables the person again. `LeavesAsFound` states what does hold.

Reading the code against its documents showed the following as well. None of it is a
property of a run.

- `directory.go:61` says that a non-empty drift report "means the incremental path
  missed something". The full walk also names everybody closed since the last
  incremental cycle, who was going to be read by the next one. What does hold is
  `DriftIsWarranted`.
- The lag metric is 0 while no checkpoint is set (`metrics.go:47`): a worker whose
  cycles have failed from the start looks up to date in the metric that is to catch
  a stuck worker (`metrics.go:16`).
- `/readyz` counts failed cycles (`metrics.go:33`), although `OPERATIONS.md` says "at
  least one cycle has completed". With `-once` the exit status is 0 when the cycle
  failed (`main.go:144`).
- `postgres.go:43` says that one database can serve several directories. The
  checkpoint is kept by partner; table `helppers` has no partner column.
- A `SetCheckpoint` whose caller is gone may take effect after the lock was given to
  another (`postgres.go:160`); the checkpoint can then move back, and the next cycle
  reads more (`Replicas!Land`).
- Pages capped below the count asked for, which SCIM permits, pass P1.07.
- With changes in between, a sound server can fail a case, since the suite compares
  answers of different moments; `Blame` says which cases (`Disturbed`).
- P2.01 to P2.03 write to the record that the read returned, by the id in that
  answer: a server that answers with another record than asked has that one written.
  `LeavesAsFound` says with what.

## 7. Not modelled

- `Stats`, logs, the counters and text of `/metrics`, the report's layout: outputs
  that nothing reads back.
- JSON decoding, headers and the classification of errors (`scim/errors.go`): in the
  models an answer is worth a retry or it is not, a record is usable or it is not.
- 64-bit overflow of the shift in `defaultBackoff` (attempt 35 and beyond): no
  deployment retries that often.
- Hash collisions of `lockKey`; the helppers of other partners in
  `EnabledHelppers`; row timestamps.
- The go test adapter `conformance.Run`, the tests themselves, and the parts of
  `scimtest` that only serve them.
