-------------------------------- MODULE Syncer ---------------------------------
(****************************************************************************)
(* The reconciler of directory/directory.go: workers that run incremental   *)
(* and full cycles against the directory and the local base.  A cycle reads *)
(* the checkpoint, walks the pages of the directory, converges each record  *)
(* into the base, writes the helpper's id back as externalId, and advances  *)
(* the checkpoint when all of it succeeded.                                 *)
(*                                                                          *)
(* One step is one request to the directory or to the store, so everything  *)
(* that can happen between two of them does: changes on the directory's     *)
(* side, the other worker's steps, the passing of time, failure.  Alerts,   *)
(* logging and the counters of Stats are outputs and are left out.          *)
(****************************************************************************)
EXTENDS Directory, Store

CONSTANTS
    Workers,        \* replicas of the worker; each runs one cycle at a time
    Kinds,          \* the cycles they run, of {"inc", "full"}
    PageSize,       \* records asked for per page
    PageSlack,      \* pages a walk may take beyond those expected (8)
    Overlap,        \* how far behind the checkpoint a cycle re-reads
    Grain,          \* clock units per second, the precision of the filter
    MaxMalformed,   \* unusable records a cycle tolerates; negative: any number
    FutureSkew,     \* how far ahead of the local clock a watermark is trusted
    LocalSkew,      \* the local clock minus the true time
    DryRun,         \* report only, write nothing
    CycleTimeout,   \* the deadline the daemon gives a cycle
    MaxFaults       \* bound on the failures injected

ASSUME SyncerAssumption ==
    /\ Kinds \subseteq {"inc", "full"}
    /\ PageSize \in Nat \ {0}
    /\ PageSlack \in Nat
    /\ Overlap \in Nat \ {0}
    /\ Grain \in Nat \ {0}
    /\ MaxMalformed \in Int
    /\ FutureSkew \in Nat
    /\ LocalSkew \in Int
    /\ DryRun \in BOOLEAN
    /\ CycleTimeout \in Nat
    /\ MaxFaults \in Nat

VARIABLES
    pc,      \* where the worker is, see Places
    cycle,   \* [kind, cp: the checkpoint it read, started]
    walk,    \* the cursor of ListUsers and the variables of walkWith
    todo,    \* ids of the current page not yet applied
    snap,    \* the current page, as it was when it was read
    cur,     \* the record being applied (0: none)
    hand,    \* the id of its helpper (0: none yet)
    drift,   \* what a full walk has noted so far
    faults   \* failures so far

localVars == <<pc, cycle, walk, todo, snap, cur, hand, drift>>
vars == <<users, said, clock, changes, helppers, nextID, checkpoint,
          pc, cycle, walk, todo, snap, cur, hand, drift, faults>>

\* Mutant: a 0-based cursor.
NewWalkFromZero == [startIndex |-> 0, pages |-> 0, limit |-> 0, head |-> {},
                    status |-> "more", high |-> 0, bad |-> 0, nbad |-> 0]

NoCycle == [kind |-> "none", cp |-> 0, started |-> 0]
NewWalk == [startIndex |-> 1, pages |-> 0, limit |-> 0, head |-> {},
            status |-> "more", high |-> 0, bad |-> 0, nbad |-> 0]
NoDrift == [seen |-> {}, should |-> {}, missing |-> {}, absent |-> {}]

\* The record kept for ids that are not on the page.
Blank == [present |-> FALSE, active |-> "nil", profile |-> CHOOSE p \in Profiles : TRUE,
          externalId |-> 0, lastModified |-> 0]
NoSnap == [d \in Ids |-> Blank]

Places == {"idle", "walk", "create", "reread", "update", "patch", "drifted"}
Cycle == [kind: {"none", "inc", "full"}, cp: Nat, started: Nat]
Walk == [startIndex: Nat \ {0}, pages: Nat, limit: Nat, head: SUBSET Ids,
         status: {"more", "done", "broken"}, high: Nat, bad: Nat, nbad: Nat]
Drift == [seen: SUBSET Ids, should: SUBSET Ids, missing: SUBSET Ids, absent: SUBSET Ids]

LocalTypeOK ==
    /\ pc \in [Workers -> Places]
    /\ cycle \in [Workers -> Cycle]
    /\ walk \in [Workers -> Walk]
    /\ todo \in [Workers -> SUBSET Ids]
    /\ snap \in [Workers -> [Ids -> User]]
    /\ cur \in [Workers -> Ids \cup {0}]
    /\ hand \in [Workers -> Nat]
    /\ drift \in [Workers -> Drift]

\* Every variable has its type; the page cursor is 1-based.
TypeOK == DirTypeOK /\ StoreTypeOK /\ LocalTypeOK /\ faults \in Nat

Init ==
    /\ DirInit
    /\ StoreInit
    /\ pc = [w \in Workers |-> "idle"]
    /\ cycle = [w \in Workers |-> NoCycle]
    /\ walk = [w \in Workers |-> NewWalk]
    /\ todo = [w \in Workers |-> {}]
    /\ snap = [w \in Workers |-> NoSnap]
    /\ cur = [w \in Workers |-> 0]
    /\ hand = [w \in Workers |-> 0]
    /\ drift = [w \in Workers |-> NoDrift]
    /\ faults = 0

--------------------------------------------------------------------------------
(* Pure parts of the code.                                                  *)

\* Mutant: no overlap is re-read.
SinceCheckpoint(cp) == (cp \div Grain) * Grain

\* The instant after which the filter of an incremental cycle selects: the
\* checkpoint minus the overlap, cut to whole seconds by RFC 3339.
Since(cp) == ((cp - Overlap) \div Grain) * Grain

\* The records the cycle c is to read.
Selected(c) == Matched(c.kind = "full" \/ c.cp = 0, Since(c.cp))

\* validate: "" on a record that can be used.
Usable(u) == u.active # "nil"

Active(u) == u.active = "true"

\* syncState finds nothing to change.
InSync(u, h) == h.enabled = Active(u) /\ h.profile = u.profile

\* Mutant: the externalId is only written when a helpper is created.
BoundAnyway(u, id) == u.externalId \in Nat

\* The directory's record already carries the helpper's id.
Bound(u, id) == u.externalId = id

\* The first record of a page, as a set: empty when the page is.
FirstOf(page) == {d \in page : \A e \in page : d <= e}

\* Mutant: a walk that goes wrong is taken for one that is over.
AfterPageTrusting(wk, page, total) ==
    [wk EXCEPT !.startIndex = @ + Cardinality(page),
               !.pages = @ + 1,
               !.limit = IF @ = 0 THEN total \div PageSize + PageSlack ELSE @,
               !.head = FirstOf(page),
               !.status = IF \/ page = {}
                             \/ FirstOf(page) = wk.head
                             \/ Cardinality(page) < PageSize
                             \/ wk.startIndex + Cardinality(page) > total
                          THEN "done" ELSE "more"]

\* ListUsers, after a page of a list of `total' records: an empty or short page
\* or a cursor past the total ends the walk; the same first record twice, or
\* too many pages, breaks it.
AfterPage(wk, page, total) ==
    LET pages == wk.pages + 1
        limit == IF wk.limit = 0 THEN total \div PageSize + PageSlack ELSE wk.limit
        next  == wk.startIndex + Cardinality(page)
    IN  IF page = {}
        THEN [wk EXCEPT !.status = "done"]
        ELSE [wk EXCEPT !.startIndex = next, !.pages = pages, !.limit = limit,
                        !.head = FirstOf(page),
                        !.status =
                           IF FirstOf(page) = wk.head \/ pages >= limit THEN "broken"
                           ELSE IF Cardinality(page) < PageSize \/ next > total THEN "done"
                           ELSE "more"]

\* walkWith, after a record that was applied: the newest stamp seen.
AfterRecord(wk, u) ==
    [wk EXCEPT !.high = IF u.lastModified > @ THEN u.lastModified ELSE @]

\* walkWith, after an unusable record: the oldest stamp of those, if any.
AfterMalformed(wk, u) ==
    [wk EXCEPT !.bad = IF u.lastModified # 0 /\ (@ = 0 \/ u.lastModified < @)
                       THEN u.lastModified ELSE @,
               !.nbad = @ + 1]

TooMany(wk) == MaxMalformed >= 0 /\ wk.nbad > MaxMalformed

\* Mutant: unusable records do not hold the watermark.
WatermarkUnheld(wk) == wk.high

\* What walkWith returns: the newest stamp, held at the oldest unusable record.
Watermark(wk) == IF wk.bad # 0 /\ wk.high > wk.bad THEN wk.bad ELSE wk.high

\* Mutants: each of advance's conditions dropped in turn.
AcceptsOlder(cp, wm) == wm # 0 /\ wm <= clock + LocalSkew + FutureSkew /\ ~DryRun
AcceptsFuture(cp, wm) == wm # 0 /\ wm > cp /\ ~DryRun
AcceptsDryRun(cp, wm) == wm # 0 /\ wm > cp /\ wm <= clock + LocalSkew + FutureSkew

\* advance moves the checkpoint the cycle read to the watermark wm.
Accepts(cp, wm) ==
    /\ wm # 0
    /\ wm > cp
    /\ wm <= clock + LocalSkew + FutureSkew
    /\ ~DryRun

\* Mutant: the observer does not look at `malformed'.
ObserveAnyway(dr, d, u) ==
    [dr EXCEPT !.seen = @ \cup {d},
               !.should = IF ~NotFound(d) /\ helppers[d].enabled /\ ~Active(u)
                          THEN @ \cup {d} ELSE @,
               !.missing = IF ~NotFound(d) /\ u.externalId = 0 THEN @ \cup {d} ELSE @]

\* What Full's observer notes of a record, from the state before the upsert.
Observe(dr, d, u) ==
    [dr EXCEPT !.seen = @ \cup {d},
               !.should = IF /\ Usable(u) /\ ~NotFound(d)
                             /\ helppers[d].enabled /\ ~Active(u)
                          THEN @ \cup {d} ELSE @,
               !.missing = IF Usable(u) /\ ~NotFound(d) /\ u.externalId = 0
                           THEN @ \cup {d} ELSE @]

--------------------------------------------------------------------------------
(* A cycle.                                                                 *)

\* The first record of the page that has not been applied.
IsNext(w, d) == d \in todo[w] /\ \A e \in todo[w] : d <= e

\* The cycle returns: its local variables are gone.
Return(w) ==
    /\ pc' = [pc EXCEPT ![w] = "idle"]
    /\ cycle' = [cycle EXCEPT ![w] = NoCycle]
    /\ walk' = [walk EXCEPT ![w] = NewWalk]
    /\ todo' = [todo EXCEPT ![w] = {}]
    /\ snap' = [snap EXCEPT ![w] = NoSnap]
    /\ cur' = [cur EXCEPT ![w] = 0]
    /\ hand' = [hand EXCEPT ![w] = 0]
    /\ drift' = [drift EXCEPT ![w] = NoDrift]

\* Incremental or Full begins: the clock and the checkpoint are read.
Start(w, k) ==
    /\ pc[w] = "idle"
    /\ pc' = [pc EXCEPT ![w] = "walk"]
    /\ cycle' = [cycle EXCEPT ![w] = [kind |-> k, cp |-> checkpoint, started |-> clock]]
    /\ UNCHANGED <<dirVars, storeVars, walk, todo, snap, cur, hand, drift, faults>>

\* ListUsers reads the next page.
FetchPage(w) ==
    /\ pc[w] = "walk"
    /\ todo[w] = {}
    /\ walk[w].status = "more"
    /\ LET sel  == Selected(cycle[w])
           page == PageOf(sel, walk[w].startIndex, PageSize)
       IN  /\ todo' = [todo EXCEPT ![w] = page]
           /\ snap' = [snap EXCEPT ![w] =
                 [d \in Ids |-> IF d \in page THEN users[d] ELSE Blank]]
           /\ walk' = [walk EXCEPT ![w] = AfterPage(@, page, Cardinality(sel))]
    /\ UNCHANGED <<dirVars, storeVars, pc, cycle, cur, hand, drift, faults>>

\* ListUsers fails once the records of the page that broke the walk are applied.
GiveUp(w) ==
    /\ pc[w] = "walk"
    /\ todo[w] = {}
    /\ walk[w].status = "broken"
    /\ Return(w)
    /\ UNCHANGED <<dirVars, storeVars, faults>>

\* A full walk notes the record d it is about to apply.
Note(w, d) ==
    drift' = [drift EXCEPT ![w] =
                IF cycle[w].kind = "full" THEN Observe(@, d, snap[w][d]) ELSE @]

\* apply refuses an unusable record; one too many of them ends the cycle.
Malformed(w, d) ==
    /\ pc[w] = "walk"
    /\ IsNext(w, d)
    /\ ~Usable(snap[w][d])
    /\ LET wk == AfterMalformed(walk[w], snap[w][d])
       IN  \/ /\ TooMany(wk)
              /\ Return(w)
           \/ /\ ~TooMany(wk)
              /\ walk' = [walk EXCEPT ![w] = wk]
              /\ todo' = [todo EXCEPT ![w] = @ \ {d}]
              /\ Note(w, d)
              /\ UNCHANGED <<pc, cycle, snap, cur, hand>>
    /\ UNCHANGED <<dirVars, storeVars, faults>>

\* The record u is done with.
Settle(w, u) ==
    /\ pc' = [pc EXCEPT ![w] = "walk"]
    /\ walk' = [walk EXCEPT ![w] = AfterRecord(@, u)]
    /\ cur' = [cur EXCEPT ![w] = 0]
    /\ hand' = [hand EXCEPT ![w] = 0]

\* The record u of d needs another request: the worker goes on at `where'.
GoOn(w, where, d, h) ==
    /\ pc' = [pc EXCEPT ![w] = where]
    /\ cur' = [cur EXCEPT ![w] = d]
    /\ hand' = [hand EXCEPT ![w] = h]
    /\ UNCHANGED walk

\* apply looks up the helpper of a usable record.
Lookup(w, d) ==
    /\ pc[w] = "walk"
    /\ IsNext(w, d)
    /\ Usable(snap[w][d])
    /\ todo' = [todo EXCEPT ![w] = @ \ {d}]
    /\ Note(w, d)
    /\ UNCHANGED <<dirVars, storeVars, cycle, snap, faults>>

\* Unknown here and inactive there: deliberately not created.
SkipInactive(w, d) ==
    /\ Lookup(w, d)
    /\ NotFound(d)
    /\ ~Active(snap[w][d])
    /\ Settle(w, snap[w][d])

\* Unknown here and active there: to be created.
FindNew(w, d) ==
    /\ Lookup(w, d)
    /\ NotFound(d)
    /\ Active(snap[w][d])
    /\ IF DryRun THEN Settle(w, snap[w][d]) ELSE GoOn(w, "create", d, 0)

\* Known here: the state is converged, then the externalId is compared.
FindKnown(w, d) ==
    /\ Lookup(w, d)
    /\ ~NotFound(d)
    /\ LET u == snap[w][d]
           h == helppers[d]
       IN  IF DryRun \/ (InSync(u, h) /\ Bound(u, h.id))
           THEN Settle(w, u)
           ELSE GoOn(w, IF InSync(u, h) THEN "patch" ELSE "update", d, h.id)

\* Mutant: the counter is read before the insert, not after it.
CreateStaleID(w) ==
    /\ pc[w] = "create"
    /\ \/ /\ CreateHelpper(cur[w], snap[w][cur[w]].profile)
          /\ GoOn(w, "patch", cur[w], nextID)
       \/ /\ ~NotFound(cur[w])
          /\ GoOn(w, "reread", cur[w], 0)
          /\ UNCHANGED storeVars
    /\ UNCHANGED <<dirVars, cycle, todo, snap, drift, faults>>

\* ensureHelpper: the store mints an id, or another worker won the race.
Create(w) ==
    /\ pc[w] = "create"
    /\ LET d == cur[w]
       IN  \/ /\ CreateHelpper(d, snap[w][d].profile)
              /\ GoOn(w, "patch", d, nextID + 1)
           \/ /\ ~NotFound(d)
              /\ GoOn(w, "reread", d, 0)
              /\ UNCHANGED storeVars
    /\ UNCHANGED <<dirVars, cycle, todo, snap, drift, faults>>

\* Mutant: losing the race is taken for having nothing left to do.
RereadAndLeave(w) ==
    /\ pc[w] = "reread"
    /\ Settle(w, snap[w][cur[w]])
    /\ UNCHANGED <<dirVars, storeVars, cycle, todo, snap, drift, faults>>

\* ensureHelpper, after ErrAlreadyExists: the other worker's helpper is used.
Reread(w) ==
    /\ pc[w] = "reread"
    /\ GoOn(w, "patch", cur[w], helppers[cur[w]].id)
    /\ UNCHANGED <<dirVars, storeVars, cycle, todo, snap, drift, faults>>

\* syncState writes what the record said when it was read.
Update(w) ==
    /\ pc[w] = "update"
    /\ LET u == snap[w][cur[w]]
       IN  /\ UpdateHelpper(hand[w], Active(u), u.profile)
           /\ IF Bound(u, hand[w])
              THEN Settle(w, u)
              ELSE GoOn(w, "patch", cur[w], hand[w])
    /\ UNCHANGED <<dirVars, cycle, todo, snap, drift, faults>>

\* writeBack: the directory binds the helpper's id, refuses it with 409 (the
\* cycle goes on), or does not know the record any more (the cycle fails).
WriteBack(w) ==
    /\ pc[w] = "patch"
    /\ LET d == cur[w]
       IN  \/ /\ users[d].present /\ ~Conflicts(d, hand[w])
              /\ Bind(d, hand[w])
              /\ Settle(w, snap[w][d])
              /\ UNCHANGED <<cycle, todo, snap, drift>>
           \/ /\ users[d].present /\ Conflicts(d, hand[w])
              /\ Settle(w, snap[w][d])
              /\ UNCHANGED <<users, cycle, todo, snap, drift>>
           \/ /\ ~users[d].present
              /\ Return(w)
              /\ UNCHANGED users
    /\ UNCHANGED <<said, clock, changes, storeVars, faults>>

\* Mutant: absence is taken for a deprovisioning signal.
ReportDriftDisabling(w) ==
    /\ pc[w] = "walk" /\ todo[w] = {} /\ walk[w].status = "done" /\ cycle[w].kind = "full"
    /\ pc' = [pc EXCEPT ![w] = "drifted"]
    /\ helppers' = [d \in Ids |-> [helppers[d] EXCEPT !.enabled = @ /\ d \in drift[w].seen]]
    /\ UNCHANGED <<dirVars, nextID, checkpoint, cycle, walk, todo, snap, cur, hand, drift, faults>>

\* Full lists the enabled helppers and notes those the walk did not see.
ReportDrift(w) ==
    /\ pc[w] = "walk"
    /\ todo[w] = {}
    /\ walk[w].status = "done"
    /\ cycle[w].kind = "full"
    /\ pc' = [pc EXCEPT ![w] = "drifted"]
    /\ drift' = [drift EXCEPT ![w] =
                 [@ EXCEPT !.absent = EnabledHelppers \ drift[w].seen]]
    /\ UNCHANGED <<dirVars, storeVars, cycle, walk, todo, snap, cur, hand, faults>>

\* advance: the last act of a cycle that succeeded.
Advance(w) ==
    /\ \/ pc[w] = "drifted"
       \/ /\ pc[w] = "walk"
          /\ todo[w] = {}
          /\ walk[w].status = "done"
          /\ cycle[w].kind = "inc"
    /\ LET wm == Watermark(walk[w])
       IN  IF Accepts(cycle[w].cp, wm)
           THEN SetCheckpoint(wm)
           ELSE UNCHANGED storeVars
    /\ Return(w)
    /\ UNCHANGED <<dirVars, faults>>

--------------------------------------------------------------------------------
(* Failure and time.                                                        *)

Fault == faults < MaxFaults /\ faults' = faults + 1

\* A request fails for good, or the process dies: the cycle ends where it is.
Abort(w) ==
    /\ pc[w] # "idle"
    /\ Fault
    /\ Return(w)
    /\ UNCHANGED <<dirVars, storeVars>>

\* The PATCH takes effect and its answer is lost: the client sends it again.
LoseAnswer(w) ==
    /\ pc[w] = "patch"
    /\ Fault
    /\ users[cur[w]].present /\ ~Conflicts(cur[w], hand[w])
    /\ Bind(cur[w], hand[w])
    /\ UNCHANGED <<said, clock, changes, storeVars, localVars>>

\* The cycle's context expires.
Timeout(w) ==
    /\ pc[w] # "idle"
    /\ clock - cycle[w].started >= CycleTimeout
    /\ Return(w)
    /\ UNCHANGED <<dirVars, storeVars, faults>>

\* Time passes, and no cycle outlives its context.
Tick ==
    /\ clock < MaxClock
    /\ \A w \in Workers : pc[w] # "idle" => clock - cycle[w].started < CycleTimeout
    /\ clock' = clock + 1
    /\ UNCHANGED <<users, said, changes, storeVars, localVars, faults>>

--------------------------------------------------------------------------------
Step(w) ==
    \/ \E k \in Kinds : Start(w, k)
    \/ FetchPage(w) \/ GiveUp(w)
    \/ \E d \in Ids : Malformed(w, d) \/ SkipInactive(w, d) \/ FindNew(w, d) \/ FindKnown(w, d)
    \/ Create(w) \/ Reread(w) \/ Update(w) \/ WriteBack(w)
    \/ ReportDrift(w) \/ Advance(w)

Environment == DirNext /\ UNCHANGED <<storeVars, localVars, faults>>

Next ==
    \/ \E w \in Workers : Step(w) \/ Abort(w) \/ LoseAnswer(w) \/ Timeout(w)
    \/ Environment
    \/ Tick

Spec == Init /\ [][Next]_vars

--------------------------------------------------------------------------------
(* What the cycles promise.                                                 *)

\* The next incremental cycle will read d.
Pending(d) ==
    \/ checkpoint = 0
    \/ /\ users[d].lastModified # 0
       /\ users[d].lastModified > Since(checkpoint)

\* The local base does for d what the directory says.
Agrees(d) ==
    IF NotFound(d)
    THEN ~Active(users[d])
    ELSE helppers[d].enabled = Active(users[d]) /\ helppers[d].profile = users[d].profile

Dated(d) == users[d].present /\ users[d].lastModified # 0

\* "The checkpoint advances only when the whole cycle succeeded": whatever
\* changed while pages were read, applied and retried, a usable record is
\* converged already or will be read by the next incremental cycle.
NoLostUpdate ==
    \A d \in Ids : Dated(d) /\ Usable(users[d]) => Agrees(d) \/ Pending(d)

\* walkWith holds the watermark at the oldest unusable record "so nothing is
\* lost once the directory repairs it", even with its old stamp.
RepairNotMissed ==
    \A d \in Ids : Dated(d) /\ ~Usable(users[d]) => Pending(d)

\* The write-back of a helpper's id survives a cycle that died between the
\* create and the PATCH, and a directory record that lost the value.
BindingNotLost ==
    \A d \in Ids : Dated(d) /\ Usable(users[d]) /\ ~NotFound(d)
                   => users[d].externalId = helppers[d].id \/ Pending(d)

\* The record refused with 409 "is re-read every cycle" (comment of writeBack).
ConflictIsReRead ==
    \A d \in Ids : /\ Dated(d) /\ Usable(users[d]) /\ ~NotFound(d)
                   /\ users[d].externalId # helppers[d].id
                   /\ Conflicts(d, helppers[d].id)
                   => Pending(d)

\* An externalId in the directory is the id the local base holds for that
\* person now, whichever of two workers won the race to create it.
WriteBackIsOurs ==
    \A d \in Ids : users[d].present
                   => users[d].externalId \in {0, InitialExternal[d], helppers[d].id}

\* Two workers that race to create the same people never collide in the
\* directory: the loser of the race writes back the winner's id.
RaceMakesNoConflict ==
    \A w \in Workers : pc[w] = "patch" => ~Conflicts(cur[w], hand[w])

\* Whoever the drift report says should be disabled is a known helpper, and the
\* directory did call them inactive: the walk judges each record by the state
\* before its upsert, and an unusable record is no word of the directory.
DriftIsWarranted ==
    \A w \in Workers : \A d \in drift[w].should : ~NotFound(d) /\ "false" \in said[d]

\* The checkpoint never moves back: advance compares with the value read when
\* the cycle began.
CheckpointNeverRegresses == [][checkpoint' >= checkpoint]_vars

\* A dry run writes neither to the local store nor to the directory, "and not
\* even the checkpoint".
DryRunWritesNothing ==
    [][DryRun => /\ UNCHANGED storeVars
                 /\ \A d \in Ids : users'[d].externalId \in {0, users[d].externalId}]_vars

Converged(d) ==
    /\ Agrees(d)
    /\ NotFound(d) \/ users[d].externalId = helppers[d].id
================================================================================
