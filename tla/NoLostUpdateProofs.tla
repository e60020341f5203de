-------------------------- MODULE NoLostUpdateProofs ---------------------------
(****************************************************************************)
(* No update and no binding is lost when the overlap outlasts the cycles:   *)
(* IInv is inductive, and NoLostUpdate, RepairNotMissed and BindingNotLost  *)
(* follow from it.                                                          *)
(****************************************************************************)
EXTENDS SyncerProofs

(****************************************************************************)
(* What is written back.                                                    *)
(****************************************************************************)

\* Every step keeps the first part.
LEMMA PatchStep ==
    ASSUME BaseInv, PatchInv, [Next]_vars
    PROVE  PatchInv'
<1> DEFINE Patch(x) ==
      /\ pc[x] = "reread" => ~NotFound(cur[x])
      /\ pc[x] = "patch" => hand[x] = helppers[cur[x]].id /\ hand[x] # 0
<1> SUFFICES ASSUME NEW x \in Workers PROVE Patch(x)' BY DEF PatchInv
<1>0. Patch(x) BY DEF PatchInv
<1>1. CASE Unmoved(x)
  <2>1. pc[x] \in {"reread", "patch"} => helppers'[cur[x]].id = helppers[cur[x]].id
    BY <1>0, IdsKept DEF BaseInv, CurInv, NotFound
  <2> QED BY <1>0, <1>1, <2>1 DEF Unmoved, NotFound
<1>2. CASE pc'[x] \in {"idle", "walk", "create", "update", "drifted"} BY <1>2
<1>3. ASSUME NEW h, NEW d \in Ids, GoOn(x, "patch", d, h), h = helppers'[d].id, h # 0
      PROVE  Patch(x)'
  BY <1>3 DEF GoOn, BaseInv, TypeOK, LocalTypeOK
<1>4. CASE Step(x) \/ Abort(x) \/ LoseAnswer(x) \/ Timeout(x)
  <2> USE DEF BaseInv, TypeOK, LocalTypeOK
  <2>1. CASE Return(x) BY <1>2, <2>1 DEF Return
  <2>2. ASSUME NEW u, Settle(x, u) PROVE Patch(x)' BY <1>2, <2>2 DEF Settle
  <2>3. CASE (\E k \in Kinds : Start(x, k)) \/ FetchPage(x) \/ ReportDrift(x)
    BY <1>2, <2>3 DEF Start, FetchPage, ReportDrift
  <2>4. ASSUME NEW d \in Ids, Malformed(x, d) PROVE Patch(x)'
    BY <1>2, <2>1, <2>4 DEF Malformed
  <2>5. ASSUME NEW d \in Ids, SkipInactive(x, d) \/ FindNew(x, d) PROVE Patch(x)'
    BY <1>2, <2>2, <2>5 DEF SkipInactive, FindNew, GoOn
  <2>6. ASSUME NEW d \in Ids, FindKnown(x, d) PROVE Patch(x)'
    <3>1. helppers' = helppers /\ helppers[d].id # 0
      BY <2>6 DEF FindKnown, Lookup, NotFound, storeVars
    <3>2. CASE GoOn(x, "patch", d, helppers[d].id) BY <1>3, <3>1, <3>2
    <3>3. CASE GoOn(x, "update", d, helppers[d].id) BY <1>2, <3>3 DEF GoOn
    <3> QED BY <2>2, <2>6, <3>2, <3>3 DEF FindKnown
  <2>7. CASE Create(x)
    <3>1. PICK d \in Ids : d = cur[x] BY <2>7 DEF Create, CurInv
    <3>2. CASE CreateHelpper(d, snap[x][d].profile) /\ GoOn(x, "patch", d, nextID + 1)
      <4>1. nextID \in Nat BY DEF StoreTypeOK
      <4>2. helppers' = [helppers EXCEPT ![d] =
               [id |-> nextID + 1, enabled |-> TRUE, profile |-> snap[x][d].profile]]
        BY <3>2 DEF CreateHelpper
      <4>3. helppers'[d] = [id |-> nextID + 1, enabled |-> TRUE,
                            profile |-> snap[x][d].profile]
        BY <4>2 DEF StoreTypeOK
      <4>4. helppers'[d].id = nextID + 1 /\ nextID + 1 # 0 BY <4>1, <4>3
      <4> QED BY <1>3, <3>2, <4>4
    <3>3. CASE ~NotFound(d) /\ GoOn(x, "reread", d, 0) /\ UNCHANGED storeVars
      BY <3>3 DEF GoOn, NotFound, storeVars
    <3> QED BY <2>7, <3>1, <3>2, <3>3 DEF Create
  <2>8. CASE Reread(x)
    <3>1. PICK d \in Ids : d = cur[x] BY <2>8 DEF Reread, CurInv
    <3>2. helppers' = helppers /\ GoOn(x, "patch", d, helppers[d].id)
      BY <2>8, <3>1 DEF Reread, storeVars
    <3>3. helppers[d].id # 0 BY <1>0, <2>8, <3>1 DEF Reread, NotFound
    <3> QED BY <1>3, <3>2, <3>3
  <2>9. CASE Update(x)
    <3>1. PICK d \in Ids : d = cur[x] BY <2>9 DEF Update, CurInv
    <3>2. Writes(x) BY <2>9, UpdateWrites
    <3>3. helppers'[d].id = hand[x] /\ hand[x] # 0 BY <2>9, <3>1, <3>2 DEF Writes, Update
    <3>4. CASE GoOn(x, "patch", d, hand[x]) BY <1>3, <3>3, <3>4
    <3> QED BY <2>2, <2>9, <3>1, <3>4 DEF Update
  <2>10. CASE WriteBack(x) BY <2>1, <2>2, <2>10 DEF WriteBack
  <2>11. CASE GiveUp(x) \/ Advance(x) \/ Abort(x) \/ Timeout(x)
    BY <2>1, <2>11 DEF GiveUp, Advance, Abort, Timeout
  <2>12. CASE LoseAnswer(x)
    <3>1. Unmoved(x) BY <2>12 DEF LoseAnswer, localVars, Unmoved
    <3> QED BY <1>1, <3>1
  <2> HIDE DEF Patch
  <2> QED BY <1>4, <2>3, <2>4, <2>5, <2>6, <2>7, <2>8, <2>9, <2>10, <2>11, <2>12 DEF Step
<1>5. ASSUME NEW w \in Workers, Step(w) \/ Abort(w) \/ LoseAnswer(w) \/ Timeout(w), x # w
      PROVE  Unmoved(x)
  BY <1>5, OthersUnmoved DEF BaseInv
<1> HIDE DEF Patch
<1> QED BY <1>1, <1>4, <1>5, OutsideUnmoved DEF Next

\* Every step keeps the second part.
LEMMA OursStep ==
    ASSUME BaseInv, PatchInv, OursInv, [Next]_vars
    PROVE  OursInv'
<1> DEFINE Ours == \A d \in Ids : users[d].externalId \in {0, InitialExternal[d], helppers[d].id}
<1>0. TypeOK BY DEF BaseInv
<1>7. \A d \in Known : helppers'[d].id = d
  <2> SUFFICES ASSUME NEW d \in Known PROVE helppers'[d].id = d OBVIOUS
  <2>1. d \in Ids /\ d # 0 /\ helppers[d].id = d
    BY IdsAssumption, KnownAssumption DEF OursInv
  <2> QED BY <2>1, IdsKept DEF BaseInv
<1>1. ASSUME NEW d \in Ids, users'[d].externalId \in {0, users[d].externalId}
      PROVE  users'[d].externalId \in {0, InitialExternal[d], helppers'[d].id}
  <2>1. CASE helppers[d].id = 0 BY <1>1, <2>1 DEF OursInv
  <2>2. CASE helppers[d].id # 0
    <3>1. helppers'[d].id = helppers[d].id BY <2>2, IdsKept DEF BaseInv
    <3> QED BY <1>1, <3>1 DEF OursInv
  <2> QED BY <2>1, <2>2
<1>2. ASSUME users' = users PROVE Ours' BY <1>1, <1>2
<1>3. ASSUME Environment PROVE Ours'
  <2>1. \A d \in Ids : users'[d].externalId \in {0, users[d].externalId}
    BY <1>0, <1>3, ChangeBindsNothing DEF Environment, DirNext, TypeOK
  <2> QED BY <1>1, <2>1
<1>4. ASSUME NEW w \in Workers, pc[w] = "patch", Bind(cur[w], hand[w]), helppers' = helppers
      PROVE  Ours'
  <2>1. PICK c \in Ids : c = cur[w] BY <1>4 DEF BaseInv, CurInv
  <2>2. PICK t \in Stamps :
          users' = [users EXCEPT ![c] = [@ EXCEPT !.externalId = hand[w], !.lastModified = t]]
    BY <1>4, <2>1 DEF Bind
  <2>3. \A d \in Ids : users[d] \in User BY <1>0 DEF TypeOK, DirTypeOK
  <2>4. users'[c].externalId = helppers'[c].id
    BY <1>0, <1>4, <2>1, <2>2, <2>3 DEF PatchInv, TypeOK, DirTypeOK, User
  <2>5. \A d \in Ids : d # c => users'[d] = users[d] BY <2>2
  <2>6. \A d \in Ids : d # c => users'[d].externalId \in {0, InitialExternal[d], helppers'[d].id}
    BY <1>1, <2>5
  <2> QED BY <2>4, <2>6
<1>5. ASSUME NEW w \in Workers, Step(w) \/ Abort(w) \/ LoseAnswer(w) \/ Timeout(w)
      PROVE  Ours'
  <2>1. CASE WriteBack(w) \/ LoseAnswer(w)
    BY <1>2, <1>4, <2>1 DEF WriteBack, LoseAnswer, storeVars
  <2>2. CASE ~(WriteBack(w) \/ LoseAnswer(w))
    <3>1. users' = users
      BY <1>5, <2>2 DEF Step, Start, FetchPage, GiveUp, Malformed, SkipInactive, FindNew,
                        FindKnown, Lookup, Create, Reread, Update, ReportDrift, Advance, Abort,
                        Timeout, dirVars
    <3> QED BY <1>2, <3>1
  <2> QED BY <2>1, <2>2
<1>6. ASSUME Tick \/ UNCHANGED vars PROVE Ours' BY <1>2, <1>6 DEF Tick, vars
<1> HIDE DEF Ours
<1>8. Ours' BY <1>3, <1>5, <1>6 DEF Next
<1> QED BY <1>7, <1>8 DEF Ours, OursInv

\* The initial states satisfy both.
LEMMA OursInit == Init => PatchInv /\ OursInv
<1> SUFFICES ASSUME Init PROVE PatchInv /\ OursInv OBVIOUS
<1>1. PatchInv BY DEF Init, PatchInv
<1>2. \A d \in Ids : users[d].externalId = InitialExternal[d] BY DEF Init, DirInit
<1>3. \A d \in Known : helppers[d].id = d BY KnownAssumption DEF Init, StoreInit
<1> QED BY <1>1, <1>2, <1>3 DEF OursInv

\* When the directory starts with none but the base's own ids, nothing it carries
\* stands in the way of a write-back.
LEMMA NothingInTheWay ==
    ASSUME OwnBindings, BaseInv, PatchInv, OursInv
    PROVE  RaceMakesNoConflict
<1> SUFFICES ASSUME NEW w \in Workers, pc[w] = "patch",
                    NEW e \in Ids \ {cur[w]}, users[e].externalId = hand[w]
             PROVE  FALSE
  BY DEF RaceMakesNoConflict, Conflicts
<1>1. cur[w] \in Ids /\ hand[w] = helppers[cur[w]].id /\ hand[w] # 0
  BY DEF BaseInv, CurInv, PatchInv
<1>2. InitialExternal[e] \in {0, helppers[e].id} BY DEF OwnBindings, OursInv
<1>3. users[e].externalId = helppers[e].id BY <1>1, <1>2 DEF OursInv
<1> QED BY <1>1, <1>3 DEF BaseInv, MintInv

\* An externalId in the directory is the base's own id for that person, whoever
\* won the race to create it, or what was there before.
THEOREM OursIsWrittenBack == Spec => []WriteBackIsOurs
<1>1. Init => BaseInv /\ PatchInv /\ OursInv BY BaseInit, OursInit
<1>2. BaseInv /\ PatchInv /\ OursInv /\ [Next]_vars => BaseInv' /\ PatchInv' /\ OursInv'
  BY BaseStep, PatchStep, OursStep
<1>3. OursInv => WriteBackIsOurs BY DEF OursInv, WriteBackIsOurs
<1> QED BY <1>1, <1>2, <1>3, PTL DEF Spec

\* With a directory that starts with none but the base's own ids, no write-back
\* meets a 409 of this system's own making.
THEOREM RacesDoNotConflict == OwnBindings => (Spec => []RaceMakesNoConflict)
<1> SUFFICES ASSUME OwnBindings PROVE Spec => []RaceMakesNoConflict OBVIOUS
<1>1. Init => BaseInv /\ PatchInv /\ OursInv BY BaseInit, OursInit
<1>2. BaseInv /\ PatchInv /\ OursInv /\ [Next]_vars => BaseInv' /\ PatchInv' /\ OursInv'
  BY BaseStep, PatchStep, OursStep
<1>3. BaseInv /\ PatchInv /\ OursInv => RaceMakesNoConflict BY NothingInTheWay
<1> QED BY <1>1, <1>2, <1>3, PTL DEF Spec

(****************************************************************************)
(* What is kept while the directory changes and while others write.         *)
(****************************************************************************)

\* What keeps a cycle on track, when the records in X need not be bound.
TrackInv(X) ==
    /\ TypeOK /\ CurInv /\ IdleInv /\ TimeInv /\ StampInv /\ MintInv /\ HandInv
    /\ CycleInv(X)
    /\ NothingLost(X)

\* Only they are refused a write-back.
Refusals(X) ==
    \A w \in Workers : /\ WriteBack(w)
                       /\ users[cur[w]].present /\ Conflicts(cur[w], hand[w])
                       => cur[w] \in X

\* A record stamped during a cycle is recent for it, and its filter selects it.
LEMMA RestampedIsRecent ==
    ASSUME OverlapCovers, TypeOK, TypeOK', TimeInv, StampInv, UsersMove,
           NEW x \in Workers, Busy(x), cycle'[x] = cycle[x],
           NEW d \in Ids, Restamped(d)
    PROVE  /\ Recent(x, d)'
           /\ Touched(x, d)'
           /\ users'[d].lastModified # 0
           /\ cycle[x].cp = 0 \/ users'[d].lastModified > Since(cycle[x].cp)
<1> DEFINE t == users'[d].lastModified
           s == cycle[x].started
<1>1. /\ clock \in Nat /\ s \in Nat /\ cycle[x].cp \in Nat /\ t \in Nat
      /\ MaxLag \in Nat /\ Slack \in Nat /\ CycleTimeout \in Nat
  BY BoundTypes DEF TypeOK, DirTypeOK, LocalTypeOK, Cycle, User
<1>2. t >= clock - MaxLag /\ t >= 1 BY <1>1, TimeAssumption DEF Restamped, Stamps
<1>3. s <= clock BY DEF TimeInv
<1>4. t >= s - MaxLag /\ t >= s - MaxLag - Slack BY <1>1, <1>2, <1>3
<1>5. t >= s - CycleTimeout - Slack - MaxLag BY <1>1, <1>4
<1>6. cycle[x].cp = 0 \/ cycle[x].cp <= s + Lead BY DEF StampInv
<1>7. cycle[x].cp = 0 \/ t > Since(cycle[x].cp) BY <1>1, <1>5, <1>6, WindowCovers
<1> QED BY <1>1, <1>2, <1>4, <1>7 DEF Recent, Touched

\* While a cycle runs, the list it walks only grows.
LEMMA SelectedGrows ==
    ASSUME OverlapCovers, TypeOK, TypeOK', TimeInv, StampInv,
           users' = users \/ UsersMove,
           NEW x \in Workers, Busy(x), cycle'[x] = cycle[x]
    PROVE  Selected(cycle[x]) \subseteq Selected(cycle[x])'
<1> SUFFICES ASSUME NEW d \in Selected(cycle[x]) PROVE d \in Selected(cycle[x])'
  OBVIOUS
<1> DEFINE c == cycle[x]
           all == c.kind = "full" \/ c.cp = 0
<1>1. /\ d \in Ids /\ users[d].present
      /\ all \/ (users[d].lastModified # 0 /\ users[d].lastModified > Since(c.cp))
  BY DEF Selected, Matched
<1>2. (Since(c.cp))' = Since(c.cp) /\ c' = c BY DEF Since
<1>3. SUFFICES users'[d].present /\
               (all \/ (users'[d].lastModified # 0 /\ users'[d].lastModified > Since(c.cp)))
  BY <1>1, <1>2 DEF Selected, Matched
<1>4. CASE users'[d] = users[d] BY <1>1, <1>4
<1>5. CASE UsersMove /\ Restamped(d) BY <1>1, <1>5, RestampedIsRecent DEF Restamped
<1>6. CASE Repaired(d) BY <1>1, <1>6 DEF Repaired
<1>7. ~Undated(d) BY <1>1 DEF Undated
<1> QED BY <1>1, <1>4, <1>5, <1>6, <1>7 DEF UsersMove

\* x keeps its page and its place in the walk.
Keeps(x) ==
    /\ cycle'[x] = cycle[x] /\ snap'[x] = snap[x]
    /\ walk'[x].status = walk[x].status /\ walk'[x].startIndex = walk[x].startIndex
    /\ walk'[x].bad = walk[x].bad
    /\ \A d \in Ids : InHand(x, d)' => InHand(x, d)

\* What x has not read yet stays ahead of it.
LEMMA AheadKept ==
    ASSUME OverlapCovers, TypeOK, TypeOK', TimeInv, StampInv,
           users' = users \/ UsersMove,
           NEW x \in Workers, Busy(x), cycle'[x] = cycle[x],
           walk'[x].status = walk[x].status, walk'[x].startIndex = walk[x].startIndex,
           NEW d \in Ids, Ahead(x, d)
    PROVE  Ahead(x, d)'
<1> DEFINE S == Selected(cycle[x])
<1>0. CASE walk[x].status = "broken" BY <1>0 DEF Ahead
<1> SUFFICES ASSUME walk[x].status # "broken" PROVE Ahead(x, d)' BY <1>0
<1>1. S \subseteq S' BY SelectedGrows
<1>2. S \in SUBSET Ids /\ S' \in SUBSET Ids BY DEF Selected, Matched
<1>3. d \in S /\ Rank(d, S) >= walk[x].startIndex /\ walk[x].status = "more"
  BY DEF Ahead
<1>4. Rank(d, S) <= Rank(d, S') BY <1>1, <1>2, <1>3, RankGrows
<1>5. Rank(d, S) \in Nat /\ Rank(d, S') \in Nat BY <1>1, <1>2, <1>3, ListOfIds, RankType
<1>6. walk[x].startIndex \in Nat BY DEF TypeOK, LocalTypeOK, Walk
<1>7. Rank(d, S') >= walk'[x].startIndex BY <1>3, <1>4, <1>5, <1>6
<1>8. (Rank(d, S))' = Rank(d, S') BY DEF Rank
<1> QED BY <1>1, <1>3, <1>7, <1>8 DEF Ahead

\* A cycle stays on track while the directory changes.
LEMMA KeepUsers ==
    ASSUME NEW X, OverlapCovers, TypeOK, TypeOK', TimeInv, StampInv,
           users' = users \/ UsersMove, helppers' = helppers,
           NEW x \in Workers, Busy(x), Keeps(x), Current(x), Tracks(X, x),
           \A d \in Ids : Owed(X, x, d) => Owed(X, x, d)' \/ (UsersMove /\ Restamped(d))
    PROVE  Current(x)' /\ Tracks(X, x)'
<1> SUFFICES ASSUME NEW d \in Ids, Dated(d)'
             PROVE  /\ InHand(x, d)' => Fresh(x, d)' \/ Recent(x, d)'
                    /\ Done(X, x, d)' \/ Ahead(x, d)' \/ Owed(X, x, d)'
  BY DEF Current, Tracks
<1>0. /\ cycle'[x] = cycle[x] /\ snap'[x] = snap[x] /\ walk'[x].bad = walk[x].bad
      /\ InHand(x, d)' => InHand(x, d)
      /\ Ahead(x, d) => Ahead(x, d)'
      /\ Owed(X, x, d) => Owed(X, x, d)' \/ (UsersMove /\ Restamped(d))
  BY AheadKept DEF Keeps
<1>1. CASE UsersMove /\ Restamped(d) BY <1>0, <1>1, RestampedIsRecent DEF Done
<1>2. CASE users'[d] = users[d] /\ ~(UsersMove /\ Restamped(d))
  <2>1. Dated(d) BY <1>2 DEF Dated
  <2>2. Fresh(x, d) => Fresh(x, d)' BY <1>0, <1>2 DEF Fresh, Usable
  <2>3. Recent(x, d) => Recent(x, d)' BY <1>0, <1>2 DEF Recent
  <2>4. Settled(X, d) => Settled(X, d)'
    BY <1>2 DEF Settled, Tied, Usable, Agrees, NotFound, Active, InSync
  <2>5. Done(X, x, d) => Done(X, x, d)' BY <1>0, <1>2, <2>4 DEF Done, Touched, Held
  <2> QED BY <1>0, <1>2, <2>1, <2>2, <2>3, <2>5 DEF Current, Tracks
<1>3. CASE Repaired(d) /\ ~(UsersMove /\ Restamped(d))
  <2>1. /\ Dated(d) /\ ~Usable(users[d]) /\ users'[d].lastModified = users[d].lastModified
        /\ users'[d].externalId = users[d].externalId
    BY <1>3 DEF Repaired, Dated
  <2>2. Fresh(x, d) => Fresh(x, d)' BY <1>0, <2>1 DEF Fresh, Usable
  <2>3. Recent(x, d) => Recent(x, d)' BY <1>0, <2>1 DEF Recent
  <2>4. Done(X, x, d) => Done(X, x, d)' BY <1>0, <2>1 DEF Done, Settled, Touched, Held
  <2> QED BY <1>0, <1>3, <2>1, <2>2, <2>3, <2>4 DEF Current, Tracks
<1>4. ~Undated(d) BY DEF Undated, Dated
<1> QED BY <1>1, <1>2, <1>3, <1>4 DEF UsersMove

\* What v writes to the base agrees with the directory, or the directory changed
\* the record since v began its cycle; it unties nothing.
LEMMA WriteAgrees ==
    ASSUME NEW X, TypeOK, HandInv, CurInv, CycleInv(X), users' = users,
           NEW v \in Workers, Writes(v), NEW d \in Ids, d = cur[v], Dated(d)
    PROVE  /\ Busy(v)
           /\ \/ Recent(v, d)
              \/ (Settled(X, d) => Settled(X, d)') /\ (Tied(X, d)' => Settled(X, d)')
<1>1. pc[v] \in {"create", "update"} BY DEF Writes
<1>2. Busy(v) BY <1>1 DEF Busy
<1>3. Fresh(v, d) \/ Recent(v, d) BY <1>1, <1>2 DEF CycleInv, Current, InHand
<1>4. Usable(snap[v][d]) BY <1>1 DEF HandInv
<1>5. ASSUME Fresh(v, d) PROVE (Settled(X, d) => Settled(X, d)') /\ (Tied(X, d)' => Settled(X, d)')
  <2>1. users[d].active = snap[v][d].active /\ users[d].profile = snap[v][d].profile
    BY <1>4, <1>5 DEF Fresh
  <2>2. helppers'[d].id # 0 /\ helppers'[d].enabled = Active(snap[v][d])
        /\ helppers'[d].profile = snap[v][d].profile
    BY DEF Writes
  <2>3. Usable(users[d])' /\ Agrees(d)'
    BY <1>4, <2>1, <2>2 DEF Usable, Agrees, NotFound, Active
  <2>4. CASE pc[v] = "create"
    <3>1. NotFound(d) /\ Active(users[d]) BY <2>1, <2>4 DEF Writes, HandInv, Active
    <3> QED BY <2>3, <3>1 DEF Settled, Agrees
  <2>5. CASE pc[v] = "update"
    <3>1. helppers'[d].id = helppers[d].id BY <2>5 DEF Writes, HandInv
    <3>2. Tied(X, d) => Tied(X, d)' BY <3>1 DEF Tied, NotFound
    <3> QED BY <2>3, <3>2 DEF Settled
  <2> QED BY <1>1, <2>4, <2>5
<1> QED BY <1>2, <1>3, <1>5

\* Nobody owes a record that v has just written, unless its binding is due.
LEMMA WriteDone ==
    ASSUME NEW X, TypeOK, HandInv, CurInv, CycleInv(X), TimeInv, users' = users,
           NEW v \in Workers, Writes(v), NEW d \in Ids, d = cur[v], Dated(d),
           NEW x \in Workers, Busy(x), cycle'[x] = cycle[x], walk'[x].bad = walk[x].bad
    PROVE  (Done(X, x, d) => Done(X, x, d)') /\ (Tied(X, d)' => Done(X, x, d)')
<1> DEFINE t == users[d].lastModified
           s == cycle[x].started
           r == cycle[v].started
<1>1. /\ Busy(v)
      /\ \/ Recent(v, d)
         \/ (Settled(X, d) => Settled(X, d)') /\ (Tied(X, d)' => Settled(X, d)')
  BY WriteAgrees
<1>2. ASSUME Recent(v, d) PROVE Touched(x, d)'
  <2>1. /\ t \in Nat /\ s \in Nat /\ r \in Nat /\ clock \in Nat
        /\ MaxLag \in Nat /\ Slack \in Nat /\ CycleTimeout \in Nat
    BY BoundTypes DEF TypeOK, DirTypeOK, LocalTypeOK, Cycle, User
  <2>2. t >= r - MaxLag BY <1>2 DEF Recent
  <2>3. CASE x = v BY <2>1, <2>2, <2>3 DEF Touched
  <2>4. CASE x # v
    <3>1. s <= clock /\ clock <= r + CycleTimeout BY <1>1 DEF TimeInv
    <3>2. Slack = CycleTimeout BY <2>4, BoundTypes
    <3>3. t >= s - MaxLag - Slack BY <2>1, <2>2, <3>1, <3>2
    <3> QED BY <3>3 DEF Touched
  <2> QED BY <2>3, <2>4
<1>3. (Touched(x, d) => Touched(x, d)') /\ (Held(x, d) => Held(x, d)') BY DEF Touched, Held
<1> QED BY <1>1, <1>2, <1>3 DEF Done

\* A cycle stays on track while it or another one writes to the base.
LEMMA KeepStore ==
    ASSUME NEW X, OverlapCovers, TypeOK, TypeOK', HandInv, CurInv, CycleInv(X), TimeInv, StampInv,
           users' = users, NEW v \in Workers, Writes(v),
           NEW x \in Workers, Busy(x), Keeps(x),
           \A d \in Ids : Dated(d) /\ Owed(X, x, d)
               => Owed(X, x, d)' \/ (d = cur[v] /\ (Tied(X, d)' \/ Done(X, x, d)'))
    PROVE  Current(x)' /\ Tracks(X, x)'
<1> SUFFICES ASSUME NEW d \in Ids, Dated(d)'
             PROVE  /\ InHand(x, d)' => Fresh(x, d)' \/ Recent(x, d)'
                    /\ Done(X, x, d)' \/ Ahead(x, d)' \/ Owed(X, x, d)'
  BY DEF Current, Tracks
<1>0. /\ cycle'[x] = cycle[x] /\ snap'[x] = snap[x] /\ walk'[x].bad = walk[x].bad
      /\ InHand(x, d)' => InHand(x, d)
      /\ Ahead(x, d) => Ahead(x, d)'
      /\ Dated(d) /\ Owed(X, x, d)
         => Owed(X, x, d)' \/ (d = cur[v] /\ (Tied(X, d)' \/ Done(X, x, d)'))
  BY AheadKept DEF Keeps
<1>1. Dated(d) BY DEF Dated
<1>2. Current(x) /\ Tracks(X, x) BY DEF CycleInv
<1>3. Fresh(x, d) => Fresh(x, d)' BY <1>0 DEF Fresh, Usable
<1>4. Recent(x, d) => Recent(x, d)' BY <1>0 DEF Recent
<1>5. CASE d = cur[v]
  <2>1. (Done(X, x, d) => Done(X, x, d)') /\ (Tied(X, d)' => Done(X, x, d)')
    BY <1>0, <1>1, <1>5, WriteDone
  <2> QED BY <1>0, <1>1, <1>2, <1>3, <1>4, <2>1 DEF Current, Tracks
<1>6. CASE d # cur[v]
  <2>1. helppers'[d] = helppers[d] BY <1>6 DEF Writes
  <2>2. Settled(X, d) => Settled(X, d)'
    BY <2>1 DEF Settled, Tied, Usable, Agrees, NotFound, Active, InSync
  <2>3. Done(X, x, d) => Done(X, x, d)' BY <1>0, <2>2 DEF Done, Touched, Held
  <2> QED BY <1>0, <1>1, <1>2, <1>3, <1>4, <1>6, <2>3 DEF Current, Tracks
<1> QED BY <1>5, <1>6

\* A cycle stays on track when it takes a record off its page: the record is
\* done with, or the cycle still owes it a write.
LEMMA TakeRecord ==
    ASSUME NEW X, OverlapCovers, TypeOK, TypeOK', TimeInv, StampInv,
           users' = users, helppers' = helppers,
           NEW w \in Workers, Current(w), Tracks(X, w), pc[w] = "walk",
           NEW d \in Ids, d \in todo[w], todo'[w] = todo[w] \ {d},
           cycle'[w] = cycle[w], snap'[w] = snap[w],
           pc'[w] = "walk" \/ cur'[w] = d,
           walk'[w].status = walk[w].status, walk'[w].startIndex = walk[w].startIndex,
           \/ walk'[w].bad = walk[w].bad
           \/ walk'[w].bad # 0 /\ (walk[w].bad = 0 \/ walk'[w].bad <= walk[w].bad),
           Dated(d) /\ Fresh(w, d) => Done(X, w, d)' \/ Owed(X, w, d)'
    PROVE  Current(w)' /\ Tracks(X, w)'
<1> SUFFICES ASSUME NEW e \in Ids, Dated(e)'
             PROVE  /\ InHand(w, e)' => Fresh(w, e)' \/ Recent(w, e)'
                    /\ Done(X, w, e)' \/ Ahead(w, e)' \/ Owed(X, w, e)'
  BY DEF Current, Tracks
<1>0. Busy(w) BY DEF Busy
<1>1. Dated(e) BY DEF Dated
<1>2. Fresh(w, e) => Fresh(w, e)' BY DEF Fresh, Usable
<1>3. Recent(w, e) => Recent(w, e)' BY DEF Recent
<1>4. Ahead(w, e) => Ahead(w, e)' BY <1>0, AheadKept
<1>5. InHand(w, e)' => InHand(w, e) BY DEF InHand
<1>6. Done(X, w, e) => Done(X, w, e)'
  <2>1. Settled(X, e) => Settled(X, e)'
    BY DEF Settled, Tied, Usable, Agrees, NotFound, Active, InSync
  <2>2. Touched(w, e) => Touched(w, e)' BY DEF Touched
  <2>3. /\ walk[w].bad \in Nat /\ walk'[w].bad \in Nat
        /\ users[e].lastModified \in Nat
    BY DEF TypeOK, DirTypeOK, LocalTypeOK, Walk, User
  <2>4. Held(w, e) => Held(w, e)' BY <2>3 DEF Held
  <2> QED BY <2>1, <2>2, <2>4 DEF Done
<1>7. InHand(w, e)' => Fresh(w, e)' \/ Recent(w, e)'
  BY <1>1, <1>2, <1>3, <1>5 DEF Current
<1>8. CASE e = d
  <2>1. Fresh(w, d) \/ Recent(w, d) BY <1>1, <1>8 DEF Current, InHand
  <2>2. ASSUME Recent(w, d) PROVE Done(X, w, d)
    <3>1. /\ users[d].lastModified \in Nat /\ cycle[w].started \in Nat
          /\ MaxLag \in Nat /\ Slack \in Nat
      BY BoundTypes DEF TypeOK, DirTypeOK, LocalTypeOK, Cycle, User
    <3> QED BY <2>2, <3>1 DEF Recent, Touched, Done
  <2> QED BY <1>1, <1>6, <1>7, <1>8, <2>1, <2>2
<1>9. CASE e # d
  <2>1. Owed(X, w, e) => Owed(X, w, e)' BY <1>9 DEF Owed
  <2> QED BY <1>1, <1>4, <1>6, <1>7, <2>1 DEF Tracks
<1> QED BY <1>8, <1>9

(****************************************************************************)
(* The steps of a cycle.                                                    *)
(****************************************************************************)

\* A cycle that begins has everything that may be out of date ahead of it.
LEMMA StartOnTrack ==
    ASSUME NEW X, TypeOK, IdleInv, NothingLost(X), NEW w \in Workers, NEW k \in Kinds, Start(w, k)
    PROVE  Current(w)' /\ Tracks(X, w)'
<1>1. /\ pc[w] = "idle" /\ pc'[w] = "walk"
      /\ cycle'[w] = [kind |-> k, cp |-> checkpoint, started |-> clock]
      /\ walk' = walk /\ todo' = todo /\ users' = users /\ helppers' = helppers
  BY DEF Start, TypeOK, LocalTypeOK, dirVars, storeVars
<1>2. walk'[w] = NewWalk /\ todo'[w] = {} BY <1>1 DEF IdleInv
<1>3. Current(w)' BY <1>1, <1>2 DEF Current, InHand
<1>4. ASSUME NEW d \in Ids, Dated(d)' PROVE Done(X, w, d)' \/ Ahead(w, d)'
  <2>1. Dated(d) BY <1>1, <1>4 DEF Dated
  <2>2. CASE Settled(X, d)
    BY <1>1, <2>2 DEF Done, Settled, Tied, Usable, Agrees, NotFound, Active, InSync
  <2>3. CASE Pending(d)
    <3> DEFINE S == Selected(cycle[w])
    <3>1. cycle'[w].cp = checkpoint BY <1>1
    <3>2. (Since(cycle[w].cp))' = Since(checkpoint) BY <3>1 DEF Since
    <3>3. d \in S' BY <1>1, <2>1, <2>3, <3>1, <3>2 DEF Selected, Matched, Pending, Dated
    <3>4. S' \in SUBSET Ids BY DEF Selected, Matched
    <3>5. Rank(d, S') \in 1 .. Cardinality(S') /\ Cardinality(S') \in Nat
      BY <3>3, <3>4, ListOfIds, RankType
    <3>6. Rank(d, S') >= 1 BY <3>5
    <3>7. (Rank(d, S))' = Rank(d, S') BY DEF Rank
    <3>8. walk'[w].status = "more" /\ walk'[w].startIndex = 1 BY <1>2 DEF NewWalk
    <3> QED BY <3>3, <3>6, <3>7, <3>8 DEF Ahead
  <2> QED BY <2>1, <2>2, <2>3 DEF NothingLost
<1> QED BY <1>3, <1>4 DEF Tracks

\* What is ahead of a cycle is on the page it reads or still ahead of it.
LEMMA FetchOnTrack ==
    ASSUME NEW X, TypeOK, TypeOK', NEW w \in Workers, Current(w), Tracks(X, w), FetchPage(w)
    PROVE  Current(w)' /\ Tracks(X, w)'
<1> DEFINE S == Selected(cycle[w])
           first == walk[w].startIndex
           page == PageOf(S, first, PageSize)
           next == first + Cardinality(page)
<1>1. /\ pc[w] = "walk" /\ pc' = pc /\ todo[w] = {} /\ todo'[w] = page
      /\ walk[w].status = "more"
      /\ cycle' = cycle /\ users' = users /\ helppers' = helppers
      /\ \A d \in Ids : d \in page => snap'[w][d] = users[d]
      /\ walk'[w] = AfterPage(walk[w], page, Cardinality(S))
  BY DEF FetchPage, TypeOK, LocalTypeOK, dirVars, storeVars
<1>2. walk[w] \in Walk BY DEF TypeOK, LocalTypeOK
<1>3. /\ walk'[w].bad = walk[w].bad /\ walk'[w].startIndex = next
      /\ Cardinality(page) = PageSize /\ first + PageSize <= Cardinality(S)
         => walk'[w].status \in {"more", "broken"}
  <2>1. page \subseteq Ids /\ Cardinality(page) \in Nat /\ Cardinality(S) \in Nat
    BY PageType DEF Selected
  <2> HIDE DEF page, S
  <2> QED BY <1>1, <1>2, <2>1, PageWalk
<1>4. Current(w)'
  <2> SUFFICES ASSUME NEW d \in Ids, InHand(w, d)' PROVE Fresh(w, d)' BY DEF Current
  <2>1. d \in page BY <1>1 DEF InHand
  <2> QED BY <1>1, <2>1 DEF Fresh
<1>5. ASSUME NEW d \in Ids, Dated(d)' PROVE Done(X, w, d)' \/ Ahead(w, d)' \/ Owed(X, w, d)'
  <2>1. Dated(d) BY <1>1, <1>5 DEF Dated
  <2>2. ~Owed(X, w, d) BY <1>1 DEF Owed
  <2>3. CASE Done(X, w, d)
    <3>1. Settled(X, d) => Settled(X, d)'
      BY <1>1 DEF Settled, Tied, Usable, Agrees, NotFound, Active, InSync
    <3> QED BY <1>1, <1>3, <2>3, <3>1 DEF Done, Touched, Held
  <2>4. CASE Ahead(w, d)
    <3>1. S \in SUBSET Ids BY DEF Selected, Matched
    <3>2. d \in S /\ Rank(d, S) >= first BY <1>1, <2>4 DEF Ahead
    <3>3. CASE Rank(d, S) < first + PageSize
      <4>1. d \in page BY <3>2, <3>3 DEF PageOf
      <4> QED BY <1>1, <4>1 DEF Owed
    <3>4. CASE ~(Rank(d, S) < first + PageSize)
      <4>1. Rank(d, S) \in 1 .. Cardinality(S) /\ Cardinality(S) \in Nat
        BY <3>1, <3>2, ListOfIds, RankType
      <4>2. first \in Nat \ {0} /\ PageSize \in Nat \ {0} BY <1>2, SyncerAssumption DEF Walk
      <4>3. Rank(d, S) >= first + PageSize BY <3>4, <4>1, <4>2
      <4>4. Cardinality(page) = PageSize BY <3>1, <3>2, <4>2, <4>3, PageFull
      <4>5. next <= Rank(d, S) /\ next <= Cardinality(S) BY <4>1, <4>2, <4>3, <4>4
      <4>6. walk'[w].status \in {"more", "broken"} BY <1>3, <4>2, <4>4, <4>5
      <4>7. Rank(d, S) >= walk'[w].startIndex BY <1>3, <4>5
      <4>8. S' = S BY <1>1 DEF Selected, Matched, Since
      <4>9. (Rank(d, S))' = Rank(d, S) BY <4>8 DEF Rank
      <4> QED BY <3>2, <4>6, <4>7, <4>8, <4>9 DEF Ahead
    <3> QED BY <3>3, <3>4
  <2> QED BY <2>1, <2>2, <2>3, <2>4 DEF Tracks
<1> QED BY <1>4, <1>5 DEF Tracks

\* What the lookup of a usable record leaves alone.
LEMMA LookupFrame ==
    ASSUME TypeOK, NEW w \in Workers, NEW d \in Ids, Lookup(w, d)
    PROVE  /\ users' = users /\ helppers' = helppers /\ cycle' = cycle /\ snap' = snap
           /\ pc[w] = "walk" /\ d \in todo[w] /\ todo'[w] = todo[w] \ {d}
           /\ Usable(snap[w][d])
BY DEF Lookup, IsNext, dirVars, storeVars, TypeOK, LocalTypeOK

\* Settling a record moves neither the place in the walk nor the hold.
LEMMA SettleFrame ==
    ASSUME TypeOK, NEW w \in Workers, NEW u, Settle(w, u)
    PROVE  /\ pc'[w] = "walk"
           /\ walk'[w].status = walk[w].status /\ walk'[w].startIndex = walk[w].startIndex
           /\ walk'[w].bad = walk[w].bad
<1>1. walk[w] \in Walk BY DEF TypeOK, LocalTypeOK
<1>2. pc'[w] = "walk" /\ walk'[w] = AfterRecord(walk[w], u)
  BY DEF Settle, TypeOK, LocalTypeOK
<1> QED BY <1>1, <1>2 DEF AfterRecord, Walk

\* Going on with a record moves neither of them either.
LEMMA GoOnFrame ==
    ASSUME TypeOK, NEW w \in Workers, NEW where, NEW d, NEW h, GoOn(w, where, d, h)
    PROVE  pc'[w] = where /\ cur'[w] = d /\ walk' = walk
BY DEF GoOn, TypeOK, LocalTypeOK

\* apply, up to its first write.
LEMMA ApplyOnTrack ==
    ASSUME NEW X, OverlapCovers, TypeOK, TypeOK', TimeInv, StampInv,
           NEW w \in Workers, Current(w), Tracks(X, w), Busy(w)', NEW d \in Ids,
           Malformed(w, d) \/ SkipInactive(w, d) \/ FindNew(w, d) \/ FindKnown(w, d)
    PROVE  Current(w)' /\ Tracks(X, w)'
<1> DEFINE u == snap[w][d]
<1>0. ASSUME Dated(d), Fresh(w, d), Usable(u), users' = users, helppers' = helppers,
             IF NotFound(d) THEN ~Active(u) ELSE InSync(u, helppers[d]),
             d \in X \/ NotFound(d) \/ Bound(u, helppers[d].id)
      PROVE  Done(X, w, d)'
  <2>1. Usable(users[d])' /\ Agrees(d)'
    BY <1>0 DEF Fresh, Usable, Agrees, NotFound, Active, InSync
  <2>2. Tied(X, d)' BY <1>0 DEF Fresh, Tied, Bound, NotFound
  <2> QED BY <2>1, <2>2 DEF Done, Settled
<1>1. CASE Malformed(w, d)
  <2>1. ~Return(w) BY DEF Return, Busy, TypeOK, LocalTypeOK
  <2>2. /\ users' = users /\ helppers' = helppers /\ cycle' = cycle /\ snap' = snap
        /\ pc[w] = "walk" /\ pc' = pc /\ d \in todo[w] /\ todo'[w] = todo[w] \ {d}
        /\ ~Usable(u) /\ walk'[w] = AfterMalformed(walk[w], u)
    BY <1>1, <2>1 DEF Malformed, IsNext, dirVars, storeVars, TypeOK, LocalTypeOK
  <2>3. walk[w] \in Walk /\ u.lastModified \in Nat /\ walk[w].bad \in Nat
    BY DEF TypeOK, LocalTypeOK, Walk, User
  <2>4. /\ walk'[w].status = walk[w].status /\ walk'[w].startIndex = walk[w].startIndex
        /\ walk'[w].bad = IF u.lastModified # 0
                             /\ (walk[w].bad = 0 \/ u.lastModified < walk[w].bad)
                          THEN u.lastModified ELSE walk[w].bad
    BY <2>2, <2>3 DEF AfterMalformed, Walk
  <2>5. \/ walk'[w].bad = walk[w].bad
        \/ walk'[w].bad # 0 /\ (walk[w].bad = 0 \/ walk'[w].bad <= walk[w].bad)
    BY <2>3, <2>4
  <2>6. ASSUME Dated(d), Fresh(w, d) PROVE Done(X, w, d)'
    <3>1. users'[d].lastModified = u.lastModified /\ u.lastModified # 0
      BY <2>2, <2>6 DEF Dated, Fresh
    <3>2. walk'[w].bad # 0 /\ walk'[w].bad <= u.lastModified BY <2>3, <2>4, <3>1
    <3> QED BY <3>1, <3>2 DEF Done, Held
  <2> QED BY <2>2, <2>4, <2>5, <2>6, TakeRecord
<1>2. CASE Lookup(w, d) /\ Settle(w, u)
           /\ IF NotFound(d) THEN ~Active(u)
              ELSE InSync(u, helppers[d]) /\ Bound(u, helppers[d].id)
  BY <1>0, <1>2, LookupFrame, SettleFrame, TakeRecord
<1>3. CASE SkipInactive(w, d) BY <1>2, <1>3 DEF SkipInactive
<1>4. CASE FindNew(w, d)
  <2>1. Lookup(w, d) /\ NotFound(d) /\ GoOn(w, "create", d, 0)
    BY <1>4 DEF FindNew, OverlapCovers
  <2>2. Owed(X, w, d)' BY <2>1, LookupFrame, GoOnFrame DEF Owed, NotFound
  <2> QED BY <2>1, <2>2, LookupFrame, GoOnFrame, TakeRecord
<1>5. CASE FindKnown(w, d)
  <2>1. Lookup(w, d) /\ ~NotFound(d) BY <1>5 DEF FindKnown
  <2>2. CASE InSync(u, helppers[d]) /\ Bound(u, helppers[d].id) /\ Settle(w, u)
    BY <1>2, <2>1, <2>2
  <2>3. CASE InSync(u, helppers[d]) /\ GoOn(w, "patch", d, helppers[d].id)
    <3>1. d \notin X => Owed(X, w, d)' BY <2>3, GoOnFrame DEF Owed
    <3>2. d \in X /\ Dated(d) /\ Fresh(w, d) => Done(X, w, d)'
      BY <1>0, <2>1, <2>3, LookupFrame
    <3> QED BY <2>1, <2>3, <3>1, <3>2, LookupFrame, GoOnFrame, TakeRecord
  <2>4. CASE GoOn(w, "update", d, helppers[d].id)
    <3>1. Owed(X, w, d)' BY <2>4, GoOnFrame DEF Owed
    <3> QED BY <2>1, <2>4, <3>1, LookupFrame, GoOnFrame, TakeRecord
  <2> QED BY <1>5, <2>2, <2>3, <2>4 DEF FindKnown, OverlapCovers
<1> QED BY <1>1, <1>3, <1>4, <1>5

\* A step of w that neither takes a record off its page nor writes to the base.
LEMMA WaitOnTrack ==
    ASSUME NEW X, OverlapCovers, TypeOK, TypeOK', TimeInv, StampInv,
           users' = users \/ UsersMove, helppers' = helppers,
           NEW w \in Workers, Busy(w), Current(w), Tracks(X, w),
           cycle' = cycle, snap' = snap, todo' = todo,
           walk'[w].status = walk[w].status, walk'[w].startIndex = walk[w].startIndex,
           walk'[w].bad = walk[w].bad,
           \/ pc'[w] = pc[w] /\ cur'[w] = cur[w]
           \/ /\ pc'[w] \notin {"create", "update"}
              /\ pc[w] # "update" /\ (pc[w] = "create" => ~NotFound(cur[w]))
              /\ cur[w] \notin X /\ pc[w] \in {"create", "reread", "patch"}
                 => \/ pc'[w] \in {"reread", "patch"} /\ cur'[w] = cur[w]
                    \/ UsersMove /\ Restamped(cur[w])
    PROVE  Current(w)' /\ Tracks(X, w)'
<1>1. ASSUME NEW d \in Ids PROVE InHand(w, d)' => InHand(w, d) BY DEF InHand
<1>2. ASSUME NEW d \in Ids PROVE Owed(X, w, d) => Owed(X, w, d)' \/ (UsersMove /\ Restamped(d))
  <2>1. CASE pc'[w] = pc[w] /\ cur'[w] = cur[w] BY <2>1 DEF Owed, NotFound
  <2>2. CASE d \in todo[w] BY <2>2 DEF Owed
  <2>3. CASE ~(pc'[w] = pc[w] /\ cur'[w] = cur[w]) /\ d \notin todo[w] BY <2>3 DEF Owed
  <2> QED BY <2>1, <2>2, <2>3
<1>3. Keeps(w) BY <1>1 DEF Keeps
<1> QED BY <1>2, <1>3, KeepUsers

\* Writing to the base.
LEMMA WriteOnTrack ==
    ASSUME NEW X, OverlapCovers, TypeOK, TypeOK', HandInv, CurInv, CycleInv(X), TimeInv, StampInv,
           NEW w \in Workers, Writes(w), users' = users,
           cycle' = cycle, snap' = snap, todo' = todo,
           walk'[w].status = walk[w].status, walk'[w].startIndex = walk[w].startIndex,
           walk'[w].bad = walk[w].bad,
           \/ pc'[w] = "patch" /\ cur'[w] = cur[w]
           \/ pc'[w] = "walk" /\ pc[w] = "update" /\ Bound(snap[w][cur[w]], hand[w])
    PROVE  Current(w)' /\ Tracks(X, w)'
<1>1. ASSUME NEW d \in Ids PROVE InHand(w, d)' => InHand(w, d) BY DEF InHand
<1>3. Keeps(w) BY <1>1 DEF Keeps
<1>4. Busy(w) BY DEF Writes, Busy
<1>2. ASSUME NEW d \in Ids, Dated(d), Owed(X, w, d)
      PROVE  Owed(X, w, d)' \/ (d = cur[w] /\ (Tied(X, d)' \/ Done(X, w, d)'))
  <2>1. CASE d \in todo[w] BY <2>1 DEF Owed
  <2>2. CASE d = cur[w] /\ d \in X BY <2>2 DEF Tied
  <2>3. CASE d = cur[w] /\ d \notin X /\ pc'[w] = "patch" /\ cur'[w] = cur[w]
    BY <2>3 DEF Owed
  <2>4. CASE d = cur[w] /\ pc[w] = "update" /\ Bound(snap[w][d], hand[w])
    <3>1. Fresh(w, d) \/ Recent(w, d) BY <1>2, <1>4, <2>4 DEF CycleInv, Current, InHand
    <3>2. CASE Fresh(w, d)
      <4>1. users'[d].externalId = helppers'[d].id BY <2>4, <3>2 DEF Fresh, Bound, Writes
      <4> QED BY <2>4, <4>1 DEF Tied
    <3>3. CASE Recent(w, d)
      <4>1. /\ users[d].lastModified \in Nat /\ cycle[w].started \in Nat
            /\ MaxLag \in Nat /\ Slack \in Nat
        BY BoundTypes DEF TypeOK, DirTypeOK, LocalTypeOK, Cycle, User
      <4>2. Touched(w, d)' BY <3>3, <4>1 DEF Recent, Touched
      <4> QED BY <2>4, <4>2 DEF Done
    <3> QED BY <3>1, <3>2, <3>3
  <2>5. d \in todo[w] \/ d = cur[w] BY <1>2 DEF Owed
  <2> QED BY <2>1, <2>2, <2>3, <2>4, <2>5
<1> QED BY <1>2, <1>3, <1>4, KeepStore

\* Every step of w keeps w on track.
LEMMA OwnStep ==
    ASSUME NEW X, OverlapCovers, TrackInv(X), Refusals(X), TypeOK', NEW w \in Workers, Busy(w)',
           Step(w) \/ Abort(w) \/ LoseAnswer(w) \/ Timeout(w)
    PROVE  Current(w)' /\ Tracks(X, w)'
<1> USE DEF TrackInv
<1>0. Busy(w) => Current(w) /\ Tracks(X, w) BY DEF CycleInv
<1>1. ~Return(w) BY DEF Return, Busy, TypeOK, LocalTypeOK
<1>2. ASSUME NEW k \in Kinds, Start(w, k) PROVE Current(w)' /\ Tracks(X, w)'
  BY <1>2, StartOnTrack
<1>3. CASE FetchPage(w)
  <2>1. Busy(w) BY <1>3 DEF FetchPage, Busy
  <2> QED BY <1>0, <1>3, <2>1, FetchOnTrack
<1>4. ASSUME NEW d \in Ids,
             Malformed(w, d) \/ SkipInactive(w, d) \/ FindNew(w, d) \/ FindKnown(w, d)
      PROVE  Current(w)' /\ Tracks(X, w)'
  <2>1. Busy(w) BY <1>4 DEF Malformed, SkipInactive, FindNew, FindKnown, Lookup, Busy
  <2> QED BY <1>0, <1>4, <2>1, ApplyOnTrack
<1>5. CASE Create(w)
  <2>1. /\ pc[w] = "create" /\ users' = users /\ cycle' = cycle /\ todo' = todo
        /\ snap' = snap
    BY <1>5 DEF Create, dirVars
  <2>2. CASE CreateHelpper(cur[w], snap[w][cur[w]].profile) /\ GoOn(w, "patch", cur[w], nextID + 1)
    <3>1. Writes(w) BY <2>1, <2>2, CreateWrites
    <3>2. pc'[w] = "patch" /\ cur'[w] = cur[w] /\ walk' = walk BY <2>2, GoOnFrame
    <3> QED BY <2>1, <3>1, <3>2, WriteOnTrack
  <2>3. CASE ~NotFound(cur[w]) /\ GoOn(w, "reread", cur[w], 0) /\ UNCHANGED storeVars
    <3>1. pc'[w] = "reread" /\ cur'[w] = cur[w] /\ walk' = walk /\ helppers' = helppers
      BY <2>3, GoOnFrame DEF storeVars
    <3>2. Busy(w) BY <2>1 DEF Busy
    <3> QED BY <1>0, <2>1, <2>3, <3>1, <3>2, WaitOnTrack
  <2> QED BY <1>5, <2>2, <2>3 DEF Create
<1>6. CASE Reread(w)
  <2>1. /\ pc[w] = "reread" /\ pc'[w] = "patch" /\ cur'[w] = cur[w] /\ walk' = walk
        /\ users' = users /\ helppers' = helppers
        /\ cycle' = cycle /\ todo' = todo /\ snap' = snap
    BY <1>6, GoOnFrame DEF Reread, dirVars, storeVars
  <2>2. Busy(w) BY <2>1 DEF Busy
  <2> QED BY <1>0, <2>1, <2>2, WaitOnTrack
<1>7. CASE Update(w)
  <2>1. Writes(w) BY <1>7, UpdateWrites
  <2>2. users' = users /\ cycle' = cycle /\ todo' = todo /\ snap' = snap
    BY <1>7 DEF Update, dirVars
  <2>3. /\ walk'[w].status = walk[w].status /\ walk'[w].startIndex = walk[w].startIndex
        /\ walk'[w].bad = walk[w].bad
        /\ \/ pc'[w] = "patch" /\ cur'[w] = cur[w]
           \/ pc'[w] = "walk" /\ pc[w] = "update" /\ Bound(snap[w][cur[w]], hand[w])
    BY <1>7, SettleFrame, GoOnFrame DEF Update
  <2> QED BY <2>1, <2>2, <2>3, WriteOnTrack
<1>8. CASE WriteBack(w)
  <2>1. /\ pc[w] = "patch" /\ Settle(w, snap[w][cur[w]])
        /\ helppers' = helppers /\ cycle' = cycle /\ todo' = todo /\ snap' = snap
    BY <1>1, <1>8 DEF WriteBack, storeVars
  <2>2. UsersMove BY <1>8, StepMoves DEF Step
  <2>3. /\ walk'[w].status = walk[w].status /\ walk'[w].startIndex = walk[w].startIndex
        /\ walk'[w].bad = walk[w].bad /\ pc'[w] = "walk"
    BY <2>1, SettleFrame
  <2>4. Busy(w) BY <2>1 DEF Busy
  <2>5. cur[w] \notin X => UsersMove /\ Restamped(cur[w])
    <3> SUFFICES ASSUME cur[w] \notin X PROVE UsersMove /\ Restamped(cur[w]) OBVIOUS
    <3>1. users[cur[w]].present BY <1>1, <1>8 DEF WriteBack
    <3>2. ~Conflicts(cur[w], hand[w]) BY <1>8, <3>1 DEF Refusals
    <3>3. Bind(cur[w], hand[w]) /\ users[cur[w]].present /\ clock' = clock
      BY <1>1, <1>8, <3>1, <3>2 DEF WriteBack
    <3>4. cur[w] \in Ids /\ hand[w] \in Nat BY <2>1 DEF CurInv, TypeOK, LocalTypeOK
    <3> QED BY <3>3, <3>4, BindMoves
  <2> QED BY <1>0, <2>1, <2>2, <2>3, <2>4, <2>5, WaitOnTrack
<1>9. CASE ReportDrift(w)
  <2>1. /\ pc[w] = "walk" /\ pc'[w] = "drifted" /\ walk' = walk
        /\ users' = users /\ helppers' = helppers
        /\ cycle' = cycle /\ todo' = todo /\ snap' = snap
    BY <1>9 DEF ReportDrift, dirVars, storeVars, TypeOK, LocalTypeOK
  <2>2. Busy(w) BY <2>1 DEF Busy
  <2> QED BY <1>0, <2>1, <2>2, WaitOnTrack
<1>10. CASE LoseAnswer(w)
  <2>1. /\ pc[w] = "patch" /\ pc' = pc /\ walk' = walk /\ cur' = cur
        /\ helppers' = helppers /\ cycle' = cycle /\ todo' = todo /\ snap' = snap
    BY <1>10 DEF LoseAnswer, localVars, storeVars
  <2>2. UsersMove BY <1>10, StepMoves
  <2>3. Busy(w) BY <2>1 DEF Busy
  <2> QED BY <1>0, <2>1, <2>2, <2>3, WaitOnTrack
<1>11. ~Advance(w) /\ ~GiveUp(w) /\ ~Abort(w) /\ ~Timeout(w)
  BY <1>1 DEF Advance, GiveUp, Abort, Timeout
<1> QED BY <1>2, <1>3, <1>4, <1>5, <1>6, <1>7, <1>8, <1>9, <1>10, <1>11 DEF Step

\* Every cycle stays on track.
LEMMA CyclesOnTrack ==
    ASSUME NEW X, OverlapCovers, TrackInv(X), Refusals(X), TypeOK', [Next]_vars
    PROVE  CycleInv(X)'
<1> USE DEF TrackInv
<1> SUFFICES ASSUME NEW x \in Workers, Busy(x)' PROVE Current(x)' /\ Tracks(X, x)'
  BY DEF CycleInv
<1>1. ASSUME Unmoved(x), users' = users \/ UsersMove, helppers' = helppers
      PROVE  Current(x)' /\ Tracks(X, x)'
  <2>1. Busy(x) BY <1>1 DEF Unmoved, Busy
  <2>2. ASSUME NEW d \in Ids PROVE InHand(x, d)' => InHand(x, d)
    BY <1>1 DEF Unmoved, InHand
  <2>3. ASSUME NEW d \in Ids PROVE Owed(X, x, d) => Owed(X, x, d)'
    BY <1>1 DEF Unmoved, Owed, NotFound
  <2>4. Keeps(x) BY <1>1, <2>2 DEF Unmoved, Keeps
  <2> QED BY <1>1, <2>1, <2>3, <2>4, KeepUsers DEF CycleInv
<1>2. ASSUME NEW w \in Workers, Step(w) \/ Abort(w) \/ LoseAnswer(w) \/ Timeout(w)
      PROVE  Current(x)' /\ Tracks(X, x)'
  <2>1. CASE x = w BY <1>2, <2>1, OwnStep
  <2>2. CASE x # w
    <3>1. Unmoved(x) BY <1>2, <2>2, OthersUnmoved
    <3>2. UsersMove /\ (users' = users \/ pc[w] = "patch") BY <1>2, StepMoves
    <3>3. CASE helppers' = helppers BY <1>1, <3>1, <3>2, <3>3
    <3>4. CASE Writes(w)
      <4>1. users' = users BY <3>2, <3>4 DEF Writes
      <4>2. Busy(x) BY <3>1 DEF Unmoved, Busy
      <4>3. ASSUME NEW d \in Ids PROVE InHand(x, d)' => InHand(x, d)
        BY <3>1 DEF Unmoved, InHand
      <4>4. ASSUME NEW d \in Ids, Owed(X, x, d)
            PROVE  Owed(X, x, d)' \/ (d = cur[w] /\ Tied(X, d)')
        <5>1. CASE d # cur[w]
          <6>1. helppers'[d] = helppers[d] BY <3>4, <5>1 DEF Writes
          <6> QED BY <3>1, <4>4, <6>1 DEF Unmoved, Owed, NotFound
        <5>2. CASE d = cur[w] /\ d \in X BY <5>2 DEF Tied
        <5>3. CASE d \notin X BY <3>1, <4>4, <5>3 DEF Unmoved, Owed
        <5> QED BY <5>1, <5>2, <5>3
      <4>5. Keeps(x) BY <3>1, <4>3 DEF Unmoved, Keeps
      <4> QED BY <3>4, <4>1, <4>2, <4>4, <4>5, KeepStore
    <3> QED BY <1>2, <3>3, <3>4, StepWrites
  <2> QED BY <2>1, <2>2
<1>3. CASE Environment
  BY <1>1, <1>3, EnvironmentMoves, OutsideUnmoved DEF storeVars, OverlapCovers
<1>4. CASE Tick \/ UNCHANGED vars
  <2>1. users' = users BY <1>4 DEF Tick, vars
  <2> QED BY <1>1, <1>4, <2>1, OutsideUnmoved DEF storeVars
<1> QED BY <1>2, <1>3, <1>4 DEF Next

(****************************************************************************)
(* The base and the checkpoint.                                             *)
(****************************************************************************)

\* A record stamped at most one cycle and a slack ago is inside the window.
LEMMA TouchedIsPending ==
    ASSUME OverlapCovers, NEW now \in Nat, NEW cp \in Nat, cp = 0 \/ cp <= now + Lead,
           NEW s \in Nat, now <= s + CycleTimeout,
           NEW t \in Nat, t >= s - MaxLag - Slack
    PROVE  cp = 0 \/ t > Since(cp)
<1>1. t >= now - CycleTimeout - Slack - MaxLag BY BoundTypes
<1> QED BY <1>1, WindowCovers

\* The checkpoint moves past no record that is not settled.
LEMMA AdvanceLosesNothing ==
    ASSUME NEW X, OverlapCovers, TrackInv(X), TypeOK', StampInv', NEW w \in Workers, Advance(w)
    PROVE  NothingLost(X)'
<1> USE DEF TrackInv
<1> DEFINE wm == Watermark(walk[w])
<1>1. /\ users' = users /\ clock' = clock /\ helppers' = helppers
      /\ Busy(w) /\ todo[w] = {} /\ walk[w].status = "done" /\ pc[w] \in {"walk", "drifted"}
      /\ checkpoint' \in {checkpoint, wm}
  BY DEF Advance, dirVars, storeVars, SetCheckpoint, HandInv, Busy
<1> SUFFICES ASSUME NEW d \in Ids, Dated(d)' PROVE Settled(X, d)' \/ Pending(d)'
  BY DEF NothingLost
<1> DEFINE t == users[d].lastModified
<1>2. Dated(d) BY <1>1 DEF Dated
<1>3. Settled(X, d) => Settled(X, d)'
  BY <1>1 DEF Settled, Tied, Usable, Agrees, NotFound, Active, InSync
<1>4. CASE checkpoint' = checkpoint
  <2>1. Pending(d) => Pending(d)' BY <1>1, <1>4 DEF Pending, Since
  <2> QED BY <1>2, <1>3, <2>1 DEF NothingLost
<1>5. CASE checkpoint' = wm
  <2>1. /\ t \in Nat /\ clock \in Nat /\ cycle[w].started \in Nat /\ checkpoint' \in Nat
        /\ walk[w].bad \in Nat /\ walk[w].high \in Nat
    BY DEF TypeOK, DirTypeOK, LocalTypeOK, StoreTypeOK, Cycle, Walk, User
  <2>2. Done(X, w, d)
    <3>1. Done(X, w, d) \/ Ahead(w, d) \/ Owed(X, w, d) BY <1>1, <1>2 DEF CycleInv, Tracks
    <3> QED BY <1>1, <3>1 DEF Ahead, Owed
  <2>3. SUFFICES checkpoint' = 0 \/ t > Since(checkpoint') \/ Settled(X, d)
    <3>1. (Since(checkpoint))' = Since(checkpoint') BY DEF Since
    <3>2. users'[d].lastModified = t /\ t # 0 BY <1>1, <1>2 DEF Dated
    <3> QED BY <1>3, <2>3, <3>1, <3>2 DEF Pending
  <2>4. CASE Touched(w, d)
    <3>1. checkpoint' = 0 \/ checkpoint' <= clock + Lead BY <1>1 DEF StampInv
    <3>2. clock <= cycle[w].started + CycleTimeout BY <1>1 DEF TimeInv
    <3>3. t >= cycle[w].started - MaxLag - Slack BY <2>4 DEF Touched
    <3> QED BY <2>1, <3>1, <3>2, <3>3, TouchedIsPending
  <2>5. CASE Held(w, d)
    <3>1. checkpoint' <= t BY <1>5, <2>1, <2>5 DEF Held, Watermark
    <3>2. Since(checkpoint') \in Int /\ Since(checkpoint') <= checkpoint' - Overlap
      BY <2>1, SinceBound
    <3>3. Overlap \in Nat \ {0} BY SyncerAssumption
    <3> QED BY <2>1, <3>1, <3>2, <3>3
  <2> QED BY <2>2, <2>4, <2>5 DEF Done
<1> QED BY <1>1, <1>4, <1>5

\* Nothing is lost while the checkpoint stands still.
LEMMA StandingLosesNothing ==
    ASSUME NEW X, OverlapCovers, TrackInv(X), TypeOK', checkpoint' = checkpoint,
           \/ helppers' = helppers /\ (users' = users \/ UsersMove)
           \/ users' = users /\ \E v \in Workers : Writes(v)
    PROVE  NothingLost(X)'
<1> USE DEF TrackInv
<1> SUFFICES ASSUME NEW d \in Ids, Dated(d)' PROVE Settled(X, d)' \/ Pending(d)'
  BY DEF NothingLost
<1>1. ASSUME users'[d] = users[d], helppers'[d] = helppers[d]
      PROVE  Settled(X, d)' \/ Pending(d)'
  <2>1. Dated(d) BY <1>1 DEF Dated
  <2>2. Settled(X, d) => Settled(X, d)'
    BY <1>1 DEF Settled, Tied, Usable, Agrees, NotFound, Active, InSync
  <2>3. Pending(d) => Pending(d)' BY <1>1 DEF Pending, Since
  <2> QED BY <2>1, <2>2, <2>3 DEF NothingLost
<1>2. /\ checkpoint \in Nat /\ clock \in Nat /\ users'[d].lastModified \in Nat
      /\ users[d].lastModified \in Nat /\ (checkpoint = 0 \/ checkpoint <= clock + Lead)
      /\ MaxLag \in Nat /\ Slack \in Nat /\ CycleTimeout \in Nat
  BY BoundTypes DEF TypeOK, DirTypeOK, StoreTypeOK, User, StampInv
<1>3. (Since(checkpoint))' = Since(checkpoint) BY DEF Since
<1>4. CASE UsersMove /\ helppers' = helppers
  <2>1. CASE users'[d] = users[d] BY <1>1, <1>4, <2>1
  <2>2. CASE Restamped(d)
    <3>1. users'[d].lastModified >= clock - MaxLag /\ users'[d].lastModified >= 1
      BY <1>2, <2>2, TimeAssumption DEF Restamped, Stamps
    <3>2. users'[d].lastModified >= clock - MaxLag - Slack /\ clock <= clock + CycleTimeout
      BY <1>2, <3>1
    <3>3. checkpoint = 0 \/ users'[d].lastModified > Since(checkpoint)
      BY <1>2, <3>2, TouchedIsPending
    <3> QED BY <1>2, <1>3, <3>1, <3>3 DEF Pending
  <2>3. CASE Repaired(d)
    <3>1. Dated(d) /\ ~Settled(X, d) BY <2>3 DEF Repaired, Dated, Settled
    <3>2. Pending(d) BY <3>1 DEF NothingLost
    <3> QED BY <1>3, <2>3, <3>2 DEF Repaired, Pending
  <2>4. ~Undated(d) BY DEF Undated, Dated
  <2> QED BY <1>4, <2>1, <2>2, <2>3, <2>4 DEF UsersMove
<1>5. ASSUME users' = users, NEW v \in Workers, Writes(v)
      PROVE  Settled(X, d)' \/ Pending(d)'
  <2>1. CASE d # cur[v]
    <3>1. helppers'[d] = helppers[d] BY <1>5, <2>1 DEF Writes
    <3> QED BY <1>1, <1>5, <3>1
  <2>2. CASE d = cur[v]
    <3>1. Dated(d) BY <1>5 DEF Dated
    <3>2. Busy(v) /\ (Recent(v, d) \/ (Settled(X, d) => Settled(X, d)'))
      BY <1>5, <2>2, <3>1, WriteAgrees
    <3>3. ASSUME Recent(v, d) PROVE Pending(d)'
      <4>1. cycle[v].started \in Nat BY DEF TypeOK, LocalTypeOK, Cycle
      <4>2. clock <= cycle[v].started + CycleTimeout BY <3>2 DEF TimeInv
      <4>3. users[d].lastModified >= cycle[v].started - MaxLag - Slack
        BY <1>2, <3>3, <4>1 DEF Recent
      <4>4. checkpoint = 0 \/ users[d].lastModified > Since(checkpoint)
        BY <1>2, <4>1, <4>2, <4>3, TouchedIsPending
      <4> QED BY <1>3, <1>5, <3>1, <4>4 DEF Pending, Dated
    <3>4. Pending(d) => Pending(d)' BY <1>3, <1>5 DEF Pending
    <3> QED BY <3>1, <3>2, <3>3, <3>4 DEF NothingLost
  <2> QED BY <2>1, <2>2
<1> QED BY <1>1, <1>4, <1>5

\* Every step keeps every dated record settled or about to be read.
LEMMA NothingLostStep ==
    ASSUME NEW X, OverlapCovers, TrackInv(X), TypeOK', StampInv', [Next]_vars
    PROVE  NothingLost(X)'
<1> USE DEF TrackInv
<1>1. ASSUME NEW w \in Workers, Advance(w) PROVE NothingLost(X)'
  BY <1>1, AdvanceLosesNothing
<1>2. ASSUME NEW w \in Workers, Step(w) \/ Abort(w) \/ LoseAnswer(w) \/ Timeout(w),
             ~Advance(w)
      PROVE  NothingLost(X)'
  <2>1. checkpoint' = checkpoint
    BY <1>2 DEF Step, Start, FetchPage, GiveUp, Malformed, SkipInactive, FindNew, FindKnown, Lookup,
                Create, CreateHelpper, Update, UpdateHelpper, Reread, WriteBack,
                ReportDrift, Abort, LoseAnswer, Timeout, storeVars
  <2>2. UsersMove /\ (users' = users \/ pc[w] = "patch") BY <1>2, StepMoves
  <2>3. helppers' = helppers \/ Writes(w) BY <1>2, StepWrites
  <2>4. Writes(w) => pc[w] # "patch" BY DEF Writes
  <2> QED BY <2>1, <2>2, <2>3, <2>4, StandingLosesNothing
<1>3. CASE Environment
  BY <1>3, EnvironmentMoves, StandingLosesNothing DEF Environment, storeVars, OverlapCovers
<1>4. CASE Tick \/ UNCHANGED vars
  BY <1>4, StandingLosesNothing DEF Tick, vars, storeVars
<1> QED BY <1>1, <1>2, <1>3, <1>4 DEF Next

\* Every step keeps all of it.
LEMMA TrackStep ==
    ASSUME NEW X, OverlapCovers, TrackInv(X), Refusals(X), [Next]_vars
    PROVE  TrackInv(X)'
<1> USE DEF TrackInv
<1>1. TypeOK' /\ CurInv' BY TypeStep
<1>2. IdleInv' /\ MintInv' /\ HandInv' BY IdleStep, MintStep, HandStep
<1>3. TimeInv' BY <1>1, TimeStep
<1>4. StampInv' BY <1>1, StampStep DEF OverlapCovers
<1>5. CycleInv(X)' BY <1>1, CyclesOnTrack
<1>6. NothingLost(X)' BY <1>1, <1>4, NothingLostStep
<1> QED BY <1>1, <1>2, <1>3, <1>4, <1>5, <1>6

(****************************************************************************)
(* The theorems.                                                            *)
(****************************************************************************)

\* The invariant holds initially: no cycle has finished, so everything is read.
LEMMA InvariantInit == Init => IInv
<1> SUFFICES ASSUME Init PROVE IInv OBVIOUS
<1>1. TypeOK /\ CurInv BY TypeInit
<1>2. \A w \in Workers : pc[w] = "idle" BY DEF Init
<1>3. IdleInv BY DEF Init, IdleInv
<1>4. TimeInv /\ HandInv /\ CycleInv(Excused) BY <1>2 DEF TimeInv, HandInv, CycleInv, Busy
<1>5. StampInv
  <2>1. clock = 1 /\ checkpoint = 0 /\ MaxLead \in Nat
    BY TimeAssumption DEF Init, DirInit, StoreInit
  <2>2. \A d \in Ids : users[d].lastModified <= clock + MaxLead
    <3>1. \A d \in Ids : users[d].lastModified = 1 BY DEF Init, DirInit
    <3> QED BY <2>1, <3>1
  <2>3. \A w \in Workers : walk[w].high <= clock + MaxLead
    BY <2>1 DEF Init, NewWalk
  <2>4. \A w \in Workers : \A d \in Ids : snap[w][d].lastModified <= clock + MaxLead
    <3>1. \A w \in Workers : \A d \in Ids : snap[w][d].lastModified = 0
      BY DEF Init, NoSnap, Blank
    <3> QED BY <2>1, <3>1
  <2> QED BY <1>2, <2>1, <2>2, <2>3, <2>4 DEF StampInv, Busy
<1>6. MintInv
  <2>1. /\ \A d \in Ids : helppers[d].id = IF d \in Known THEN d ELSE 0
        /\ nextID = FirstID
    BY DEF Init, StoreInit
  <2> QED BY <2>1, IdsAssumption, KnownAssumption, FirstIDAssumption DEF MintInv
<1>7. NothingLost(Excused) BY DEF Init, StoreInit, NothingLost, Pending
<1>8. PatchInv /\ OursInv BY OursInit
<1> QED BY <1>1, <1>3, <1>4, <1>5, <1>6, <1>7, <1>8 DEF IInv

\* IInv is inductive when the overlap covers the cycles.
LEMMA InvariantStep ==
    ASSUME OverlapCovers, IInv, [Next]_vars
    PROVE  IInv'
<1>1. BaseInv /\ PatchInv /\ OursInv /\ TrackInv(Excused) BY DEF IInv, BaseInv, TrackInv
<1>2. Refusals(Excused)
  <2> SUFFICES ASSUME NEW w \in Workers, WriteBack(w), Conflicts(cur[w], hand[w])
               PROVE  cur[w] \in Excused
    BY DEF Refusals
  <2>1. pc[w] = "patch" BY DEF WriteBack
  <2>2. ~OwnBindings BY <1>1, <2>1, NothingInTheWay DEF RaceMakesNoConflict
  <2>3. cur[w] \in Ids BY <1>1, <2>1 DEF BaseInv, CurInv
  <2> QED BY <2>2, <2>3 DEF Excused
<1>3. TrackInv(Excused)' BY <1>1, <1>2, TrackStep
<1>4. PatchInv' /\ OursInv' BY <1>1, PatchStep, OursStep
<1> QED BY <1>3, <1>4 DEF IInv, TrackInv

\* The inductive invariant holds in every reachable state.
THEOREM Invariant == OverlapCovers => (Spec => []IInv)
<1> SUFFICES ASSUME OverlapCovers PROVE Spec => []IInv OBVIOUS
<1>1. IInv /\ [Next]_vars => IInv' BY InvariantStep
<1> QED BY InvariantInit, <1>1, PTL DEF Spec

\* directory.go's promise that no update is lost, for any number of records,
\* workers, pages and faults: whenever the overlap exceeds the cycle timeout
\* (twice, with several workers) plus the directory's lag and the trusted lead.
THEOREM NoUpdateIsLost == OverlapCovers => (Spec => []NoLostUpdate)
<1>1. IInv => NoLostUpdate BY DEF IInv, NothingLost, NoLostUpdate, Settled
<1> QED BY Invariant, <1>1, PTL

\* walkWith's hold: an unusable record stays inside the window of the next
\* cycle until it is repaired.
THEOREM RepairIsNotMissed == OverlapCovers => (Spec => []RepairNotMissed)
<1>1. IInv => RepairNotMissed BY DEF IInv, NothingLost, RepairNotMissed, Settled
<1> QED BY Invariant, <1>1, PTL

\* apply's retry of the write-back: a helpper whose id did not reach the directory,
\* or whose record lost it again, is read by the next cycle, whichever cycle died
\* between the create and the PATCH.  The directory must start without foreign
\* ids: a 409 is not retried (see ConflictIsReRead).
THEOREM BindingsSurvive == OverlapCovers /\ OwnBindings => (Spec => []BindingNotLost)
<1> SUFFICES ASSUME OverlapCovers, OwnBindings PROVE Spec => []BindingNotLost OBVIOUS
<1>1. IInv => BindingNotLost BY DEF IInv, NothingLost, BindingNotLost, Settled, Tied, Excused
<1> QED BY Invariant, <1>1, PTL
================================================================================
