----------------------------- MODULE SyncerProofs ------------------------------
(****************************************************************************)
(* Theorems about the reconciler, for every value of the constants: types,  *)
(* what a step may do to the workers, to the directory and to the base, and *)
(* the simple parts of the inductive invariant.                             *)
(****************************************************************************)
EXTENDS SyncerInvariant, DirectoryProofs

(****************************************************************************)
(* Typing.                                                                  *)
(****************************************************************************)

\* The records used for ids that are not on a page are records.
LEMMA SnapType == Blank \in User /\ NoSnap \in [Ids -> User]
<1>1. (CHOOSE p \in Profiles : TRUE) \in Profiles BY ProfilesAssumption
<1> QED BY <1>1 DEF Blank, NoSnap, User

\* The edits made to a walk keep it one.
LEMMA WalkType ==
    ASSUME NEW k \in Walk, NEW u \in User
    PROVE  /\ AfterRecord(k, u) \in Walk
           /\ AfterMalformed(k, u) \in Walk
<1>1. u.lastModified \in Nat BY DEF User
<1>2. k.high \in Nat /\ k.bad \in Nat /\ k.nbad \in Nat BY DEF Walk
<1>3. \A n \in Nat : [k EXCEPT !.high = n] \in Walk BY DEF Walk
<1>4. \A n, m \in Nat : [k EXCEPT !.bad = n, !.nbad = m] \in Walk BY DEF Walk
<1>5. AfterRecord(k, u) \in Walk
  <2> DEFINE n == IF u.lastModified > k.high THEN u.lastModified ELSE k.high
  <2>1. n \in Nat BY <1>1, <1>2
  <2>2. AfterRecord(k, u) = [k EXCEPT !.high = n] BY DEF AfterRecord
  <2> HIDE DEF n
  <2> QED BY <1>3, <2>1, <2>2
<1>6. AfterMalformed(k, u) \in Walk
  <2> DEFINE b == IF u.lastModified # 0 /\ (k.bad = 0 \/ u.lastModified < k.bad)
                  THEN u.lastModified ELSE k.bad
             n == k.nbad + 1
  <2>1. b \in Nat /\ n \in Nat BY <1>1, <1>2
  <2>2. AfterMalformed(k, u) = [k EXCEPT !.bad = b, !.nbad = n] BY DEF AfterMalformed
  <2> HIDE DEF b, n
  <2> QED BY <1>4, <2>1, <2>2
<1> QED BY <1>5, <1>6

\* What a page does to the walk: the cursor moves by its size, and a page that
\* is full and leaves records behind it does not end the walk.
LEMMA PageWalk ==
    ASSUME NEW k \in Walk, NEW page \in SUBSET Ids, Cardinality(page) \in Nat,
           NEW total \in Nat
    PROVE  LET k2 == AfterPage(k, page, total) IN
           /\ k2 \in Walk
           /\ k2.high = k.high /\ k2.bad = k.bad
           /\ k2.startIndex = k.startIndex + Cardinality(page)
           /\ Cardinality(page) = PageSize /\ k.startIndex + PageSize <= total
              => k2.status \in {"more", "broken"}
<1> DEFINE k2 == AfterPage(k, page, total)
           n == k.startIndex + Cardinality(page)
           p == k.pages + 1
           l == IF k.limit = 0 THEN total \div PageSize + PageSlack ELSE k.limit
           t == IF FirstOf(page) = k.head \/ p >= l THEN "broken"
                ELSE IF Cardinality(page) < PageSize \/ n > total THEN "done" ELSE "more"
<1>1. k.startIndex \in Nat \ {0} /\ k.pages \in Nat /\ k.limit \in Nat BY DEF Walk
<1>2. PageSize \in Nat \ {0} /\ PageSlack \in Nat BY SyncerAssumption
<1>3. CASE page = {}
  <2>1. k2 = [k EXCEPT !.status = "done"] BY <1>3 DEF AfterPage
  <2>2. Cardinality(page) = 0 BY <1>3, FS_EmptySet
  <2> HIDE DEF k2
  <2>3. k2 \in Walk /\ k2.high = k.high /\ k2.bad = k.bad /\ k2.startIndex = k.startIndex
    BY <2>1 DEF Walk
  <2> QED BY <1>1, <1>2, <2>2, <2>3 DEF k2
<1>4. CASE page # {}
  <2>1. k2 = [k EXCEPT !.startIndex = n, !.pages = p, !.limit = l, !.head = FirstOf(page),
                       !.status = t]
    BY <1>4 DEF AfterPage
  <2>2. n \in Nat \ {0} /\ p \in Nat BY <1>1
  <2>3. l \in Nat
    <3>1. total \div PageSize \in Nat BY <1>2
    <3> QED BY <1>1, <1>2, <3>1
  <2>4. FirstOf(page) \in SUBSET Ids BY DEF FirstOf
  <2>5. t \in {"more", "done", "broken"} OBVIOUS
  <2>6. Cardinality(page) = PageSize /\ n <= total => t \in {"more", "broken"}
    BY <1>1, <1>2
  <2> HIDE DEF k2, n, p, l, t
  <2>7. k2 \in Walk /\ k2.high = k.high /\ k2.bad = k.bad /\ k2.startIndex = n
        /\ k2.status = t
    BY <2>1, <2>2, <2>3, <2>4, <2>5 DEF Walk
  <2> QED BY <2>6, <2>7 DEF k2, n
<1> QED BY <1>3, <1>4

\* The notes a full walk takes are sets of ids.
LEMMA DriftType ==
    ASSUME NEW dr \in Drift, NEW d \in Ids, NEW u
    PROVE  Observe(dr, d, u) \in Drift
BY DEF Observe, Drift

\* A request that ends its cycle keeps the worker's variables well typed.
LEMMA ReturnType ==
    ASSUME LocalTypeOK, CurInv, NEW w \in Workers, Return(w)
    PROVE  LocalTypeOK' /\ CurInv'
<1>1. NoCycle \in Cycle /\ NewWalk \in Walk /\ NoDrift \in Drift
  BY DEF NoCycle, Cycle, NewWalk, Walk, NoDrift, Drift
<1>2. LocalTypeOK' BY <1>1, SnapType DEF LocalTypeOK, Return, Places
<1>3. CurInv' BY DEF CurInv, LocalTypeOK, Return
<1> QED BY <1>2, <1>3

\* The record is done with.
LEMMA SettleType ==
    ASSUME LocalTypeOK, CurInv, NEW w \in Workers, NEW u \in User, Settle(w, u)
    PROVE  /\ pc' \in [Workers -> Places]
           /\ walk' \in [Workers -> Walk]
           /\ cur' \in [Workers -> Ids \cup {0}]
           /\ hand' \in [Workers -> Nat]
           /\ CurInv'
<1>1. AfterRecord(walk[w], u) \in Walk BY WalkType DEF LocalTypeOK
<1>2. CurInv' BY DEF CurInv, LocalTypeOK, Settle
<1> QED BY <1>1, <1>2 DEF LocalTypeOK, Settle, Places

\* The record needs another request.
LEMMA GoOnType ==
    ASSUME LocalTypeOK, CurInv, NEW w \in Workers, NEW d \in Ids, NEW h \in Nat,
           NEW where \in {"create", "reread", "update", "patch"},
           GoOn(w, where, d, h)
    PROVE  /\ pc' \in [Workers -> Places]
           /\ walk' \in [Workers -> Walk]
           /\ cur' \in [Workers -> Ids \cup {0}]
           /\ hand' \in [Workers -> Nat]
           /\ CurInv'
<1>1. CurInv' BY DEF CurInv, LocalTypeOK, GoOn
<1> QED BY <1>1 DEF LocalTypeOK, GoOn, Places

\* Taking a usable record off the page.
LEMMA LookupType ==
    ASSUME TypeOK, NEW w \in Workers, NEW d \in Ids, Lookup(w, d)
    PROVE  /\ cycle' \in [Workers -> Cycle]
           /\ todo' \in [Workers -> SUBSET Ids]
           /\ snap' \in [Workers -> [Ids -> User]]
           /\ drift' \in [Workers -> Drift]
           /\ DirTypeOK' /\ StoreTypeOK' /\ faults' \in Nat
<1> USE DEF TypeOK, LocalTypeOK
<1>1. drift' \in [Workers -> Drift]
  <2>1. Observe(drift[w], d, snap[w][d]) \in Drift BY DriftType
  <2> QED BY <2>1 DEF Lookup, Note
<1>2. DirTypeOK' /\ StoreTypeOK' /\ faults' \in Nat
  BY DEF Lookup, dirVars, storeVars, DirTypeOK, StoreTypeOK
<1> QED BY <1>1, <1>2 DEF Lookup

\* Every step of a cycle keeps the types.
LEMMA StepType ==
    ASSUME TypeOK, CurInv, NEW w \in Workers, Step(w)
    PROVE  TypeOK' /\ CurInv'
<1> USE DEF TypeOK
<1>1. ASSUME NEW k \in Kinds, Start(w, k) PROVE TypeOK' /\ CurInv'
  <2>1. [kind |-> k, cp |-> checkpoint, started |-> clock] \in Cycle
    BY SyncerAssumption DEF Cycle, StoreTypeOK, DirTypeOK
  <2>2. LocalTypeOK' BY <1>1, <2>1 DEF Start, LocalTypeOK, Places
  <2>3. CurInv' BY <1>1 DEF Start, CurInv, LocalTypeOK
  <2> QED BY <1>1, <2>2, <2>3 DEF Start, dirVars, storeVars, DirTypeOK, StoreTypeOK
<1>2. CASE FetchPage(w)
  <2> DEFINE sel == Selected(cycle[w])
             page == PageOf(sel, walk[w].startIndex, PageSize)
             after == AfterPage(walk[w], page, Cardinality(sel))
  <2>1. /\ page \subseteq Ids /\ Cardinality(page) \in Nat /\ Cardinality(sel) \in Nat
    BY PageType DEF Selected
  <2>2. walk[w] \in Walk BY DEF LocalTypeOK
  <2>3. after \in Walk
    <3> HIDE DEF page, sel
    <3> QED BY <2>1, <2>2, PageWalk
  <2>4. [d \in Ids |-> IF d \in page THEN users[d] ELSE Blank] \in [Ids -> User]
    BY SnapType DEF DirTypeOK
  <2>5. /\ todo' = [todo EXCEPT ![w] = page]
        /\ snap' = [snap EXCEPT ![w] = [d \in Ids |-> IF d \in page THEN users[d] ELSE Blank]]
        /\ walk' = [walk EXCEPT ![w] = after]
        /\ UNCHANGED <<dirVars, storeVars, pc, cycle, cur, hand, drift, faults>>
    BY <1>2 DEF FetchPage
  <2> HIDE DEF sel, page, after
  <2>6. LocalTypeOK' BY <2>1, <2>3, <2>4, <2>5 DEF LocalTypeOK
  <2>7. CurInv' BY <2>5 DEF CurInv
  <2> QED BY <2>5, <2>6, <2>7 DEF dirVars, storeVars, DirTypeOK, StoreTypeOK
<1>3. ASSUME NEW d \in Ids, Malformed(w, d) PROVE TypeOK' /\ CurInv'
  <2> DEFINE wk == AfterMalformed(walk[w], snap[w][d])
  <2>1. LocalTypeOK' /\ CurInv'
    <3>1. CASE TooMany(wk) /\ Return(w) BY <3>1, ReturnType
    <3>2. CASE /\ walk' = [walk EXCEPT ![w] = wk]
               /\ todo' = [todo EXCEPT ![w] = @ \ {d}]
               /\ Note(w, d)
               /\ UNCHANGED <<pc, cycle, snap, cur, hand>>
      <4>1. wk \in Walk BY WalkType DEF LocalTypeOK
      <4>2. Observe(drift[w], d, snap[w][d]) \in Drift BY DriftType DEF LocalTypeOK
      <4>3. drift' \in [Workers -> Drift] BY <3>2, <4>2 DEF Note, LocalTypeOK
      <4> HIDE DEF wk
      <4>4. LocalTypeOK' BY <3>2, <4>1, <4>3 DEF LocalTypeOK
      <4>5. CurInv' BY <3>2 DEF CurInv
      <4> QED BY <4>4, <4>5
    <3> QED BY <1>3, <3>1, <3>2 DEF Malformed
  <2>2. UNCHANGED <<dirVars, storeVars, faults>> BY <1>3 DEF Malformed
  <2> QED BY <2>1, <2>2 DEF dirVars, storeVars, DirTypeOK, StoreTypeOK
<1>4. ASSUME NEW d \in Ids, SkipInactive(w, d) \/ FindNew(w, d) \/ FindKnown(w, d)
      PROVE  TypeOK' /\ CurInv'
  <2>1. Lookup(w, d) BY <1>4 DEF SkipInactive, FindNew, FindKnown
  <2>2. snap[w][d] \in User /\ helppers[d].id \in Nat
    BY DEF LocalTypeOK, StoreTypeOK, Helpper
  <2>3. PICK h \in Nat, where \in {"create", "reread", "update", "patch"} :
          Settle(w, snap[w][d]) \/ GoOn(w, where, d, h)
    <3>1. CASE SkipInactive(w, d) BY <3>1 DEF SkipInactive
    <3>2. CASE FindNew(w, d) BY <3>2 DEF FindNew
    <3>3. CASE FindKnown(w, d) BY <2>2, <3>3 DEF FindKnown
    <3> QED BY <1>4, <3>1, <3>2, <3>3
  <2>4. /\ pc' \in [Workers -> Places]
        /\ walk' \in [Workers -> Walk]
        /\ cur' \in [Workers -> Ids \cup {0}]
        /\ hand' \in [Workers -> Nat]
        /\ CurInv'
    BY <2>2, <2>3, SettleType, GoOnType
  <2> QED BY <2>1, <2>4, LookupType DEF LocalTypeOK
<1>5. CASE Create(w)
  <2>1. cur[w] \in Ids BY <1>5 DEF Create, CurInv
  <2>2. nextID + 1 \in Nat /\ snap[w][cur[w]].profile \in Profiles
    BY <2>1 DEF StoreTypeOK, LocalTypeOK, User
  <2>3. /\ pc' \in [Workers -> Places]
        /\ walk' \in [Workers -> Walk]
        /\ cur' \in [Workers -> Ids \cup {0}]
        /\ hand' \in [Workers -> Nat]
        /\ CurInv'
    <3>1. PICK h \in Nat, where \in {"create", "reread", "update", "patch"} :
            GoOn(w, where, cur[w], h)
      BY <1>5, <2>2 DEF Create
    <3> QED BY <2>1, <3>1, GoOnType
  <2>4. StoreTypeOK'
    <3>1. CASE CreateHelpper(cur[w], snap[w][cur[w]].profile)
      <4>1. [id |-> nextID + 1, enabled |-> TRUE, profile |-> snap[w][cur[w]].profile]
              \in Helpper
        BY <2>2 DEF Helpper
      <4> QED BY <2>1, <2>2, <3>1, <4>1 DEF CreateHelpper, StoreTypeOK
    <3>2. CASE UNCHANGED storeVars BY <3>2 DEF storeVars, StoreTypeOK
    <3> QED BY <1>5, <3>1, <3>2 DEF Create
  <2> QED BY <1>5, <2>3, <2>4 DEF Create, LocalTypeOK, dirVars, DirTypeOK
<1>6. CASE Reread(w)
  <2>1. cur[w] \in Ids BY <1>6 DEF Reread, CurInv
  <2>2. helppers[cur[w]].id \in Nat BY <2>1 DEF StoreTypeOK, Helpper
  <2>3. /\ pc' \in [Workers -> Places]
        /\ walk' \in [Workers -> Walk]
        /\ cur' \in [Workers -> Ids \cup {0}]
        /\ hand' \in [Workers -> Nat]
        /\ CurInv'
    BY <1>6, <2>1, <2>2, GoOnType DEF Reread
  <2> QED BY <1>6, <2>3
        DEF Reread, LocalTypeOK, dirVars, storeVars, DirTypeOK, StoreTypeOK
<1>7. CASE Update(w)
  <2>1. cur[w] \in Ids BY <1>7 DEF Update, CurInv
  <2>2. snap[w][cur[w]] \in User /\ hand[w] \in Nat BY <2>1 DEF LocalTypeOK
  <2>3. /\ pc' \in [Workers -> Places]
        /\ walk' \in [Workers -> Walk]
        /\ cur' \in [Workers -> Ids \cup {0}]
        /\ hand' \in [Workers -> Nat]
        /\ CurInv'
    <3>1. Settle(w, snap[w][cur[w]]) \/ GoOn(w, "patch", cur[w], hand[w])
      BY <1>7 DEF Update
    <3> QED BY <2>1, <2>2, <3>1, SettleType, GoOnType
  <2>4. StoreTypeOK'
    <3>1. [id |-> hand[w], enabled |-> Active(snap[w][cur[w]]),
           profile |-> snap[w][cur[w]].profile] \in Helpper
      BY <2>2 DEF Helpper, Active, User
    <3> QED BY <1>7, <3>1 DEF Update, UpdateHelpper, StoreTypeOK
  <2> QED BY <1>7, <2>3, <2>4 DEF Update, LocalTypeOK, dirVars, DirTypeOK
<1>8. CASE WriteBack(w)
  <2>1. cur[w] \in Ids BY <1>8 DEF WriteBack, CurInv
  <2>2. snap[w][cur[w]] \in User /\ hand[w] \in Nat BY <2>1 DEF LocalTypeOK
  <2>3. users' \in [Ids -> User]
    <3>1. CASE Bind(cur[w], hand[w]) BY <2>1, <2>2, <3>1, BindType
    <3>2. CASE UNCHANGED users BY <3>2 DEF DirTypeOK
    <3> QED BY <1>8, <3>1, <3>2 DEF WriteBack
  <2>4. LocalTypeOK' /\ CurInv'
    <3>1. CASE Return(w) BY <3>1, ReturnType
    <3>2. CASE Settle(w, snap[w][cur[w]]) /\ UNCHANGED <<cycle, todo, snap, drift>>
      BY <2>2, <3>2, SettleType DEF LocalTypeOK
    <3> QED BY <1>8, <3>1, <3>2 DEF WriteBack
  <2> QED BY <1>8, <2>3, <2>4 DEF WriteBack, DirTypeOK, storeVars, StoreTypeOK
<1>9. CASE ReportDrift(w)
  <2>1. drift' \in [Workers -> Drift]
    <3>1. [drift[w] EXCEPT !.absent = EnabledHelppers \ drift[w].seen] \in Drift
      BY DEF LocalTypeOK, Drift, EnabledHelppers
    <3> QED BY <1>9, <3>1 DEF ReportDrift, LocalTypeOK
  <2>2. pc' \in [Workers -> Places] BY <1>9 DEF ReportDrift, LocalTypeOK, Places
  <2>3. CurInv' BY <1>9 DEF ReportDrift, CurInv, LocalTypeOK
  <2> QED BY <1>9, <2>1, <2>2, <2>3
        DEF ReportDrift, LocalTypeOK, dirVars, storeVars, DirTypeOK, StoreTypeOK
<1>10. CASE Advance(w)
  <2>1. LocalTypeOK' /\ CurInv' BY <1>10, ReturnType DEF Advance
  <2>2. Watermark(walk[w]) \in Nat BY DEF Watermark, LocalTypeOK, Walk
  <2>3. StoreTypeOK'
    BY <1>10, <2>2 DEF Advance, SetCheckpoint, storeVars, StoreTypeOK
  <2> QED BY <1>10, <2>1, <2>3 DEF Advance, dirVars, DirTypeOK
<1>11. CASE GiveUp(w)
  <2>1. LocalTypeOK' /\ CurInv' BY <1>11, ReturnType DEF GiveUp
  <2> QED BY <1>11, <2>1 DEF GiveUp, dirVars, storeVars, DirTypeOK, StoreTypeOK
<1> QED BY <1>1, <1>2, <1>3, <1>4, <1>5, <1>6, <1>7, <1>8, <1>9, <1>10, <1>11 DEF Step

\* Failures and time keep the types.
LEMMA FaultType ==
    ASSUME TypeOK, CurInv, NEW w \in Workers, Abort(w) \/ LoseAnswer(w) \/ Timeout(w)
    PROVE  TypeOK' /\ CurInv'
<1> USE DEF TypeOK
<1>1. CASE Abort(w) \/ Timeout(w)
  <2>1. LocalTypeOK' /\ CurInv' BY <1>1, ReturnType DEF Abort, Timeout
  <2>2. faults' \in Nat BY <1>1 DEF Abort, Timeout, Fault
  <2>3. UNCHANGED <<dirVars, storeVars>> BY <1>1 DEF Abort, Timeout
  <2> QED BY <2>1, <2>2, <2>3 DEF dirVars, storeVars, DirTypeOK, StoreTypeOK
<1>2. CASE LoseAnswer(w)
  <2>1. cur[w] \in Ids BY <1>2 DEF LoseAnswer, CurInv
  <2>2. hand[w] \in Nat BY DEF LocalTypeOK
  <2>3. users' \in [Ids -> User] BY <1>2, <2>1, <2>2, BindType DEF LoseAnswer
  <2>4. LocalTypeOK' /\ CurInv' BY <1>2 DEF LoseAnswer, localVars, LocalTypeOK, CurInv
  <2>5. faults' \in Nat BY <1>2 DEF LoseAnswer, Fault
  <2> QED BY <1>2, <2>3, <2>4, <2>5 DEF LoseAnswer, DirTypeOK, storeVars, StoreTypeOK
<1> QED BY <1>1, <1>2

\* Every step keeps the types, and keeps a record in hand while one is needed.
LEMMA TypeStep ==
    ASSUME TypeOK, CurInv, [Next]_vars
    PROVE  TypeOK' /\ CurInv'
<1> USE DEF TypeOK
<1>1. ASSUME NEW w \in Workers, Step(w) \/ Abort(w) \/ LoseAnswer(w) \/ Timeout(w)
      PROVE  TypeOK' /\ CurInv'
  BY <1>1, StepType, FaultType
<1>2. CASE Environment
  <2>1. DirTypeOK' BY <1>2, ChangeType DEF Environment, DirNext
  <2>2. UNCHANGED <<storeVars, localVars, faults>> BY <1>2 DEF Environment
  <2> QED BY <2>1, <2>2 DEF storeVars, localVars, StoreTypeOK, LocalTypeOK, CurInv
<1>3. CASE Tick
  <2>1. DirTypeOK' BY <1>3 DEF Tick, DirTypeOK
  <2> QED BY <1>3, <2>1 DEF Tick, storeVars, localVars, StoreTypeOK, LocalTypeOK, CurInv
<1>4. CASE UNCHANGED vars
  BY <1>4 DEF vars, DirTypeOK, StoreTypeOK, LocalTypeOK, CurInv
<1> QED BY <1>1, <1>2, <1>3, <1>4 DEF Next

\* The initial states are well typed.
LEMMA TypeInit == Init => TypeOK /\ CurInv
<1> SUFFICES ASSUME Init PROVE TypeOK /\ CurInv OBVIOUS
<1>1. DirTypeOK BY HiredAssumption DEF Init, DirInit, DirTypeOK, User
<1>2. StoreTypeOK
  BY KnownAssumption, FirstIDAssumption, IdsAssumption
  DEF Init, StoreInit, StoreTypeOK, Helpper
<1>3. NoCycle \in Cycle /\ NewWalk \in Walk /\ NoDrift \in Drift
  BY DEF NoCycle, Cycle, NewWalk, Walk, NoDrift, Drift
<1>4. LocalTypeOK BY <1>3, SnapType DEF Init, LocalTypeOK, Places
<1> QED BY <1>1, <1>2, <1>4 DEF Init, TypeOK, CurInv

\* Every variable keeps its type, and the page cursor stays 1-based.
THEOREM TypeCorrect == Spec => []TypeOK
<1>1. TypeOK /\ CurInv /\ [Next]_vars => (TypeOK /\ CurInv)' BY TypeStep
<1> QED BY TypeInit, <1>1, PTL DEF Spec

(****************************************************************************)
(* Arithmetic of the window.                                                *)
(****************************************************************************)

\* The bounds are numbers, and the slack is a whole cycle when there are two
\* workers.
LEMMA BoundTypes ==
    /\ Lead \in Int /\ Lead <= MaxLead /\ Lead <= LocalSkew + FutureSkew
    /\ Slack \in Nat /\ Slack <= CycleTimeout
    /\ \A v, w \in Workers : v # w => Slack = CycleTimeout
    /\ MaxLag \in Nat /\ MaxLead \in Nat /\ CycleTimeout \in Nat
    /\ Overlap \in Nat /\ PageSize \in Nat \ {0}
<1>1. Lead \in Int /\ Lead <= MaxLead /\ Lead <= LocalSkew + FutureSkew
  BY TimeAssumption, SyncerAssumption DEF Lead
<1>2. Slack \in Nat /\ Slack <= CycleTimeout BY SyncerAssumption DEF Slack
<1>3. \A v, w \in Workers : v # w => Slack = CycleTimeout BY DEF Slack
<1> QED BY <1>1, <1>2, <1>3, TimeAssumption, SyncerAssumption

\* Cutting the filter to whole seconds only moves it back.
LEMMA SinceBound ==
    ASSUME NEW cp \in Nat
    PROVE  Since(cp) \in Int /\ Since(cp) <= cp - Overlap
<1>1. \A x \in Int : \A g \in Nat \ {0} : (x \div g) * g \in Int /\ (x \div g) * g <= x
  OBVIOUS
<1> QED BY <1>1, SyncerAssumption DEF Since

\* A stamp within one cycle of the clock lies inside the window of any
\* checkpoint that can have been accepted by then.
LEMMA WindowCovers ==
    ASSUME OverlapCovers, NEW now \in Nat, NEW cp \in Nat, cp <= now + Lead,
           NEW t \in Nat, t >= now - CycleTimeout - Slack - MaxLag
    PROVE  t > Since(cp)
BY BoundTypes, SinceBound DEF OverlapCovers

(****************************************************************************)
(* The simple parts of the invariant.                                       *)
(****************************************************************************)

\* What any step does to the local variables of a worker: it begins a cycle,
\* returns from one, or goes on with it.
Begins(w) ==
    /\ pc[w] = "idle" /\ pc'[w] = "walk"
    /\ cycle'[w].cp = checkpoint /\ cycle'[w].started = clock
    /\ walk'[w] = walk[w] /\ todo'[w] = todo[w] /\ cur'[w] = cur[w] /\ snap'[w] = snap[w]
    /\ clock' = clock
Ends(w) ==
    /\ pc'[w] = "idle" /\ walk'[w] = NewWalk /\ todo'[w] = {} /\ cur'[w] = 0
    /\ snap'[w] = NoSnap
GoesOn(w) ==
    /\ (pc'[w] = "idle") = (pc[w] = "idle")
    /\ cycle'[w] = cycle[w]
    /\ pc[w] = "idle" => walk'[w] = walk[w] /\ todo'[w] = todo[w] /\ cur'[w] = cur[w]

\* A cycle that returns leaves nothing behind in its worker.
LEMMA ReturnEnds ==
    ASSUME TypeOK, NEW w \in Workers, Return(w)
    PROVE  Ends(w)
BY DEF Return, Ends, TypeOK, LocalTypeOK

\* A worker's local variables stay as they are.
Unmoved(x) ==
    /\ pc'[x] = pc[x] /\ cycle'[x] = cycle[x] /\ walk'[x] = walk[x]
    /\ todo'[x] = todo[x] /\ snap'[x] = snap[x] /\ cur'[x] = cur[x]
    /\ hand'[x] = hand[x]

\* Nothing but w's own steps touches w's local variables.
LEMMA OthersUnmoved ==
    ASSUME TypeOK, NEW w \in Workers, Step(w) \/ Abort(w) \/ LoseAnswer(w) \/ Timeout(w),
           NEW x \in Workers, x # w
    PROVE  Unmoved(x)
<1> USE DEF TypeOK, LocalTypeOK
<1>1. CASE Return(w) BY <1>1 DEF Return, Unmoved
<1>2. ASSUME NEW k \in Kinds, Start(w, k) PROVE Unmoved(x)
  BY <1>2 DEF Start, Unmoved
<1>3. CASE FetchPage(w) BY <1>3 DEF FetchPage, Unmoved
<1>4. ASSUME NEW d \in Ids, Malformed(w, d) PROVE Unmoved(x)
  BY <1>1, <1>4 DEF Malformed, Unmoved
<1>5. ASSUME NEW d \in Ids, SkipInactive(w, d) PROVE Unmoved(x)
  BY <1>5 DEF SkipInactive, Lookup, Settle, Unmoved
<1>6. ASSUME NEW d \in Ids, FindNew(w, d) PROVE Unmoved(x)
  BY <1>6 DEF FindNew, Lookup, Settle, GoOn, Unmoved
<1>7. ASSUME NEW d \in Ids, FindKnown(w, d) PROVE Unmoved(x)
  BY <1>7 DEF FindKnown, Lookup, Settle, GoOn, Unmoved
<1>8. CASE Create(w) BY <1>8 DEF Create, GoOn, Unmoved
<1>9. CASE Reread(w) BY <1>9 DEF Reread, GoOn, Unmoved
<1>10. CASE Update(w) BY <1>10 DEF Update, GoOn, Settle, Unmoved
<1>11. CASE WriteBack(w)
  <2>1. CASE Settle(w, snap[w][cur[w]]) /\ UNCHANGED <<cycle, todo, snap, drift>>
    BY <2>1 DEF Settle, Unmoved
  <2> QED BY <1>1, <1>11, <2>1 DEF WriteBack
<1>12. CASE ReportDrift(w) BY <1>12 DEF ReportDrift, Unmoved
<1>13. CASE Advance(w) \/ GiveUp(w) BY <1>1, <1>13 DEF Advance, GiveUp
<1>14. CASE Abort(w) \/ Timeout(w) BY <1>1, <1>14 DEF Abort, Timeout
<1>15. CASE LoseAnswer(w) BY <1>15 DEF LoseAnswer, localVars, Unmoved
<1> QED BY <1>2, <1>3, <1>4, <1>5, <1>6, <1>7, <1>8, <1>9, <1>10, <1>11, <1>12,
           <1>13, <1>14, <1>15 DEF Step

\* A worker begins a cycle, ends it or goes on with it; time stands still.
LEMMA CycleShape ==
    ASSUME TypeOK, NEW w \in Workers, Step(w) \/ Abort(w) \/ LoseAnswer(w) \/ Timeout(w)
    PROVE  clock' = clock /\ (Begins(w) \/ Ends(w) \/ GoesOn(w))
<1> USE DEF TypeOK, LocalTypeOK
<1>2. ASSUME NEW k \in Kinds, Start(w, k) PROVE clock' = clock /\ Begins(w)
  BY <1>2 DEF Start, Begins, dirVars
<1>3. CASE FetchPage(w) BY <1>3 DEF FetchPage, GoesOn, dirVars
<1>4. ASSUME NEW d \in Ids, Malformed(w, d) PROVE clock' = clock /\ (Ends(w) \/ GoesOn(w))
  BY <1>4, ReturnEnds DEF Malformed, GoesOn, dirVars
<1>5. ASSUME NEW d \in Ids, SkipInactive(w, d) PROVE clock' = clock /\ GoesOn(w)
  BY <1>5 DEF SkipInactive, Lookup, Settle, GoesOn, dirVars
<1>6. ASSUME NEW d \in Ids, FindNew(w, d) PROVE clock' = clock /\ GoesOn(w)
  BY <1>6 DEF FindNew, Lookup, Settle, GoOn, GoesOn, dirVars
<1>7. ASSUME NEW d \in Ids, FindKnown(w, d) PROVE clock' = clock /\ GoesOn(w)
  BY <1>7 DEF FindKnown, Lookup, Settle, GoOn, GoesOn, dirVars
<1>8. CASE Create(w) BY <1>8 DEF Create, GoOn, GoesOn, dirVars
<1>9. CASE Reread(w) BY <1>9 DEF Reread, GoOn, GoesOn, dirVars
<1>10. CASE Update(w) BY <1>10 DEF Update, GoOn, Settle, GoesOn, dirVars
<1>11. CASE WriteBack(w) BY <1>11, ReturnEnds DEF WriteBack, Settle, GoesOn
<1>12. CASE ReportDrift(w) BY <1>12 DEF ReportDrift, GoesOn, dirVars
<1>13. CASE Advance(w) \/ GiveUp(w) BY <1>13, ReturnEnds DEF Advance, GiveUp, dirVars
<1>14. CASE Abort(w) \/ Timeout(w) BY <1>14, ReturnEnds DEF Abort, Timeout, dirVars
<1>15. CASE LoseAnswer(w) BY <1>15 DEF LoseAnswer, localVars, GoesOn
<1> QED BY <1>2, <1>3, <1>4, <1>5, <1>6, <1>7, <1>8, <1>9, <1>10, <1>11, <1>12,
           <1>13, <1>14, <1>15 DEF Step

\* A step that no worker takes leaves all of them as they were.
LEMMA OutsideUnmoved ==
    ASSUME Environment \/ Tick \/ UNCHANGED vars, NEW x \in Workers
    PROVE  Unmoved(x) /\ UNCHANGED storeVars
BY DEF Environment, Tick, vars, localVars, storeVars, Unmoved

\* Between cycles the local variables have their initial values.
LEMMA IdleStep ==
    ASSUME TypeOK, IdleInv, [Next]_vars
    PROVE  IdleInv'
<1> SUFFICES ASSUME NEW x \in Workers, pc'[x] = "idle"
             PROVE  walk'[x] = NewWalk /\ todo'[x] = {} /\ cur'[x] = 0
  BY DEF IdleInv
<1>1. CASE Unmoved(x) BY <1>1 DEF Unmoved, IdleInv
<1>2. ASSUME NEW w \in Workers, Step(w) \/ Abort(w) \/ LoseAnswer(w) \/ Timeout(w)
      PROVE  walk'[x] = NewWalk /\ todo'[x] = {} /\ cur'[x] = 0
  <2>1. CASE x # w BY <1>1, <1>2, <2>1, OthersUnmoved
  <2>2. CASE x = w
    <3>1. Begins(w) \/ Ends(w) \/ GoesOn(w) BY <1>2, CycleShape
    <3> QED BY <2>2, <3>1 DEF Begins, Ends, GoesOn, IdleInv
  <2> QED BY <2>1, <2>2
<1> QED BY <1>1, <1>2, OutsideUnmoved DEF Next

\* No cycle outlives its context.
LEMMA TimeStep ==
    ASSUME TypeOK, TypeOK', TimeInv, [Next]_vars
    PROVE  TimeInv'
<1> SUFFICES ASSUME NEW x \in Workers, Busy(x)'
             PROVE  cycle'[x].started <= clock' /\ clock' <= cycle'[x].started + CycleTimeout
  BY DEF TimeInv
<1>0. clock \in Nat /\ clock' \in Nat /\ CycleTimeout \in Nat /\ cycle[x].started \in Nat
  BY BoundTypes DEF TypeOK, DirTypeOK, LocalTypeOK, Cycle
<1>1. CASE Unmoved(x) /\ clock' = clock BY <1>1 DEF Unmoved, TimeInv, Busy
<1>2. ASSUME NEW w \in Workers, Step(w) \/ Abort(w) \/ LoseAnswer(w) \/ Timeout(w)
      PROVE  cycle'[x].started <= clock' /\ clock' <= cycle'[x].started + CycleTimeout
  <2>1. clock' = clock /\ (Begins(w) \/ Ends(w) \/ GoesOn(w)) BY <1>2, CycleShape
  <2>2. CASE x # w BY <1>1, <1>2, <2>1, <2>2, OthersUnmoved
  <2>3. CASE x = w BY <1>0, <2>1, <2>3 DEF Begins, Ends, GoesOn, TimeInv, Busy
  <2> QED BY <2>2, <2>3
<1>3. CASE Environment
  <2>1. clock' = clock
    BY <1>3 DEF Environment, DirNext, Publish, Repair, Lose, Remove, Change
  <2> QED BY <1>1, <1>3, <2>1, OutsideUnmoved
<1>4. CASE Tick
  <2>1. Unmoved(x) BY <1>4, OutsideUnmoved
  <2>2. clock' = clock + 1 /\ clock - cycle[x].started < CycleTimeout
    BY <1>4, <2>1 DEF Tick, Unmoved, Busy
  <2> QED BY <1>0, <2>1, <2>2 DEF Unmoved, TimeInv, Busy
<1>5. CASE UNCHANGED vars BY <1>1, <1>5, OutsideUnmoved DEF vars
<1> QED BY <1>2, <1>3, <1>4, <1>5 DEF Next

(****************************************************************************)
(* What a step does to the directory and to the base.                       *)
(****************************************************************************)

\* d is written and stamped now.
Restamped(d) == users'[d].present /\ users'[d].lastModified \in Stamps

\* d is repaired in place.
Repaired(d) ==
    /\ users[d].present /\ ~Usable(users[d])
    /\ users'[d].present /\ users'[d].lastModified = users[d].lastModified
    /\ users'[d].externalId = users[d].externalId

\* d appears without a stamp.
Undated(d) == ~users[d].present /\ users'[d].lastModified = 0

\* The directory after the step, when no record is removed.
UsersMove ==
    /\ clock' = clock
    /\ \A d \in Ids : \/ users'[d] = users[d]
                      \/ Restamped(d)
                      \/ Repaired(d)
                      \/ Undated(d)

\* A PATCH stamps the record it writes.
LEMMA BindMoves ==
    ASSUME TypeOK, NEW d \in Ids, NEW v \in Nat, Bind(d, v), users[d].present, clock' = clock
    PROVE  UsersMove /\ Restamped(d)
<1>1. PICK t \in Stamps :
        users' = [users EXCEPT ![d] = [@ EXCEPT !.externalId = v, !.lastModified = t]]
  BY DEF Bind
<1>2. users[d] \in User BY DEF TypeOK, DirTypeOK
<1>3. Restamped(d) BY <1>1, <1>2 DEF Restamped, TypeOK, DirTypeOK, User
<1>4. \A e \in Ids : e # d => users'[e] = users[e] BY <1>1 DEF TypeOK, DirTypeOK
<1> QED BY <1>3, <1>4 DEF UsersMove

\* A change on the directory's side stamps the record, repairs it or adds it.
LEMMA EnvironmentMoves ==
    ASSUME TypeOK, ~Retention, Environment
    PROVE  UsersMove
<1>1. PICK d \in Ids : Publish(d) \/ Repair(d) \/ Lose(d) \/ Remove(d)
  BY DEF Environment, DirNext
<1>2. clock' = clock BY <1>1 DEF Publish, Repair, Lose, Remove, Change
<1>3. users \in [Ids -> User] BY DEF TypeOK, DirTypeOK
<1>4. \A e \in Ids : e # d => users'[e] = users[e]
  BY <1>1, <1>3 DEF Publish, Repair, Lose, Remove
<1>5. CASE Publish(d)
  <2>1. PICK a \in Statuses, p \in Profiles,
             t \in Stamps \cup (IF Unstamped /\ ~users[d].present THEN {0} ELSE {}) :
          users' = [users EXCEPT ![d] =
                [present |-> TRUE, active |-> a, profile |-> p,
                 externalId |-> IF @.present THEN @.externalId ELSE 0,
                 lastModified |-> t]]
    BY <1>5 DEF Publish
  <2>2. users'[d].present /\ users'[d].lastModified = t BY <1>3, <2>1
  <2>3. Restamped(d) \/ Undated(d) BY <2>2 DEF Restamped, Undated
  <2> QED BY <1>2, <1>4, <2>3 DEF UsersMove
<1>6. CASE Repair(d)
  <2>1. PICK a \in Statuses \ {"nil"} :
          users' = [users EXCEPT ![d] = [@ EXCEPT !.active = a]]
    BY <1>6 DEF Repair
  <2>2. /\ users'[d].present = users[d].present /\ users'[d].lastModified = users[d].lastModified
        /\ users'[d].externalId = users[d].externalId
    BY <1>3, <2>1 DEF User
  <2>3. Repaired(d) BY <1>6, <2>2 DEF Repair, Repaired, Usable
  <2> QED BY <1>2, <1>4, <2>3 DEF UsersMove
<1>7. CASE Lose(d)
  <2>1. PICK t \in Stamps :
          users' = [users EXCEPT ![d] = [@ EXCEPT !.externalId = 0, !.lastModified = t]]
    BY <1>7 DEF Lose
  <2>2. users'[d].present = users[d].present /\ users'[d].lastModified = t
    BY <1>3, <2>1 DEF User
  <2>3. Restamped(d) BY <1>7, <2>2 DEF Lose, Restamped
  <2> QED BY <1>2, <1>4, <2>3 DEF UsersMove
<1>8. ~Remove(d) BY DEF Remove
<1> QED BY <1>1, <1>5, <1>6, <1>7, <1>8

\* A worker's step stamps at most the record it binds.
LEMMA StepMoves ==
    ASSUME TypeOK, CurInv, NEW w \in Workers,
           Step(w) \/ Abort(w) \/ LoseAnswer(w) \/ Timeout(w)
    PROVE  UsersMove /\ (users' = users \/ pc[w] = "patch")
<1>1. clock' = clock BY CycleShape
<1>2. CASE users' = users BY <1>1, <1>2 DEF UsersMove
<1>3. CASE /\ pc[w] = "patch" /\ users[cur[w]].present /\ Bind(cur[w], hand[w])
  <2>1. cur[w] \in Ids /\ hand[w] \in Nat BY <1>3 DEF CurInv, TypeOK, LocalTypeOK
  <2> QED BY <1>1, <1>3, <2>1, BindMoves
<1>4. CASE WriteBack(w) BY <1>2, <1>3, <1>4 DEF WriteBack
<1>5. CASE LoseAnswer(w) BY <1>3, <1>5 DEF LoseAnswer
<1>6. CASE Abort(w) \/ Timeout(w) BY <1>2, <1>6 DEF Abort, Timeout, dirVars
<1>7. CASE \/ \E k \in Kinds : Start(w, k)
           \/ FetchPage(w) \/ GiveUp(w)
           \/ \E d \in Ids : \/ Malformed(w, d) \/ SkipInactive(w, d)
                             \/ FindNew(w, d) \/ FindKnown(w, d)
           \/ Create(w) \/ Reread(w) \/ Update(w) \/ ReportDrift(w) \/ Advance(w)
  <2>1. users' = users
    BY <1>7 DEF Start, FetchPage, GiveUp, Malformed, SkipInactive, FindNew, FindKnown, Lookup,
                Create, Reread, Update, ReportDrift, Advance, dirVars
  <2> QED BY <1>2, <2>1
<1> QED BY <1>4, <1>5, <1>6, <1>7 DEF Step

\* v writes what its page says of the record in hand.
Writes(v) ==
    LET d == cur[v] IN
    /\ pc[v] \in {"create", "update"}
    /\ pc[v] = "create" => NotFound(d)
    /\ pc[v] = "update" => helppers'[d].id = hand[v]
    /\ helppers'[d].id # 0
    /\ helppers'[d].enabled = Active(snap[v][d])
    /\ helppers'[d].profile = snap[v][d].profile
    /\ \A e \in Ids : e # d => helppers'[e] = helppers[e]

\* CreateHelpper writes what the page says.
LEMMA CreateWrites ==
    ASSUME TypeOK, CurInv, HandInv, NEW w \in Workers, pc[w] = "create",
           CreateHelpper(cur[w], snap[w][cur[w]].profile)
    PROVE  Writes(w)
<1>1. cur[w] \in Ids BY DEF CurInv
<1>2. helppers'[cur[w]] = [id |-> nextID + 1, enabled |-> TRUE,
                           profile |-> snap[w][cur[w]].profile]
  BY <1>1 DEF CreateHelpper, TypeOK, StoreTypeOK
<1>3. \A e \in Ids : e # cur[w] => helppers'[e] = helppers[e]
  BY DEF CreateHelpper, TypeOK, StoreTypeOK
<1>4. nextID + 1 # 0 BY DEF TypeOK, StoreTypeOK
<1>5. Active(snap[w][cur[w]]) = TRUE BY DEF HandInv, Active
<1>6. /\ helppers'[cur[w]].id = nextID + 1
      /\ helppers'[cur[w]].enabled = TRUE
      /\ helppers'[cur[w]].profile = snap[w][cur[w]].profile
  BY <1>2
<1>7. NotFound(cur[w]) BY DEF CreateHelpper
<1>8. pc[w] # "update" OBVIOUS
<1> QED BY <1>3, <1>4, <1>5, <1>6, <1>7, <1>8 DEF Writes

\* UpdateHelpper writes what the page says, to the row of that record only.
LEMMA UpdateWrites ==
    ASSUME TypeOK, CurInv, HandInv, MintInv, NEW w \in Workers, Update(w)
    PROVE  Writes(w)
<1> DEFINE d == cur[w]
           u == snap[w][d]
<1>1. d \in Ids /\ pc[w] = "update" BY DEF Update, CurInv
<1>2. hand[w] = helppers[d].id /\ hand[w] # 0 BY <1>1 DEF HandInv
<1>3. helppers' = [e \in Ids |-> IF helppers[e].id = hand[w]
                                 THEN [id |-> hand[w], enabled |-> Active(u),
                                       profile |-> u.profile]
                                 ELSE helppers[e]]
  BY DEF Update, UpdateHelpper
<1>4. helppers'[d] = [id |-> hand[w], enabled |-> Active(u), profile |-> u.profile]
  BY <1>1, <1>2, <1>3
<1>5. \A e \in Ids : e # d => helppers'[e] = helppers[e]
  BY <1>1, <1>2, <1>3 DEF MintInv
<1>6. /\ helppers'[d].id = hand[w]
      /\ helppers'[d].enabled = Active(u)
      /\ helppers'[d].profile = u.profile
  BY <1>4
<1>7. pc[w] # "create" BY <1>1
<1> QED BY <1>1, <1>2, <1>5, <1>6, <1>7 DEF Writes

\* A worker's step writes to the base only what is in its hand.
LEMMA StepWrites ==
    ASSUME TypeOK, CurInv, HandInv, MintInv, NEW w \in Workers,
           Step(w) \/ Abort(w) \/ LoseAnswer(w) \/ Timeout(w)
    PROVE  helppers' = helppers \/ Writes(w)
<1>1. CASE Create(w)
  <2>1. CASE UNCHANGED storeVars BY <2>1 DEF storeVars
  <2> QED BY <1>1, <2>1, CreateWrites DEF Create
<1>2. CASE Update(w) BY <1>2, UpdateWrites
<1>3. CASE \/ \E k \in Kinds : Start(w, k)
           \/ FetchPage(w) \/ GiveUp(w)
           \/ \E d \in Ids : \/ Malformed(w, d) \/ SkipInactive(w, d)
                             \/ FindNew(w, d) \/ FindKnown(w, d)
           \/ Reread(w) \/ WriteBack(w) \/ ReportDrift(w)
           \/ Abort(w) \/ LoseAnswer(w) \/ Timeout(w)
  BY <1>3 DEF Start, FetchPage, GiveUp, Malformed, SkipInactive, FindNew, FindKnown, Lookup,
              Reread, WriteBack, ReportDrift, Abort, LoseAnswer, Timeout, storeVars
<1>4. CASE Advance(w) BY <1>4 DEF Advance, SetCheckpoint, storeVars
<1> QED BY <1>1, <1>2, <1>3, <1>4 DEF Step

\* The id of a helpper never changes.
LEMMA IdsKept ==
    ASSUME TypeOK, CurInv, HandInv, MintInv, [Next]_vars, NEW d \in Ids, helppers[d].id # 0
    PROVE  helppers'[d].id = helppers[d].id
<1>1. ASSUME NEW w \in Workers, Step(w) \/ Abort(w) \/ LoseAnswer(w) \/ Timeout(w)
      PROVE  helppers'[d].id = helppers[d].id
  <2>1. CASE Writes(w)
    <3>1. CASE d = cur[w] BY <2>1, <3>1 DEF Writes, HandInv, NotFound
    <3>2. CASE d # cur[w] BY <2>1, <3>2 DEF Writes
    <3> QED BY <3>1, <3>2
  <2> QED BY <1>1, <2>1, StepWrites
<1>2. CASE Environment \/ Tick \/ UNCHANGED vars
  BY <1>2 DEF Environment, Tick, vars, storeVars
<1> QED BY <1>1, <1>2 DEF Next

\* Row ids stay unique.
LEMMA MintStep ==
    ASSUME TypeOK, CurInv, HandInv, MintInv, [Next]_vars
    PROVE  MintInv'
<1>1. CASE UNCHANGED <<helppers, nextID>> BY <1>1 DEF MintInv
<1>2. ASSUME NEW w \in Workers, Create(w) PROVE MintInv'
  <2>1. CASE CreateHelpper(cur[w], snap[w][cur[w]].profile)
    <3>1. cur[w] \in Ids BY <1>2 DEF Create, CurInv
    <3>2. \A e \in Ids : helppers'[e].id = IF e = cur[w] THEN nextID + 1 ELSE helppers[e].id
      BY <2>1, <3>1 DEF CreateHelpper, TypeOK, StoreTypeOK, Helpper
    <3>3. nextID' = nextID + 1 BY <2>1 DEF CreateHelpper
    <3>4. nextID \in Nat /\ \A e \in Ids : helppers[e].id \in Nat
      BY DEF TypeOK, StoreTypeOK, Helpper
    <3> QED BY <3>2, <3>3, <3>4 DEF MintInv
  <2> QED BY <1>1, <1>2, <2>1 DEF Create, storeVars
<1>3. ASSUME NEW w \in Workers, Update(w) PROVE MintInv'
  <2>1. \A e \in Ids : helppers'[e].id = helppers[e].id
    BY <1>3 DEF Update, UpdateHelpper, TypeOK, StoreTypeOK
  <2>2. nextID' = nextID BY <1>3 DEF Update, UpdateHelpper
  <2> QED BY <2>1, <2>2 DEF MintInv
<1>4. ASSUME NEW w \in Workers,
             \/ \E k \in Kinds : Start(w, k)
             \/ FetchPage(w) \/ GiveUp(w)
             \/ \E d \in Ids : \/ Malformed(w, d) \/ SkipInactive(w, d)
                               \/ FindNew(w, d) \/ FindKnown(w, d)
             \/ Reread(w) \/ WriteBack(w) \/ ReportDrift(w) \/ Advance(w)
             \/ Abort(w) \/ LoseAnswer(w) \/ Timeout(w)
      PROVE  MintInv'
  <2>1. UNCHANGED <<helppers, nextID>>
    BY <1>4 DEF Start, FetchPage, GiveUp, Malformed, SkipInactive, FindNew, FindKnown, Lookup,
                Reread, WriteBack, ReportDrift, Advance, SetCheckpoint, Abort, LoseAnswer,
                Timeout, storeVars
  <2> QED BY <1>1, <2>1
<1>5. CASE Environment \/ Tick \/ UNCHANGED vars
  BY <1>1, <1>5 DEF Environment, Tick, vars, storeVars
<1> QED BY <1>2, <1>3, <1>4, <1>5 DEF Next, Step

\* What a worker holds between the lookup and the write stays usable, and the
\* row id it holds stays the right one.
LEMMA HandStep ==
    ASSUME TypeOK, CurInv, HandInv, MintInv, [Next]_vars
    PROVE  HandInv'
<1> DEFINE Hand(x) ==
      /\ pc[x] \in {"create", "update"} => Usable(snap[x][cur[x]])
      /\ pc[x] = "create" => Active(snap[x][cur[x]])
      /\ pc[x] = "update" => hand[x] = helppers[cur[x]].id /\ hand[x] # 0
      /\ pc[x] = "drifted" => todo[x] = {} /\ walk[x].status = "done"
<1> SUFFICES ASSUME NEW x \in Workers PROVE Hand(x)' BY DEF HandInv
<1>0. Hand(x) BY DEF HandInv
<1>1. CASE Unmoved(x)
  <2>1. pc[x] = "update" => helppers'[cur[x]].id = helppers[cur[x]].id
    BY <1>0, IdsKept DEF CurInv
  <2> QED BY <1>0, <1>1, <2>1 DEF Unmoved, Usable, Active
<1>2. CASE pc'[x] \in {"idle", "walk", "reread", "patch"} BY <1>2
<1>3. ASSUME NEW w \in Workers, Step(w) \/ Abort(w) \/ LoseAnswer(w) \/ Timeout(w), x = w
      PROVE  Hand(x)'
  <2> USE DEF TypeOK, LocalTypeOK
  <2>1. CASE Return(x) BY <1>2, <2>1 DEF Return
  <2>2. CASE \E u \in User : Settle(x, u) BY <1>2, <2>2 DEF Settle
  <2>3. ASSUME NEW k \in Kinds, Start(x, k) PROVE Hand(x)' BY <1>2, <2>3 DEF Start
  <2>4. CASE FetchPage(x) BY <1>2, <2>4 DEF FetchPage
  <2>5. ASSUME NEW d \in Ids, Malformed(x, d) PROVE Hand(x)'
    BY <1>2, <2>1, <2>5 DEF Malformed
  <2>6. ASSUME NEW d \in Ids, SkipInactive(x, d) PROVE Hand(x)'
    BY <1>2, <2>6 DEF SkipInactive, Settle
  <2>7. ASSUME NEW d \in Ids, FindNew(x, d) PROVE Hand(x)'
    <3>1. CASE Settle(x, snap[x][d]) BY <1>2, <3>1 DEF Settle
    <3>2. CASE GoOn(x, "create", d, 0)
      <4>1. pc'[x] = "create" /\ cur'[x] = d BY <3>2 DEF GoOn
      <4>2. snap' = snap /\ Usable(snap[x][d]) /\ Active(snap[x][d])
        BY <2>7 DEF FindNew, Lookup
      <4> QED BY <4>1, <4>2 DEF Usable, Active
    <3> QED BY <2>7, <3>1, <3>2 DEF FindNew
  <2>8. ASSUME NEW d \in Ids, FindKnown(x, d) PROVE Hand(x)'
    <3>1. CASE Settle(x, snap[x][d]) BY <1>2, <3>1 DEF Settle
    <3>2. CASE GoOn(x, "patch", d, helppers[d].id) BY <1>2, <3>2 DEF GoOn
    <3>3. CASE GoOn(x, "update", d, helppers[d].id)
      <4>1. pc'[x] = "update" /\ cur'[x] = d /\ hand'[x] = helppers[d].id
        BY <3>3 DEF GoOn
      <4>2. snap' = snap /\ helppers' = helppers /\ Usable(snap[x][d]) /\ helppers[d].id # 0
        BY <2>8 DEF FindKnown, Lookup, NotFound, storeVars
      <4> QED BY <4>1, <4>2 DEF Usable
    <3> QED BY <2>8, <3>1, <3>2, <3>3 DEF FindKnown
  <2>9. CASE Create(x) BY <1>2, <2>9 DEF Create, GoOn
  <2>10. CASE Reread(x) BY <1>2, <2>10 DEF Reread, GoOn
  <2>11. CASE Update(x) BY <1>2, <2>11 DEF Update, GoOn, Settle
  <2>12. CASE WriteBack(x) BY <1>2, <2>1, <2>12 DEF WriteBack, Settle
  <2>13. CASE ReportDrift(x)
    <3>1. pc'[x] = "drifted" /\ todo'[x] = {} /\ walk'[x].status = "done"
      BY <2>13 DEF ReportDrift
    <3> QED BY <3>1
  <2>14. CASE Advance(x) \/ GiveUp(x) BY <2>1, <2>14 DEF Advance, GiveUp
  <2>15. CASE Abort(x) \/ Timeout(x) BY <2>1, <2>15 DEF Abort, Timeout
  <2>16. CASE LoseAnswer(x)
    <3>1. Unmoved(x) BY <2>16 DEF LoseAnswer, localVars, Unmoved
    <3> QED BY <1>1, <3>1
  <2> QED BY <1>3, <2>3, <2>4, <2>5, <2>6, <2>7, <2>8, <2>9, <2>10, <2>11, <2>12,
             <2>13, <2>14, <2>15, <2>16 DEF Step
<1>4. ASSUME NEW w \in Workers, Step(w) \/ Abort(w) \/ LoseAnswer(w) \/ Timeout(w), x # w
      PROVE  Unmoved(x)
  BY <1>4, OthersUnmoved
<1> HIDE DEF Hand
<1> QED BY <1>1, <1>3, <1>4, OutsideUnmoved DEF Next

\* The stamps on a page, the newest stamp seen and the checkpoint.
LEMMA StampStep ==
    ASSUME TypeOK, TypeOK', CurInv, StampInv, ~Retention, [Next]_vars
    PROVE  StampInv'
<1>0. /\ clock \in Nat /\ clock' \in Nat /\ MaxLead \in Nat /\ Lead \in Int
      /\ Lead <= MaxLead /\ Lead <= LocalSkew + FutureSkew
      /\ LocalSkew \in Int /\ FutureSkew \in Nat
  BY BoundTypes, SyncerAssumption DEF TypeOK, DirTypeOK
<1>1. clock' = clock \/ (clock' = clock + 1 /\ users' = users)
  <2>1. CASE Environment
    BY <2>1 DEF Environment, DirNext, Publish, Repair, Lose, Remove, Change
  <2>2. CASE Tick BY <2>2 DEF Tick
  <2>3. CASE UNCHANGED vars BY <2>3 DEF vars
  <2> QED BY <2>1, <2>2, <2>3, CycleShape DEF Next
<1>2. \A d \in Ids : users'[d].lastModified <= clock' + MaxLead
  <2> SUFFICES ASSUME NEW d \in Ids PROVE users'[d].lastModified <= clock' + MaxLead
    OBVIOUS
  <2>1. users[d].lastModified \in Nat /\ users[d].lastModified <= clock + MaxLead
    BY DEF TypeOK, DirTypeOK, User, StampInv
  <2>2. CASE users' = users BY <1>0, <1>1, <2>1, <2>2
  <2>3. CASE UsersMove
    <3>1. CASE users'[d] = users[d] BY <1>0, <1>1, <2>1, <3>1
    <3>2. CASE Restamped(d) BY <1>0, <1>1, <2>3, <3>2, TimeAssumption
                            DEF Restamped, Stamps, UsersMove
    <3>3. CASE Repaired(d) BY <1>0, <1>1, <2>1, <3>3 DEF Repaired
    <3>4. CASE Undated(d) BY <1>0, <3>4 DEF Undated
    <3> QED BY <2>3, <3>1, <3>2, <3>3, <3>4 DEF UsersMove
  <2>4. CASE Tick \/ UNCHANGED vars BY <2>2, <2>4 DEF Tick, vars
  <2> QED BY <2>3, <2>4, StepMoves, EnvironmentMoves DEF Next
<1>3. ASSUME NEW x \in Workers
      PROVE  /\ walk'[x].high <= clock' + MaxLead
             /\ \A d \in Ids : snap'[x][d].lastModified <= clock' + MaxLead
             /\ Busy(x)' => cycle'[x].cp = 0 \/ cycle'[x].cp <= cycle'[x].started + Lead
  <2>0. /\ walk[x].high \in Nat /\ walk[x].high <= clock + MaxLead
        /\ \A d \in Ids : snap[x][d].lastModified \in Nat /\ snap[x][d].lastModified <= clock + MaxLead
        /\ Busy(x) => cycle[x].cp = 0 \/ cycle[x].cp <= cycle[x].started + Lead
        /\ checkpoint = 0 \/ checkpoint <= clock + Lead
    BY DEF TypeOK, LocalTypeOK, Walk, User, StampInv
  <2>1. CASE Unmoved(x) BY <1>0, <1>1, <2>0, <2>1 DEF Unmoved, Busy
  <2>2. ASSUME NEW w \in Workers, Step(w) \/ Abort(w) \/ LoseAnswer(w) \/ Timeout(w), x = w
        PROVE  /\ walk'[x].high <= clock' + MaxLead
               /\ \A d \in Ids : snap'[x][d].lastModified <= clock' + MaxLead
               /\ Busy(x)' => cycle'[x].cp = 0 \/ cycle'[x].cp <= cycle'[x].started + Lead
    <3>1. clock' = clock /\ (Begins(x) \/ Ends(x) \/ GoesOn(x)) BY <2>2, CycleShape
    <3>2. Busy(x)' => cycle'[x].cp = 0 \/ cycle'[x].cp <= cycle'[x].started + Lead
      BY <2>0, <3>1 DEF Begins, Ends, GoesOn, Busy
    <3>3. \A d \in Ids : \/ snap'[x][d] = snap[x][d]
                         \/ snap'[x][d].lastModified = 0
                         \/ snap'[x][d] = users[d]
      <4> USE DEF TypeOK, LocalTypeOK
      <4>1. CASE Return(x) BY <4>1 DEF Return, NoSnap, Blank
      <4>2. CASE FetchPage(x) BY <4>2 DEF FetchPage, Blank
      <4>3. CASE snap' = snap BY <4>3
      <4>4. snap' = snap \/ Return(x) \/ FetchPage(x)
        BY <2>2 DEF Step, Start, GiveUp, Malformed, SkipInactive, FindNew, FindKnown, Lookup,
                    Create, Reread, Update, WriteBack, ReportDrift, Advance, Abort,
                    LoseAnswer, Timeout, localVars
      <4> QED BY <4>1, <4>2, <4>3, <4>4
    <3>4. \/ walk'[x].high = walk[x].high
          \/ walk'[x].high = 0
          \/ \E d \in Ids : walk'[x].high = snap[x][d].lastModified
      <4> USE DEF TypeOK, LocalTypeOK
      <4>0. walk[x] \in Walk OBVIOUS
      <4>1. CASE Return(x) BY <4>1 DEF Return, NewWalk
      <4>2. ASSUME NEW d \in Ids, Settle(x, snap[x][d])
            PROVE  walk'[x].high = walk[x].high \/ walk'[x].high = snap[x][d].lastModified
        <5>1. walk'[x] = AfterRecord(walk[x], snap[x][d]) BY <4>2 DEF Settle
        <5> QED BY <4>0, <5>1 DEF AfterRecord, Walk
      <4>3. CASE walk' = walk BY <4>3
      <4>4. CASE FetchPage(x)
        <5> DEFINE sel == Selected(cycle[x])
                   page == PageOf(sel, walk[x].startIndex, PageSize)
        <5>1. page \subseteq Ids /\ Cardinality(page) \in Nat /\ Cardinality(sel) \in Nat
          BY PageType DEF Selected
        <5>2. walk'[x] = AfterPage(walk[x], page, Cardinality(sel)) BY <4>4 DEF FetchPage
        <5> HIDE DEF page, sel, TypeOK, LocalTypeOK
        <5>3. AfterPage(walk[x], page, Cardinality(sel)).high = walk[x].high
          BY <4>0, <5>1, PageWalk
        <5> QED BY <5>2, <5>3
      <4>5. ASSUME NEW d \in Ids, Malformed(x, d)
            PROVE  walk'[x].high = walk[x].high \/ walk'[x].high = 0
        <5>1. CASE walk' = [walk EXCEPT ![x] = AfterMalformed(walk[x], snap[x][d])]
          <6>1. walk'[x] = AfterMalformed(walk[x], snap[x][d]) BY <5>1
          <6> QED BY <4>0, <6>1 DEF AfterMalformed, Walk
        <5>2. CASE Return(x) BY <5>2 DEF Return, NewWalk
        <5> QED BY <4>5, <5>1, <5>2 DEF Malformed
      <4>6. ASSUME NEW d \in Ids, SkipInactive(x, d) \/ FindNew(x, d) \/ FindKnown(x, d)
            PROVE  walk' = walk \/ Settle(x, snap[x][d])
        BY <4>6 DEF SkipInactive, FindNew, FindKnown, GoOn
      <4>7. CASE Update(x) \/ WriteBack(x)
        <5>1. cur[x] \in Ids BY <4>7 DEF Update, WriteBack, CurInv
        <5>2. walk' = walk \/ Return(x) \/ Settle(x, snap[x][cur[x]])
          BY <4>7 DEF Update, WriteBack, GoOn
        <5> QED BY <4>1, <4>2, <4>3, <5>1, <5>2
      <4>8. CASE \/ \E k \in Kinds : Start(x, k)
                 \/ Create(x) \/ Reread(x) \/ ReportDrift(x) \/ LoseAnswer(x)
        BY <4>3, <4>8 DEF Start, Create, Reread, GoOn, ReportDrift, LoseAnswer, localVars
      <4>9. CASE Advance(x) \/ GiveUp(x) \/ Abort(x) \/ Timeout(x)
        BY <4>1, <4>9 DEF Advance, GiveUp, Abort, Timeout
      <4> QED BY <2>2, <4>2, <4>3, <4>4, <4>5, <4>6, <4>7, <4>8, <4>9 DEF Step
    <3>5. walk'[x].high <= clock' + MaxLead BY <1>0, <2>0, <3>1, <3>4
    <3>6. \A d \in Ids : snap'[x][d].lastModified <= clock' + MaxLead
      BY <1>0, <1>2, <2>0, <3>1, <3>3 DEF StampInv
    <3> QED BY <3>2, <3>5, <3>6
  <2>3. ASSUME NEW w \in Workers, Step(w) \/ Abort(w) \/ LoseAnswer(w) \/ Timeout(w), x # w
        PROVE  Unmoved(x)
    BY <2>3, OthersUnmoved
  <2> QED BY <2>1, <2>2, <2>3, OutsideUnmoved DEF Next
<1>4. checkpoint' = 0 \/ checkpoint' <= clock' + Lead
  <2>1. CASE checkpoint' = checkpoint
    <3>1. checkpoint \in Nat /\ (checkpoint = 0 \/ checkpoint <= clock + Lead)
      BY DEF StampInv, TypeOK, StoreTypeOK
    <3>2. clock <= clock'
      <4>1. clock' = clock \/ clock' = clock + 1 BY <1>1
      <4> QED BY <1>0, <4>1
    <3>3. \A a, b, c, l \in Int : a <= b + l /\ b <= c => a <= c + l OBVIOUS
    <3>4. CASE checkpoint = 0 BY <2>1, <3>4
    <3>5. CASE checkpoint <= clock + Lead
      <4>1. checkpoint \in Int /\ clock \in Int /\ clock' \in Int /\ Lead \in Int
        BY <1>0, <3>1
      <4>2. checkpoint <= clock' + Lead BY <3>2, <3>3, <3>5, <4>1
      <4> QED BY <2>1, <4>2
    <3> QED BY <3>1, <3>4, <3>5
  <2>2. ASSUME NEW w \in Workers, Advance(w) PROVE checkpoint' = 0 \/ checkpoint' <= clock' + Lead
    <3> DEFINE wm == Watermark(walk[w])
    <3>1. CASE Accepts(cycle[w].cp, wm) /\ SetCheckpoint(wm)
      <4>1. walk[w].high \in Nat /\ walk[w].bad \in Nat /\ walk[w].high <= clock + MaxLead
        BY DEF TypeOK, LocalTypeOK, Walk, StampInv
      <4>2. wm \in Nat /\ wm <= walk[w].high BY <4>1 DEF Watermark
      <4>3. wm <= clock + LocalSkew + FutureSkew BY <3>1 DEF Accepts
      <4>4. wm <= clock + Lead BY <1>0, <4>1, <4>2, <4>3, TimeAssumption DEF Lead
      <4>5. checkpoint' = wm /\ clock' = clock BY <2>2, <3>1 DEF SetCheckpoint, Advance, dirVars
      <4> QED BY <4>4, <4>5
    <3>2. CASE UNCHANGED storeVars BY <2>1, <3>2 DEF storeVars
    <3> QED BY <2>2, <3>1, <3>2 DEF Advance
  <2>3. ASSUME NEW w \in Workers,
               \/ \E k \in Kinds : Start(w, k)
               \/ FetchPage(w) \/ GiveUp(w)
               \/ \E d \in Ids : \/ Malformed(w, d) \/ SkipInactive(w, d)
                                 \/ FindNew(w, d) \/ FindKnown(w, d)
               \/ Create(w) \/ Update(w) \/ Reread(w) \/ WriteBack(w) \/ ReportDrift(w)
               \/ Abort(w) \/ LoseAnswer(w) \/ Timeout(w)
        PROVE  checkpoint' = checkpoint
    BY <2>3 DEF Start, FetchPage, GiveUp, Malformed, SkipInactive, FindNew, FindKnown, Lookup,
                Create, CreateHelpper, Update, UpdateHelpper, Reread, WriteBack,
                ReportDrift, Abort, LoseAnswer, Timeout, storeVars
  <2>4. CASE Environment \/ Tick \/ UNCHANGED vars
    BY <2>1, <2>4 DEF Environment, Tick, vars, storeVars
  <2> QED BY <2>1, <2>2, <2>3, <2>4 DEF Next, Step
<1> QED BY <1>2, <1>3, <1>4 DEF StampInv

\* What holds whatever the overlap: types, unique ids, the record in hand.
BaseInv == TypeOK /\ CurInv /\ MintInv /\ HandInv

\* The initial states satisfy it.
LEMMA BaseInit == Init => BaseInv
<1> SUFFICES ASSUME Init PROVE BaseInv OBVIOUS
<1>1. TypeOK /\ CurInv BY TypeInit
<1>2. \A d \in Ids : d \in Nat \ {0} BY IdsAssumption
<1>3. \A d \in Ids : helppers[d].id = IF d \in Known THEN d ELSE 0 BY DEF Init, StoreInit
<1>4. \A d \in Ids : helppers[d].id <= nextID
  BY <1>2, <1>3, FirstIDAssumption DEF Init, StoreInit
<1>5. MintInv BY <1>2, <1>3, <1>4 DEF MintInv
<1>6. HandInv BY DEF Init, HandInv
<1> QED BY <1>1, <1>5, <1>6 DEF BaseInv

\* Every step keeps it.
LEMMA BaseStep ==
    ASSUME BaseInv, [Next]_vars
    PROVE  BaseInv'
BY TypeStep, MintStep, HandStep DEF BaseInv
================================================================================
