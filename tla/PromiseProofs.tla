----------------------------- MODULE PromiseProofs -----------------------------
(****************************************************************************)
(* The reconciler implements its two abstract specifications, for every     *)
(* value of the constants: any number of people, workers, pages, failures.  *)
(* And the worker process around it: what survives its crashes, restarts    *)
(* and empty stores.                                                        *)
(****************************************************************************)
EXTENDS Promises, Daemon, NoLostUpdateProofs

\* The steps that leave the base alone.
LEMMA StoreUnmoved ==
    ASSUME NEW w \in Workers,
           \/ \E k \in Kinds : Start(w, k)
           \/ FetchPage(w) \/ GiveUp(w)
           \/ \E d \in Ids : \/ Malformed(w, d) \/ SkipInactive(w, d)
                             \/ FindNew(w, d) \/ FindKnown(w, d)
           \/ Reread(w) \/ WriteBack(w) \/ ReportDrift(w)
           \/ Abort(w) \/ LoseAnswer(w) \/ Timeout(w)
    PROVE  UNCHANGED storeVars
BY DEF Start, FetchPage, GiveUp, Malformed, SkipInactive, FindNew, FindKnown, Lookup,
       Reread, WriteBack, ReportDrift, Abort, LoseAnswer, Timeout

(****************************************************************************)
(* The store's contract.                                                    *)
(****************************************************************************)

\* CreateHelpper is an Insert.
LEMMA CreateInserts ==
    ASSUME BaseInv, NEW w \in Workers, Create(w)
    PROVE  UNCHANGED storeVars \/ Contract!Insert(cur[w])
<1>1. CASE CreateHelpper(cur[w], snap[w][cur[w]].profile)
  <2>1. cur[w] \in Ids /\ nextID \in Nat /\ snap[w][cur[w]].profile \in Profiles
    BY DEF BaseInv, CurInv, Create, TypeOK, StoreTypeOK, LocalTypeOK, User
  <2>2. nextID' \in Nat /\ nextID' > nextID /\ nextID' = nextID + 1
    BY <1>1, <2>1 DEF CreateHelpper
  <2>3. helppers' = [helppers EXCEPT ![cur[w]] =
           [id |-> nextID', enabled |-> TRUE, profile |-> snap[w][cur[w]].profile]]
    BY <1>1, <2>2 DEF CreateHelpper
  <2>4. helppers[cur[w]].id = 0 /\ checkpoint' = checkpoint
    BY <1>1 DEF CreateHelpper, NotFound
  <2> QED BY <2>1, <2>2, <2>3, <2>4 DEF Contract!Insert
<1> QED BY <1>1 DEF Create

\* UpdateHelpper is an Overwrite of the record in hand: ids are unique.
LEMMA UpdateOverwrites ==
    ASSUME BaseInv, NEW w \in Workers, Update(w)
    PROVE  Contract!Overwrite(cur[w])
<1> DEFINE d == cur[w]
           u == snap[w][d]
<1>1. d \in Ids /\ pc[w] = "update" BY DEF BaseInv, Update, CurInv
<1>2. hand[w] = helppers[d].id /\ hand[w] # 0 BY <1>1 DEF BaseInv, HandInv
<1>3. /\ helppers' = [e \in Ids |-> IF helppers[e].id = hand[w]
                                    THEN [id |-> hand[w], enabled |-> Active(u),
                                          profile |-> u.profile]
                                    ELSE helppers[e]]
      /\ UNCHANGED <<nextID, checkpoint>>
  BY DEF Update, UpdateHelpper
<1>4. \A e \in Ids : helppers[e].id = hand[w] <=> e = d
  BY <1>1, <1>2 DEF BaseInv, MintInv
<1>5. helppers \in [Ids -> Helpper] BY DEF BaseInv, TypeOK, StoreTypeOK
<1>6. helppers' = [helppers EXCEPT ![d] =
                     [id |-> @.id, enabled |-> Active(u), profile |-> u.profile]]
  BY <1>1, <1>2, <1>3, <1>4, <1>5
<1>7. Active(u) \in BOOLEAN BY DEF Active
<1>8. u.profile \in Profiles BY <1>1 DEF BaseInv, TypeOK, LocalTypeOK, User
<1> HIDE DEF u
<1> QED BY <1>1, <1>2, <1>3, <1>6, <1>7, <1>8 DEF Contract!Overwrite

\* advance sets the checkpoint to a time, or leaves it alone.
LEMMA AdvanceMoves ==
    ASSUME BaseInv, NEW w \in Workers, Advance(w)
    PROVE  UNCHANGED storeVars \/ Contract!MoveCheckpoint
<1> DEFINE wm == Watermark(walk[w])
<1>1. CASE Accepts(cycle[w].cp, wm) /\ SetCheckpoint(wm)
  <2>1. walk[w].high \in Nat /\ walk[w].bad \in Nat
    BY DEF BaseInv, TypeOK, LocalTypeOK, Walk
  <2>2. wm \in Nat BY <2>1 DEF Watermark
  <2>3. wm # 0 BY <1>1 DEF Accepts
  <2> HIDE DEF wm
  <2> QED BY <1>1, <2>2, <2>3 DEF SetCheckpoint, Contract!MoveCheckpoint
<1> QED BY <1>1 DEF Advance

\* Every step of the system is a step of the contract, or none.
LEMMA ContractStep ==
    ASSUME BaseInv, [Next]_vars
    PROVE  [Contract!ContractNext]_(Contract!contractVars)
<1> USE DEF Contract!ContractNext, Contract!contractVars
<1>1. CASE UNCHANGED storeVars BY <1>1 DEF storeVars
<1>2. ASSUME NEW w \in Workers, Create(w) PROVE [Contract!ContractNext]_(Contract!contractVars)
  <2>1. cur[w] \in Ids BY <1>2 DEF BaseInv, CurInv, Create
  <2> QED BY <1>1, <1>2, <2>1, CreateInserts
<1>3. ASSUME NEW w \in Workers, Update(w) PROVE [Contract!ContractNext]_(Contract!contractVars)
  <2>1. cur[w] \in Ids BY <1>3 DEF BaseInv, CurInv, Update
  <2> QED BY <1>3, <2>1, UpdateOverwrites
<1>4. ASSUME NEW w \in Workers, Advance(w) PROVE [Contract!ContractNext]_(Contract!contractVars)
  BY <1>1, <1>4, AdvanceMoves
<1>5. CASE Environment \/ Tick \/ UNCHANGED vars
  BY <1>1, <1>5 DEF Environment, Tick, vars, storeVars
<1>6. ASSUME NEW w \in Workers, Step(w) \/ Abort(w) \/ LoseAnswer(w) \/ Timeout(w),
             ~Create(w), ~Update(w), ~Advance(w)
      PROVE  UNCHANGED storeVars
  BY <1>6, StoreUnmoved DEF Step
<1> QED BY <1>1, <1>2, <1>3, <1>4, <1>5, <1>6 DEF Next

\* The initial states are states of a store.
LEMMA ContractStart == Init => Contract!ContractInit
<1> SUFFICES ASSUME Init PROVE Contract!ContractInit OBVIOUS
<1>1. BaseInv BY BaseInit
<1>2. \A d, e \in Ids : helppers[d].id = helppers[e].id /\ d # e => helppers[d].id = 0
  BY <1>1 DEF BaseInv, MintInv
<1>3. helppers \in [Ids -> [id: Nat, enabled: BOOLEAN, profile: Profiles]] /\ nextID \in Nat
  BY <1>1 DEF BaseInv, TypeOK, StoreTypeOK, Helpper
<1>4. checkpoint = 0 BY DEF Init, StoreInit
<1>5. \A d \in Ids : helppers[d].id <= nextID BY <1>1 DEF BaseInv, MintInv
<1> QED BY <1>2, <1>3, <1>4, <1>5 DEF Contract!ContractInit

\* The base keeps the contract of store.Store, whatever the workers do.
THEOREM StoreContractKept == Spec => KeepsStoreContract
<1>1. Init => BaseInv BY BaseInit
<1>2. BaseInv /\ [Next]_vars => BaseInv' BY BaseStep
<1>3. BaseInv /\ [Next]_vars => [Contract!ContractNext]_(Contract!contractVars)
  BY ContractStep
<1> QED BY <1>1, <1>2, <1>3, ContractStart, PTL
        DEF Spec, KeepsStoreContract, Contract!ContractSpec

(****************************************************************************)
(* Access follows the word of the directory.                                *)
(****************************************************************************)

\* Whatever a worker holds of a person, the directory has said: in its records,
\* on the pages that were read, in the notes of a full walk.
WordInv ==
    /\ \A d \in Ids : users[d].present /\ Usable(users[d]) => users[d].active \in said[d]
    /\ \A w \in Workers : \A d \in Ids : Usable(snap[w][d]) => snap[w][d].active \in said[d]
    /\ \A w \in Workers : \A d \in drift[w].should : ~NotFound(d) /\ "false" \in said[d]

\* The initial states satisfy it.
LEMMA WordInit == Init => WordInv
<1> SUFFICES ASSUME Init PROVE WordInv OBVIOUS
<1>1. \A d \in Ids : users[d].present => users[d].active \in said[d]
  <2>1. PICK p \in Profiles :
          users = [d \in Ids |-> [present |-> d \in Hired, active |-> "true", profile |-> p,
                                  externalId |-> InitialExternal[d], lastModified |-> 1]]
    BY DEF Init, DirInit
  <2>2. \A d \in Ids : users[d].present = (d \in Hired) /\ users[d].active = "true" BY <2>1
  <2>3. said = [d \in Ids |-> IF d \in Hired THEN {"true"} ELSE {}] BY DEF Init, DirInit
  <2> QED BY <2>2, <2>3
<1>2. \A w \in Workers : \A d \in Ids : ~Usable(snap[w][d])
  BY DEF Init, NoSnap, Blank, Usable
<1>3. \A w \in Workers : drift[w].should = {} BY DEF Init, NoDrift
<1> QED BY <1>1, <1>2, <1>3 DEF WordInv

\* A change on the directory's side: at most one person is spoken of, and a
\* record that is usable says what has been said.
LEMMA ChangeSpeaks ==
    ASSUME DirTypeOK, NEW d \in Ids, Publish(d) \/ Repair(d) \/ Lose(d) \/ Remove(d)
    PROVE  /\ said' = said \/ \E a \in {"true", "false"} : said' = [said EXCEPT ![d] = @ \cup {a}]
           /\ \A e \in Ids \ {d} : users'[e] = users[e]
           /\ users'[d].present /\ Usable(users'[d])
              => \/ users'[d].active \in said'[d]
                 \/ users[d].present /\ users'[d].active = users[d].active
<1> USE DEF DirTypeOK
<1>1. CASE Publish(d)
  <2>1. PICK a \in Statuses, p \in Profiles, t \in Nat :
            /\ users' = [users EXCEPT ![d] =
                  [present |-> TRUE, active |-> a, profile |-> p,
                   externalId |-> IF @.present THEN @.externalId ELSE 0,
                   lastModified |-> t]]
            /\ said' = [said EXCEPT ![d] = @ \cup ({a} \ {"nil"})]
    BY <1>1, StampType DEF Publish
  <2>2. a \in {"true", "false", "nil"} BY HiredAssumption
  <2>3. users'[d].active = a BY <2>1
  <2>4. CASE a = "nil"
    <3>1. said' = said BY <2>1, <2>4
    <3> QED BY <2>1, <2>3, <2>4, <3>1 DEF Usable
  <2>5. CASE a \in {"true", "false"}
    <3>1. said' = [said EXCEPT ![d] = @ \cup {a}] BY <2>1, <2>5
    <3> QED BY <2>1, <2>3, <2>5, <3>1
  <2> QED BY <2>2, <2>4, <2>5
<1>2. CASE Repair(d)
  <2>1. PICK a \in Statuses \ {"nil"} :
            /\ users' = [users EXCEPT ![d] = [@ EXCEPT !.active = a]]
            /\ said' = [said EXCEPT ![d] = @ \cup {a}]
    BY <1>2 DEF Repair
  <2>2. a \in {"true", "false"} BY HiredAssumption
  <2>3. users'[d].active = a BY <2>1 DEF User
  <2>4. a \in said'[d] BY <2>1
  <2>5. \E b \in {"true", "false"} : said' = [said EXCEPT ![d] = @ \cup {b}] BY <2>1, <2>2
  <2>6. \A e \in Ids \ {d} : users'[e] = users[e] BY <2>1
  <2> QED BY <2>3, <2>4, <2>5, <2>6
<1>3. CASE Lose(d)
  <2>1. PICK t \in Stamps :
            users' = [users EXCEPT ![d] = [@ EXCEPT !.externalId = 0, !.lastModified = t]]
    BY <1>3 DEF Lose
  <2>2. users'[d].active = users[d].active /\ users'[d].present = users[d].present
    BY <2>1 DEF User
  <2> QED BY <1>3, <2>1, <2>2 DEF Lose
<1>4. CASE Remove(d)
  <2>1. users' = [users EXCEPT ![d] = [@ EXCEPT !.present = FALSE]] BY <1>4 DEF Remove
  <2>2. users'[d].present = FALSE BY <2>1 DEF User
  <2> QED BY <1>4, <2>1, <2>2 DEF Remove
<1> QED BY <1>1, <1>2, <1>3, <1>4

\* What has been said stays said.
LEMMA SaidGrows ==
    ASSUME TypeOK, [Next]_vars, NEW d \in Ids
    PROVE  said[d] \subseteq said'[d]
<1>1. CASE said' = said BY <1>1
<1>2. CASE Environment
  <2>1. PICK e \in Ids : Publish(e) \/ Repair(e) \/ Lose(e) \/ Remove(e)
    BY <1>2 DEF Environment, DirNext
  <2>2. said' = said \/ \E a \in {"true", "false"} : said' = [said EXCEPT ![e] = @ \cup {a}]
    BY <2>1, ChangeSpeaks DEF TypeOK
  <2> QED BY <2>2 DEF TypeOK, DirTypeOK
<1>3. ASSUME NEW w \in Workers, Step(w) \/ Abort(w) \/ LoseAnswer(w) \/ Timeout(w)
      PROVE  said' = said
  BY <1>3 DEF Step, Start, FetchPage, GiveUp, Malformed, SkipInactive, FindNew, FindKnown,
              Lookup, Create, Reread, Update, WriteBack, ReportDrift, Advance, Abort,
              LoseAnswer, Timeout, dirVars
<1>4. CASE Tick \/ UNCHANGED vars BY <1>1, <1>4 DEF Tick, vars
<1> QED BY <1>1, <1>2, <1>3, <1>4 DEF Next

\* The directory's records say what has been said.
LEMMA UsersSpeak ==
    ASSUME BaseInv, WordInv, [Next]_vars, NEW d \in Ids, users'[d].present, Usable(users'[d])
    PROVE  users'[d].active \in said'[d]
<1>1. CASE users'[d].present = users[d].present /\ users'[d].active = users[d].active
  <2>1. users[d].active \in said[d] BY <1>1 DEF WordInv, Usable
  <2> QED BY <1>1, <2>1, SaidGrows DEF BaseInv
<1>2. CASE users' = users BY <1>1, <1>2
<1>3. CASE Environment
  <2>1. PICK e \in Ids : Publish(e) \/ Repair(e) \/ Lose(e) \/ Remove(e)
    BY <1>3 DEF Environment, DirNext
  <2>2. CASE d = e
    <3>1. \/ users'[d].active \in said'[d]
          \/ users[d].present /\ users'[d].active = users[d].active
      BY <2>1, <2>2, ChangeSpeaks DEF BaseInv, TypeOK
    <3> QED BY <1>1, <3>1
  <2>3. CASE d # e
    <3>1. users'[d] = users[d] BY <2>1, <2>3, ChangeSpeaks DEF BaseInv, TypeOK
    <3> QED BY <1>1, <3>1
  <2> QED BY <2>2, <2>3
<1>4. ASSUME NEW e \in Ids, NEW v, Bind(e, v) PROVE users'[d].active \in said'[d]
  <2>1. PICK t \in Stamps :
          users' = [users EXCEPT ![e] = [@ EXCEPT !.externalId = v, !.lastModified = t]]
    BY <1>4 DEF Bind
  <2>2. users[d] \in User BY DEF BaseInv, TypeOK, DirTypeOK
  <2>3. users'[d].active = users[d].active /\ users'[d].present = users[d].present
    BY <2>1, <2>2 DEF BaseInv, TypeOK, DirTypeOK, User
  <2> QED BY <1>1, <2>3
<1>5. ASSUME NEW w \in Workers, Step(w) \/ Abort(w) \/ LoseAnswer(w) \/ Timeout(w)
      PROVE  users' = users \/ \E e \in Ids : \E v : Bind(e, v)
  <2>1. CASE WriteBack(w) \/ LoseAnswer(w)
    <3>1. cur[w] \in Ids BY <2>1 DEF BaseInv, CurInv, WriteBack, LoseAnswer
    <3> QED BY <2>1, <3>1 DEF WriteBack, LoseAnswer
  <2> QED
    BY <1>5, <2>1 DEF Step, Start, FetchPage, GiveUp, Malformed, SkipInactive, FindNew,
                      FindKnown, Lookup, Create, Reread, Update, ReportDrift, Advance, Abort,
                      Timeout, dirVars
<1>6. CASE Tick \/ UNCHANGED vars BY <1>2, <1>6 DEF Tick, vars
<1> QED BY <1>2, <1>3, <1>4, <1>5, <1>6 DEF Next

\* A worker's page and notes: kept, dropped when the cycle returns, or extended
\* by a page that is read or a record that is noted.
LEMMA LocalShape ==
    ASSUME TypeOK, NEW w \in Workers, Step(w) \/ Abort(w) \/ LoseAnswer(w) \/ Timeout(w)
    PROVE  /\ snap'[w] = snap[w] \/ snap'[w] = NoSnap \/ FetchPage(w)
           /\ \/ drift'[w].should = drift[w].should
              \/ drift'[w] = NoDrift
              \/ \E d \in Ids : Note(w, d)
<1> USE DEF TypeOK, LocalTypeOK, Drift
<1> DEFINE Shape == /\ snap'[w] = snap[w] \/ snap'[w] = NoSnap \/ FetchPage(w)
                    /\ \/ drift'[w].should = drift[w].should
                       \/ drift'[w] = NoDrift
                       \/ \E d \in Ids : Note(w, d)
<1>1. CASE Return(w) BY <1>1 DEF Return
<1>2. CASE UNCHANGED <<snap, drift>> BY <1>2
<1>3. CASE FetchPage(w) BY <1>3 DEF FetchPage
<1>4. ASSUME NEW d \in Ids, Malformed(w, d) PROVE Shape
  BY <1>1, <1>4 DEF Malformed
<1>5. ASSUME NEW d \in Ids, Lookup(w, d) PROVE Shape
  BY <1>5 DEF Lookup
<1>6. CASE ReportDrift(w)
  <2>1. drift'[w].should = drift[w].should /\ snap' = snap BY <1>6 DEF ReportDrift
  <2> QED BY <2>1
<1>7. CASE WriteBack(w) BY <1>1, <1>2, <1>7 DEF WriteBack
<1>8. CASE \/ \E k \in Kinds : Start(w, k)
           \/ Create(w) \/ Reread(w) \/ Update(w) \/ LoseAnswer(w)
  BY <1>2, <1>8 DEF Start, Create, Reread, Update, LoseAnswer, localVars
<1>9. CASE GiveUp(w) \/ Advance(w) \/ Abort(w) \/ Timeout(w)
  BY <1>1, <1>9 DEF GiveUp, Advance, Abort, Timeout
<1>10. ASSUME NEW d \in Ids, SkipInactive(w, d) \/ FindNew(w, d) \/ FindKnown(w, d) PROVE Shape
  BY <1>5, <1>10 DEF SkipInactive, FindNew, FindKnown
<1> QED BY <1>3, <1>4, <1>6, <1>7, <1>8, <1>9, <1>10 DEF Step

\* Another worker's page and notes stay as they are.
LEMMA OthersNotes ==
    ASSUME TypeOK, NEW w \in Workers, Step(w) \/ Abort(w) \/ LoseAnswer(w) \/ Timeout(w),
           NEW x \in Workers, x # w
    PROVE  drift'[x] = drift[x]
<1> USE DEF TypeOK, LocalTypeOK
<1>1. CASE Return(w) BY <1>1 DEF Return
<1>2. CASE UNCHANGED drift BY <1>2
<1>3. ASSUME NEW d \in Ids, Note(w, d) PROVE drift'[x] = drift[x] BY <1>3 DEF Note
<1> QED
  BY <1>1, <1>2, <1>3 DEF Step, Start, FetchPage, GiveUp, Malformed, SkipInactive, FindNew,
     FindKnown, Lookup, Create, Reread, Update, WriteBack, ReportDrift, Advance, Abort,
     LoseAnswer, Timeout, localVars

\* A page shows what the directory has said.
LEMMA PageSpeaks ==
    ASSUME BaseInv, WordInv, NEW w \in Workers, FetchPage(w), NEW d \in Ids,
           Usable(snap'[w][d])
    PROVE  snap'[w][d].active \in said[d]
<1> DEFINE sel == Selected(cycle[w])
           page == PageOf(sel, walk[w].startIndex, PageSize)
<1>1. snap'[w][d] = IF d \in page THEN users[d] ELSE Blank
  BY DEF FetchPage, BaseInv, TypeOK, LocalTypeOK
<1>2. ~Usable(Blank) BY DEF Blank, Usable
<1>3. d \in page BY <1>1, <1>2
<1>4. users[d].present BY <1>3 DEF PageOf, Selected, Matched
<1> HIDE DEF page
<1> QED BY <1>1, <1>3, <1>4 DEF WordInv

\* A full walk notes against somebody only what the directory has said.
LEMMA NoteSpeaks ==
    ASSUME BaseInv, WordInv, NEW w \in Workers, NEW d \in Ids, Note(w, d),
           NEW e \in drift'[w].should
    PROVE  e \in Ids /\ ~NotFound(e) /\ "false" \in said[e]
<1> DEFINE u == snap[w][d]
<1>0. drift[w] \in Drift /\ drift[w].should \subseteq Ids /\ u \in User
  BY DEF BaseInv, TypeOK, LocalTypeOK, Drift
<1>1. CASE e \in drift[w].should BY <1>0, <1>1 DEF WordInv
<1>2. CASE e \notin drift[w].should
  <2>1. drift'[w] = IF cycle[w].kind = "full" THEN Observe(drift[w], d, u) ELSE drift[w]
    BY DEF Note, BaseInv, TypeOK, LocalTypeOK
  <2>2. drift'[w] = Observe(drift[w], d, u) BY <1>2, <2>1
  <2>3. Observe(drift[w], d, u).should =
          IF Usable(u) /\ ~NotFound(d) /\ helppers[d].enabled /\ ~Active(u)
          THEN drift[w].should \cup {d} ELSE drift[w].should
    BY <1>0 DEF Observe, Drift
  <2>4. e = d /\ Usable(u) /\ ~NotFound(d) /\ ~Active(u) BY <1>2, <2>2, <2>3
  <2>5. u.active \in said[d] BY <2>4 DEF WordInv
  <2>6. u.active \in {"true", "false", "nil"} BY <1>0 DEF User
  <2>7. u.active = "false" BY <2>4, <2>6 DEF Usable, Active
  <2> QED BY <2>4, <2>5, <2>7
<1> QED BY <1>1, <1>2

\* Every step keeps the invariant.
LEMMA WordStep ==
    ASSUME BaseInv, WordInv, [Next]_vars
    PROVE  WordInv'
<1>0. TypeOK BY DEF BaseInv
<1>1. \A d \in Ids : said[d] \subseteq said'[d] BY <1>0, SaidGrows
<1>2. \A d \in Ids : ~NotFound(d) => ~NotFound(d)' BY IdsKept DEF BaseInv, NotFound
<1>3. \A d \in Ids : users'[d].present /\ Usable(users'[d]) => users'[d].active \in said'[d]
  BY UsersSpeak
<1>4. ASSUME NEW x \in Workers, NEW d \in Ids, Usable(snap'[x][d])
      PROVE  snap'[x][d].active \in said'[d]
  <2>1. CASE snap'[x] = snap[x]
    <3>1. Usable(snap[x][d]) /\ snap'[x][d] = snap[x][d] BY <1>4, <2>1 DEF Usable
    <3> QED BY <1>1, <3>1 DEF WordInv
  <2>2. CASE snap'[x] = NoSnap BY <1>4, <2>2 DEF NoSnap, Blank, Usable
  <2>3. CASE FetchPage(x)
    <3>1. snap'[x][d].active \in said[d] BY <1>4, <2>3, PageSpeaks
    <3> QED BY <1>1, <3>1
  <2>4. ASSUME NEW w \in Workers, Step(w) \/ Abort(w) \/ LoseAnswer(w) \/ Timeout(w)
        PROVE  snap'[x] = snap[x] \/ snap'[x] = NoSnap \/ FetchPage(x)
    <3>1. CASE x = w BY <1>0, <2>4, <3>1, LocalShape
    <3>2. CASE x # w BY <1>0, <2>4, <3>2, OthersUnmoved DEF Unmoved
    <3> QED BY <3>1, <3>2
  <2>5. CASE Environment \/ Tick \/ UNCHANGED vars
    BY <2>1, <2>5, OutsideUnmoved DEF Unmoved
  <2> QED BY <2>1, <2>2, <2>3, <2>4, <2>5 DEF Next
<1>5. ASSUME NEW x \in Workers, NEW d \in drift'[x].should
      PROVE  ~NotFound(d)' /\ "false" \in said'[d]
  <2>1. CASE drift'[x].should = drift[x].should
    <3>1. d \in Ids BY <1>0, <1>5, <2>1 DEF TypeOK, LocalTypeOK, Drift
    <3> QED BY <1>1, <1>2, <1>5, <2>1, <3>1 DEF WordInv
  <2>2. CASE drift'[x] = NoDrift BY <1>5, <2>2 DEF NoDrift
  <2>3. ASSUME NEW e \in Ids, Note(x, e) PROVE ~NotFound(d)' /\ "false" \in said'[d]
    <3>1. d \in Ids /\ ~NotFound(d) /\ "false" \in said[d] BY <1>5, <2>3, NoteSpeaks
    <3> QED BY <1>1, <1>2, <3>1
  <2>4. ASSUME NEW w \in Workers, Step(w) \/ Abort(w) \/ LoseAnswer(w) \/ Timeout(w)
        PROVE  \/ drift'[x].should = drift[x].should
               \/ drift'[x] = NoDrift
               \/ \E e \in Ids : Note(x, e)
    <3>1. CASE x = w BY <1>0, <2>4, <3>1, LocalShape
    <3>2. CASE x # w
      <4>1. drift'[x] = drift[x] BY <1>0, <2>4, <3>2, OthersNotes
      <4> QED BY <4>1
    <3> QED BY <3>1, <3>2
  <2>5. CASE Environment \/ Tick \/ UNCHANGED vars
    BY <2>1, <2>5 DEF Environment, Tick, vars, localVars
  <2> QED BY <2>1, <2>2, <2>3, <2>4, <2>5 DEF Next
<1> QED BY <1>3, <1>4, <1>5 DEF WordInv

\* A write to the base grants or revokes on the word of the directory.
LEMMA WriteProvisions ==
    ASSUME BaseInv, WordInv, NEW w \in Workers, Writes(w), said' = said
    PROVE  Prov!Grant(cur[w]) \/ Prov!Revoke(cur[w])
<1>1. PICK d \in Ids : d = cur[w] BY DEF BaseInv, CurInv, Writes
<1> DEFINE u == snap[w][d]
           acc == [e \in Ids |-> AccessOf(e)]
<1>2. Usable(u) BY <1>1 DEF BaseInv, HandInv, Writes
<1>3. u.active \in said[d] BY <1>1, <1>2 DEF WordInv
<1>4. u.active \in {"true", "false"}
  BY <1>1, <1>2 DEF BaseInv, TypeOK, LocalTypeOK, User, Usable
<1>5. \A e \in Ids : e # d => AccessOf(e)' = AccessOf(e)
  BY <1>1 DEF Writes, AccessOf, NotFound
<1>6. CASE Active(u)
  <2>1. AccessOf(d)' = "enabled" BY <1>1, <1>6 DEF Writes, AccessOf, NotFound
  <2>2. acc' = [acc EXCEPT ![d] = "enabled"] BY <1>1, <1>5, <2>1
  <2>3. "true" \in said[d] BY <1>3, <1>6 DEF Active
  <2> QED BY <1>1, <2>2, <2>3 DEF Prov!Grant
<1>7. CASE ~Active(u)
  <2>1. AccessOf(d)' = "disabled" BY <1>1, <1>7 DEF Writes, AccessOf, NotFound
  <2>2. acc' = [acc EXCEPT ![d] = "disabled"] BY <1>1, <1>5, <2>1
  <2>3. "false" \in said[d] BY <1>3, <1>4, <1>7 DEF Active
  <2>4. pc[w] = "update" BY <1>1, <1>7 DEF BaseInv, HandInv, Writes
  <2>5. ~NotFound(d) BY <1>1, <2>4 DEF BaseInv, HandInv, NotFound
  <2>6. acc[d] # "none" BY <1>1, <2>5 DEF AccessOf
  <2> QED BY <1>1, <2>2, <2>3, <2>6 DEF Prov!Revoke
<1> QED BY <1>6, <1>7

\* Every step of the system is a step of the provisioning, or none.
LEMMA ProvStep ==
    ASSUME BaseInv, WordInv, [Next]_vars
    PROVE  [Prov!ProvNext]_(Prov!provVars)
<1> USE DEF Prov!ProvNext, Prov!provVars
<1>1. CASE said' = said /\ helppers' = helppers
  BY <1>1 DEF AccessOf, NotFound
<1>2. ASSUME NEW w \in Workers, Step(w) \/ Abort(w) \/ LoseAnswer(w) \/ Timeout(w)
      PROVE  [Prov!ProvNext]_(Prov!provVars)
  <2>1. said' = said
    BY <1>2 DEF Step, Start, FetchPage, GiveUp, Malformed, SkipInactive, FindNew, FindKnown,
                Lookup, Create, Reread, Update, WriteBack, ReportDrift, Advance, Abort,
                LoseAnswer, Timeout, dirVars
  <2>2. CASE Writes(w)
    <3>1. cur[w] \in Ids BY <2>2 DEF BaseInv, CurInv, Writes
    <3> QED BY <2>1, <2>2, <3>1, WriteProvisions
  <2> QED BY <1>1, <1>2, <2>1, <2>2, StepWrites DEF BaseInv
<1>3. CASE Environment
  <2>1. PICK d \in Ids : Publish(d) \/ Repair(d) \/ Lose(d) \/ Remove(d)
    BY <1>3 DEF Environment, DirNext
  <2>2. helppers' = helppers BY <1>3 DEF Environment, storeVars
  <2>3. [e \in Ids |-> AccessOf(e)]' = [e \in Ids |-> AccessOf(e)]
    BY <2>2 DEF AccessOf, NotFound
  <2>4. said' = said \/ \E a \in {"true", "false"} : said' = [said EXCEPT ![d] = @ \cup {a}]
    BY <2>1, ChangeSpeaks DEF BaseInv, TypeOK
  <2> QED BY <1>1, <2>2, <2>3, <2>4 DEF Prov!Say
<1>4. CASE Tick \/ UNCHANGED vars BY <1>1, <1>4 DEF Tick, vars, storeVars
<1> QED BY <1>2, <1>3, <1>4 DEF Next

\* The initial states are states of the provisioning.
LEMMA ProvStart == Init => Prov!ProvInit
<1> SUFFICES ASSUME Init PROVE Prov!ProvInit OBVIOUS
<1>1. said \in [Ids -> SUBSET {"true", "false"}] BY BaseInit DEF BaseInv, TypeOK, DirTypeOK
<1>2. \A d \in Ids : AccessOf(d) \in {"none", "enabled", "disabled"} BY DEF AccessOf
<1> QED BY <1>1, <1>2 DEF Prov!ProvInit

\* However cycles, changes and failures interleave, access follows the word of
\* the directory and nothing else.
THEOREM AccessFollowsTheWord == Spec => OnlyOnItsWord
<1>1. Init => BaseInv /\ WordInv BY BaseInit, WordInit
<1>2. BaseInv /\ WordInv /\ [Next]_vars => BaseInv' /\ WordInv' BY BaseStep, WordStep
<1>3. BaseInv /\ WordInv /\ [Next]_vars => [Prov!ProvNext]_(Prov!provVars) BY ProvStep
<1> QED BY <1>1, <1>2, <1>3, ProvStart, PTL DEF Spec, OnlyOnItsWord, Prov!ProvSpec

\* Full's report names nobody to disable whom the directory has not called
\* inactive, or whom the base does not know.
THEOREM DriftWarranted == Spec => []DriftIsWarranted
<1>1. Init => BaseInv /\ WordInv BY BaseInit, WordInit
<1>2. BaseInv /\ WordInv /\ [Next]_vars => BaseInv' /\ WordInv' BY BaseStep, WordStep
<1>3. WordInv => DriftIsWarranted BY DEF WordInv, DriftIsWarranted
<1> QED BY <1>1, <1>2, <1>3, PTL DEF Spec

(****************************************************************************)
(* A dry run, and the checkpoint of a worker that runs alone.               *)
(****************************************************************************)

\* In a dry run no worker comes to a place where it would write.
DryInv == \A w \in Workers : pc[w] \in {"idle", "walk", "drifted"}

\* Every step of a dry run keeps it.
LEMMA DryStep ==
    ASSUME DryRun, TypeOK, DryInv, [Next]_vars
    PROVE  DryInv'
<1> SUFFICES ASSUME NEW x \in Workers PROVE pc'[x] \in {"idle", "walk", "drifted"}
  BY DEF DryInv
<1> USE DEF DryInv
<1>1. ASSUME NEW w \in Workers, Step(w) \/ Abort(w) \/ LoseAnswer(w) \/ Timeout(w)
      PROVE  pc'[x] \in {"idle", "walk", "drifted"}
  <2>1. CASE x # w BY <1>1, <2>1, OthersUnmoved DEF Unmoved
  <2>2. CASE x = w
    <3> USE <2>2 DEF TypeOK, LocalTypeOK
    <3>1. CASE Return(w) BY <3>1 DEF Return
    <3>2. ASSUME NEW d \in Ids, SkipInactive(w, d) \/ FindNew(w, d) \/ FindKnown(w, d)
          PROVE  pc'[x] = "walk"
      BY <3>2 DEF SkipInactive, FindNew, FindKnown, Settle
    <3>3. ASSUME NEW d \in Ids, Malformed(w, d) PROVE pc'[x] \in {"idle", "walk", "drifted"}
      BY <3>1, <3>3 DEF Malformed
    <3>4. CASE (\E k \in Kinds : Start(w, k)) \/ FetchPage(w) \/ ReportDrift(w)
      BY <3>4 DEF Start, FetchPage, ReportDrift
    <3>5. CASE GiveUp(w) \/ Advance(w) \/ Abort(w) \/ Timeout(w)
      BY <3>1, <3>5 DEF GiveUp, Advance, Abort, Timeout
    <3>6. ~(Create(w) \/ Reread(w) \/ Update(w) \/ WriteBack(w) \/ LoseAnswer(w))
      BY DEF Create, Reread, Update, WriteBack, LoseAnswer
    <3> QED BY <1>1, <3>2, <3>3, <3>4, <3>5, <3>6 DEF Step
  <2> QED BY <2>1, <2>2
<1>2. CASE Environment \/ Tick \/ UNCHANGED vars BY <1>2, OutsideUnmoved DEF Unmoved
<1> QED BY <1>1, <1>2 DEF Next

\* A step of a dry run writes nothing.
LEMMA DryWrites ==
    ASSUME DryRun, TypeOK, DryInv, [Next]_vars
    PROVE  /\ UNCHANGED storeVars
           /\ \A d \in Ids : users'[d].externalId \in {0, users[d].externalId}
<1>1. ASSUME NEW w \in Workers, Step(w) \/ Abort(w) \/ LoseAnswer(w) \/ Timeout(w)
      PROVE  UNCHANGED storeVars /\ users' = users
  <2>1. ~(Create(w) \/ Reread(w) \/ Update(w) \/ WriteBack(w) \/ LoseAnswer(w))
    BY DEF DryInv, Create, Reread, Update, WriteBack, LoseAnswer
  <2>2. CASE Advance(w) BY <2>2 DEF Advance, Accepts, dirVars
  <2>3. UNCHANGED storeVars BY <1>1, <2>1, <2>2, StoreUnmoved DEF Step
  <2>4. users' = users
    BY <1>1, <2>1 DEF Step, Start, FetchPage, GiveUp, Malformed, SkipInactive, FindNew,
                      FindKnown, Lookup, ReportDrift, Advance, Abort, Timeout, dirVars
  <2> QED BY <2>3, <2>4
<1>2. CASE Environment
  <2>1. UNCHANGED storeVars BY <1>2 DEF Environment
  <2> QED BY <1>2, <2>1, ChangeBindsNothing DEF Environment, DirNext, TypeOK
<1>3. CASE Tick \/ UNCHANGED vars BY <1>3 DEF Tick, vars, storeVars
<1> QED BY <1>1, <1>2, <1>3 DEF Next

\* -dry-run writes nothing, whatever it finds and however often it runs.
THEOREM DryRunIsDry == Spec => DryRunWritesNothing
<1>1. Init => (DryRun => DryInv) BY DEF Init, DryInv
<1>2. TypeOK /\ (DryRun => DryInv) /\ [Next]_vars => (DryRun => DryInv)' BY DryStep
<1>3. TypeOK /\ (DryRun => DryInv) /\ [Next]_vars
      => [DryRun => /\ UNCHANGED storeVars
                    /\ \A d \in Ids : users'[d].externalId \in {0, users[d].externalId}]_vars
  BY DryWrites
<1> QED BY <1>1, <1>2, <1>3, TypeCorrect, PTL DEF Spec, DryRunWritesNothing

\* The checkpoint is still what the cycle under way read.
OwnInv == \A w \in Workers : pc[w] # "idle" => cycle[w].cp = checkpoint

\* A worker that runs alone moves the checkpoint forward or not at all.
LEMMA AloneStep ==
    ASSUME \A v, w \in Workers : v = w, TypeOK, OwnInv, [Next]_vars
    PROVE  OwnInv' /\ checkpoint' >= checkpoint
<1>0. checkpoint \in Nat BY DEF TypeOK, StoreTypeOK
<1>1. CASE Environment \/ Tick \/ UNCHANGED vars
  <2>1. \A w \in Workers : Unmoved(w) BY <1>1, OutsideUnmoved
  <2>2. checkpoint' = checkpoint BY <1>1 DEF Environment, Tick, vars, storeVars
  <2> QED BY <1>0, <2>1, <2>2 DEF Unmoved, OwnInv
<1>2. ASSUME NEW w \in Workers, Step(w) \/ Abort(w) \/ LoseAnswer(w) \/ Timeout(w)
      PROVE  OwnInv' /\ checkpoint' >= checkpoint
  <2>1. Begins(w) \/ Ends(w) \/ GoesOn(w) BY <1>2, CycleShape
  <2>2. CASE checkpoint' = checkpoint
    <3>1. pc'[w] # "idle" => cycle'[w].cp = checkpoint'
      BY <2>1, <2>2 DEF Begins, Ends, GoesOn, OwnInv
    <3>2. OwnInv' BY <3>1 DEF OwnInv
    <3> QED BY <1>0, <2>2, <3>2
  <2>3. CASE Advance(w)
    <3>1. Ends(w) BY <2>3, ReturnEnds DEF Advance
    <3>2. OwnInv' BY <3>1 DEF Ends, OwnInv
    <3>3. cycle[w].cp = checkpoint BY <2>3 DEF OwnInv, Advance
    <3>4. walk[w].high \in Nat /\ walk[w].bad \in Nat BY DEF TypeOK, LocalTypeOK, Walk
    <3>5. Watermark(walk[w]) \in Nat BY <3>4 DEF Watermark
    <3>6. checkpoint' = checkpoint \/ checkpoint' > checkpoint
      BY <2>3, <3>3 DEF Advance, Accepts, SetCheckpoint, storeVars
    <3>7. checkpoint' \in Nat BY <1>0, <2>3, <3>5 DEF Advance, SetCheckpoint, storeVars
    <3> QED BY <1>0, <3>2, <3>6, <3>7
  <2>4. CASE Create(w) \/ Update(w)
    BY <2>2, <2>4 DEF Create, CreateHelpper, Update, UpdateHelpper, storeVars
  <2> QED BY <1>2, <2>2, <2>3, <2>4, StoreUnmoved DEF Step, storeVars
<1> QED BY <1>1, <1>2 DEF Next

\* Without a second worker, which the sync lock keeps away, the checkpoint never
\* moves back.
THEOREM AloneNeverRegresses ==
    (\A v, w \in Workers : v = w) => (Spec => CheckpointNeverRegresses)
<1> SUFFICES ASSUME \A v, w \in Workers : v = w PROVE Spec => CheckpointNeverRegresses OBVIOUS
<1>1. Init => OwnInv BY DEF Init, OwnInv
<1>2. TypeOK /\ OwnInv /\ [Next]_vars => OwnInv' BY AloneStep
<1>3. TypeOK /\ OwnInv /\ [Next]_vars => [checkpoint' >= checkpoint]_vars BY AloneStep
<1> QED BY <1>1, <1>2, <1>3, TypeCorrect, PTL DEF Spec, CheckpointNeverRegresses

(****************************************************************************)
(* The worker process.                                                      *)
(****************************************************************************)

\* The process runs one cycle at a time.
LEMMA OneWorker == W \in Workers /\ Workers = {W}
<1>1. \E w : Workers = {w} BY DaemonAssumption, FS_Singleton
<1> QED BY <1>1 DEF W

\* The store of a new process.
Emptied ==
    /\ helppers' = NoHelppers
    /\ nextID' = FirstID
    /\ checkpoint' = 0
    /\ alerted' = {}

\* A step of the reconciler, which raises an alert where a 409 asks for one.
Works ==
    /\ [Next]_vars
    /\ alerted \subseteq alerted'
    /\ Refused /\ pc'[W] = "walk" => <<"conflict", cur[W]>> \in alerted'

\* A cycle that is cut short, or a process that ends.
Stops ==
    /\ UNCHANGED <<dirVars, faults>>
    /\ Return(W) \/ (pc[W] = "idle" /\ UNCHANGED localVars)
    /\ UNCHANGED <<storeVars, alerted>> \/ Emptied

\* To the reconciler every step of the process is one of its own, or stops it.
LEMMA DaemonShape ==
    ASSUME DaemonTypeOK, [DaemonNext]_allVars
    PROVE  Works \/ Stops
<1> USE OneWorker
<1>0. pc \in [Workers -> Places] BY DEF DaemonTypeOK, TypeOK, LocalTypeOK
<1>1. ASSUME UNCHANGED <<syncerVars, alerted>> PROVE Works
  <2>1. UNCHANGED vars /\ pc' = pc /\ alerted' = alerted
    BY <1>1 DEF syncerVars, dirVars, storeVars, localVars, vars
  <2> QED BY <2>1 DEF Works, Refused
<1>2. ASSUME NEW where, Gone(where), UNCHANGED <<dirVars, localVars, faults>>, pc[W] = "idle"
      PROVE  Stops
  BY <1>2 DEF Gone, Stops, Emptied
<1>3. ASSUME Step(W) \/ Abort(W) \/ LoseAnswer(W) \/ Timeout(W), alerted \subseteq alerted',
             Refused /\ pc'[W] = "walk" => <<"conflict", cur[W]>> \in alerted'
      PROVE  Works
  BY <1>3 DEF Works, Next
<1>4. CASE Boot \/ Signal \/ Restart \/ TickInc \/ TickFull
  BY <1>1, <1>4 DEF Boot, Signal, Restart, TickInc, TickFull
<1>5. CASE Preflight
  <2>1. pc[W] = "idle" BY <1>5 DEF Preflight, DaemonTypeOK
  <2>2. CASE Gone("exited") BY <1>2, <1>5, <2>1, <2>2 DEF Preflight
  <2>3. CASE ~Gone("exited") BY <1>1, <1>5, <2>3 DEF Preflight, syncerVars
  <2> QED BY <2>2, <2>3
<1>6. CASE Leave
  <2>1. pc[W] = "idle" BY <1>6 DEF Leave, DaemonTypeOK
  <2> QED BY <1>2, <1>6, <2>1 DEF Leave
<1>7. CASE Seed \/ SelectFull \/ SelectInc
  <2>1. PICK k \in {"inc", "full"} : Start(W, k) /\ alerted' = alerted
    BY <1>7 DEF Seed, SelectFull, SelectInc, Begin
  <2>2. Step(W) BY <2>1, DaemonAssumption DEF Step
  <2>3. ~Refused BY <2>1 DEF Start, Refused
  <2> QED BY <1>3, <2>1, <2>2, <2>3
<1>8. CASE Crash BY <1>8 DEF Crash, Gone, Stops, Emptied
<1>9. CASE Work
  <2>1. CASE Cancelled BY <2>1 DEF Cancelled, Stops
  <2>2. ASSUME NEW d \in Ids, Malformed(W, d), AlertOnce(<<"malformed", d>>) PROVE Works
    <3>1. Step(W) BY <2>2 DEF Step
    <3>2. ~Refused BY <2>2 DEF Malformed, Refused
    <3> QED BY <1>3, <2>2, <3>1, <3>2 DEF AlertOnce
  <2>3. ASSUME NEW d \in Ids, SkipInactive(W, d) \/ FindNew(W, d) \/ FindKnown(W, d),
               UNCHANGED alerted
        PROVE  Works
    <3>1. Step(W) BY <2>3 DEF Step
    <3>2. ~Refused BY <2>3 DEF SkipInactive, FindNew, FindKnown, Lookup, Refused
    <3> QED BY <1>3, <2>3, <3>1, <3>2
  <2>4. CASE (Create(W) \/ Update(W) \/ GiveUp(W) \/ ReportDrift(W) \/ FetchPage(W))
             /\ UNCHANGED alerted
    <3>1. Step(W) BY <2>4 DEF Step
    <3>2. ~Refused BY <2>4 DEF Create, Update, GiveUp, ReportDrift, FetchPage, Refused
    <3> QED BY <1>3, <2>4, <3>1, <3>2
  <2>5. CASE Refused /\ WriteBack(W) /\ AlertOnce(<<"conflict", cur[W]>>)
    <3>1. Step(W) BY <2>5 DEF Step
    <3> QED BY <1>3, <2>5, <3>1 DEF AlertOnce
  <2>6. CASE ~Refused /\ WriteBack(W) /\ UNCHANGED alerted
    <3>1. Step(W) BY <2>6 DEF Step
    <3> QED BY <1>3, <2>6, <3>1
  <2>7. CASE Advance(W) /\ (AlertOnce(<<"future", 0>>) \/ UNCHANGED alerted)
    <3>1. Step(W) BY <2>7 DEF Step
    <3>2. ~Refused BY <2>7 DEF Advance, Refused
    <3> QED BY <1>3, <2>7, <3>1, <3>2 DEF AlertOnce
  <2>8. CASE CycleStep
    <3>1. \/ \E d \in Ids : Malformed(W, d) /\ AlertOnce(<<"malformed", d>>)
          \/ /\ \E d \in Ids : SkipInactive(W, d) \/ FindNew(W, d) \/ FindKnown(W, d)
             /\ UNCHANGED alerted
          \/ <2>4!1
          \/ <2>5!1
          \/ <2>6!1
          \/ <2>7!1
      BY <2>8 DEF CycleStep
    <3> QED BY <2>2, <2>3, <2>4, <2>5, <2>6, <2>7, <3>1
  <2> QED BY <1>9, <2>1, <2>8 DEF Work
<1>10. CASE Trouble
  <2>1. Abort(W) \/ LoseAnswer(W) \/ Timeout(W) BY <1>10 DEF Trouble
  <2>2. alerted' = alerted BY <1>10 DEF Trouble
  <2>3. ~(Refused /\ pc'[W] = "walk")
    BY <1>0, <2>1 DEF Refused, Abort, LoseAnswer, Timeout, Return, localVars
  <2> QED BY <1>3, <2>1, <2>2, <2>3
<1>11. CASE Outside
  <2>1. (Environment \/ Tick) /\ alerted' = alerted BY <1>11 DEF Outside, daemonVars
  <2>2. pc' = pc BY <2>1 DEF Environment, Tick, localVars
  <2> QED BY <2>1, <2>2 DEF Works, Next, Refused
<1>12. CASE UNCHANGED allVars
  BY <1>1, <1>12 DEF allVars, syncerVars, dirVars, storeVars, localVars
<1> QED BY <1>4, <1>5, <1>6, <1>7, <1>8, <1>9, <1>10, <1>11, <1>12 DEF DaemonNext, Progress

\* A process that stops leaves everything well typed, and no cycle under way.
LEMMA StopsTypes ==
    ASSUME TypeOK, CurInv, Stops
    PROVE  TypeOK' /\ CurInv' /\ pc'[W] = "idle"
<1> USE OneWorker
<1>1. LocalTypeOK' /\ CurInv' /\ pc'[W] = "idle"
  <2>1. CASE Return(W)
    <3>1. pc'[W] = "idle" BY <2>1 DEF Return, TypeOK, LocalTypeOK
    <3> QED BY <2>1, <3>1, ReturnType DEF TypeOK
  <2>2. CASE pc[W] = "idle" /\ UNCHANGED localVars
    BY <2>2 DEF localVars, TypeOK, LocalTypeOK, CurInv
  <2> QED BY <2>1, <2>2 DEF Stops
<1>2. StoreTypeOK'
  <2>1. CASE UNCHANGED storeVars BY <2>1 DEF storeVars, TypeOK, StoreTypeOK
  <2>2. CASE Emptied
    BY <2>2, ProfilesAssumption, FirstIDAssumption DEF Emptied, NoHelppers, StoreTypeOK, Helpper
  <2> QED BY <2>1, <2>2 DEF Stops
<1>3. DirTypeOK' /\ faults' \in Nat BY DEF Stops, dirVars, TypeOK, DirTypeOK
<1> QED BY <1>1, <1>2, <1>3 DEF TypeOK

\* Every step keeps what the process knows of itself.
LEMMA ModeStep ==
    ASSUME DaemonTypeOK, CurInv, [DaemonNext]_allVars
    PROVE  /\ flags' = flags
           /\ mode' \in Alive \cup {"down", "exited"}
           /\ stopping' \in BOOLEAN /\ incTick' \in BOOLEAN /\ fullTick' \in BOOLEAN
           /\ ready' \in BOOLEAN
           /\ alerted' \subseteq Keys
           /\ restarts' \in 0 .. MaxRestarts
           /\ mode' = "cycle" <=> pc'[W] # "idle"
<1> USE OneWorker DEF DaemonTypeOK
<1> DEFINE Goal == /\ flags' = flags
                   /\ mode' \in Alive \cup {"down", "exited"}
                   /\ stopping' \in BOOLEAN /\ incTick' \in BOOLEAN /\ fullTick' \in BOOLEAN
                   /\ ready' \in BOOLEAN
                   /\ alerted' \subseteq Keys
                   /\ restarts' \in 0 .. MaxRestarts
                   /\ mode' = "cycle" <=> pc'[W] # "idle"
<1>0. pc \in [Workers -> Places] /\ MaxRestarts \in Nat
  BY DaemonAssumption DEF TypeOK, LocalTypeOK
<1>1. CASE Boot \/ Signal \/ TickInc \/ TickFull
  <2>1. pc' = pc BY <1>1 DEF Boot, Signal, TickInc, TickFull, syncerVars, localVars
  <2> QED BY <1>1, <2>1 DEF Boot, Signal, TickInc, TickFull, Alive, Ticking
<1>2. CASE Restart
  <2>1. pc' = pc BY <1>2 DEF Restart, syncerVars, localVars
  <2>2. restarts' \in 0 .. MaxRestarts BY <1>0, <1>2 DEF Restart
  <2> QED BY <1>2, <2>1, <2>2 DEF Restart, Alive
<1>3. CASE Preflight \/ Leave
  <2>1. pc' = pc /\ mode # "cycle" /\ restarts' = restarts /\ flags' = flags
    BY <1>3 DEF Preflight, Leave, localVars
  <2>2. CASE Gone("exited") BY <2>1, <2>2 DEF Gone, Alive
  <2>3. CASE ~Gone("exited") BY <1>3, <2>1, <2>3 DEF Preflight, Leave, Alive
  <2> QED BY <2>2, <2>3
<1>4. CASE Seed \/ SelectFull \/ SelectInc
  <2>1. /\ pc'[W] = "walk" /\ mode' = "cycle"
        /\ UNCHANGED <<flags, stopping, ready, alerted, restarts>>
    BY <1>0, <1>4 DEF Seed, SelectFull, SelectInc, Begin, Start
  <2>2. incTick' \in BOOLEAN /\ fullTick' \in BOOLEAN
    BY <1>4 DEF Seed, SelectFull, SelectInc
  <2> QED BY <2>1, <2>2 DEF Alive
<1>5. CASE Crash
  <2>1. pc'[W] = "idle" BY <1>0, <1>5 DEF Crash, Return
  <2>2. restarts' \in 0 .. MaxRestarts BY <1>0, <1>5 DEF Crash
  <2> QED BY <1>5, <2>1, <2>2 DEF Crash, Gone, Alive
<1>6. ASSUME mode = "cycle", Recorded,
             UNCHANGED <<flags, stopping, incTick, fullTick, restarts>>, alerted' \subseteq Keys
      PROVE  Goal
  BY <1>6 DEF Recorded, Alive
<1>7. CASE Work
  <2>1. /\ mode = "cycle" /\ Recorded /\ (CycleStep \/ Cancelled)
        /\ UNCHANGED <<flags, stopping, incTick, fullTick, restarts>>
    BY <1>7 DEF Work
  <2>2. ASSUME NEW key \in Keys, AlertOnce(key) PROVE alerted' \subseteq Keys
    BY <2>2 DEF AlertOnce
  <2>3. Refused => <<"conflict", cur[W]>> \in Keys
    <3> SUFFICES ASSUME Refused PROVE <<"conflict", cur[W]>> \in Keys OBVIOUS
    <3>1. cur[W] \in Ids BY DEF Refused, CurInv
    <3> QED BY <3>1 DEF Keys
  <2>4. \A d \in Ids : <<"malformed", d>> \in Keys BY DEF Keys
  <2>5. <<"future", 0>> \in Keys BY DEF Keys
  <2>6. \/ alerted' = alerted
        \/ \E d \in Ids : AlertOnce(<<"malformed", d>>)
        \/ Refused /\ AlertOnce(<<"conflict", cur[W]>>)
        \/ AlertOnce(<<"future", 0>>)
    BY <2>1 DEF CycleStep, Cancelled
  <2>7. alerted' \subseteq Keys BY <2>2, <2>3, <2>4, <2>5, <2>6
  <2> QED BY <1>6, <2>1, <2>7
<1>8. CASE Trouble BY <1>6, <1>8 DEF Trouble
<1>9. CASE Outside \/ UNCHANGED allVars
  <2>1. pc' = pc /\ UNCHANGED daemonVars
    BY <1>9 DEF Outside, Environment, Tick, localVars, allVars, daemonVars
  <2> QED BY <2>1 DEF daemonVars
<1> HIDE DEF Goal
<1>10. Goal
  BY <1>1, <1>2, <1>3, <1>4, <1>5, <1>7, <1>8, <1>9 DEF DaemonNext, Progress, Goal
<1> QED BY <1>10 DEF Goal

\* The process starts well typed and stays so.
LEMMA DaemonTypeInit == DaemonInit => DaemonTypeOK /\ CurInv
<1> SUFFICES ASSUME DaemonInit PROVE DaemonTypeOK /\ CurInv OBVIOUS
<1>1. TypeOK /\ CurInv BY TypeInit DEF DaemonInit
<1>2. pc[W] = "idle" BY OneWorker DEF DaemonInit, Init
<1>3. /\ mode = "down" /\ stopping = FALSE /\ incTick = FALSE /\ fullTick = FALSE
      /\ ready = FALSE /\ alerted = {} /\ restarts = 0
      /\ flags \in [once: BOOLEAN, allowMemory: BOOLEAN]
  BY DEF DaemonInit
<1>4. restarts \in 0 .. MaxRestarts BY <1>3, DaemonAssumption
<1> QED BY <1>1, <1>2, <1>3, <1>4 DEF DaemonTypeOK

\* Every step keeps the types.
LEMMA DaemonTypeStep ==
    ASSUME DaemonTypeOK, CurInv, [DaemonNext]_allVars
    PROVE  DaemonTypeOK' /\ CurInv'
<1>1. TypeOK BY DEF DaemonTypeOK
<1>2. Works \/ Stops BY DaemonShape
<1>3. TypeOK' /\ CurInv' BY <1>1, <1>2, TypeStep, StopsTypes DEF Works
<1>4. flags' \in [once: BOOLEAN, allowMemory: BOOLEAN] BY ModeStep DEF DaemonTypeOK
<1> QED BY <1>3, <1>4, ModeStep DEF DaemonTypeOK

\* The process's variables keep their types, and a cycle is under way exactly when
\* run() waits for one, however often the process dies and starts again.
THEOREM DaemonTypes == DaemonSpec => []DaemonTypeOK
<1>1. DaemonTypeOK /\ CurInv /\ [DaemonNext]_allVars => (DaemonTypeOK /\ CurInv)'
  BY DaemonTypeStep
<1> QED BY DaemonTypeInit, <1>1, PTL DEF DaemonSpec

\* Without -allow-ephemeral-store a process that is to write never gets past the
\* check of its store, and a dry run never comes to a place where it would write.
GuardInv ==
    ~flags.allowMemory => IF DryRun THEN DryInv ELSE mode \in {"down", "exited"}

\* Every step keeps it.
LEMMA GuardStep ==
    ASSUME DaemonTypeOK, CurInv, GuardInv, [DaemonNext]_allVars
    PROVE  /\ GuardInv'
           /\ ~flags.allowMemory =>
                \A d \in Ids : users'[d].externalId \in {0, users[d].externalId}
<1> SUFFICES ASSUME ~flags.allowMemory
             PROVE  /\ IF DryRun THEN DryInv' ELSE mode' \in {"down", "exited"}
                    /\ \A d \in Ids : users'[d].externalId \in {0, users[d].externalId}
  <2>1. flags' = flags BY ModeStep
  <2> QED BY <2>1 DEF GuardInv
<1>1. TypeOK BY DEF DaemonTypeOK
<1>2. Works \/ Stops BY DaemonShape
<1>3. CASE DryRun
  <2>1. DryInv BY <1>3 DEF GuardInv
  <2>2. CASE Works BY <1>1, <1>3, <2>1, <2>2, DryStep, DryWrites DEF Works
  <2>3. CASE Stops
    <3>1. pc'[W] = "idle" BY <1>1, <2>3, StopsTypes
    <3>2. DryInv' BY <3>1, OneWorker DEF DryInv
    <3>3. users' = users BY <2>3 DEF Stops, dirVars
    <3> QED BY <1>3, <3>2, <3>3
  <2> QED BY <1>2, <2>2, <2>3
<1>4. CASE ~DryRun
  <2>1. mode \in {"down", "exited"} BY <1>4 DEF GuardInv
  <2>2. Boot \/ Restart \/ Outside \/ UNCHANGED allVars
    BY <2>1 DEF DaemonNext, Progress, Preflight, Seed, SelectFull, SelectInc, Leave, Work,
                TickInc, TickFull, Ticking, Signal, Crash, Trouble, Alive
  <2>3. mode' \in {"down", "exited"}
    BY <1>4, <2>1, <2>2 DEF Boot, Refuses, Restart, Outside, daemonVars, allVars
  <2>4. CASE Outside
    <3>1. CASE Environment
      BY <1>1, <1>4, <2>3, <3>1, ChangeBindsNothing DEF Environment, DirNext, TypeOK
    <3>2. CASE Tick BY <1>4, <2>3, <3>2 DEF Tick
    <3> QED BY <2>4, <3>1, <3>2 DEF Outside
  <2>5. CASE ~Outside
    <3>1. users' = users BY <2>2, <2>5 DEF Boot, Restart, syncerVars, dirVars, allVars
    <3> QED BY <1>4, <2>3, <3>1
  <2> QED BY <2>4, <2>5
<1> QED BY <1>3, <1>4

\* run()'s guard: without -allow-ephemeral-store no externalId the directory holds
\* is replaced, on whatever path processes start, die and start again.
THEOREM GuardKeepsRealIds == DaemonSpec => RealIdsSurvive
<1>1. DaemonInit => DaemonTypeOK /\ CurInv /\ GuardInv
  <2>1. DaemonInit => GuardInv BY DEF DaemonInit, Init, GuardInv, DryInv
  <2> QED BY <2>1, DaemonTypeInit
<1>2. DaemonTypeOK /\ CurInv /\ GuardInv /\ [DaemonNext]_allVars
      => (DaemonTypeOK /\ CurInv /\ GuardInv)'
  BY DaemonTypeStep, GuardStep
<1>3. DaemonTypeOK /\ CurInv /\ GuardInv /\ [DaemonNext]_allVars
      => [~flags.allowMemory =>
            \A d \in Ids : users'[d].externalId \in {0, users[d].externalId}]_allVars
  BY GuardStep
<1> QED BY <1>1, <1>2, <1>3, PTL DEF DaemonSpec, RealIdsSurvive

\* A dry run's store is the one it was made with.
DryProcessInv ==
    DryRun => DryInv /\ helppers = NoHelppers /\ nextID = FirstID /\ checkpoint = 0

\* Every step keeps it, and writes nothing.
LEMMA DryProcessStep ==
    ASSUME DryRun, DaemonTypeOK, CurInv, DryProcessInv, [DaemonNext]_allVars
    PROVE  /\ DryProcessInv'
           /\ UNCHANGED storeVars
           /\ \A d \in Ids : users'[d].externalId \in {0, users[d].externalId}
<1> USE OneWorker DEF DryProcessInv
<1>1. TypeOK BY DEF DaemonTypeOK
<1>2. Works \/ Stops BY DaemonShape
<1>3. CASE Works
  <2>1. DryInv' BY <1>1, <1>3, DryStep DEF Works
  <2>2. /\ UNCHANGED storeVars
        /\ \A d \in Ids : users'[d].externalId \in {0, users[d].externalId}
    BY <1>1, <1>3, DryWrites DEF Works
  <2>3. NoHelppers' = NoHelppers BY DEF NoHelppers
  <2> QED BY <2>1, <2>2, <2>3 DEF storeVars
<1>4. CASE Stops
  <2>1. pc'[W] = "idle" BY <1>1, <1>4, StopsTypes
  <2>2. DryInv' BY <2>1 DEF DryInv
  <2>3. users' = users BY <1>4 DEF Stops, dirVars
  <2>4. UNCHANGED storeVars BY <1>4 DEF Stops, Emptied, storeVars
  <2>5. NoHelppers' = NoHelppers BY DEF NoHelppers
  <2> QED BY <2>2, <2>3, <2>4, <2>5 DEF storeVars
<1> QED BY <1>2, <1>3, <1>4

\* The -dry-run of the command, through signals, crashes and restarts: neither the
\* base nor the directory is written, and the checkpoint stays unset.
THEOREM DryProcessWritesNothing == DaemonSpec => DryRunWritesNothing
<1>1. DaemonInit => DaemonTypeOK /\ CurInv /\ DryProcessInv
  <2>1. DaemonInit => DryProcessInv
    BY DEF DaemonInit, Init, StoreInit, DryProcessInv, DryInv
  <2> QED BY <2>1, DaemonTypeInit
<1>2. DaemonTypeOK /\ CurInv /\ DryProcessInv /\ [DaemonNext]_allVars
      => (DaemonTypeOK /\ CurInv /\ DryProcessInv)'
  <2>1. DryProcessInv' \/ DryRun BY DEF DryProcessInv
  <2> QED BY <2>1, DaemonTypeStep, DryProcessStep
<1>3. DaemonTypeOK /\ CurInv /\ DryProcessInv /\ [DaemonNext]_allVars
      => [DryRun => /\ UNCHANGED storeVars
                    /\ \A d \in Ids : users'[d].externalId \in {0, users[d].externalId}]_vars
  BY DryProcessStep
<1> QED BY <1>1, <1>2, <1>3, PTL DEF DaemonSpec, DryRunWritesNothing

\* A record that joins the excused ones changes nothing for the others.
LEMMA ExcuseMore ==
    ASSUME NEW X, NEW Y, X \subseteq Y, Y \subseteq Ids, TrackInv(X), TrackInv(Ids)
    PROVE  TrackInv(Y)
<1> USE DEF TrackInv
<1>1. NothingLost(Y)
  <2>1. \A d : Settled(X, d) => Settled(Y, d) BY DEF Settled, Tied
  <2> QED BY <2>1 DEF NothingLost
<1>2. ASSUME NEW w \in Workers, Busy(w) PROVE Current(w) /\ Tracks(Y, w)
  <2>1. Current(w) /\ Tracks(X, w) /\ Tracks(Ids, w) BY <1>2 DEF CycleInv
  <2>2. ASSUME NEW d \in Ids, Dated(d) PROVE Done(Y, w, d) \/ Ahead(w, d) \/ Owed(Y, w, d)
    <3>1. CASE d \in Y
      <4>1. Done(Ids, w, d) \/ Ahead(w, d) \/ Owed(Ids, w, d) BY <2>1, <2>2 DEF Tracks
      <4>2. Done(Ids, w, d) => Done(Y, w, d) BY <3>1 DEF Done, Settled, Tied
      <4>3. Owed(Ids, w, d) => Owed(Y, w, d) BY DEF Owed
      <4> QED BY <4>1, <4>2, <4>3
    <3>2. CASE d \notin Y
      <4>1. Done(X, w, d) \/ Ahead(w, d) \/ Owed(X, w, d) BY <2>1, <2>2 DEF Tracks
      <4>2. Done(X, w, d) => Done(Y, w, d) BY DEF Done, Settled, Tied
      <4>3. Owed(X, w, d) => Owed(Y, w, d) BY <3>2 DEF Owed
      <4> QED BY <4>1, <4>2, <4>3
    <3> QED BY <3>1, <3>2
  <2> QED BY <2>1, <2>2 DEF Tracks
<1> QED BY <1>1, <1>2 DEF CycleInv

\* A process that stops has no cycle left to track; a new one reads everything.
LEMMA StopsOnTrack ==
    ASSUME NEW X, TrackInv(X), Stops
    PROVE  /\ UNCHANGED <<storeVars, alerted>> => TrackInv(X)'
           /\ Emptied => \A Y : TrackInv(Y)'
<1> USE OneWorker DEF TrackInv
<1>1. TypeOK' /\ CurInv' /\ pc'[W] = "idle" BY StopsTypes
<1>2. \A w \in Workers : pc'[w] = "idle" BY <1>1
<1>3. /\ walk'[W] = NewWalk /\ todo'[W] = {} /\ cur'[W] = 0
      /\ snap'[W] = snap[W] \/ snap'[W] = NoSnap
  <2>1. CASE Return(W) BY <2>1, ReturnEnds DEF Ends
  <2>2. CASE pc[W] = "idle" /\ UNCHANGED localVars BY <2>2 DEF IdleInv, localVars
  <2> QED BY <2>1, <2>2 DEF Stops
<1>4. IdleInv' BY <1>3 DEF IdleInv
<1>5. TimeInv' /\ HandInv' BY <1>2 DEF TimeInv, HandInv, Busy
<1>6. \A Y : CycleInv(Y)' BY <1>2 DEF CycleInv, Busy
<1>7. users' = users /\ clock' = clock BY DEF Stops, dirVars
<1>8. StampInv'
  <2>1. clock \in Nat /\ MaxLead \in Nat BY TimeAssumption DEF TypeOK, DirTypeOK
  <2>2. checkpoint' = 0 \/ checkpoint' = checkpoint BY DEF Stops, Emptied, storeVars
  <2>3. walk'[W].high <= clock + MaxLead BY <1>3, <2>1 DEF NewWalk
  <2>4. \A d \in Ids : snap'[W][d].lastModified <= clock + MaxLead
    <3>1. CASE snap'[W] = snap[W] BY <3>1 DEF StampInv
    <3>2. CASE snap'[W] = NoSnap BY <2>1, <3>2 DEF NoSnap, Blank
    <3> QED BY <1>3, <3>1, <3>2
  <2> QED BY <1>2, <1>7, <2>2, <2>3, <2>4 DEF StampInv, Busy
<1>9. ASSUME UNCHANGED <<storeVars, alerted>> PROVE TrackInv(X)'
  <2>1. MintInv' BY <1>9 DEF MintInv, storeVars
  <2>2. NothingLost(X)'
    BY <1>7, <1>9 DEF NothingLost, Dated, Settled, Usable, Agrees, Tied, NotFound, InSync,
                      Active, Pending, storeVars
  <2> QED BY <1>1, <1>4, <1>5, <1>6, <1>8, <2>1, <2>2
<1>10. ASSUME Emptied PROVE \A Y : TrackInv(Y)'
  <2>1. MintInv'
    <3>1. \A d \in Ids : helppers'[d].id = 0 BY <1>10 DEF Emptied, NoHelppers
    <3>2. nextID' \in Nat BY <1>1 DEF StoreTypeOK, TypeOK
    <3> QED BY <3>1, <3>2 DEF MintInv
  <2>2. \A Y : NothingLost(Y)' BY <1>10 DEF NothingLost, Pending, Emptied
  <2> QED BY <1>1, <1>4, <1>5, <1>6, <1>8, <2>1, <2>2
<1> QED BY <1>9, <1>10

\* The cycles of the process are on track, but for the records it has raised a
\* 409 alert for, and those it only fails to bind.
ReportInv ==
    /\ TrackInv(Ids)
    /\ \E X \in SUBSET Ids : (\A d \in X : <<"conflict", d>> \in alerted) /\ TrackInv(X)

\* Every step keeps it: a refusal is excused from the moment of its alert.
LEMMA ReportStep ==
    ASSUME OverlapCovers, ReportInv, Works \/ Stops
    PROVE  ReportInv'
<1> USE OneWorker
<1>0. TrackInv(Ids) BY DEF ReportInv
<1>1. PICK X \in SUBSET Ids : (\A d \in X : <<"conflict", d>> \in alerted) /\ TrackInv(X)
  BY DEF ReportInv
<1>2. CASE Works
  <2>1. [Next]_vars /\ alerted \subseteq alerted' BY <1>2 DEF Works
  <2>2. Refusals(Ids) BY <1>0 DEF Refusals, WriteBack, TrackInv, CurInv
  <2>3. TrackInv(Ids)' BY <1>0, <2>1, <2>2, TrackStep
  <2>4. CASE Refusals(X)
    <3>1. TrackInv(X)' BY <1>1, <2>1, <2>4, TrackStep
    <3>2. \A d \in X : <<"conflict", d>> \in alerted' BY <1>1, <2>1
    <3> QED BY <2>3, <3>1, <3>2 DEF ReportInv
  <2>5. CASE ~Refusals(X)
    <3>1. WriteBack(W) /\ users[cur[W]].present /\ Conflicts(cur[W], hand[W])
      BY <2>5 DEF Refusals
    <3>2. PICK c \in Ids : c = cur[W] BY <1>0, <3>1 DEF WriteBack, TrackInv, CurInv
    <3>3. Refused BY <3>1 DEF Refused, WriteBack
    <3>4. pc'[W] = "walk"
      BY <1>0, <3>1 DEF WriteBack, Settle, TrackInv, TypeOK, LocalTypeOK
    <3>5. <<"conflict", c>> \in alerted' BY <1>2, <3>2, <3>3, <3>4 DEF Works
    <3>6. PICK Y \in SUBSET Ids : Y = X \cup {c} BY <1>1, <3>2
    <3>7. TrackInv(Y) BY <1>0, <1>1, <3>6, ExcuseMore
    <3>8. Refusals(Y) BY <3>2, <3>6 DEF Refusals
    <3>9. TrackInv(Y)' BY <2>1, <3>7, <3>8, TrackStep
    <3>10. \A d \in Y : <<"conflict", d>> \in alerted' BY <1>1, <2>1, <3>5, <3>6
    <3> QED BY <2>3, <3>9, <3>10 DEF ReportInv
  <2> QED BY <2>4, <2>5
<1>3. CASE Stops
  <2>1. CASE UNCHANGED <<storeVars, alerted>>
    <3>1. TrackInv(Ids)' BY <1>0, <1>3, <2>1, StopsOnTrack
    <3>2. TrackInv(X)' BY <1>1, <1>3, <2>1, StopsOnTrack
    <3>3. \A d \in X : <<"conflict", d>> \in alerted' BY <1>1, <2>1
    <3> QED BY <3>1, <3>2, <3>3 DEF ReportInv
  <2>2. CASE Emptied
    <3>1. \A Y : TrackInv(Y)' BY <1>0, <1>3, <2>2, StopsOnTrack
    <3>2. TrackInv(Ids)' /\ TrackInv({})' BY <3>1
    <3>3. {} \in SUBSET Ids /\ \A d \in {} : <<"conflict", d>> \in alerted' OBVIOUS
    <3> QED BY <3>2, <3>3 DEF ReportInv
  <2> QED BY <1>3, <2>1, <2>2 DEF Stops
<1> QED BY <1>2, <1>3

\* A process that has read nothing yet has lost nothing.
LEMMA ReportInit == DaemonInit => ReportInv
<1> SUFFICES ASSUME DaemonInit PROVE ReportInv OBVIOUS
<1>1. Init BY DEF DaemonInit
<1>2. IInv BY <1>1, InvariantInit
<1>3. \A X : CycleInv(X) BY <1>1 DEF Init, CycleInv, Busy
<1>4. \A X : NothingLost(X) BY <1>1 DEF Init, StoreInit, NothingLost, Pending
<1>5. \A X : TrackInv(X) BY <1>2, <1>3, <1>4 DEF IInv, TrackInv
<1>6. TrackInv(Ids) /\ TrackInv({}) BY <1>5
<1>7. {} \in SUBSET Ids /\ \A d \in {} : <<"conflict", d>> \in alerted OBVIOUS
<1> QED BY <1>6, <1>7 DEF ReportInv

\* The invariant of the process.
LEMMA ReportHolds ==
    OverlapCovers => (DaemonSpec => []ReportInv)
<1> SUFFICES ASSUME OverlapCovers PROVE DaemonSpec => []ReportInv OBVIOUS
<1>1. DaemonInit => DaemonTypeOK /\ CurInv /\ ReportInv BY DaemonTypeInit, ReportInit
<1>2. DaemonTypeOK /\ CurInv /\ ReportInv /\ [DaemonNext]_allVars
      => (DaemonTypeOK /\ CurInv /\ ReportInv)'
  BY DaemonTypeStep, DaemonShape, ReportStep
<1> QED BY <1>1, <1>2, PTL DEF DaemonSpec

\* OPERATIONS.md's "a restart tells you whether it is still there": a wrong binding
\* that the next incremental cycle does not read is one this process has alerted on,
\* whatever ids the processes before it left in the directory.
THEOREM WrongBindingsAreKnown == OverlapCovers => (DaemonSpec => []WrongBindingIsKnown)
<1> SUFFICES ASSUME OverlapCovers PROVE DaemonSpec => []WrongBindingIsKnown OBVIOUS
<1>1. ReportInv => WrongBindingIsKnown
  BY DEF ReportInv, TrackInv, NothingLost, Settled, Tied, WrongBindingIsKnown
<1> QED BY ReportHolds, <1>1, PTL

\* Losing its memory does not make the process lose an update: a new one starts
\* without a checkpoint, so it reads every record again.
THEOREM RestartsLoseNothing ==
    OverlapCovers => (DaemonSpec => [](NoLostUpdate /\ RepairNotMissed))
<1> SUFFICES ASSUME OverlapCovers PROVE DaemonSpec => [](NoLostUpdate /\ RepairNotMissed) OBVIOUS
<1>1. ReportInv => NoLostUpdate /\ RepairNotMissed
  BY DEF ReportInv, TrackInv, NothingLost, Settled, NoLostUpdate, RepairNotMissed
<1> QED BY ReportHolds, <1>1, PTL
================================================================================
