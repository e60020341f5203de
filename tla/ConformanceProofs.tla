--------------------------- MODULE ConformanceProofs ---------------------------
(****************************************************************************)
(* What a report of the conformance suite is worth, for a directory of any  *)
(* size and any page size: one unusable directory is one failure, the suite *)
(* leaves the directory as it found it, no case fails for the sake of       *)
(* another, and no defect but two goes unnoticed.                           *)
(****************************************************************************)
EXTENDS Conformance, DirectoryProofs

\* The report is filled in order, one entry when its case is over.
Order == \A c \in Cases : verdicts[c] = "none" <=> c >= at

\* An unusable directory stops the suite after the first case.
Stopped ==
    /\ verdicts[1] = "FAIL" => blocked
    /\ blocked => /\ at > 1 /\ step = 1
                  /\ \A c \in Cases \ {1} : verdicts[c] \in {"none", "SKIP"}

\* What writeTarget read: it is still so when the case writes, unless others
\* touched the record in between.
Holds ==
    /\ held.id \in Ids
    /\ ~Has("noSingleRead")
    /\ ~Has("wrongRecord") => held.id = opts.writeID
    /\ at = 12 => Value(held) # 0
    /\ at = 13 => held.externalId # 0
    /\ at = 14 => held.active \in said[held.id]
    /\ held.id \notin touched
       => /\ users[held.id].present
          /\ held.externalId = users[held.id].externalId
          /\ at = 14 => held.active = users[held.id].active

\* The cases of more than one request.
Requests ==
    step # 1 => \/ at = 8 /\ step = 2
                \/ /\ at \in 12 .. 14 /\ step = IF at = 13 THEN step ELSE 2
                   /\ opts.writeID # 0
                   /\ Holds

\* No record says of a person what the directory never said.
Spoken == \A d \in Ids : users[d].active \in said[d] \cup {"nil"}

SuiteInv == ConformanceTypeOK /\ Order /\ Stopped /\ Requests /\ Spoken /\ clock = 1

\* No record carries a value but the reserved one ...
Unbound ==
    \A d \in Ids : users[d].externalId \in IF d = Reserved THEN {0, Reserved} ELSE {0}

\* ... and none was changed, in a directory as the suite finds it ...
Untouched == Unbound /\ \A d \in Ids : users[d].lastModified = 1

\* ... and as it goes on being, whatever the suite writes.
Kept ==
    /\ \A d \in Ids : users[d].active # "nil"
    /\ \A d, e \in Ids : /\ users[d].present /\ users[e].present
                         /\ users[d].externalId = users[e].externalId
                         /\ users[d].externalId # 0
                         => d = e

\* The first page is still what the directory would answer.
PageKept ==
    page = [records  |-> Page(Everything, 1),
            ids      |-> {ServedID(d) : d \in Page(Everything, 1)},
            sample   |-> IF Page(Everything, 1) = {} THEN 0
                         ELSE ServedID(First(Page(Everything, 1))),
            noActive |-> IF Has("noActive") THEN Page(Everything, 1) ELSE {},
            noStamp  |-> IF Has("noStamp") THEN Page(Everything, 1) ELSE {},
            total    |-> TotalResults(Everything),
            newest   |-> IF Page(Everything, 1) = {} \/ Has("noStamp") THEN 0
                         ELSE IF Has("future") THEN 3 ELSE 1]

\* The first half of P1.08 went well.
Narrowed ==
    /\ page.newest # 0
    /\ ~Has("refusesFilter")
    /\ Has("ignoresFilter") => page.total = 0

QuietInv ==
    Quiet => /\ Kept
             /\ at <= 12 => Untouched
             /\ at > 1 /\ ~blocked => PageKept
             /\ at = 8 /\ step = 2 => Narrowed

\* What others publish is well formed: it has an active flag, and a stamp that is
\* at most an hour ahead.
WellFormed == "nil" \notin Statuses /\ ~Unstamped /\ MaxLead <= 1

\* Then every stamp is one P1.06 accepts ...
Dated == \A d \in Ids : users[d].lastModified \in 1 .. 2

\* ... and whatever is wrong with the first page is the server's defect.
PageSound ==
    /\ page.total < Cardinality(page.records) => Has("noTotal")
    /\ 0 \in page.ids \/ Cardinality(page.ids) < Cardinality(page.records)
       => Has("repeatsID") \/ Has("emptyID")
    /\ page.noActive # {} => Has("noActive")
    /\ page.noStamp # {} => Has("noStamp")
    /\ page.newest > 2 => Has("future")
    /\ page.sample \notin touched \cup {0} => users[page.sample].present

SoundInv ==
    /\ Kept
    /\ Dated
    /\ at <= 12 => Unbound
    /\ at > 1 /\ ~blocked => PageSound

\* What a PASS of c rules out: what it notices, but P1.03 finds an id repeated
\* only on a page of two records or more, and P1.11 skips what it cannot read.
RuledOut(c) ==
    IF c = 3 THEN {"emptyID"} ELSE Causes[c] \cup IF c = 11 THEN {"noConfig"} ELSE {}

Noticed ==
    \A c \in Cases :
       verdicts[c] = "PASS" /\ Quiet /\ page.total > PageSize /\ ~Has("caps")
       => defects \cap RuledOut(c) = {}

(****************************************************************************)
(* The cases and the runner.                                                *)
(****************************************************************************)

\* The cases and what each looks for.
LEMMA CausesAre ==
    /\ Len(Causes) = 14 /\ Cases = 1 .. 14
    /\ Causes[1] = {"unreachable", "rejects", "undecodable"}
    /\ Causes[2] = {"noTotal", "zeroBased"}
    /\ Causes[3] = {"repeatsID", "emptyID"}
    /\ Causes[4] = {"noActive"}
    /\ Causes[5] = {"mailbox"}
    /\ Causes[6] = {"noStamp", "future"}
    /\ Causes[7] = {"ignoresStart", "ignoresCount", "repeatsID", "emptyID"}
    /\ Causes[8] = {"ignoresFilter", "refusesFilter", "emptyFilter"}
    /\ Causes[9] = {"noSingleRead", "wrongRecord", "noActive"}
    /\ Causes[10] = {"unknownFound", "unknown400"}
    /\ Causes[11] = {"noFilterSupport", "noPatchSupport"}
    /\ Causes[12] = {"refusesPatch", "misanswers", "noSingleRead"}
    /\ Causes[13] = {"refusesPatch", "misanswers"}
    /\ Causes[14] = {"acceptsActive", "oddRefusal"}
BY DEF Causes, Cases

\* The options that can be given.
LEMMA OptionTypes ==
    ASSUME ConformanceTypeOK
    PROVE  /\ opts.writeID \in {0, Reserved} /\ opts.probe \in {0, Probe}
           /\ Reserved \in Ids /\ Reserved \in Nat \ {0} /\ Probe \in Nat
BY ConformanceAssumption, IdsAssumption DEF ConformanceTypeOK, Options

\* A list of the directory is finite, and so is a page of it.
LEMMA ServedLists ==
    ASSUME NEW start
    PROVE  /\ Everything \in SUBSET Ids /\ Cardinality(Everything) \in Nat
           /\ Page(Everything, start) \subseteq Everything
           /\ IsFiniteSet(Everything) /\ IsFiniteSet(Page(Everything, start))
           /\ TotalResults(Everything) \in Nat
<1>1. Everything \in SUBSET Ids BY DEF Everything, Matched
<1>2. Page(Everything, start) \subseteq Everything BY DEF Page, PageOf
<1>3. IsFiniteSet(Everything) /\ IsFiniteSet(Page(Everything, start))
  BY <1>1, <1>2, ListOfIds, FS_Subset
<1>4. Cardinality(Everything) \in Nat BY <1>3, FS_CardinalityType
<1> QED BY <1>1, <1>2, <1>3, <1>4 DEF TotalResults

\* The first record of a list is one of it.
LEMMA FirstIn ==
    ASSUME NEW S \in SUBSET Ids, S # {}
    PROVE  First(S) \in S /\ \A e \in S : First(S) <= e
<1>1. \E d \in S : \A e \in S : d <= e BY ListOfIds, FirstExists
<1> QED BY <1>1 DEF First

\* The id a list gives a record is one of the directory's, or none.
LEMMA ServedIDType ==
    ASSUME NEW d \in Everything
    PROVE  /\ d \in Ids /\ users[d].present
           /\ ServedID(d) \in Ids \cup {0}
           /\ ServedID(d) # 0 => users[ServedID(d)].present
           /\ ~Has("emptyID") /\ ~Has("repeatsID") => ServedID(d) = d
<1>1. Everything \in SUBSET Ids /\ \A e \in Everything : users[e].present
  BY DEF Everything, Matched
<1>2. First(Everything) \in Everything BY <1>1, FirstIn
<1> QED BY <1>1, <1>2 DEF ServedID

\* The newest stamp of the first page is a stamp.
LEMMA NewestType ==
    ASSUME ConformanceTypeOK, NEW S \in SUBSET Ids
    PROVE  LET T == {0} \cup {ServedStamp(d) : d \in S} IN
           Max(T) \in T /\ T \subseteq Nat /\ \A t \in T : Max(T) >= t
<1> DEFINE f == [d \in S |-> ServedStamp(d)]
           R == {ServedStamp(d) : d \in S}
           T == {0} \cup R
<1>1. \A d \in S : ServedStamp(d) \in Nat
  BY DEF ServedStamp, ConformanceTypeOK, DirTypeOK, User
<1>2. IsFiniteSet(S) BY ListOfIds
<1>3. f \in Surjection(S, R) BY DEF Surjection
<1>4. IsFiniteSet(R)
  <2> HIDE DEF f, R
  <2> QED BY <1>2, <1>3, FS_Surjection
<1>5. IsFiniteSet(T) BY <1>4, FS_AddElement
<1>6. T \in SUBSET Nat /\ T # {} BY <1>1
<1> HIDE DEF T
<1>7. \E m \in T : \A t \in T : m >= t BY <1>5, <1>6, LastExists
<1>8. Max(T) \in T /\ \A t \in T : Max(T) >= t BY <1>7 DEF Max
<1> QED BY <1>6, <1>8 DEF T

\* The case that runs decides what a step of the suite is.
LEMMA WhichCase ==
    ASSUME SuiteInv, Check
    PROVE  \/ BlockedSkip /\ blocked
           \/ /\ ~blocked
              /\ \/ at = 1 /\ CheckCredential
                 \/ at = 2 /\ CheckEnvelope
                 \/ at = 3 /\ CheckStableIDs
                 \/ at = 4 /\ CheckActiveFlag
                 \/ at = 5 /\ CheckAlias
                 \/ at = 6 /\ CheckMeta
                 \/ at = 7 /\ CheckPagination
                 \/ at = 8 /\ (CheckFilterNarrows \/ CheckFilterEpoch)
                 \/ at = 9 /\ CheckSingleRead
                 \/ at = 10 /\ CheckUnknownID
                 \/ at = 11 /\ CheckProviderConfig
                 \/ at = 12 /\ (NoTarget \/ ReadTarget \/ CheckWriteBack)
                 \/ at = 13 /\ (NoTarget \/ ReadTarget \/ CheckIdempotent)
                 \/ at = 14 /\ (NoTarget \/ ReadTarget \/ CheckForbidden)
<1>1. CheckCredential => at = 1 /\ ~blocked BY DEF CheckCredential, SuiteInv, Stopped
<1>2. BlockedSkip => blocked BY DEF BlockedSkip
<1>3. /\ CheckEnvelope => at = 2 /\ ~blocked
      /\ CheckStableIDs => at = 3 /\ ~blocked
      /\ CheckActiveFlag => at = 4 /\ ~blocked
      /\ CheckAlias => at = 5 /\ ~blocked
      /\ CheckMeta => at = 6 /\ ~blocked
      /\ CheckPagination => at = 7 /\ ~blocked
      /\ CheckFilterNarrows => at = 8 /\ ~blocked
      /\ CheckFilterEpoch => at = 8 /\ ~blocked
      /\ CheckSingleRead => at = 9 /\ ~blocked
      /\ CheckUnknownID => at = 10 /\ ~blocked
      /\ CheckProviderConfig => at = 11 /\ ~blocked
  BY DEF CheckEnvelope, CheckStableIDs, CheckActiveFlag, CheckAlias, CheckMeta,
         CheckPagination, CheckFilterNarrows, CheckFilterEpoch, CheckSingleRead,
         CheckUnknownID, CheckProviderConfig, Runs
<1>4. /\ NoTarget => at \in 12 .. 14 /\ ~blocked
      /\ ReadTarget => at \in 12 .. 14 /\ ~blocked
  BY DEF NoTarget, ReadTarget
<1>5. /\ CheckWriteBack => at = 12 /\ ~blocked
      /\ CheckIdempotent => at = 13 /\ ~blocked
      /\ CheckForbidden => at = 14 /\ ~blocked
  BY DEF CheckWriteBack, CheckIdempotent, CheckForbidden, SuiteInv, Stopped
<1>6. at \in 12 .. 14 => at = 12 \/ at = 13 \/ at = 14 OBVIOUS
<1> QED BY <1>1, <1>2, <1>3, <1>4, <1>5, <1>6 DEF Check

\* writeTarget read d, and the case goes on with it.
TargetRead(d) ==
    /\ held' = [id |-> d, externalId |-> users[d].externalId, active |-> ServedActive(d)]
    /\ at = 12 => Value(held') # 0
    /\ at = 13 => held'.externalId # 0
    /\ at = 14 => held'.active # "nil"

\* A step of the suite ends a case or goes on with it; it reads the page in the
\* first case only and writes in the last three only.
LEMMA CheckShape ==
    ASSUME SuiteInv, Check
    PROVE  /\ at \in Cases
           /\ Same
           /\ at # 1 => page' = page /\ blocked' = blocked
           /\ at < 12 => users' = users
           /\ \/ \E s \in {"PASS", "FAIL", "SKIP"} : Conclude(s)
              \/ /\ Continue /\ ~blocked /\ blocked' = blocked
                 /\ \/ at = 8 /\ step = 1 /\ held' = held
                    \/ at = 13 /\ step = 2 /\ held' = held
                    \/ /\ at \in 12 .. 14 /\ step = 1 /\ users' = users
                       /\ opts.writeID # 0
                       /\ \E d \in GetUser(opts.writeID) : TargetRead(d)
<1> USE CausesAre
<1>1. /\ at \in Nat /\ at <= 15 /\ at >= 1 BY DEF SuiteInv, ConformanceTypeOK
<1> DEFINE Ends == \E s \in {"PASS", "FAIL", "SKIP"} : Conclude(s)
<1>2. /\ Conclude("PASS") => Ends
      /\ Conclude("FAIL") => Ends
      /\ Conclude("SKIP") => Ends
  OBVIOUS
<1> HIDE DEF Ends
<1>3. CASE CheckCredential \/ BlockedSkip \/ NoTarget
  BY <1>1, <1>2, <1>3 DEF CheckCredential, BlockedSkip, NoTarget
<1>4. CASE CheckEnvelope \/ CheckStableIDs \/ CheckActiveFlag \/ CheckAlias \/ CheckMeta
  BY <1>2, <1>4 DEF CheckEnvelope, CheckStableIDs, CheckActiveFlag, CheckAlias, CheckMeta,
                    Runs, OnRecords, Verdict
<1>5. CASE CheckPagination \/ CheckFilterEpoch
  BY <1>2, <1>5 DEF CheckPagination, CheckFilterEpoch, Runs, Verdict
<1>6. CASE CheckFilterNarrows BY <1>2, <1>6 DEF CheckFilterNarrows, Runs
<1>7. CASE CheckSingleRead \/ CheckUnknownID \/ CheckProviderConfig
  BY <1>2, <1>7 DEF CheckSingleRead, CheckUnknownID, CheckProviderConfig, Runs, Verdict
<1>8. CASE ReadTarget
  <2>1. /\ at \in 12 .. 14 /\ ~blocked /\ step = 1 /\ blocked' = blocked /\ page' = page
        /\ users' = users /\ opts.writeID # 0 /\ Same
    BY <1>8 DEF ReadTarget
  <2>2. CASE GetUser(opts.writeID) = {} /\ Conclude(IF at = 12 THEN "FAIL" ELSE "SKIP")
    BY <1>2, <2>1, <2>2
  <2>3. CASE ~(GetUser(opts.writeID) = {} /\ Conclude(IF at = 12 THEN "FAIL" ELSE "SKIP"))
    <3> DEFINE r(d) == [id |-> d, externalId |-> users[d].externalId, active |-> ServedActive(d)]
    <3>1. PICK d \in GetUser(opts.writeID) :
            IF \/ at = 12 /\ Value(r(d)) = 0
               \/ at = 13 /\ r(d).externalId = 0
               \/ at = 14 /\ r(d).active = "nil"
            THEN Conclude("SKIP")
            ELSE Continue /\ held' = r(d)
      BY <1>8, <2>3 DEF ReadTarget
    <3> HIDE DEF r
    <3>2. CASE Conclude("SKIP") BY <1>2, <2>1, <3>2
    <3>3. CASE ~Conclude("SKIP")
      <4>1. Continue /\ TargetRead(d) BY <3>1, <3>3 DEF TargetRead, r
      <4> QED BY <2>1, <4>1
    <3> QED BY <3>2, <3>3
  <2> QED BY <2>2, <2>3
<1>9. CASE CheckWriteBack \/ CheckForbidden
  BY <1>2, <1>9 DEF CheckWriteBack, CheckForbidden, Verdict
<1>10. CASE CheckIdempotent
  <2>1. ~blocked BY <1>10 DEF CheckIdempotent, SuiteInv, Stopped
  <2> QED BY <1>2, <1>10, <2>1 DEF CheckIdempotent, Verdict
<1> QED BY <1>3, <1>4, <1>5, <1>6, <1>7, <1>8, <1>9, <1>10 DEF Check, Ends

\* The value a case of phase two writes.
Written == IF at = 12 THEN Value(held) ELSE held.externalId

\* What a step of the suite does to the directory.
LEMMA CheckWrites ==
    ASSUME SuiteInv, Check, users' # users
    PROVE  /\ at \in 12 .. 14 /\ step # 1 /\ opts.writeID # 0 /\ Holds
           /\ users' \in [Ids -> User]
           /\ \A d \in Ids : users'[d].present = users[d].present
           /\ \A d \in Ids : d # held.id => users'[d] = users[d]
           /\ users'[held.id].lastModified \in Stamps \cup {clock}
           /\ \/ /\ at # 14 /\ ~Conflicts(held.id, Written)
                 /\ users'[held.id].active = users[held.id].active
                 /\ users'[held.id].externalId = Written
              \/ /\ at = 14
                 /\ users'[held.id].active = held.active
                 /\ users'[held.id].externalId = users[held.id].externalId
<1>1. CheckWriteBack \/ CheckIdempotent \/ CheckForbidden
  BY DEF Check, CheckCredential, BlockedSkip, CheckEnvelope, CheckStableIDs, CheckActiveFlag,
         CheckAlias, CheckMeta, CheckPagination, CheckFilterNarrows, CheckFilterEpoch,
         CheckSingleRead, CheckUnknownID, CheckProviderConfig, NoTarget, ReadTarget, Runs
<1>2. at \in 12 .. 14 /\ step # 1
  BY <1>1 DEF CheckWriteBack, CheckIdempotent, CheckForbidden
<1>3. opts.writeID # 0 /\ Holds BY <1>2 DEF SuiteInv, Requests
<1>4. /\ users \in [Ids -> User] /\ held.id \in Ids /\ clock = 1 /\ held.externalId \in Nat
      /\ opts.probe \in Nat /\ held.active \in {"true", "false", "nil"}
  BY <1>3, OptionTypes DEF SuiteInv, ConformanceTypeOK, DirTypeOK, Holds
<1>5. Written \in Nat BY <1>4 DEF Written, Value
<1>6. CASE at # 14
  <2>1. Accepts(held.id, Written) /\ Patched(held.id, Written)
    BY <1>1, <1>6 DEF CheckWriteBack, CheckIdempotent, CheckForbidden, Written
  <2>2. PICK t \in Stamps : users' = [users EXCEPT ![held.id] =
                                        [@ EXCEPT !.externalId = Written, !.lastModified = t]]
    BY <2>1 DEF Patched, Bind
  <2>3. t \in Nat BY <1>4, TimeAssumption DEF Stamps
  <2>4. users'[held.id] = [users[held.id] EXCEPT !.externalId = Written, !.lastModified = t]
    BY <1>4, <2>2
  <2>5. users[held.id] \in User BY <1>4
  <2>6. /\ users'[held.id] \in User
        /\ users'[held.id].present = users[held.id].present
        /\ users'[held.id].active = users[held.id].active
        /\ users'[held.id].externalId = Written
        /\ users'[held.id].lastModified = t
    BY <1>5, <2>3, <2>4, <2>5 DEF User
  <2>7. \A d \in Ids : d # held.id => users'[d] = users[d] BY <1>4, <2>2
  <2>8. users' \in [Ids -> User] BY <1>4, <2>2, <2>4, <2>6
  <2>9. ~Conflicts(held.id, Written) BY <2>1 DEF Accepts
  <2> QED BY <1>2, <1>3, <1>6, <2>2, <2>6, <2>7, <2>8, <2>9
<1>7. CASE at = 14
  <2>1. users' = [users EXCEPT ![held.id] =
                    [@ EXCEPT !.active = held.active, !.lastModified = clock]]
    BY <1>1, <1>7 DEF CheckWriteBack, CheckIdempotent, CheckForbidden
  <2>2. PICK b \in {"true", "false", "nil"}, t \in Nat : b = held.active /\ t = clock BY <1>4
  <2>3. users'[held.id] = [users[held.id] EXCEPT !.active = b, !.lastModified = t]
    BY <1>4, <2>1, <2>2
  <2>4. users[held.id] \in User BY <1>4
  <2>5. /\ users'[held.id] \in User
        /\ users'[held.id].present = users[held.id].present
        /\ users'[held.id].active = b
        /\ users'[held.id].externalId = users[held.id].externalId
        /\ users'[held.id].lastModified = t
    BY <2>3, <2>4 DEF User
  <2>6. \A d \in Ids : d # held.id => users'[d] = users[d] BY <1>4, <2>1
  <2>7. users' \in [Ids -> User] BY <1>4, <2>1, <2>3, <2>5
  <2> QED BY <1>2, <1>3, <1>7, <2>2, <2>5, <2>6, <2>7
<1> QED BY <1>2, <1>6, <1>7

\* Others change one record, which is touched from then on, and not the suite.
OthersAt(d) ==
    /\ touched' = touched \cup {d}
    /\ \A e \in Ids : e # d => users'[e] = users[e] /\ said'[e] = said[e]
    /\ said[d] \subseteq said'[d]
    /\ users'[d].active \in said'[d] \cup {"nil", users[d].active}

\* A change of somebody else's keeps the types and the suite.
LEMMA OthersKeep ==
    ASSUME SuiteInv, Others
    PROVE  /\ DirTypeOK' /\ clock' = clock /\ suiteVars' = suiteVars
           /\ touched' \subseteq Ids /\ touched' # {}
           /\ \E d \in Ids : (Publish(d) \/ Lose(d) \/ Remove(d)) /\ OthersAt(d)
<1>1. PICK d \in Ids : (Publish(d) \/ Lose(d) \/ Remove(d)) /\ touched' = touched \cup {d}
  BY DEF Others
<1>2. DirTypeOK /\ touched \subseteq Ids BY DEF SuiteInv, ConformanceTypeOK
<1>3. DirTypeOK' BY <1>1, <1>2, ChangeType
<1>4. clock' = clock BY <1>1 DEF Publish, Lose, Remove, Change
<1>5. OthersAt(d)
  <2>1. CASE Publish(d)
    <3>1. PICK a \in Statuses, p \in Profiles,
               t \in Stamps \cup (IF Unstamped /\ ~users[d].present THEN {0} ELSE {}) :
             /\ users' = [users EXCEPT ![d] =
                   [present |-> TRUE, active |-> a, profile |-> p,
                    externalId |-> IF @.present THEN @.externalId ELSE 0,
                    lastModified |-> t]]
             /\ said' = [said EXCEPT ![d] = @ \cup ({a} \ {"nil"})]
      BY <2>1 DEF Publish
    <3>2. users'[d].active = a /\ said'[d] = said[d] \cup ({a} \ {"nil"})
      BY <1>2, <3>1 DEF DirTypeOK
    <3> QED BY <1>1, <1>2, <3>1, <3>2 DEF OthersAt, DirTypeOK
  <2>2. CASE Lose(d)
    <3>1. users'[d].active = users[d].active BY <1>2, <2>2 DEF Lose, DirTypeOK, User
    <3> QED BY <1>1, <1>2, <2>2, <3>1 DEF OthersAt, Lose, DirTypeOK
  <2>3. CASE Remove(d)
    <3>1. users'[d].active = users[d].active BY <1>2, <2>3 DEF Remove, DirTypeOK, User
    <3> QED BY <1>1, <1>2, <2>3, <3>1 DEF OthersAt, Remove, DirTypeOK
  <2> QED BY <1>1, <2>1, <2>2, <2>3
<1> QED BY <1>1, <1>2, <1>3, <1>4, <1>5 DEF Others

\* Every step of the suite keeps the types.
LEMMA CheckTypes ==
    ASSUME SuiteInv, Check
    PROVE  ConformanceTypeOK'
<1> USE CausesAre DEF SuiteInv
<1>1. ConformanceTypeOK OBVIOUS
<1>2. at \in Cases /\ Same BY CheckShape
<1>3. DirTypeOK'
  <2>1. users' \in [Ids -> User] BY <1>1, CheckWrites DEF ConformanceTypeOK, DirTypeOK
  <2> QED BY <1>1, <1>2, <2>1 DEF Same, ConformanceTypeOK, DirTypeOK
<1>4. page' \in [records: SUBSET Ids, ids: SUBSET (Ids \cup {0}), sample: Ids \cup {0},
                 noActive: SUBSET Ids, noStamp: SUBSET Ids, total: Nat, newest: Nat]
      /\ blocked' \in BOOLEAN
  <2>1. CASE at # 1 BY <1>1, <2>1, CheckShape DEF ConformanceTypeOK
  <2>2. CASE page' = page /\ blocked' \in BOOLEAN BY <1>1, <2>2 DEF ConformanceTypeOK
  <2>3. CASE at = 1 /\ ~(page' = page /\ blocked' \in BOOLEAN)
    <3> DEFINE S == Page(Everything, 1)
               T == {0} \cup {ServedStamp(d) : d \in S}
    <3>1. CheckCredential BY <2>3, WhichCase DEF Stopped
    <3>2. /\ blocked' = blocked
          /\ page' = [records  |-> S,
                      ids      |-> {ServedID(d) : d \in S},
                      sample   |-> IF S = {} THEN 0 ELSE ServedID(First(S)),
                      noActive |-> {d \in S : ServedActive(d) = "nil"},
                      noStamp  |-> {d \in S : ServedStamp(d) = 0},
                      total    |-> TotalResults(Everything),
                      newest   |-> Max(T)]
      BY <2>3, <3>1 DEF CheckCredential
    <3>3. S \in SUBSET Ids /\ TotalResults(Everything) \in Nat BY ServedLists
    <3>4. Max(T) \in Nat
      <4>1. Max(T) \in T /\ T \subseteq Nat BY <1>1, <3>3, NewestType
      <4> HIDE DEF T
      <4> QED BY <4>1
    <3>5. blocked \in BOOLEAN BY <1>1 DEF ConformanceTypeOK
    <3>6. S \subseteq Everything BY ServedLists
    <3>7. {ServedID(d) : d \in S} \subseteq Ids \cup {0} BY <3>6, ServedIDType
    <3>8. (IF S = {} THEN 0 ELSE ServedID(First(S))) \in Ids \cup {0}
      BY <3>3, <3>6, FirstIn, ServedIDType
    <3> HIDE DEF S, T
    <3> QED BY <3>2, <3>3, <3>4, <3>5, <3>7, <3>8
  <2> QED BY <2>1, <2>2, <2>3
<1>5. /\ at' \in 1 .. 15 /\ step' \in 1 .. 3
      /\ verdicts' \in [Cases -> {"none", "PASS", "FAIL", "SKIP"}]
      /\ held' \in [id: Ids \cup {0}, externalId: Nat, active: {"true", "false", "nil"}]
  <2>1. ASSUME NEW s \in {"PASS", "FAIL", "SKIP"}, Conclude(s) PROVE <1>5!:
    BY <1>1, <1>2, <2>1 DEF Conclude, ConformanceTypeOK, NoRecord
  <2>2. CASE Continue /\ held' = held /\ step \in {1, 2}
    BY <1>1, <2>2 DEF Continue, ConformanceTypeOK
  <2>3. ASSUME Continue, step = 1, NEW d \in GetUser(opts.writeID), TargetRead(d),
               opts.writeID # 0
        PROVE  <1>5!:
    <3>1. opts.writeID \in Ids BY <1>1, <2>3, OptionTypes
    <3>2. d \in Ids BY <2>3, <3>1 DEF GetUser, Everything, Matched
    <3>3. users[d].externalId \in Nat /\ ServedActive(d) \in {"true", "false", "nil"}
      BY <1>1, <3>2 DEF ConformanceTypeOK, DirTypeOK, User, ServedActive
    <3>4. held' \in [id: Ids \cup {0}, externalId: Nat, active: {"true", "false", "nil"}]
      BY <2>3, <3>2, <3>3 DEF TargetRead
    <3> QED BY <1>1, <2>3, <3>4 DEF Continue, ConformanceTypeOK
  <2> QED BY <2>1, <2>2, <2>3, CheckShape
<1>6. /\ defects' \subseteq Defects /\ opts' \in Options /\ expired' \in BOOLEAN
      /\ found' \in [Ids -> User] /\ touched' \subseteq Ids
  BY <1>1, <1>2 DEF Same, ConformanceTypeOK
<1> QED BY <1>3, <1>4, <1>5, <1>6 DEF ConformanceTypeOK

\* Every step of the suite keeps the report in order and stops where it must.
LEMMA CheckOrder ==
    ASSUME SuiteInv, Check
    PROVE  Order' /\ Stopped'
<1> USE CausesAre DEF SuiteInv
<1>1. /\ at \in Cases /\ at \in Nat /\ verdicts \in [Cases -> {"none", "PASS", "FAIL", "SKIP"}]
      /\ (at # 1 => page' = page /\ blocked' = blocked)
  BY CheckShape DEF ConformanceTypeOK
<1>2. ASSUME NEW s \in {"PASS", "FAIL", "SKIP"}, Conclude(s) PROVE Order' /\ Stopped'
  <2>1. /\ verdicts' = [verdicts EXCEPT ![at] = s] /\ at' = at + 1 /\ step' = 1
    BY <1>2 DEF Conclude
  <2>2. Order' BY <1>1, <2>1 DEF Order
  <2>3. CASE at = 1
    <3>1. \A c \in Cases \ {1} : verdicts'[c] = "none" BY <1>1, <2>1, <2>3 DEF Order
    <3>2. s = "FAIL" => blocked'
      <4>1. CheckCredential BY <2>3, WhichCase DEF Stopped
      <4>2. blocked' \/ Conclude("PASS") BY <4>1 DEF CheckCredential
      <4>3. Conclude("PASS") => verdicts'[1] = "PASS" BY <1>1, <2>3 DEF Conclude
      <4> QED BY <1>1, <2>1, <2>3, <4>2, <4>3
    <3> QED BY <1>1, <2>1, <2>2, <2>3, <3>1, <3>2 DEF Stopped
  <2>4. CASE at # 1
    <3>1. blocked' = blocked /\ verdicts'[1] = verdicts[1] BY <1>1, <2>1, <2>4
    <3>2. ASSUME blocked PROVE s = "SKIP"
      <4>1. Conclude("SKIP") BY <3>2, WhichCase DEF BlockedSkip
      <4>2. verdicts'[at] = "SKIP" BY <1>1, <4>1 DEF Conclude
      <4> QED BY <1>1, <2>1, <4>2
    <3> QED BY <1>1, <2>1, <2>2, <2>4, <3>1, <3>2 DEF Stopped
  <2> QED BY <2>3, <2>4
<1>3. CASE Continue /\ ~blocked /\ blocked' = blocked BY <1>3 DEF Continue, Order, Stopped
<1> QED BY <1>2, <1>3, CheckShape

\* What writeTarget reads is what the case holds, until the case is over.
LEMMA CheckRequests ==
    ASSUME SuiteInv, Check
    PROVE  Requests'
<1> USE CausesAre DEF SuiteInv
<1>1. /\ at \in Cases /\ at \in Nat /\ step \in Nat
      /\ opts' = opts /\ defects' = defects /\ touched' = touched /\ said' = said
  BY CheckShape DEF ConformanceTypeOK, Same
<1>2. ASSUME NEW s, Conclude(s) PROVE Requests' BY <1>2 DEF Conclude, Requests
<1>3. CASE Continue /\ at = 8 /\ step = 1 BY <1>3 DEF Continue, Requests
<1>4. CASE Continue /\ at = 13 /\ step = 2 /\ held' = held
  <2>1. at' = 13 /\ step' = 3 BY <1>4 DEF Continue
  <2>2. Holds /\ opts.writeID # 0 BY <1>4 DEF Requests
  <2>3. /\ held.id \in Ids
        /\ users'[held.id].present = users[held.id].present
        /\ users'[held.id].externalId \in {users[held.id].externalId, held.externalId}
    BY <1>4, <2>2, CheckWrites DEF Holds, Written
  <2>4. Holds' BY <1>1, <1>4, <2>1, <2>2, <2>3 DEF Holds, Has
  <2> QED BY <1>1, <2>1, <2>2, <2>4 DEF Requests
<1>5. ASSUME Continue, at \in 12 .. 14, step = 1, users' = users, opts.writeID # 0,
             NEW d \in GetUser(opts.writeID), TargetRead(d)
      PROVE  Requests'
  <2>1. at' = at /\ step' = 2 BY <1>5 DEF Continue
  <2>2. opts.writeID \in Ids BY <1>5, OptionTypes
  <2>3. /\ d \in Ids
        /\ ~Has("noSingleRead")
        /\ ~Has("wrongRecord") => d = opts.writeID
        /\ users[d].present
    BY <1>5, <2>2 DEF GetUser, Everything, Matched
  <2>4. /\ held'.id = d /\ held'.externalId = users[d].externalId
        /\ held'.active = ServedActive(d)
        /\ at = 12 => Value(held') # 0
        /\ at = 13 => held'.externalId # 0
        /\ at = 14 => held'.active # "nil"
    BY <1>5 DEF TargetRead
  <2>5. at = 14 => held'.active = users[d].active /\ held'.active \in said[d]
    BY <2>3, <2>4 DEF ServedActive, Spoken
  <2>6. at = 12 => (Value(held))' # 0 BY <1>1, <2>4 DEF Value
  <2>7. Holds' BY <1>1, <1>5, <2>1, <2>3, <2>4, <2>5, <2>6 DEF Holds, Has
  <2> QED BY <1>1, <1>5, <2>1, <2>7 DEF Requests
<1> QED BY <1>2, <1>3, <1>4, <1>5, CheckShape

\* What the suite writes, the directory said.
LEMMA CheckSpoken ==
    ASSUME SuiteInv, Check
    PROVE  Spoken'
<1>1. Spoken /\ said' = said BY CheckShape DEF SuiteInv, Same
<1>2. CASE users' = users BY <1>1, <1>2 DEF Spoken
<1>3. CASE users' # users
  <2>1. /\ \A d \in Ids : d # held.id => users'[d] = users[d]
        /\ users'[held.id].active \in said[held.id] \cup {users[held.id].active}
    BY <1>3, CheckWrites DEF Holds
  <2> QED BY <1>1, <2>1 DEF Spoken
<1> QED BY <1>2, <1>3

\* The suite starts in order.
LEMMA SuiteInit == Init => SuiteInv
<1> USE CausesAre
<1> SUFFICES ASSUME Init PROVE SuiteInv OBVIOUS
<1>1. DirTypeOK
  <2>1. PICK n \in {0} \cup Ids, p \in Profiles, x \in {0, Reserved} :
          users = [d \in Ids |-> [present      |-> d <= n,
                                  active       |-> IF d = Reserved THEN "true" ELSE "false",
                                  profile      |-> p,
                                  externalId   |-> IF d = Reserved THEN x ELSE 0,
                                  lastModified |-> 1]]
    BY DEF Init
  <2>2. x \in Nat /\ n \in Nat /\ \A d \in Ids : d \in Nat BY ConformanceAssumption, IdsAssumption
  <2>3. users \in [Ids -> User] BY <2>1, <2>2 DEF User
  <2>4. \A d \in Ids : users[d].active \in {"true", "false"} BY <2>1
  <2>5. said \in [Ids -> SUBSET {"true", "false"}] BY <2>4 DEF Init
  <2> QED BY <2>3, <2>5 DEF Init, DirTypeOK
<1>2. defects \subseteq Defects BY DEF Init, Faulty
<1>3. ConformanceTypeOK
  <2>1. page \in [records: SUBSET Ids, ids: SUBSET (Ids \cup {0}), sample: Ids \cup {0},
                  noActive: SUBSET Ids, noStamp: SUBSET Ids, total: Nat, newest: Nat]
    BY DEF Init, NoPage
  <2>2. held \in [id: Ids \cup {0}, externalId: Nat, active: {"true", "false", "nil"}]
    BY DEF Init, NoRecord
  <2>3. opts \in Options /\ expired = FALSE /\ blocked = FALSE /\ at = 1 /\ step = 1
    BY DEF Init
  <2>4. verdicts \in [Cases -> {"none", "PASS", "FAIL", "SKIP"}] BY DEF Init
  <2>5. expired \in BOOLEAN /\ blocked \in BOOLEAN BY <2>3
  <2>6. at \in 1 .. Len(Causes) + 1 /\ step \in 1 .. 3 BY <2>3
  <2>7. found \in [Ids -> User] /\ touched \subseteq Ids BY <1>1 DEF Init, DirTypeOK
  <2> QED BY <1>1, <1>2, <2>1, <2>2, <2>3, <2>4, <2>5, <2>6, <2>7 DEF ConformanceTypeOK
<1>4. Order /\ Stopped /\ Requests BY DEF Init, Order, Stopped, Requests
<1>5. Spoken BY DEF Init, Spoken
<1> QED BY <1>3, <1>4, <1>5 DEF Init, SuiteInv

\* Every step keeps it in order.
LEMMA SuiteStep ==
    ASSUME SuiteInv, [Next]_vars
    PROVE  SuiteInv'
<1>1. CASE Check
  <2>1. clock' = clock BY <1>1, CheckShape DEF Same
  <2> QED BY <1>1, <2>1, CheckTypes, CheckOrder, CheckRequests, CheckSpoken DEF SuiteInv
<1>2. CASE Others
  <2>1. PICK d \in Ids : OthersAt(d) BY <1>2, OthersKeep
  <2>2. DirTypeOK' /\ clock' = clock /\ suiteVars' = suiteVars /\ touched' \subseteq Ids
    BY <1>2, OthersKeep
  <2>3. ConformanceTypeOK' BY <2>2 DEF SuiteInv, ConformanceTypeOK, suiteVars
  <2>4. Order' /\ Stopped' BY <2>2 DEF SuiteInv, Order, Stopped, suiteVars
  <2>5. ASSUME Holds PROVE Holds'
    <3>1. /\ held' = held /\ at' = at /\ opts' = opts /\ defects' = defects BY <2>2 DEF suiteVars
    <3>2. held.id \in Ids /\ said[held.id] \subseteq said'[held.id]
      BY <2>1, <2>5 DEF Holds, OthersAt
    <3>3. ASSUME held.id \notin touched'
          PROVE  held.id \notin touched /\ users'[held.id] = users[held.id]
      BY <2>1, <3>2, <3>3 DEF OthersAt
    <3> QED BY <2>5, <3>1, <3>2, <3>3 DEF Holds, Has, Value
  <2>6. Requests' BY <2>2, <2>5 DEF SuiteInv, Requests, suiteVars
  <2>7. Spoken'
    <3> SUFFICES ASSUME NEW e \in Ids PROVE users'[e].active \in said'[e] \cup {"nil"}
      BY DEF Spoken
    <3>1. users[e].active \in said[e] \cup {"nil"} BY DEF SuiteInv, Spoken
    <3> QED BY <2>1, <3>1 DEF OthersAt
  <2> QED BY <2>2, <2>3, <2>4, <2>6, <2>7 DEF SuiteInv
<1>3. CASE Expire
  <2>1. /\ expired' = TRUE
        /\ UNCHANGED <<users, said, clock, changes, defects, opts, at, step, page, held,
                       blocked, verdicts, found, touched>>
    BY <1>3 DEF Expire
  <2>2. ConformanceTypeOK' BY <2>1 DEF SuiteInv, ConformanceTypeOK, DirTypeOK
  <2>3. Order' /\ Stopped' /\ Spoken' BY <2>1 DEF SuiteInv, Order, Stopped, Spoken
  <2>4. Holds => Holds' BY <2>1 DEF Holds, Has, Value
  <2>5. Requests' BY <2>1, <2>4 DEF SuiteInv, Requests
  <2> QED BY <2>1, <2>2, <2>3, <2>5 DEF SuiteInv
<1>4. CASE UNCHANGED vars
  <2> USE <1>4 DEF vars
  <2>1. ConformanceTypeOK' BY DEF SuiteInv, ConformanceTypeOK, DirTypeOK
  <2>2. Order' /\ Stopped' /\ Spoken' BY DEF SuiteInv, Order, Stopped, Spoken
  <2>3. Holds => Holds' BY DEF Holds, Has, Value
  <2>4. Requests' BY <2>3 DEF SuiteInv, Requests
  <2> QED BY <2>1, <2>2, <2>4 DEF SuiteInv
<1> QED BY <1>1, <1>2, <1>3, <1>4 DEF Next, Done

(****************************************************************************)
(* The report in order, and the directory left as it was found.             *)
(****************************************************************************)

\* Every variable of the suite keeps its type.
THEOREM ConformanceTypes == Spec => []ConformanceTypeOK
<1>1. SuiteInv /\ [Next]_vars => SuiteInv' BY SuiteStep
<1>2. SuiteInv => ConformanceTypeOK BY DEF SuiteInv
<1> QED BY SuiteInit, <1>1, <1>2, PTL DEF Spec

\* The runner's block: an unusable directory is one failure and thirteen skips,
\* also when the deadline passes or the directory changes on the way.
THEOREM UnusableIsOneFailure == Spec => []OneProblem
<1>1. SuiteInv /\ [Next]_vars => SuiteInv' BY SuiteStep
<1>2. SuiteInv => OneProblem BY DEF SuiteInv, Stopped, OneProblem
<1> QED BY SuiteInit, <1>1, <1>2, PTL DEF Spec

\* A write of the suite's leaves the directory as it was found.
LEMMA CheckLeaves ==
    ASSUME SuiteInv, LeavesAsFound, Check
    PROVE  LeavesAsFound'
<1>1. /\ said' = said /\ defects' = defects /\ opts' = opts /\ found' = found
      /\ touched' = touched
  BY CheckShape DEF Same
<1>2. CASE users' = users BY <1>1, <1>2 DEF LeavesAsFound, Has
<1>3. CASE users' # users
  <2> SUFFICES ASSUME NEW d \in Ids
               PROVE  /\ users'[d].active \in said[d] \cup {"nil"}
                      /\ d \notin touched =>
                           /\ users'[d].active = found[d].active
                           /\ \/ users'[d].externalId = found[d].externalId
                              \/ /\ found[d].externalId = 0 /\ users'[d].externalId = opts.probe
                                 /\ d = opts.writeID \/ Has("wrongRecord")
    BY <1>1 DEF LeavesAsFound, Has
  <2>1. users'[d].active \in said[d] \cup {"nil"} BY <1>1, CheckSpoken DEF Spoken
  <2>2. CASE d # held.id BY <1>3, <2>1, <2>2, CheckWrites DEF LeavesAsFound
  <2>3. CASE d = held.id /\ d \notin touched
    <3>1. /\ held.externalId = users[d].externalId
          /\ at = 14 => held.active = users[d].active
          /\ d = opts.writeID \/ Has("wrongRecord")
      BY <1>3, <2>3, CheckWrites DEF Holds
    <3>2. \/ /\ at # 14 /\ users'[d].active = users[d].active
             /\ users'[d].externalId = Written
          \/ /\ at = 14 /\ users'[d].active = held.active
             /\ users'[d].externalId = users[d].externalId
      BY <1>3, <2>3, CheckWrites
    <3>3. \/ Written = users[d].externalId
          \/ users[d].externalId = 0 /\ Written = opts.probe
      BY <3>1 DEF Written, Value
    <3>4. /\ users[d].active = found[d].active
          /\ \/ users[d].externalId = found[d].externalId
             \/ /\ found[d].externalId = 0 /\ users[d].externalId = opts.probe
                /\ d = opts.writeID \/ Has("wrongRecord")
      BY <2>3 DEF LeavesAsFound
    <3> QED BY <2>1, <3>1, <3>2, <3>3, <3>4
  <2> QED BY <2>1, <2>2, <2>3
<1> QED BY <1>2, <1>3

\* Phase two puts back what it read, or the probe value where there was none: for
\* a record nobody else touched that is what it still carries when the PATCH is
\* sent, and when the second one is, and for any other it is at least something
\* the directory said.  This holds for every server, also for one that answers
\* with another record or accepts what it should refuse, and whatever others
\* change, the reserved record included, between the read and the writes.
THEOREM DirectoryLeftAsFound == Spec => []LeavesAsFound
<1> DEFINE Left == SuiteInv /\ LeavesAsFound
<1>1. Init => Left
  <2> SUFFICES ASSUME Init PROVE Left OBVIOUS
  <2>1. SuiteInv BY SuiteInit
  <2>2. found = users /\ touched = {} BY DEF Init
  <2> QED BY <2>1, <2>2 DEF LeavesAsFound, SuiteInv, Spoken
<1>2. Left /\ [Next]_vars => Left'
  <2> SUFFICES ASSUME SuiteInv, LeavesAsFound, [Next]_vars PROVE LeavesAsFound' BY SuiteStep
  <2>1. CASE Check BY <2>1, CheckLeaves
  <2>2. CASE Others
    <3>1. PICK d \in Ids : OthersAt(d) BY <2>2, OthersKeep
    <3>2. opts' = opts /\ defects' = defects /\ found' = found
      BY <2>2, OthersKeep DEF suiteVars
    <3>3. ASSUME NEW e \in Ids, e # d PROVE users'[e] = users[e] /\ said'[e] = said[e]
      BY <3>1, <3>3 DEF OthersAt
    <3>4. d \in touched' /\ touched \subseteq touched' BY <3>1 DEF OthersAt
    <3>5. Spoken' BY SuiteStep DEF SuiteInv
    <3> QED BY <3>2, <3>3, <3>4, <3>5 DEF LeavesAsFound, Spoken, Has
  <2>3. CASE Expire BY <2>3 DEF Expire, LeavesAsFound, Has
  <2>4. CASE UNCHANGED vars BY <2>4 DEF vars, LeavesAsFound, Has
  <2> QED BY <2>1, <2>2, <2>3, <2>4 DEF Next, Done
<1>3. Left => LeavesAsFound OBVIOUS
<1> HIDE DEF Left
<1> QED BY <1>1, <1>2, <1>3, PTL DEF Spec

(****************************************************************************)
(* A directory nobody else touches.                                         *)
(****************************************************************************)

\* The lists of the directory do not change with what is written to it.
LEMMA ListsKept ==
    ASSUME \A d \in Ids : users'[d].present = users[d].present, defects' = defects
    PROVE  /\ Everything' = Everything
           /\ (Page(Everything, 1))' = Page(Everything, 1)
           /\ (TotalResults(Everything))' = TotalResults(Everything)
           /\ \A d : ServedID(d)' = ServedID(d)
<1>1. Everything' = Everything BY DEF Everything, Matched
<1> QED BY <1>1 DEF Page, PageOf, Rank, TotalResults, ServedID, Has

\* The suite finds it untouched.
LEMMA QuietInit == Init => QuietInv
<1> SUFFICES ASSUME Init PROVE QuietInv OBVIOUS
<1>1. PICK n \in {0} \cup Ids, p \in Profiles, x \in {0, Reserved} :
        users = [d \in Ids |-> [present      |-> d <= n,
                                active       |-> IF d = Reserved THEN "true" ELSE "false",
                                profile      |-> p,
                                externalId   |-> IF d = Reserved THEN x ELSE 0,
                                lastModified |-> 1]]
  BY DEF Init
<1>2. /\ \A d \in Ids : users[d].active # "nil" /\ users[d].lastModified = 1
      /\ \A d \in Ids : users[d].externalId = IF d = Reserved THEN x ELSE 0
  BY <1>1
<1>3. Kept /\ Untouched BY <1>2 DEF Kept, Untouched, Unbound
<1>4. at = 1 BY DEF Init
<1> QED BY <1>3, <1>4 DEF QuietInv

\* The first page as P1.01 keeps it.
LEMMA PageRead ==
    ASSUME SuiteInv, Kept, Untouched, Quiet, CheckCredential, ~blocked'
    PROVE  PageKept'
<1> DEFINE S == Page(Everything, 1)
           R == {ServedStamp(d) : d \in S}
           T == {0} \cup R
<1>1. /\ users' = users /\ defects' = defects
      /\ page' = [records  |-> S,
                  ids      |-> {ServedID(d) : d \in S},
                  sample   |-> IF S = {} THEN 0 ELSE ServedID(First(S)),
                  noActive |-> {d \in S : ServedActive(d) = "nil"},
                  noStamp  |-> {d \in S : ServedStamp(d) = 0},
                  total    |-> TotalResults(Everything),
                  newest   |-> Max(T)]
  BY DEF CheckCredential, Quiet, Same
<1>2. S \in SUBSET Ids BY ServedLists
<1>3. {d \in S : ServedActive(d) = "nil"} = IF Has("noActive") THEN S ELSE {}
  BY <1>2 DEF ServedActive, Kept
<1>4. \A d \in S : ServedStamp(d) = IF Has("noStamp") THEN 0 ELSE IF Has("future") THEN 3 ELSE 1
  BY <1>2 DEF ServedStamp, Untouched
<1>5. {d \in S : ServedStamp(d) = 0} = IF Has("noStamp") THEN S ELSE {} BY <1>4
<1>6. Max(T) = IF S = {} \/ Has("noStamp") THEN 0 ELSE IF Has("future") THEN 3 ELSE 1
  <2>1. Max(T) \in T /\ T \subseteq Nat /\ \A t \in T : Max(T) >= t
    BY <1>2, NewestType DEF SuiteInv
  <2>2. CASE S = {}
    <3>1. T = {0} BY <2>2
    <3> HIDE DEF T
    <3> QED BY <2>1, <2>2, <3>1
  <2>3. CASE S # {}
    <3> DEFINE k == IF Has("noStamp") THEN 0 ELSE IF Has("future") THEN 3 ELSE 1
    <3>1. PICK d \in S : TRUE BY <2>3
    <3>2. R = {k} BY <1>4, <3>1
    <3>3. T = {0, k} BY <3>2
    <3>4. k \in Nat OBVIOUS
    <3> HIDE DEF T, k
    <3>5. Max(T) = k BY <2>1, <3>3, <3>4
    <3> QED BY <2>3, <3>5 DEF k
  <2> QED BY <2>2, <2>3
<1>7. /\ (Page(Everything, 1))' = S /\ (TotalResults(Everything))' = TotalResults(Everything)
      /\ \A d : ServedID(d)' = ServedID(d)
      /\ \A x : Has(x)' = Has(x)
  BY <1>1, ListsKept DEF Has
<1> HIDE DEF S, T
<1>8. page' = [records  |-> S,
               ids      |-> {ServedID(d) : d \in S},
               sample   |-> IF S = {} THEN 0 ELSE ServedID(First(S)),
               noActive |-> IF Has("noActive") THEN S ELSE {},
               noStamp  |-> IF Has("noStamp") THEN S ELSE {},
               total    |-> TotalResults(Everything),
               newest   |-> IF S = {} \/ Has("noStamp") THEN 0
                            ELSE IF Has("future") THEN 3 ELSE 1]
  BY <1>1, <1>3, <1>5, <1>6
<1> QED BY <1>7, <1>8 DEF PageKept

\* What the suite writes keeps the directory in order.
LEMMA WritesKeep ==
    ASSUME SuiteInv, Kept, Check
    PROVE  Kept' /\ \A d \in Ids : users'[d].present = users[d].present
<1>1. CASE users' = users BY <1>1 DEF Kept
<1>2. CASE users' # users
  <2>1. /\ held.id \in Ids
        /\ \A d \in Ids : users'[d].present = users[d].present
        /\ \A d \in Ids : d # held.id => users'[d] = users[d]
    BY <1>2, CheckWrites DEF Holds
  <2>2. users'[held.id].active # "nil"
    <3>1. said[held.id] \subseteq {"true", "false"}
      BY <2>1 DEF SuiteInv, ConformanceTypeOK, DirTypeOK
    <3> QED BY <1>2, <2>1, <3>1, CheckWrites DEF Holds, Kept
  <2>3. CASE users'[held.id].externalId = users[held.id].externalId
    <3>1. \A d \in Ids : /\ users'[d].externalId = users[d].externalId
                         /\ users'[d].active # "nil"
      BY <2>1, <2>2, <2>3 DEF Kept
    <3> QED BY <2>1, <3>1 DEF Kept
  <2>4. CASE users'[held.id].externalId # users[held.id].externalId
    <3>1. users'[held.id].externalId = Written /\ ~Conflicts(held.id, Written)
      BY <1>2, <2>4, CheckWrites
    <3>2. \A e \in Ids : e # held.id /\ users'[e].present => users'[e].externalId # Written
      BY <2>1, <3>1 DEF Conflicts
    <3>3. \A d \in Ids : users'[d].active # "nil" BY <2>1, <2>2 DEF Kept
    <3>4. ASSUME NEW d \in Ids, NEW e \in Ids, users'[d].present, users'[e].present,
                 users'[d].externalId = users'[e].externalId, users'[d].externalId # 0
          PROVE  d = e
      <4>1. CASE d = held.id \/ e = held.id BY <3>1, <3>2, <3>4, <4>1
      <4>2. CASE d # held.id /\ e # held.id BY <2>1, <3>4, <4>2 DEF Kept
      <4> QED BY <4>1, <4>2
    <3> QED BY <2>1, <3>3, <3>4 DEF Kept
  <2> QED BY <2>3, <2>4
<1> QED BY <1>1, <1>2

\* A write is stamped by a clock that is at most an hour fast.
LEMMA WritesDated ==
    ASSUME SuiteInv, Dated, Check, MaxLead <= 1
    PROVE  Dated'
<1>1. CASE users' = users BY <1>1 DEF Dated
<1>2. CASE users' # users
  <2>1. /\ held.id \in Ids
        /\ \A d \in Ids : d # held.id => users'[d] = users[d]
    BY <1>2, CheckWrites DEF Holds
  <2>2. users'[held.id].lastModified \in Stamps \cup {clock} BY <1>2, CheckWrites
  <2>3. \A t \in Stamps \cup {clock} : t \in 1 .. 2
    BY TimeAssumption DEF Stamps, SuiteInv
  <2> QED BY <2>1, <2>2, <2>3 DEF Dated
<1> QED BY <1>1, <1>2

\* Every step of the suite keeps the directory and the page in order.
LEMMA QuietCheck ==
    ASSUME SuiteInv, QuietInv, Check, Quiet
    PROVE  QuietInv'
<1> USE CausesAre
<1>1. at \in Cases /\ at \in Nat /\ Same BY CheckShape DEF SuiteInv, ConformanceTypeOK
<1>2. Kept' /\ \A d \in Ids : users'[d].present = users[d].present
  BY WritesKeep DEF QuietInv
<1>3. ASSUME at' <= 12 PROVE Untouched'
  <2>1. at' \in {at, at + 1} BY CheckShape DEF Conclude, Continue
  <2>2. at <= 12 BY <1>1, <1>3, <2>1
  <2>3. users' = users
    <3>1. CASE at < 12 BY <3>1, CheckShape
    <3>2. CASE at = 12 /\ users' # users
      <4>1. step # 1 BY <3>2, CheckWrites
      <4>2. at' = at + 1 BY <3>2, <4>1, CheckShape DEF Conclude
      <4> QED BY <1>3, <3>2, <4>2
    <3> QED BY <1>1, <2>2, <3>1, <3>2
  <2> QED BY <2>2, <2>3 DEF QuietInv, Untouched, Unbound
<1>4. ASSUME ~blocked' PROVE PageKept'
  <2>1. CASE at = 1
    <3>1. CheckCredential BY <2>1, WhichCase DEF SuiteInv, Stopped
    <3> QED BY <1>4, <2>1, <3>1, PageRead DEF QuietInv
  <2>2. CASE at # 1
    <3>1. page' = page /\ ~blocked /\ at > 1 BY <1>1, <1>4, <2>2, CheckShape
    <3>2. PageKept BY <3>1 DEF QuietInv
    <3>3. /\ (Page(Everything, 1))' = Page(Everything, 1)
          /\ (TotalResults(Everything))' = TotalResults(Everything)
          /\ \A d : ServedID(d)' = ServedID(d)
          /\ \A x : Has(x)' = Has(x)
      BY <1>1, <1>2, ListsKept DEF Same, Has
    <3>4. PageKept' <=> PageKept
      <4> DEFINE S == Page(Everything, 1)
      <4>1. (Page(Everything, 1))' = S BY <3>3
      <4>2. (ServedID(First(Page(Everything, 1))))' = ServedID(First(S))
        <5>1. (First(Page(Everything, 1)))' = First(S) BY <4>1
        <5> QED BY <3>3, <5>1
      <4>3. {ServedID(d) : d \in Page(Everything, 1)}' = {ServedID(d) : d \in S} BY <3>3, <4>1
      <4> HIDE DEF S
      <4> QED BY <3>1, <3>3, <4>1, <4>2, <4>3 DEF PageKept, S
    <3> QED BY <3>2, <3>4
  <2> QED BY <2>1, <2>2
<1>5. ASSUME at' = 8, step' = 2 PROVE Narrowed'
  <2>1. Continue /\ at = 8 /\ step = 1 /\ ~blocked
    <3>1. step' # 1 BY <1>5
    <3>2. \A s : ~Conclude(s) BY <3>1 DEF Conclude
    <3> QED BY <1>1, <1>5, <3>2, CheckShape DEF Continue
  <2>2. CheckFilterNarrows BY <2>1, WhichCase DEF CheckFilterEpoch
  <2>3. /\ page.newest # 0 /\ ~Has("refusesFilter")
        /\ ~(TotalResults(After(page.newest + 1)) >= page.total /\ page.total > 0)
    BY <1>5, <2>2 DEF CheckFilterNarrows, Conclude
  <2>4. ASSUME Has("ignoresFilter") PROVE page.total = 0
    <3>1. After(page.newest + 1) = Everything BY <2>4 DEF After
    <3>2. page.total = TotalResults(Everything) BY <2>1 DEF QuietInv, PageKept
    <3>3. page.total \in Nat BY <3>2, ServedLists
    <3> QED BY <2>3, <3>1, <3>2, <3>3
  <2>5. page' = page /\ defects' = defects BY <1>1, <2>1, CheckShape DEF Same
  <2> QED BY <2>3, <2>4, <2>5 DEF Narrowed, Has
<1> QED BY <1>2, <1>3, <1>4, <1>5 DEF QuietInv

\* Every step does.
LEMMA QuietStep ==
    ASSUME SuiteInv, QuietInv, [Next]_vars
    PROVE  QuietInv'
<1>1. CASE Check
  <2>1. Quiet' = Quiet BY <1>1, CheckShape DEF Same, Quiet
  <2> QED BY <1>1, <2>1, QuietCheck DEF QuietInv
<1>2. CASE Others BY <1>2, OthersKeep DEF QuietInv, Quiet
<1>3. CASE Expire BY <1>3 DEF Expire, Quiet, QuietInv
<1>4. CASE UNCHANGED vars
  <2> USE <1>4 DEF vars
  <2>1. Quiet' = Quiet BY DEF Quiet
  <2>2. Kept => Kept' BY DEF Kept
  <2>3. Untouched => Untouched' BY DEF Untouched, Unbound
  <2>4. PageKept => PageKept'
    <3>1. /\ (Page(Everything, 1))' = Page(Everything, 1)
          /\ (TotalResults(Everything))' = TotalResults(Everything)
          /\ \A d : ServedID(d)' = ServedID(d)
      BY ListsKept
    <3> QED BY <3>1 DEF PageKept, Has
  <2>5. Narrowed => Narrowed' BY DEF Narrowed, Has
  <2> QED BY <2>1, <2>2, <2>3, <2>4, <2>5 DEF QuietInv
<1> QED BY <1>1, <1>2, <1>3, <1>4 DEF Next, Done

\* What the cases can rely on when they judge the first page.
LEMMA FirstPage ==
    ASSUME SuiteInv, PageKept
    PROVE  /\ page.records = Page(Everything, 1) /\ page.records \subseteq Everything
           /\ Cardinality(page.records) \in Nat
           /\ Cardinality(page.records) <= Cardinality(Everything)
           /\ ~Has("ignoresCount") => Cardinality(page.records) <= PageSize
           /\ Everything # {} =>
                 /\ First(page.records) \in page.records
                 /\ Rank(First(page.records), Everything) = 1
<1> DEFINE count == IF Has("ignoresCount") THEN Cardinality(Everything)
                    ELSE IF Has("caps") THEN 1 ELSE PageSize
<1>1. page.records = Page(Everything, 1) BY DEF PageKept
<1>2. page.records = PageOf(Everything, 1, count) BY <1>1 DEF Page
<1>3. /\ Everything \in SUBSET Ids /\ Everything \in SUBSET Nat /\ IsFiniteSet(Everything)
      /\ page.records \subseteq Everything /\ Cardinality(Everything) \in Nat
  BY <1>1, ServedLists, ListOfIds
<1>4. Cardinality(page.records) \in Nat /\ Cardinality(page.records) <= Cardinality(Everything)
  BY <1>3, FS_Subset, FS_CardinalityType
<1>5. PageSize \in Nat \ {0} /\ count \in Nat BY <1>3, ConformanceAssumption
<1>6. ASSUME ~Has("ignoresCount") PROVE Cardinality(page.records) <= PageSize
  <2>1. count <= PageSize /\ count \in Nat BY <1>5, <1>6
  <2> HIDE DEF count
  <2>2. Cardinality(page.records) <= count BY <1>2, <1>3, <2>1, PageSmall
  <2> QED BY <1>4, <1>5, <2>1, <2>2
<1>7. ASSUME Everything # {}
      PROVE  First(page.records) \in page.records /\ Rank(First(page.records), Everything) = 1
  <2>1. PICK f \in Everything : Rank(f, Everything) = 1 /\ \A e \in Everything : f <= e
    BY <1>3, <1>7, FirstExists
  <2>2. Cardinality(Everything) # 0 BY <1>3, <1>7, FS_EmptySet
  <2>3. count >= 1 BY <1>3, <1>5, <2>2
  <2> HIDE DEF count
  <2>4. f \in page.records BY <1>2, <1>5, <2>1, <2>3 DEF PageOf
  <2>5. \A e \in page.records : f <= e BY <1>3, <2>1
  <2>6. First(page.records) = f
    <3>1. ASSUME NEW d \in page.records, \A e \in page.records : d <= e PROVE d = f
      <4>1. d \in Nat /\ f \in Nat BY <1>3
      <4>2. d <= f /\ f <= d BY <2>4, <2>5, <3>1
      <4> QED BY <4>1, <4>2
    <3> QED BY <2>4, <2>5, <3>1 DEF First
  <2> QED BY <2>1, <2>4, <2>6
<1> QED BY <1>1, <1>3, <1>4, <1>6, <1>7

\* More records than a page holds, and a server that fills its pages.
LEMMA LongList ==
    ASSUME SuiteInv, PageKept, page.total > PageSize, ~Has("caps")
    PROVE  /\ ~Has("noTotal") /\ Everything # {} /\ page.records # {}
           /\ page.total = Cardinality(Everything) /\ page.total \in Nat
           /\ PageSize \in Nat \ {0}
           /\ Has("ignoresCount") => Cardinality(page.records) > PageSize
           /\ ~Has("ignoresCount") => Cardinality(page.records) = PageSize
<1>1. PageSize \in Nat \ {0} BY ConformanceAssumption
<1>2. page.total = TotalResults(Everything) BY DEF PageKept
<1>3. page.total = Cardinality(Everything) /\ ~Has("noTotal") BY <1>1, <1>2 DEF TotalResults
<1>4. /\ Everything \in SUBSET Ids /\ Everything \in SUBSET Nat /\ IsFiniteSet(Everything)
      /\ Cardinality(Everything) \in Nat
  BY ServedLists, ListOfIds
<1>5. Everything # {} BY <1>1, <1>3, <1>4, FS_EmptySet
<1>6. page.records # {} /\ page.records = Page(Everything, 1) BY <1>5, FirstPage
<1>7. ASSUME Has("ignoresCount") PROVE Cardinality(page.records) > PageSize
  <2>1. page.records = PageOf(Everything, 1, Cardinality(Everything)) BY <1>6, <1>7 DEF Page
  <2>2. \A d \in Everything : Rank(d, Everything) \in 1 .. Cardinality(Everything)
    BY <1>4, RankType
  <2>3. \A d \in Everything : /\ Rank(d, Everything) >= 1
                              /\ Rank(d, Everything) < 1 + Cardinality(Everything)
    BY <1>4, <2>2
  <2>4. page.records = Everything BY <2>1, <2>3 DEF PageOf
  <2> QED BY <1>3, <2>4
<1>8. ASSUME ~Has("ignoresCount") PROVE Cardinality(page.records) = PageSize
  <2>1. page.records = PageOf(Everything, 1, PageSize) BY <1>6, <1>8 DEF Page
  <2>2. Cardinality(Everything) \in 1 .. Cardinality(Everything) BY <1>1, <1>3, <1>4
  <2>3. PICK d \in Everything : Rank(d, Everything) = Cardinality(Everything)
    BY <1>4, <2>2, RankOnto
  <2>4. Rank(d, Everything) >= 1 + PageSize BY <1>1, <1>3, <1>4, <2>3
  <2> QED BY <1>1, <1>4, <2>1, <2>4, PageFull
<1> QED BY <1>1, <1>3, <1>4, <1>5, <1>6, <1>7, <1>8

(****************************************************************************)
(* The verdicts, case by case.                                              *)
(****************************************************************************)

\* What the verdict of c says of a directory nobody else touches.  A case passes
\* only a server without the defects it notices; P1.07 and P1.08, which compare
\* the list with the first page, fail only a server with one of them.
Fair(c) ==
    /\ verdicts'[c] = "FAIL" /\ c \in {7, 8} => defects \cap Causes[c] # {}
    /\ /\ verdicts'[c] = "PASS"
       /\ page'.total > PageSize /\ ~Has("caps")
       => defects \cap RuledOut(c) = {}

\* The report says what the case concluded.
LEMMA Concluded ==
    ASSUME SuiteInv, Check, NEW s, Conclude(s)
    PROVE  verdicts'[at] = s
BY CheckShape DEF SuiteInv, ConformanceTypeOK, Conclude

\* It says nothing while the case goes on.
LEMMA Continued ==
    ASSUME SuiteInv, Check, Continue
    PROVE  verdicts'[at] = "none"
BY CheckShape, CausesAre DEF SuiteInv, ConformanceTypeOK, Order, Continue

\* P1.01.
LEMMA FairCredential ==
    ASSUME SuiteInv, Quiet, Check, at = 1, ~blocked
    PROVE  Fair(1)
<1> DEFINE bad == \E x \in {"unreachable", "rejects", "undecodable"} : Has(x)
<1>1. CheckCredential BY WhichCase
<1>2. verdicts'[1] = IF bad THEN "FAIL" ELSE "PASS" BY <1>1, Concluded DEF CheckCredential, Quiet
<1>3. bad <=> defects \cap Causes[1] # {} BY CausesAre DEF Has
<1> HIDE DEF bad
<1>4. RuledOut(1) = Causes[1] BY DEF RuledOut
<1> QED BY <1>2, <1>3, <1>4 DEF Fair

\* P1.02 to P1.06: the first page.
LEMMA FairPage ==
    ASSUME SuiteInv, QuietInv, Quiet, Check, at \in 2 .. 6, ~blocked
    PROVE  Fair(at)
<1>1. PageKept /\ page' = page /\ clock = 1 BY CheckShape DEF QuietInv, SuiteInv
<1>2. at # 3 => RuledOut(at) = Causes[at] BY DEF RuledOut
<1>3. ASSUME NEW fails \in BOOLEAN, OnRecords(fails),
             page.total > PageSize /\ ~Has("caps") /\ defects \cap RuledOut(at) # {} => fails
      PROVE  Fair(at)
  <2>1. verdicts'[at] = IF page.records = {} THEN "SKIP" ELSE IF fails THEN "FAIL" ELSE "PASS"
    BY <1>3, Concluded DEF OnRecords, Verdict
  <2> QED BY <1>1, <1>3, <2>1 DEF Fair
<1>4. CASE at = 2
  <2> DEFINE fails == \/ page.total < Cardinality(page.records)
                      \/ page.records # {} /\ Has("zeroBased")
  <2>1. CheckEnvelope BY <1>4, WhichCase
  <2>2. verdicts'[2] = IF fails THEN "FAIL" ELSE "PASS"
    BY <1>4, <2>1, Concluded DEF CheckEnvelope, Verdict
  <2>3. Causes[2] = {"noTotal", "zeroBased"} BY CausesAre
  <2>4. page.total > PageSize /\ ~Has("caps") =>
          ~Has("noTotal") /\ (Has("zeroBased") => fails)
    BY <1>1, LongList
  <2> HIDE DEF fails
  <2> QED BY <1>1, <1>2, <1>4, <2>2, <2>3, <2>4 DEF Fair, Has
<1>5. CASE at = 3
  <2> DEFINE fails == 0 \in page.ids \/ Cardinality(page.ids) < Cardinality(page.records)
  <2>1. OnRecords(fails) BY <1>5, WhichCase DEF CheckStableIDs
  <2>2. ASSUME page.total > PageSize, ~Has("caps"), defects \cap RuledOut(3) # {}
        PROVE  fails
    <3>1. page.records # {} BY <1>1, <2>2, LongList
    <3>2. page.ids = {ServedID(d) : d \in page.records} BY <1>1 DEF PageKept
    <3>3. Has("emptyID") BY <2>2 DEF RuledOut, Has
    <3>4. \A d : ServedID(d) = 0 BY <3>3 DEF ServedID
    <3> QED BY <3>1, <3>2, <3>4
  <2> HIDE DEF fails
  <2>3. fails \in BOOLEAN BY DEF fails
  <2> QED BY <1>3, <1>5, <2>1, <2>2, <2>3
<1>6. CASE at = 4
  <2>1. OnRecords(page.noActive # {}) BY <1>6, WhichCase DEF CheckActiveFlag
  <2>2. page.noActive = IF Has("noActive") THEN page.records ELSE {} BY <1>1 DEF PageKept
  <2>3. RuledOut(at) = {"noActive"} BY <1>2, <1>6, CausesAre
  <2>4. page.total > PageSize /\ ~Has("caps") => page.records # {} BY <1>1, LongList
  <2> QED BY <1>3, <2>1, <2>2, <2>3, <2>4 DEF Has
<1>7. CASE at = 5
  <2>1. opts.alias => OnRecords(Has("mailbox")) BY <1>7, WhichCase DEF CheckAlias
  <2>2. ~opts.alias => Conclude("SKIP") BY <1>7, WhichCase DEF CheckAlias
  <2>3. RuledOut(at) = {"mailbox"} BY <1>2, <1>7, CausesAre
  <2>4. Has("mailbox") \in BOOLEAN BY DEF Has
  <2>5. CASE opts.alias BY <1>3, <2>1, <2>3, <2>4, <2>5 DEF Has
  <2>6. CASE ~opts.alias
    <3>1. verdicts'[at] = "SKIP" BY <2>2, <2>6, Concluded
    <3> QED BY <3>1 DEF Fair
  <2> QED BY <2>5, <2>6
<1>8. CASE at = 6
  <2> DEFINE fails == page.noStamp # {} \/ page.newest > clock + 1
  <2>1. OnRecords(fails) BY <1>8, WhichCase DEF CheckMeta
  <2>2. page.records # {} => (fails <=> Has("noStamp") \/ Has("future"))
    BY <1>1 DEF PageKept
  <2>3. Causes[6] = {"noStamp", "future"} BY CausesAre
  <2>4. page.total > PageSize /\ ~Has("caps") => page.records # {} BY <1>1, LongList
  <2>5. fails \in BOOLEAN OBVIOUS
  <2> HIDE DEF fails
  <2> QED BY <1>2, <1>3, <1>8, <2>1, <2>2, <2>3, <2>4, <2>5 DEF Has
<1>9. at = 2 \/ at = 3 \/ at = 4 \/ at = 5 \/ at = 6 OBVIOUS
<1> QED BY <1>4, <1>5, <1>6, <1>7, <1>8, <1>9

\* P1.07: the second page.
LEMMA FairPagination ==
    ASSUME SuiteInv, QuietInv, Quiet, Check, at = 7, ~blocked
    PROVE  Fair(7)
<1> DEFINE second == Page(Everything, 2)
           fails == \/ Cardinality(page.records) > PageSize
                    \/ second = {}
                    \/ ServedID(First(second)) = page.sample
<1>1. PageKept /\ page' = page BY CheckShape DEF QuietInv, SuiteInv
<1>2. CheckPagination BY WhichCase
<1>3. verdicts'[7] = IF page.total < 2 THEN "SKIP" ELSE IF fails THEN "FAIL" ELSE "PASS"
  BY <1>2, Concluded DEF CheckPagination, Verdict, Quiet
<1>4. /\ Everything \in SUBSET Nat /\ IsFiniteSet(Everything)
      /\ second \subseteq Everything /\ Everything \in SUBSET Ids /\ Cardinality(Everything) \in Nat
      /\ PageSize \in Nat \ {0}
  BY ServedLists, ListOfIds, ConformanceAssumption
<1>5. ASSUME page.total >= 2, ~Has("ignoresStart"), ~Has("ignoresCount"),
             ~Has("repeatsID"), ~Has("emptyID")
      PROVE  ~fails
  <2> DEFINE count == IF Has("caps") THEN 1 ELSE PageSize
  <2>1. page.total = Cardinality(Everything)
    BY <1>1, <1>5 DEF PageKept, TotalResults
  <2>2. Everything # {} BY <1>4, <1>5, <2>1, FS_EmptySet
  <2>3. second = PageOf(Everything, 2, count) /\ count \in Nat \ {0}
    BY <1>4, <1>5 DEF Page
  <2> HIDE DEF count
  <2>4. PICK d \in Everything : Rank(d, Everything) = 2
    BY <1>4, <1>5, <2>1, RankOnto
  <2>5. d \in second BY <2>3, <2>4 DEF PageOf
  <2>6. First(second) \in second
    <3>1. second \in SUBSET Ids /\ second # {} BY <1>4, <2>5
    <3> HIDE DEF second
    <3> QED BY <3>1, FirstIn
  <2>7. Rank(First(second), Everything) >= 2 BY <2>3, <2>6 DEF PageOf
  <2>8. First(second) # First(page.records) BY <1>1, <2>2, <2>7, FirstPage
  <2>9. ~(Cardinality(page.records) > PageSize) BY <1>1, <1>4, <1>5, FirstPage
  <2>10. \A e : ServedID(e) = e BY <1>5 DEF ServedID
  <2>11. page.sample = First(page.records)
    <3>1. page.records # {} BY <1>1, <2>2, FirstPage
    <3> QED BY <1>1, <2>10, <3>1 DEF PageKept
  <2> QED BY <2>5, <2>8, <2>9, <2>10, <2>11
<1>6. ASSUME page.total > PageSize, ~Has("caps"), defects \cap Causes[7] # {}
      PROVE  fails
  <2>1. CASE Has("ignoresCount") BY <1>1, <1>6, <2>1, LongList
  <2>2. page.records # {} /\ page.records = Page(Everything, 1) BY <1>1, <1>6, LongList, FirstPage
  <2>3. page.sample = ServedID(First(page.records)) BY <1>1, <2>2 DEF PageKept
  <2>4. CASE Has("ignoresStart")
    <3>1. second = page.records BY <2>2, <2>4 DEF Page
    <3> QED BY <2>3, <3>1
  <2>5. CASE Has("repeatsID") \/ Has("emptyID")
    <3>1. \A d, e : ServedID(d) = ServedID(e) BY <2>5 DEF ServedID
    <3> QED BY <2>3, <3>1
  <2> QED BY <1>6, <2>1, <2>4, <2>5, CausesAre DEF Has
<1>7. page.total \in Nat BY <1>1, ServedLists DEF PageKept
<1> HIDE DEF fails
<1>8. /\ RuledOut(7) = Causes[7]
      /\ Causes[7] = {"ignoresStart", "ignoresCount", "repeatsID", "emptyID"}
  BY CausesAre DEF RuledOut
<1> QED BY <1>1, <1>3, <1>5, <1>6, <1>7, <1>8 DEF Fair, Has

\* P1.08: the filter.
LEMMA FairFilter ==
    ASSUME SuiteInv, QuietInv, Quiet, Check, at = 8, ~blocked
    PROVE  Fair(8)
<1> DEFINE causes == {"ignoresFilter", "refusesFilter", "emptyFilter"}
           stamp == IF Has("future") THEN 3 ELSE 1
<1>1. PageKept /\ page' = page /\ Untouched BY CheckShape DEF QuietInv, SuiteInv
<1>2. RuledOut(8) = causes /\ Causes[8] = causes BY CausesAre DEF RuledOut
<1>3. /\ page.total = TotalResults(Everything) /\ page.total \in Nat
      /\ Everything \subseteq Ids
  BY <1>1, ServedLists DEF PageKept
<1>4. page.newest # 0 => /\ page.newest = stamp
                         /\ \A d \in Everything : ServedStamp(d) = stamp
  BY <1>1, <1>3 DEF PageKept, Untouched, ServedStamp
<1>5. TotalResults({}) = 0 BY FS_EmptySet DEF TotalResults
<1>6. CASE CheckFilterNarrows
  <2> DEFINE fails == \/ Has("refusesFilter")
                      \/ TotalResults(After(page.newest + 1)) >= page.total /\ page.total > 0
  <2>1. verdicts'[8] = IF page.newest = 0 THEN "SKIP" ELSE IF fails THEN "FAIL" ELSE "none"
    BY <1>6, Concluded, Continued DEF CheckFilterNarrows, Quiet
  <2>2. ASSUME page.newest # 0, \A x \in causes : ~Has(x) PROVE ~fails
    <3>1. After(page.newest + 1) = {} BY <1>4, <2>2 DEF After
    <3>2. TotalResults(After(page.newest + 1)) = 0 BY <1>5, <3>1
    <3> QED BY <1>3, <2>2, <3>2
  <2> HIDE DEF fails
  <2> QED BY <1>2, <2>1, <2>2 DEF Fair, Has
<1>7. CASE CheckFilterEpoch
  <2> DEFINE fails == TotalResults(After(0)) < page.total
  <2>1. verdicts'[8] = IF fails THEN "FAIL" ELSE "PASS"
    BY <1>7, Concluded DEF CheckFilterEpoch, Verdict, Quiet
  <2>2. Narrowed BY <1>7 DEF CheckFilterEpoch, QuietInv
  <2>3. ASSUME \A x \in causes : ~Has(x) PROVE ~fails
    <3>1. After(0) = Everything BY <1>4, <2>2, <2>3 DEF After, Narrowed
    <3> QED BY <1>3, <3>1
  <2>4. ASSUME page.total > PageSize
        PROVE  ~Has("ignoresFilter") /\ ~Has("refusesFilter")
    BY <1>3, <2>2, <2>4, ConformanceAssumption DEF Narrowed
  <2>5. ASSUME page.total > PageSize, Has("emptyFilter") PROVE fails
    <3>1. After(0) = {} BY <2>4, <2>5 DEF After
    <3>2. TotalResults(After(0)) = 0 BY <1>5, <3>1
    <3> QED BY <1>3, <2>5, <3>2, ConformanceAssumption
  <2> HIDE DEF fails
  <2> QED BY <1>1, <1>2, <2>1, <2>3, <2>4, <2>5 DEF Fair, Has
<1> QED BY <1>6, <1>7, WhichCase

\* P1.09 to P1.11: the single read, the unknown id, the provider's configuration.
LEMMA FairReads ==
    ASSUME SuiteInv, QuietInv, Quiet, Check, at \in 9 .. 11, ~blocked
    PROVE  Fair(at)
<1>1. PageKept /\ Kept /\ page' = page BY CheckShape DEF QuietInv, SuiteInv
<1>2. CASE at = 9
  <2> DEFINE sample == page.sample
             fails == GetUser(sample) # {sample} \/ ServedActive(sample) = "nil"
             causes == {"noSingleRead", "wrongRecord", "noActive"}
  <2>1. CheckSingleRead BY <1>2, WhichCase
  <2>2. verdicts'[9] = IF sample = 0 THEN "SKIP" ELSE IF fails THEN "FAIL" ELSE "PASS"
    BY <1>2, <2>1, Concluded DEF CheckSingleRead, Verdict
  <2> HIDE DEF sample
  <2>3. ASSUME page.total > PageSize, ~Has("caps"), \E x \in causes : Has(x)
        PROVE  fails
    <3>1. Everything # {sample}
      <4>1. /\ page.total = Cardinality(Everything)
            /\ page.total \in Nat /\ PageSize \in Nat \ {0}
        BY <1>1, <2>3, LongList
      <4>2. Cardinality({sample}) = 1 BY FS_Singleton
      <4> QED BY <2>3, <4>1, <4>2
    <3>2. CASE Has("noActive") BY <3>2 DEF ServedActive
    <3>3. CASE Has("noSingleRead") BY <3>3 DEF GetUser
    <3>4. CASE Has("wrongRecord") BY <3>1, <3>4 DEF GetUser
    <3> QED BY <2>3, <3>2, <3>3, <3>4
  <2>4. RuledOut(9) = causes BY CausesAre DEF RuledOut
  <2> HIDE DEF fails
  <2> QED BY <1>1, <1>2, <2>2, <2>3, <2>4 DEF Fair, Has
<1>3. CASE at = 10
  <2> DEFINE causes == {"unknownFound", "unknown400"}
  <2>1. CheckUnknownID BY <1>3, WhichCase
  <2>2. verdicts'[10] = IF Has("unknownFound") \/ Has("unknown400") THEN "FAIL" ELSE "PASS"
    BY <1>3, <2>1, Concluded DEF CheckUnknownID, Verdict, Quiet
  <2>3. RuledOut(10) = causes /\ Causes[10] = causes BY CausesAre DEF RuledOut
  <2> QED BY <1>3, <2>2, <2>3 DEF Fair, Has
<1>4. CASE at = 11
  <2> DEFINE causes == {"noFilterSupport", "noPatchSupport"}
  <2>1. CheckProviderConfig BY <1>4, WhichCase
  <2>2. verdicts'[11] = IF Has("noConfig") THEN "SKIP"
                        ELSE IF Has("noFilterSupport") \/ Has("noPatchSupport") THEN "FAIL"
                        ELSE "PASS"
    BY <1>4, <2>1, Concluded DEF CheckProviderConfig, Verdict, Quiet
  <2>3. RuledOut(11) = causes \cup {"noConfig"} /\ Causes[11] = causes
    BY CausesAre DEF RuledOut
  <2> QED BY <1>4, <2>2, <2>3 DEF Fair, Has
<1>5. at = 9 \/ at = 10 \/ at = 11 OBVIOUS
<1> QED BY <1>2, <1>3, <1>4, <1>5

\* P2.01 to P2.03: the writes.
LEMMA FairWrites ==
    ASSUME SuiteInv, Quiet, Check, at \in 12 .. 14, ~blocked
    PROVE  Fair(at)
<1>1. page' = page /\ ~expired BY CheckShape DEF Quiet
<1>2. RuledOut(at) = Causes[at]
  <2>1. at # 3 /\ at # 11 OBVIOUS
  <2>2. Causes[at] \cup {} = Causes[at] OBVIOUS
  <2> QED BY <2>1, <2>2 DEF RuledOut
<1>3. CASE NoTarget
  <2>1. verdicts'[at] = "SKIP" BY <1>3, Concluded DEF NoTarget
  <2> QED BY <2>1 DEF Fair
<1>4. CASE ReadTarget
  <2>1. \/ \E s \in {"FAIL", "SKIP"} : Conclude(s)
        \/ Continue
    BY <1>4 DEF ReadTarget
  <2>2. verdicts'[at] # "PASS" BY <2>1, Concluded, Continued
  <2> QED BY <2>2 DEF Fair
<1>5. CASE CheckWriteBack \/ CheckIdempotent
  <2>1. at \in {12, 13} /\ step # 1 BY <1>5 DEF CheckWriteBack, CheckIdempotent
  <2>2. ~Has("noSingleRead") BY <2>1 DEF SuiteInv, Requests, Holds
  <2>3. verdicts'[at] = "PASS" => Accepts(held.id, Written) /\ ~Has("misanswers")
    BY <1>5, Concluded, Continued DEF CheckWriteBack, CheckIdempotent, Verdict, Written
  <2>4. Accepts(held.id, Written) => ~Has("refusesPatch") BY DEF Accepts
  <2>5. Causes[at] \subseteq {"refusesPatch", "misanswers", "noSingleRead"} BY <2>1, CausesAre
  <2> QED BY <1>2, <2>1, <2>2, <2>3, <2>4, <2>5 DEF Fair, Has
<1>6. CASE CheckForbidden
  <2>1. at = 14 BY <1>6 DEF CheckForbidden
  <2>2. verdicts'[14] = "PASS" => ~Has("oddRefusal")
    BY <1>6, <2>1, Concluded DEF CheckForbidden, Verdict
  <2>3. verdicts'[14] = "PASS" => ~Has("acceptsActive")
    <3>1. step # 1 BY <1>6 DEF CheckForbidden
    <3>2. users[held.id].present BY <2>1, <3>1 DEF SuiteInv, Requests, Holds, Quiet
    <3> QED BY <1>1, <1>6, <2>1, <3>2, Concluded DEF CheckForbidden
  <2>4. Causes[14] = {"acceptsActive", "oddRefusal"} BY CausesAre
  <2> QED BY <1>2, <2>1, <2>2, <2>3, <2>4 DEF Fair, Has
<1> QED BY <1>3, <1>4, <1>5, <1>6, WhichCase

\* Every case is fair; a case that is skipped says nothing.
LEMMA EveryCaseFair ==
    ASSUME SuiteInv, QuietInv, Quiet, Check
    PROVE  Fair(at)
<1>1. at \in 1 .. 14 BY CheckShape, CausesAre
<1>2. CASE blocked
  <2>1. verdicts'[at] = "SKIP" BY <1>2, WhichCase, Concluded DEF BlockedSkip
  <2> QED BY <2>1 DEF Fair
<1>3. CASE ~blocked
  <2>1. at = 1 \/ at \in 2 .. 6 \/ at = 7 \/ at = 8 \/ at \in 9 .. 11 \/ at \in 12 .. 14
    BY <1>1
  <2> QED BY <1>3, <2>1, FairCredential, FairPage, FairPagination, FairFilter, FairReads, FairWrites
<1> QED BY <1>2, <1>3

(****************************************************************************)
(* A directory that others change while the suite runs.                     *)
(****************************************************************************)

\* The suite finds it sound.
LEMMA SoundInit == Init => SoundInv
<1> SUFFICES ASSUME Init PROVE SoundInv OBVIOUS
<1>1. touched = {} /\ expired = FALSE /\ at = 1 BY DEF Init
<1>2. Kept /\ Untouched BY <1>1, QuietInit DEF QuietInv, Quiet
<1> QED BY <1>1, <1>2 DEF SoundInv, Untouched, Dated

\* Whatever is wrong with the page P1.01 keeps is the server's defect.
LEMMA PageReadSound ==
    ASSUME SuiteInv, Kept, Dated, CheckCredential, ~blocked'
    PROVE  PageSound'
<1> DEFINE S == Page(Everything, 1)
           R == {ServedStamp(d) : d \in S}
           T == {0} \cup R
<1>1. /\ users' = users /\ defects' = defects
      /\ page' = [records  |-> S,
                  ids      |-> {ServedID(d) : d \in S},
                  sample   |-> IF S = {} THEN 0 ELSE ServedID(First(S)),
                  noActive |-> {d \in S : ServedActive(d) = "nil"},
                  noStamp  |-> {d \in S : ServedStamp(d) = 0},
                  total    |-> TotalResults(Everything),
                  newest   |-> Max(T)]
  BY DEF CheckCredential, Same
<1>2. /\ S \in SUBSET Ids /\ S \subseteq Everything /\ IsFiniteSet(Everything)
      /\ Cardinality(Everything) \in Nat
  BY ServedLists
<1>3. TotalResults(Everything) < Cardinality(S) => Has("noTotal")
  <2>1. Cardinality(S) <= Cardinality(Everything) /\ Cardinality(S) \in Nat
    BY <1>2, FS_Subset, FS_CardinalityType
  <2> QED BY <1>2, <2>1 DEF TotalResults
<1>4. ASSUME ~Has("repeatsID"), ~Has("emptyID") PROVE {ServedID(d) : d \in S} = S /\ 0 \notin S
  <2>1. \A d \in S : ServedID(d) = d BY <1>4 DEF ServedID
  <2> QED BY <1>2, <2>1, IdsAssumption
<1>5. \A d \in S : ServedActive(d) = "nil" => Has("noActive")
  BY <1>2 DEF ServedActive, Kept
<1>6. \A d \in S : /\ ServedStamp(d) = 0 => Has("noStamp")
                   /\ ServedStamp(d) > 2 => Has("future")
  BY <1>2 DEF ServedStamp, Dated
<1>7. Max(T) > 2 => Has("future")
  <2>1. Max(T) \in T BY <1>2, NewestType DEF SuiteInv
  <2>2. Max(T) = 0 \/ \E d \in S : Max(T) = ServedStamp(d) BY <2>1
  <2> HIDE DEF T
  <2> QED BY <1>6, <2>2
<1>8. S # {} /\ ServedID(First(S)) # 0 => users[ServedID(First(S))].present
  BY <1>2, FirstIn, ServedIDType
<1> HIDE DEF S, T
<1>9. /\ page'.records = S /\ page'.ids = {ServedID(d) : d \in S}
      /\ page'.sample = IF S = {} THEN 0 ELSE ServedID(First(S))
      /\ page'.noActive = {d \in S : ServedActive(d) = "nil"}
      /\ page'.noStamp = {d \in S : ServedStamp(d) = 0}
      /\ page'.total = TotalResults(Everything) /\ page'.newest = Max(T)
  BY <1>1
<1>10. \A x : Has(x)' = Has(x) BY <1>1 DEF Has
<1>11. /\ page'.total < Cardinality(page'.records) => Has("noTotal")
       /\ page'.newest > 2 => Has("future")
  BY <1>3, <1>7, <1>9
<1>12. 0 \in page'.ids \/ Cardinality(page'.ids) < Cardinality(page'.records)
       => Has("repeatsID") \/ Has("emptyID")
  <2>1. ASSUME ~Has("repeatsID"), ~Has("emptyID")
        PROVE  0 \notin page'.ids /\ page'.ids = page'.records
    BY <1>4, <1>9, <2>1
  <2>2. Cardinality(page'.records) \in Nat BY <1>2, <1>9, FS_Subset, FS_CardinalityType
  <2> QED BY <2>1, <2>2
<1>13. /\ page'.noActive # {} => Has("noActive")
       /\ page'.noStamp # {} => Has("noStamp")
  BY <1>5, <1>6, <1>9
<1>14. page'.sample # 0 => users'[page'.sample].present BY <1>1, <1>8, <1>9
<1> QED BY <1>10, <1>11, <1>12, <1>13, <1>14 DEF PageSound

\* A step of the suite keeps the directory and the page sound.
LEMMA CheckSound ==
    ASSUME SuiteInv, SoundInv, Check, WellFormed
    PROVE  SoundInv'
<1> USE CausesAre
<1>1. at \in Cases /\ at \in Nat /\ Same BY CheckShape DEF SuiteInv, ConformanceTypeOK
<1>2. Kept' /\ \A d \in Ids : users'[d].present = users[d].present
  BY WritesKeep DEF SoundInv
<1>3. Dated' BY WritesDated DEF SoundInv, WellFormed
<1>4. ASSUME at' <= 12 PROVE Unbound'
  <2>1. at' \in {at, at + 1} BY CheckShape DEF Conclude, Continue
  <2>2. at <= 12 BY <1>1, <1>4, <2>1
  <2>3. users' = users
    <3>1. CASE at < 12 BY <3>1, CheckShape
    <3>2. CASE at = 12 /\ users' # users
      <4>1. step # 1 BY <3>2, CheckWrites
      <4>2. at' = at + 1 BY <3>2, <4>1, CheckShape DEF Conclude
      <4> QED BY <1>4, <3>2, <4>2
    <3> QED BY <1>1, <2>2, <3>1, <3>2
  <2> QED BY <2>2, <2>3 DEF SoundInv, Unbound
<1>5. ASSUME ~blocked' PROVE PageSound'
  <2>1. CASE at = 1
    <3>1. CheckCredential BY <2>1, WhichCase DEF SuiteInv, Stopped
    <3> QED BY <1>5, <3>1, PageReadSound DEF SoundInv
  <2>2. CASE at # 1
    <3>1. page' = page /\ ~blocked /\ at > 1 BY <1>1, <1>5, <2>2, CheckShape
    <3>2. page.sample \in Ids \cup {0} BY DEF SuiteInv, ConformanceTypeOK
    <3> QED BY <1>1, <1>2, <3>1, <3>2 DEF SoundInv, PageSound, Same, Has
  <2> QED BY <2>1, <2>2
<1> QED BY <1>2, <1>3, <1>4, <1>5 DEF SoundInv

\* So does a well-formed change of somebody else's.
LEMMA OthersSound ==
    ASSUME SuiteInv, SoundInv, Others, WellFormed
    PROVE  SoundInv'
<1>1. PICK d \in Ids : (Publish(d) \/ Lose(d) \/ Remove(d)) /\ OthersAt(d) BY OthersKeep
<1>2. /\ page' = page /\ at' = at /\ blocked' = blocked /\ defects' = defects
  BY OthersKeep DEF suiteVars
<1>3. /\ DirTypeOK /\ DirTypeOK' /\ clock = 1 /\ page.sample \in Ids \cup {0}
  BY OthersKeep DEF SuiteInv, ConformanceTypeOK
<1>4. \A e \in Ids : e # d => users'[e] = users[e] BY <1>1 DEF OthersAt
<1>5. \A t \in Stamps : t \in 1 .. 2
  BY <1>3, TimeAssumption DEF Stamps, WellFormed
<1>6. /\ users'[d].active # "nil" /\ users'[d].lastModified \in 1 .. 2
      /\ users'[d].externalId \in {0, users[d].externalId}
      /\ users'[d].present /\ users'[d].externalId # 0 => users[d].present
  <2>1. users[d] \in User /\ users[d].active # "nil" /\ users[d].lastModified \in 1 .. 2
    BY <1>3 DEF SoundInv, Kept, Dated, DirTypeOK
  <2>2. CASE Publish(d)
    <3>1. PICK a \in Statuses, p \in Profiles, t \in Stamps :
             users' = [users EXCEPT ![d] =
                   [present |-> TRUE, active |-> a, profile |-> p,
                    externalId |-> IF @.present THEN @.externalId ELSE 0,
                    lastModified |-> t]]
      BY <2>2 DEF Publish, WellFormed
    <3>2. users'[d] = [present |-> TRUE, active |-> a, profile |-> p,
                       externalId |-> IF users[d].present THEN users[d].externalId ELSE 0,
                       lastModified |-> t]
      BY <1>3, <3>1 DEF DirTypeOK
    <3> QED BY <1>5, <3>1, <3>2 DEF WellFormed
  <2>3. CASE Lose(d)
    <3>1. PICK t \in Stamps :
             users' = [users EXCEPT ![d] = [@ EXCEPT !.externalId = 0, !.lastModified = t]]
      BY <2>3 DEF Lose
    <3>2. users'[d] = [users[d] EXCEPT !.externalId = 0, !.lastModified = t]
      BY <1>3, <3>1 DEF DirTypeOK
    <3> QED BY <1>5, <2>1, <3>2 DEF User
  <2>4. CASE Remove(d)
    <3>1. users'[d] = [users[d] EXCEPT !.present = FALSE]
      BY <1>3, <2>4 DEF Remove, DirTypeOK
    <3> QED BY <2>1, <3>1 DEF User
  <2> QED BY <1>1, <2>2, <2>3, <2>4
<1>7. Kept'
  <2>1. \A e \in Ids : users'[e].active # "nil" BY <1>4, <1>6 DEF SoundInv, Kept
  <2>2. \A e \in Ids : users'[e].present /\ users'[e].externalId # 0
                       => users[e].present /\ users[e].externalId = users'[e].externalId
    BY <1>4, <1>6
  <2> QED BY <2>1, <2>2 DEF SoundInv, Kept
<1>8. Dated' BY <1>4, <1>6 DEF SoundInv, Dated
<1>9. Unbound => Unbound' BY <1>4, <1>6 DEF Unbound
<1>10. PageSound => PageSound'
  <2>1. ASSUME page.sample \notin touched' \cup {0}
        PROVE  page.sample \notin touched \cup {0} /\ users'[page.sample] = users[page.sample]
    BY <1>1, <1>3, <1>4, <2>1 DEF OthersAt
  <2> QED BY <1>2, <2>1 DEF PageSound, Has
<1> QED BY <1>2, <1>7, <1>8, <1>9, <1>10 DEF SoundInv

\* So does every step.
LEMMA SoundStep ==
    ASSUME SuiteInv, SoundInv, [Next]_vars, WellFormed
    PROVE  SoundInv'
<1>1. CASE Check BY <1>1, CheckSound
<1>2. CASE Others BY <1>2, OthersSound
<1>3. CASE Expire
  BY <1>3 DEF Expire, SoundInv, Kept, Dated, Unbound, PageSound, Has
<1>4. CASE UNCHANGED vars
  BY <1>4 DEF vars, SoundInv, Kept, Dated, Unbound, PageSound, Has
<1> QED BY <1>1, <1>2, <1>3, <1>4 DEF Next, Done

\* What a failure of c is due to.
DueTo(c) ==
    \/ defects \cap Causes[c] # {}
    \/ expired /\ c \notin 2 .. 6
    \/ Disturbed(c)
    \/ c = 12 /\ opts.writeID \in Ids /\ ~users[opts.writeID].present

\* P1.01 to P1.06 and P1.09 to P1.11 fail for what is wrong with the first page,
\* and with the answers they get.
LEMMA ReadsDueTo ==
    ASSUME SuiteInv, SoundInv, Check, at \in (1 .. 6) \cup (9 .. 11), ~blocked,
           verdicts'[at] = "FAIL"
    PROVE  DueTo(at)
<1> USE CausesAre
<1>1. clock = 1 /\ (at > 1 => PageSound /\ Kept) BY DEF SuiteInv, SoundInv
<1>2. ASSUME NEW fails \in BOOLEAN, OnRecords(fails) PROVE fails
  BY <1>2, Concluded DEF OnRecords, Verdict
<1>3. CASE at = 1
  <2> DEFINE bad == \E x \in {"unreachable", "rejects", "undecodable"} : Has(x)
  <2>1. CheckCredential BY <1>3, WhichCase
  <2>2. expired \/ bad BY <2>1, Concluded DEF CheckCredential
  <2>3. bad => defects \cap Causes[1] # {} BY DEF Has
  <2> HIDE DEF bad
  <2> QED BY <1>3, <2>2, <2>3 DEF DueTo
<1>4. CASE at = 2
  <2>1. CheckEnvelope BY <1>4, WhichCase
  <2>2. page.total < Cardinality(page.records) \/ (page.records # {} /\ Has("zeroBased"))
    BY <2>1, Concluded DEF CheckEnvelope, Verdict
  <2> QED BY <1>1, <1>4, <2>2 DEF PageSound, DueTo, Has
<1>5. CASE at = 3
  <2>1. OnRecords(0 \in page.ids \/ Cardinality(page.ids) < Cardinality(page.records))
    BY <1>5, WhichCase DEF CheckStableIDs
  <2>2. 0 \in page.ids \/ Cardinality(page.ids) < Cardinality(page.records) BY <1>2, <2>1
  <2> QED BY <1>1, <1>5, <2>2 DEF PageSound, DueTo, Has
<1>6. CASE at = 4
  <2>1. OnRecords(page.noActive # {}) BY <1>6, WhichCase DEF CheckActiveFlag
  <2>2. page.noActive # {} BY <1>2, <2>1
  <2> QED BY <1>1, <1>6, <2>2 DEF PageSound, DueTo, Has
<1>7. CASE at = 5
  <2>1. OnRecords(Has("mailbox")) \/ Conclude("SKIP") BY <1>7, WhichCase DEF CheckAlias
  <2>2. OnRecords(Has("mailbox")) BY <2>1, Concluded
  <2>3. Has("mailbox") \in BOOLEAN BY DEF Has
  <2>4. Has("mailbox") BY <1>2, <2>2, <2>3
  <2> QED BY <1>7, <2>4 DEF DueTo, Has
<1>8. CASE at = 6
  <2> DEFINE fails == page.noStamp # {} \/ page.newest > clock + 1
  <2>1. OnRecords(fails) BY <1>8, WhichCase DEF CheckMeta
  <2>2. fails \in BOOLEAN OBVIOUS
  <2>3. fails
    <3> HIDE DEF fails
    <3> QED BY <1>2, <2>1, <2>2
  <2> QED BY <1>1, <1>8, <2>3 DEF PageSound, DueTo, Has
<1>9. CASE at = 9
  <2> DEFINE sample == page.sample
  <2>1. CheckSingleRead BY <1>9, WhichCase
  <2>2. sample # 0 /\ (GetUser(sample) # {sample} \/ ServedActive(sample) = "nil")
    BY <2>1, Concluded DEF CheckSingleRead, Verdict
  <2>3. sample \in Ids BY <2>2 DEF SuiteInv, ConformanceTypeOK
  <2>4. sample \notin touched => users[sample].present BY <1>1, <1>9, <2>2 DEF PageSound
  <2> HIDE DEF sample
  <2>5. users[sample].active # "nil" BY <1>1, <1>9, <2>3 DEF Kept
  <2>6. \/ expired \/ Has("noSingleRead") \/ Has("wrongRecord") \/ Has("noActive")
        \/ sample \in touched
    BY <2>2, <2>4, <2>5 DEF GetUser, ServedActive
  <2> QED BY <1>9, <2>6 DEF DueTo, Disturbed, Has, sample
<1>10. CASE at = 10
  <2>1. CheckUnknownID BY <1>10, WhichCase
  <2>2. expired \/ Has("unknownFound") \/ Has("unknown400")
    BY <2>1, Concluded DEF CheckUnknownID, Verdict
  <2> QED BY <1>10, <2>2 DEF DueTo, Has
<1>11. CASE at = 11
  <2>1. CheckProviderConfig BY <1>11, WhichCase
  <2>2. Has("noFilterSupport") \/ Has("noPatchSupport")
    BY <2>1, Concluded DEF CheckProviderConfig, Verdict
  <2> QED BY <1>11, <2>2 DEF DueTo, Has
<1>12. \/ at = 1 \/ at = 2 \/ at = 3 \/ at = 4 \/ at = 5 \/ at = 6
       \/ at = 9 \/ at = 10 \/ at = 11
  OBVIOUS
<1> QED BY <1>3, <1>4, <1>5, <1>6, <1>7, <1>8, <1>9, <1>10, <1>11, <1>12

\* No other record carries the value a case of phase two writes to a record that
\* others left alone, whatever they did to the rest of the directory.
LEMMA NoConflict ==
    ASSUME SuiteInv, SoundInv, at \in {12, 13}, step # 1, Probe # Reserved,
           held.id \notin touched
    PROVE  held.id \in Ids /\ users[held.id].present /\ ~Conflicts(held.id, Written)
<1>1. /\ held.id \in Ids /\ users[held.id].present
      /\ held.externalId = users[held.id].externalId
      /\ at = 12 => Value(held) # 0
      /\ at = 13 => held.externalId # 0
  BY DEF SuiteInv, Requests, Holds
<1>2. Kept /\ (at = 12 => Unbound) BY DEF SoundInv
<1>3. CASE Written = users[held.id].externalId
  <2>1. Written # 0 BY <1>1 DEF Written
  <2> QED BY <1>1, <1>2, <1>3, <2>1 DEF Kept, Conflicts
<1>4. CASE Written # users[held.id].externalId
  <2>1. at = 12 /\ Written = opts.probe /\ Written # 0 BY <1>1, <1>4 DEF Written, Value
  <2>2. Written = Probe BY <2>1, OptionTypes DEF SuiteInv
  <2>3. \A e \in Ids : users[e].externalId # Written
    BY <1>2, <2>1, <2>2 DEF Unbound
  <2> QED BY <1>1, <2>3 DEF Conflicts
<1> QED BY <1>3, <1>4

\* P2.01 to P2.03 fail for the answer to a write, for a record that was missing
\* from the start, or because others touched the record they write to.
LEMMA WritesDueTo ==
    ASSUME SuiteInv, SoundInv, Check, at \in 12 .. 14, ~blocked, Probe # Reserved,
           verdicts'[at] = "FAIL"
    PROVE  DueTo(at)
<1>1. step # 1 /\ held.id \in touched => Disturbed(at)
  BY DEF SuiteInv, Requests, Holds, Disturbed
<1>2. CASE NoTarget BY <1>2, Concluded DEF NoTarget
<1>3. CASE ReadTarget
  <2>1. opts.writeID \in Ids BY <1>3, OptionTypes DEF ReadTarget, SuiteInv
  <2>2. ~Conclude("SKIP") /\ ~Continue BY Concluded, Continued
  <2>3. GetUser(opts.writeID) = {} /\ at = 12 BY <1>3, <2>2 DEF ReadTarget
  <2>4. expired \/ Has("noSingleRead") \/ ~users[opts.writeID].present
    <3>1. users[opts.writeID].present => opts.writeID \in Everything
      BY <2>1 DEF Everything, Matched
    <3> QED BY <2>3, <3>1 DEF GetUser
  <2>5. "noSingleRead" \in Causes[12] BY CausesAre
  <2> QED BY <2>1, <2>3, <2>4, <2>5 DEF DueTo, Has
<1>4. CASE CheckWriteBack \/ CheckIdempotent
  <2>1. at \in {12, 13} /\ step # 1 BY <1>4 DEF CheckWriteBack, CheckIdempotent
  <2>2. ~Accepts(held.id, Written) \/ Has("misanswers")
    BY <1>4, Concluded, Continued DEF CheckWriteBack, CheckIdempotent, Verdict, Written
  <2>3. held.id \notin touched => Accepts(held.id, Written) \/ expired \/ Has("refusesPatch")
    BY <2>1, NoConflict DEF Accepts
  <2>4. "refusesPatch" \in Causes[at] /\ "misanswers" \in Causes[at] BY <2>1, CausesAre
  <2> QED BY <1>1, <2>1, <2>2, <2>3, <2>4 DEF DueTo, Has
<1>5. CASE CheckForbidden
  <2>1. at = 14 /\ step # 1 BY <1>5 DEF CheckForbidden
  <2>2. held.id \notin touched => users[held.id].present
    BY <2>1 DEF SuiteInv, Requests, Holds
  <2>3. expired \/ Has("acceptsActive") \/ Has("oddRefusal") \/ ~users[held.id].present
    BY <1>5, <2>1, Concluded DEF CheckForbidden, Verdict
  <2>4. Causes[14] = {"acceptsActive", "oddRefusal"} BY CausesAre
  <2> QED BY <1>1, <2>1, <2>2, <2>3, <2>4 DEF DueTo, Has
<1> QED BY <1>2, <1>3, <1>4, <1>5, WhichCase

(****************************************************************************)
(* What a report says.                                                      *)
(****************************************************************************)

\* The suite, in a directory that may be quiet.
ReportInv == SuiteInv /\ QuietInv

\* A failure has its cause, and a missing write target was one that was named.
Blamed == \A c \in Cases : verdicts[c] = "FAIL" => DueTo(c)

\* A step in a quiet directory is one of the suite, or nothing happens.
LEMMA QuietSteps ==
    ASSUME SuiteInv, [Next]_vars, Quiet'
    PROVE  Quiet /\ (Check \/ UNCHANGED vars)
<1>1. ~Others BY OthersKeep DEF Quiet
<1>2. ~Expire BY DEF Expire, Quiet
<1>3. CASE Check BY <1>3, CheckShape DEF Same, Quiet
<1>4. CASE UNCHANGED vars BY <1>4 DEF vars, Quiet
<1> QED BY <1>1, <1>2, <1>3, <1>4 DEF Next, Done

\* A step of the suite changes the entry of the case that runs, and no other.
LEMMA OneEntry ==
    ASSUME SuiteInv, Check
    PROVE  /\ defects' = defects /\ opts' = opts /\ Quiet' = Quiet
           /\ \A c \in Cases : c # at => verdicts'[c] = verdicts[c]
<1>1. Same BY CheckShape
<1>2. \A c \in Cases : c # at => verdicts'[c] = verdicts[c]
  <2>1. ASSUME NEW s, Conclude(s) PROVE <1>2!:
    BY <2>1 DEF Conclude, SuiteInv, ConformanceTypeOK
  <2>2. CASE Continue BY <2>2 DEF Continue
  <2> QED BY <2>1, <2>2, CheckShape
<1> QED BY <1>1, <1>2 DEF Same, Quiet

\* The directory and the suite stay in order.
LEMMA ReportStep ==
    ASSUME ReportInv, [Next]_vars
    PROVE  ReportInv'
BY SuiteStep, QuietStep DEF ReportInv

\* The verdict a case is given when it fails is due.
LEMMA FailuresDue ==
    ASSUME ReportInv, SoundInv, Check, Probe # Reserved, verdicts'[at] = "FAIL"
    PROVE  DueTo(at)
<1>1. at \in 1 .. 14 BY CheckShape, CausesAre DEF ReportInv
<1>2. CASE blocked
  <2>1. verdicts'[at] = "SKIP" BY <1>2, WhichCase, Concluded DEF BlockedSkip, ReportInv
  <2> QED BY <2>1
<1>3. CASE ~blocked /\ at \in {7, 8}
  <2>1. CASE Quiet
    <3>1. Fair(at) BY <2>1, EveryCaseFair DEF ReportInv
    <3> QED BY <1>3, <3>1 DEF Fair, DueTo
  <2>2. CASE ~Quiet BY <1>3, <2>2 DEF Quiet, DueTo, Disturbed
  <2> QED BY <2>1, <2>2
<1>4. CASE ~blocked /\ at \in (1 .. 6) \cup (9 .. 11) BY <1>4, ReadsDueTo DEF ReportInv
<1>5. CASE ~blocked /\ at \in 12 .. 14 BY <1>5, WritesDueTo DEF ReportInv
<1>6. at \in {7, 8} \/ at \in (1 .. 6) \cup (9 .. 11) \/ at \in 12 .. 14 BY <1>1
<1> QED BY <1>2, <1>3, <1>4, <1>5, <1>6

\* A failure that had its cause goes on having it: what the suite writes makes no
\* record appear or disappear, and what others do is on record.
LEMMA BlamedStep ==
    ASSUME ReportInv, SoundInv, Blamed, [Next]_vars, Probe # Reserved
    PROVE  Blamed'
<1> SUFFICES ASSUME NEW c \in Cases, verdicts'[c] = "FAIL" PROVE DueTo(c)' BY DEF Blamed
<1> USE DEF DueTo, Disturbed, Has
<1>1. CASE UNCHANGED vars BY <1>1 DEF Blamed, vars
<1>2. CASE Expire BY <1>2 DEF Expire, Blamed
<1>3. CASE Others
  <2>1. PICK d \in Ids : OthersAt(d) BY <1>3, OthersKeep DEF ReportInv
  <2>2. /\ verdicts' = verdicts /\ defects' = defects /\ opts' = opts /\ page' = page
        /\ expired' = expired
    BY <1>3, OthersKeep DEF suiteVars, ReportInv
  <2>3. /\ touched' = touched \cup {d}
        /\ opts.writeID \in Ids /\ opts.writeID # d
           => users'[opts.writeID] = users[opts.writeID]
    BY <2>1 DEF OthersAt
  <2>4. DueTo(c) BY <2>2 DEF Blamed
  <2>5. opts.writeID \in touched' => (c = 12 => Disturbed(c)') BY <2>2
  <2> QED BY <2>2, <2>3, <2>4, <2>5
<1>4. CASE Check
  <2>1. /\ defects' = defects /\ opts' = opts
        /\ c # at => verdicts'[c] = verdicts[c]
    BY <1>4, OneEntry DEF ReportInv
  <2>2. expired' = expired /\ touched' = touched BY <1>4, CheckShape DEF Same, ReportInv
  <2>3. \A d \in Ids : users'[d].present = users[d].present
    BY <1>4, WritesKeep DEF ReportInv, SoundInv
  <2>4. DueTo(c)
    <3>1. CASE c = at BY <1>4, <3>1, FailuresDue
    <3>2. CASE c # at BY <2>1, <3>2 DEF Blamed
    <3> QED BY <3>1, <3>2
  <2>5. c = 9 => page' = page
    <3>1. ASSUME at = 1, c # 1 PROVE FALSE
      <4>1. verdicts[c] = "none" BY <3>1, CausesAre DEF ReportInv, SuiteInv, Order
      <4> QED BY <2>1, <3>1, <4>1
    <3> QED BY <1>4, <3>1, CheckShape DEF ReportInv
  <2> QED BY <2>1, <2>2, <2>3, <2>4, <2>5
<1> QED BY <1>1, <1>2, <1>3, <1>4 DEF Next, Done

\* A case that passes goes on being one that ruled its defects out.
LEMMA NoticedStep ==
    ASSUME ReportInv, Noticed, [Next]_vars
    PROVE  Noticed'
<1> SUFFICES ASSUME NEW c \in Cases, verdicts'[c] = "PASS", Quiet', page'.total > PageSize,
                    ~Has("caps")'
             PROVE  defects' \cap RuledOut(c) = {}
  BY DEF Noticed, RuledOut
<1>1. Quiet /\ (Check \/ UNCHANGED vars) BY QuietSteps DEF ReportInv
<1>2. CASE UNCHANGED vars BY <1>1, <1>2 DEF Noticed, Has, vars
<1>3. CASE Check
  <2>1. /\ defects' = defects
        /\ c # at => verdicts'[c] = verdicts[c]
    BY <1>3, OneEntry DEF ReportInv
  <2>2. CASE c = at
    <3>1. Fair(c) BY <1>1, <1>3, <2>2, EveryCaseFair DEF ReportInv
    <3> QED BY <2>1, <3>1 DEF Fair, Has
  <2>3. CASE c # at
    <3>1. at # 1
      <4>1. ASSUME at = 1 PROVE verdicts[c] = "none"
        BY <4>1, CausesAre DEF ReportInv, SuiteInv, Order
      <4> QED BY <2>1, <2>3, <4>1
    <3>2. page' = page BY <1>3, <3>1, CheckShape DEF ReportInv
    <3> QED BY <1>1, <2>1, <2>3, <3>2 DEF Noticed, Has
  <2> QED BY <2>2, <2>3
<1> QED BY <1>1, <1>2, <1>3

\* A case of conformance.go fails only for what it notices, for a request that is
\* not answered in time, or because others changed what it looks at after it was
\* read: neither what an earlier case read, nor a skip, nor what the suite itself
\* wrote makes a later one fail, also when records come without an id or with
\* another's, and others change the directory, the reserved record included, in
\* between.  The probe value is one the directory does not hold yet, and what
\* others publish is well formed.
THEOREM FailuresHaveTheirCause == Probe # Reserved /\ WellFormed => (Spec => []Blame)
<1> SUFFICES ASSUME Probe # Reserved, WellFormed PROVE Spec => []Blame OBVIOUS
<1> DEFINE Inv == ReportInv /\ SoundInv /\ Blamed
<1>1. Init => Inv
  <2>1. Init => Blamed BY DEF Init, Blamed
  <2> QED BY <2>1, SuiteInit, QuietInit, SoundInit DEF ReportInv
<1>2. Inv /\ [Next]_vars => Inv'
  BY ReportStep, SoundStep, BlamedStep DEF ReportInv
<1>3. Inv => Blame BY DEF Blamed, Blame, DueTo
<1> HIDE DEF Inv
<1> QED BY <1>1, <1>2, <1>3, PTL DEF Spec

\* A report without failures and skips means what it says but for P1.10 and P2.01:
\* every defect that they do not overlook is noticed, whatever others the server
\* has and whatever the size of a page (an id repeated that P1.03 cannot see on a
\* page of one record is left to P1.07).
THEOREM ReportIsThorough == Spec => []Thorough
<1>1. Init => ReportInv /\ Noticed
  <2>1. Init => Noticed BY DEF Init, Noticed
  <2> QED BY <2>1, SuiteInit, QuietInit DEF ReportInv
<1>2. ReportInv /\ Noticed /\ [Next]_vars => (ReportInv /\ Noticed)'
  BY ReportStep, NoticedStep
<1>3. ReportInv /\ Noticed => Thorough
  <2> SUFFICES ASSUME ReportInv, Noticed, AllPassed, Quiet, page.total > PageSize, ~Has("caps"),
                      NEW x \in defects, x \notin Overlooked
               PROVE  FALSE
    BY DEF Thorough
  <2>1. \A c \in Cases : verdicts[c] = "PASS"
    <3>1. \A c \in Cases : verdicts[c] # "none"
      BY CausesAre DEF AllPassed, Over, ReportInv, SuiteInv, Order
    <3>2. \A c \in Cases : verdicts[c] \in {"none", "PASS", "FAIL", "SKIP"}
      BY DEF ReportInv, SuiteInv, ConformanceTypeOK
    <3> QED BY <3>1, <3>2 DEF AllPassed, OK
  <2>2. \A c \in Cases : x \notin RuledOut(c) BY <2>1 DEF Noticed
  <2>3. x \in Defects BY DEF ReportInv, SuiteInv, ConformanceTypeOK
  <2>4. DOMAIN Causes = Cases BY DEF Causes, Cases
  <2>5. x # "noConfig" /\ x # "caps" BY <2>2, CausesAre DEF RuledOut, Has
  <2>6. x \in UNION {Causes[c] : c \in DOMAIN Causes} BY <2>3, <2>5 DEF Defects, Permitted
  <2>7. PICK c \in DOMAIN Causes : x \in Causes[c] BY <2>6
  <2>8. CASE c # 3 BY <2>2, <2>4, <2>7, <2>8 DEF RuledOut
  <2>9. CASE c = 3
    <3>1. x \in Causes[7] /\ 7 \in Cases BY <2>7, <2>9, CausesAre
    <3> QED BY <2>2, <3>1 DEF RuledOut
  <2> QED BY <2>8, <2>9
<1> QED BY <1>1, <1>2, <1>3, PTL DEF Spec
================================================================================
