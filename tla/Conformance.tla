------------------------------ MODULE Conformance -------------------------------
(****************************************************************************)
(* The conformance suite of conformance/ and cmd/conformance: fourteen      *)
(* cases run in order against a live directory, each with a verdict.  What  *)
(* one case read is carried to later ones (the first page, a sample record, *)
(* the newest stamp), while people outside the suite go on changing the     *)
(* directory between two requests.                                          *)
(*                                                                          *)
(* The server is Directory's list behind an interface that has any few of   *)
(* the defects the cases look for.  One step is one request; a case without *)
(* a request is a step of its own.  The text of reports is left out.        *)
(****************************************************************************)
EXTENDS Directory, FiniteSetsExt, Sequences

CONSTANTS
    PageSize,     \* Options.PageSize
    Probe,        \* a value for Options.ProbeExternalID (0: none)
    Reserved      \* the record kept for write probing

ASSUME ConformanceAssumption ==
    /\ PageSize \in Nat \ {0}
    /\ Probe \in Nat
    /\ Reserved \in Ids

\* What can be wrong with a server, by the cases that notice it.  An id that is
\* missing or repeated in a list is P1.03's to report, but P1.07 tells records
\* apart by their ids and fails for it too.
Causes == <<
    {"unreachable", "rejects", "undecodable"},         \* P1.01
    {"noTotal", "zeroBased"},                          \* P1.02
    {"repeatsID", "emptyID"},                          \* P1.03
    {"noActive"},                                      \* P1.04
    {"mailbox"},                                       \* P1.05
    {"noStamp", "future"},                             \* P1.06
    {"ignoresStart", "ignoresCount",
     "repeatsID", "emptyID"},                          \* P1.07
    {"ignoresFilter", "refusesFilter", "emptyFilter"}, \* P1.08
    {"noSingleRead", "wrongRecord", "noActive"},       \* P1.09
    {"unknownFound", "unknown400"},                    \* P1.10
    {"noFilterSupport", "noPatchSupport"},             \* P1.11
    {"refusesPatch", "misanswers", "noSingleRead"},    \* P2.01
    {"refusesPatch", "misanswers"},                    \* P2.02
    {"acceptsActive", "oddRefusal"} >>                 \* P2.03

\* What docs/CONFORMANCE.md says P1.10 and P2.01 notice, and their code does
\* not: a 404 that is not SCIM ("an HTML 404 is not enough"), and a PATCH that
\* is answered with the value and not stored ("reflects it").
Overlooked == {"untyped404", "dropsPatch"}

\* Pages shorter than asked for, which SCIM permits, and a server without
\* ServiceProviderConfig.
Permitted == {"caps", "noConfig"}

Defects == (UNION {Causes[c] : c \in DOMAIN Causes}) \cup Overlooked \cup Permitted

\* The servers tried: none to two defects at once.
Faulty == {{}} \cup {{x, y} : x \in Defects, y \in Defects}

VARIABLES
    defects,   \* what is wrong with this server
    opts,      \* Options: [alias, writeID, probe]
    expired,   \* the overall deadline has passed
    at,        \* the case that runs
    step,      \* the request of it that is next
    page,      \* the first page: its records, their ids, the first one's id (0:
               \* empty or no records), which lack an attribute, total, newest
    held,      \* the record writeTarget read
    blocked,   \* set when the directory is unusable
    verdicts,  \* the report
    found,     \* history: the directory when the suite began
    touched    \* history: the records others have changed since then

suiteVars == <<defects, opts, expired, at, step, page, held, blocked, verdicts, found>>
vars == <<users, said, clock, changes, defects, opts, expired, at, step, page, held,
          blocked, verdicts, found, touched>>

Cases == 1 .. Len(Causes)
NoPage == [records |-> {}, ids |-> {}, sample |-> 0, noActive |-> {}, noStamp |-> {},
           total |-> 0, newest |-> 0]
NoRecord == [id |-> 0, externalId |-> 0, active |-> "nil"]

\* The options tried: everything enabled, no probe value, nothing enabled.
Options ==
    {[alias |-> TRUE, writeID |-> Reserved, probe |-> Probe],
     [alias |-> TRUE, writeID |-> Reserved, probe |-> 0],
     [alias |-> FALSE, writeID |-> 0, probe |-> 0]}

\* Every variable has its type.
ConformanceTypeOK ==
    /\ DirTypeOK
    /\ defects \subseteq Defects
    /\ opts \in Options
    /\ expired \in BOOLEAN
    /\ at \in 1 .. Len(Causes) + 1
    /\ step \in 1 .. 3
    /\ page \in [records: SUBSET Ids, ids: SUBSET (Ids \cup {0}), sample: Ids \cup {0},
                 noActive: SUBSET Ids, noStamp: SUBSET Ids, total: Nat, newest: Nat]
    /\ held \in [id: Ids \cup {0}, externalId: Nat, active: {"true", "false", "nil"}]
    /\ blocked \in BOOLEAN
    /\ verdicts \in [Cases -> {"none", "PASS", "FAIL", "SKIP"}]
    /\ found \in [Ids -> User]
    /\ touched \subseteq Ids

\* A directory of any size; the reserved record may carry an externalId already.
Init ==
    /\ \E n \in {0} \cup Ids, p \in Profiles, x \in {0, Reserved} :
          users = [d \in Ids |-> [present      |-> d <= n,
                                  active       |-> IF d = Reserved THEN "true" ELSE "false",
                                  profile      |-> p,
                                  externalId   |-> IF d = Reserved THEN x ELSE 0,
                                  lastModified |-> 1]]
    /\ said = [d \in Ids |-> {users[d].active} \ {"nil"}]
    /\ clock = 1
    /\ changes = 0
    /\ defects \in Faulty
    /\ opts \in Options
    /\ expired = FALSE
    /\ at = 1
    /\ step = 1
    /\ page = NoPage
    /\ held = NoRecord
    /\ blocked = FALSE
    /\ verdicts = [c \in Cases |-> "none"]
    /\ found = users
    /\ touched = {}

--------------------------------------------------------------------------------
(* How this server answers.                                                 *)

Has(x) == x \in defects

\* The stamp and the flag a record is served with.  A fast clock upstream puts
\* stamps more than an hour (one unit) ahead.
ServedStamp(d) ==
    IF Has("noStamp") THEN 0 ELSE users[d].lastModified + IF Has("future") THEN 2 ELSE 0
ServedActive(d) == IF Has("noActive") THEN "nil" ELSE users[d].active

\* The records a list request selects: all, or those after an instant.
Everything == Matched(TRUE, 0)
After(t) ==
    IF Has("ignoresFilter") THEN Everything
    ELSE IF Has("emptyFilter") THEN {}
    ELSE {d \in Everything : ServedStamp(d) > t}

\* The records of a page of S, and the totalResults that comes with it.
Page(S, startIndex) ==
    PageOf(S, IF Has("ignoresStart") THEN 1 ELSE startIndex,
              IF Has("ignoresCount") THEN Cardinality(S)
              ELSE IF Has("caps") THEN 1 ELSE PageSize)
TotalResults(S) == IF Has("noTotal") THEN 0 ELSE Cardinality(S)

First(S) == CHOOSE d \in S : \A e \in S : d <= e

\* The id a list gives a record: none, that of the first record, or its own.
ServedID(d) ==
    IF Has("emptyID") THEN 0 ELSE IF Has("repeatsID") THEN First(Everything) ELSE d

\* The records GET /Users/d may return; none: it fails.
GetUser(d) ==
    IF expired \/ Has("noSingleRead") \/ ~users[d].present THEN {}
    ELSE IF Has("wrongRecord") /\ Everything # {d} THEN Everything \ {d}
    ELSE {d}

\* PATCH of externalId is accepted.
Accepts(d, v) ==
    ~expired /\ ~Has("refusesPatch") /\ users[d].present /\ ~Conflicts(d, v)

\* What an accepted PATCH of externalId does.
Patched(d, v) ==
    IF Has("dropsPatch") THEN UNCHANGED users ELSE Bind(d, v)

--------------------------------------------------------------------------------
(* The runner.                                                              *)

\* The case is over.
Conclude(status) ==
    /\ verdicts' = [verdicts EXCEPT ![at] = status]
    /\ at' = at + 1
    /\ step' = 1
    /\ held' = NoRecord

\* The case needs another request.
Continue ==
    /\ step' = step + 1
    /\ UNCHANGED <<at, verdicts>>

Same == UNCHANGED <<said, clock, changes, defects, opts, expired, found, touched>>

\* Mutant: only a rejected credential stops the suite.
CheckCredentialOnly ==
    /\ at = 1
    /\ IF expired \/ \E x \in {"unreachable", "rejects", "undecodable"} : Has(x)
       THEN /\ blocked' = Has("rejects")
            /\ Conclude("FAIL")
       ELSE /\ UNCHANGED blocked
            /\ Conclude("PASS")
    /\ UNCHANGED <<users, page>> /\ Same

\* P1.01: the first page, kept for the cases that follow.
CheckCredential ==
    /\ at = 1
    /\ IF expired \/ \E x \in {"unreachable", "rejects", "undecodable"} : Has(x)
       THEN /\ blocked' = TRUE
            /\ Conclude("FAIL")
            /\ UNCHANGED page
       ELSE /\ LET S == Page(Everything, 1)
               IN  page' = [records  |-> S,
                            ids      |-> {ServedID(d) : d \in S},
                            sample   |-> IF S = {} THEN 0 ELSE ServedID(First(S)),
                            noActive |-> {d \in S : ServedActive(d) = "nil"},
                            noStamp  |-> {d \in S : ServedStamp(d) = 0},
                            total    |-> TotalResults(Everything),
                            newest   |-> Max({0} \cup {ServedStamp(d) : d \in S})]
            /\ Conclude("PASS")
            /\ UNCHANGED blocked
    /\ UNCHANGED users /\ Same

\* An unusable directory: the remaining cases are skipped.
BlockedSkip ==
    /\ blocked /\ at \in Cases
    /\ Conclude("SKIP")
    /\ UNCHANGED <<users, page, blocked>> /\ Same

\* A case of phase one that runs.
Runs(c) == at = c /\ ~blocked /\ UNCHANGED <<users, page, blocked>> /\ Same

Verdict(fails) == Conclude(IF fails THEN "FAIL" ELSE "PASS")

\* A verdict on the records of the first page, when it has any.
OnRecords(fails) == IF page.records = {} THEN Conclude("SKIP") ELSE Verdict(fails)

\* P1.02: the paging metadata.
CheckEnvelope ==
    Runs(2) /\ Verdict(\/ page.total < Cardinality(page.records)
                       \/ page.records # {} /\ Has("zeroBased"))

\* P1.03: ids are there and unique.
CheckStableIDs ==
    Runs(3) /\ OnRecords(0 \in page.ids \/ Cardinality(page.ids) < Cardinality(page.records))

\* P1.04: active on every record.
CheckActiveFlag == Runs(4) /\ OnRecords(page.noActive # {})

\* P1.05: aliases, when a domain was given.
CheckAlias ==
    Runs(5) /\ IF opts.alias THEN OnRecords(Has("mailbox")) ELSE Conclude("SKIP")

\* P1.06: stamps there, and not far ahead of the local clock.
CheckMeta == Runs(6) /\ OnRecords(page.noStamp # {} \/ page.newest > clock + 1)

\* Mutant: any second page will do.
CheckPaginationAny ==
    /\ Runs(7)
    /\ IF page.total < 2
       THEN Conclude("SKIP")
       ELSE Verdict(Cardinality(page.records) > PageSize \/ expired \/ Page(Everything, 2) = {})

\* P1.07: the second page starts with another record than the first did.
CheckPagination ==
    /\ Runs(7)
    /\ IF page.total < 2
       THEN Conclude("SKIP")
       ELSE LET second == Page(Everything, 2)
            IN  Verdict(\/ Cardinality(page.records) > PageSize
                        \/ expired
                        \/ second = {}
                        \/ ServedID(First(second)) = page.sample)

\* Mutant: the filter is tried without a stamp to filter on.
CheckFilterUndated ==
    /\ Runs(8) /\ step = 1
    /\ IF \/ expired \/ Has("refusesFilter")
          \/ TotalResults(After(page.newest + 1)) >= page.total /\ page.total > 0
       THEN Conclude("FAIL")
       ELSE Continue /\ UNCHANGED held

\* P1.08: a filter narrows the list ...
CheckFilterNarrows ==
    /\ Runs(8) /\ step = 1
    /\ IF page.newest = 0
       THEN Conclude("SKIP")
       ELSE IF \/ expired \/ Has("refusesFilter")
               \/ TotalResults(After(page.newest + 1)) >= page.total /\ page.total > 0
       THEN Conclude("FAIL")
       ELSE Continue /\ UNCHANGED held

\* ... and since the epoch it selects everything.
CheckFilterEpoch ==
    /\ Runs(8) /\ step = 2
    /\ Verdict(expired \/ TotalResults(After(0)) < page.total)

\* P1.09: the sample, read by its id.
CheckSingleRead ==
    /\ Runs(9)
    /\ IF page.sample = 0
       THEN Conclude("SKIP")
       ELSE Verdict(\/ GetUser(page.sample) # {page.sample}
                    \/ ServedActive(page.sample) = "nil")

\* P1.10: an id that cannot exist.  Any 404 will do: decodeError makes a
\* scim.Error of whatever body comes with it.
CheckUnknownID ==
    Runs(10) /\ Verdict(expired \/ Has("unknownFound") \/ Has("unknown400"))

\* P1.11: what the directory says it supports, when it says so.
CheckProviderConfig ==
    /\ Runs(11)
    /\ IF expired \/ Has("noConfig")
       THEN Conclude("SKIP")
       ELSE Verdict(Has("noFilterSupport") \/ Has("noPatchSupport"))

\* Phase two without a record to write to.
NoTarget ==
    /\ at \in 12 .. 14 /\ ~blocked
    /\ opts.writeID = 0
    /\ Conclude("SKIP")
    /\ UNCHANGED <<users, page, blocked>> /\ Same

\* Mutant: the probe is written whatever the record carries.
ValueProbe(r) == opts.probe

\* The value P2.01 writes: the one the record carries, or the probe.
Value(r) == IF r.externalId # 0 THEN r.externalId ELSE opts.probe

\* writeTarget: the record is read, and what was read decides what is written.
ReadTarget ==
    /\ at \in 12 .. 14 /\ ~blocked /\ opts.writeID # 0
    /\ step = 1
    /\ \/ /\ GetUser(opts.writeID) = {}
          /\ Conclude(IF at = 12 THEN "FAIL" ELSE "SKIP")
       \/ \E d \in GetUser(opts.writeID) :
             LET r == [id |-> d, externalId |-> users[d].externalId,
                       active |-> ServedActive(d)]
             IN  IF \/ at = 12 /\ Value(r) = 0
                    \/ at = 13 /\ r.externalId = 0
                    \/ at = 14 /\ r.active = "nil"
                 THEN Conclude("SKIP")
                 ELSE Continue /\ held' = r
    /\ UNCHANGED <<users, page, blocked>> /\ Same

\* P2.01: the value is written, and the answer carries it.
CheckWriteBack ==
    /\ at = 12 /\ step = 2
    /\ IF Accepts(held.id, Value(held))
       THEN Patched(held.id, Value(held)) /\ Verdict(Has("misanswers"))
       ELSE UNCHANGED users /\ Conclude("FAIL")
    /\ UNCHANGED <<page, blocked>> /\ Same

\* Mutant: one write too many.
CheckIdempotentThrice ==
    /\ at = 13 /\ step >= 2
    /\ IF Accepts(held.id, held.externalId)
       THEN /\ Patched(held.id, held.externalId)
            /\ IF step <= 3 /\ ~Has("misanswers")
               THEN Continue /\ UNCHANGED held
               ELSE Verdict(Has("misanswers"))
       ELSE UNCHANGED users /\ Conclude("FAIL")
    /\ UNCHANGED <<page, blocked>> /\ Same

\* P2.02: the value the record carries is written twice.
CheckIdempotent ==
    /\ at = 13 /\ step \in {2, 3}
    /\ IF Accepts(held.id, held.externalId)
       THEN /\ Patched(held.id, held.externalId)
            /\ IF step = 2 /\ ~Has("misanswers")
               THEN Continue /\ UNCHANGED held
               ELSE Verdict(Has("misanswers"))
       ELSE UNCHANGED users /\ Conclude("FAIL")
    /\ UNCHANGED <<page, blocked>> /\ Same

\* P2.03: a write to active, of the value it was read with, is to be refused.
CheckForbidden ==
    /\ at = 14 /\ step = 2
    /\ IF ~expired /\ Has("acceptsActive") /\ users[held.id].present
       THEN /\ users' = [users EXCEPT ![held.id] =
                           [@ EXCEPT !.active = held.active, !.lastModified = clock]]
            /\ Conclude("FAIL")
       ELSE /\ UNCHANGED users
            /\ Verdict(expired \/ Has("oddRefusal") \/ ~users[held.id].present)
    /\ UNCHANGED <<page, blocked>> /\ Same

--------------------------------------------------------------------------------
\* A bound: a server with two defects is only tried when nothing else goes on.
Busy == Cardinality(defects) <= 1

\* Others change the directory, the record reserved for the suite included.
Others ==
    /\ Busy
    /\ \E d \in Ids : /\ Publish(d) \/ Lose(d) \/ Remove(d)
                      /\ touched' = touched \cup {d}
    /\ UNCHANGED suiteVars

\* The deadline of the run passes, or the directory goes away: from now on no
\* request is answered.
Expire ==
    /\ Busy
    /\ ~expired /\ at \in Cases
    /\ expired' = TRUE
    /\ UNCHANGED <<users, said, clock, changes,
                   defects, opts, at, step, page, held, blocked, verdicts, found, touched>>

\* The report is printed and the process exits.
Done == at = Len(Causes) + 1 /\ UNCHANGED vars

Check ==
    \/ CheckCredential \/ BlockedSkip
    \/ CheckEnvelope \/ CheckStableIDs \/ CheckActiveFlag \/ CheckAlias \/ CheckMeta
    \/ CheckPagination \/ CheckFilterNarrows \/ CheckFilterEpoch
    \/ CheckSingleRead \/ CheckUnknownID \/ CheckProviderConfig
    \/ NoTarget \/ ReadTarget \/ CheckWriteBack \/ CheckIdempotent \/ CheckForbidden

Next == Check \/ Others \/ Expire \/ Done

Spec == Init /\ [][Next]_vars

--------------------------------------------------------------------------------
(* What a report is worth.                                                  *)

\* Nothing but the suite's own writes happened to the directory.
Quiet == touched = {} /\ ~expired

Over == at = Len(Causes) + 1

\* Report.OK, which is also what the command's exit status says.
OK == \A c \in Cases : verdicts[c] # "FAIL"

\* "Every acceptance criterion for phases 1 and 2 is met."
AllPassed == Over /\ OK /\ \A c \in Cases : verdicts[c] # "SKIP"

\* What a report without failures and skips is worth: with more records than
\* one page and a server that fills its pages, the server has no defect but the
\* two that P1.10 and P2.01 overlook, although they are documented to notice
\* them.
Thorough ==
    AllPassed /\ Quiet /\ page.total > PageSize /\ ~Has("caps") => defects \subseteq Overlooked

\* Others changed what the case c looks at after the first page was read: the
\* list, the sample, or the record it writes to.
Disturbed(c) ==
    \/ c \in {7, 8} /\ touched # {}
    \/ c = 9 /\ page.sample \in touched
    \/ c \in 12 .. 14 /\ (opts.writeID \in touched \/ (Has("wrongRecord") /\ touched # {}))

\* A case fails only for a defect it notices, for an answer that did not come in
\* time, or because others changed what it looks at while the suite ran: never
\* for what an earlier case read, skipped or wrote.  In particular no case fails
\* for a defect it overlooks.
Blame ==
    \A c \in Cases :
       verdicts[c] = "FAIL"
       => \/ defects \cap Causes[c] # {}
          \/ expired /\ c \notin 2 .. 6
          \/ Disturbed(c)
          \/ c = 12 /\ ~users[opts.writeID].present

\* One unusable directory is one failure: the rest is skipped with a reason
\* "instead of reporting fourteen failures for one problem".
OneProblem ==
    verdicts[1] = "FAIL" => \A c \in Cases \ {1} : verdicts[c] \in {"none", "SKIP"}

\* What the suite leaves behind, although others change any record between its
\* reads and its writes, and although the server may answer with another record
\* or accept what it should refuse: a record that nobody else touched is as the
\* suite found it but for the probe value where it had none, and no record says
\* of a person what the directory never said.  For a record that others touched
\* nothing more holds: P2.03 puts back the `active' it read.
LeavesAsFound ==
    \A d \in Ids :
       /\ users[d].active \in said[d] \cup {"nil"}
       /\ d \notin touched =>
            /\ users[d].active = found[d].active
            /\ \/ users[d].externalId = found[d].externalId
               \/ /\ found[d].externalId = 0 /\ users[d].externalId = opts.probe
                  /\ d = opts.writeID \/ Has("wrongRecord")
================================================================================
