------------------------------- MODULE Directory -------------------------------
(****************************************************************************)
(* The partner's SCIM directory, as the reconciler meets it: a list of      *)
(* records that people outside this program change at any moment, a         *)
(* filtered and paged reading of that list, and one writable attribute,     *)
(* externalId.  The directory is not part of the repository; it is modelled *)
(* from how scim/ and directory/ use it and from the double kept in         *)
(* scimtest/scimtest.go.                                                    *)
(*                                                                          *)
(* Time is a natural number; 0 is Go's zero time.Time.  `clock' is the true *)
(* time.  A record is stamped with a lastModified that may lag behind the   *)
(* clock (a commit that becomes visible late) or lead it (a fast clock).    *)
(****************************************************************************)
EXTENDS Identities

CONSTANTS
    Hired,            \* the ids the directory lists in the initial state
    InitialExternal,  \* externalId of each of them then (0: none)
    Statuses,         \* the values of `active' the directory's side publishes
    MaxLag,           \* how far a stamp may lie behind the clock
    MaxLead,          \* how far a stamp may lie ahead of it
    Unstamped,        \* TRUE: a new record may come without lastModified
    Retention,        \* TRUE: inactive records are dropped after retention
    MaxClock,         \* bound on the clock
    MaxChanges        \* bound on the changes made on the directory's side

ASSUME HiredAssumption ==
    /\ Hired \subseteq Ids
    /\ InitialExternal \in [Ids -> Nat]
    /\ Statuses \subseteq {"true", "false", "nil"}
ASSUME TimeAssumption ==
    /\ MaxLag \in Nat
    /\ MaxLead \in Nat
    /\ Unstamped \in BOOLEAN
    /\ Retention \in BOOLEAN
    /\ MaxClock \in Nat
    /\ MaxChanges \in Nat

VARIABLES
    users,    \* the records, by id
    said,     \* history: the values of `active' the directory ever published
    clock,    \* true time
    changes   \* how many changes the directory's side has made

dirVars == <<users, said, clock, changes>>

\* scim.User cut down to what the reconciler reads.  "nil" is a record whose
\* active flag is missing; it stands for every record validate refuses.
User == [present: BOOLEAN, active: {"true", "false", "nil"}, profile: Profiles,
         externalId: Nat, lastModified: Nat]

DirTypeOK ==
    /\ users \in [Ids -> User]
    /\ said \in [Ids -> SUBSET {"true", "false"}]
    /\ clock \in Nat \ {0}
    /\ changes \in Nat

DirInit ==
    /\ \E p \in Profiles :
          users = [d \in Ids |-> [present      |-> d \in Hired,
                                  active       |-> "true",
                                  profile      |-> p,
                                  externalId   |-> InitialExternal[d],
                                  lastModified |-> 1]]
    /\ said = [d \in Ids |-> IF d \in Hired THEN {"true"} ELSE {}]
    /\ clock = 1
    /\ changes = 0

--------------------------------------------------------------------------------
(* Reading: one GET /Users is answered from one consistent state.           *)

\* The records a list request selects: all of them, or those modified after
\* `since' (filter "meta.lastModified gt since").
Matched(all, since) ==
    {d \in Ids : /\ users[d].present
                 /\ \/ all
                    \/ /\ users[d].lastModified # 0
                       /\ users[d].lastModified > since}

\* The 1-based position of a record in the list S.
Rank(d, S) == Cardinality({e \in S : e <= d})

\* The records of S a request for startIndex and count returns.
PageOf(S, startIndex, count) ==
    {d \in S : Rank(d, S) >= startIndex /\ Rank(d, S) < startIndex + count}

--------------------------------------------------------------------------------
(* Writing.                                                                 *)

\* The stamps a change made now can carry.
Stamps == {t \in (clock - MaxLag) .. (clock + MaxLead) : t >= 1}

Change ==
    /\ changes < MaxChanges
    /\ changes' = changes + 1
    /\ UNCHANGED clock

\* Somebody is hired, suspended, reactivated, closed or renamed, or the record
\* is damaged: it is written anew and stamped.
Publish(d) ==
    /\ Change
    /\ \E a \in Statuses, p \in Profiles,
          t \in Stamps \cup (IF Unstamped /\ ~users[d].present THEN {0} ELSE {}) :
          /\ users' = [users EXCEPT ![d] =
                [present |-> TRUE, active |-> a, profile |-> p,
                 externalId |-> IF @.present THEN @.externalId ELSE 0,
                 lastModified |-> t]]
          /\ said' = [said EXCEPT ![d] = @ \cup ({a} \ {"nil"})]

\* A damaged record is repaired in place: its stamp does not move.
Repair(d) ==
    /\ Change
    /\ users[d].present
    /\ users[d].active = "nil"
    /\ \E a \in Statuses \ {"nil"} :
          /\ users' = [users EXCEPT ![d] = [@ EXCEPT !.active = a]]
          /\ said' = [said EXCEPT ![d] = @ \cup {a}]

\* The record loses the externalId written back to it.
Lose(d) ==
    /\ Change
    /\ users[d].present
    /\ users[d].externalId # 0
    /\ \E t \in Stamps :
          users' = [users EXCEPT ![d] = [@ EXCEPT !.externalId = 0, !.lastModified = t]]
    /\ UNCHANGED said

\* An inactive record leaves the directory at the end of its retention.
Remove(d) ==
    /\ Retention
    /\ Change
    /\ users[d].present
    /\ users[d].active = "false"
    /\ users' = [users EXCEPT ![d] = [@ EXCEPT !.present = FALSE]]
    /\ UNCHANGED said

DirNext == \E d \in Ids : Publish(d) \/ Repair(d) \/ Lose(d) \/ Remove(d)

\* 409: the value is bound to another identity.
Conflicts(d, v) == \E e \in Ids \ {d} : users[e].present /\ users[e].externalId = v

\* PATCH of externalId: the partner's own write stamps the record too.
Bind(d, v) ==
    \E t \in Stamps :
       users' = [users EXCEPT ![d] = [@ EXCEPT !.externalId = v, !.lastModified = t]]
================================================================================
