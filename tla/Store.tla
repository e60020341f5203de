--------------------------------- MODULE Store ---------------------------------
(****************************************************************************)
(* The local base of helppers (store/store.go), as both implementations     *)
(* keep it: at most one row per directory id, row ids minted from a counter *)
(* and never reused, and one checkpoint.  Each operation is one atomic step *)
(* (a mutex in store/memory, one SQL statement in store/postgres).          *)
(****************************************************************************)
EXTENDS Identities

CONSTANTS
    Known,     \* ids whose helpper exists in the initial state
    FirstID    \* the id counter in that state (900000 in store/memory)

ASSUME KnownAssumption == Known \subseteq Ids
ASSUME FirstIDAssumption == FirstID \in Nat /\ \A d \in Known : d <= FirstID

VARIABLES
    helppers,    \* the row of each directory id; id 0: there is none
    nextID,      \* the last row id minted
    checkpoint   \* 0: no cycle has finished yet

storeVars == <<helppers, nextID, checkpoint>>

Helpper == [id: Nat, enabled: BOOLEAN, profile: Profiles]

StoreTypeOK ==
    /\ helppers \in [Ids -> Helpper]
    /\ nextID \in Nat
    /\ checkpoint \in Nat

\* A store whose first cycle has not finished: it may already hold helppers.
StoreInit ==
    /\ \E p \in Profiles :
          helppers = [d \in Ids |-> [id      |-> IF d \in Known THEN d ELSE 0,
                                     enabled |-> d \in Known,
                                     profile |-> p]]
    /\ nextID = FirstID
    /\ checkpoint = 0

\* HelpperByDirectoryID answers ErrNotFound.
NotFound(d) == helppers[d].id = 0

\* Mutant: no unique index.
CreateHelpperAgain(d, profile) ==
    /\ nextID' = nextID + 1
    /\ helppers' = [helppers EXCEPT ![d] =
          [id |-> nextID + 1, enabled |-> TRUE, profile |-> profile]]
    /\ UNCHANGED checkpoint

\* Creates the row of d, enabled.  The unique index makes the check and the
\* insert one step; when NotFound(d) is false the answer is ErrAlreadyExists.
CreateHelpper(d, profile) ==
    /\ NotFound(d)
    /\ nextID' = nextID + 1
    /\ helppers' = [helppers EXCEPT ![d] =
          [id |-> nextID + 1, enabled |-> TRUE, profile |-> profile]]
    /\ UNCHANGED checkpoint

\* Writes the desired state on the row whose id is `id'.  (Rows are never
\* deleted, so an id read from the store never meets ErrNotFound here.)
UpdateHelpper(id, enabled, profile) ==
    /\ helppers' = [e \in Ids |-> IF helppers[e].id = id
                                  THEN [id |-> id, enabled |-> enabled,
                                        profile |-> profile]
                                  ELSE helppers[e]]
    /\ UNCHANGED <<nextID, checkpoint>>

EnabledHelppers == {d \in Ids : helppers[d].id # 0 /\ helppers[d].enabled}

\* Unconditional: the store does not compare the new value with the old one.
SetCheckpoint(at) ==
    /\ checkpoint' = at
    /\ UNCHANGED <<helppers, nextID>>
================================================================================
