----------------------------- MODULE StoreContract -----------------------------
(****************************************************************************)
(* What store.Store promises to the reconciler, whatever keeps the rows: at *)
(* most one helpper per directory id, an id that is minted once and stays   *)
(* with its helpper, an update that reaches one row, and a checkpoint that  *)
(* no other operation touches.  A refused creation may use up an id, as a   *)
(* database sequence does.  The suite of store/storetest tests these same   *)
(* promises, one call at a time.                                            *)
(****************************************************************************)
EXTENDS Identities

VARIABLES
    helppers,    \* the row of each directory id; id 0: there is none
    nextID,      \* no id above it has been minted
    checkpoint   \* 0: no cycle has finished yet

contractVars == <<helppers, nextID, checkpoint>>

\* A base that may already hold helppers, every one with an id of its own.
ContractInit ==
    /\ helppers \in [Ids -> [id: Nat, enabled: BOOLEAN, profile: Profiles]]
    /\ nextID \in Nat
    /\ \A d \in Ids : helppers[d].id <= nextID
    /\ \A d, e \in Ids : helppers[d].id = helppers[e].id /\ d # e => helppers[d].id = 0
    /\ checkpoint = 0

\* CreateHelpper of somebody unknown: a fresh id, enabled.
Insert(d) ==
    /\ helppers[d].id = 0
    /\ nextID' \in Nat /\ nextID' > nextID
    /\ \E p \in Profiles :
          helppers' = [helppers EXCEPT ![d] = [id |-> nextID', enabled |-> TRUE, profile |-> p]]
    /\ UNCHANGED checkpoint

\* CreateHelpper answered ErrAlreadyExists, or the insert was rolled back.
Refuse ==
    /\ nextID' \in Nat /\ nextID' > nextID
    /\ UNCHANGED <<helppers, checkpoint>>

\* UpdateHelpper of somebody known: the id stays.
Overwrite(d) ==
    /\ helppers[d].id # 0
    /\ \E e \in BOOLEAN, p \in Profiles :
          helppers' = [helppers EXCEPT ![d] = [id |-> @.id, enabled |-> e, profile |-> p]]
    /\ UNCHANGED <<nextID, checkpoint>>

\* SetCheckpoint, to a time and never to the zero time.
MoveCheckpoint ==
    /\ checkpoint' \in Nat \ {0}
    /\ UNCHANGED <<helppers, nextID>>

ContractNext ==
    \/ \E d \in Ids : Insert(d) \/ Overwrite(d)
    \/ Refuse
    \/ MoveCheckpoint

ContractSpec == ContractInit /\ [][ContractNext]_contractVars
================================================================================
