------------------------------- MODULE Promises --------------------------------
(****************************************************************************)
(* The reconciler and its store, step by step, implement what the two       *)
(* abstract specifications promise.                                         *)
(****************************************************************************)
EXTENDS Syncer

\* The access the local base gives each person.
AccessOf(d) == IF NotFound(d) THEN "none"
               ELSE IF helppers[d].enabled THEN "enabled" ELSE "disabled"

Contract == INSTANCE StoreContract
Prov == INSTANCE Provisioning WITH words <- said, access <- [d \in Ids |-> AccessOf(d)]

\* However two workers interleave, fail and race to create the same people, the
\* base keeps one helpper per person, under an id minted once and for good.
KeepsStoreContract == Contract!ContractSpec

\* However pages, changes, failures and workers interleave, access follows the
\* word of the directory: a missing flag is not a closure, and absence from a
\* full walk disables nobody.
OnlyOnItsWord == Prov!ProvSpec
================================================================================
