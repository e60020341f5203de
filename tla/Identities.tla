------------------------------ MODULE Identities -------------------------------
(****************************************************************************)
(* What the directory and the local base share: the people, and what is    *)
(* known of each besides whether they may work.                            *)
(****************************************************************************)
EXTENDS Integers, FiniteSets

CONSTANTS
    Ids,       \* directory ids, numbered in the order the directory lists them
    Profiles   \* values of (login, displayName) taken together

ASSUME IdsAssumption == Ids \subseteq Nat \ {0} /\ IsFiniteSet(Ids)
ASSUME ProfilesAssumption == Profiles # {}
================================================================================
