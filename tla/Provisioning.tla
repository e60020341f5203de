----------------------------- MODULE Provisioning ------------------------------
(****************************************************************************)
(* What the integration as a whole promises to the two companies: somebody  *)
(* gets access only after the directory has called them active, and loses   *)
(* it only after the directory has called them inactive.  Nothing else      *)
(* (silence, a missing flag, absence from a full walk, a failure) moves     *)
(* anybody, a person at a time moves, and nobody's account disappears.      *)
(****************************************************************************)
EXTENDS Identities

VARIABLES
    words,    \* what the directory has said of each person so far
    access    \* "none", "enabled" or "disabled"

provVars == <<words, access>>

ProvInit ==
    /\ words \in [Ids -> SUBSET {"true", "false"}]
    /\ access \in [Ids -> {"none", "enabled", "disabled"}]

\* The directory says something new of d, or the same again.
Say(d) ==
    /\ \E a \in {"true", "false"} : words' = [words EXCEPT ![d] = @ \cup {a}]
    /\ UNCHANGED access

Grant(d) ==
    /\ "true" \in words[d]
    /\ access' = [access EXCEPT ![d] = "enabled"]
    /\ UNCHANGED words

Revoke(d) ==
    /\ "false" \in words[d]
    /\ access[d] # "none"
    /\ access' = [access EXCEPT ![d] = "disabled"]
    /\ UNCHANGED words

ProvNext == \E d \in Ids : Say(d) \/ Grant(d) \/ Revoke(d)

ProvSpec == ProvInit /\ [][ProvNext]_provVars
================================================================================
