---------------------------- MODULE SyncerInvariant ----------------------------
(****************************************************************************)
(* Why no update is lost: the inductive invariant behind NoLostUpdate,      *)
(* RepairNotMissed and BindingNotLost.                                      *)
(*                                                                          *)
(* A cycle owes every dated record one of these: it has not read it yet and *)
(* still will; it holds it on its page; or it is done with it, and then the *)
(* base agrees with it, or the record changed so recently that the overlap  *)
(* covers it, or an unusable record holds the watermark below it.           *)
(****************************************************************************)
EXTENDS Syncer

\* How far ahead of the clock an accepted watermark can lie.
Lead == IF LocalSkew + FutureSkew < MaxLead THEN LocalSkew + FutureSkew ELSE MaxLead

\* With several workers a page read by one may be applied as late as one cycle
\* after another read the same record.
Slack == IF \A v, w \in Workers : v = w THEN 0 ELSE CycleTimeout

\* The condition under which nothing is lost: the overlap outlasts a cycle, and
\* the directory's list does not shrink while it is walked.
OverlapCovers ==
    /\ CycleTimeout + Slack + MaxLag + Lead < Overlap
    /\ ~Retention
    /\ ~DryRun

\* The condition under which every helpper can be bound: whatever the directory
\* carries at the start is the id the base already has for that person.
OwnBindings == \A d \in Ids : InitialExternal[d] \in {0} \cup (Known \cap {d})

Busy(w) == pc[w] # "idle"

\* Local variables have their initial values between cycles.
IdleInv ==
    \A w \in Workers : pc[w] = "idle" =>
        walk[w] = NewWalk /\ todo[w] = {} /\ cur[w] = 0

\* No cycle outlives its context.
TimeInv ==
    \A w \in Workers : Busy(w) =>
        cycle[w].started <= clock /\ clock <= cycle[w].started + CycleTimeout

\* Stamps and what is computed from them are not far in the future.
StampInv ==
    /\ \A d \in Ids : users[d].lastModified <= clock + MaxLead
    /\ \A w \in Workers : walk[w].high <= clock + MaxLead
    /\ \A w \in Workers : \A d \in Ids : snap[w][d].lastModified <= clock + MaxLead
    /\ checkpoint = 0 \/ checkpoint <= clock + Lead
    /\ \A w \in Workers : Busy(w) =>
          cycle[w].cp = 0 \/ cycle[w].cp <= cycle[w].started + Lead

\* Row ids are minted once.
MintInv ==
    /\ \A d \in Ids : helppers[d].id <= nextID
    /\ \A d, e \in Ids : helppers[d].id = helppers[e].id /\ helppers[d].id # 0 => d = e

\* Between the lookup and the end of apply there is a record in hand.
CurInv ==
    \A w \in Workers :
        pc[w] \in {"create", "reread", "update", "patch"} => cur[w] \in Ids

\* What is known of it.
HandInv ==
    \A w \in Workers :
        /\ pc[w] \in {"create", "update"} => Usable(snap[w][cur[w]])
        /\ pc[w] = "create" => Active(snap[w][cur[w]])
        /\ pc[w] = "update" => hand[w] = helppers[cur[w]].id /\ hand[w] # 0
        /\ pc[w] = "drifted" => todo[w] = {} /\ walk[w].status = "done"

\* The id a worker is about to write back is the base's own.
PatchInv ==
    \A w \in Workers :
        /\ pc[w] = "reread" => ~NotFound(cur[w])
        /\ pc[w] = "patch" => hand[w] = helppers[cur[w]].id /\ hand[w] # 0

\* So is every externalId that was not there from the start, and the helppers
\* that were keep their ids.
OursInv ==
    /\ \A d \in Ids : users[d].externalId \in {0, InitialExternal[d], helppers[d].id}
    /\ \A d \in Known : helppers[d].id = d

--------------------------------------------------------------------------------
\* The record on the page is the one in the directory, except that the
\* directory may have repaired it since.
Fresh(w, d) ==
    /\ snap[w][d].lastModified = users[d].lastModified
    /\ snap[w][d].externalId = users[d].externalId
    /\ \/ ~Usable(snap[w][d])
       \/ /\ snap[w][d].active = users[d].active
          /\ snap[w][d].profile = users[d].profile

\* Changed since the cycle of w began.
Recent(w, d) == users[d].lastModified >= cycle[w].started - MaxLag

\* Changed since any cycle that overlaps the one of w began.
Touched(w, d) == users[d].lastModified >= cycle[w].started - MaxLag - Slack

\* An unusable record holds the watermark at or below d.
Held(w, d) == walk[w].bad # 0 /\ walk[w].bad <= users[d].lastModified

\* The record carries the id of its helpper; those in X are excused.
Tied(X, d) == d \in X \/ NotFound(d) \/ users[d].externalId = helppers[d].id

Settled(X, d) == Usable(users[d]) /\ Agrees(d) /\ Tied(X, d)

Done(X, w, d) == Settled(X, d) \/ Touched(w, d) \/ Held(w, d)

\* On a page the cycle has not read; a cycle that is going to fail does not count.
Ahead(w, d) ==
    \/ walk[w].status = "broken"
    \/ /\ walk[w].status = "more"
       /\ d \in Selected(cycle[w])
       /\ Rank(d, Selected(cycle[w])) >= walk[w].startIndex

\* The cycle holds a reading of d that it may still write to the base.
InHand(w, d) == d \in todo[w] \/ (d = cur[w] /\ pc[w] \in {"create", "update"})

Owed(X, w, d) ==
    \/ d \in todo[w]
    \/ d = cur[w] /\ pc[w] = "update"
    \/ d = cur[w] /\ pc[w] = "create" /\ NotFound(d)
    \/ d \notin X /\ d = cur[w] /\ pc[w] \in {"create", "reread", "patch"}

\* What w has in hand is current, unless it was stamped after its cycle began.
Current(w) ==
    \A d \in Ids : Dated(d) /\ InHand(w, d) => Fresh(w, d) \/ Recent(w, d)

\* w owes every dated record a reading, or is done with it.
Tracks(X, w) ==
    \A d \in Ids : Dated(d) => Done(X, w, d) \/ Ahead(w, d) \/ Owed(X, w, d)

CycleInv(X) == \A w \in Workers : Busy(w) => Current(w) /\ Tracks(X, w)

\* Every dated record is settled or about to be read.
NothingLost(X) == \A d \in Ids : Dated(d) => Settled(X, d) \/ Pending(d)

\* Where a write-back can be refused, nothing is said of what is carried.
Excused == IF OwnBindings THEN {} ELSE Ids

\* The inductive invariant: nothing is lost, because every cycle under way
\* tracks every record, holds only what is current, and ends in time.
IInv ==
    /\ TypeOK
    /\ CurInv
    /\ IdleInv
    /\ TimeInv
    /\ StampInv
    /\ MintInv
    /\ HandInv
    /\ PatchInv
    /\ OursInv
    /\ CycleInv(Excused)
    /\ NothingLost(Excused)
================================================================================
