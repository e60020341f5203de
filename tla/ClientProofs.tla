----------------------------- MODULE ClientProofs ------------------------------
(****************************************************************************)
(* Theorems about the client, for any number of calls, retries and slots.   *)
(****************************************************************************)
EXTENDS Client, TLAPS

\* The limiter is ahead of every slot it has given.
SlotInv ==
    \A d \in Calls : slot[d] # 0 =>
        IF Interval = 0 THEN slot[d] <= clock ELSE slot[d] + Interval <= next

\* A call that sleeps, and one that is about to ask for a slot, will not be too
\* soon when it goes on.
WaitInv ==
    \A c \in Calls :
        /\ call[c].at \in {"idle", "limit", "throttled"} => clock >= call[c].notBefore
        /\ call[c].at = "throttled" => call[c].wake = slot[c]
        /\ call[c].at = "pause" => /\ call[c].wake >= call[c].notBefore
                                   /\ call[c].attempt < MaxRetries

\* The inductive invariant.
ClientInv == ClientTypeOK /\ SlotInv /\ WaitInv /\ NotTooSoon

--------------------------------------------------------------------------------
\* Pauses are natural numbers, and a pause is at least what was asked for.
LEMMA WaitType ==
    ASSUME NEW hint \in RetryAfter, NEW n, NEW d \in Waits(hint, n)
    PROVE  d \in Nat /\ hint \in Nat /\ d >= hint
<1>1. hint \in Nat BY ClientAssumption DEF RetryAfter
<1>2. CASE hint > 0 BY <1>1, <1>2 DEF Waits
<1>3. CASE hint = 0
  <2>1. d \in 0 .. Cap BY <1>3 DEF Waits, Delays
  <2> QED BY <1>3, <2>1, ClientAssumption
<1> QED BY <1>1, <1>2, <1>3

\* A slot is not in the past, and lies an interval after those given before.
LEMMA ReserveSpaced ==
    ASSUME ClientTypeOK, SlotInv
    PROVE  /\ Reserve(clock) \in Nat \ {0}
           /\ Reserve(clock) >= clock
           /\ \A d \in Calls : slot[d] # 0 => Reserve(clock) >= slot[d] + Interval
BY ClientAssumption DEF ClientTypeOK, SlotInv, Reserve

\* Every action other than Begin, TakeSlot and Tick leaves the limiter alone.
LEMMA Elsewhere ==
    ASSUME NEW c \in Calls,
           Begin(c) \/ Wake(c) \/ Cancel(c) \/ Send(c) \/ Answer(c) \/ Trouble(c)
    PROVE  UNCHANGED <<clock, next, slot>>
BY DEF Begin, Wake, Cancel, Send, Answer, Trouble

\* What an action does to the local variables of the call that takes it.
LEMMA CallStep ==
    ASSUME ClientInv, NEW c \in Calls, Begin(c) \/ Step(c)
    PROVE  \E k \in Call :
              /\ call' = [call EXCEPT ![c] = k]
              /\ k.at \in {"idle", "limit", "throttled"} => clock >= k.notBefore
              /\ k.at = "throttled" => k.wake = slot'[c]
              /\ k.at = "pause" => k.wake >= k.notBefore /\ k.attempt < MaxRetries
              /\ k.at \in {"send", "flight"} => clock >= slot'[c] /\ clock >= k.notBefore
<1> USE DEF ClientInv
<1>0. /\ call[c] \in Call /\ clock \in Nat /\ slot \in [Calls -> Nat]
      /\ NewCall \in Call
      /\ [NewCall EXCEPT !.at = "returned"] \in Call
      /\ [NewCall EXCEPT !.at = "returned"].at = "returned"
  BY ClientAssumption DEF ClientTypeOK, Call, NewCall, Places
<1>1. ASSUME Finish(c) PROVE call' = [call EXCEPT ![c] = [NewCall EXCEPT !.at = "returned"]]
  BY <1>1 DEF Finish
<1>2. CASE Finish(c) BY <1>0, <1>1, <1>2
<1>3. CASE Begin(c)
  <2>1. PICK p \in Patience :
          call' = [call EXCEPT ![c] = [@ EXCEPT !.at = "limit", !.deadline = clock + p]]
    BY <1>3 DEF Begin
  <2> DEFINE k == [call[c] EXCEPT !.at = "limit", !.deadline = clock + p]
  <2>2. clock + p \in Nat BY <1>0, ClientAssumption
  <2>3. k \in Call BY <1>0, <2>2 DEF Call, Places
  <2>4. k.at = "limit" /\ k.notBefore = call[c].notBefore BY <1>0 DEF Call
  <2>5. call[c].notBefore <= clock BY <1>3 DEF Begin, WaitInv
  <2> QED BY <2>1, <2>3, <2>4, <2>5, <1>0
<1>4. ASSUME NEW place \in {"send", "flight"}, Goto(c, place),
             clock >= slot'[c], clock >= call[c].notBefore
      PROVE  \E k \in Call :
                /\ call' = [call EXCEPT ![c] = k]
                /\ k.at = place /\ k.notBefore = call[c].notBefore
  <2> DEFINE k == [call[c] EXCEPT !.at = place]
  <2>1. k \in Call BY <1>0 DEF Call, Places
  <2>2. k.at = place /\ k.notBefore = call[c].notBefore BY <1>0 DEF Call
  <2>3. call' = [call EXCEPT ![c] = k] BY <1>4 DEF Goto
  <2> QED BY <2>1, <2>2, <2>3
<1>5. ASSUME NEW place \in {"throttled", "pause"}, NEW t \in Nat, NEW n \in Nat,
             SleepUntil(c, place, t, n)
      PROVE  \E k \in Call :
                /\ call' = [call EXCEPT ![c] = k]
                /\ k.at = place /\ k.wake = t /\ k.notBefore = n
                /\ k.attempt = call[c].attempt
  <2> DEFINE k == [call[c] EXCEPT !.at = place, !.wake = t, !.notBefore = n]
  <2>1. k \in Call BY <1>0 DEF Call, Places
  <2>2. k.at = place /\ k.wake = t /\ k.notBefore = n /\ k.attempt = call[c].attempt BY <1>0 DEF Call
  <2>3. call' = [call EXCEPT ![c] = k] BY <1>5 DEF SleepUntil
  <2> QED BY <2>1, <2>2, <2>3
<1>6. CASE TakeSlot(c)
  <2> DEFINE s == Reserve(clock)
  <2>1. s \in Nat /\ s >= clock BY ReserveSpaced
  <2>2. slot'[c] = s BY <1>0, <1>6 DEF TakeSlot
  <2>3. clock >= call[c].notBefore BY <1>6 DEF TakeSlot, WaitInv
  <2>4. call[c].notBefore \in Nat BY <1>0 DEF Call
  <2>5. \/ s > clock /\ SleepUntil(c, "throttled", s, call[c].notBefore)
        \/ s <= clock /\ Goto(c, "send")
        \/ Finish(c)
    BY <1>6 DEF TakeSlot
  <2> HIDE DEF s
  <2>6. CASE SleepUntil(c, "throttled", s, call[c].notBefore)
    BY <1>5, <2>1, <2>2, <2>3, <2>4, <2>6
  <2>7. CASE s <= clock /\ Goto(c, "send")
    BY <1>0, <1>4, <2>1, <2>2, <2>3, <2>7
  <2> QED BY <1>2, <2>5, <2>6, <2>7
<1>7. CASE Wake(c)
  <2>0. slot' = slot BY <1>7 DEF Wake
  <2>1. CASE call[c].at = "throttled" /\ Goto(c, "send")
    <3>1. clock >= slot'[c] /\ clock >= call[c].notBefore
      BY <1>7, <2>0, <2>1 DEF Wake, WaitInv
    <3> QED BY <1>4, <2>1, <3>1
  <2>2. CASE /\ call[c].at = "pause"
             /\ call' = [call EXCEPT ![c] = [@ EXCEPT !.at = "limit", !.attempt = call[c].attempt + 1]]
    <3> DEFINE k == [call[c] EXCEPT !.at = "limit", !.attempt = call[c].attempt + 1]
    <3>1. call[c].attempt + 1 \in 0 .. MaxRetries BY <1>0, <2>2, ClientAssumption DEF WaitInv, Call
    <3>2. k \in Call BY <1>0, <3>1 DEF Call, Places
    <3>3. k.at = "limit" /\ k.notBefore = call[c].notBefore BY <1>0 DEF Call
    <3>4. clock >= call[c].notBefore
      <4>1. call[c].wake \in Nat /\ call[c].notBefore \in Nat BY <1>0 DEF Call
      <4>2. clock >= call[c].wake BY <1>7 DEF Wake
      <4>3. call[c].wake >= call[c].notBefore BY <2>2 DEF WaitInv
      <4> QED BY <1>0, <4>1, <4>2, <4>3
    <3>5. call' = [call EXCEPT ![c] = k] BY <2>2
    <3> HIDE DEF k
    <3> QED BY <3>2, <3>3, <3>4, <3>5
  <2> QED BY <1>7, <2>1, <2>2 DEF Wake
<1>8. CASE Send(c)
  <2>1. slot' = slot BY <1>8 DEF Send
  <2>2. CASE Goto(c, "flight")
    <3>1. clock >= slot'[c] /\ clock >= call[c].notBefore
      BY <1>8, <2>1 DEF Send, NotTooSoon
    <3> QED BY <1>4, <2>2, <3>1
  <2> QED BY <1>2, <1>8, <2>2 DEF Send
<1>9. CASE Trouble(c)
  <2>1. CASE /\ call[c].attempt < MaxRetries
             /\ \E hint \in RetryAfter : \E d \in Waits(hint, call[c].attempt) :
                   SleepUntil(c, "pause", clock + d, clock + hint)
    <3>0. PICK hint \in RetryAfter : \E d \in Waits(hint, call[c].attempt) :
             SleepUntil(c, "pause", clock + d, clock + hint)
      BY <2>1
    <3>1. PICK d \in Waits(hint, call[c].attempt) :
             SleepUntil(c, "pause", clock + d, clock + hint)
      BY <3>0
    <3>2. d \in Nat /\ hint \in Nat /\ d >= hint BY WaitType
    <3>3. clock + d \in Nat /\ clock + hint \in Nat /\ clock + d >= clock + hint
      BY <1>0, <3>2
    <3>4. PICK k \in Call :
             /\ call' = [call EXCEPT ![c] = k]
             /\ k.at = "pause" /\ k.wake = clock + d /\ k.notBefore = clock + hint
             /\ k.attempt = call[c].attempt
      BY <1>5, <3>1, <3>3
    <3> QED BY <2>1, <3>3, <3>4
  <2>2. call[c].attempt \in Nat /\ MaxRetries \in Nat BY <1>0, ClientAssumption DEF Call
  <2> QED BY <1>2, <1>9, <2>1, <2>2 DEF Trouble, Exhausted
<1> QED BY <1>2, <1>3, <1>6, <1>7, <1>8, <1>9 DEF Step, Cancel, Answer
--------------------------------------------------------------------------------
\* The invariant holds at the start.
LEMMA ClientInvInit == Init => ClientInv
BY ClientAssumption DEF Init, ClientInv, ClientTypeOK, SlotInv, WaitInv, NotTooSoon,
                        NewCall, Call, Places

\* Every step keeps it.
LEMMA ClientInvStep ==
    ASSUME ClientInv, [Next]_vars
    PROVE  ClientInv'
<1>1. CASE UNCHANGED vars
  BY <1>1 DEF ClientInv, ClientTypeOK, SlotInv, WaitInv, NotTooSoon, vars
<1>2. CASE Tick
  <2>1. /\ clock \in Nat \ {0} /\ clock' = clock + 1 /\ next' = next /\ call' = call
        /\ slot' = slot /\ slot \in [Calls -> Nat] /\ call \in [Calls -> Call]
    BY <1>2 DEF Tick, ClientInv, ClientTypeOK
  <2>2. ClientTypeOK' BY <2>1 DEF ClientInv, ClientTypeOK
  <2>3. SlotInv' BY <2>1 DEF ClientInv, SlotInv
  <2>4. \A c \in Calls : call[c].notBefore \in Nat /\ slot[c] \in Nat BY <2>1 DEF Call
  <2>5. WaitInv' BY <2>1, <2>4 DEF ClientInv, WaitInv
  <2>6. NotTooSoon' BY <2>1, <2>4 DEF ClientInv, NotTooSoon
  <2> QED BY <2>2, <2>3, <2>5, <2>6 DEF ClientInv
<1>3. ASSUME NEW c \in Calls, Begin(c) \/ Step(c) PROVE ClientInv'
  <2>1. PICK k \in Call :
           /\ call' = [call EXCEPT ![c] = k]
           /\ k.at \in {"idle", "limit", "throttled"} => clock >= k.notBefore
           /\ k.at = "throttled" => k.wake = slot'[c]
           /\ k.at = "pause" => k.wake >= k.notBefore /\ k.attempt < MaxRetries
           /\ k.at \in {"send", "flight"} => clock >= slot'[c] /\ clock >= k.notBefore
    BY <1>3, CallStep
  <2>2. call \in [Calls -> Call] /\ slot \in [Calls -> Nat] /\ clock' = clock
    BY <1>3, Elsewhere DEF ClientInv, ClientTypeOK, Step, TakeSlot
  <2>3. ClientTypeOK' /\ SlotInv' /\ \A d \in Calls : d # c => slot'[d] = slot[d]
    <3>1. CASE TakeSlot(c)
      <4>1. /\ Reserve(clock) \in Nat \ {0} /\ Reserve(clock) >= clock
            /\ \A d \in Calls : slot[d] # 0 => Reserve(clock) >= slot[d] + Interval
        BY ReserveSpaced DEF ClientInv
      <4>2. /\ next' = IF Interval = 0 THEN next ELSE Reserve(clock) + Interval
            /\ slot' = [slot EXCEPT ![c] = Reserve(clock)]
        BY <3>1 DEF TakeSlot
      <4>3. Interval = 0 => Reserve(clock) = clock BY DEF Reserve
      <4>4. ClientTypeOK'
        BY <2>1, <2>2, <4>1, <4>2, ClientAssumption DEF ClientInv, ClientTypeOK
      <4>5. SlotInv'
        BY <2>2, <4>1, <4>2, <4>3, ClientAssumption DEF ClientInv, ClientTypeOK, SlotInv
      <4> QED BY <2>2, <4>2, <4>4, <4>5
    <3>2. CASE UNCHANGED <<clock, next, slot>>
      BY <2>1, <2>2, <3>2 DEF ClientInv, ClientTypeOK, SlotInv
    <3> QED BY <1>3, <3>1, <3>2, Elsewhere DEF Step
  <2>4. \A d \in Calls : call'[d] = IF d = c THEN k ELSE call[d] BY <2>1, <2>2
  <2>5. WaitInv' BY <2>1, <2>2, <2>3, <2>4 DEF ClientInv, WaitInv
  <2>6. NotTooSoon' BY <2>1, <2>2, <2>3, <2>4 DEF ClientInv, NotTooSoon
  <2> QED BY <2>3, <2>5, <2>6 DEF ClientInv
<1> QED BY <1>1, <1>2, <1>3 DEF Next

\* The invariant holds in every reachable state.
THEOREM ClientInvariant == Spec => []ClientInv
<1>1. Init => ClientInv BY ClientInvInit
<1>2. ClientInv /\ [Next]_vars => ClientInv' BY ClientInvStep
<1> QED BY <1>1, <1>2, PTL DEF Spec

\* The types hold, and no call makes more attempts than do's loop permits.
THEOREM AttemptsBounded == Spec => []ClientTypeOK
<1>1. ClientInv => ClientTypeOK BY DEF ClientInv
<1> QED BY <1>1, ClientInvariant, PTL

\* No request of any number of concurrent calls leaves before its slot or before
\* the time the directory asked for with Retry-After.
THEOREM NeverTooSoon == Spec => []NotTooSoon
<1>1. ClientInv => NotTooSoon BY DEF ClientInv
<1> QED BY <1>1, ClientInvariant, PTL

\* The limiter gives slots an interval apart and none in the past, whatever the
\* calls that share it do.
THEOREM LimiterSpaces == Spec => Throttled
<1>1. ClientInv /\ [Next]_vars =>
        [\A c \in Calls : slot'[c] # slot[c] =>
            /\ slot'[c] >= clock
            /\ \A d \in Calls : slot[d] # 0 => slot'[c] >= slot[d] + Interval]_vars
  <2> SUFFICES ASSUME ClientInv, [Next]_vars, NEW c \in Calls, slot'[c] # slot[c]
               PROVE  /\ slot'[c] >= clock
                      /\ \A d \in Calls : slot[d] # 0 => slot'[c] >= slot[d] + Interval
    OBVIOUS
  <2>1. PICK e \in Calls : TakeSlot(e)
    BY Elsewhere DEF Next, Step, Tick, vars
  <2>2. slot' = [slot EXCEPT ![e] = Reserve(clock)] /\ slot \in [Calls -> Nat]
    BY <2>1 DEF TakeSlot, ClientInv, ClientTypeOK
  <2>3. slot'[c] = Reserve(clock) BY <2>2
  <2> QED BY <2>3, ReserveSpaced DEF ClientInv
<1> QED BY <1>1, ClientInvariant, PTL DEF Spec, Throttled
================================================================================
