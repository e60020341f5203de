-------------------------------- MODULE Client ---------------------------------
(****************************************************************************)
(* One request of the SCIM client (scim/client.go, do and attempt): slots   *)
(* of the shared limiter, the retry loop, Retry-After and back-off, and the *)
(* context that may end the call while it sleeps.  The client is safe for   *)
(* concurrent use, so several calls share the limiter.                      *)
(*                                                                          *)
(* Paths, headers, bodies and what an answer means to the caller are left   *)
(* out: an answer is retried or it is not.  Time may pass between any two   *)
(* steps, also between the slot a call was given and its request.           *)
(****************************************************************************)
EXTENDS Integers

CONSTANTS
    Calls,       \* calls that run at the same time
    MaxRetries,  \* requests after the first (4 unless configured)
    Interval,    \* time between two slots of the limiter; 0: no limiter
    Unit, Cap,   \* first and largest delay of the back-off
    Hints,       \* the waits that Retry-After asks for
    Patience,    \* how long the contexts of the calls live
    MaxClock     \* bound on the clock

ASSUME ClientAssumption ==
    /\ MaxRetries \in Nat
    /\ Interval \in Nat
    /\ Unit \in Nat \ {0}
    /\ Cap \in Nat \ {0}
    /\ Hints \subseteq Nat
    /\ Patience \subseteq Nat
    /\ MaxClock \in Nat

VARIABLES
    clock,   \* time.Now
    next,    \* limiter.next
    call,    \* the local variables of each call of do, see Call
    slot     \* history: the last slot each call was given (0: none)

vars == <<clock, next, call, slot>>

Places == {"idle", "limit", "throttled", "send", "flight", "pause", "returned"}

\* Where it is, the loop counter, when its timer fires and its context expires,
\* and until when the directory told it to wait.
Call == [at: Places, attempt: 0 .. MaxRetries, wake: Nat, deadline: Nat,
         notBefore: Nat]

NewCall == [at |-> "idle", attempt |-> 0, wake |-> 0, deadline |-> 0,
            notBefore |-> 0]

\* Every variable has its type, and the loop counter stays within the retries.
ClientTypeOK ==
    /\ clock \in Nat \ {0}
    /\ next \in Nat
    /\ call \in [Calls -> Call]
    /\ slot \in [Calls -> Nat]

Init ==
    /\ clock = 1
    /\ next = 0
    /\ call = [c \in Calls |-> NewCall]
    /\ slot = [c \in Calls |-> 0]

--------------------------------------------------------------------------------
(* Pure parts.                                                              *)

Expired(c) == clock >= call[c].deadline

\* Mutant: slots that nobody used are saved up.
ReserveSaved(now) == next

\* The next free slot of the limiter, never one in the past; at once without one.
Reserve(now) == IF Interval = 0 \/ next < now THEN now ELSE next

\* Mutant: one retry more.
ExhaustedLate(n) == n > MaxRetries

\* No retry is left after attempt n.
Exhausted(n) == n >= MaxRetries

\* retryAfter: what the directory asked for, in seconds or as a date, or 0.
RetryAfter == Hints \cup {0}

\* defaultBackoff: half the exponential delay plus a random half.
Delays(n) ==
    LET base == IF 2^n * Unit > Cap THEN Cap ELSE 2^n * Unit
    IN  {d \in 0 .. Cap : base \div 2 <= d /\ d <= 2 * (base \div 2)}

\* Mutant: the hint is not used.
WaitsBackoff(hint, n) == Delays(n)

\* The waits that can follow attempt n: what the directory asked for, or the
\* back-off when it did not ask.
Waits(hint, n) == IF hint > 0 THEN {hint} ELSE Delays(n)

--------------------------------------------------------------------------------
Goto(c, place) == call' = [call EXCEPT ![c] = [@ EXCEPT !.at = place]]

\* do returns: its local variables are gone.
Finish(c) == call' = [call EXCEPT ![c] = [NewCall EXCEPT !.at = "returned"]]

\* The call sleeps until t.
SleepUntil(c, place, t, notBefore) ==
    call' = [call EXCEPT ![c] = [@ EXCEPT !.at = place, !.wake = t, !.notBefore = notBefore]]

\* do is called, under a context that lives for a while.
Begin(c) ==
    /\ call[c].at = "idle"
    /\ \E p \in Patience :
          call' = [call EXCEPT ![c] = [@ EXCEPT !.at = "limit", !.deadline = clock + p]]
    /\ UNCHANGED <<clock, next, slot>>

\* limiter.wait: under its mutex a slot is reserved, and one that is still to
\* come is slept for.
TakeSlot(c) ==
    /\ call[c].at = "limit"
    /\ LET s == Reserve(clock)
       IN  /\ next' = IF Interval = 0 THEN next ELSE s + Interval
           /\ slot' = [slot EXCEPT ![c] = s]
           /\ \/ s > clock /\ SleepUntil(c, "throttled", s, call[c].notBefore)
              \/ s <= clock /\ ~Expired(c) /\ Goto(c, "send")
              \/ s <= clock /\ Expired(c) /\ Finish(c)
    /\ UNCHANGED clock

\* sleepCtx: the timer fires.
Wake(c) ==
    /\ clock >= call[c].wake
    /\ \/ call[c].at = "throttled" /\ Goto(c, "send")
       \/ /\ call[c].at = "pause"
          /\ call' = [call EXCEPT ![c] =
                       [@ EXCEPT !.at = "limit", !.attempt = call[c].attempt + 1]]
    /\ UNCHANGED <<clock, next, slot>>

\* Mutant: the pause between attempts does not watch the context.
CancelThrottled(c) ==
    /\ call[c].at = "throttled"
    /\ Expired(c)
    /\ Finish(c)
    /\ UNCHANGED <<clock, next, slot>>

\* sleepCtx: the context expires.
Cancel(c) ==
    /\ call[c].at \in {"throttled", "pause"}
    /\ Expired(c)
    /\ Finish(c)
    /\ UNCHANGED <<clock, next, slot>>

\* attempt sends the request; with an expired context none leaves, and do
\* gives up on the error.
Send(c) ==
    /\ call[c].at = "send"
    /\ IF Expired(c) THEN Finish(c) ELSE Goto(c, "flight")
    /\ UNCHANGED <<clock, next, slot>>

\* An answer that is not retried, whatever it makes of the call: a 2xx, JSON or
\* not, or a 4xx other than 429.
Answer(c) ==
    /\ call[c].at = "flight"
    /\ Finish(c)
    /\ UNCHANGED <<clock, next, slot>>

\* 429, 5xx or no answer at all; only an answer can carry Retry-After.
Trouble(c) ==
    /\ call[c].at = "flight"
    /\ \/ /\ Expired(c) \/ Exhausted(call[c].attempt)
          /\ Finish(c)
       \/ /\ ~Expired(c) /\ ~Exhausted(call[c].attempt)
          /\ \E hint \in RetryAfter : \E d \in Waits(hint, call[c].attempt) :
                SleepUntil(c, "pause", clock + d, clock + hint)
    /\ UNCHANGED <<clock, next, slot>>

Tick ==
    /\ clock < MaxClock
    /\ clock' = clock + 1
    /\ UNCHANGED <<next, call, slot>>

Step(c) ==
    TakeSlot(c) \/ Wake(c) \/ Cancel(c) \/ Send(c) \/ Answer(c) \/ Trouble(c)

Next == (\E c \in Calls : Begin(c) \/ Step(c)) \/ Tick

Spec == Init /\ [][Next]_vars

\* A call that can proceed does.  Nothing is asked of time.
FairSpec == Spec /\ \A c \in Calls : WF_vars(Step(c))

--------------------------------------------------------------------------------
\* Calls that share the limiter are spaced: a slot is given an interval after
\* every other, whoever holds it and however long a call was cancelled or kept
\* waiting, and never in the past, so an idle limiter saves up nothing.
Throttled ==
    [][\A c \in Calls : slot'[c] # slot[c] =>
          /\ slot'[c] >= clock
          /\ \A d \in Calls : slot[d] # 0 => slot'[c] >= slot[d] + Interval]_vars

\* "Honors Retry-After" (docs/INTEGRATION.md, 429): through the pause, the
\* limiter's queue and the back-off, no request leaves before its slot nor before
\* the time the directory asked for.
NotTooSoon ==
    \A c \in Calls : call[c].at \in {"send", "flight"}
                      => clock >= slot[c] /\ clock >= call[c].notBefore

\* A call whose context has expired returns, wherever it is, without any more
\* time having to pass: no sleep outlives the context.
ExpiredReturns ==
    \A c \in Calls :
        (call[c].at \notin {"idle", "returned"} /\ Expired(c)) ~> (call[c].at = "returned")
================================================================================
