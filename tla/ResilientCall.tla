---------------------------- MODULE ResilientCall ----------------------------
(***************************************************************************)
(* A call of an outside service through the four resilience decorators, in *)
(* the order in which llm/factory.py and auth/openfga.py stack them:       *)
(*                                                                         *)
(*   circuit_breaker(retry_with_backoff(with_timeout(with_bulkhead(f))))   *)
(*                                                                         *)
(* Callers are coroutines of one event loop, so what lies between two      *)
(* awaits is one step.  The awaits are: the wait for a slot of the         *)
(* bulkhead's semaphore, the call of the service, the sleep before the     *)
(* next attempt.  pybreaker and asyncio.Semaphore are modelled by what     *)
(* they do.                                                                *)
(***************************************************************************)
EXTENDS Integers, Sequences, FiniteSets

CONSTANTS
    Callers,           \* coroutines that call the service, one call at a time
    Impatient,         \* those that go through a bulkhead with wait=False
    Limit,             \* slots of the bulkhead
    FailMax,           \* fail_max of the breaker
    ResetTimeout,      \* ticks the breaker stays open
    MaxAttempts,       \* attempts of a call
    OverloadAttempts   \* attempts of a call that has met an overload error

ASSUME CallersAssumption == IsFiniteSet(Callers) /\ Impatient \subseteq Callers
ASSUME LimitAssumption == Limit \in Nat \ {0}
ASSUME BreakerAssumption == FailMax \in Nat \ {0} /\ ResetTimeout \in Nat
(* "more attempts" for overload errors, resilience/config.py:121 *)
ASSUME AttemptsAssumption ==
    MaxAttempts \in Nat \ {0} /\ OverloadAttempts \in Nat /\ MaxAttempts <= OverloadAttempts

VARIABLES
    breaker,     \* the shared circuit breaker
    free,        \* _value of the semaphore
    queue,       \* its waiters that have not been woken, first come first
    pc,          \* where each caller is
    attempt,     \* attempt_number of its call
    overloaded   \* switched_to_overload_config

vars == <<breaker, free, queue, pc, attempt, overloaded>>

InCall == {"waiting", "granted", "running", "sleeping"}

(* No call: "failed" if the last one ended with RetryExhaustedError. *)
Ready == {"idle", "failed"}

-----------------------------------------------------------------------------
(* The breaker.  counter counts as far as fail_max, all that is compared   *)
(* with it; age counts the ticks since the breaker opened.  ended and      *)
(* failed are history: the calls, and the failed calls, recorded since the *)
(* breaker was last closed.                                                *)

Bump(n) == IF n < FailMax THEN n + 1 ELSE n

Breakers == [state: {"closed", "open"}, counter: 0..FailMax, age: 0..ResetTimeout,
             ended: 0..FailMax, failed: 0..FailMax]

NewBreaker == [state |-> "closed", counter |-> 0, age |-> 0, ended |-> 0, failed |-> 0]

(* Mutant of Close: entering the closed state keeps the old counter. *)
CloseKeepingCounter(b) == [NewBreaker EXCEPT !.counter = b.counter]

(* breaker.close(): the closed state starts a new count. *)
Close(b) == NewBreaker

Refusing(b) == b.state = "open" /\ b.age < ResetTimeout

(* before_call of a breaker that does not refuse.  When the timeout has    *)
(* elapsed pybreaker enters the half-open state and calls the function for *)
(* its trial; the function is a coroutine function, so the call returns at *)
(* once, is taken for a success, and the breaker is closed before          *)
(* anything has been sent.                                                 *)
BeforeCall(b) == IF b.state = "open" THEN Close(b) ELSE b

(* Mutant of OnSuccess: the success of any call closes an open breaker. *)
OnSuccessClosing(b) ==
    IF b.state = "open" THEN Close(b)
    ELSE [b EXCEPT !.counter = Bump(@), !.ended = Bump(@)]

(* A call returned: the wrapper adds one to the counter, the one that      *)
(* fail_max is compared with, and on_success does nothing.                 *)
OnSuccess(b) == [b EXCEPT !.counter = Bump(@), !.ended = Bump(@)]

(* A call failed: one more, and a closed breaker opens at fail_max. *)
OnFailure(b) ==
    LET counted == [b EXCEPT !.counter = Bump(@), !.ended = Bump(@), !.failed = Bump(@)]
    IN  IF b.state = "closed" /\ counted.counter >= FailMax
        THEN [counted EXCEPT !.state = "open", !.age = 0]
        ELSE counted

-----------------------------------------------------------------------------
(* The bulkhead's semaphore. *)

Slots == [free |-> free, queue |-> queue, woken |-> {}]

(* The first k waiters get a slot each; they run when the loop reaches them. *)
Wake(s, k) == [free  |-> s.free - k,
               queue |-> SubSeq(s.queue, k + 1, Len(s.queue)),
               woken |-> {s.queue[i] : i \in 1..k}]

WakeOne(s) == Wake(s, IF s.queue = <<>> THEN 0 ELSE 1)

WakeAll(s) == Wake(s, IF s.free < Len(s.queue) THEN s.free ELSE Len(s.queue))

Returned(s) == [s EXCEPT !.free = @ + 1]

Abandoned(s, c) ==
    LET at == CHOOSE i \in DOMAIN s.queue : s.queue[i] = c
    IN  [s EXCEPT !.queue = [i \in 1..(Len(s.queue) - 1) |->
                               IF i < at THEN s.queue[i] ELSE s.queue[i + 1]]]

(* Mutant of Leave: a waiter cancelled after it was woken forgets its slot. *)
LeaveForgetting(c) ==
    CASE pc[c] = "running" -> WakeOne(Returned(Slots))
      [] pc[c] = "granted" -> WakeAll(Slots)
      [] pc[c] = "waiting" -> WakeAll(Abandoned(Slots, c))
      [] pc[c] = "sleeping" -> Slots

(* Mutant of Leave: a waiter cancelled after it was woken returns its slot *)
(* and wakes nobody.                                                       *)
LeaveSilently(c) ==
    CASE pc[c] = "running" -> WakeOne(Returned(Slots))
      [] pc[c] = "granted" -> Returned(Slots)
      [] pc[c] = "waiting" -> WakeAll(Abandoned(Slots, c))
      [] pc[c] = "sleeping" -> Slots

(* The slots after caller c has left "async with semaphore", by a return   *)
(* or by an exception, or has given up waiting there.                      *)
Leave(c) ==
    CASE pc[c] = "running" -> WakeOne(Returned(Slots))
      [] pc[c] = "granted" -> WakeAll(Returned(Slots))
      [] pc[c] = "waiting" -> WakeAll(Abandoned(Slots, c))
      [] pc[c] = "sleeping" -> Slots

(* Semaphore.locked(): a woken waiter comes before anyone new. *)
Locked == free = 0 \/ \E d \in Callers : pc[d] \in {"waiting", "granted"}

(* with_bulkhead(wait=False) looks at _value alone. *)
Rejects(c) == c \in Impatient /\ free = 0

-----------------------------------------------------------------------------
(* Moves caller c and the waiters that were woken. *)
Move(c, where, s) ==
    /\ free' = s.free
    /\ queue' = s.queue
    /\ pc' = [d \in Callers |-> IF d = c THEN where
                                ELSE IF d \in s.woken THEN "granted" ELSE pc[d]]

(* Mutant of LastAttempt: one more attempt than max_attempts. *)
LastAttemptPlusOne(over) == (IF over THEN OverloadAttempts ELSE MaxAttempts) + 1

LastAttempt(over) == IF over THEN OverloadAttempts ELSE MaxAttempts

(* Attempt n of c's call failed, over tells whether the call has met an    *)
(* overload error by now: sleep before the next one, or give up with       *)
(* RetryExhaustedError, which the breaker b records as a failure.          *)
AttemptFailed(c, n, over, s, b) ==
    /\ attempt' = [attempt EXCEPT ![c] = n]
    /\ overloaded' = [overloaded EXCEPT ![c] = over]
    /\ IF n >= LastAttempt(over)
       THEN Move(c, "failed", s) /\ breaker' = OnFailure(b)
       ELSE Move(c, "sleeping", s) /\ breaker' = b

(* Attempt n starts: take a slot, wait for one, or be rejected, which is a *)
(* failed attempt like any other.                                          *)
StartAttempt(c, n, over, b) ==
    \/ /\ Rejects(c)
       /\ AttemptFailed(c, n, over, Slots, b)
    \/ /\ ~Rejects(c)
       /\ attempt' = [attempt EXCEPT ![c] = n]
       /\ overloaded' = [overloaded EXCEPT ![c] = over]
       /\ breaker' = b
       /\ IF Locked
          THEN Move(c, "waiting", [Slots EXCEPT !.queue = Append(@, c)])
          ELSE Move(c, "running", [Slots EXCEPT !.free = @ - 1])

-----------------------------------------------------------------------------
Init ==
    /\ breaker = NewBreaker
    /\ free = Limit
    /\ queue = <<>>
    /\ pc = [c \in Callers |-> "idle"]
    /\ attempt = [c \in Callers |-> 0]
    /\ overloaded = [c \in Callers |-> FALSE]

(* The call of c is over, or never began: its local variables are gone. *)
Forget(c) ==
    /\ attempt' = [attempt EXCEPT ![c] = 0]
    /\ overloaded' = [overloaded EXCEPT ![c] = FALSE]

(* The breaker is open: the fallback, or CircuitBreakerOpenError. *)
BeginRefused(c) ==
    /\ pc[c] \in Ready
    /\ Refusing(breaker)
    /\ Forget(c)
    /\ Move(c, "idle", Slots)
    /\ UNCHANGED breaker

(* The breaker lets the call through to its first attempt. *)
Begin(c) ==
    /\ pc[c] \in Ready
    /\ ~Refusing(breaker)
    /\ StartAttempt(c, 1, FALSE, BeforeCall(breaker))

(* A woken waiter runs: it wakes others if slots are left, and calls f. *)
Run(c) ==
    /\ pc[c] = "granted"
    /\ Move(c, "running", WakeAll(Slots))
    /\ UNCHANGED <<breaker, attempt, overloaded>>

(* The service answers. *)
Return(c) ==
    /\ pc[c] = "running"
    /\ Move(c, "idle", Leave(c))
    /\ breaker' = OnSuccess(breaker)
    /\ Forget(c)

(* The service raises an error of any kind, an overload error or not. *)
Raise(c, overload) ==
    /\ pc[c] = "running"
    /\ AttemptFailed(c, attempt[c], overloaded[c] \/ overload, Leave(c), breaker)

(* Mutant of Timeout: only the wait for a slot is under the timeout. *)
TimeoutOfWait(c) ==
    /\ pc[c] \in {"waiting", "granted"}
    /\ AttemptFailed(c, attempt[c], overloaded[c], Leave(c), breaker)

(* The attempt's time is up, while it waits for a slot or for the service. *)
Timeout(c) ==
    /\ pc[c] \in {"waiting", "granted", "running"}
    /\ AttemptFailed(c, attempt[c], overloaded[c], Leave(c), breaker)

(* The sleep is over: next attempt, whatever the breaker says by now. *)
Retry(c) ==
    /\ pc[c] = "sleeping"
    /\ StartAttempt(c, attempt[c] + 1, overloaded[c], breaker)

(* The caller's task is cancelled from outside.  CancelledError is no      *)
(* Exception: nothing is retried and the breaker records nothing.          *)
Cancel(c) ==
    /\ pc[c] \in InCall
    /\ Move(c, "idle", Leave(c))
    /\ Forget(c)
    /\ UNCHANGED breaker

(* reset_circuit_breaker, reset_all_circuit_breakers *)
Reset ==
    /\ breaker' = Close(breaker)
    /\ UNCHANGED <<free, queue, pc, attempt, overloaded>>

Tick ==
    /\ Refusing(breaker)
    /\ breaker' = [breaker EXCEPT !.age = @ + 1]
    /\ UNCHANGED <<free, queue, pc, attempt, overloaded>>

Next ==
    \/ \E c \in Callers :
          \/ BeginRefused(c) \/ Begin(c) \/ Run(c) \/ Return(c)
          \/ \E overload \in BOOLEAN : Raise(c, overload)
          \/ Timeout(c) \/ Retry(c) \/ Cancel(c)
    \/ Reset \/ Tick

Spec == Init /\ [][Next]_vars

(* Timers fire and the loop runs what is ready.  Nothing is assumed of the *)
(* service, of the callers or of the breaker's clock.                      *)
FairSpec ==
    /\ Spec
    /\ \A c \in Callers : WF_vars(Run(c)) /\ WF_vars(Timeout(c)) /\ WF_vars(Retry(c))

-----------------------------------------------------------------------------
(* The variables have their types: a caller is at one of its awaits or has *)
(* no call, and the counters stay in their ranges.                         *)
TypeOK ==
    /\ breaker \in Breakers
    /\ free \in 0..Limit
    /\ queue \in Seq(Callers)
    /\ pc \in [Callers -> InCall \cup Ready]
    /\ attempt \in [Callers -> 0..OverloadAttempts]
    /\ overloaded \in [Callers -> BOOLEAN]

Holders == {c \in Callers : pc[c] \in {"granted", "running"}}

(* Whatever ends an attempt, and wherever it ends it (an answer, an error, *)
(* a timeout or a cancellation that races the slot being handed over), no  *)
(* slot of the bulkhead is lost or used twice.                             *)
SlotsConserved == free + Cardinality(Holders) = Limit

(* The queue of the semaphore holds the callers that wait, each once. *)
QueueExact ==
    /\ \A c \in Callers : pc[c] = "waiting" <=> \E i \in DOMAIN queue : queue[i] = c
    /\ \A i, j \in DOMAIN queue : queue[i] = queue[j] => i = j

(* No caller waits beside a free slot, unless a woken caller is still to   *)
(* run and will wake it: no wake-up is lost.                               *)
NoLostWakeup ==
    queue # <<>> /\ free > 0 => \E c \in Callers : pc[c] = "granted"

(* A call fails only after all its attempts, and never makes more: those   *)
(* of the overload configuration once it has met an overload error.        *)
AttemptsExact ==
    \A c \in Callers :
       /\ pc[c] \in InCall => attempt[c] \in 1..LastAttempt(overloaded[c])
       /\ pc[c] = "sleeping" => attempt[c] < LastAttempt(overloaded[c])
       /\ pc[c] = "failed" => attempt[c] = LastAttempt(overloaded[c])

(* The breaker opens on a failure, and not before fail_max calls have      *)
(* ended since it was last closed, by a reset or by the end of its timeout. *)
NoEarlyTrip ==
    breaker.state = "open" => breaker.ended = FailMax /\ breaker.failed > 0

(* The breaker opens after fail_max failures (resilience/config.py:113).   *)
(* The code breaks it: successes move the counter as well.                 *)
TripNeedsFailures == breaker.state = "open" => breaker.failed = FailMax

(* While the breaker is open and its timeout has not elapsed no call is    *)
(* let through, and nothing but a manual reset closes it: not the success, *)
(* nor the failure, of a call that was let through before it opened.       *)
OpenHolds ==
    [][ Refusing(breaker) /\ ~Reset =>
          /\ breaker'.state = "open"
          /\ breaker'.age >= breaker.age
          /\ \A c \in Callers : pc[c] \in Ready => pc'[c] \in Ready ]_vars

(* Every call ends, though the service may never answer and the slots may  *)
(* all be taken.                                                           *)
CallsEnd == \A c \in Callers : pc[c] \in InCall ~> pc[c] \in Ready

=============================================================================
