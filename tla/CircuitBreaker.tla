--------------------------- MODULE CircuitBreaker ---------------------------
(***************************************************************************)
(* The circuit breaker of CARQ (src/carq/queue/circuit_breaker.py).  call()  *)
(* holds the lock of the breaker to admit a call and again to record how it  *)
(* ended; the protected function runs between the two, so that other calls,  *)
(* the recovery timeout and reset_all come in between.                       *)
(*                                                                          *)
(* Clock time is one bit: whether the timeout has passed since the breaker  *)
(* opened.  Both counters are only compared with >= to their thresholds and  *)
(* saturate there.                                                          *)
(***************************************************************************)
EXTENDS Integers, FiniteSets

CONSTANTS
    Caller,            \* tasks that use the breaker, one call at a time each
    FailureThreshold, SuccessThreshold,
    HalfOpenMax,       \* CircuitBreakerConfig.half_open_max_calls
    MaxCancels,        \* bound: calls ended by a CancelledError
    MaxResets          \* bound: calls of reset_all

ASSUME BreakerAssumption ==
    /\ FailureThreshold \in Nat \ {0}
    /\ SuccessThreshold \in Nat \ {0}
    /\ HalfOpenMax \in Nat \ {0}
    /\ MaxCancels \in Nat
    /\ MaxResets \in Nat

VARIABLES
    state, failure_count, success_count,
    half_open_calls,   \* calls admitted since the breaker is HALF_OPEN
    expired,           \* OPEN for longer than the recovery timeout
    flight,            \* flight[c]: c's call was admitted as "normal", as a
                       \* "probe" of this half-open period, or is "late": it
                       \* was admitted before the period began
    good,              \* successes recorded in this half-open period
    spoiled,           \* probes of this half-open period that were cancelled
    healthy,           \* the protected service answers without errors
    cancels, resets

counters == <<failure_count, success_count, half_open_calls>>
vars == <<state, counters, expired, flight, good, spoiled, healthy, cancels, resets>>

InFlight == {c \in Caller : flight[c] # "idle"}
Probes == {c \in Caller : flight[c] = "probe"}

Init ==
    /\ state = "CLOSED"
    /\ failure_count = 0 /\ success_count = 0 /\ half_open_calls = 0
    /\ expired = FALSE
    /\ flight = [c \in Caller |-> "idle"]
    /\ good = 0 /\ spoiled = 0
    /\ healthy \in BOOLEAN
    /\ cancels = 0 /\ resets = 0

Saturated(n, limit) == IF n < limit THEN n + 1 ELSE limit

-----------------------------------------------------------------------------
(* Admission *)

AdmitClosed(c) ==
    /\ state = "CLOSED"
    /\ flight' = [flight EXCEPT ![c] = "normal"]
    /\ UNCHANGED <<state, counters, expired, good, spoiled>>

\* Bug: _reset keeps the successes counted before the breaker opened.
BugAdmitExpired(c) ==
    /\ state = "OPEN" /\ expired
    /\ state' = "HALF_OPEN"
    /\ failure_count' = 0 /\ half_open_calls' = 1
    /\ flight' = [d \in Caller |-> IF d = c THEN "probe"
                                   ELSE IF d \in InFlight THEN "late" ELSE "idle"]
    /\ expired' = FALSE /\ good' = 0 /\ spoiled' = 0
    /\ UNCHANGED success_count

\* The first call after the timeout turns the breaker HALF_OPEN.
AdmitExpired(c) ==
    /\ state = "OPEN" /\ expired
    /\ state' = "HALF_OPEN"
    /\ failure_count' = 0 /\ success_count' = 0 /\ half_open_calls' = 1
    /\ flight' = [d \in Caller |-> IF d = c THEN "probe"
                                   ELSE IF d \in InFlight THEN "late" ELSE "idle"]
    /\ expired' = FALSE /\ good' = 0 /\ spoiled' = 0

\* Bug: one probe too many.
BugAdmitProbe(c) ==
    /\ state = "HALF_OPEN" /\ half_open_calls <= HalfOpenMax
    /\ half_open_calls' = half_open_calls + 1
    /\ flight' = [flight EXCEPT ![c] = "probe"]
    /\ UNCHANGED <<state, failure_count, success_count, expired, good, spoiled>>

AdmitProbe(c) ==
    /\ state = "HALF_OPEN" /\ half_open_calls < HalfOpenMax
    /\ half_open_calls' = half_open_calls + 1
    /\ flight' = [flight EXCEPT ![c] = "probe"]
    /\ UNCHANGED <<state, failure_count, success_count, expired, good, spoiled>>

Admit(c) ==
    /\ flight[c] = "idle"
    /\ AdmitClosed(c) \/ AdmitExpired(c) \/ AdmitProbe(c)
    /\ UNCHANGED <<healthy, cancels, resets>>

\* CircuitBreakerOpenError
Reject(c) ==
    /\ flight[c] = "idle"
    /\ \/ state = "OPEN" /\ ~expired
       \/ state = "HALF_OPEN" /\ half_open_calls >= HalfOpenMax
    /\ UNCHANGED vars

-----------------------------------------------------------------------------
(* Outcome.  It is recorded in whatever state the breaker is by then. *)

Closes == state = "HALF_OPEN" /\ success_count + 1 >= SuccessThreshold

Opens == state = "HALF_OPEN" \/ (state = "CLOSED" /\ failure_count + 1 >= FailureThreshold)

Succeed(c) ==
    /\ c \in InFlight
    /\ failure_count' = 0
    /\ success_count' = IF Closes THEN 0 ELSE Saturated(success_count, SuccessThreshold)
    /\ state' = IF Closes THEN "CLOSED" ELSE state
    /\ good' = IF state = "HALF_OPEN" THEN good + 1 ELSE good
    /\ flight' = [flight EXCEPT ![c] = "idle"]
    /\ UNCHANGED <<half_open_calls, expired, spoiled, healthy, cancels, resets>>

\* Bug: a failed probe leaves the breaker HALF_OPEN.
BugFail(c) ==
    /\ c \in InFlight
    /\ ~healthy
    /\ failure_count' = Saturated(failure_count, FailureThreshold)
    /\ state' = IF state = "CLOSED" /\ Opens THEN "OPEN" ELSE state
    /\ flight' = [flight EXCEPT ![c] = "idle"]
    /\ UNCHANGED <<success_count, half_open_calls, expired, good, spoiled, healthy, cancels, resets>>

Fail(c) ==
    /\ c \in InFlight
    /\ ~healthy
    /\ failure_count' = Saturated(failure_count, FailureThreshold)
    /\ state' = IF Opens THEN "OPEN" ELSE state
    /\ flight' = [flight EXCEPT ![c] = "idle"]
    /\ UNCHANGED <<success_count, half_open_calls, expired, good, spoiled, healthy, cancels, resets>>

\* A CancelledError is no Exception: nothing is recorded of the call, and its
\* place among the half_open_max_calls of the period is not given back.
Cancel(c) ==
    /\ c \in InFlight
    /\ cancels < MaxCancels
    /\ cancels' = cancels + 1
    /\ flight' = [flight EXCEPT ![c] = "idle"]
    /\ spoiled' = IF c \in Probes THEN spoiled + 1 ELSE spoiled
    /\ UNCHANGED <<state, counters, expired, good, healthy, resets>>

-----------------------------------------------------------------------------
(* Time, the service, the operator *)

Expire ==
    /\ state = "OPEN" /\ ~expired
    /\ expired' = TRUE
    /\ UNCHANGED <<state, counters, flight, good, spoiled, healthy, cancels, resets>>

Recover ==
    /\ ~healthy
    /\ healthy' = TRUE
    /\ UNCHANGED <<state, counters, expired, flight, good, spoiled, cancels, resets>>

\* Bug: reset_all only sets the state.
BugResetAll ==
    /\ resets < MaxResets
    /\ resets' = resets + 1
    /\ state' = "CLOSED"
    /\ expired' = FALSE
    /\ UNCHANGED <<counters, flight, good, spoiled, healthy, cancels>>

\* reset_all: _close in any state, with calls in flight.
ResetAll ==
    /\ resets < MaxResets
    /\ resets' = resets + 1
    /\ state' = "CLOSED"
    /\ failure_count' = 0 /\ success_count' = 0
    /\ expired' = FALSE
    /\ UNCHANGED <<half_open_calls, flight, good, spoiled, healthy, cancels>>

-----------------------------------------------------------------------------
Next ==
    \/ \E c \in Caller : Admit(c) \/ Reject(c) \/ Succeed(c) \/ Fail(c) \/ Cancel(c)
    \/ Expire \/ Recover \/ ResetAll

Spec == Init /\ [][Next]_vars

\* The timeout passes, calls end, and callers go on calling.
FairSpec ==
    /\ Spec
    /\ WF_vars(Expire)
    /\ \A c \in Caller : WF_vars(Admit(c)) /\ WF_vars(Succeed(c) \/ Fail(c))

-----------------------------------------------------------------------------
(* Properties *)

TypeOK ==
    /\ state \in {"CLOSED", "OPEN", "HALF_OPEN"}
    /\ failure_count \in 0..FailureThreshold
    /\ success_count \in 0..SuccessThreshold
    /\ half_open_calls \in 0..HalfOpenMax
    /\ expired \in BOOLEAN /\ (expired => state = "OPEN")
    /\ flight \in [Caller -> {"idle", "normal", "probe", "late"}]
    /\ good \in 0..SuccessThreshold
    /\ spoiled \in 0..cancels
    /\ healthy \in BOOLEAN
    /\ cancels \in 0..MaxCancels
    /\ resets \in 0..MaxResets

\* A breaker that is CLOSED has not reached its failure threshold: no outcome
\* that arrives late, after a reset or while OPEN, leaves it CLOSED and over it.
ClosedBelowThreshold == state = "CLOSED" => failure_count < FailureThreshold

\* HALF_OPEN admits nobody and no call is on its way: only reset_all leads out.
Wedged == state = "HALF_OPEN" /\ half_open_calls >= HalfOpenMax /\ InFlight = {}

\* HALF_OPEN is left by its successes or by a failure ("HALF_OPEN -> CLOSED",
\* "HALF_OPEN -> OPEN", circuit_breaker.py:48-49): it is never a dead end.
NeverWedged == ~Wedged

\* The probes that were not cancelled are too few to close the breaker.
Starved == spoiled + SuccessThreshold > HalfOpenMax

\* Failed and late outcomes, resets and concurrent admissions never wedge the
\* breaker: only the cancellation of so many probes of one half-open period does
\* that fewer than success_threshold of half_open_max_calls are left.
WedgedOnlyByCancels == Wedged => Starved

\* Unless reset_all is called, the breaker closes only after SuccessThreshold
\* successes of this half-open period.
ClosesOnEvidence ==
    [][state = "HALF_OPEN" /\ state' = "CLOSED" /\ resets' = resets
        => good' >= SuccessThreshold]_vars

\* Once the service is healthy the breaker closes for good, unless cancelled
\* probes have wedged it.
Recovers == healthy ~> [](state = "CLOSED") \/ [](Wedged /\ Starved)
=============================================================================
