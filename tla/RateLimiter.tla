---------------------------- MODULE RateLimiter ----------------------------
(***************************************************************************)
(* The token bucket in front of the embedding provider and its callers      *)
(* (src/carq/queue/rate_limiter.py).  Every operation holds the lock of the *)
(* bucket without suspending, so each is one action; a caller that waits    *)
(* sleeps outside the lock, and others come in between.                     *)
(*                                                                          *)
(* A tick is the time in which the bucket gains one token, 1/refill_rate    *)
(* seconds.  The event _tokens_available is cleared before every sleep and  *)
(* set by nobody: a sleep always lasts its full timeout.                    *)
(***************************************************************************)
EXTENDS Integers, FiniteSets

CONSTANTS
    Caller,       \* coroutines that wait for tokens, one call at a time each
    Capacity,     \* TokenBucket.capacity
    MaxRequest,   \* bound: the most tokens a call asks for
    MaxWait,      \* max_wait, in ticks
    Charged       \* the admissions charged to the ideal bucket below

ASSUME LimiterAssumption ==
    /\ Capacity \in Nat \ {0}
    /\ MaxRequest \in Nat \ {0}
    /\ MaxWait \in Nat
    /\ Charged \subseteq {"acquire", "wait"}

VARIABLES
    tokens,   \* TokenBucket.tokens, as of the last refill
    age,      \* ticks since the last refill; beyond Capacity they add nothing
    phase,    \* phase[c]: "idle", "waiting", "granted", or "refused"
    need,     \* need[c]: tokens c's call asks for
    sleep,    \* sleep[c]: ticks until c looks at the bucket again
    waited,   \* waited[c]: ticks since wait_for_tokens was called, capped
    robbed,   \* robbed[c]: someone took tokens while c waited
    credit    \* what an ideal bucket of twice the capacity has left

limiter == <<tokens, age, phase, need, sleep, waited, robbed, credit>>

Least(m, n) == IF m <= n THEN m ELSE n

Waiting == {c \in Caller : phase[c] = "waiting"}

LimiterInit ==
    /\ tokens = Capacity
    /\ age = 0
    /\ phase = [c \in Caller |-> "idle"]
    /\ need = [c \in Caller |-> 0]
    /\ sleep = [c \in Caller |-> 0]
    /\ waited = [c \in Caller |-> 0]
    /\ robbed = [c \in Caller |-> FALSE]
    /\ credit = 2 * Capacity

\* Bug: the refill is not capped at the capacity.
BugRefilled == tokens + age

\* Bug: the elapsed time is not credited.
BugStale == tokens

\* _refill: what the bucket holds once the elapsed time is added.
Refilled == Least(Capacity, tokens + age)

Refill(left) == tokens' = left /\ age' = 0

Ideal(left) == credit' = IF left < 0 THEN 0 - 1 ELSE left

\* n tokens are taken out of the bucket (kind "acquire") or only promised.
Charge(kind, n) == Ideal(IF kind \in Charged THEN credit - n ELSE credit)

\* Tokens are taken while others wait.
Robbed == robbed' = [c \in Caller |-> robbed[c] \/ c \in Waiting]

-----------------------------------------------------------------------------
(* Taking tokens without waiting *)

\* RateLimiter.acquire(wait=False).
Acquire(n) ==
    /\ Refilled >= n
    /\ Refill(Refilled - n)
    /\ Charge("acquire", n)
    /\ Robbed
    /\ UNCHANGED <<phase, need, sleep, waited>>

\* TokenBucket.consume: synchronous, and without a refill.
Consume(n) ==
    /\ tokens >= n
    /\ tokens' = tokens - n
    /\ Charge("acquire", n)
    /\ Robbed
    /\ UNCHANGED <<age, phase, need, sleep, waited>>

-----------------------------------------------------------------------------
(* RateLimiter.acquire(wait=True): wait_for_tokens *)

BeginWait(c, n) ==
    /\ phase[c] = "idle"
    /\ phase' = [phase EXCEPT ![c] = "waiting"]
    /\ need' = [need EXCEPT ![c] = n]
    /\ sleep' = [sleep EXCEPT ![c] = 0]
    /\ waited' = [waited EXCEPT ![c] = 0]
    /\ robbed' = [robbed EXCEPT ![c] = FALSE]
    /\ UNCHANGED <<tokens, age, credit>>

Due(c) == phase[c] = "waiting" /\ sleep[c] = 0

\* There are enough tokens.  They are not taken.
Grant(c) ==
    /\ Due(c)
    /\ Refilled >= need[c]
    /\ Refill(Refilled)
    /\ Charge("wait", need[c])
    /\ phase' = [phase EXCEPT ![c] = "granted"]
    /\ UNCHANGED <<need, sleep, waited, robbed>>

Deficit(c) == need[c] - Refilled

\* Bug: the time already waited is not counted.
BugTooLong(c) == Deficit(c) > MaxWait

TooLong(c) == waited[c] + Deficit(c) > MaxWait

\* RateLimitError: waiting would take longer than max_wait.
GiveUp(c) ==
    /\ Due(c)
    /\ Refilled < need[c]
    /\ TooLong(c)
    /\ Refill(Refilled)
    /\ phase' = [phase EXCEPT ![c] = "refused"]
    /\ UNCHANGED <<need, sleep, waited, robbed, credit>>

\* The estimated duration and 10% more, in whole ticks.
Nap(ticks) == (11 * ticks + 9) \div 10

Doze(c) ==
    /\ Due(c)
    /\ Refilled < need[c]
    /\ ~TooLong(c)
    /\ Refill(Refilled)
    /\ sleep' = [sleep EXCEPT ![c] = Nap(Deficit(c))]
    /\ UNCHANGED <<phase, need, waited, robbed, credit>>

\* The caller takes the answer, or is cancelled while it sleeps; it may come
\* back with another request.
Leave(c) ==
    /\ phase[c] # "idle"
    /\ phase' = [phase EXCEPT ![c] = "idle"]
    /\ need' = [need EXCEPT ![c] = 0]
    /\ sleep' = [sleep EXCEPT ![c] = 0]
    /\ waited' = [waited EXCEPT ![c] = 0]
    /\ robbed' = [robbed EXCEPT ![c] = FALSE]
    /\ UNCHANGED <<tokens, age, credit>>

-----------------------------------------------------------------------------
\* check_capacity, or an acquire(wait=False) that finds too few tokens: the
\* bucket is refilled and nothing else.
CheckCapacity ==
    /\ age > 0
    /\ Refill(Refilled)
    /\ UNCHANGED <<phase, need, sleep, waited, robbed, credit>>

\* reset_provider: a full bucket, and a fresh ideal one.
ResetProvider ==
    /\ Refill(Capacity)
    /\ credit' = 2 * Capacity
    /\ UNCHANGED <<phase, need, sleep, waited, robbed>>

\* Time passes for everybody; a caller whose sleep is over looks first.
Tick ==
    /\ \A c \in Caller : ~Due(c)
    /\ age' = Least(Capacity, age + 1)
    /\ sleep' = [c \in Caller |-> IF c \in Waiting THEN sleep[c] - 1 ELSE sleep[c]]
    /\ waited' = [c \in Caller |-> IF c \in Waiting THEN Least(Nap(MaxWait) + 1, waited[c] + 1) ELSE waited[c]]
    /\ credit' = Least(2 * Capacity, credit + 1)
    /\ UNCHANGED <<tokens, phase, need, robbed>>

-----------------------------------------------------------------------------
LimiterStep(c) == Grant(c) \/ GiveUp(c) \/ Doze(c)

LimiterNext ==
    \/ \E n \in 1..MaxRequest : Acquire(n) \/ Consume(n)
    \/ \E c \in Caller, n \in 1..MaxRequest : BeginWait(c, n)
    \/ \E c \in Caller : LimiterStep(c) \/ Leave(c)
    \/ CheckCapacity \/ ResetProvider \/ Tick

LimiterSpec == LimiterInit /\ [][LimiterNext]_limiter

-----------------------------------------------------------------------------
(* Properties *)

LimiterTypeOK ==
    /\ tokens \in 0..Capacity
    /\ age \in 0..Capacity
    /\ phase \in [Caller -> {"idle", "waiting", "granted", "refused"}]
    /\ need \in [Caller -> Nat]
    /\ sleep \in [Caller -> Nat]
    /\ waited \in [Caller -> Nat]
    /\ robbed \in [Caller -> BOOLEAN]
    /\ credit \in (0 - 1)..(2 * Capacity)

\* However refills, synchronous consumption and waiters interleave, what acquire
\* and consume take out of the bucket never exceeds an ideal bucket of twice the
\* capacity.  Those are the callers that do not wait; the requests of the
\* dispatcher, which wait, take nothing out (NoOverdraft).
\* (Twice: consume does not refill, so that the time a full bucket stood idle
\* is still credited after its tokens are gone.)
WithinBudget == credit >= 0

\* The other half of the argument: the ideal bucket never runs behind the real
\* one, refilled or not.
BudgetCovers == tokens + age <= credit

\* wait_for_tokens keeps nobody longer than max_wait and its margin of 10%.
WaitBound == \A c \in Caller : waited[c] <= Nap(MaxWait)

\* A waiter is only turned away for a reason: its request exceeds the bucket,
\* the first estimate exceeds max_wait, or others took tokens meanwhile.  The
\* margin of the sleep is enough: nobody is refused for having woken too early.
RefusedForReason ==
    \A c \in Caller :
        phase[c] = "refused" /\ waited[c] > 0 => need[c] > Capacity \/ robbed[c]

\* "Usa asyncio.Event para evitar condição de corrida / onde múltiplas corrotinas
\* acordam simultaneamente e transbordam tokens" (rate_limiter.py:129-130): with
\* the admissions of waiters charged as well, the budget of the bucket is kept.
NoOverdraft == credit >= 0
=============================================================================
