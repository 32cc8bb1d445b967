-------------------------- MODULE EmbeddingProofs --------------------------
(***************************************************************************)
(* Proofs about RateLimiter, for any callers and any capacity, and about    *)
(* EmbeddingService on top of it, for any texts and batches: the            *)
(* composition keeps what the limiter promises, and requests end with the   *)
(* vectors of their own texts.                                              *)
(***************************************************************************)
EXTENDS EmbeddingService, Recursion, SequenceTheorems

-----------------------------------------------------------------------------
(* The limiter by itself *)

\* What refills and rounding do to the numbers.
LEMMA RefilledBounds ==
    ASSUME tokens \in 0..Capacity, age \in 0..Capacity
    PROVE  /\ Refilled \in 0..Capacity
           /\ Refilled <= tokens + age
           /\ Refilled >= tokens
           /\ Refilled = Capacity \/ Refilled = tokens + age
  BY LimiterAssumption DEF Refilled, Least

LEMMA NapGrows ==
    ASSUME NEW m \in Nat, NEW n \in Nat, m <= n
    PROVE  Nap(m) \in Nat /\ m <= Nap(m) /\ Nap(m) + (n - m) <= Nap(n)
  BY DEF Nap

\* What happens to the limiter, whoever calls it: in LimiterNext with at most
\* MaxRequest tokens a call, in the service with those of a list of texts.
LimiterAction ==
    \/ \E n \in 1..MaxRequest : Acquire(n) \/ Consume(n)
    \/ \E c \in Caller, n \in Nat : BeginWait(c, n)
    \/ \E c \in Caller : LimiterStep(c) \/ Leave(c)
    \/ CheckCapacity \/ ResetProvider \/ Tick

LEMMA LimiterNextActs == [LimiterNext]_limiter => [LimiterAction]_limiter
<1>1. \A n \in 1..MaxRequest : n \in Nat
  BY LimiterAssumption
<1> QED BY <1>1 DEF LimiterNext, LimiterAction

-----------------------------------------------------------------------------
(* The budget *)

\* The part of the state the budget depends on: neither the callers nor what
\* they ask for.
Budget ==
    /\ tokens \in 0..Capacity
    /\ age \in 0..Capacity
    /\ credit \in 0..(2 * Capacity)
    /\ BudgetCovers

LEMMA BudgetInit == LimiterInit => Budget
  BY LimiterAssumption DEF LimiterInit, Budget, BudgetCovers

LEMMA BudgetTaken ==
    ASSUME Budget, NEW n \in Nat, Acquire(n) \/ Consume(n)
    PROVE  Budget'
<1> DEFINE left == IF "acquire" \in Charged THEN credit - n ELSE credit
<1>1. /\ tokens \in Nat /\ age \in Nat /\ Capacity \in Nat
      /\ credit \in 0..(2 * Capacity) /\ tokens + age <= credit
  BY LimiterAssumption DEF Budget, BudgetCovers
<1>2. n <= tokens + age
  BY RefilledBounds DEF Budget, Acquire, Consume
<1>3. left \in 0..(2 * Capacity) /\ tokens + age - n <= left
  BY <1>1, <1>2
<1>4. credit' = left
  BY <1>3 DEF Acquire, Consume, Charge, Ideal
<1> HIDE DEF left
<1>5. CASE Acquire(n)
  <2>1. Refilled - n \in 0..Capacity /\ Refilled - n + 0 <= left
    BY <1>1, <1>3, <1>5, RefilledBounds DEF Budget, Acquire
  <2>2. tokens' = Refilled - n /\ age' = 0
    BY <1>5 DEF Acquire, Refill
  <2> QED BY <1>1, <1>3, <1>4, <2>1, <2>2 DEF Budget, BudgetCovers
<1>6. CASE Consume(n)
  <2>1. tokens - n \in 0..Capacity /\ tokens - n + age <= left
    BY <1>1, <1>3, <1>6 DEF Budget, Consume
  <2>2. tokens' = tokens - n /\ age' = age
    BY <1>6 DEF Consume
  <2> QED BY <1>3, <1>4, <2>1, <2>2 DEF Budget, BudgetCovers
<1> QED BY <1>5, <1>6

LEMMA BudgetRefilled ==
    ASSUME Budget, Refill(Refilled), credit' = credit
    PROVE  Budget'
  BY LimiterAssumption, RefilledBounds DEF Budget, BudgetCovers, Refill

\* A waiter that is let through is not charged: that is what the code does.
LEMMA BudgetWaiter ==
    ASSUME Budget, "wait" \notin Charged, NEW c \in Caller, LimiterStep(c)
    PROVE  Budget'
<1>1. CASE Grant(c)
  <2>1. credit' = credit
    BY <1>1 DEF Grant, Charge, Ideal, Budget
  <2> QED BY <1>1, <2>1, BudgetRefilled DEF Grant
<1>2. CASE GiveUp(c) \/ Doze(c)
  BY <1>2, BudgetRefilled DEF GiveUp, Doze
<1> QED BY <1>1, <1>2 DEF LimiterStep

LEMMA BudgetOther ==
    ASSUME Budget, CheckCapacity \/ ResetProvider \/ Tick
    PROVE  Budget'
<1>1. CASE CheckCapacity
  BY <1>1, BudgetRefilled DEF CheckCapacity
<1>2. CASE ResetProvider
  BY <1>2, LimiterAssumption DEF ResetProvider, Refill, Budget, BudgetCovers
<1>3. CASE Tick
  BY <1>3, LimiterAssumption DEF Tick, Least, Budget, BudgetCovers
<1> QED BY <1>1, <1>2, <1>3

LEMMA BudgetStep ==
    ASSUME "wait" \notin Charged, Budget, [LimiterAction]_limiter
    PROVE  Budget'
<1>1. ASSUME NEW n \in 1..MaxRequest, Acquire(n) \/ Consume(n) PROVE Budget'
  BY <1>1, BudgetTaken, LimiterAssumption
<1>2. ASSUME NEW c \in Caller, NEW n \in Nat, BeginWait(c, n) PROVE Budget'
  BY <1>2 DEF BeginWait, Budget, BudgetCovers
<1>3. ASSUME NEW c \in Caller, Leave(c) PROVE Budget'
  BY <1>3 DEF Leave, Budget, BudgetCovers
<1>4. CASE UNCHANGED limiter
  BY <1>4 DEF limiter, Budget, BudgetCovers
<1> QED BY <1>1, <1>2, <1>3, <1>4, BudgetWaiter, BudgetOther DEF LimiterAction

\* What is taken out of the bucket stays within an ideal bucket of twice its
\* capacity (TokenBucket._refill, acquire, consume), for all interleavings.
THEOREM BudgetKept == ASSUME "wait" \notin Charged PROVE LimiterSpec => []WithinBudget
<1>1. Budget => WithinBudget
  BY DEF Budget, WithinBudget
<1>2. Budget /\ [LimiterNext]_limiter => Budget'
  BY BudgetStep, LimiterNextActs
<1> QED BY <1>1, <1>2, BudgetInit, PTL DEF LimiterSpec

-----------------------------------------------------------------------------
(* Waiters *)

\* A waiter has never been kept longer than its estimates allow, and what it
\* sleeps for arrives in the bucket unless someone takes it.
Patience(c) ==
    /\ waited[c] <= Nap(MaxWait)
    /\ phase[c] = "waiting" => waited[c] + sleep[c] <= Nap(MaxWait)
    /\ phase[c] = "waiting" /\ waited[c] + sleep[c] > 0 =>
          need[c] > Capacity \/ robbed[c] \/ tokens + age + sleep[c] >= need[c]
    /\ phase[c] = "refused" /\ waited[c] > 0 => need[c] > Capacity \/ robbed[c]

WaiterInv ==
    /\ tokens \in 0..Capacity
    /\ age \in 0..Capacity
    /\ phase \in [Caller -> {"idle", "waiting", "granted", "refused"}]
    /\ need \in [Caller -> Nat]
    /\ sleep \in [Caller -> Nat]
    /\ waited \in [Caller -> Nat]
    /\ robbed \in [Caller -> BOOLEAN]
    /\ \A c \in Caller : Patience(c)

LEMMA WaiterInit == LimiterInit => WaiterInv
<1>1. Nap(MaxWait) \in Nat
  BY NapGrows, LimiterAssumption
<1> QED BY <1>1, LimiterAssumption DEF LimiterInit, WaiterInv, Patience

\* Tokens that come in disturb no waiter.
LEMMA PatienceRefilled ==
    ASSUME WaiterInv, NEW c \in Caller,
           Refill(Refilled) \/ Refill(Capacity),
           /\ phase'[c] = phase[c] /\ need'[c] = need[c] /\ sleep'[c] = sleep[c]
           /\ waited'[c] = waited[c] /\ robbed'[c] = robbed[c]
    PROVE  Patience(c)'
<1>1. tokens' + age' >= tokens + age \/ tokens' + age' = Capacity
  BY LimiterAssumption, RefilledBounds DEF WaiterInv, Refill
<1>2. tokens' + age' \in Nat /\ tokens + age \in Nat
  BY LimiterAssumption, RefilledBounds DEF WaiterInv, Refill
<1> QED
  BY <1>1, <1>2, LimiterAssumption DEF WaiterInv, Patience, Refill

LEMMA WaiterStep ==
    ASSUME WaiterInv, [LimiterAction]_limiter
    PROVE  WaiterInv'
<1> USE LimiterAssumption
<1>0. /\ Refilled \in 0..Capacity
      /\ Nap(MaxWait) \in Nat
  <2>1. Refilled \in 0..Capacity
    BY RefilledBounds DEF WaiterInv
  <2>2. MaxWait \in Nat /\ MaxWait <= MaxWait
    OBVIOUS
  <2> QED BY <2>1, <2>2, NapGrows
<1>1. ASSUME NEW n \in 1..MaxRequest, Acquire(n) \/ Consume(n) PROVE WaiterInv'
  <2>1. tokens' \in 0..Capacity /\ age' \in 0..Capacity
    BY <1>0, <1>1 DEF WaiterInv, Acquire, Consume, Refill
  <2>2. /\ phase' = phase /\ need' = need /\ sleep' = sleep /\ waited' = waited
        /\ robbed' = [c \in Caller |-> robbed[c] \/ c \in Waiting]
    BY <1>1 DEF Acquire, Consume, Robbed
  <2>3. ASSUME NEW c \in Caller PROVE Patience(c)'
    BY <2>2 DEF WaiterInv, Patience, Waiting
  <2> QED BY <2>1, <2>2, <2>3 DEF WaiterInv
<1>2. ASSUME NEW c \in Caller, NEW n \in Nat, BeginWait(c, n) PROVE WaiterInv'
  BY <1>0, <1>2 DEF BeginWait, WaiterInv, Patience
<1>3. ASSUME NEW c \in Caller, Leave(c) PROVE WaiterInv'
  BY <1>0, <1>3 DEF Leave, WaiterInv, Patience
<1>4. ASSUME NEW c \in Caller, Grant(c) PROVE WaiterInv'
  <2>1. \A d \in Caller \ {c} : Patience(d)'
    BY <1>4, PatienceRefilled DEF Grant, WaiterInv
  <2>2. Patience(c)'
    BY <1>4 DEF Grant, WaiterInv, Patience
  <2> QED BY <1>0, <1>4, <2>1, <2>2 DEF Grant, Refill, WaiterInv
<1>5. ASSUME NEW c \in Caller, GiveUp(c) PROVE WaiterInv'
  <2>1. \A d \in Caller \ {c} : Patience(d)'
    BY <1>5, PatienceRefilled DEF GiveUp, WaiterInv
  <2>2. waited[c] > 0 => need[c] > Capacity \/ robbed[c]
    BY <1>5, RefilledBounds DEF GiveUp, Due, WaiterInv, Patience
  <2>3. Patience(c)'
    BY <1>5, <2>2 DEF GiveUp, WaiterInv, Patience
  <2> QED BY <1>0, <1>5, <2>1, <2>3 DEF GiveUp, Refill, WaiterInv
<1>6. ASSUME NEW c \in Caller, Doze(c) PROVE WaiterInv'
  <2>1. \A d \in Caller \ {c} : Patience(d)'
    BY <1>6, PatienceRefilled DEF Doze, WaiterInv
  <2>2. Deficit(c) \in Nat /\ waited[c] + Deficit(c) <= MaxWait
    BY <1>0, <1>6 DEF Doze, TooLong, Deficit, WaiterInv
  <2>3. /\ Nap(Deficit(c)) \in Nat /\ Deficit(c) <= Nap(Deficit(c))
        /\ Nap(Deficit(c)) + (MaxWait - Deficit(c)) <= Nap(MaxWait)
    BY <2>2, NapGrows DEF WaiterInv
  <2>4. sleep' = [sleep EXCEPT ![c] = Nap(Deficit(c))] /\ sleep' \in [Caller -> Nat]
    BY <1>6, <2>3 DEF Doze, WaiterInv
  <2>5. waited[c] + sleep'[c] <= Nap(MaxWait)
    BY <1>0, <2>2, <2>3, <2>4 DEF WaiterInv
  <2>6. tokens' + age' + sleep'[c] >= need[c]
    BY <1>0, <1>6, <2>2, <2>3, <2>4 DEF Doze, Refill, Deficit, WaiterInv
  <2>7. Patience(c)'
    BY <1>6, <2>5, <2>6 DEF Doze, Due, WaiterInv, Patience
  <2> QED BY <1>0, <1>6, <2>1, <2>4, <2>7 DEF Doze, Refill, WaiterInv
<1>7. ASSUME CheckCapacity \/ ResetProvider PROVE WaiterInv'
  <2>1. \A d \in Caller : Patience(d)'
    BY <1>7, PatienceRefilled DEF CheckCapacity, ResetProvider
  <2> QED BY <1>0, <1>7, <2>1 DEF CheckCapacity, ResetProvider, Refill, WaiterInv
<1>8. ASSUME Tick PROVE WaiterInv'
  <2>1. tokens' = tokens /\ age' \in 0..Capacity /\ (age' = age + 1 \/ age' = Capacity)
    BY <1>8 DEF Tick, Least, WaiterInv
  <2>2. ASSUME NEW c \in Caller
        PROVE  sleep'[c] \in Nat /\ waited'[c] \in Nat /\ Patience(c)'
    <3>1. CASE c \notin Waiting
      BY <1>0, <1>8, <2>1, <3>1 DEF Tick, WaiterInv, Patience, Waiting
    <3>2. CASE c \in Waiting
      <4>1. sleep[c] > 0 /\ phase[c] = "waiting"
        BY <1>8, <3>2 DEF Tick, Due, WaiterInv, Waiting
      <4>2. sleep'[c] = sleep[c] - 1 /\ waited'[c] = waited[c] + 1
        BY <1>0, <1>8, <3>2, <4>1 DEF Tick, Least, WaiterInv, Patience
      <4>3. tokens' + age' + sleep'[c] >= tokens + age + sleep[c]
            \/ tokens' + age' + sleep'[c] >= Capacity
        BY <2>1, <4>1, <4>2 DEF WaiterInv
      <4> QED
        BY <1>0, <1>8, <2>1, <4>1, <4>2, <4>3 DEF Tick, WaiterInv, Patience
    <3> QED BY <3>1, <3>2
  <2>3. sleep' \in [Caller -> Nat] /\ waited' \in [Caller -> Nat]
    BY <1>8, <2>2 DEF Tick
  <2> QED BY <1>8, <2>1, <2>2, <2>3 DEF Tick, WaiterInv
<1>9. CASE UNCHANGED limiter
  BY <1>9 DEF limiter, WaiterInv, Patience
<1> QED
  BY <1>1, <1>2, <1>3, <1>4, <1>5, <1>6, <1>7, <1>8, <1>9 DEF LimiterAction, LimiterStep

LEMMA WaiterInvariant == LimiterSpec => []WaiterInv
<1>1. WaiterInv /\ [LimiterNext]_limiter => WaiterInv'
  BY WaiterStep, LimiterNextActs
<1> QED BY <1>1, WaiterInit, PTL DEF LimiterSpec

\* wait_for_tokens keeps nobody longer than max_wait and 10%, however often it
\* is overtaken and has to sleep again.
THEOREM WaitsBounded == LimiterSpec => []WaitBound
<1>1. WaiterInv => WaitBound
  BY DEF WaiterInv, Patience, WaitBound
<1> QED BY <1>1, WaiterInvariant, PTL

\* Who has slept is refused only when its request exceeds the bucket or when
\* others took tokens meanwhile: the 10% margin of the sleep always suffices.
THEOREM RefusalsExplained == LimiterSpec => []RefusedForReason
<1>1. WaiterInv => RefusedForReason
  BY DEF WaiterInv, Patience, RefusedForReason
<1> QED BY <1>1, WaiterInvariant, PTL

-----------------------------------------------------------------------------
(* What a request has received *)

Under == {"waiting", "calling", "backoff"}

\* What request r holds: a prefix of the vectors of its texts, which is all of
\* them once it stores or answers, and none when it has come to another end.
Holds(r) ==
    /\ job[r] = "idle" => got[r] = <<>> /\ stored[r] = 0
    /\ job[r] \in Under =>
          /\ stored[r] = 0
          /\ Len(got[r]) < Len(texts[r])
          /\ got[r] = SubSeq(texts[r], 1, Len(got[r]))
    /\ job[r] \in {"storing", "answered"} => got[r] = texts[r]
    /\ job[r] = "storing" => stored[r] < Len(texts[r])
    /\ door[r] = "single" /\ job[r] # "idle" => Len(texts[r]) = 1
    /\ door[r] = "single" /\ job[r] \in {"failed", "exhausted"} => got[r] = <<>>

ServiceInv ==
    /\ cache \in [Text -> Text \cup {NoVector}]
    /\ \A t \in Text : cache[t] \in {t, NoVector}
    /\ door \in [Caller -> {"none", "single", "batch", "direct", "helper"}]
    /\ job \in [Caller -> Under \cup Ended \cup {"idle", "storing"}]
    /\ texts \in [Caller -> Seq(Text)]
    /\ got \in [Caller -> Seq(Text)]
    /\ stored \in [Caller -> Nat]
    /\ \A r \in Caller : Holds(r)

\* A sub-batch continues where the vectors received so far end.
LEMMA SubBatchContinues ==
    ASSUME NEW ts \in Seq(Text), NEW n \in 0..Len(ts), n < Len(ts)
    PROVE  LET m == Least(n + BatchSize, Len(ts)) IN
           /\ m \in (n + 1)..Len(ts)
           /\ SubSeq(ts, 1, n) \o SubBatch(ts, n) = SubSeq(ts, 1, m)
           /\ SubSeq(ts, 1, m) \in Seq(Text)
           /\ Len(SubSeq(ts, 1, m)) = m
<1> DEFINE m == Least(n + BatchSize, Len(ts))
<1>1. Len(ts) \in Nat /\ \A i \in 1..Len(ts) : ts[i] \in Text
  BY LenProperties, ElementOfSeq
<1>2. m \in (n + 1)..Len(ts) /\ m \in Nat
  BY <1>1, ServiceAssumption DEF Least
<1> HIDE DEF m
<1>3. SubSeq(ts, 1, n) \o SubSeq(ts, n + 1, m) = SubSeq(ts, 1, m)
  BY <1>1, <1>2, ConcatAdjacentSubSeq
<1>4. SubSeq(ts, 1, m) \in Seq(Text) /\ Len(SubSeq(ts, 1, m)) = m
  <2>1. \A i \in 1..m : ts[i] \in Text
    BY <1>1, <1>2
  <2> QED BY <1>2, <2>1, SubSeqProperties
<1> QED BY <1>2, <1>3, <1>4 DEF m, SubBatch

LEMMA ServiceInit == EInit => ServiceInv
  BY EmptySeq DEF EInit, ServiceInv, Holds, Under, Ended

\* A request enters, or leaves, with nothing received.
LEMMA Arrives ==
    ASSUME ServiceInv, NEW r \in Caller, NEW ts \in Seq(Text), Len(ts) > 0,
           NEW d \in {"single", "batch", "direct", "helper"}, NEW m \in Model, Enter(r, d, ts, m),
           d = "single" => Len(ts) = 1,
           NEW j \in Under \cup {"failed"}, Becomes(r, j), got' = got
    PROVE  ServiceInv'
<1>1. got[r] = <<>> /\ stored[r] = 0 /\ Len(got[r]) = 0
  BY EmptySeq DEF ServiceInv, Holds, Enter
<1>2. SubSeq(ts, 1, 0) = <<>>
  BY SubSeqEmpty
<1>3. Holds(r)'
  BY <1>1, <1>2 DEF ServiceInv, Holds, Enter, Becomes, Under
<1>4. \A q \in Caller \ {r} : Holds(q)'
  BY DEF ServiceInv, Holds, Enter, Becomes
<1> QED BY <1>3, <1>4 DEF ServiceInv, Enter, Becomes, Ended

LEMMA Goes ==
    ASSUME ServiceInv, NEW r \in Caller, Forgotten(r)
    PROVE  ServiceInv'
<1>1. Holds(r)'
  BY EmptySeq DEF ServiceInv, Holds, Forgotten, Becomes, Under
<1>2. \A q \in Caller \ {r} : Holds(q)'
  BY DEF ServiceInv, Holds, Forgotten, Becomes
<1> QED BY <1>1, <1>2, EmptySeq DEF ServiceInv, Forgotten, Becomes

\* The job of r goes on, or fails, and nothing else of the request changes.
LEMMA GoesOn ==
    ASSUME ServiceInv, NEW r \in Caller, job[r] \in Under,
           NEW j \in Under \cup {"failed", "exhausted"}, Becomes(r, j),
           UNCHANGED <<cache, door, texts, got, stored>>
    PROVE  ServiceInv'
<1>1. door[r] = "single" => got[r] = <<>>
  <2>1. Len(got[r]) \in Nat
    BY LenProperties DEF ServiceInv
  <2>2. door[r] = "single" => Len(got[r]) = 0
    BY <2>1 DEF ServiceInv, Holds, Under
  <2> QED BY <2>2, EmptySeq DEF ServiceInv
<1>2. Holds(r)'
  BY <1>1 DEF ServiceInv, Holds, Becomes, Under
<1>3. \A q \in Caller \ {r} : Holds(q)'
  BY DEF ServiceInv, Holds, Becomes
<1> QED BY <1>2, <1>3 DEF ServiceInv, Becomes, Ended

LEMMA Answered ==
    ASSUME ServiceInv, NEW r \in Caller, ProviderAnswers(r)
    PROVE  ServiceInv'
<1> DEFINE n == Len(got[r])
           m == Least(n + BatchSize, Len(texts[r]))
<1>1. job[r] = "calling" /\ texts[r] \in Seq(Text) /\ got[r] \in Seq(Text)
  BY DEF ProviderAnswers, ServiceInv
<1>2. n \in 0..Len(texts[r]) /\ n < Len(texts[r]) /\ Len(texts[r]) \in Nat
  BY <1>1, LenProperties DEF ServiceInv, Holds, Under
<1>3. /\ Received(r) = SubSeq(texts[r], 1, m)
      /\ Received(r) \in Seq(Text)
      /\ Len(Received(r)) = m
      /\ m \in (n + 1)..Len(texts[r])
  <2>1. got[r] = SubSeq(texts[r], 1, n)
    BY <1>1 DEF ServiceInv, Holds, Under
  <2> QED BY <1>1, <1>2, <2>1, SubBatchContinues DEF Received
<1> HIDE DEF n, m
<1>4. got' = [got EXCEPT ![r] = Received(r)] /\ got'[r] = Received(r)
  BY DEF ProviderAnswers, ServiceInv
<1>5. UNCHANGED <<cache, door, texts, stored>>
  BY DEF ProviderAnswers
<1>6. \A q \in Caller \ {r} : Holds(q)' /\ got'[q] = got[q]
  BY <1>4, <1>5 DEF ProviderAnswers, Becomes, ServiceInv, Holds
<1>7. CASE m < Len(texts[r])
  <2>1. Becomes(r, "waiting")
    BY <1>3, <1>4, <1>7 DEF ProviderAnswers
  <2>2. Holds(r)'
    BY <1>1, <1>3, <1>4, <1>5, <1>7, <2>1 DEF ServiceInv, Holds, Becomes, Under
  <2> QED BY <1>3, <1>4, <1>5, <1>6, <2>1, <2>2 DEF ServiceInv, Becomes, Under
<1>8. CASE m = Len(texts[r])
  <2>1. PICK j \in {"storing", "answered"} : Becomes(r, j) /\ (j = "storing" \/ door[r] # "single")
    BY <1>3, <1>4, <1>8 DEF ProviderAnswers
  <2>2. Received(r) = texts[r]
    BY <1>1, <1>3, <1>8, SubSeqFull
  <2>3. stored[r] < Len(texts[r])
    BY <1>1, <1>2, <1>3 DEF ServiceInv, Holds, Under
  <2>4. Holds(r)'
    BY <1>1, <1>4, <1>5, <2>1, <2>2, <2>3 DEF ServiceInv, Holds, Becomes, Under
  <2> QED BY <1>3, <1>4, <1>5, <1>6, <2>1, <2>4 DEF ServiceInv, Becomes, Ended
<1> QED BY <1>2, <1>3, <1>7, <1>8

LEMMA Stores ==
    ASSUME ServiceInv, NEW r \in Caller, Store(r)
    PROVE  ServiceInv'
<1> DEFINE i == stored[r] + 1
<1>1. /\ job[r] = "storing" /\ got[r] = texts[r] /\ texts[r] \in Seq(Text)
      /\ stored[r] < Len(texts[r]) /\ stored[r] \in Nat
  BY DEF Store, ServiceInv, Holds
<1>2. i \in 1..Len(texts[r]) /\ i \in Nat
  BY <1>1, LenProperties
<1>3. texts[r][i] \in Text /\ got[r][i] = texts[r][i]
  BY <1>1, <1>2, ElementOfSeq
<1>4. stored' = [stored EXCEPT ![r] = i] /\ UNCHANGED <<door, texts, got>>
  BY DEF Store
<1>5. cache' = cache \/ cache' = [cache EXCEPT ![texts[r][i]] = got[r][i]]
  BY DEF Store
<1> HIDE DEF i
<1>6. /\ cache' \in [Text -> Text \cup {NoVector}]
      /\ \A t \in Text : cache'[t] \in {t, NoVector}
  BY <1>3, <1>5 DEF ServiceInv
<1>7. PICK j \in {"storing", "answered"} : Becomes(r, j) /\ (j = "storing" => i < Len(texts[r]))
  BY DEF Store, Stored, i
<1>8. Holds(r)'
  BY <1>1, <1>4, <1>7 DEF ServiceInv, Holds, Becomes, Under
<1>9. \A q \in Caller \ {r} : Holds(q)'
  BY <1>4, <1>7 DEF ServiceInv, Holds, Becomes
<1> QED BY <1>2, <1>4, <1>6, <1>7, <1>8, <1>9 DEF ServiceInv, Becomes, Ended

LEMMA Hits ==
    ASSUME ServiceInv, NEW r \in Caller, NEW t \in Text, NEW m \in Model, Hit(r, t, m)
    PROVE  ServiceInv'
<1>1. cache[t] = t
  BY DEF Hit, ServiceInv
<1>2. /\ job[r] = "idle" /\ cache' = cache /\ stored' = stored
      /\ texts' = [texts EXCEPT ![r] = <<t>>] /\ got' = [got EXCEPT ![r] = <<t>>]
      /\ door' = [door EXCEPT ![r] = "single"] /\ job' = [job EXCEPT ![r] = "answered"]
  BY <1>1 DEF Hit, Enter, Becomes
<1>3. <<t>> \in Seq(Text) /\ Len(<<t>>) = 1
  OBVIOUS
<1>4. Holds(r)'
  BY <1>2, <1>3 DEF ServiceInv, Holds, Under
<1>5. \A q \in Caller \ {r} : Holds(q)'
  BY <1>2 DEF ServiceInv, Holds
<1> QED BY <1>2, <1>3, <1>4, <1>5 DEF ServiceInv, Ended

LEMMA ServiceStep ==
    ASSUME ServiceInv, [ENext]_evars
    PROVE  ServiceInv'
<1>1. ASSUME NEW r \in Caller, Arrive(r) PROVE ServiceInv'
  <2>1. \A t \in Text : <<t>> \in Seq(Text) /\ Len(<<t>>) = 1
    OBVIOUS
  <2>2. ASSUME NEW t \in Text, NEW m \in Model,
               \/ CacheFails(r, t, m) \/ Miss(r, t, m)
               \/ EmbedDirect(r, t, m) \/ RetryWithBackoff(r, t, m)
        PROVE  ServiceInv'
    <3>1. PICK d \in {"single", "direct", "helper"}, j \in Under \cup {"failed"} :
             Enter(r, d, <<t>>, m) /\ Becomes(r, j) /\ got' = got
      BY <2>2 DEF CacheFails, Miss, EmbedDirect, RetryWithBackoff, Under
    <3>2. <<t>> \in Seq(Text) /\ Len(<<t>>) > 0 /\ Len(<<t>>) = 1
      BY <2>1
    <3>3. d \in {"single", "batch", "direct", "helper"}
      OBVIOUS
    <3> QED BY <3>1, <3>2, <3>3, Arrives
  <2>3. ASSUME NEW ts \in Batch, NEW m \in Model, EmbedBatch(r, ts, m) PROVE ServiceInv'
    <3>1. ts \in Seq(Text) /\ Len(ts) > 0
      BY ServiceAssumption, EmptySeq
    <3>2. Enter(r, "batch", ts, m) /\ Becomes(r, "waiting") /\ got' = got
      BY <2>3 DEF EmbedBatch
    <3> QED BY <3>1, <3>2, Arrives DEF Under
  <2> QED BY <1>1, <2>2, <2>3, Hits DEF Arrive
<1>2. ASSUME NEW r \in Caller, Proceed(r) PROVE ServiceInv'
  <2>1. CASE Limit(r)
    BY <2>1 DEF Limit, service, ServiceInv, Holds
  <2>2. CASE CallProvider(r) \/ Refused(r) \/ TryAgain(r)
    <3>1. PICK j \in Under \cup {"failed"} : Becomes(r, j)
      BY <2>2 DEF CallProvider, Refused, TryAgain, Under
    <3>2. job[r] \in Under /\ UNCHANGED <<cache, door, texts, got, stored>>
      BY <2>2 DEF CallProvider, Refused, TryAgain, Under
    <3> QED BY <3>1, <3>2, GoesOn
  <2>3. ASSUME NEW error \in {"transient", "fatal"}, ProviderFails(r, error) PROVE ServiceInv'
    <3>1. PICK j \in Under \cup {"failed", "exhausted"} : Becomes(r, j)
      BY <2>3 DEF ProviderFails, Under
    <3>2. job[r] \in Under /\ UNCHANGED <<cache, door, texts, got, stored>>
      BY <2>3 DEF ProviderFails, Under
    <3> QED BY <3>1, <3>2, GoesOn
  <2> QED BY <1>2, <2>1, <2>2, <2>3, Answered, Stores DEF Proceed
<1>3. ASSUME NEW r \in Caller, Return(r) \/ Cancel(r) PROVE ServiceInv'
  BY <1>3, Goes DEF Return, Cancel
<1>4. ASSUME NEW t \in Text, Forget(t) PROVE ServiceInv'
  BY <1>4 DEF Forget, ServiceInv, Holds
<1>5. ASSUME RedisFails \/ RedisRecovers \/ Outside \/ ETick \/ UNCHANGED evars
      PROVE  ServiceInv'
  BY <1>5 DEF RedisFails, RedisRecovers, Outside, ETick, evars, service, ServiceInv, Holds
<1> QED BY <1>1, <1>2, <1>3, <1>4, <1>5 DEF ENext

LEMMA ServiceInvariant == ESpec => []ServiceInv
<1>1. ServiceInv /\ [ENext]_evars => ServiceInv'
  BY ServiceStep
<1> QED BY <1>1, ServiceInit, PTL DEF ESpec

\* An answer holds the vectors of the texts that were asked for, from whichever
\* sub-batches, and the cache never gives the vector of another text
\* (embedding_dispatcher.py:150-163, router.py:117-179).
THEOREM VectorsOfTheirTexts == ESpec => []VectorsMatch
<1>1. ServiceInv => VectorsMatch
  BY DEF ServiceInv, Holds, VectorsMatch
<1> QED BY <1>1, ServiceInvariant, PTL

\* A single request whose vector was paid for is answered, whatever the cache
\* does afterwards (router.py:89-93).
THEOREM PaidIsAnswered == ESpec => []PaidAnswered
<1>1. ServiceInv => PaidAnswered
  BY DEF ServiceInv, Holds, PaidAnswered, Ended
<1> QED BY <1>1, ServiceInvariant, PTL

-----------------------------------------------------------------------------
(* Numbers that are computed by recursion *)

LEMMA TokensCounted ==
    ASSUME NEW ts \in Seq(Text)
    PROVE  TokensIn(ts) \in Nat
<1> DEFINE n == Len(ts)
           step == [i \in 1..n |-> [x \in Nat |-> x + TokensOf[ts[i]]]]
           upto[i \in 0..n] == IF i = 0 THEN 0 ELSE upto[i - 1] + TokensOf[ts[i]]
<1>1. n \in Nat /\ \A i \in 1..n : TokensOf[ts[i]] \in Nat
  BY LenProperties, ElementOfSeq, ServiceAssumption
<1> HIDE DEF n
<1>2. step \in [1..n -> [Nat -> Nat]]
  BY <1>1
<1>3. PICK f \in [0..n -> Nat] : f[0] = 0 /\ \A i \in 1..n : f[i] = step[i][f[i - 1]]
  <2>1. 0 \in Nat /\ step \in Steps(n, Nat)
    BY <1>2 DEF Steps
  <2> DEFINE S == Nat
  <2>2. 0 \in S /\ step \in Steps(n, S)
    BY <2>1
  <2> HIDE DEF step, S, upto
  <2>3. \E f \in [0..n -> S] : f[0] = 0 /\ \A i \in 1..n : f[i] = step[i][f[i - 1]]
    BY <1>1, <2>2, IntervalRecursion
  <2> QED BY <2>3 DEF S
<1>4. ASSUME NEW i \in 1..n PROVE f[i - 1] \in Nat /\ f[i] = f[i - 1] + TokensOf[ts[i]]
  <2>1. i - 1 \in 0..n /\ i \in Nat
    BY <1>1
  <2>2. f[i - 1] \in Nat
    BY <2>1
  <2>3. step[i][f[i - 1]] = f[i - 1] + TokensOf[ts[i]]
    BY <2>2
  <2> QED BY <1>3, <2>2, <2>3
<1>5. f = [i \in 0..n |-> IF i = 0 THEN 0 ELSE f[i - 1] + TokensOf[ts[i]]]
  BY <1>1, <1>3, <1>4
<1>6. upto = [i \in 0..n |-> IF i = 0 THEN 0 ELSE upto[i - 1] + TokensOf[ts[i]]]
  BY <1>5 DEF upto
<1>7. TokensIn(ts) = upto[n]
  BY DEF TokensIn, n
<1> HIDE DEF upto
<1>8. upto[0] \in Nat
  BY <1>1, <1>6
<1>9. ASSUME NEW i \in 1..n, upto[i - 1] \in Nat PROVE upto[i] \in Nat
  <2>1. i \in 0..n /\ i # 0
    BY <1>1
  <2>2. upto[i] = upto[i - 1] + TokensOf[ts[i]]
    BY <1>6, <2>1
  <2> QED BY <1>1, <1>9, <2>2
<1>10. \A i \in 0..n : upto[i] \in Nat
  BY <1>1, <1>8, <1>9, IntervalValues
<1> QED BY <1>1, <1>7, <1>10

LEMMA DelayCounted ==
    ASSUME NEW n \in Nat
    PROVE  Delay(n) \in Nat
<1> DEFINE step == [i \in 1..n |-> [x \in Nat |-> 2 * x]]
           delay[i \in 0..n] == IF i = 0 THEN 1 ELSE 2 * delay[i - 1]
<1>1. step \in Steps(n, Nat)
  BY DEF Steps
<1>2. PICK f \in [0..n -> Nat] : f[0] = 1 /\ \A i \in 1..n : f[i] = step[i][f[i - 1]]
  <2> DEFINE S == Nat
  <2>1. 1 \in S /\ step \in Steps(n, S)
    BY <1>1
  <2> HIDE DEF step, S, delay
  <2>2. ASSUME NEW N \in Nat, NEW T, NEW z \in T, NEW g \in Steps(N, T)
        PROVE  \E f \in [0..N -> T] : f[0] = z /\ \A i \in 1..N : f[i] = g[i][f[i - 1]]
    BY IntervalRecursion
  <2>3. \E f \in [0..n -> S] : f[0] = 1 /\ \A i \in 1..n : f[i] = step[i][f[i - 1]]
    BY <2>1, <2>2
  <2> QED BY <2>3 DEF S
<1>3. ASSUME NEW i \in 1..n PROVE f[i - 1] \in Nat /\ f[i] = 2 * f[i - 1]
  <2>1. i - 1 \in 0..n /\ i \in Nat
    OBVIOUS
  <2>2. f[i - 1] \in Nat
    BY <2>1
  <2>3. step[i][f[i - 1]] = 2 * f[i - 1]
    BY <2>2
  <2> QED BY <1>2, <2>2, <2>3
<1>4. f = [i \in 0..n |-> IF i = 0 THEN 1 ELSE 2 * f[i - 1]]
  BY <1>2, <1>3
<1>5. delay = [i \in 0..n |-> IF i = 0 THEN 1 ELSE 2 * delay[i - 1]]
  BY <1>4 DEF delay
<1>6. Delay(n) = Least(MaxDelay, delay[n])
  BY DEF Delay
<1> HIDE DEF delay
<1>7. delay[0] \in Nat
  BY <1>5
<1>8. ASSUME NEW i \in 1..n, delay[i - 1] \in Nat PROVE delay[i] \in Nat
  <2>1. i \in 0..n /\ i # 0
    OBVIOUS
  <2>2. delay[i] = 2 * delay[i - 1]
    BY <1>5, <2>1
  <2> QED BY <1>8, <2>2
<1>9. \A i \in 0..n : delay[i] \in Nat
  BY <1>7, <1>8, IntervalValues
<1>10. delay[n] \in Nat
  BY <1>9
<1> QED BY <1>6, <1>10, ServiceAssumption DEF Least

-----------------------------------------------------------------------------
(* The service on top of the limiter *)

\* A sub-batch that begins within the texts of a request asks for a number of
\* tokens.
LEMMA SubBatchCounted ==
    ASSUME NEW ts \in Seq(Text), NEW n \in Nat, n < Len(ts)
    PROVE  TokensIn(SubBatch(ts, n)) \in Nat
<1> DEFINE m == Least(n + BatchSize, Len(ts))
<1>1. Len(ts) \in Nat /\ \A i \in 1..Len(ts) : ts[i] \in Text
  BY LenProperties, ElementOfSeq
<1>2. m \in (n + 1)..Len(ts)
  BY <1>1, ServiceAssumption DEF Least
<1> HIDE DEF m
<1>3. \A i \in (n + 1)..m : ts[i] \in Text
  BY <1>1, <1>2
<1>4. SubSeq(ts, n + 1, m) \in Seq(Text)
  BY <1>1, <1>2, <1>3, SubSeqProperties
<1> QED BY <1>4, TokensCounted DEF SubBatch, m

\* What a step of the service does to the limiter is one of its operations.
LEMMA ServiceActs ==
    ASSUME ServiceInv, [ENext]_evars
    PROVE  [LimiterAction]_limiter
<1>1. ASSUME NEW c \in Caller, NEW n \in Nat, BeginWait(c, n) PROVE LimiterAction
  BY <1>1 DEF LimiterAction
<1>2. ASSUME NEW c \in Caller, LimiterStep(c) \/ Leave(c) PROVE LimiterAction
  BY <1>2 DEF LimiterAction
<1>3. ASSUME NEW r \in Caller, Arrive(r) PROVE LimiterAction \/ UNCHANGED limiter
  <2>1. \A t \in Text : TokensOf[t] \in Nat
    BY ServiceAssumption
  <2>2. ASSUME NEW ts \in Batch, NEW m \in Model, EmbedBatch(r, ts, m) PROVE LimiterAction
    <3>1. ts \in Seq(Text) /\ 0 < Len(ts)
      BY ServiceAssumption, EmptySeq, LenProperties
    <3>2. TokensIn(SubBatch(ts, 0)) \in Nat
      BY <3>1, SubBatchCounted
    <3> QED BY <1>1, <2>2, <3>2 DEF EmbedBatch
  <2>3. ASSUME NEW t \in Text, NEW m \in Model, Miss(r, t, m) \/ EmbedDirect(r, t, m) PROVE LimiterAction
    BY <1>1, <2>1, <2>3 DEF Miss, EmbedDirect
  <2>4. ASSUME NEW t \in Text, NEW m \in Model,
               Hit(r, t, m) \/ CacheFails(r, t, m) \/ RetryWithBackoff(r, t, m)
        PROVE  UNCHANGED limiter
    BY <2>4 DEF Hit, CacheFails, RetryWithBackoff
  <2> QED BY <1>3, <2>2, <2>3, <2>4 DEF Arrive
<1>4. ASSUME NEW r \in Caller, ProviderAnswers(r) PROVE LimiterAction \/ UNCHANGED limiter
  <2> DEFINE n == Len(got'[r])
  <2>1. texts[r] \in Seq(Text) /\ got'[r] \in Seq(Text)
    BY <1>4, Answered DEF ProviderAnswers, ServiceInv
  <2>2. n \in Nat
    BY <2>1, LenProperties
  <2>3. CASE n < Len(texts[r])
    <3>1. BeginWait(r, TokensIn(SubBatch(texts[r], n)))
      BY <1>4, <2>3 DEF ProviderAnswers
    <3>2. TokensIn(SubBatch(texts[r], n)) \in Nat
      <4> HIDE DEF n
      <4> QED BY <2>1, <2>2, <2>3, SubBatchCounted
    <3> QED BY <1>1, <3>1, <3>2
  <2>4. CASE ~(n < Len(texts[r]))
    BY <1>4, <2>4 DEF ProviderAnswers
  <2> QED BY <2>3, <2>4
<1>5. ASSUME NEW r \in Caller, Proceed(r) PROVE LimiterAction \/ UNCHANGED limiter
  <2>1. CASE Limit(r) \/ CallProvider(r) \/ Refused(r)
    BY <1>2, <2>1 DEF Limit, CallProvider, Refused
  <2>2. CASE TryAgain(r) \/ Store(r) \/ \E error \in {"transient", "fatal"} : ProviderFails(r, error)
    BY <2>2 DEF TryAgain, Store, ProviderFails
  <2> QED BY <1>4, <1>5, <2>1, <2>2 DEF Proceed
<1>6. ASSUME NEW r \in Caller, Return(r) \/ Cancel(r) PROVE LimiterAction \/ UNCHANGED limiter
  BY <1>2, <1>6 DEF Return, Cancel
<1>7. ASSUME Outside \/ ETick PROVE LimiterAction
  BY <1>7 DEF Outside, ETick, LimiterAction
<1>8. ASSUME RedisFails \/ RedisRecovers \/ (\E t \in Text : Forget(t)) \/ UNCHANGED evars
      PROVE  UNCHANGED limiter
  BY <1>8 DEF RedisFails, RedisRecovers, Forget, evars
<1> QED BY <1>3, <1>5, <1>6, <1>7, <1>8 DEF ENext

LEMMA ServiceWaiters == ESpec => []WaiterInv
<1>1. EInit => WaiterInv
  BY WaiterInit DEF EInit
<1>2. ServiceInv /\ WaiterInv /\ [ENext]_evars => WaiterInv'
  BY ServiceActs, WaiterStep
<1> QED BY <1>1, <1>2, ServiceInvariant, PTL DEF ESpec

\* No request waits for the limiter longer than max_wait and 10%, and one that
\* has slept is refused for a reason: although a batch of any size asks for
\* the tokens of its sub-batches one after the other, is retried, or is
\* cancelled while others wait (rate_limiter.py:121-164).
THEOREM RequestsWaitWithinBounds == ESpec => [](WaitBound /\ RefusedForReason)
<1>1. WaiterInv => WaitBound /\ RefusedForReason
  BY DEF WaiterInv, Patience, WaitBound, RefusedForReason
<1> QED BY <1>1, ServiceWaiters, PTL

\* The policy calls the provider at most max_attempts times in a row, and only
\* sleeps when an attempt is left.
Attempts ==
    /\ calls \in [Caller -> 0..MaxAttempts]
    /\ rest \in [Caller -> Nat]
    /\ \A r \in Caller :
        /\ job[r] = "calling" => calls[r] >= 1
        /\ job[r] = "backoff" => calls[r] < MaxAttempts

\* A step of the service leaves calls and rest alone, or is one of these.
LEMMA AttemptsStep ==
    ASSUME ServiceInv, Attempts, [ENext]_evars
    PROVE  Attempts'
<1> USE ServiceAssumption
<1>1. ASSUME NEW r \in Caller, Arrive(r) PROVE Attempts'
  <2>1. ASSUME NEW t \in Text, NEW m \in Model, RetryWithBackoff(r, t, m) PROVE Attempts'
    BY <2>1 DEF RetryWithBackoff, Enter, Becomes, Attempts, ServiceInv
  <2>2. ASSUME NEW t \in Text, NEW m \in Model,
               Hit(r, t, m) \/ CacheFails(r, t, m) \/ Miss(r, t, m) \/ EmbedDirect(r, t, m)
        PROVE  Attempts'
    BY <2>2 DEF Hit, CacheFails, Miss, EmbedDirect, Enter, Becomes, Attempts, ServiceInv
  <2>3. ASSUME NEW ts \in Batch, NEW m \in Model, EmbedBatch(r, ts, m) PROVE Attempts'
    BY <2>3 DEF EmbedBatch, Enter, Becomes, Attempts, ServiceInv
  <2> QED BY <1>1, <2>1, <2>2, <2>3 DEF Arrive
<1>2. ASSUME NEW r \in Caller, Proceed(r) PROVE Attempts'
  <2>1. CASE Limit(r)
    BY <2>1 DEF Limit, service, Attempts
  <2>2. CASE CallProvider(r) \/ TryAgain(r)
    <3>1. PICK n \in 1..MaxAttempts : calls' = [calls EXCEPT ![r] = n]
      BY <2>2 DEF CallProvider, TryAgain, Attempts
    <3>2. Becomes(r, "calling") /\ rest' = rest
      BY <2>2 DEF CallProvider, TryAgain
    <3> QED BY <3>1, <3>2 DEF Becomes, Attempts, ServiceInv
  <2>6. CASE Refused(r)
    BY <2>6 DEF Refused, Becomes, Attempts, ServiceInv
  <2>3. CASE ProviderAnswers(r)
    <3>1. PICK j \in {"waiting", "storing", "answered"} : Becomes(r, j)
      BY <2>3 DEF ProviderAnswers
    <3>2. calls' = [calls EXCEPT ![r] = 0] /\ rest' = rest
      BY <2>3 DEF ProviderAnswers
    <3> QED BY <3>1, <3>2 DEF Becomes, Attempts, ServiceInv
  <2>4. ASSUME NEW error \in {"transient", "fatal"}, ProviderFails(r, error) PROVE Attempts'
    <3>1. job[r] = "calling" /\ calls[r] >= 1 /\ calls[r] \in 0..MaxAttempts /\ calls' = calls
      BY <2>4 DEF ProviderFails, Attempts
    <3>2. CASE Retries(r, error)
      <4>1. PICK d \in Delays(calls[r] - 1) : rest' = [rest EXCEPT ![r] = d]
        BY <2>4, <3>2 DEF ProviderFails
      <4>2. calls[r] - 1 \in Nat
        BY <3>1
      <4>3. Delay(calls[r] - 1) \in Nat
        BY <4>2, DelayCounted
      <4>4. d \in Nat
        BY <4>1, <4>3 DEF Delays, Nap
      <4>5. Becomes(r, "backoff") /\ calls[r] < MaxAttempts
        BY <2>4, <3>2 DEF ProviderFails, Retries
      <4> QED BY <3>1, <4>1, <4>4, <4>5 DEF Becomes, Attempts, ServiceInv
    <3>3. CASE ~Retries(r, error)
      <4>1. PICK j \in {"exhausted", "failed"} : Becomes(r, j) /\ rest' = rest
        BY <2>4, <3>3 DEF ProviderFails
      <4> QED BY <3>1, <4>1 DEF Becomes, Attempts, ServiceInv
    <3> QED BY <3>2, <3>3
  <2>5. CASE Store(r)
    <3>1. PICK j \in {"storing", "answered"} : Becomes(r, j)
      BY <2>5 DEF Store, Stored
    <3>2. UNCHANGED <<calls, rest>>
      BY <2>5 DEF Store
    <3> QED BY <3>1, <3>2 DEF Becomes, Attempts, ServiceInv
  <2> QED BY <1>2, <2>1, <2>2, <2>3, <2>4, <2>5, <2>6 DEF Proceed
<1>3. ASSUME NEW r \in Caller, Return(r) \/ Cancel(r) PROVE Attempts'
  <2>1. Forgotten(r)
    BY <1>3 DEF Return, Cancel
  <2>2. /\ job' = [job EXCEPT ![r] = "idle"]
        /\ calls' = [calls EXCEPT ![r] = 0]
        /\ rest' = [rest EXCEPT ![r] = 0]
    BY <2>1 DEF Forgotten, Becomes
  <2>3. 0 \in 0..MaxAttempts
    OBVIOUS
  <2> QED BY <2>2, <2>3 DEF Attempts, ServiceInv
<1>4. CASE ETick
  BY <1>4 DEF ETick, Attempts
<1>5. CASE RedisFails \/ RedisRecovers \/ (\E t \in Text : Forget(t)) \/ Outside \/ UNCHANGED evars
  BY <1>5 DEF RedisFails, RedisRecovers, Forget, Outside, service, evars, Attempts
<1> QED BY <1>1, <1>2, <1>3, <1>4, <1>5 DEF ENext

Redis == redis \in {"absent", "up", "down"}

LEMMA RedisStep ==
    ASSUME Redis, [ENext]_evars
    PROVE  Redis'
<1>1. ASSUME NEW r \in Caller, Arrive(r) PROVE Redis'
  BY <1>1 DEF Arrive, Hit, CacheFails, Miss, EmbedDirect, RetryWithBackoff, EmbedBatch, Enter, Redis
<1>2. ASSUME NEW r \in Caller, Proceed(r) PROVE Redis'
  BY <1>2 DEF Proceed, Limit, service, CallProvider, Refused, ProviderAnswers, ProviderFails,
              TryAgain, Store, Redis
<1>3. ASSUME NEW r \in Caller, Return(r) \/ Cancel(r) PROVE Redis'
  BY <1>3 DEF Return, Cancel, Forgotten, Redis
<1>4. CASE RedisFails \/ RedisRecovers \/ (\E t \in Text : Forget(t)) \/ Outside \/ ETick \/ UNCHANGED evars
  BY <1>4 DEF RedisFails, RedisRecovers, Forget, Outside, ETick, service, evars, Redis
<1> QED BY <1>1, <1>2, <1>3, <1>4 DEF ENext

\* Where vectors come from is a model, or unknown.
Models ==
    /\ maker \in [Text -> Model \cup {NoModel}]
    /\ model \in [Caller -> Model \cup {NoModel}]
    /\ origin \in [Caller -> Model \cup {NoModel}]

LEMMA ModelsStep ==
    ASSUME ServiceInv, Models, [ENext]_evars
    PROVE  Models'
<1>1. ASSUME NEW r \in Caller, Arrive(r) PROVE Models'
  <2>1. PICK m \in Model :
             /\ maker' = maker /\ model' = [model EXCEPT ![r] = m]
             /\ origin' = origin \/ \E t \in Text : origin' = [origin EXCEPT ![r] = maker[t]]
    BY <1>1 DEF Arrive, Hit, CacheFails, Miss, EmbedDirect, RetryWithBackoff, EmbedBatch, Enter
  <2> QED BY <2>1 DEF Models
<1>2. ASSUME NEW r \in Caller, Store(r) PROVE Models'
  <2>1. maker' = maker \/ \E t \in Text : maker' = [maker EXCEPT ![t] = origin[r]]
    <3>1. texts[r][stored[r] + 1] \in Text
      <4>1. /\ texts[r] \in Seq(Text) /\ stored[r] \in Nat /\ stored[r] < Len(texts[r])
        BY <1>2 DEF Store, ServiceInv, Holds
      <4>2. stored[r] + 1 \in 1..Len(texts[r])
        BY <4>1, LenProperties
      <4> QED BY <4>1, <4>2, ElementOfSeq
    <3> QED BY <1>2, <3>1 DEF Store
  <2>2. model' = model /\ origin' = origin
    BY <1>2 DEF Store
  <2> QED BY <2>1, <2>2 DEF Models
<1>3. ASSUME NEW r \in Caller, Proceed(r), ~Store(r) PROVE Models'
  <2>1. CASE ProviderAnswers(r)
    BY <2>1 DEF ProviderAnswers, Models
  <2>2. CASE Limit(r) \/ CallProvider(r) \/ Refused(r) \/ TryAgain(r)
    BY <2>2 DEF Limit, service, CallProvider, Refused, TryAgain, Models
  <2>3. CASE \E error \in {"transient", "fatal"} : ProviderFails(r, error)
    BY <2>3 DEF ProviderFails, Models
  <2> QED BY <1>3, <2>1, <2>2, <2>3 DEF Proceed
<1>4. ASSUME NEW r \in Caller, Return(r) \/ Cancel(r) PROVE Models'
  BY <1>4 DEF Return, Cancel, Forgotten, Models
<1>5. ASSUME NEW t \in Text, Forget(t) PROVE Models'
  BY <1>5 DEF Forget, Models
<1>6. CASE RedisFails \/ RedisRecovers \/ Outside \/ ETick \/ UNCHANGED evars
  BY <1>6 DEF RedisFails, RedisRecovers, Outside, ETick, service, evars, Models
<1> QED BY <1>1, <1>2, <1>3, <1>4, <1>5, <1>6 DEF ENext

Credit == credit \in (0 - 1)..(2 * Capacity)

LEMMA CreditStep ==
    ASSUME WaiterInv, Credit, [LimiterAction]_limiter
    PROVE  Credit'
<1> USE LimiterAssumption
<1>1. ASSUME NEW kind, NEW n \in Nat, Charge(kind, n) PROVE Credit'
  BY <1>1 DEF Charge, Ideal, Credit
<1>2. ASSUME NEW n \in 1..MaxRequest, Acquire(n) \/ Consume(n) PROVE Credit'
  BY <1>1, <1>2 DEF Acquire, Consume
<1>3. ASSUME NEW c \in Caller, Grant(c) PROVE Credit'
  BY <1>1, <1>3 DEF Grant, WaiterInv
<1>4. CASE Tick
  BY <1>4 DEF Tick, Least, Credit
<1>5. CASE ResetProvider
  BY <1>5 DEF ResetProvider, Credit
<1>6. CASE credit' = credit
  BY <1>6 DEF Credit
<1> QED
  BY <1>2, <1>3, <1>4, <1>5, <1>6
  DEF LimiterAction, LimiterStep, BeginWait, GiveUp, Doze, Leave, CheckCapacity, limiter

\* Every variable of the service keeps its type: the tokens a caller waits for,
\* which are counted over its texts, the delays of the retry policy, which are
\* doubled, and the provider calls, of which there are at most max_attempts in
\* a row (backoff_strategy.py:188-258).
THEOREM ServiceTypes == ESpec => []ETypeOK
<1>1. EInit => Attempts /\ Redis /\ Credit /\ Models
  BY ServiceAssumption, LimiterAssumption
  DEF EInit, LimiterInit, Attempts, Redis, Credit, Models
<1>2. ServiceInv /\ Attempts /\ [ENext]_evars => Attempts'
  BY AttemptsStep
<1>3. Redis /\ [ENext]_evars => Redis'
  BY RedisStep
<1>4. ServiceInv /\ WaiterInv /\ Credit /\ [ENext]_evars => Credit'
  BY ServiceActs, CreditStep
<1>6. ServiceInv /\ Models /\ [ENext]_evars => Models'
  BY ModelsStep
<1>5. ServiceInv /\ WaiterInv /\ Attempts /\ Redis /\ Credit /\ Models => ETypeOK
  <2>1. Under \cup Ended \cup {"idle", "storing"}
           = Ended \cup {"idle", "waiting", "calling", "backoff", "storing"}
    BY DEF Under
  <2> QED BY <2>1 DEF ServiceInv, WaiterInv, Attempts, Redis, Credit, Models, ETypeOK, LimiterTypeOK
<1> QED BY <1>1, <1>2, <1>3, <1>4, <1>5, <1>6, ServiceInvariant, ServiceWaiters, PTL DEF ESpec
=============================================================================
