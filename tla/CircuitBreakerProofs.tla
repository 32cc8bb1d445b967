------------------------ MODULE CircuitBreakerProofs ------------------------
(***************************************************************************)
(* Proofs about CircuitBreaker, for any callers and thresholds.             *)
(***************************************************************************)
EXTENDS CircuitBreaker, FiniteSetTheorems, TLAPS

\* TypeOK, and what the counters mean: below its threshold while CLOSED; while
\* HALF_OPEN, good is the counter of successes and one more would not do.
BreakerInv ==
    /\ TypeOK
    /\ ClosedBelowThreshold
    /\ state = "HALF_OPEN" => success_count = good /\ success_count < SuccessThreshold

LEMMA BreakerInit == Init => BreakerInv
<1> SUFFICES ASSUME Init PROVE BreakerInv
  OBVIOUS
<1>1. expired \in BOOLEAN /\ ~expired /\ healthy \in BOOLEAN
  BY DEF Init
<1>2. /\ failure_count \in 0..FailureThreshold /\ success_count \in 0..SuccessThreshold
      /\ half_open_calls \in 0..HalfOpenMax /\ good \in 0..SuccessThreshold
      /\ cancels \in 0..MaxCancels /\ resets \in 0..MaxResets /\ spoiled \in 0..cancels
      /\ failure_count < FailureThreshold
  BY BreakerAssumption DEF Init
<1>3. flight \in [Caller -> {"idle", "normal", "probe", "late"}]
  BY DEF Init
<1>4. state = "CLOSED"
  BY DEF Init
<1> QED BY <1>1, <1>2, <1>3, <1>4 DEF BreakerInv, TypeOK, ClosedBelowThreshold

LEMMA SaturatedRange ==
    ASSUME NEW limit \in Nat, NEW n \in 0..limit
    PROVE  Saturated(n, limit) \in 0..limit /\ (n < limit => Saturated(n, limit) = n + 1)
  BY DEF Saturated

LEMMA BreakerStep == BreakerInv /\ [Next]_vars => BreakerInv'
<1> SUFFICES ASSUME BreakerInv, [Next]_vars PROVE BreakerInv'
  OBVIOUS
<1> USE BreakerAssumption
<1>1. ASSUME NEW c \in Caller, Admit(c) PROVE BreakerInv'
  <2>1. CASE AdmitClosed(c)
    <3>1. /\ UNCHANGED <<state, failure_count, success_count, half_open_calls, good>>
          /\ UNCHANGED <<expired, spoiled, healthy, cancels, resets>>
      BY <1>1, <2>1 DEF Admit, AdmitClosed, counters
    <3>2. flight' \in [Caller -> {"idle", "normal", "probe", "late"}]
      <4>1. flight' = [flight EXCEPT ![c] = "normal"]
        BY <2>1 DEF AdmitClosed
      <4> QED BY <4>1 DEF BreakerInv, TypeOK
    <3>3. expired' \in BOOLEAN /\ (expired' => state' = "OPEN") /\ healthy' \in BOOLEAN
      BY <3>1 DEF BreakerInv, TypeOK
    <3> QED BY <3>1, <3>2, <3>3 DEF BreakerInv, TypeOK, ClosedBelowThreshold
  <2>2. CASE AdmitExpired(c)
    <3>1. /\ state' = "HALF_OPEN" /\ failure_count' = 0 /\ success_count' = 0
          /\ half_open_calls' = 1 /\ good' = 0 /\ spoiled' = 0
          /\ UNCHANGED <<healthy, cancels, resets>>
      BY <1>1, <2>2 DEF Admit, AdmitExpired
    <3>2. flight' \in [Caller -> {"idle", "normal", "probe", "late"}]
      BY <2>2 DEF AdmitExpired
    <3>3. expired' \in BOOLEAN /\ ~expired' /\ healthy' \in BOOLEAN
      BY <2>2, <3>1 DEF AdmitExpired, BreakerInv, TypeOK
    <3>4. 1 \in 0..HalfOpenMax /\ 0 < SuccessThreshold /\ 0 \in 0..cancels
      BY DEF BreakerInv, TypeOK
    <3> QED BY <3>1, <3>2, <3>3, <3>4 DEF BreakerInv, TypeOK, ClosedBelowThreshold
  <2>3. CASE AdmitProbe(c)
    BY <1>1, <2>3 DEF Admit, AdmitProbe, BreakerInv, TypeOK, ClosedBelowThreshold
  <2> QED BY <1>1, <2>1, <2>2, <2>3 DEF Admit
<1>2. ASSUME NEW c \in Caller, Succeed(c) PROVE BreakerInv'
  <2>1. CASE Closes
    <3>1. good' = good + 1 /\ good + 1 \in 0..SuccessThreshold
      BY <1>2, <2>1 DEF Succeed, Closes, BreakerInv, TypeOK
    <3> QED BY <1>2, <2>1, <3>1 DEF Succeed, Closes, BreakerInv, TypeOK, ClosedBelowThreshold
  <2>2. CASE ~Closes /\ state = "HALF_OPEN"
    <3>1. /\ success_count + 1 < SuccessThreshold /\ good = success_count
          /\ success_count \in 0..SuccessThreshold
      BY <2>2 DEF Closes, BreakerInv, TypeOK
    <3>2. success_count' = success_count + 1 /\ good' = success_count + 1
      BY <1>2, <2>2, <3>1, SaturatedRange DEF Succeed
    <3> QED BY <1>2, <2>2, <3>1, <3>2 DEF Succeed, BreakerInv, TypeOK, ClosedBelowThreshold
  <2>3. CASE ~Closes /\ state # "HALF_OPEN"
    <3>1. success_count' \in 0..SuccessThreshold
      BY <1>2, <2>3, SaturatedRange DEF Succeed, BreakerInv, TypeOK
    <3> QED BY <1>2, <2>3, <3>1 DEF Succeed, BreakerInv, TypeOK, ClosedBelowThreshold
  <2> QED BY <2>1, <2>2, <2>3
<1>3. ASSUME NEW c \in Caller, Fail(c) PROVE BreakerInv'
  <2>1. failure_count' \in 0..FailureThreshold
    BY <1>3, SaturatedRange DEF Fail, BreakerInv, TypeOK
  <2>2. ClosedBelowThreshold'
    <3>1. CASE state = "CLOSED" /\ ~Opens
      <4>1. failure_count + 1 < FailureThreshold /\ failure_count \in 0..FailureThreshold
        BY <3>1 DEF Opens, BreakerInv, TypeOK
      <4>2. failure_count' = failure_count + 1
        BY <1>3, <4>1, SaturatedRange DEF Fail
      <4> QED BY <4>1, <4>2 DEF ClosedBelowThreshold
    <3>2. CASE state # "CLOSED" \/ Opens
      BY <1>3, <3>2 DEF Fail, ClosedBelowThreshold
    <3> QED BY <3>1, <3>2
  <2> QED BY <1>3, <2>1, <2>2 DEF Fail, Opens, BreakerInv, TypeOK
<1>4. ASSUME NEW c \in Caller, Cancel(c) PROVE BreakerInv'
  <2>1. spoiled' \in 0..cancels'
    BY <1>4 DEF Cancel, BreakerInv, TypeOK
  <2> QED BY <1>4, <2>1 DEF Cancel, counters, BreakerInv, TypeOK, ClosedBelowThreshold
<1>5. ASSUME Expire \/ Recover PROVE BreakerInv'
  <2>1. /\ UNCHANGED <<state, failure_count, success_count, half_open_calls, good>>
        /\ UNCHANGED <<flight, spoiled, cancels, resets>>
    BY <1>5 DEF Expire, Recover, counters
  <2>2. /\ expired' \in BOOLEAN /\ (expired' => state' = "OPEN")
        /\ healthy' \in BOOLEAN
    <3>1. CASE Expire
      <4>1. state' = "OPEN" /\ expired' = TRUE /\ healthy' = healthy
        BY <3>1 DEF Expire
      <4> QED BY <4>1 DEF BreakerInv, TypeOK
    <3>2. CASE Recover
      <4>1. state' = state /\ expired' = expired /\ healthy' = TRUE
        BY <3>2 DEF Recover
      <4> QED BY <4>1 DEF BreakerInv, TypeOK
    <3> QED BY <1>5, <3>1, <3>2
  <2> QED BY <2>1, <2>2 DEF BreakerInv, TypeOK, ClosedBelowThreshold
<1>6. ASSUME ResetAll PROVE BreakerInv'
  <2>1. /\ UNCHANGED <<half_open_calls, flight, good, spoiled, healthy, cancels>>
        /\ state' = "CLOSED" /\ failure_count' = 0 /\ success_count' = 0
        /\ expired' \in BOOLEAN /\ ~expired'
    BY <1>6 DEF ResetAll
  <2>2. resets' \in 0..MaxResets
    BY <1>6 DEF ResetAll, BreakerInv, TypeOK
  <2>3. failure_count' \in 0..FailureThreshold /\ success_count' \in 0..SuccessThreshold
        /\ failure_count' < FailureThreshold
    BY <2>1
  <2> QED BY <2>1, <2>2, <2>3 DEF BreakerInv, TypeOK, ClosedBelowThreshold
<1>7. ASSUME UNCHANGED vars PROVE BreakerInv'
  BY <1>7 DEF vars, counters, BreakerInv, TypeOK, ClosedBelowThreshold
<1> QED BY <1>1, <1>2, <1>3, <1>4, <1>5, <1>6, <1>7 DEF Next, Reject

LEMMA BreakerInvariant == Spec => []BreakerInv
  BY BreakerInit, BreakerStep, PTL DEF Spec

\* Type correctness: in particular both counters stay within their thresholds
\* and no half-open period admits more calls than half_open_max_calls.
THEOREM BreakerTypes == Spec => []TypeOK
<1>1. BreakerInv => TypeOK
  BY DEF BreakerInv
<1> QED BY <1>1, BreakerInvariant, PTL

\* No outcome, however late, leaves the breaker CLOSED with its failure
\* threshold reached (circuit_breaker.py:180-208).
THEOREM ClosedIsBelow == Spec => []ClosedBelowThreshold
<1>1. BreakerInv => ClosedBelowThreshold
  BY DEF BreakerInv
<1> QED BY <1>1, BreakerInvariant, PTL

\* Only reset_all closes the breaker without SuccessThreshold successes in the
\* half-open period that ends (circuit_breaker.py:165-167).
THEOREM ClosesWithEvidence == Spec => ClosesOnEvidence
<1> DEFINE Evidence ==
        state = "HALF_OPEN" /\ state' = "CLOSED" /\ resets' = resets => good' >= SuccessThreshold
<1>1. ASSUME BreakerInv, Next PROVE Evidence
  <2>1. ASSUME NEW c \in Caller, Succeed(c) PROVE Evidence
    BY <1>1, <2>1, BreakerAssumption DEF Succeed, Closes, BreakerInv, TypeOK
  <2>2. ASSUME NEW c \in Caller, Admit(c) \/ Reject(c) \/ Fail(c) \/ Cancel(c) PROVE Evidence
    BY <2>2 DEF Admit, AdmitClosed, AdmitExpired, AdmitProbe, Reject, Fail, Opens, Cancel, vars
  <2>3. ASSUME Expire \/ Recover \/ ResetAll PROVE Evidence
    BY <1>1, <2>3 DEF Expire, Recover, ResetAll, BreakerInv, TypeOK
  <2> QED BY <1>1, <2>1, <2>2, <2>3 DEF Next
<1>2. BreakerInv /\ [Next]_vars => [Evidence]_vars
  BY <1>1
<1> QED BY <1>2, BreakerInvariant, PTL DEF Spec, ClosesOnEvidence

-----------------------------------------------------------------------------
(* The probes of a half-open period *)

\* Each admitted probe is still on its way, was counted as a success, or was
\* cancelled.
ProbesAccounted ==
    /\ IsFiniteSet(Probes)
    /\ state = "HALF_OPEN" => half_open_calls <= success_count + Cardinality(Probes) + spoiled

LEMMA ProbesInit == Init => ProbesAccounted
  BY FS_EmptySet DEF Init, ProbesAccounted, Probes

\* A call that ends takes at most one probe away.
LEMMA ProbeEnds ==
    ASSUME TypeOK, IsFiniteSet(Probes), NEW c \in Caller,
           flight' = [flight EXCEPT ![c] = "idle"]
    PROVE  /\ IsFiniteSet(Probes')
           /\ Cardinality(Probes') \in Nat /\ Cardinality(Probes) \in Nat
           /\ Cardinality(Probes) <= Cardinality(Probes') + 1
<1>1. Probes' = Probes \ {c}
  BY DEF Probes, TypeOK
<1>2. CASE c \in Probes
  <2>1. /\ IsFiniteSet(Probes \ {c})
        /\ Cardinality(Probes \ {c}) = Cardinality(Probes) - 1
    BY <1>2, FS_RemoveElement
  <2>2. Cardinality(Probes) \in Nat /\ Cardinality(Probes \ {c}) \in Nat
    BY <2>1, FS_CardinalityType
  <2>3. Cardinality(Probes) <= Cardinality(Probes \ {c}) + 1
    BY <2>1, <2>2
  <2> QED BY <1>1, <2>1, <2>2, <2>3
<1>3. CASE c \notin Probes
  <2>1. Probes' = Probes
    BY <1>1, <1>3
  <2> QED BY <2>1, FS_CardinalityType
<1> QED BY <1>2, <1>3

LEMMA ProbesStep == BreakerInv /\ ProbesAccounted /\ [Next]_vars => ProbesAccounted'
<1> SUFFICES ASSUME BreakerInv, ProbesAccounted, [Next]_vars PROVE ProbesAccounted'
  OBVIOUS
<1> USE BreakerAssumption
<1>0. /\ TypeOK /\ IsFiniteSet(Probes) /\ Cardinality(Probes) \in Nat
      /\ success_count \in Nat /\ half_open_calls \in Nat /\ spoiled \in Nat
  BY FS_CardinalityType DEF BreakerInv, TypeOK, ProbesAccounted
<1>1. ASSUME NEW c \in Caller, Admit(c) PROVE ProbesAccounted'
  <2>1. CASE AdmitClosed(c)
    <3>1. Probes' = Probes
      BY <1>0, <1>1, <2>1 DEF Admit, AdmitClosed, Probes, TypeOK
    <3> QED BY <1>0, <2>1, <3>1 DEF AdmitClosed, ProbesAccounted
  <2>2. CASE AdmitExpired(c)
    <3>1. Probes' = {c}
      BY <1>0, <2>2 DEF AdmitExpired, Probes, InFlight, TypeOK
    <3>2. IsFiniteSet({c}) /\ Cardinality({c}) = 1
      BY FS_Singleton
    <3>3. half_open_calls' = 1 /\ success_count' = 0 /\ spoiled' = 0
      BY <1>1, <2>2 DEF Admit, AdmitExpired
    <3>4. 1 <= 0 + 1 + 0
      OBVIOUS
    <3> QED BY <3>1, <3>2, <3>3, <3>4 DEF ProbesAccounted
  <2>3. CASE AdmitProbe(c)
    <3>1. Probes' = Probes \cup {c} /\ c \notin Probes
      BY <1>0, <1>1, <2>3 DEF Admit, AdmitProbe, Probes, TypeOK
    <3>2. IsFiniteSet(Probes') /\ Cardinality(Probes') = Cardinality(Probes) + 1
      BY <1>0, <3>1, FS_AddElement
    <3>3. /\ half_open_calls' = half_open_calls + 1
          /\ success_count' = success_count /\ spoiled' = spoiled
      BY <1>1, <2>3 DEF Admit, AdmitProbe
    <3>4. half_open_calls + 1 <= success_count + (Cardinality(Probes) + 1) + spoiled
      BY <1>0, <2>3 DEF ProbesAccounted, AdmitProbe
    <3> QED BY <3>2, <3>3, <3>4 DEF ProbesAccounted
  <2> QED BY <1>1, <2>1, <2>2, <2>3 DEF Admit
<1>2. ASSUME NEW c \in Caller, Succeed(c) PROVE ProbesAccounted'
  <2>1. /\ IsFiniteSet(Probes') /\ Cardinality(Probes') \in Nat
        /\ Cardinality(Probes) <= Cardinality(Probes') + 1
    BY <1>0, <1>2, ProbeEnds DEF Succeed
  <2>2. half_open_calls' = half_open_calls /\ spoiled' = spoiled
    BY <1>2 DEF Succeed
  <2>3. CASE state = "HALF_OPEN" /\ ~Closes
    <3>1. success_count' = success_count + 1
      BY <1>0, <1>2, <2>3 DEF Succeed, Saturated, Closes
    <3>2. half_open_calls <= success_count + 1 + Cardinality(Probes') + spoiled
      BY <1>0, <2>1, <2>3 DEF ProbesAccounted
    <3> QED BY <2>1, <2>2, <3>1, <3>2 DEF ProbesAccounted
  <2>4. CASE state # "HALF_OPEN" \/ Closes
    BY <1>2, <2>1, <2>4 DEF Succeed, Closes, ProbesAccounted
  <2> QED BY <2>3, <2>4
<1>3. ASSUME NEW c \in Caller, Fail(c) PROVE ProbesAccounted'
  <2>1. IsFiniteSet(Probes')
    BY <1>0, <1>3, ProbeEnds DEF Fail
  <2> QED BY <1>3, <2>1 DEF Fail, Opens, ProbesAccounted
<1>4. ASSUME NEW c \in Caller, Cancel(c) PROVE ProbesAccounted'
  <2>1. /\ IsFiniteSet(Probes') /\ Cardinality(Probes') \in Nat
        /\ Cardinality(Probes) <= Cardinality(Probes') + 1
    BY <1>0, <1>4, ProbeEnds DEF Cancel
  <2>2. /\ half_open_calls' = half_open_calls /\ success_count' = success_count
        /\ state' = state
    BY <1>4 DEF Cancel, counters
  <2>3. CASE c \in Probes
    <3>1. spoiled' = spoiled + 1
      BY <1>4, <2>3 DEF Cancel
    <3>2. state = "HALF_OPEN" =>
            half_open_calls <= success_count + Cardinality(Probes') + (spoiled + 1)
      BY <1>0, <2>1 DEF ProbesAccounted
    <3> QED BY <2>1, <2>2, <3>1, <3>2 DEF ProbesAccounted
  <2>4. CASE c \notin Probes
    <3>1. Probes' = Probes /\ spoiled' = spoiled
      BY <1>0, <1>4, <2>4 DEF Cancel, Probes, TypeOK
    <3> QED BY <2>2, <3>1 DEF ProbesAccounted
  <2> QED BY <2>3, <2>4
<1>5. ASSUME Expire \/ Recover \/ ResetAll \/ UNCHANGED vars PROVE ProbesAccounted'
  <2>1. Probes' = Probes
    BY <1>5 DEF Expire, Recover, ResetAll, vars, Probes
  <2> QED BY <1>5, <2>1 DEF Expire, Recover, ResetAll, vars, counters, ProbesAccounted
<1> QED BY <1>1, <1>2, <1>3, <1>4, <1>5 DEF Next, Reject

\* Whatever else happens, HALF_OPEN is a dead end only if the probes cancelled in
\* this half-open period leave fewer than success_threshold of its calls
\* (circuit_breaker.py:150-156 counts every probe and gives none back).  For any
\* number of cancellations and resets: one period with the default numbers is
\* wedged by two cancelled probes and never by one.
THEOREM OnlyCancelsWedge == Spec => []WedgedOnlyByCancels
<1>1. BreakerInv /\ ProbesAccounted => WedgedOnlyByCancels
  <2> SUFFICES ASSUME BreakerInv, ProbesAccounted, Wedged
               PROVE  spoiled + SuccessThreshold > HalfOpenMax
    BY DEF WedgedOnlyByCancels, Starved
  <2>1. Probes = {}
    BY DEF Wedged, InFlight, Probes
  <2>2. half_open_calls <= success_count + 0 + spoiled
    BY <2>1, FS_EmptySet DEF ProbesAccounted, Wedged
  <2>3. /\ success_count < SuccessThreshold /\ HalfOpenMax <= half_open_calls
        /\ success_count \in Nat /\ half_open_calls \in Nat /\ spoiled \in Nat
    BY BreakerAssumption DEF BreakerInv, TypeOK, Wedged
  <2> QED BY <2>2, <2>3, BreakerAssumption
<1>2. Spec => []ProbesAccounted
  BY BreakerInvariant, ProbesInit, ProbesStep, PTL DEF Spec
<1> QED BY <1>1, <1>2, BreakerInvariant, PTL
=============================================================================
