----------------------------- MODULE Recursion -----------------------------
(***************************************************************************)
(* Induction over an interval of the naturals, stated with sets in place of *)
(* predicates, and the functions that are defined by recursion over one:    *)
(* what the proofs about lengths and sums of sequences rest on.             *)
(***************************************************************************)
EXTENDS Integers, WellFoundedInduction, TLAPS

LEMMA LeastNumber ==
    ASSUME NEW T \in SUBSET Nat, T # {}
    PROVE  \E m \in T : \A k \in T : m <= k
<1> DEFINE R == OpToRel(<, Nat)
<1>1. IsWellFoundedOn(R, Nat)
  BY NatLessThanWellFounded
<1>2. \A x, y \in Nat : x < y => <<x, y>> \in R
  BY DEF OpToRel
<1> HIDE DEF R
<1>3. PICK m \in T : \A k \in T : ~ (<<k, m>> \in R)
  BY <1>1, WFMin
<1>4. \A k \in T : ~(k < m)
  BY <1>2, <1>3
<1>5. \A k \in T : m <= k
  BY <1>4
<1> QED BY <1>5

\* What holds of 0, and of every i up to n if it holds of its predecessor,
\* holds up to n.
LEMMA IntervalInduction ==
    ASSUME NEW n \in Nat, NEW T, 0 \in T, \A i \in 1..n : i - 1 \in T => i \in T
    PROVE  \A i \in 0..n : i \in T
<1> DEFINE F == {i \in 0..n : i \notin T}
<1>1. SUFFICES ASSUME F # {} PROVE FALSE
  OBVIOUS
<1>2. F \in SUBSET Nat
  OBVIOUS
<1>3. PICK m \in F : \A k \in F : m <= k
  BY <1>1, <1>2, LeastNumber
<1>4. m \in 1..n /\ m - 1 \in 0..n /\ ~(m <= m - 1)
  BY <1>3
<1>5. m - 1 \in T
  BY <1>3, <1>4
<1> QED BY <1>3, <1>4, <1>5

\* The values of a function up to n are in S if that of 0 is, and each is when
\* the one before it is.
LEMMA IntervalValues ==
    ASSUME NEW n \in Nat, NEW S, NEW f, f[0] \in S,
           \A i \in 1..n : f[i - 1] \in S => f[i] \in S
    PROVE  \A i \in 0..n : f[i] \in S
<1> DEFINE T == {i \in 0..n : f[i] \in S}
<1>1. 0 \in T
  OBVIOUS
<1>2. \A i \in 1..n : i - 1 \in T => i \in T
  OBVIOUS
<1>3. \A i \in 0..n : i \in T
  <2> HIDE DEF T
  <2> QED BY <1>1, <1>2, IntervalInduction
<1> QED BY <1>3

\* What takes a value before i to the one at i.
Steps(n, S) == [1..n -> [S -> S]]

\* Recursion over an interval is defined: a function takes the value base at 0,
\* and at every i the value that step gives for i and the value before.
LEMMA IntervalRecursion ==
    ASSUME NEW n \in Nat, NEW S, NEW base \in S, NEW step \in Steps(n, S)
    PROVE  \E f \in [0..n -> S] : f[0] = base /\ \A i \in 1..n : f[i] = step[i][f[i - 1]]
<1> DEFINE Runs(f, i) == f[0] = base /\ \A j \in 1..i : f[j] = step[j][f[j - 1]]
           T == {i \in 0..n : \E f \in [0..i -> S] : Runs(f, i)}
<1>1. 0 \in T
  <2> DEFINE f == [j \in 0..0 |-> base]
  <2>1. f \in [0..0 -> S] /\ Runs(f, 0)
    OBVIOUS
  <2> HIDE DEF f
  <2>2. \E h \in [0..0 -> S] : Runs(h, 0)
    BY <2>1
  <2> QED BY <2>2
<1>2. ASSUME NEW i \in 1..n, i - 1 \in T PROVE i \in T
  <2>1. PICK f \in [0..(i - 1) -> S] : Runs(f, i - 1)
    BY <1>2
  <2> DEFINE g == [j \in 0..i |-> IF j = i THEN step[i][f[i - 1]] ELSE f[j]]
  <2>2. i - 1 \in 0..(i - 1) /\ f[i - 1] \in S
    OBVIOUS
  <2>3. step[i] \in [S -> S]
    BY <2>2 DEF Steps
  <2>4. step[i][f[i - 1]] \in S
    BY <2>2, <2>3
  <2>5. g \in [0..i -> S]
    BY <2>4
  <2>6. Runs(g, i)
    BY <2>1
  <2> HIDE DEF g
  <2>7. \E h \in [0..i -> S] : Runs(h, i)
    BY <2>5, <2>6
  <2> HIDE DEF Runs
  <2>8. i \in 0..n
    OBVIOUS
  <2> QED BY <2>7, <2>8
<1>3. n \in T
  <2> HIDE DEF T
  <2>1. \A i \in 1..n : i - 1 \in T => i \in T
    BY <1>2
  <2>2. \A i \in 0..n : i \in T
    BY <1>1, <2>1, IntervalInduction
  <2> QED BY <2>2
<1> QED BY <1>3

\* The functions that do.
Runs(n, S, base, step) ==
    {f \in [0..n -> S] : f[0] = base /\ \A i \in 1..n : f[i] = step[i][f[i - 1]]}

LEMMA RunExists ==
    ASSUME NEW n \in Nat, NEW S, NEW base \in S, NEW step \in Steps(n, S)
    PROVE  Runs(n, S, base, step) # {}
<1>1. PICK f \in [0..n -> S] : f[0] = base /\ \A i \in 1..n : f[i] = step[i][f[i - 1]]
  BY IntervalRecursion
<1>2. f \in Runs(n, S, base, step)
  BY <1>1 DEF Runs
<1> QED BY <1>2
=============================================================================
