-------------------------- MODULE ChunkingProofs --------------------------
(***************************************************************************)
(* Proofs about Chunking, for any documents, word lengths and limits.       *)
(***************************************************************************)
EXTENDS Chunking, Recursion, SequenceTheorems

Word ==
    [id : DOMAIN LengthOf, gap : Seq({"blank", "newline"}) \ {<<>>}, at : Nat \X Nat \X Nat,
     from : Int, len : Nat \ {0}, stop : BOOLEAN]

Text == [words : Seq(Word), len : Nat]

-----------------------------------------------------------------------------
(* Where words end *)

LEMMA WordLengths ==
    ASSUME NEW ws \in Seq(Word)
    PROVE  /\ Len(ws) \in Nat /\ DOMAIN ws = 1..Len(ws)
           /\ \A i \in 1..Len(ws) :
                 /\ ws[i] \in Word /\ ws[i].len \in Nat /\ ws[i].len > 0
                 /\ GapBefore(ws, i) \in Nat
<1>1. \A i \in 1..Len(ws) : ws[i] \in Word
  BY ElementOfSeq
<1>2. \A w \in Word : w.len \in Nat /\ w.len > 0 /\ w.gap \in Seq({"blank", "newline"})
  BY DEF Word
<1>3. \A w \in Word : Len(w.gap) \in Nat
  BY <1>2, LenProperties
<1>4. \A i \in 1..Len(ws) : GapBefore(ws, i) \in Nat
  BY <1>1, <1>3 DEF GapBefore
<1> QED BY <1>1, <1>2, <1>4, LenProperties

LEMMA EndsDefined ==
    ASSUME NEW ws \in Seq(Word)
    PROVE  /\ EndOf(ws) \in [0..Len(ws) -> Nat]
           /\ EndOf(ws)[0] = 0
           /\ \A i \in 1..Len(ws) : EndOf(ws)[i] = EndOf(ws)[i - 1] + GapBefore(ws, i) + ws[i].len
<1> DEFINE n == Len(ws)
           step == [i \in 1..n |-> [x \in Nat |-> x + GapBefore(ws, i) + ws[i].len]]
           end[i \in 0..n] == IF i = 0 THEN 0 ELSE end[i - 1] + GapBefore(ws, i) + ws[i].len
<1>1. n \in Nat /\ \A i \in 1..n : ws[i].len \in Nat /\ GapBefore(ws, i) \in Nat
  BY WordLengths
<1> HIDE DEF n
<1>2. step \in Steps(n, Nat)
  BY <1>1 DEF Steps
<1>3. PICK f \in [0..n -> Nat] : f[0] = 0 /\ \A i \in 1..n : f[i] = step[i][f[i - 1]]
  <2> HIDE DEF step, end
  <2>1. Runs(n, Nat, 0, step) # {}
    BY <1>1, <1>2, RunExists
  <2> QED BY <2>1 DEF Runs
<1>4. ASSUME NEW i \in 1..n PROVE f[i - 1] \in Nat /\ f[i] = f[i - 1] + GapBefore(ws, i) + ws[i].len
  <2>1. i - 1 \in 0..n /\ i \in Nat
    BY <1>1
  <2>2. f[i - 1] \in Nat
    BY <2>1
  <2>3. step[i][f[i - 1]] = f[i - 1] + GapBefore(ws, i) + ws[i].len
    BY <2>2
  <2> QED BY <1>3, <2>2, <2>3
<1>5. f = [i \in 0..n |-> IF i = 0 THEN 0 ELSE f[i - 1] + GapBefore(ws, i) + ws[i].len]
  <2> HIDE DEF step, end
  <2>1. ASSUME NEW i \in 0..n
        PROVE  f[i] = IF i = 0 THEN 0 ELSE f[i - 1] + GapBefore(ws, i) + ws[i].len
    <3>1. i = 0 \/ i \in 1..n
      BY <1>1
    <3>2. CASE i = 0
      BY <1>3, <3>2
    <3>3. CASE i \in 1..n
      <4>1. i # 0
        BY <1>1, <3>3
      <4> QED BY <1>4, <3>3, <4>1
    <3> QED BY <3>1, <3>2, <3>3
  <2>2. DOMAIN f = 0..n /\ f = [i \in 0..n |-> f[i]]
    OBVIOUS
  <2> QED BY <2>1, <2>2, Zenon
<1>6. end = [i \in 0..n |-> IF i = 0 THEN 0 ELSE end[i - 1] + GapBefore(ws, i) + ws[i].len]
  BY <1>5 DEF end
<1>7. EndOf(ws) = end
  BY DEF EndOf, n
<1> HIDE DEF end
<1>8. end[0] = 0 /\ DOMAIN end = 0..n
  BY <1>1, <1>6
<1>9. ASSUME NEW i \in 1..n PROVE end[i] = end[i - 1] + GapBefore(ws, i) + ws[i].len
  <2>1. i \in 0..n /\ i # 0
    BY <1>1
  <2> QED BY <1>6, <2>1
<1>10. ASSUME NEW i \in 1..n, end[i - 1] \in Nat PROVE end[i] \in Nat
  <2>1. ws[i].len \in Nat /\ GapBefore(ws, i) \in Nat /\ end[i] = end[i - 1] + GapBefore(ws, i) + ws[i].len
    BY <1>1, <1>9
  <2> QED BY <1>10, <2>1
<1>11. end[0] \in Nat
  BY <1>8
<1>12. \A i \in 0..n : end[i] \in Nat
  BY <1>1, <1>10, <1>11, IntervalValues
<1>13. end \in [0..n -> Nat]
  BY <1>6, <1>12
<1> QED BY <1>7, <1>8, <1>9, <1>13 DEF n

\* Words that agree end at the same places.
LEMMA EndsAgree ==
    ASSUME NEW ws \in Seq(Word), NEW vs \in Seq(Word), NEW k \in Nat,
           k <= Len(ws), k <= Len(vs), \A i \in 1..k : ws[i] = vs[i]
    PROVE  EndOf(ws)[k] = EndOf(vs)[k]
<1> DEFINE T == {i \in 0..k : EndOf(ws)[i] = EndOf(vs)[i]}
<1>1. Len(ws) \in Nat /\ Len(vs) \in Nat
  BY LenProperties
<1>2. 0 \in T
  BY EndsDefined
<1>3. ASSUME NEW i \in 1..k, i - 1 \in T PROVE i \in T
  <2>1. i \in 1..Len(ws) /\ i \in 1..Len(vs)
    BY <1>1
  <2>2. /\ EndOf(ws)[i] = EndOf(ws)[i - 1] + GapBefore(ws, i) + ws[i].len
        /\ EndOf(vs)[i] = EndOf(vs)[i - 1] + GapBefore(vs, i) + vs[i].len
    BY <2>1, EndsDefined
  <2>3. EndOf(ws)[i - 1] = EndOf(vs)[i - 1] /\ ws[i] = vs[i] /\ i \in 0..k
    BY <1>3
  <2>4. GapBefore(ws, i) = GapBefore(vs, i)
    BY <2>3 DEF GapBefore
  <2> QED BY <2>2, <2>3, <2>4
<1>4. k \in T
  <2> HIDE DEF T
  <2>1. \A i \in 1..k : i - 1 \in T => i \in T
    BY <1>3
  <2>2. \A i \in 0..k : i \in T
    BY <1>2, <2>1, IntervalInduction
  <2> QED BY <2>2
<1> QED BY <1>4

\* Every word has a letter, in front of which the others end.
LEMMA EndsGrow ==
    ASSUME NEW ws \in Seq(Word), NEW i \in 1..Len(ws)
    PROVE  /\ EndOf(ws)[i] \in Nat /\ EndOf(ws)[i] > EndOf(ws)[i - 1]
           /\ StartOf(ws, i) \in Nat /\ StartOf(ws, i) >= EndOf(ws)[i - 1]
           /\ EndOf(ws)[i] = StartOf(ws, i) + ws[i].len
           /\ ws[i] \in Word /\ ws[i].len \in Nat /\ ws[i].len > 0
           /\ i = 1 => StartOf(ws, i) = 0
<1>1. i \in 0..Len(ws) /\ i - 1 \in 0..Len(ws)
  BY LenProperties
<1>2. EndOf(ws)[i - 1] \in Nat /\ EndOf(ws)[i] \in Nat
  BY <1>1, EndsDefined
<1>3. /\ EndOf(ws)[i] = EndOf(ws)[i - 1] + GapBefore(ws, i) + ws[i].len
      /\ ws[i] \in Word /\ ws[i].len \in Nat /\ ws[i].len > 0 /\ GapBefore(ws, i) \in Nat
  BY EndsDefined, WordLengths
<1>4. i = 1 => StartOf(ws, i) = 0
  <2>1. i = 1 => i - 1 = 0 /\ GapBefore(ws, i) = 0
    BY DEF GapBefore
  <2> QED BY <2>1, EndsDefined DEF StartOf
<1> QED BY <1>2, <1>3, <1>4 DEF StartOf

LEMMA WordFound ==
    ASSUME NEW ws \in Seq(Word), NEW n \in Int, ws # <<>>, EndOf(ws)[Len(ws)] > n
    PROVE  /\ WordAt(ws, n) \in 1..Len(ws)
           /\ EndOf(ws)[WordAt(ws, n)] > n
           /\ \A i \in 1..(WordAt(ws, n) - 1) : EndOf(ws)[i] <= n
<1> DEFINE S == {i \in DOMAIN ws : EndOf(ws)[i] > n}
<1>1. Len(ws) \in Nat /\ Len(ws) > 0 /\ DOMAIN ws = 1..Len(ws)
  BY LenProperties, EmptySeq
<1>2. S \in SUBSET Nat /\ S # {}
  BY <1>1
<1>3. WordAt(ws, n) = Min(S)
  BY DEF WordAt
<1>4. WordAt(ws, n) \in S /\ \A i \in S : WordAt(ws, n) <= i
  <2> HIDE DEF S
  <2>1. \E m \in S : \A i \in S : m <= i
    BY <1>2, LeastNumber
  <2> QED BY <1>3, <2>1 DEF Min
<1>5. ASSUME NEW i \in 1..(WordAt(ws, n) - 1) PROVE EndOf(ws)[i] <= n
  <2>1. i \in 1..Len(ws) /\ ~(WordAt(ws, n) <= i)
    BY <1>1, <1>4
  <2>2. EndOf(ws)[i] \in Int
    BY <2>1, EndsGrow
  <2>3. i \notin S
    BY <1>4, <2>1
  <2> QED BY <1>1, <2>1, <2>2, <2>3
<1> QED BY <1>1, <1>4, <1>5

-----------------------------------------------------------------------------
(* Cutting a sentence *)

LEMMA WordsText ==
    ASSUME NEW ws \in Seq(Word), ws # <<>>
    PROVE  /\ Words(ws) \in Text
           /\ Words(ws).words = ws
           /\ Words(ws).len = EndOf(ws)[Len(ws)]
<1>1. Len(ws) \in 1..Len(ws)
  BY EmptySeq
<1> QED BY <1>1, EndsGrow DEF Words, Text

LEMMA WordsSubSeq ==
    ASSUME NEW ws \in Seq(Word), NEW a \in 1..Len(ws), NEW b \in a..Len(ws)
    PROVE  /\ SubSeq(ws, a, b) \in Seq(Word)
           /\ Len(SubSeq(ws, a, b)) = b - a + 1
           /\ \A i \in 1..(b - a + 1) : SubSeq(ws, a, b)[i] = ws[a + i - 1]
<1>1. Len(ws) \in Nat
  BY LenProperties
<1>2. \A i \in a..b : ws[i] \in Word
  BY <1>1, ElementOfSeq
<1> QED BY <1>1, <1>2, SubSeqProperties

\* What is cut off is not empty, and has at most n characters: the words in front
\* of the one that ends behind n, and a piece of that one if it begins before n.
LEMMA BeforeFits ==
    ASSUME NEW ws \in Seq(Word), NEW n \in Nat \ {0}, ws # <<>>, EndOf(ws)[Len(ws)] > n
    PROVE  /\ Before(ws, n) \in Seq(Word)
           /\ Before(ws, n) # <<>>
           /\ Words(Before(ws, n)).len <= n
           /\ \E k \in 1..Len(ws) :
                 /\ k = WordAt(ws, n)
                 /\ \A i \in 1..(k - 1) : Before(ws, n)[i] = ws[i]
                 /\ n - StartOf(ws, k) <= 0 => k > 1 /\ Len(Before(ws, n)) = k - 1
                 /\ ~(n - StartOf(ws, k) <= 0) =>
                       /\ Len(Before(ws, n)) = k
                       /\ Before(ws, n)[k] =
                            [ws[k] EXCEPT !.len = n - StartOf(ws, k), !.stop = FALSE]
<1> DEFINE k == WordAt(ws, n)
           some == n - StartOf(ws, k)
           w == [ws[k] EXCEPT !.len = some, !.stop = FALSE]
<1>1. Len(ws) \in Nat /\ Len(ws) > 0
  BY EmptySeq, LenProperties
<1>2. k \in 1..Len(ws) /\ EndOf(ws)[k] > n /\ \A i \in 1..(k - 1) : EndOf(ws)[i] <= n
  BY WordFound
<1>3. Before(ws, n) = IF some <= 0 THEN SubSeq(ws, 1, k - 1) ELSE [SubSeq(ws, 1, k) EXCEPT ![k] = w]
  BY DEF Before
<1>4. k = WordAt(ws, n)
  OBVIOUS
<1> HIDE DEF k
<1>5. /\ EndOf(ws)[k] \in Nat /\ StartOf(ws, k) \in Nat
      /\ StartOf(ws, k) >= EndOf(ws)[k - 1] /\ (k = 1 => StartOf(ws, k) = 0)
      /\ ws[k] \in Word /\ ws[k].len \in Nat /\ ws[k].len > 0
  BY <1>2, EndsGrow
<1>6. CASE some <= 0
  <2> DEFINE h == k - 1
             part == SubSeq(ws, 1, h)
  <2>1. k > 1 /\ h \in 1..Len(ws) /\ h \in 1..(k - 1)
    BY <1>1, <1>2, <1>5, <1>6
  <2>2. EndOf(ws)[h] <= n
    BY <1>2, <2>1
  <2>3. Before(ws, n) = part
    BY <1>3, <1>6
  <2> HIDE DEF h
  <2>4. 1 \in 1..Len(ws) /\ h \in 1..Len(ws) /\ h - 1 + 1 = h
    BY <1>1, <2>1
  <2>5. part \in Seq(Word) /\ Len(part) = h /\ \A i \in 1..h : part[i] = ws[i]
    <3>1. \A i \in 1..h : ws[i] \in Word
      BY <1>1, <2>4, ElementOfSeq
    <3> QED BY <2>4, <3>1, SubSeqProperties
  <2> HIDE DEF part
  <2>6. EndOf(part)[h] = EndOf(ws)[h]
    BY <1>1, <2>4, <2>5, EndsAgree
  <2>7. part # <<>>
    BY <2>4, <2>5, EmptySeq
  <2>8. Words(part).len <= n
    BY <2>2, <2>5, <2>6 DEF Words
  <2>9. \A i \in 1..(k - 1) : Before(ws, n)[i] = ws[i]
    BY <2>3, <2>5 DEF h
  <2>10. n - StartOf(ws, k) <= 0 /\ k > 1 /\ Len(Before(ws, n)) = k - 1
    BY <1>6, <2>1, <2>3, <2>5 DEF h
  <2> QED BY <1>2, <1>4, <2>3, <2>5, <2>7, <2>8, <2>9, <2>10
<1>7. CASE ~(some <= 0)
  <2> DEFINE head == SubSeq(ws, 1, k)
             part == [head EXCEPT ![k] = w]
  <2>1. w \in Word /\ w.len = some /\ GapBefore(ws, k) \in Nat /\ w.gap = ws[k].gap
    <3>1. some \in Nat \ {0}
      BY <1>5, <1>7
    <3> HIDE DEF some
    <3> QED BY <1>2, <1>5, <3>1, WordLengths DEF Word
  <2>2. Before(ws, n) = part
    BY <1>3, <1>7
  <2>3. head \in Seq(Word) /\ Len(head) = k /\ \A i \in 1..k : head[i] = ws[i]
    BY <1>1, <1>2, WordsSubSeq
  <2> HIDE DEF w, head
  <2>4. /\ part \in Seq(Word) /\ Len(part) = k
        /\ \A i \in 1..k : part[i] = IF i = k THEN w ELSE head[i]
    BY <1>2, <2>1, <2>3, ExceptSeq
  <2> HIDE DEF part
  <2>5. part[k] = w /\ \A i \in 1..(k - 1) : part[i] = ws[i]
    BY <1>2, <2>3, <2>4
  <2>6. EndOf(part)[k - 1] = EndOf(ws)[k - 1]
    <3>1. k - 1 \in Nat /\ k - 1 <= Len(ws) /\ k - 1 <= Len(part)
      BY <1>1, <1>2, <2>4
    <3> QED BY <2>4, <2>5, <3>1, EndsAgree
  <2>7. GapBefore(part, k) = GapBefore(ws, k)
    BY <2>1, <2>5 DEF GapBefore
  <2>8. EndOf(part)[k] = EndOf(ws)[k - 1] + GapBefore(ws, k) + w.len
    <3>1. k \in 1..Len(part)
      BY <1>2, <2>4
    <3> QED BY <2>4, <2>5, <2>6, <2>7, <3>1, EndsDefined
  <2>9. EndOf(part)[k] = n
    BY <1>5, <2>1, <2>8 DEF StartOf
  <2>10. part # <<>>
    BY <1>2, <2>4, EmptySeq
  <2>11. Words(part).len <= n
    BY <2>4, <2>9 DEF Words
  <2>12. /\ ~(n - StartOf(ws, k) <= 0) /\ Len(Before(ws, n)) = k
         /\ Before(ws, n)[k] = [ws[k] EXCEPT !.len = n - StartOf(ws, k), !.stop = FALSE]
    BY <1>7, <2>2, <2>4, <2>5 DEF w
  <2> QED BY <1>2, <1>4, <2>2, <2>4, <2>5, <2>10, <2>11, <2>12
<1> QED BY <1>6, <1>7

LEMMA AfterRemains ==
    ASSUME NEW ws \in Seq(Word), NEW n \in Nat, ws # <<>>, EndOf(ws)[Len(ws)] > n
    PROVE  /\ After(ws, n) \in Seq(Word) /\ After(ws, n) # <<>>
           /\ \E k \in 1..Len(ws) :
                 /\ k = WordAt(ws, n) /\ Len(After(ws, n)) = Len(ws) - k + 1
                 /\ \A i \in (k + 1)..Len(ws) : After(ws, n)[i - k + 1] = ws[i]
                 /\ After(ws, n)[1] =
                        LET gone == n - StartOf(ws, k) IN
                        IF gone <= 0 THEN ws[k]
                        ELSE [ws[k] EXCEPT !.from = @ + gone, !.len = @ - gone]
<1> DEFINE k == WordAt(ws, n)
           gone == n - StartOf(ws, k)
           first == [ws[k] EXCEPT !.from = @ + gone, !.len = @ - gone]
           w == IF gone <= 0 THEN ws[k] ELSE first
           tail == SubSeq(ws, k, Len(ws))
<1>1. Len(ws) \in Nat /\ Len(ws) > 0
  BY EmptySeq, LenProperties
<1>2. k \in 1..Len(ws) /\ EndOf(ws)[k] > n
  BY WordFound
<1>3. /\ EndOf(ws)[k] = StartOf(ws, k) + ws[k].len /\ StartOf(ws, k) \in Nat
      /\ ws[k] \in Word /\ ws[k].len \in Nat /\ ws[k].len > 0
  BY <1>2, EndsGrow
<1> HIDE DEF k
<1>4. gone \in Int /\ ws[k].len - gone \in Nat \ {0}
  BY <1>2, <1>3
<1> HIDE DEF gone
<1>5. w \in Word
  <2>1. \A v \in Word : v.from \in Int
    BY DEF Word
  <2>2. ws[k].from \in Int
    BY <1>3, <2>1
  <2>3. ws[k].from + gone \in Int
    BY <1>4, <2>2
  <2>4. first \in Word
    BY <1>3, <1>4, <2>3 DEF Word
  <2> QED BY <1>3, <2>4
<1>6. /\ tail \in Seq(Word) /\ Len(tail) = Len(ws) - k + 1
      /\ tail[1] = ws[k]
      /\ \A i \in 1..(Len(ws) - k + 1) : tail[i] = ws[k + i - 1]
  BY <1>1, <1>2, WordsSubSeq
<1>7. After(ws, n) = [tail EXCEPT ![1] = w]
  BY DEF After, k, gone
<1> HIDE DEF w, tail
<1>8. 1 \in 1..Len(tail)
  BY <1>1, <1>2, <1>6
<1> DEFINE rest == [tail EXCEPT ![1] = w]
<1>9. rest \in Seq(Word) /\ Len(rest) = Len(tail)
  BY <1>5, <1>6, <1>8, ExceptSeq
<1>10. Len(rest) > 0
  BY <1>1, <1>2, <1>6, <1>9
<1>11. DOMAIN tail = 1..Len(tail)
  BY <1>6, LenProperties
<1>12. rest[1] = w
  BY <1>8, <1>11
<1>13. ASSUME NEW i \in (k + 1)..Len(ws) PROVE rest[i - k + 1] = ws[i]
  <2> DEFINE j == i - k + 1
  <2>1. j \in 1..Len(tail) /\ j # 1 /\ j \in 1..(Len(ws) - k + 1) /\ k + j - 1 = i
    BY <1>1, <1>2, <1>6
  <2> HIDE DEF j
  <2>2. rest[j] = tail[j] /\ tail[j] = ws[k + j - 1]
    BY <1>6, <1>11, <2>1
  <2>3. rest[j] = ws[i]
    BY <2>1, <2>2
  <2> QED BY <2>3 DEF j
<1>14. w = IF n - StartOf(ws, k) <= 0 THEN ws[k]
           ELSE [ws[k] EXCEPT !.from = @ + (n - StartOf(ws, k)),
                              !.len = @ - (n - StartOf(ws, k))]
  BY DEF w, gone
<1>15. k = WordAt(ws, n)
  BY DEF k
<1>16. After(ws, n) = rest
  BY <1>7
<1> HIDE DEF rest, gone
<1>17. rest # <<>> /\ Len(rest) = Len(ws) - k + 1
  BY <1>6, <1>9, <1>10, EmptySeq
<1>18. /\ k = WordAt(ws, n) /\ Len(After(ws, n)) = Len(ws) - k + 1
       /\ \A i \in (k + 1)..Len(ws) : After(ws, n)[i - k + 1] = ws[i]
       /\ After(ws, n)[1] = w
  BY <1>12, <1>13, <1>15, <1>16, <1>17, Zenon
<1> QED BY <1>2, <1>9, <1>14, <1>16, <1>17, <1>18, Zenon

\* rfind or the limit: a place in the chunk.
LEMMA SplitWithin ==
    ASSUME NEW ws \in Seq(Word)
    PROVE  SplitPoint(ws) \in 1..ChunkSize
<1> DEFINE late == {n \in Blanks(ws) : 10 * n > 7 * ChunkSize}
           R == {ChunkSize - n : n \in late}
<1>1. ChunkSize \in Nat /\ ChunkSize > 0
  BY ChunkingAssumption
<1>2. \A n \in late : n \in Int /\ n < ChunkSize /\ n > 0
  <2>1. \A n \in Blanks(ws) : n \in 0..(ChunkSize - 1)
    BY DEF Blanks
  <2> QED BY <1>1, <2>1
<1>3. CASE late = {}
  BY <1>1, <1>3 DEF SplitPoint
<1>4. CASE late # {}
  <2> HIDE DEF late
  <2>1. R \in SUBSET Nat /\ R # {}
    BY <1>1, <1>2, <1>4
  <2>2. PICK r \in R : \A q \in R : r <= q
    <3> HIDE DEF R
    <3> QED BY <2>1, LeastNumber
  <2>3. PICK n \in late : r = ChunkSize - n
    BY <2>2
  <2>4. ASSUME NEW m \in late PROVE m <= n
    <3>1. r <= ChunkSize - m
      BY <2>2
    <3> QED BY <1>1, <1>2, <2>3, <3>1
  <2>5. SplitPoint(ws) = CHOOSE x \in late : \A m \in late : m <= x
    BY <1>4 DEF SplitPoint, late
  <2>6. SplitPoint(ws) \in late
    BY <2>3, <2>4, <2>5
  <2> QED BY <1>1, <1>2, <2>6
<1> QED BY <1>3, <1>4

-----------------------------------------------------------------------------
(* Texts of several parts *)

LEMMA JoinedText ==
    ASSUME NEW s \in Text, NEW t \in Text, NEW gap \in Nat
    PROVE  /\ Joined(s, gap, t) \in Text
           /\ Joined(s, gap, t).len >= s.len
           /\ Joined(s, gap, t).len >= t.len
           /\ Joined(s, gap, t).len <= s.len + gap + t.len
<1>1. s.words \o t.words \in Seq(Word)
  BY ConcatProperties DEF Text
<1>2. s.len \in Nat /\ t.len \in Nat /\ (s = Empty => s.len = 0)
  BY DEF Text, Empty
<1>3. CASE s = Empty
  BY <1>2, <1>3 DEF Joined
<1>4. CASE s # Empty
  <2>1. Joined(s, gap, t) = [words |-> s.words \o t.words, len |-> s.len + gap + t.len]
    BY <1>4 DEF Joined
  <2> QED BY <1>1, <1>2, <2>1 DEF Text
<1> QED BY <1>3, <1>4

-----------------------------------------------------------------------------
(* Documents *)

Sentence == {Words(ws) : ws \in Seq(Word) \ {<<>>}}

LEMMA SentenceText ==
    ASSUME NEW s \in Sentence
    PROVE  /\ s \in Text
           /\ s.words \in Seq(Word) /\ s.words # <<>>
           /\ s.len = EndOf(s.words)[Len(s.words)]
           /\ Len(s.words[1].gap) \in Nat
<1>1. /\ s \in Text /\ s.words \in Seq(Word) /\ s.words # <<>>
      /\ s.len = EndOf(s.words)[Len(s.words)]
  BY WordsText DEF Sentence
<1>2. s.words[1] \in Word
  <2>1. Len(s.words) \in Nat /\ Len(s.words) > 0
    BY <1>1, EmptySeq, LenProperties
  <2>2. 1 \in 1..Len(s.words)
    BY <2>1
  <2> QED BY <1>1, <2>2, WordLengths
<1>3. \A w \in Word : w.gap \in Seq({"blank", "newline"})
  BY DEF Word
<1> QED BY <1>1, <1>2, <1>3, LenProperties

LEMMA FunctionSeq ==
    ASSUME NEW S, NEW n \in Nat, NEW f \in [1..n -> S]
    PROVE  f \in Seq(S) /\ Len(f) = n
  BY SeqDef

\* The sentences of a paragraph, one after the other.
LEMMA JoinDefined ==
    ASSUME NEW ss \in Seq(Sentence)
    PROVE  /\ JoinUpto(ss) \in [0..Len(ss) -> Text]
           /\ JoinUpto(ss)[0] = Empty
           /\ \A i \in 1..Len(ss) :
                 /\ Len(ss[i].words[1].gap) \in Nat
                 /\ JoinUpto(ss)[i] = Joined(JoinUpto(ss)[i - 1], Len(ss[i].words[1].gap), ss[i])
<1> DEFINE n == Len(ss)
           gap(i) == Len(ss[i].words[1].gap)
           step == [i \in 1..n |-> [x \in Text |-> Joined(x, gap(i), ss[i])]]
           upto[i \in 0..n] ==
               IF i = 0 THEN Empty ELSE Joined(upto[i - 1], Len(ss[i].words[1].gap), ss[i])
<1>1. n \in Nat /\ \A i \in 1..n : ss[i] \in Text /\ gap(i) \in Nat
  <2>1. \A i \in 1..n : ss[i] \in Sentence
    BY ElementOfSeq
  <2> QED BY <2>1, LenProperties, SentenceText
<1> HIDE DEF n, gap
<1>2. step \in Steps(n, Text)
  BY <1>1, JoinedText DEF Steps
<1>3. Empty \in Text
  BY EmptySeq DEF Empty, Text
<1>4. PICK f \in [0..n -> Text] : f[0] = Empty /\ \A i \in 1..n : f[i] = step[i][f[i - 1]]
  <2> HIDE DEF step, upto
  <2>1. Runs(n, Text, Empty, step) # {}
    BY <1>1, <1>2, <1>3, RunExists
  <2> QED BY <2>1 DEF Runs
<1>5. ASSUME NEW i \in 1..n PROVE f[i - 1] \in Text /\ f[i] = Joined(f[i - 1], gap(i), ss[i])
  <2>1. i - 1 \in 0..n /\ i \in Nat
    BY <1>1
  <2>2. f[i - 1] \in Text
    BY <2>1
  <2>3. step[i][f[i - 1]] = Joined(f[i - 1], gap(i), ss[i])
    BY <2>2
  <2> QED BY <1>4, <2>2, <2>3
<1>6. f = [i \in 0..n |-> IF i = 0 THEN Empty ELSE Joined(f[i - 1], gap(i), ss[i])]
  BY <1>1, <1>4, <1>5
<1>7. upto = [i \in 0..n |-> IF i = 0 THEN Empty ELSE Joined(upto[i - 1], gap(i), ss[i])]
  BY <1>6 DEF upto, gap
<1>8. JoinUpto(ss) = upto
  BY DEF JoinUpto, n
<1> HIDE DEF upto
<1>9. upto[0] = Empty /\ DOMAIN upto = 0..n
  BY <1>1, <1>7
<1>10. ASSUME NEW i \in 1..n PROVE upto[i] = Joined(upto[i - 1], gap(i), ss[i])
  <2>1. i \in 0..n /\ i # 0
    BY <1>1
  <2> QED BY <1>7, <2>1
<1>11. \A i \in 1..n : upto[i - 1] \in Text => upto[i] \in Text
  BY <1>1, <1>10, JoinedText
<1>12. upto[0] \in Text
  BY <1>3, <1>9
<1>13. \A i \in 0..n : upto[i] \in Text
  BY <1>1, <1>11, <1>12, IntervalValues
<1>14. upto \in [0..n -> Text]
  BY <1>7, <1>13
<1> QED BY <1>1, <1>8, <1>9, <1>10, <1>14 DEF n, gap

LEMMA SentencesOf ==
    ASSUME NEW d \in Documents, NEW p \in 1..Len(d)
    PROVE  Sentences(d, p) \in Seq(Sentence) /\ Sentences(d, p) # <<>>
<1> DEFINE Ids == Seq(Item) \ {<<>>}
           Word3(s, w) ==
               [id |-> d[p][s][w].id, gap |-> d[p][s][w].gap, at |-> <<p, s, w>>, from |-> 0,
                len |-> LengthOf[d[p][s][w].id], stop |-> w = Len(d[p][s])]
           Row(s) == [w \in DOMAIN d[p][s] |-> Word3(s, w)]
<1>1. d \in Seq(Seq(Ids) \ {<<>>})
  BY ChunkingAssumption
<1>2. d[p] \in Seq(Ids) /\ d[p] # <<>>
  BY <1>1, ElementOfSeq
<1>3. Len(d) \in Nat /\ Len(d[p]) \in Nat /\ Len(d[p]) > 0 /\ DOMAIN d[p] = 1..Len(d[p]) /\ p \in Nat
  BY <1>1, <1>2, LenProperties, EmptySeq
<1>4. ASSUME NEW s \in 1..Len(d[p]) PROVE Words(Row(s)) \in Sentence
  <2>1. d[p][s] \in Seq(Item) /\ d[p][s] # <<>>
    BY <1>2, ElementOfSeq
  <2>2. /\ Len(d[p][s]) \in Nat /\ Len(d[p][s]) > 0 /\ DOMAIN d[p][s] = 1..Len(d[p][s])
        /\ s \in Nat
    BY <1>3, <2>1, LenProperties, EmptySeq
  <2>3. ASSUME NEW w \in 1..Len(d[p][s]) PROVE Word3(s, w) \in Word
    <3>1. /\ d[p][s][w].id \in DOMAIN LengthOf
          /\ d[p][s][w].gap \in Seq({"blank", "newline"}) \ {<<>>}
      <4>1. d[p][s][w] \in Item
        BY <2>1, ElementOfSeq
      <4> QED BY <4>1 DEF Item
    <3>2. LengthOf[d[p][s][w].id] \in Nat \ {0}
      BY <3>1, ChunkingAssumption
    <3>3. <<p, s, w>> \in Nat \X Nat \X Nat
      BY <1>3, <2>2
    <3> QED BY <3>1, <3>2, <3>3 DEF Word
  <2>4. Row(s) \in [1..Len(d[p][s]) -> Word]
    <3> HIDE DEF Word3
    <3> QED BY <2>2, <2>3
  <2> HIDE DEF Row
  <2>5. Row(s) \in Seq(Word) /\ Len(Row(s)) > 0
    BY <2>2, <2>4, FunctionSeq
  <2> QED BY <2>5, EmptySeq DEF Sentence
<1>5. Sentences(d, p) = [s \in 1..Len(d[p]) |-> Words(Row(s))]
  BY <1>3 DEF Sentences
<1> HIDE DEF Row
<1>6. Sentences(d, p) \in [1..Len(d[p]) -> Sentence]
  BY <1>4, <1>5
<1>7. Sentences(d, p) \in Seq(Sentence) /\ Len(Sentences(d, p)) > 0
  BY <1>3, <1>6, FunctionSeq
<1> QED BY <1>7, EmptySeq

LEMMA ParagraphText ==
    ASSUME NEW ss \in Seq(Sentence)
    PROVE  /\ ss \in Seq(Text)
           /\ Paragraph(ss) \in Text
           /\ Paragraph(ss) = JoinUpto(ss)[Len(ss)]
<1>1. Len(ss) \in Nat /\ ss \in [1..Len(ss) -> Sentence]
  BY LenProperties
<1>2. \A s \in Sentence : s \in Text
  BY SentenceText
<1>3. ss \in [1..Len(ss) -> Text]
  BY <1>1, <1>2
<1>4. ss \in Seq(Text)
  BY <1>1, <1>3, FunctionSeq
<1>5. Paragraph(ss) = JoinUpto(ss)[Len(ss)]
  BY DEF Paragraph
<1>6. Len(ss) \in 0..Len(ss)
  BY <1>1
<1> QED BY <1>4, <1>5, <1>6, JoinDefined

-----------------------------------------------------------------------------
(* The sizes of chunks *)

\* Texts the chunker can finish with: what is too large is one sentence, which
\* _split_large_chunk knows how to cut.
Manageable == {t \in Text : t.len > ChunkSize => t \in Sentence}

Piece == [text : Text, start : Nat, end : Nat]

Chunk == [text : Manageable, start : Nat, end : Nat]

\* What the chunker keeps.
Bounded == {p \in Piece : p.text.len <= ChunkSize + 1}

Acc == [cur : Manageable, start : Nat, out : Seq(Chunk)]

ChunkInv ==
    /\ doc \in Documents
    /\ todo \in Seq(Seq(Sentence))
    /\ acc \in Acc
    /\ queue \in Seq(Piece)
    /\ result \in Seq(Bounded)
    /\ accepted \in Seq(Text)
    /\ stage \in {"split", "sentences", "enforce", "cut", "validate", "done"}
    /\ stage = "sentences" => todo # <<>>
    /\ stage \in {"enforce", "cut"} => queue \in Seq(Chunk)
    /\ stage = "cut" => queue # <<>>

LEMMA ManageableTexts ==
    /\ Empty \in Manageable
    /\ \A t \in Manageable : t \in Text /\ t.len \in Nat
    /\ \A s \in Sentence : s \in Manageable
    /\ \A t \in Text : t.len <= ChunkSize => t \in Manageable
    /\ \A t \in Text : t.len \in Nat
    /\ \A c \in Chunk : c \in Piece
<1>1. Empty \in Text /\ Empty.len = 0
  BY EmptySeq DEF Empty, Text
<1>2. ChunkSize \in Nat
  BY ChunkingAssumption
<1>3. \A t \in Text : t.len \in Nat
  BY DEF Text
<1>4. Empty \in Manageable
  BY <1>1, <1>2 DEF Manageable
<1>5. \A s \in Sentence : s \in Manageable
  BY SentenceText DEF Manageable
<1>6. \A t \in Text : t.len <= ChunkSize => t \in Manageable
  BY <1>2, <1>3 DEF Manageable
<1>7. \A t \in Manageable : t \in Text
  BY DEF Manageable
<1>8. \A c \in Chunk : c \in Piece
  BY <1>7 DEF Chunk, Piece
<1> QED BY <1>3, <1>4, <1>5, <1>6, <1>7, <1>8

LEMMA ChunkSeq ==
    ASSUME NEW q \in Seq(Chunk)
    PROVE  q \in Seq(Piece)
<1>1. Len(q) \in Nat /\ q \in [1..Len(q) -> Chunk]
  BY LenProperties
<1>2. q \in [1..Len(q) -> Piece]
  BY <1>1, ManageableTexts
<1> QED BY <1>1, <1>2, FunctionSeq

LEMMA Emits ==
    ASSUME NEW a \in Acc
    PROVE  /\ Emit(a) \in Acc
           /\ Emit(a).cur = Empty
           /\ a.cur = Empty => Emit(a).out = a.out
           /\ a.cur # Empty =>
                 \E c \in Chunk : c.text = a.cur /\ Emit(a).out = Append(a.out, c)
<1>1. a.cur \in Manageable /\ a.start \in Nat /\ a.out \in Seq(Chunk)
  BY DEF Acc
<1>2. CASE a.cur = Empty
  BY <1>2 DEF Emit
<1>3. CASE a.cur # Empty
  <2> DEFINE end == a.start + a.cur.len
             c == [text |-> a.cur, start |-> a.start, end |-> end]
  <2>1. end \in Nat
    BY <1>1, ManageableTexts
  <2>2. c \in Chunk /\ c.text = a.cur
    BY <1>1, <2>1 DEF Chunk
  <2>3. Emit(a) = [cur |-> Empty, start |-> end, out |-> Append(a.out, c)]
    BY <1>3 DEF Emit
  <2> HIDE DEF end, c
  <2>4. Append(a.out, c) \in Seq(Chunk)
    BY <1>1, <2>2, AppendProperties
  <2> QED BY <1>3, <2>1, <2>2, <2>3, <2>4, ManageableTexts DEF Acc
<1> QED BY <1>2, <1>3

LEMMA ChunkInit == CInit => ChunkInv
<1> SUFFICES ASSUME CInit PROVE ChunkInv
  OBVIOUS
<1>1. doc \in Documents /\ doc \in Seq(Seq(Seq(Item) \ {<<>>}) \ {<<>>})
  BY ChunkingAssumption DEF CInit
<1>2. Len(doc) \in Nat /\ DOMAIN doc = 1..Len(doc)
  BY <1>1, LenProperties
<1>3. todo \in [1..Len(doc) -> Seq(Sentence)]
  BY <1>1, <1>2, SentencesOf DEF CInit
<1>4. todo \in Seq(Seq(Sentence))
  BY <1>2, <1>3, FunctionSeq
<1>5. acc \in Acc
  BY EmptySeq, ManageableTexts DEF CInit, Acc
<1>6. queue = <<>> /\ result = <<>> /\ accepted = <<>> /\ stage = "split"
  BY DEF CInit
<1> QED BY <1>1, <1>4, <1>5, <1>6, EmptySeq DEF ChunkInv

\* The first chunk of the queue, and the others.
LEMMA FirstPiece ==
    ASSUME ChunkInv, queue # <<>>
    PROVE  /\ Head(queue) \in Piece /\ Tail(queue) \in Seq(Piece)
           /\ Head(queue).text \in Text /\ Head(queue).text.len \in Nat
           /\ stage \in {"enforce", "cut"} =>
                 /\ Head(queue) \in Chunk
                 /\ Tail(queue) \in Seq(Chunk)
                 /\ Head(queue).text \in Manageable
<1>1. queue \in Seq(Piece) /\ (stage \in {"enforce", "cut"} => queue \in Seq(Chunk))
  BY DEF ChunkInv
<1>2. Head(queue) \in Piece /\ Tail(queue) \in Seq(Piece)
  BY <1>1, HeadTailProperties
<1>3. \A p \in Piece : p.text \in Text
  BY DEF Piece
<1>4. \A c \in Chunk : c.text \in Manageable
  BY DEF Chunk
<1>5. CASE stage \in {"enforce", "cut"}
  <2>1. queue \in Seq(Chunk)
    BY <1>1, <1>5
  <2>2. Head(queue) \in Chunk /\ Tail(queue) \in Seq(Chunk)
    BY <2>1, HeadTailProperties
  <2> QED BY <1>2, <1>3, <1>4, <2>2, ManageableTexts
<1>6. CASE stage \notin {"enforce", "cut"}
  BY <1>2, <1>3, <1>6, ManageableTexts
<1> QED BY <1>5, <1>6

LEMMA FirstParagraph ==
    ASSUME ChunkInv, todo # <<>>
    PROVE  /\ Head(todo) \in Seq(Sentence) /\ Tail(todo) \in Seq(Seq(Sentence))
           /\ Paragraph(Head(todo)) \in Text
<1>1. todo \in Seq(Seq(Sentence))
  BY DEF ChunkInv
<1>2. Head(todo) \in Seq(Sentence) /\ Tail(todo) \in Seq(Seq(Sentence))
  BY <1>1, HeadTailProperties
<1> QED BY <1>2, ParagraphText

\* The turns of _split_semantic keep texts manageable.
LEMMA SplitStep ==
    ASSUME ChunkInv, FitParagraph \/ BreakParagraph \/ AddSentence \/ EndOfParagraph \/ EndOfText
    PROVE  ChunkInv'
<1>1. /\ acc \in Acc /\ acc.cur \in Manageable /\ acc.cur \in Text
      /\ acc.start \in Nat /\ acc.out \in Seq(Chunk)
  BY ManageableTexts DEF ChunkInv, Acc
<1>2. Emit(acc) \in Acc /\ Emit(acc).out \in Seq(Chunk)
  BY <1>1, Emits DEF Acc
<1>3. CASE FitParagraph
  <2>1. WithParagraph \in Text
    BY <1>1, <1>3, FirstParagraph, JoinedText DEF FitParagraph, WithParagraph
  <2>2. WithParagraph \in Manageable
    BY <1>3, <2>1, ManageableTexts DEF FitParagraph
  <2>3. acc' = [acc EXCEPT !.cur = WithParagraph]
    BY <1>3 DEF FitParagraph
  <2> HIDE DEF WithParagraph
  <2>4. acc' \in Acc
    BY <1>1, <2>2, <2>3 DEF Acc
  <2>5. todo' \in Seq(Seq(Sentence))
    BY <1>3, FirstParagraph DEF FitParagraph
  <2> QED BY <1>3, <2>4, <2>5 DEF ChunkInv, FitParagraph
<1>4. CASE BreakParagraph
  BY <1>2, <1>4 DEF ChunkInv, BreakParagraph
<1>5. CASE AddSentence
  <2> DEFINE s == Head(Head(todo))
             longer == Joined(acc.cur, 1, s)
  <2>1. todo # <<>> /\ Head(todo) # <<>> /\ stage = "sentences"
    BY <1>5 DEF ChunkInv, AddSentence
  <2>2. Head(todo) \in Seq(Sentence) /\ s \in Sentence /\ Tail(Head(todo)) \in Seq(Sentence)
    BY <2>1, FirstParagraph, HeadTailProperties
  <2>3. s \in Manageable /\ longer \in Text
    BY <1>1, <2>2, SentenceText, ManageableTexts, JoinedText
  <2>4. acc' = IF longer.len <= ChunkSize THEN [acc EXCEPT !.cur = longer]
               ELSE [Emit(acc) EXCEPT !.cur = s]
    BY <1>5 DEF AddSentence
  <2>5. todo' = [todo EXCEPT ![1] = Tail(todo[1])]
    BY <1>5 DEF AddSentence
  <2> HIDE DEF s, longer
  <2>6. acc' \in Acc
    <3>1. CASE longer.len <= ChunkSize
      <4>1. longer \in Manageable
        BY <2>3, <3>1, ManageableTexts
      <4> QED BY <1>1, <2>4, <3>1, <4>1 DEF Acc
    <3>2. CASE ~(longer.len <= ChunkSize)
      BY <1>2, <2>3, <2>4, <3>2 DEF Acc
    <3> QED BY <3>1, <3>2
  <2>7. todo \in Seq(Seq(Sentence)) /\ 1 \in 1..Len(todo) /\ Head(todo) = todo[1]
    BY <2>1, EmptySeq DEF ChunkInv
  <2>8. todo' \in Seq(Seq(Sentence)) /\ Len(todo') = Len(todo)
    <3> DEFINE S == Seq(Sentence)
               rest == Tail(todo[1])
    <3>1. todo \in Seq(S) /\ rest \in S /\ todo' = [todo EXCEPT ![1] = rest]
      BY <2>2, <2>5, <2>7
    <3> HIDE DEF S, rest
    <3>2. todo' \in Seq(S) /\ Len(todo') = Len(todo)
      BY <2>7, <3>1, ExceptSeq
    <3> QED BY <3>2 DEF S
  <2>9. todo' # <<>>
    BY <2>7, <2>8, EmptySeq
  <2> QED BY <1>5, <2>6, <2>8, <2>9 DEF ChunkInv, AddSentence
<1>6. CASE EndOfParagraph
  <2>1. todo' \in Seq(Seq(Sentence))
    BY <1>6, FirstParagraph DEF ChunkInv, EndOfParagraph
  <2> QED BY <1>6, <2>1 DEF ChunkInv, EndOfParagraph
<1>7. CASE EndOfText
  <2>1. acc' \in Acc
    BY <1>7, EmptySeq, ManageableTexts DEF EndOfText, Acc
  <2>2. queue' \in Seq(Chunk) /\ queue' \in Seq(Piece)
    BY <1>2, <1>7, ChunkSeq DEF EndOfText
  <2> QED BY <1>7, <2>1, <2>2 DEF ChunkInv, EndOfText
<1> QED BY <1>3, <1>4, <1>5, <1>6, <1>7

LEMMA ShortTexts ==
    /\ ChunkSize \in Nat /\ MinChunk \in Nat
    /\ \A p \in Piece : p.text \in Text /\ p.text.len \in Nat /\ p.start \in Nat /\ p.end \in Nat
    /\ \A p \in Piece : p.text.len <= ChunkSize + 1 => p \in Bounded
    /\ \A p \in Bounded : p \in Piece /\ p.text.len <= ChunkSize + 1
  BY ChunkingAssumption, ManageableTexts DEF Piece, Bounded

\* What a short chunk is added to grows by the gap that Fits forgets, and no more.
LEMMA MergeStep ==
    ASSUME ChunkInv, Merge
    PROVE  /\ result' \in Seq(Bounded)
           /\ Len(result') = Len(result) /\ result # <<>>
           /\ \E longer \in Bounded :
                 /\ longer.text = Joined(result[Len(result)].text, 2, Head(queue).text)
                 /\ result' = [result EXCEPT ![Len(result)] = longer]
<1> DEFINE c == Head(queue)
           n == Len(result)
           b == result[n]
           t == Joined(b.text, 2, c.text)
           longer == [[b EXCEPT !.text = t] EXCEPT !.end = c.end]
<1>1. queue # <<>> /\ result # <<>> /\ TooShort(c) /\ Fits(b, c)
  BY DEF Merge, Mergeable, Last
<1>2. result \in Seq(Bounded)
  BY DEF ChunkInv
<1>3. n \in Nat /\ n \in 1..Len(result)
  BY <1>1, <1>2, EmptySeq
<1>4. b \in Bounded /\ b \in Piece /\ b.text \in Text /\ b.text.len \in Nat
  BY <1>2, <1>3, ElementOfSeq, ShortTexts
<1>5. c \in Piece /\ c.text \in Text /\ c.text.len \in Nat /\ c.end \in Nat
  BY <1>1, FirstPiece, ShortTexts
<1>6. result' = [[result EXCEPT ![n] = [b EXCEPT !.text = t]]
                    EXCEPT ![n] = [[result EXCEPT ![n] = [b EXCEPT !.text = t]][n] EXCEPT !.end = c.end]]
  BY DEF Merge
<1>7. t \in Text /\ t.len <= b.text.len + 2 + c.text.len /\ t.len \in Nat
  BY <1>4, <1>5, JoinedText, ManageableTexts
<1>8. b.text.len + c.text.len < ChunkSize
  BY <1>1 DEF Fits
<1>9. longer \in Piece /\ longer.text = t
  <2> HIDE DEF t, b, c
  <2> QED BY <1>4, <1>5, <1>7 DEF Piece
<1>10. longer \in Bounded
  <2> HIDE DEF longer, t, b, c
  <2>1. t.len <= ChunkSize + 1
    BY <1>4, <1>5, <1>7, <1>8, ShortTexts
  <2> QED BY <1>9, <2>1, ShortTexts
<1>11. result' = [result EXCEPT ![n] = longer]
  <2> DEFINE half == [b EXCEPT !.text = t]
  <2>1. DOMAIN result = 1..Len(result)
    BY <1>2, LenProperties
  <2> HIDE DEF t, b, c, n
  <2>2. [result EXCEPT ![n] = half][n] = half
    BY <1>3, <2>1
  <2>3. result' = [[result EXCEPT ![n] = half] EXCEPT ![n] = [half EXCEPT !.end = c.end]]
    BY <1>6, <2>2
  <2>4. longer = [half EXCEPT !.end = c.end]
    OBVIOUS
  <2> HIDE DEF half, longer
  <2> QED BY <2>3, <2>4
<1> HIDE DEF longer
<1>12. longer.text = Joined(result[Len(result)].text, 2, Head(queue).text)
  BY <1>9
<1>13. \E x \in Bounded :
          /\ x.text = Joined(result[Len(result)].text, 2, Head(queue).text)
          /\ result' = [result EXCEPT ![Len(result)] = x]
  BY <1>10, <1>11, <1>12
<1> HIDE DEF n
<1>14. result' \in Seq(Bounded) /\ Len(result') = Len(result) /\ result # <<>>
  BY <1>1, <1>2, <1>3, <1>10, <1>11, ExceptSeq
<1> QED BY <1>13, <1>14

\* A cut takes at most ChunkSize characters off a sentence, and leaves one.
LEMMA CutStep ==
    ASSUME ChunkInv, Cut
    PROVE  /\ result' \in Seq(Bounded) /\ result' # <<>>
           /\ queue' \in Seq(Chunk) /\ queue' # <<>>
           /\ \E ws \in Seq(Word), n \in Nat \ {0}, p \in Bounded, q \in Chunk :
                 /\ ws = Head(queue).text.words /\ ws # <<>> /\ EndOf(ws)[Len(ws)] > n
                 /\ p.text = Words(Before(ws, n)) /\ result' = Append(result, p)
                 /\ q.text = Words(After(ws, n)) /\ queue' = [queue EXCEPT ![1] = q]
<1> DEFINE c == Head(queue)
           ws == c.text.words
           n == SplitPoint(ws)
           t == Words(Before(ws, n))
           p == [text |-> t, start |-> c.start, end |-> c.start + t.len]
           u == Words(After(ws, n))
           q == [text |-> u, start |-> c.start + t.len + 1, end |-> c.end]
<1>1. stage = "cut" /\ queue # <<>> /\ queue \in Seq(Chunk) /\ c.text.len > ChunkSize
  BY DEF ChunkInv, Cut
<1>2. c \in Chunk /\ c \in Piece /\ c.text \in Manageable /\ c.text \in Text
  BY <1>1, FirstPiece, ManageableTexts
<1>3. c.text \in Sentence
  BY <1>1, <1>2 DEF Manageable
<1>4. ws \in Seq(Word) /\ ws # <<>> /\ EndOf(ws)[Len(ws)] > ChunkSize /\ EndOf(ws)[Len(ws)] \in Nat
  BY <1>1, <1>2, <1>3, SentenceText, ManageableTexts
<1>5. n \in 1..ChunkSize /\ ChunkSize \in Nat
  BY <1>4, SplitWithin, ShortTexts
<1>6. n \in Nat \ {0} /\ EndOf(ws)[Len(ws)] > n /\ n <= ChunkSize
  BY <1>4, <1>5
<1>7. /\ result' = Append(result, p)
      /\ queue' = [queue EXCEPT ![1] = q]
  BY DEF Cut, Rest
<1>8. ws = Head(queue).text.words /\ p.text = t /\ q.text = u
  OBVIOUS
<1> HIDE DEF ws, n
<1>9. t \in Text /\ t.len <= ChunkSize /\ t.len \in Nat
  <2>1. Before(ws, n) \in Seq(Word) /\ Before(ws, n) # <<>> /\ t.len <= n
    BY <1>4, <1>6, BeforeFits
  <2>2. t \in Text /\ t.len \in Nat
    BY <2>1, WordsText, ManageableTexts
  <2> HIDE DEF t
  <2> QED BY <1>5, <1>6, <2>1, <2>2
<1>10. u \in Manageable
  BY <1>4, <1>6, AfterRemains, ManageableTexts DEF Sentence
<1>11. c.start \in Nat /\ c.end \in Nat
  BY <1>2, ShortTexts
<1>12. t = Words(Before(ws, n)) /\ u = Words(After(ws, n))
  OBVIOUS
<1> HIDE DEF t, u, c
<1>13. p \in Bounded
  <2>1. p \in Piece /\ p.text.len <= ChunkSize + 1
    BY <1>5, <1>9, <1>11 DEF Piece
  <2> QED BY <2>1, ShortTexts
<1>14. q \in Chunk
  BY <1>9, <1>10, <1>11 DEF Chunk
<1>15. result \in Seq(Bounded) /\ 1 \in 1..Len(queue)
  BY <1>1, EmptySeq DEF ChunkInv
<1> HIDE DEF p, q
<1>16. result' \in Seq(Bounded) /\ result' # <<>>
  BY <1>7, <1>13, <1>15, AppendProperties
<1>17. queue' \in Seq(Chunk) /\ Len(queue') = Len(queue)
  BY <1>1, <1>7, <1>14, <1>15, ExceptSeq
<1>18. /\ ws = Head(queue).text.words /\ ws # <<>> /\ EndOf(ws)[Len(ws)] > n
       /\ p.text = Words(Before(ws, n)) /\ result' = Append(result, p)
       /\ q.text = Words(After(ws, n)) /\ queue' = [queue EXCEPT ![1] = q]
  BY <1>8, <1>4, <1>6, <1>7, <1>12
<1>19. \E vs \in Seq(Word), k \in Nat \ {0}, x \in Bounded, y \in Chunk :
          /\ vs = Head(queue).text.words /\ vs # <<>> /\ EndOf(vs)[Len(vs)] > k
          /\ x.text = Words(Before(vs, k)) /\ result' = Append(result, x)
          /\ y.text = Words(After(vs, k)) /\ queue' = [queue EXCEPT ![1] = y]
  BY <1>4, <1>6, <1>13, <1>14, <1>18, Zenon
<1>20. queue' # <<>>
  BY <1>15, <1>17, EmptySeq
<1> QED BY <1>16, <1>17, <1>19, <1>20

\* Chunks of the limit and below are kept as they are.
LEMMA KeptPiece ==
    ASSUME ChunkInv, queue # <<>>, Head(queue).text.len <= ChunkSize
    PROVE  Append(result, Head(queue)) \in Seq(Bounded) /\ Append(result, Head(queue)) # <<>>
<1>1. Head(queue) \in Piece /\ Head(queue).text.len \in Nat
  BY FirstPiece
<1>2. Head(queue) \in Bounded
  BY <1>1, ShortTexts
<1>3. result \in Seq(Bounded)
  BY DEF ChunkInv
<1> QED BY <1>2, <1>3, AppendProperties

LEMMA EnforceStep ==
    ASSUME ChunkInv, Merge \/ Drop \/ Keep \/ SplitLarge \/ Cut \/ LastPiece \/ Finish
    PROVE  ChunkInv'
<1>1. CASE Merge
  BY <1>1, MergeStep, FirstPiece DEF ChunkInv, Merge
<1>2. CASE Drop
  BY <1>2, FirstPiece DEF ChunkInv, Drop
<1>3. CASE Keep
  BY <1>3, KeptPiece, FirstPiece DEF ChunkInv, Keep
<1>4. CASE SplitLarge
  BY <1>4 DEF ChunkInv, SplitLarge
<1>5. CASE Cut
  <2>1. result' \in Seq(Bounded) /\ queue' \in Seq(Chunk) /\ queue' # <<>>
    BY <1>5, CutStep
  <2>2. queue' \in Seq(Piece)
    BY <2>1, ChunkSeq
  <2> QED BY <1>5, <2>1, <2>2 DEF ChunkInv, Cut
<1>6. CASE LastPiece
  <2>1. queue # <<>> /\ stage = "cut"
    BY <1>6 DEF ChunkInv, LastPiece
  <2> QED BY <1>6, <2>1, KeptPiece, FirstPiece DEF ChunkInv, LastPiece
<1>7. CASE Finish
  <2> DEFINE n == IF Len(result) <= MaxChunks THEN Len(result) ELSE MaxChunks
  <2>1. result \in Seq(Bounded) /\ Len(result) \in Nat /\ MaxChunks \in Nat
    BY LenProperties, ChunkingAssumption DEF ChunkInv
  <2>2. n \in Nat /\ n <= Len(result)
    BY <2>1
  <2>3. queue' = SubSeq(result, 1, n)
    BY <1>7 DEF Finish
  <2> HIDE DEF n
  <2>4. \A i \in 1..n : result[i] \in Piece
    <3>1. \A i \in 1..n : i \in 1..Len(result)
      BY <2>1, <2>2
    <3> QED BY <2>1, <3>1, ElementOfSeq, ShortTexts
  <2>5. queue' \in Seq(Piece)
    BY <2>2, <2>3, <2>4, SubSeqProperties
  <2> QED BY <1>7, <2>5 DEF ChunkInv, Finish
<1> QED BY <1>1, <1>2, <1>3, <1>4, <1>5, <1>6, <1>7

LEMMA ValidateStep ==
    ASSUME ChunkInv, Validate \/ Reset
    PROVE  ChunkInv'
<1>1. CASE Validate
  <2>1. Head(queue).text \in Text /\ Tail(queue) \in Seq(Piece) /\ accepted \in Seq(Text)
    BY <1>1, FirstPiece DEF ChunkInv, Validate
  <2>2. Append(accepted, Head(queue).text) \in Seq(Text)
    BY <2>1, AppendProperties
  <2>3. accepted' \in Seq(Text)
    BY <1>1, <2>1, <2>2 DEF Validate
  <2> QED BY <1>1, <2>1, <2>3 DEF ChunkInv, Validate
<1>2. CASE Reset
  BY <1>2 DEF ChunkInv, Reset
<1> QED BY <1>1, <1>2

LEMMA ChunkStep == ChunkInv /\ [CNext]_cvars => ChunkInv'
<1>1. CASE UNCHANGED cvars
  BY <1>1 DEF ChunkInv, cvars
<1> QED BY <1>1, SplitStep, EnforceStep, ValidateStep DEF CNext

\* No chunk that the chunker keeps is longer than chunk_size by more than one
\* character, whatever the document: sentences and words are cut as often as it
\* takes, and a short chunk is added to another only if both fit, the two
\* characters between them uncounted (semantic_chunker.py:191-250).
THEOREM ChunksBounded == CSpec => []SizeBound
<1>1. ChunkInv => SizeBound
  <2> SUFFICES ASSUME ChunkInv PROVE SizeBound
    OBVIOUS
  <2>1. result \in Seq(Bounded) /\ DOMAIN result = 1..Len(result)
    BY LenProperties DEF ChunkInv
  <2>2. \A i \in 1..Len(result) : result[i].text.len <= ChunkSize + 1
    BY <2>1, ElementOfSeq, ShortTexts
  <2> QED BY <2>1, <2>2 DEF SizeBound, Chunks
<1> QED BY <1>1, ChunkInit, ChunkStep, PTL DEF CSpec

-----------------------------------------------------------------------------
(* What the validator accepts *)

\* Every accepted text was remembered, until the duplicates are reset.
DistinctInv ==
    /\ AcceptedDistinct
    /\ stage # "done" => \A i \in DOMAIN accepted : Vocabulary(accepted[i]) \in seen

LEMMA SimilaritySymmetric ==
    ASSUME NEW s, NEW t
    PROVE  NearDuplicates(s, t) = NearDuplicates(t, s)
<1>1. /\ Vocabulary(s) \cap Vocabulary(t) = Vocabulary(t) \cap Vocabulary(s)
      /\ Vocabulary(s) \cup Vocabulary(t) = Vocabulary(t) \cup Vocabulary(s)
  OBVIOUS
<1> QED BY <1>1, Zenon DEF NearDuplicates

LEMMA DistinctStep == ChunkInv /\ DistinctInv /\ [CNext]_cvars => DistinctInv'
<1> SUFFICES ASSUME ChunkInv, DistinctInv, [CNext]_cvars PROVE DistinctInv'
  OBVIOUS
<1>1. CASE Validate /\ accepted' # accepted
  <2> DEFINE t == Head(queue).text
             n == Len(accepted)
  <2>1. /\ accepted' = Append(accepted, t)
        /\ ~Duplicate(t)
        /\ seen' = seen \cup {Vocabulary(t)}
        /\ stage = "validate" /\ queue # <<>>
    BY <1>1 DEF Validate
  <2>2. t \in Text /\ accepted \in Seq(Text)
    BY <2>1, FirstPiece DEF ChunkInv
  <2> HIDE DEF t
  <2>3. n \in Nat /\ DOMAIN accepted = 1..n
    BY <2>2, LenProperties
  <2>4. /\ accepted' \in Seq(Text) /\ Len(accepted') = n + 1
        /\ \A i \in 1..n : accepted'[i] = accepted[i]
        /\ accepted'[n + 1] = t
    BY <2>1, <2>2, AppendProperties
  <2>5. DOMAIN accepted' = 1..(n + 1)
    BY <2>4, LenProperties
  <2>6. \A i \in 1..n : Vocabulary(accepted[i]) \in seen
    BY <2>1, <2>3 DEF DistinctInv
  <2>7. ASSUME NEW i \in 1..n PROVE ~NearDuplicates(t, accepted[i]) /\ ~NearDuplicates(accepted[i], t)
    <3>1. ~Similar(Vocabulary(t), Vocabulary(accepted[i]))
      BY <2>1, <2>6 DEF Duplicate
    <3>2. ~NearDuplicates(t, accepted[i])
      BY <3>1 DEF Similar, NearDuplicates
    <3> QED BY <3>2, SimilaritySymmetric
  <2> HIDE DEF n
  <2>8. \A i \in 1..(n + 1) : i \in 1..n \/ i = n + 1
    BY <2>3
  <2>9. AcceptedDistinct'
    <3> SUFFICES ASSUME NEW i \in 1..(n + 1), NEW j \in 1..(n + 1), i # j
                 PROVE  ~NearDuplicates(accepted'[i], accepted'[j])
      BY <2>5 DEF AcceptedDistinct
    <3>1. CASE i \in 1..n /\ j \in 1..n
      <4>1. ~NearDuplicates(accepted[i], accepted[j])
        BY <2>3, <3>1 DEF DistinctInv, AcceptedDistinct
      <4> QED BY <2>4, <3>1, <4>1
    <3>2. CASE i \in 1..n /\ j = n + 1
      BY <2>4, <2>7, <3>2
    <3>3. CASE i = n + 1 /\ j \in 1..n
      BY <2>4, <2>7, <3>3
    <3> QED BY <2>8, <3>1, <3>2, <3>3
  <2>10. \A i \in 1..(n + 1) : Vocabulary(accepted'[i]) \in seen'
    <3> SUFFICES ASSUME NEW i \in 1..(n + 1) PROVE Vocabulary(accepted'[i]) \in seen'
      OBVIOUS
    <3>1. CASE i \in 1..n
      BY <2>1, <2>4, <2>6, <3>1
    <3>2. CASE i = n + 1
      BY <2>1, <2>4, <3>2
    <3> QED BY <2>8, <3>1, <3>2
  <2> QED BY <2>5, <2>9, <2>10 DEF DistinctInv
<1>2. CASE Validate /\ accepted' = accepted
  <2>1. seen \subseteq seen' /\ stage' = stage
    BY <1>2 DEF Validate
  <2> QED BY <1>2, <2>1 DEF DistinctInv, AcceptedDistinct
<1>3. CASE Reset
  BY <1>3 DEF DistinctInv, AcceptedDistinct, Reset
<1>4. CASE UNCHANGED <<seen, accepted>> /\ (stage' = "done" \/ stage # "done" \/ stage' = stage)
  BY <1>4 DEF DistinctInv, AcceptedDistinct
<1>5. \/ Validate \/ Reset
      \/ UNCHANGED <<seen, accepted>> /\ (stage' = "done" \/ stage # "done" \/ stage' = stage)
  BY DEF CNext, cvars, FitParagraph, BreakParagraph, AddSentence, EndOfParagraph, EndOfText,
         Merge, Drop, Keep, SplitLarge, Cut, LastPiece, Finish
<1> QED BY <1>1, <1>2, <1>3, <1>4, <1>5

\* No two texts that the validator accepts of one document are near duplicates,
\* in whatever order they came (chunk_validator.py:204-226): a text is compared
\* with all that were remembered, and every accepted one was.
THEOREM DuplicatesRefused == CSpec => []AcceptedDistinct
<1>1. CInit => DistinctInv
  BY DEF CInit, DistinctInv, AcceptedDistinct
<1>2. DistinctInv => AcceptedDistinct
  BY DEF DistinctInv
<1> QED BY <1>1, <1>2, ChunkInit, ChunkStep, DistinctStep, PTL DEF CSpec

-----------------------------------------------------------------------------
(* Where the loop is in the document *)

\* Paragraphs that are done.
Consumed == Len(doc) - Len(todo)

\* The paragraph at hand, and how many of its sentences are done.
Parts == Sentences(doc, Consumed + 1)

Behind == Len(Parts) - Len(todo[1])

\* What is to do is the end of the document.
Upcoming ==
    /\ Len(todo) <= Len(doc)
    /\ \A i \in 1..Len(todo) :
          (i = 1 => stage # "sentences") => todo[i] = Sentences(doc, Consumed + i)
    /\ stage = "sentences" =>
          /\ Len(todo[1]) <= Len(Parts)
          /\ \A k \in 1..Len(todo[1]) : todo[1][k] = Parts[Behind + k]

LEMMA Lengths ==
    ASSUME ChunkInv, Upcoming
    PROVE  /\ Len(doc) \in Nat /\ Len(todo) \in Nat /\ DOMAIN doc = 1..Len(doc)
           /\ Consumed \in 0..Len(doc)
           /\ Len(todo) = Len(doc) - Consumed
           /\ todo # <<>> => /\ Len(todo) > 0 /\ Consumed + 1 \in 1..Len(doc)
                             /\ Parts \in Seq(Sentence) /\ Len(Parts) \in Nat
                             /\ Head(todo) = todo[1]
                             /\ todo[1] \in Seq(Sentence) /\ Len(todo[1]) \in Nat
           /\ todo = <<>> => Consumed = Len(doc)
<1>1. doc \in Seq(Seq(Seq(Item) \ {<<>>}) \ {<<>>}) /\ doc \in Documents
  BY ChunkingAssumption DEF ChunkInv
<1>2. Len(doc) \in Nat /\ DOMAIN doc = 1..Len(doc)
  BY <1>1, LenProperties
<1>3. todo \in Seq(Seq(Sentence)) /\ Len(todo) \in Nat /\ Len(todo) <= Len(doc)
  BY LenProperties DEF ChunkInv, Upcoming
<1>4. Consumed \in 0..Len(doc) /\ Len(todo) = Len(doc) - Consumed
  BY <1>2, <1>3 DEF Consumed
<1>5. CASE todo # <<>>
  <2>1. Len(todo) > 0 /\ Head(todo) = todo[1]
    BY <1>3, <1>5, EmptySeq
  <2>2. Consumed + 1 \in 1..Len(doc)
    BY <1>2, <1>3, <1>4, <2>1
  <2>3. Parts \in Seq(Sentence)
    BY <1>1, <2>2, SentencesOf DEF Parts
  <2>4. todo[1] \in Seq(Sentence)
    BY <1>3, <2>1, ElementOfSeq
  <2>5. Len(Parts) \in Nat /\ Len(todo[1]) \in Nat
    BY <2>3, <2>4, LenProperties
  <2> QED BY <1>2, <1>3, <1>4, <1>5, <2>1, <2>2, <2>3, <2>4, <2>5
<1>6. CASE todo = <<>>
  <2>1. Len(todo) = 0
    BY <1>6, EmptySeq
  <2>2. Consumed = Len(doc)
    <3> DEFINE m == Len(doc)
               n == Len(todo)
    <3>1. m \in Nat /\ n = 0 /\ Consumed \in 0..m /\ n = m - Consumed
      BY <1>2, <1>4, <2>1
    <3> HIDE DEF m, n
    <3>2. Consumed = m
      BY <3>1
    <3> QED BY <3>2 DEF m
  <2> QED BY <1>2, <1>3, <1>4, <1>6, <2>2
<1> QED BY <1>5, <1>6

\* A paragraph is done with.
LEMMA NextParagraph ==
    ASSUME ChunkInv, Upcoming, todo # <<>>, todo' = Tail(todo), doc' = doc, stage' = "split"
    PROVE  Upcoming' /\ Consumed' = Consumed + 1
<1>1. todo \in Seq(Seq(Sentence))
  BY DEF ChunkInv
<1>2. /\ Len(todo') = Len(todo) - 1
      /\ \A i \in 1..Len(todo') : todo'[i] = todo[i + 1]
  <2> DEFINE S == Seq(Sentence)
  <2> HIDE DEF S
  <2>1. todo \in Seq(S)
    BY <1>1 DEF S
  <2> QED BY <2>1, HeadTailProperties
<1>3. Len(doc) \in Nat /\ Len(todo) \in Nat /\ Len(todo) > 0 /\ Len(todo) <= Len(doc) /\ Consumed \in Nat
  BY Lengths DEF Upcoming
<1>4. Consumed' = Len(doc) - Len(todo')
  BY DEF Consumed
<1>5. Consumed' = Consumed + 1
  BY <1>2, <1>3, <1>4 DEF Consumed
<1>6. ASSUME NEW i \in 1..(Len(todo) - 1) PROVE todo'[i] = Sentences(doc, Consumed + 1 + i)
  <2>1. i + 1 \in 1..Len(todo) /\ i + 1 # 1 /\ Consumed + (i + 1) = Consumed + 1 + i
    BY <1>3
  <2>2. todo[i + 1] = Sentences(doc, Consumed + (i + 1))
    BY <2>1 DEF Upcoming
  <2>3. todo'[i] = todo[i + 1]
    BY <1>2
  <2> QED BY <2>1, <2>2, <2>3
<1>7. Len(todo) - 1 <= Len(doc)
  BY <1>3
<1> QED BY <1>2, <1>5, <1>6, <1>7 DEF Upcoming

\* A sentence is done with.
LEMMA NextSentence ==
    ASSUME ChunkInv, Upcoming, stage = "sentences", Head(todo) # <<>>,
           todo' = [todo EXCEPT ![1] = Tail(todo[1])], doc' = doc, stage' = stage
    PROVE  /\ Upcoming' /\ Consumed' = Consumed /\ Parts' = Parts
           /\ Behind' = Behind + 1
           /\ Behind + 1 \in 1..Len(Parts)
           /\ Head(Head(todo)) = Parts[Behind + 1]
<1> DEFINE S == Seq(Sentence)
           rest == Tail(todo[1])
           n == Len(todo[1])
<1>1. todo # <<>> /\ todo \in Seq(S)
  BY DEF ChunkInv
<1>2. /\ Len(todo) \in Nat /\ Len(todo) > 0 /\ Head(todo) = todo[1]
      /\ todo[1] \in Seq(Sentence) /\ n \in Nat /\ Len(Parts) \in Nat
  BY <1>1, Lengths
<1>3. n > 0 /\ Head(todo[1]) = todo[1][1]
  BY <1>2, EmptySeq
<1>4. /\ rest \in S /\ Len(rest) = n - 1
      /\ \A k \in 1..(n - 1) : rest[k] = todo[1][k + 1]
  BY <1>2, <1>3, HeadTailProperties
<1>5. /\ n <= Len(Parts) /\ Behind = Len(Parts) - n
      /\ \A k \in 1..n : todo[1][k] = Parts[Behind + k]
  BY DEF Upcoming, Behind
<1>6. todo' = [todo EXCEPT ![1] = rest]
  OBVIOUS
<1> HIDE DEF S, rest, n
<1>7. Len(todo') = Len(todo) /\ \A i \in 1..Len(todo) : todo'[i] = IF i = 1 THEN rest ELSE todo[i]
  <2> DEFINE one == 1
  <2>1. one \in 1..Len(todo)
    BY <1>2
  <2> HIDE DEF one
  <2>2. /\ Len([todo EXCEPT ![one] = rest]) = Len(todo)
        /\ \A i \in 1..Len(todo) : [todo EXCEPT ![one] = rest][i] = IF i = one THEN rest ELSE todo[i]
    BY <1>1, <1>4, <2>1, ExceptSeq
  <2>3. todo' = [todo EXCEPT ![one] = rest]
    BY <1>6 DEF one
  <2>4. Len(todo') = Len(todo) /\ \A i \in 1..Len(todo) : todo'[i] = IF i = one THEN rest ELSE todo[i]
    BY <2>2, <2>3
  <2> QED BY <2>4 DEF one
<1>8. todo'[1] = rest
  <2>1. 1 \in 1..Len(todo)
    BY <1>2
  <2> QED BY <1>7, <2>1
<1>9. Consumed' = Consumed /\ Parts' = Parts
  BY <1>7 DEF Consumed, Parts
<1>10. Behind' = Len(Parts) - Len(rest)
  BY <1>8, <1>9 DEF Behind
<1>11. Behind' = Behind + 1
  BY <1>2, <1>4, <1>5, <1>10
<1>12. Behind + 1 \in 1..Len(Parts)
  BY <1>2, <1>3, <1>5
<1>13. Head(Head(todo)) = Parts[Behind + 1]
  BY <1>2, <1>3, <1>5
<1>14. ASSUME NEW k \in 1..(n - 1) PROVE rest[k] = Parts[Behind + 1 + k]
  <2>1. k + 1 \in 1..n /\ Behind + (k + 1) = Behind + 1 + k
    BY <1>2, <1>5
  <2>2. todo[1][k + 1] = Parts[Behind + (k + 1)]
    BY <1>5, <2>1
  <2> QED BY <1>4, <2>1, <2>2
<1>15. n - 1 <= Len(Parts)
  BY <1>2, <1>5
<1>16. ASSUME NEW i \in 1..Len(todo), i # 1 PROVE todo'[i] = Sentences(doc, Consumed + i)
  BY <1>7, <1>16 DEF Upcoming
<1>17. Len(todo) <= Len(doc)
  BY DEF Upcoming
<1>18. Upcoming'
  BY <1>4, <1>7, <1>8, <1>9, <1>11, <1>14, <1>15, <1>16, <1>17 DEF Upcoming
<1> QED BY <1>9, <1>11, <1>12, <1>13, <1>18

\* The sentences of a paragraph begin.
LEMMA ParagraphBroken ==
    ASSUME ChunkInv, Upcoming, stage = "split", todo # <<>>,
           UNCHANGED <<doc, todo>>, stage' = "sentences"
    PROVE  Upcoming' /\ Consumed' = Consumed /\ Parts' = Parts /\ Behind' = 0
<1>1. Len(todo) > 0 /\ Len(todo) \in Nat
  BY Lengths
<1>2. todo[1] = Parts
  BY <1>1 DEF Upcoming, Parts
<1>3. Consumed' = Consumed /\ Parts' = Parts /\ Len(Parts) \in Nat
  BY Lengths DEF Consumed, Parts
<1>4. Behind' = Len(Parts) - Len(todo[1])
  BY <1>3 DEF Behind
<1>5. Behind' = 0
  BY <1>2, <1>3, <1>4
<1>6. \A k \in 1..Len(Parts) : 0 + k = k
  BY <1>3
<1>7. Upcoming'
  BY <1>2, <1>3, <1>5, <1>6 DEF Upcoming
<1> QED BY <1>3, <1>5, <1>7

\* What is to do stays the end of the document.
LEMMA UpcomingStep == ChunkInv /\ Upcoming /\ [CNext]_cvars => Upcoming'
<1> SUFFICES ASSUME ChunkInv, Upcoming, [CNext]_cvars PROVE Upcoming'
  OBVIOUS
<1>1. CASE FitParagraph \/ EndOfParagraph
  <2>1. todo # <<>> /\ todo' = Tail(todo) /\ doc' = doc /\ stage' = "split"
    BY <1>1 DEF FitParagraph, EndOfParagraph, ChunkInv
  <2> QED BY <2>1, NextParagraph
<1>2. CASE BreakParagraph
  <2>1. stage = "split" /\ todo # <<>> /\ UNCHANGED <<doc, todo>> /\ stage' = "sentences"
    BY <1>2 DEF BreakParagraph
  <2> QED BY <2>1, ParagraphBroken
<1>3. CASE AddSentence
  <2>1. /\ stage = "sentences" /\ Head(todo) # <<>> /\ doc' = doc /\ stage' = stage
        /\ todo' = [todo EXCEPT ![1] = Tail(todo[1])]
    BY <1>3 DEF AddSentence
  <2> QED BY <2>1, NextSentence
<1>4. CASE EndOfText \/ Merge \/ Drop \/ Keep \/ SplitLarge \/ Cut \/ LastPiece \/ Finish
           \/ Validate \/ Reset
  <2>1. UNCHANGED <<doc, todo>> /\ stage # "sentences" /\ stage' # "sentences"
    BY <1>4 DEF EndOfText, Merge, Drop, Keep, SplitLarge, Cut, LastPiece, Finish, Validate, Reset
  <2> QED BY <2>1 DEF Upcoming, Consumed
<1>5. CASE UNCHANGED cvars
  <2>1. UNCHANGED <<doc, todo, stage>>
    BY <1>5 DEF cvars
  <2> QED BY <2>1 DEF Upcoming, Consumed, Parts, Behind
<1> QED BY <1>1, <1>2, <1>3, <1>4, <1>5 DEF CNext

LEMMA UpcomingInit == CInit => Upcoming
<1> SUFFICES ASSUME CInit PROVE Upcoming
  OBVIOUS
<1>1. doc \in Documents /\ doc \in Seq(Seq(Seq(Item) \ {<<>>}) \ {<<>>})
  BY ChunkingAssumption DEF CInit
<1>2. Len(doc) \in Nat /\ DOMAIN doc = 1..Len(doc)
  BY <1>1, LenProperties
<1>3. todo = [p \in 1..Len(doc) |-> Sentences(doc, p)] /\ stage = "split"
  BY <1>2 DEF CInit
<1>4. todo \in [1..Len(doc) -> Seq(Sentence)]
  BY <1>1, <1>3, SentencesOf
<1>5. Len(todo) = Len(doc)
  <2> DEFINE S == Seq(Sentence)
  <2> HIDE DEF S
  <2>1. todo \in [1..Len(doc) -> S]
    BY <1>4 DEF S
  <2> QED BY <1>2, <2>1, FunctionSeq
<1>6. Consumed = 0
  BY <1>2, <1>5 DEF Consumed
<1>7. \A i \in 1..Len(doc) : 0 + i = i
  BY <1>2
<1> QED BY <1>2, <1>3, <1>5, <1>6, <1>7 DEF Upcoming

-----------------------------------------------------------------------------
(* Letters and their order *)

Letter == (Nat \X Nat \X Nat) \X Int

\* What letters are; none is earlier than itself.
LEMMA LetterTypes ==
    /\ \A w \in Word : LettersOf(w) \subseteq Letter
    /\ \A t \in Text : Letters(t) \subseteq Letter
    /\ \A l \in Letter : ~Earlier(l, l)
<1>1. ASSUME NEW w \in Word PROVE LettersOf(w) \subseteq Letter
  <2>1. w.at \in Nat \X Nat \X Nat /\ w.from \in Int /\ w.len \in Nat
    BY DEF Word
  <2>2. \A i \in 1..w.len : w.from + i \in Int
    BY <2>1
  <2> QED BY <2>1, <2>2 DEF LettersOf, Letter
<1>2. ASSUME NEW t \in Text PROVE Letters(t) \subseteq Letter
  <2>1. t.words \in Seq(Word)
    BY DEF Text
  <2>2. \A w \in ToSet(t.words) : w \in Word
    BY <2>1 DEF ToSet
  <2> QED BY <1>1, <2>2 DEF Letters
<1>3. ASSUME NEW l \in Letter PROVE ~Earlier(l, l)
  <2>1. l[1][1] \in Nat /\ l[1][2] \in Nat /\ l[1][3] \in Nat /\ l[2] \in Int
    BY DEF Letter
  <2> QED BY <2>1 DEF Earlier
<1> QED BY <1>1, <1>2, <1>3

\* Letters of which some come before the others are different letters.
LEMMA Apart ==
    ASSUME NEW ls \in SUBSET Letter, NEW ms, Precede(ls, ms)
    PROVE  ls \cap ms = {}
  BY LetterTypes DEF Precede

\* Precede is about every letter by itself.
LEMMA PrecedeUnion ==
    ASSUME NEW ks, NEW ls, NEW ms
    PROVE  /\ Precede(ks \cup ls, ms) <=> Precede(ks, ms) /\ Precede(ls, ms)
           /\ Precede(ms, ks \cup ls) <=> Precede(ms, ks) /\ Precede(ms, ls)
           /\ Precede({}, ms) /\ Precede(ms, {})
           /\ ks \subseteq ls => /\ Precede(ls, ms) => Precede(ks, ms)
                                 /\ Precede(ms, ls) => Precede(ms, ks)
  BY DEF Precede

\* The letters of a text, word by word.
LEMMA WordsLetters ==
    ASSUME NEW ws \in Seq(Word), NEW t, t.words = ws
    PROVE  Letters(t) = UNION {LettersOf(ws[i]) : i \in 1..Len(ws)}
<1>1. ToSet(ws) = {ws[i] : i \in 1..Len(ws)}
  BY WordLengths DEF ToSet
<1> QED BY <1>1 DEF Letters

\* The letters of two texts, and their order, when the second is added to the
\* first.
LEMMA JoinedLetters ==
    ASSUME NEW s \in Text, NEW t \in Text, NEW gap \in Nat
    PROVE  /\ Letters(Joined(s, gap, t)) = Letters(s) \cup Letters(t)
           /\ InOrder(s.words) /\ InOrder(t.words) /\ Precede(Letters(s), Letters(t))
                => InOrder(Joined(s, gap, t).words)
<1> DEFINE u == s.words
           v == t.words
           r == Joined(s, gap, t)
           ws == r.words
           m == Len(u)
           n == Len(v)
<1>1. u \in Seq(Word) /\ v \in Seq(Word)
  BY DEF Text
<1>2. ws = u \o v
  <2>1. CASE s = Empty
    <3>1. u = <<>> /\ ws = v
      BY <2>1 DEF Joined, Empty
    <3> QED BY <1>1, <3>1, ConcatEmptySeq
  <2>2. CASE s # Empty
    BY <2>2 DEF Joined
  <2> QED BY <2>1, <2>2
<1>3. /\ ws \in Seq(Word) /\ Len(ws) = m + n /\ m \in Nat /\ n \in Nat
      /\ DOMAIN ws = 1..(m + n) /\ DOMAIN u = 1..m /\ DOMAIN v = 1..n
      /\ \A i \in 1..m : ws[i] = u[i]
      /\ \A i \in 1..n : ws[m + i] = v[i]
  <2>1. /\ u \o v \in Seq(Word) /\ Len(u \o v) = m + n
        /\ \A i \in 1..(m + n) : (u \o v)[i] = IF i <= m THEN u[i] ELSE v[i - m]
    BY <1>1, ConcatProperties
  <2>2. m \in Nat /\ n \in Nat /\ DOMAIN u = 1..m /\ DOMAIN v = 1..n
    BY <1>1, LenProperties
  <2>3. ws \in Seq(Word) /\ Len(ws) = m + n
        /\ \A i \in 1..(m + n) : ws[i] = IF i <= m THEN u[i] ELSE v[i - m]
    BY <1>2, <2>1, Zenon
  <2>4. DOMAIN ws = 1..(m + n)
    BY <2>3, LenProperties
  <2> HIDE DEF ws, u, v, m, n
  <2>5. ASSUME NEW i \in 1..m PROVE ws[i] = u[i]
    BY <2>2, <2>3
  <2>6. ASSUME NEW i \in 1..n PROVE ws[m + i] = v[i]
    <3> DEFINE k == m + i
    <3>1. k \in 1..(m + n) /\ ~(k <= m) /\ k - m = i
      BY <2>2
    <3> HIDE DEF k
    <3>2. ws[k] = v[i]
      BY <2>3, <3>1
    <3> QED BY <3>2 DEF k
  <2> QED BY <2>2, <2>3, <2>4, <2>5, <2>6
<1>4. /\ Letters(s) = UNION {LettersOf(u[i]) : i \in 1..m}
      /\ Letters(t) = UNION {LettersOf(v[i]) : i \in 1..n}
      /\ Letters(r) = UNION {LettersOf(ws[i]) : i \in 1..(m + n)}
  BY <1>1, <1>3, WordsLetters
<1> HIDE DEF r, ws, u, v, m, n
<1>5. \A i \in 1..(m + n) : i \in 1..m \/ \E j \in 1..n : i = m + j
  <2> SUFFICES ASSUME NEW i \in 1..(m + n), i \notin 1..m PROVE \E j \in 1..n : i = m + j
    OBVIOUS
  <2>1. i - m \in 1..n /\ i = m + (i - m)
    BY <1>3
  <2> QED BY <2>1
<1>6. (\A i \in 1..m : i \in 1..(m + n)) /\ \A j \in 1..n : m + j \in 1..(m + n)
  BY <1>3
<1>7. Letters(r) = Letters(s) \cup Letters(t)
  <2>1. \A l : l \in Letters(r) <=> \E i \in 1..(m + n) : l \in LettersOf(ws[i])
    BY <1>4
  <2>2. \A l : l \in Letters(s) <=> \E i \in 1..m : l \in LettersOf(ws[i])
    BY <1>3, <1>4
  <2>3. \A l : l \in Letters(t) <=> \E j \in 1..n : l \in LettersOf(ws[m + j])
    BY <1>3, <1>4
  <2>4. \A l : l \in Letters(r) <=> l \in Letters(s) \cup Letters(t)
    BY <1>5, <1>6, <2>1, <2>2, <2>3
  <2> QED BY <2>4
<1>8. ASSUME InOrder(u), InOrder(v), Precede(Letters(s), Letters(t)) PROVE InOrder(ws)
  <2> SUFFICES ASSUME NEW i \in 1..(m + n), NEW j \in 1..(m + n), i < j
               PROVE  Precede(LettersOf(ws[i]), LettersOf(ws[j]))
    BY <1>3 DEF InOrder
  <2>1. CASE i \in 1..m /\ j \in 1..m
    BY <1>3, <1>8, <2>1 DEF InOrder
  <2>2. CASE i \in 1..m /\ j \notin 1..m
    <3>1. PICK k \in 1..n : j = m + k
      BY <1>5, <2>2
    <3>2. LettersOf(ws[i]) \subseteq Letters(s) /\ LettersOf(ws[j]) \subseteq Letters(t)
      BY <1>3, <1>4, <2>2, <3>1
    <3> QED BY <1>8, <3>2 DEF Precede
  <2>3. CASE i \notin 1..m
    <3>1. PICK h \in 1..n : i = m + h
      BY <1>5, <2>3
    <3>2. j \notin 1..m
      BY <1>3, <3>1
    <3>3. PICK k \in 1..n : j = m + k
      BY <1>5, <3>2
    <3>4. h < k
      BY <1>3, <3>1, <3>3
    <3> QED BY <1>3, <1>8, <3>1, <3>3, <3>4 DEF InOrder
  <2> QED BY <2>1, <2>2, <2>3
<1> QED BY <1>7, <1>8 DEF r, ws, u, v

\* The letters of the first k of the sentences ss, and those of the first n
\* paragraphs of d.
PartLetters(ss, k) == UNION {Letters(ss[s]) : s \in 1..k}

DoneLetters(d, n) == UNION {PartLetters(Sentences(d, p), Len(Sentences(d, p))) : p \in 1..n}

\* A letter of a sentence knows where the sentence is.
LEMMA SentenceLetters ==
    ASSUME NEW d \in Documents, NEW p \in 1..Len(d), NEW s \in 1..Len(Sentences(d, p))
    PROVE  /\ Sentences(d, p)[s] \in Text
           /\ \A l \in Letters(Sentences(d, p)[s]) : l \in Letter /\ l[1][1] = p /\ l[1][2] = s
           /\ InOrder(Sentences(d, p)[s].words)
<1> DEFINE t == Sentences(d, p)[s]
           n == Len(d[p][s])
           ws == [w \in DOMAIN d[p][s] |->
                    [id |-> d[p][s][w].id, gap |-> d[p][s][w].gap, at |-> <<p, s, w>>, from |-> 0,
                     len |-> LengthOf[d[p][s][w].id], stop |-> w = Len(d[p][s])]]
<1>1. /\ Sentences(d, p) \in Seq(Sentence) /\ Len(Sentences(d, p)) \in Nat
      /\ DOMAIN Sentences(d, p) = 1..Len(Sentences(d, p))
  BY SentencesOf, LenProperties
<1>2. t \in Sentence /\ t \in Text /\ t.words \in Seq(Word)
  BY <1>1, ElementOfSeq, SentenceText
<1>3. DOMAIN Sentences(d, p) = DOMAIN d[p] /\ t = Words(ws)
  BY <1>1 DEF Sentences
<1>4. t.words = ws
  <2> HIDE DEF ws, t
  <2> QED BY <1>3 DEF Words
<1>5. /\ Len(ws) \in Nat /\ DOMAIN ws = 1..Len(ws)
      /\ \A w \in 1..Len(ws) : ws[w].at = <<p, s, w>> /\ ws[w] \in Word
  <2>1. ws \in Seq(Word)
    BY <1>2, <1>4
  <2>2. \A w \in DOMAIN ws : ws[w].at = <<p, s, w>>
    OBVIOUS
  <2> HIDE DEF ws
  <2> QED BY <2>1, <2>2, WordLengths
<1>6. Letters(t) = UNION {LettersOf(ws[w]) : w \in 1..Len(ws)} /\ Letters(t) \subseteq Letter
  <2>1. ws \in Seq(Word)
    BY <1>2, <1>4
  <2> HIDE DEF ws, t
  <2> QED BY <1>2, <1>4, <2>1, WordsLetters, LetterTypes
<1>7. p \in Nat /\ s \in Nat
  <2>1. d \in Seq(Seq(Seq(Item) \ {<<>>}) \ {<<>>})
    BY ChunkingAssumption
  <2> QED BY <1>1, <2>1, LenProperties
<1> HIDE DEF ws, t
<1>8. ASSUME NEW w \in 1..Len(ws), NEW l \in LettersOf(ws[w])
      PROVE  l[1] = <<p, s, w>>
  BY <1>5 DEF LettersOf
<1>9. \A l \in Letters(t) : l \in Letter /\ l[1][1] = p /\ l[1][2] = s
  BY <1>6, <1>8
<1>10. InOrder(t.words)
  <2> SUFFICES ASSUME NEW i \in 1..Len(ws), NEW j \in 1..Len(ws), i < j,
                      NEW l \in LettersOf(ws[i]), NEW m \in LettersOf(ws[j])
               PROVE  Earlier(l, m)
    BY <1>4, <1>5 DEF InOrder, Precede
  <2>1. l[1] = <<p, s, i>> /\ m[1] = <<p, s, j>>
    BY <1>8
  <2> QED BY <2>1 DEF Earlier
<1> QED BY <1>2, <1>9, <1>10 DEF t

\* Letters of one more sentence, and of one more paragraph.
LEMMA LettersGrow ==
    /\ \A ss : PartLetters(ss, 0) = {}
    /\ \A ss : \A k \in Nat : PartLetters(ss, k + 1) = PartLetters(ss, k) \cup Letters(ss[k + 1])
    /\ \A d : DoneLetters(d, 0) = {}
    /\ \A d : \A n \in Nat :
          DoneLetters(d, n + 1)
            = DoneLetters(d, n) \cup PartLetters(Sentences(d, n + 1), Len(Sentences(d, n + 1)))
<1>1. \A k \in Nat : 1..(k + 1) = 1..k \cup {k + 1}
  OBVIOUS
<1>2. 1..0 = {}
  OBVIOUS
<1>3. ASSUME NEW ss, NEW k \in Nat
      PROVE  PartLetters(ss, k + 1) = PartLetters(ss, k) \cup Letters(ss[k + 1])
  BY <1>1, Zenon DEF PartLetters
<1>4. ASSUME NEW d, NEW n \in Nat
      PROVE  DoneLetters(d, n + 1)
              = DoneLetters(d, n) \cup PartLetters(Sentences(d, n + 1), Len(Sentences(d, n + 1)))
  BY <1>1, Zenon DEF DoneLetters
<1>5. \A ss : PartLetters(ss, 0) = {}
  BY <1>2 DEF PartLetters
<1>6. \A d : DoneLetters(d, 0) = {}
  BY <1>2 DEF DoneLetters
<1> QED BY <1>3, <1>4, <1>5, <1>6

\* Paragraphs and sentences follow one another.
LEMMA PartsPrecede ==
    ASSUME NEW d \in Documents, NEW p \in 1..Len(d), NEW k \in 0..Len(Sentences(d, p))
    PROVE  /\ Precede(DoneLetters(d, p - 1), PartLetters(Sentences(d, p), k))
           /\ k + 1 <= Len(Sentences(d, p)) =>
                 Precede(PartLetters(Sentences(d, p), k), Letters(Sentences(d, p)[k + 1]))
<1>1. Len(d) \in Nat /\ p \in Nat /\ \A q \in 1..Len(d) : Len(Sentences(d, q)) \in Nat
  <2>1. d \in Seq(Seq(Seq(Item) \ {<<>>}) \ {<<>>})
    BY ChunkingAssumption
  <2> QED BY <2>1, SentencesOf, LenProperties
<1>2. ASSUME NEW q \in 1..Len(d), NEW h \in 0..Len(Sentences(d, q)),
             NEW l \in PartLetters(Sentences(d, q), h)
      PROVE  l \in Letter /\ l[1][1] = q /\ l[1][2] \in 1..h
  <2>1. PICK s \in 1..h : l \in Letters(Sentences(d, q)[s])
    BY DEF PartLetters
  <2>2. s \in 1..Len(Sentences(d, q))
    BY <1>1
  <2> QED BY <2>1, <2>2, SentenceLetters
<1>3. ASSUME NEW l \in DoneLetters(d, p - 1), NEW m \in PartLetters(Sentences(d, p), k)
      PROVE  Earlier(l, m)
  <2>1. PICK q \in 1..(p - 1) : l \in PartLetters(Sentences(d, q), Len(Sentences(d, q)))
    BY DEF DoneLetters
  <2>2. q \in 1..Len(d) /\ q < p
    BY <1>1
  <2>3. Len(Sentences(d, q)) \in 0..Len(Sentences(d, q))
    BY <1>1, <2>2
  <2>4. l[1][1] = q /\ m[1][1] = p
    BY <1>2, <2>1, <2>2, <2>3
  <2> QED BY <2>2, <2>4 DEF Earlier
<1>4. ASSUME k + 1 <= Len(Sentences(d, p)),
             NEW l \in PartLetters(Sentences(d, p), k), NEW m \in Letters(Sentences(d, p)[k + 1])
      PROVE  Earlier(l, m)
  <2>1. k + 1 \in 1..Len(Sentences(d, p))
    BY <1>1, <1>4
  <2>2. m[1][1] = p /\ m[1][2] = k + 1
    BY <2>1, SentenceLetters
  <2>3. l[1][1] = p /\ l[1][2] \in 1..k
    BY <1>2
  <2>4. l[1][2] < k + 1
    BY <1>1, <2>3
  <2> QED BY <2>2, <2>3, <2>4 DEF Earlier
<1> QED BY <1>3, <1>4 DEF Precede

\* The text of a paragraph has the letters of its sentences, in their order.
LEMMA ParagraphLetters ==
    ASSUME NEW d \in Documents, NEW p \in 1..Len(d)
    PROVE  /\ Letters(Paragraph(Sentences(d, p))) = PartLetters(Sentences(d, p), Len(Sentences(d, p)))
           /\ InOrder(Paragraph(Sentences(d, p)).words)
<1> DEFINE ss == Sentences(d, p)
           n == Len(ss)
           gap(k) == Len(ss[k].words[1].gap)
           upto == JoinUpto(ss)
           T == {k \in 0..n : Letters(upto[k]) = PartLetters(ss, k) /\ InOrder(upto[k].words)}
<1>1. ss \in Seq(Sentence) /\ Paragraph(ss) = upto[n] /\ n \in Nat
  BY SentencesOf, ParagraphText, LenProperties
<1>2. \A s \in 1..n : ss[s] \in Text /\ InOrder(ss[s].words)
  BY SentenceLetters
<1>3. \A k \in 1..n : Precede(PartLetters(ss, k - 1), Letters(ss[k]))
  <2> SUFFICES ASSUME NEW k \in 1..n PROVE Precede(PartLetters(ss, k - 1), Letters(ss[k]))
    OBVIOUS
  <2> DEFINE h == k - 1
  <2>1. h \in 0..n /\ h + 1 <= n /\ h + 1 = k
    BY <1>1
  <2> HIDE DEF h
  <2>2. Precede(PartLetters(ss, h), Letters(ss[h + 1]))
    BY <2>1, PartsPrecede
  <2> QED BY <2>1, <2>2 DEF h
<1> HIDE DEF ss, n
<1>4. /\ \A k \in 0..n : upto[k] \in Text
      /\ upto[0] = Empty
      /\ \A k \in 1..n : gap(k) \in Nat /\ upto[k] = Joined(upto[k - 1], gap(k), ss[k])
  BY <1>1, JoinDefined DEF n
<1> HIDE DEF gap
<1> HIDE DEF upto
<1>5. 0 \in T
  <2>1. Empty.words = <<>> /\ ToSet(<<>>) = {}
    BY DEF Empty, ToSet
  <2>2. Letters(Empty) = {} /\ InOrder(Empty.words)
    BY <2>1 DEF Letters, InOrder
  <2>3. PartLetters(ss, 0) = {}
    BY LettersGrow
  <2>4. Letters(upto[0]) = PartLetters(ss, 0) /\ InOrder(upto[0].words)
    BY <1>4, <2>2, <2>3, Zenon
  <2> QED BY <1>1, <2>4
<1>6. ASSUME NEW k \in 1..n, k - 1 \in T PROVE k \in T
  <2> DEFINE s == upto[k - 1]
             t == ss[k]
  <2>1. /\ s \in Text /\ t \in Text /\ gap(k) \in Nat /\ upto[k] = Joined(s, gap(k), t)
        /\ InOrder(s.words) /\ InOrder(t.words)
        /\ Letters(s) = PartLetters(ss, k - 1) /\ Precede(Letters(s), Letters(t))
    BY <1>2, <1>3, <1>4, <1>6
  <2>2. Letters(upto[k]) = Letters(s) \cup Letters(t) /\ InOrder(upto[k].words)
    <3> HIDE DEF s, t
    <3> QED BY <1>1, <2>1, JoinedLetters
  <2>3. PartLetters(ss, k) = PartLetters(ss, k - 1) \cup Letters(t)
    <3> DEFINE h == k - 1
    <3>1. h \in Nat /\ h + 1 = k
      BY <1>1
    <3> HIDE DEF h
    <3>2. PartLetters(ss, h + 1) = PartLetters(ss, h) \cup Letters(ss[h + 1])
      BY <3>1, LettersGrow
    <3> QED BY <3>1, <3>2 DEF h
  <2>4. k \in 0..n
    BY <1>1
  <2> QED BY <2>1, <2>2, <2>3, <2>4
<1>7. n \in T
  <2> HIDE DEF T
  <2>1. \A k \in 0..n : k \in T
    BY <1>1, <1>5, <1>6, IntervalInduction
  <2> QED BY <1>1, <2>1
<1> QED BY <1>1, <1>7 DEF ss, n

\* All of the paragraphs are the document.
LEMMA AllDone ==
    ASSUME NEW d \in Documents
    PROVE  DoneLetters(d, Len(d)) = Contents(d)
<1>1. d \in Seq(Seq(Seq(Item) \ {<<>>}) \ {<<>>})
  BY ChunkingAssumption
<1>2. DOMAIN d = 1..Len(d)
  BY <1>1, LenProperties
<1>3. ASSUME NEW p \in 1..Len(d) PROVE DOMAIN d[p] = 1..Len(Sentences(d, p))
  <2>1. Sentences(d, p) \in Seq(Sentence)
    BY SentencesOf
  <2>2. DOMAIN Sentences(d, p) = 1..Len(Sentences(d, p))
    BY <2>1, LenProperties
  <2>3. DOMAIN Sentences(d, p) = DOMAIN d[p]
    BY DEF Sentences
  <2> QED BY <2>2, <2>3
<1> QED BY <1>2, <1>3 DEF Contents, DoneLetters, PartLetters

-----------------------------------------------------------------------------
(* The letters of a sentence that is cut *)

\* A word cut in two keeps its letters, in their order.
LEMMA WordCut ==
    ASSUME NEW w \in Word, NEW g \in 1..(w.len - 1),
           NEW u, u.at = w.at, u.from = w.from, u.len = g,
           NEW v, v.at = w.at, v.from = w.from + g, v.len = w.len - g
    PROVE  /\ LettersOf(u) \cup LettersOf(v) = LettersOf(w)
           /\ Precede(LettersOf(u), LettersOf(v))
<1> DEFINE at == w.at
           f == w.from
           n == w.len
<1>1. f \in Int /\ n \in Nat /\ g \in Nat /\ g < n
  BY DEF Word
<1>2. /\ LettersOf(w) = {<<at, f + i>> : i \in 1..n}
      /\ LettersOf(u) = {<<at, f + i>> : i \in 1..g}
      /\ LettersOf(v) = {<<at, f + g + i>> : i \in 1..(n - g)}
  BY DEF LettersOf
<1> HIDE DEF at, f, n
<1>3. ASSUME NEW i \in 1..n PROVE i \in 1..g \/ \E j \in 1..(n - g) : f + i = f + g + j
  <2>1. CASE i \notin 1..g
    <3>1. i - g \in 1..(n - g) /\ f + i = f + g + (i - g)
      BY <1>1, <2>1
    <3> QED BY <3>1
  <2> QED BY <2>1
<1>4. ASSUME NEW j \in 1..(n - g) PROVE \E i \in 1..n : f + g + j = f + i
  <2>1. g + j \in 1..n /\ f + g + j = f + (g + j)
    BY <1>1
  <2> QED BY <2>1
<1>5. \A i \in 1..g : i \in 1..n
  BY <1>1
<1>6. \A l : l \in LettersOf(u) \cup LettersOf(v) <=> l \in LettersOf(w)
  BY <1>2, <1>3, <1>4, <1>5
<1>7. ASSUME NEW l \in LettersOf(u), NEW m \in LettersOf(v) PROVE Earlier(l, m)
  <2>1. PICK i \in 1..g : l = <<at, f + i>>
    BY <1>2
  <2>2. PICK j \in 1..(n - g) : m = <<at, f + g + j>>
    BY <1>2
  <2>3. f + i < f + g + j
    BY <1>1
  <2> QED BY <2>1, <2>2, <2>3 DEF Earlier
<1> QED BY <1>6, <1>7 DEF Precede

\* The words ws are divided: us goes up to word k, vs begins with word m, and if
\* they are the same word then both have a piece of it.
Divided(ws, us, vs, k, m) ==
    /\ k \in 1..Len(ws) /\ m \in k..Len(ws) /\ m <= k + 1
    /\ Len(us) = k /\ Len(vs) = Len(ws) - m + 1
    /\ \A i \in 1..(k - 1) : us[i] = ws[i]
    /\ \A i \in (m + 1)..Len(ws) : vs[i - m + 1] = ws[i]
    /\ m = k => /\ LettersOf(us[k]) \cup LettersOf(vs[1]) = LettersOf(ws[k])
                /\ Precede(LettersOf(us[k]), LettersOf(vs[1]))
    /\ m # k => us[k] = ws[k] /\ vs[1] = ws[m]

\* What is divided keeps its letters, in their order: cut in a gap or in a word.
LEMMA Division ==
    ASSUME NEW ws \in Seq(Word), NEW us \in Seq(Word), NEW vs \in Seq(Word),
           NEW k, NEW m, Divided(ws, us, vs, k, m), InOrder(ws),
           NEW r, r.words = ws
    PROVE  /\ InOrder(us) /\ InOrder(vs)
           /\ Precede(Letters(Words(us)), Letters(Words(vs)))
           /\ Letters(Words(us)) \cup Letters(Words(vs)) = Letters(r)
<1> DEFINE s == Words(us)
           t == Words(vs)
<1>1. s.words = us /\ t.words = vs
  BY DEF Words
<1> HIDE DEF s, t
<1> USE DEF Divided
<1> DEFINE n == Len(ws)
           B == [i \in 1..k |-> LettersOf(us[i])]
           A == [i \in m..n |-> LettersOf(vs[i - m + 1])]
           O == [i \in 1..n |-> LettersOf(ws[i])]
<1>2. /\ n \in Nat /\ k \in 1..n /\ m \in k..n /\ m <= k + 1
      /\ DOMAIN us = 1..k /\ DOMAIN vs = 1..(n - m + 1) /\ DOMAIN ws = 1..n
  BY LenProperties
<1>3. /\ \A i \in 1..(k - 1) : B[i] = O[i]
      /\ \A i \in (m + 1)..n : A[i] = O[i]
  <2>1. ASSUME NEW i \in 1..(k - 1) PROVE B[i] = O[i]
    <3>1. i \in 1..k /\ i \in 1..n /\ us[i] = ws[i]
      BY <1>2
    <3> QED BY <3>1
  <2>2. ASSUME NEW i \in (m + 1)..n PROVE A[i] = O[i]
    <3>1. i \in m..n /\ i \in 1..n
      BY <1>2
    <3>2. A[i] = LettersOf(vs[i - m + 1]) /\ O[i] = LettersOf(ws[i])
      BY <3>1
    <3>3. vs[i - m + 1] = ws[i]
      OBVIOUS
    <3> QED BY <3>2, <3>3, Zenon
  <2> QED BY <2>1, <2>2
<1>4. A[m] = LettersOf(vs[1]) /\ B[k] = LettersOf(us[k]) /\ O[k] = LettersOf(ws[k])
  <2>1. m \in m..n /\ m - m + 1 = 1
    BY <1>2
  <2> QED BY <1>2, <2>1
<1>5. /\ m = k => B[k] \cup A[m] = O[k] /\ Precede(B[k], A[m])
      /\ m # k => B[k] = O[k] /\ A[m] = O[m]
  <2>1. m \in 1..n /\ O[m] = LettersOf(ws[m])
    BY <1>2
  <2> HIDE DEF A, B, O
  <2> QED BY <1>4, <2>1
<1>6. \A i, j \in 1..n : i < j => Precede(O[i], O[j])
  BY <1>2 DEF InOrder
<1>7. \A j \in 1..(n - m + 1) : \E i \in m..n : j = i - m + 1
  <2> SUFFICES ASSUME NEW j \in 1..(n - m + 1) PROVE \E i \in m..n : j = i - m + 1
    OBVIOUS
  <2>1. m + j - 1 \in m..n /\ j = (m + j - 1) - m + 1
    BY <1>2
  <2> QED BY <2>1
<1>8. /\ \A l : l \in Letters(s) <=> \E i \in 1..k : l \in B[i]
      /\ \A l : l \in Letters(r) <=> \E i \in 1..n : l \in O[i]
  <2>1. /\ Letters(s) = UNION {LettersOf(us[i]) : i \in 1..k}
        /\ Letters(r) = UNION {LettersOf(ws[i]) : i \in 1..n}
    BY <1>1, WordsLetters
  <2> QED BY <2>1
<1>9. \A l : l \in Letters(t) <=> \E i \in m..n : l \in A[i]
  <2>1. \A l : l \in Letters(t) <=> \E j \in 1..(n - m + 1) : l \in LettersOf(vs[j])
    <3> DEFINE h == n - m + 1
    <3>1. Letters(t) = UNION {LettersOf(vs[j]) : j \in 1..h}
      BY <1>1, WordsLetters
    <3> HIDE DEF h
    <3>2. \A l : l \in Letters(t) <=> \E j \in 1..h : l \in LettersOf(vs[j])
      BY <3>1
    <3> QED BY <3>2 DEF h
  <2>2. ASSUME NEW i \in m..n PROVE i - m + 1 \in 1..(n - m + 1) /\ A[i] = LettersOf(vs[i - m + 1])
    BY <1>2
  <2>3. ASSUME NEW l \in Letters(t) PROVE \E i \in m..n : l \in A[i]
    <3>1. PICK j \in 1..(n - m + 1) : l \in LettersOf(vs[j])
      BY <2>1
    <3>2. PICK i \in m..n : j = i - m + 1
      BY <1>7
    <3> QED BY <2>2, <3>1, <3>2
  <2>4. ASSUME NEW l, NEW i \in m..n, l \in A[i] PROVE l \in Letters(t)
    <3> DEFINE j == i - m + 1
    <3>1. j \in 1..(n - m + 1) /\ l \in LettersOf(vs[j])
      BY <2>2, <2>4
    <3> HIDE DEF j
    <3> QED BY <2>1, <3>1
  <2> QED BY <2>3, <2>4
<1>10. InOrder(us) <=> \A i, j \in 1..k : i < j => Precede(B[i], B[j])
  BY <1>2 DEF InOrder
<1>11. (\A i, j \in m..n : i < j => Precede(A[i], A[j])) => InOrder(vs)
  <2> SUFFICES ASSUME \A i, j \in m..n : i < j => Precede(A[i], A[j]),
                      NEW h \in 1..(n - m + 1), NEW j \in 1..(n - m + 1), h < j
               PROVE  Precede(LettersOf(vs[h]), LettersOf(vs[j]))
    BY <1>2 DEF InOrder
  <2>1. PICK x \in m..n : h = x - m + 1
    BY <1>7
  <2>2. PICK y \in m..n : j = y - m + 1
    BY <1>7
  <2>3. x < y
    BY <1>2, <2>1, <2>2
  <2>4. Precede(A[x], A[y])
    BY <2>3
  <2> QED BY <2>1, <2>2, <2>4
<1> HIDE DEF n, A, B, O
<1>12. \A i \in 1..k : i \in 1..n /\ B[i] \subseteq O[i]
  <2> SUFFICES ASSUME NEW i \in 1..k PROVE i \in 1..n /\ B[i] \subseteq O[i]
    OBVIOUS
  <2>1. i \in 1..(k - 1) \/ i = k
    BY <1>2
  <2> QED BY <1>2, <1>3, <1>5, <2>1
<1>13. \A i \in m..n : i \in 1..n /\ A[i] \subseteq O[i]
  <2> SUFFICES ASSUME NEW i \in m..n PROVE i \in 1..n /\ A[i] \subseteq O[i]
    OBVIOUS
  <2>1. i \in (m + 1)..n \/ i = m
    BY <1>2
  <2> QED BY <1>2, <1>3, <1>5, <2>1
<1>14. InOrder(us)
  <2> SUFFICES ASSUME NEW i \in 1..k, NEW j \in 1..k, i < j PROVE Precede(B[i], B[j])
    BY <1>10
  <2>1. Precede(O[i], O[j])
    BY <1>6, <1>12
  <2> QED BY <1>12, <2>1 DEF Precede
<1>15. InOrder(vs)
  <2> SUFFICES ASSUME NEW i \in m..n, NEW j \in m..n, i < j PROVE Precede(A[i], A[j])
    BY <1>11
  <2>1. Precede(O[i], O[j])
    BY <1>6, <1>13
  <2> QED BY <1>13, <2>1 DEF Precede
<1>16. ASSUME NEW i \in 1..k, NEW j \in m..n PROVE Precede(B[i], A[j])
  <2>1. CASE i < j
    <3>1. Precede(O[i], O[j])
      BY <1>6, <1>12, <1>13, <2>1
    <3> QED BY <1>12, <1>13, <3>1 DEF Precede
  <2>2. CASE ~(i < j)
    <3>1. i = k /\ m = k /\ j = m
      BY <1>2, <2>2
    <3> QED BY <1>5, <3>1
  <2> QED BY <2>1, <2>2
<1>17. Precede(Letters(s), Letters(t))
  BY <1>8, <1>9, <1>16 DEF Precede
<1>18. ASSUME NEW i \in 1..n, NEW l \in O[i]
       PROVE  (\E j \in 1..k : l \in B[j]) \/ (\E j \in m..n : l \in A[j])
  <2>1. k \in 1..k /\ m \in m..n
    BY <1>2
  <2>2. CASE i \in 1..(k - 1)
    <3>1. i \in 1..k /\ l \in B[i]
      BY <1>2, <1>3, <2>2
    <3> QED BY <3>1
  <2>3. CASE i \in (m + 1)..n
    <3>1. i \in m..n /\ l \in A[i]
      BY <1>2, <1>3, <2>3
    <3> QED BY <3>1
  <2>4. CASE i = k \/ i = m
    <3>1. l \in B[k] \/ l \in A[m]
      BY <1>5, <2>4
    <3> QED BY <2>1, <3>1
  <2>5. i \in 1..(k - 1) \/ i \in (m + 1)..n \/ i = k \/ i = m
    BY <1>2
  <2> QED BY <2>2, <2>3, <2>4, <2>5
<1>19. ASSUME NEW l \in Letters(r) PROVE l \in Letters(s) \cup Letters(t)
  BY <1>8, <1>9, <1>18
<1>20. ASSUME NEW l \in Letters(s) \cup Letters(t) PROVE l \in Letters(r)
  <2>1. CASE l \in Letters(s)
    BY <1>8, <1>12, <2>1
  <2>2. CASE l \in Letters(t)
    BY <1>8, <1>9, <1>13, <2>2
  <2> QED BY <2>1, <2>2
<1> QED BY <1>14, <1>15, <1>17, <1>19, <1>20 DEF s, t

\* The two sides of a cut have the letters of the sentence, in their order: a
\* word goes to one side, or is divided behind a letter of it.
LEMMA CutLetters ==
    ASSUME NEW ws \in Seq(Word), NEW n \in Nat \ {0}, ws # <<>>, EndOf(ws)[Len(ws)] > n, InOrder(ws),
           NEW r, r.words = ws
    PROVE  /\ InOrder(Before(ws, n)) /\ InOrder(After(ws, n))
           /\ Precede(Letters(Words(Before(ws, n))), Letters(Words(After(ws, n))))
           /\ Letters(Words(Before(ws, n))) \cup Letters(Words(After(ws, n))) = Letters(r)
<1> DEFINE us == Before(ws, n)
           vs == After(ws, n)
<1>1. PICK k \in 1..Len(ws) :
          /\ k = WordAt(ws, n)
          /\ \A i \in 1..(k - 1) : us[i] = ws[i]
          /\ n - StartOf(ws, k) <= 0 => k > 1 /\ Len(us) = k - 1
          /\ ~(n - StartOf(ws, k) <= 0) =>
                /\ Len(us) = k
                /\ us[k] = [ws[k] EXCEPT !.len = n - StartOf(ws, k), !.stop = FALSE]
  BY BeforeFits
<1>2. PICK m \in 1..Len(ws) :
          /\ m = WordAt(ws, n) /\ Len(vs) = Len(ws) - m + 1
          /\ \A i \in (m + 1)..Len(ws) : vs[i - m + 1] = ws[i]
          /\ vs[1] = IF n - StartOf(ws, m) <= 0 THEN ws[m]
                     ELSE [ws[m] EXCEPT !.from = @ + (n - StartOf(ws, m)),
                                        !.len = @ - (n - StartOf(ws, m))]
  BY AfterRemains
<1>3. us \in Seq(Word) /\ vs \in Seq(Word)
  BY BeforeFits, AfterRemains
<1>4. m = k /\ EndOf(ws)[k] > n
  BY <1>1, <1>2, WordFound
<1>5. ASSUME NEW i, NEW j, Divided(ws, us, vs, i, j)
      PROVE  /\ InOrder(us) /\ InOrder(vs)
             /\ Precede(Letters(Words(us)), Letters(Words(vs)))
             /\ Letters(Words(us)) \cup Letters(Words(vs)) = Letters(r)
  <2> HIDE DEF us, vs
  <2> QED BY <1>3, <1>5, Division
<1> HIDE DEF us, vs
<1>6. /\ EndOf(ws)[k] = StartOf(ws, k) + ws[k].len /\ StartOf(ws, k) \in Nat
      /\ ws[k] \in Word /\ ws[k].len \in Nat /\ ws[k].len > 0 /\ Len(ws) \in Nat
  BY <1>1, EndsGrow, LenProperties
<1> DEFINE g == n - StartOf(ws, k)
           h == k - 1
<1>7. g \in Int /\ g < ws[k].len
  BY <1>4, <1>6
<1>8. /\ \A i \in 1..h : us[i] = ws[i]
      /\ g <= 0 => k > 1 /\ Len(us) = h
      /\ ~(g <= 0) => Len(us) = k /\ us[k] = [ws[k] EXCEPT !.len = g, !.stop = FALSE]
  BY <1>1
<1>9. /\ Len(vs) = Len(ws) - k + 1
      /\ \A i \in (k + 1)..Len(ws) : vs[i - k + 1] = ws[i]
      /\ g <= 0 => vs[1] = ws[k]
      /\ ~(g <= 0) => vs[1] = [ws[k] EXCEPT !.from = @ + g, !.len = @ - g]
  BY <1>2, <1>4
<1> HIDE DEF g
<1>10. CASE g <= 0
  <2>1. h \in 1..Len(ws) /\ k \in h..Len(ws) /\ k <= h + 1 /\ k # h /\ h \in 1..h
    BY <1>1, <1>6, <1>8, <1>10
  <2>2. \A i \in 1..(h - 1) : i \in 1..h
    BY <1>1, <1>6
  <2>3. \A i \in 1..(h - 1) : us[i] = ws[i]
    BY <1>8, <2>2
  <2>4. us[h] = ws[h] /\ vs[1] = ws[k] /\ Len(us) = h
    BY <1>8, <1>9, <1>10, <2>1
  <2> HIDE DEF h
  <2>5. Divided(ws, us, vs, h, k)
    BY <1>9, <2>1, <2>3, <2>4 DEF Divided
  <2> QED BY <1>5, <2>5 DEF us, vs
<1>11. CASE ~(g <= 0)
  <2>1. g \in 1..(ws[k].len - 1)
    BY <1>6, <1>7, <1>11
  <2>2. /\ us[k] = [ws[k] EXCEPT !.len = g, !.stop = FALSE]
        /\ vs[1] = [ws[k] EXCEPT !.from = @ + g, !.len = @ - g]
    BY <1>8, <1>9, <1>11
  <2>3. /\ us[k].at = ws[k].at /\ us[k].from = ws[k].from /\ us[k].len = g
        /\ vs[1].at = ws[k].at /\ vs[1].from = ws[k].from + g /\ vs[1].len = ws[k].len - g
    BY <1>6, <2>2 DEF Word
  <2>4. /\ LettersOf(us[k]) \cup LettersOf(vs[1]) = LettersOf(ws[k])
        /\ Precede(LettersOf(us[k]), LettersOf(vs[1]))
    BY <1>6, <2>1, <2>3, WordCut
  <2>5. k \in k..Len(ws) /\ k <= k + 1
    BY <1>1, <1>6
  <2>6. Divided(ws, us, vs, k, k)
    BY <1>1, <1>8, <1>9, <1>11, <2>4, <2>5 DEF Divided
  <2> QED BY <1>5, <2>6 DEF us, vs
<1> QED BY <1>10, <1>11

-----------------------------------------------------------------------------
(* The letters of chunks and their order *)

\* The letters of chunks, chunk by chunk.
LEMMA PieceLetters ==
    ASSUME NEW cs \in Seq(Piece)
    PROVE  /\ Len(cs) \in Nat /\ DOMAIN cs = 1..Len(cs)
           /\ \A l : l \in ChunkLetters(cs) <=> \E i \in 1..Len(cs) : l \in Letters(cs[i].text)
           /\ ChunkLetters(cs) \subseteq Letter
<1>1. Len(cs) \in Nat /\ DOMAIN cs = 1..Len(cs)
  BY LenProperties
<1>2. ChunkLetters(cs) = UNION {Letters(cs[i].text) : i \in 1..Len(cs)}
  BY <1>1 DEF ChunkLetters
<1>3. \A i \in 1..Len(cs) : Letters(cs[i].text) \subseteq Letter
  BY ElementOfSeq, ShortTexts, LetterTypes
<1> QED BY <1>1, <1>2, <1>3

\* A chunk more at the end.
LEMMA OrderedAppend ==
    ASSUME NEW cs \in Seq(Piece), NEW c \in Piece
    PROVE  /\ ChunkLetters(Append(cs, c)) = ChunkLetters(cs) \cup Letters(c.text)
           /\ Ordered(Append(cs, c)) <=>
                 /\ Ordered(cs) /\ InOrder(c.text.words)
                 /\ Precede(ChunkLetters(cs), Letters(c.text))
<1> DEFINE n == Len(cs)
           r == Append(cs, c)
<1>1. /\ n \in Nat /\ DOMAIN cs = 1..n
      /\ \A l : l \in ChunkLetters(cs) <=> \E i \in 1..n : l \in Letters(cs[i].text)
  BY PieceLetters
<1>2. r \in Seq(Piece) /\ Len(r) = n + 1 /\ (\A i \in 1..n : r[i] = cs[i]) /\ r[n + 1] = c
  BY AppendProperties
<1> HIDE DEF n, r
<1>3. /\ DOMAIN r = 1..(n + 1)
      /\ \A l : l \in ChunkLetters(r) <=> \E i \in 1..(n + 1) : l \in Letters(r[i].text)
  <2> DEFINE m == n + 1
  <2> HIDE DEF m
  <2>1. Len(r) = m
    BY <1>2 DEF m
  <2>2. DOMAIN r = 1..m /\ \A l : l \in ChunkLetters(r) <=> \E i \in 1..m : l \in Letters(r[i].text)
    BY <1>2, <2>1, PieceLetters
  <2> QED BY <2>2 DEF m
<1>4. /\ \A i \in 1..(n + 1) : i \in 1..n \/ i = n + 1
      /\ \A i \in 1..n : i \in 1..(n + 1) /\ i < n + 1 /\ ~(n + 1 < i)
      /\ n + 1 \in 1..(n + 1) /\ ~(n + 1 < n + 1)
  BY <1>1
<1>5. \A l : l \in ChunkLetters(r) <=> l \in ChunkLetters(cs) \cup Letters(c.text)
  BY <1>1, <1>2, <1>3, <1>4
<1>6. ASSUME Ordered(r)
      PROVE  Ordered(cs) /\ InOrder(c.text.words) /\ Precede(ChunkLetters(cs), Letters(c.text))
  <2>1. InOrder(c.text.words)
    BY <1>2, <1>3, <1>4, <1>6 DEF Ordered
  <2>2. Ordered(cs)
    BY <1>1, <1>2, <1>3, <1>4, <1>6 DEF Ordered
  <2>3. \A i \in 1..n : Precede(Letters(cs[i].text), Letters(c.text))
    BY <1>2, <1>3, <1>4, <1>6 DEF Ordered
  <2>4. Precede(ChunkLetters(cs), Letters(c.text))
    BY <1>1, <2>3 DEF Precede
  <2> QED BY <2>1, <2>2, <2>4
<1>7. ASSUME Ordered(cs), InOrder(c.text.words), Precede(ChunkLetters(cs), Letters(c.text))
      PROVE  Ordered(r)
  <2>1. ASSUME NEW i \in 1..(n + 1) PROVE InOrder(r[i].text.words)
    <3>1. CASE i \in 1..n
      BY <1>1, <1>2, <1>7, <3>1 DEF Ordered
    <3>2. CASE i = n + 1
      BY <1>2, <1>7, <3>2
    <3> QED BY <1>4, <3>1, <3>2
  <2>2. ASSUME NEW i \in 1..(n + 1), NEW j \in 1..(n + 1), i < j
        PROVE  Precede(Letters(r[i].text), Letters(r[j].text))
    <3>1. i \in 1..n
      BY <1>1, <2>2
    <3>2. CASE j \in 1..n
      BY <1>1, <1>2, <1>7, <2>2, <3>1, <3>2 DEF Ordered
    <3>3. CASE j = n + 1
      <4>1. r[i] = cs[i] /\ r[j] = c
        BY <1>2, <3>1, <3>3
      <4>2. Letters(cs[i].text) \subseteq ChunkLetters(cs)
        BY <1>1, <3>1
      <4> QED BY <1>7, <4>1, <4>2, PrecedeUnion
    <3> QED BY <1>4, <3>2, <3>3
  <2> QED BY <1>3, <2>1, <2>2 DEF Ordered
<1> QED BY <1>5, <1>6, <1>7 DEF r

\* The first chunk and the others.
LEMMA OrderedHead ==
    ASSUME NEW cs \in Seq(Piece), cs # <<>>
    PROVE  /\ ChunkLetters(cs) = Letters(Head(cs).text) \cup ChunkLetters(Tail(cs))
           /\ Ordered(cs) <=>
                 /\ InOrder(Head(cs).text.words) /\ Ordered(Tail(cs))
                 /\ Precede(Letters(Head(cs).text), ChunkLetters(Tail(cs)))
<1> DEFINE n == Len(cs)
           c == Head(cs)
           r == Tail(cs)
           m == n - 1
<1>1. /\ n \in Nat /\ DOMAIN cs = 1..n
      /\ \A l : l \in ChunkLetters(cs) <=> \E i \in 1..n : l \in Letters(cs[i].text)
  BY PieceLetters
<1>2. /\ c = cs[1] /\ c \in Piece
      /\ r \in Seq(Piece) /\ Len(r) = m
      /\ \A i \in 1..m : r[i] = cs[i + 1]
  BY HeadTailProperties
<1>3. n > 0
  BY EmptySeq, <1>1
<1> HIDE DEF c, r
<1>4. /\ DOMAIN r = 1..m
      /\ \A l : l \in ChunkLetters(r) <=> \E i \in 1..m : l \in Letters(r[i].text)
  <2> HIDE DEF m
  <2> QED BY <1>2, PieceLetters
<1>5. /\ m \in Nat
      /\ \A i \in 1..n : i = 1 \/ \E j \in 1..m : i = j + 1
      /\ \A j \in 1..m : j + 1 \in 1..n /\ 1 < j + 1
      /\ \A i, j \in 1..m : i + 1 < j + 1 <=> i < j
      /\ 1 \in 1..n
  <2>1. m \in Nat /\ 1 \in 1..n /\ \A j \in 1..m : j + 1 \in 1..n /\ 1 < j + 1
    BY <1>1, <1>3
  <2>2. ASSUME NEW i \in 1..n, i # 1 PROVE \E j \in 1..m : i = j + 1
    <3>1. i - 1 \in 1..m /\ i = (i - 1) + 1
      BY <1>1, <1>3, <2>2
    <3> QED BY <3>1
  <2>3. \A i, j \in 1..m : i + 1 < j + 1 <=> i < j
    BY <2>1
  <2> QED BY <2>1, <2>2, <2>3
<1> HIDE DEF n, m
<1>6. \A l : l \in ChunkLetters(cs) <=> l \in Letters(c.text) \cup ChunkLetters(r)
  <2>1. ASSUME NEW l \in ChunkLetters(cs) PROVE l \in Letters(c.text) \cup ChunkLetters(r)
    <3>1. PICK i \in 1..n : l \in Letters(cs[i].text)
      BY <1>1
    <3>2. CASE i = 1
      BY <1>2, <3>1, <3>2
    <3>3. CASE i # 1
      <4>1. PICK j \in 1..m : i = j + 1
        BY <1>5, <3>3
      <4>2. l \in Letters(r[j].text)
        BY <1>2, <3>1, <4>1
      <4> QED BY <1>4, <4>2
    <3> QED BY <3>2, <3>3
  <2>2. ASSUME NEW l \in Letters(c.text) PROVE l \in ChunkLetters(cs)
    BY <1>1, <1>2, <1>5, <2>2
  <2>3. ASSUME NEW l \in ChunkLetters(r) PROVE l \in ChunkLetters(cs)
    <3>1. PICK j \in 1..m : l \in Letters(r[j].text)
      BY <1>4
    <3>2. j + 1 \in 1..n /\ l \in Letters(cs[j + 1].text)
      BY <1>2, <1>5, <3>1
    <3> QED BY <1>1, <3>2
  <2> QED BY <2>1, <2>2, <2>3
<1>7. ASSUME Ordered(cs)
      PROVE  InOrder(c.text.words) /\ Ordered(r) /\ Precede(Letters(c.text), ChunkLetters(r))
  <2>1. InOrder(c.text.words)
    BY <1>1, <1>2, <1>5, <1>7 DEF Ordered
  <2>2. ASSUME NEW i \in 1..m PROVE InOrder(r[i].text.words)
    BY <1>1, <1>2, <1>5, <1>7 DEF Ordered
  <2>3. ASSUME NEW i \in 1..m, NEW j \in 1..m, i < j
        PROVE  Precede(Letters(r[i].text), Letters(r[j].text))
    <3>1. i + 1 \in 1..n /\ j + 1 \in 1..n /\ i + 1 < j + 1
      BY <1>5, <2>3
    <3>2. Precede(Letters(cs[i + 1].text), Letters(cs[j + 1].text))
      BY <1>1, <1>7, <3>1 DEF Ordered
    <3> QED BY <1>2, <3>2
  <2>4. \A i \in 1..m : Precede(Letters(c.text), Letters(r[i].text))
    BY <1>1, <1>2, <1>5, <1>7 DEF Ordered
  <2>5. Precede(Letters(c.text), ChunkLetters(r))
    BY <1>4, <2>4 DEF Precede
  <2> QED BY <1>4, <2>1, <2>2, <2>3, <2>5 DEF Ordered
<1>8. ASSUME InOrder(c.text.words), Ordered(r), Precede(Letters(c.text), ChunkLetters(r))
      PROVE  Ordered(cs)
  <2>1. ASSUME NEW i \in 1..n PROVE InOrder(cs[i].text.words)
    <3>1. CASE i = 1
      BY <1>2, <1>8, <3>1
    <3>2. CASE \E j \in 1..m : i = j + 1
      BY <1>2, <1>4, <1>8, <3>2 DEF Ordered
    <3> QED BY <1>5, <3>1, <3>2
  <2>2. ASSUME NEW i \in 1..n, NEW j \in 1..n, i < j
        PROVE  Precede(Letters(cs[i].text), Letters(cs[j].text))
    <3>1. j # 1
      BY <2>2, <1>1
    <3>2. PICK h \in 1..m : j = h + 1
      BY <1>5, <3>1
    <3>3. cs[j] = r[h]
      BY <1>2, <3>2
    <3>4. CASE i = 1
      <4>1. Letters(r[h].text) \subseteq ChunkLetters(r)
        BY <1>4, <3>2
      <4>2. Precede(Letters(c.text), Letters(r[h].text))
        BY <1>8, <4>1, PrecedeUnion
      <4>3. cs[i] = c
        BY <1>2, <3>4
      <4> QED BY <3>3, <4>2, <4>3, Zenon
    <3>5. CASE i # 1
      <4>1. PICK g \in 1..m : i = g + 1
        BY <1>5, <3>5
      <4>2. g < h
        BY <1>5, <2>2, <3>2, <4>1
      <4>3. Precede(Letters(r[g].text), Letters(r[h].text))
        BY <1>4, <1>8, <4>2 DEF Ordered
      <4> QED BY <1>2, <3>3, <4>1, <4>3
    <3> QED BY <3>4, <3>5
  <2> QED BY <1>1, <2>1, <2>2 DEF Ordered
<1> QED BY <1>6, <1>7, <1>8 DEF c, r

\* The first chunk is exchanged.
LEMMA OtherHead ==
    ASSUME NEW cs \in Seq(Piece), cs # <<>>, NEW c \in Piece
    PROVE  /\ [cs EXCEPT ![1] = c] \in Seq(Piece) /\ [cs EXCEPT ![1] = c] # <<>>
           /\ Head([cs EXCEPT ![1] = c]) = c
           /\ Tail([cs EXCEPT ![1] = c]) = Tail(cs)
<1> DEFINE r == [cs EXCEPT ![1] = c]
           n == Len(cs)
<1>1. n \in Nat /\ n > 0 /\ 1 \in 1..n /\ DOMAIN cs = 1..n
  BY LenProperties, EmptySeq
<1>2. r \in Seq(Piece) /\ Len(r) = n
  BY <1>1, ExceptSeq
<1>3. r[1] = c /\ \A i \in 2..n : r[i] = cs[i]
  BY <1>1
<1> HIDE DEF r, n
<1>4. r # <<>>
  BY <1>1, <1>2, EmptySeq
<1>5. /\ Head(r) = r[1] /\ Tail(r) \in Seq(Piece) /\ Len(Tail(r)) = n - 1
      /\ \A i \in 1..(n - 1) : Tail(r)[i] = r[i + 1]
  BY <1>2, <1>4, HeadTailProperties
<1>6. /\ Tail(cs) \in Seq(Piece) /\ Len(Tail(cs)) = n - 1
      /\ \A i \in 1..(n - 1) : Tail(cs)[i] = cs[i + 1]
  BY HeadTailProperties DEF n
<1>7. \A i \in 1..(n - 1) : i + 1 \in 2..n
  BY <1>1
<1>8. \A i \in 1..Len(Tail(r)) : Tail(r)[i] = Tail(cs)[i]
  BY <1>3, <1>5, <1>6, <1>7
<1>9. Tail(r) = Tail(cs)
  <2> DEFINE u == Tail(r)
             v == Tail(cs)
  <2>1. u \in Seq(Piece) /\ v \in Seq(Piece) /\ Len(u) = Len(v) /\ \A i \in 1..Len(u) : u[i] = v[i]
    BY <1>5, <1>6, <1>8
  <2> HIDE DEF u, v
  <2>2. u = v
    BY <2>1, SeqEqual
  <2> QED BY <2>2 DEF u, v
<1> QED BY <1>2, <1>3, <1>4, <1>5, <1>9 DEF r

-----------------------------------------------------------------------------
(* What the chunker keeps of a document *)

\* The letters of the chunks so far are in order, those of the current one last.
Sound(a) ==
    /\ Ordered(a.out) /\ InOrder(a.cur.words)
    /\ Precede(ChunkLetters(a.out), Letters(a.cur))

Held(a) == ChunkLetters(a.out) \cup Letters(a.cur)

\* At every turn the chunks hold the letters of what was seen of the document:
\* of its paragraphs and sentences first, of all but the dropped chunks later.
LettersInv ==
    /\ stage \in {"split", "sentences"} => Sound(acc) /\ result = <<>> /\ dropped = {}
    /\ stage = "split" => Held(acc) = DoneLetters(doc, Consumed)
    /\ stage = "sentences" => Held(acc) = DoneLetters(doc, Consumed) \cup PartLetters(Parts, Behind)
    /\ stage \in {"enforce", "cut"} =>
          /\ Ordered(result) /\ Ordered(queue)
          /\ Precede(ChunkLetters(result), ChunkLetters(queue))
          /\ ChunkLetters(result) \cup ChunkLetters(queue) = Contents(doc) \ dropped
    /\ KeptUnlessShort

\* Nothing has no letters, and is in order.
LEMMA NoLetters ==
    /\ ChunkLetters(<<>>) = {} /\ Ordered(<<>>)
    /\ Letters(Empty) = {} /\ InOrder(Empty.words)
<1>1. DOMAIN <<>> = {} /\ ToSet(<<>>) = {}
  BY DEF ToSet
<1>2. Empty.words = <<>>
  BY DEF Empty
<1>3. ChunkLetters(<<>>) = {} /\ Ordered(<<>>)
  BY <1>1 DEF ChunkLetters, Ordered
<1> QED BY <1>1, <1>2, <1>3 DEF Letters, InOrder

\* Closing the current chunk changes no letters.
LEMMA EmitLetters ==
    ASSUME NEW a \in Acc, Sound(a)
    PROVE  Sound(Emit(a)) /\ Held(Emit(a)) = Held(a)
<1>1. a.out \in Seq(Piece) /\ a.cur \in Manageable
  BY ChunkSeq DEF Acc
<1>2. CASE a.cur = Empty
  <2>1. Emit(a) = a
    BY <1>2 DEF Emit
  <2> QED BY <2>1
<1>3. CASE a.cur # Empty
  <2>1. PICK c \in Chunk : c.text = a.cur /\ Emit(a).out = Append(a.out, c)
    BY <1>3, Emits
  <2>2. c \in Piece /\ Emit(a).cur = Empty
    BY Emits, ManageableTexts
  <2>3. /\ ChunkLetters(Emit(a).out) = ChunkLetters(a.out) \cup Letters(a.cur)
        /\ Ordered(Emit(a).out)
    BY <1>1, <2>1, <2>2, OrderedAppend DEF Sound
  <2> QED BY <2>2, <2>3, NoLetters, PrecedeUnion DEF Sound, Held
<1> QED BY <1>2, <1>3

\* A text that comes later joins the current chunk.
LEMMA AddLetters ==
    ASSUME NEW a \in Acc, Sound(a), NEW t \in Text, InOrder(t.words), Precede(Held(a), Letters(t)),
           NEW gap \in Nat, NEW b, b.out = a.out, b.cur = Joined(a.cur, gap, t)
    PROVE  Sound(b) /\ Held(b) = Held(a) \cup Letters(t)
<1>1. a.cur \in Text
  BY ManageableTexts DEF Acc
<1>2. Precede(ChunkLetters(a.out), Letters(t)) /\ Precede(Letters(a.cur), Letters(t))
  BY PrecedeUnion DEF Held
<1>3. Letters(b.cur) = Letters(a.cur) \cup Letters(t) /\ InOrder(b.cur.words)
  BY <1>1, <1>2, JoinedLetters DEF Sound
<1>4. Precede(ChunkLetters(a.out), Letters(a.cur) \cup Letters(t))
  BY <1>2, PrecedeUnion DEF Sound
<1> QED BY <1>3, <1>4 DEF Sound, Held

\* The paragraph at hand.
LEMMA AtParagraph ==
    ASSUME ChunkInv, Upcoming, todo # <<>>
    PROVE  /\ doc \in Documents /\ Consumed \in Nat /\ Consumed + 1 \in 1..Len(doc)
           /\ Parts = Sentences(doc, Consumed + 1) /\ Parts \in Seq(Sentence) /\ Len(Parts) \in Nat
           /\ \A k \in 0..Len(Parts) : Precede(DoneLetters(doc, Consumed), PartLetters(Parts, k))
           /\ DoneLetters(doc, Consumed + 1)
                = DoneLetters(doc, Consumed) \cup PartLetters(Parts, Len(Parts))
<1>1. doc \in Documents
  BY DEF ChunkInv
<1>2. /\ Consumed \in 0..Len(doc) /\ Len(doc) \in Nat /\ Consumed + 1 \in 1..Len(doc)
      /\ Parts \in Seq(Sentence) /\ Len(Parts) \in Nat
  BY Lengths
<1>3. Parts = Sentences(doc, Consumed + 1)
  BY DEF Parts
<1>4. Consumed \in Nat /\ Consumed + 1 - 1 = Consumed
  BY <1>2
<1>5. ASSUME NEW k \in 0..Len(Parts)
      PROVE  Precede(DoneLetters(doc, Consumed), PartLetters(Parts, k))
  <2> DEFINE p == Consumed + 1
  <2>1. p \in 1..Len(doc) /\ p - 1 = Consumed /\ Parts = Sentences(doc, p)
    BY <1>2, <1>3, <1>4
  <2> HIDE DEF p
  <2>2. Precede(DoneLetters(doc, p - 1), PartLetters(Sentences(doc, p), k))
    BY <1>1, <1>5, <2>1, PartsPrecede
  <2> QED BY <2>1, <2>2
<1>6. DoneLetters(doc, Consumed + 1)
        = DoneLetters(doc, Consumed) \cup PartLetters(Parts, Len(Parts))
  BY <1>3, <1>4, LettersGrow
<1> QED BY <1>1, <1>2, <1>3, <1>4, <1>5, <1>6

\* A paragraph that fits joins the current chunk.
LEMMA FitLetters ==
    ASSUME ChunkInv, Upcoming, LettersInv, FitParagraph
    PROVE  LettersInv'
<1> DEFINE t == Paragraph(Parts)
<1>1. /\ stage = "split" /\ todo # <<>> /\ stage' = "split" /\ doc' = doc
      /\ todo' = Tail(todo) /\ UNCHANGED <<result, dropped>>
      /\ acc' = [acc EXCEPT !.cur = Joined(acc.cur, 2, Paragraph(Head(todo)))]
  BY DEF FitParagraph, WithParagraph
<1>2. Consumed' = Consumed + 1
  BY <1>1, NextParagraph
<1>3. Head(todo) = Parts
  <2>1. Len(todo) > 0 /\ Len(todo) \in Nat /\ Head(todo) = todo[1]
    BY <1>1, Lengths
  <2> QED BY <1>1, <2>1 DEF Upcoming, Parts
<1>4. t \in Text
  BY <1>1, <1>3, FirstParagraph
<1>5. Letters(t) = PartLetters(Parts, Len(Parts)) /\ InOrder(t.words)
  <2> DEFINE p == Consumed + 1
  <2>1. doc \in Documents /\ p \in 1..Len(doc) /\ Parts = Sentences(doc, p)
    BY <1>1, AtParagraph
  <2> HIDE DEF p
  <2> QED BY <2>1, ParagraphLetters
<1>6. /\ Precede(Held(acc), Letters(t))
      /\ Held(acc) \cup Letters(t) = DoneLetters(doc, Consumed + 1)
  <2>1. Len(Parts) \in 0..Len(Parts)
    BY <1>1, AtParagraph
  <2> QED BY <1>1, <1>5, <2>1, AtParagraph DEF LettersInv
<1>7. acc \in Acc /\ Sound(acc)
  BY <1>1 DEF ChunkInv, LettersInv
<1>8. acc'.out = acc.out /\ acc'.cur = Joined(acc.cur, 2, t)
  BY <1>1, <1>3, <1>7 DEF Acc
<1> HIDE DEF t
<1>9. Sound(acc') /\ Held(acc') = Held(acc) \cup Letters(t)
  <2> DEFINE gap == 2
  <2>1. gap \in Nat /\ acc'.cur = Joined(acc.cur, gap, t)
    BY <1>8
  <2> HIDE DEF gap
  <2> QED BY <1>4, <1>5, <1>6, <1>7, <1>8, <2>1, AddLetters
<1>10. Held(acc') = DoneLetters(doc', Consumed')
  BY <1>1, <1>2, <1>6, <1>9
<1> QED BY <1>1, <1>9, <1>10 DEF LettersInv, KeptUnlessShort, Sound, Held

\* A paragraph that does not fit closes the current chunk.
LEMMA BreakLetters ==
    ASSUME ChunkInv, Upcoming, LettersInv, BreakParagraph
    PROVE  LettersInv'
<1>1. /\ stage = "split" /\ todo # <<>> /\ stage' = "sentences" /\ UNCHANGED <<doc, todo, result, dropped>>
      /\ acc' = Emit(acc)
  BY DEF BreakParagraph
<1>2. Consumed' = Consumed /\ Parts' = Parts /\ Behind' = 0
  BY <1>1, ParagraphBroken
<1>3. acc \in Acc /\ Sound(acc) /\ Held(acc) = DoneLetters(doc, Consumed)
  BY <1>1 DEF ChunkInv, LettersInv
<1>4. Sound(acc') /\ Held(acc') = DoneLetters(doc, Consumed)
  BY <1>1, <1>3, EmitLetters
<1>5. PartLetters(Parts, 0) = {}
  BY LettersGrow
<1>6. Held(acc') = DoneLetters(doc', Consumed') \cup PartLetters(Parts', Behind')
  BY <1>1, <1>2, <1>4, <1>5
<1> QED BY <1>1, <1>3, <1>4, <1>6 DEF LettersInv, KeptUnlessShort, Sound, Held

\* A sentence joins the current chunk or begins a new one.
LEMMA SentenceLettersAdded ==
    ASSUME ChunkInv, Upcoming, LettersInv, AddSentence
    PROVE  LettersInv'
<1> DEFINE t == Head(Head(todo))
           k == Behind
<1>1. /\ stage = "sentences" /\ Head(todo) # <<>> /\ stage' = stage /\ doc' = doc
      /\ UNCHANGED <<result, dropped>>
      /\ acc' = IF Joined(acc.cur, 1, t).len <= ChunkSize
                THEN [acc EXCEPT !.cur = Joined(acc.cur, 1, t)]
                ELSE [Emit(acc) EXCEPT !.cur = t]
      /\ todo' = [todo EXCEPT ![1] = Tail(todo[1])]
  BY DEF AddSentence
<1>2. todo # <<>>
  BY <1>1 DEF ChunkInv
<1>3. /\ Consumed' = Consumed /\ Parts' = Parts /\ Behind' = k + 1
      /\ k + 1 \in 1..Len(Parts) /\ t = Parts[k + 1]
  BY <1>1, NextSentence
<1>4. k \in 0..Len(Parts) /\ k \in Nat
  <2>1. Len(todo[1]) \in Nat /\ Len(Parts) \in Nat
    BY <1>2, Lengths
  <2>2. k \in Int
    BY <2>1 DEF Behind
  <2> HIDE DEF k
  <2> QED BY <1>3, <2>1, <2>2
<1> HIDE DEF t, k
<1>5. /\ t \in Text /\ InOrder(t.words)
      /\ Precede(PartLetters(Parts, k), Letters(t))
      /\ Precede(DoneLetters(doc, Consumed), Letters(t))
      /\ PartLetters(Parts, k + 1) = PartLetters(Parts, k) \cup Letters(t)
  <2> DEFINE p == Consumed + 1
             s == k + 1
  <2>1. doc \in Documents /\ p \in 1..Len(doc) /\ Parts = Sentences(doc, p)
    BY <1>2, AtParagraph
  <2>2. s \in 1..Len(Parts) /\ t = Parts[s] /\ s \in 0..Len(Parts)
    BY <1>3, <1>4
  <2>3. k + 1 <= Len(Parts)
    BY <1>3
  <2> HIDE DEF p
  <2>4. Precede(PartLetters(Parts, k), Letters(Parts[k + 1]))
    BY <1>4, <2>1, <2>3, PartsPrecede
  <2>5. PartLetters(Parts, k + 1) = PartLetters(Parts, k) \cup Letters(Parts[k + 1])
    BY <1>4, LettersGrow
  <2>6. Precede(DoneLetters(doc, Consumed), PartLetters(Parts, k + 1))
    BY <1>2, <2>2, AtParagraph
  <2> HIDE DEF s
  <2>7. t \in Text /\ InOrder(t.words)
    BY <2>1, <2>2, SentenceLetters
  <2>8. t = Parts[k + 1]
    BY <1>3
  <2>9. Precede(DoneLetters(doc, Consumed), PartLetters(Parts, k) \cup Letters(t))
    BY <2>5, <2>6, <2>8, Zenon
  <2>10. Precede(DoneLetters(doc, Consumed), Letters(t))
    BY <2>9, PrecedeUnion
  <2> QED BY <2>4, <2>5, <2>7, <2>8, <2>10
<1>6. acc \in Acc /\ Sound(acc) /\ Held(acc) = DoneLetters(doc, Consumed) \cup PartLetters(Parts, k)
  BY <1>1 DEF ChunkInv, LettersInv, k
<1>7. Precede(Held(acc), Letters(t))
  BY <1>5, <1>6, PrecedeUnion
<1>8. Sound(acc') /\ Held(acc') = Held(acc) \cup Letters(t)
  <2> DEFINE gap == 1
  <2>1. gap \in Nat
    OBVIOUS
  <2>2. CASE Joined(acc.cur, gap, t).len <= ChunkSize
    <3>1. acc'.out = acc.out /\ acc'.cur = Joined(acc.cur, gap, t)
      BY <1>1, <1>6, <2>2 DEF Acc
    <3> HIDE DEF gap
    <3> QED BY <1>5, <1>6, <1>7, <2>1, <3>1, AddLetters
  <2>3. CASE ~(Joined(acc.cur, gap, t).len <= ChunkSize)
    <3>1. Emit(acc) \in Acc /\ Emit(acc).cur = Empty
      BY <1>6, Emits
    <3>2. Sound(Emit(acc)) /\ Held(Emit(acc)) = Held(acc)
      BY <1>6, EmitLetters
    <3>3. acc' = [Emit(acc) EXCEPT !.cur = t]
      BY <1>1, <2>3
    <3>4. acc'.out = Emit(acc).out /\ acc'.cur = t
      BY <3>1, <3>3 DEF Acc
    <3>5. acc'.cur = Joined(Emit(acc).cur, gap, t)
      BY <3>1, <3>4 DEF Joined
    <3> HIDE DEF gap
    <3> QED BY <1>5, <1>7, <2>1, <3>1, <3>2, <3>4, <3>5, AddLetters
  <2> QED BY <2>2, <2>3
<1>9. Held(acc') = DoneLetters(doc', Consumed') \cup PartLetters(Parts', Behind')
  BY <1>1, <1>3, <1>5, <1>6, <1>8
<1> QED BY <1>1, <1>6, <1>8, <1>9 DEF LettersInv, KeptUnlessShort, Sound, Held

\* All sentences of the paragraph were seen.
LEMMA ParagraphLettersDone ==
    ASSUME ChunkInv, Upcoming, LettersInv, EndOfParagraph
    PROVE  LettersInv'
<1>1. /\ stage = "sentences" /\ Head(todo) = <<>> /\ stage' = "split" /\ doc' = doc
      /\ todo' = Tail(todo) /\ UNCHANGED <<acc, result, dropped>> /\ todo # <<>>
  BY DEF EndOfParagraph, ChunkInv
<1>2. Consumed' = Consumed + 1
  BY <1>1, NextParagraph
<1>3. Behind = Len(Parts)
  <2>1. Head(todo) = todo[1] /\ Len(Parts) \in Nat
    BY <1>1, Lengths
  <2>2. Len(todo[1]) = 0
    BY <1>1, <2>1
  <2> QED BY <2>1, <2>2 DEF Behind
<1>4. Held(acc) = DoneLetters(doc, Consumed + 1)
  BY <1>1, <1>3, AtParagraph DEF LettersInv
<1> QED BY <1>1, <1>2, <1>4 DEF LettersInv, KeptUnlessShort, Sound, Held

\* All paragraphs were seen: the closed chunks hold the document.
LEMMA TextLettersDone ==
    ASSUME ChunkInv, Upcoming, LettersInv, EndOfText
    PROVE  LettersInv'
<1>1. /\ stage = "split" /\ todo = <<>> /\ stage' = "enforce" /\ UNCHANGED <<doc, result, dropped>>
      /\ queue' = Emit(acc).out
  BY DEF EndOfText
<1>2. acc \in Acc /\ Sound(acc) /\ Held(acc) = DoneLetters(doc, Consumed) /\ result = <<>> /\ dropped = {}
  BY <1>1 DEF ChunkInv, LettersInv
<1>3. Sound(Emit(acc)) /\ Held(Emit(acc)) = DoneLetters(doc, Consumed) /\ Emit(acc).cur = Empty
  BY <1>2, EmitLetters, Emits
<1>4. Ordered(queue') /\ ChunkLetters(queue') = DoneLetters(doc, Consumed)
  BY <1>1, <1>3, NoLetters DEF Sound, Held
<1>5. DoneLetters(doc, Consumed) = Contents(doc)
  <2>1. Consumed = Len(doc) /\ doc \in Documents
    BY <1>1, Lengths DEF ChunkInv
  <2> QED BY <2>1, AllDone
<1>6. /\ Ordered(result') /\ Precede(ChunkLetters(result'), ChunkLetters(queue'))
      /\ ChunkLetters(result') = {} /\ dropped' = {}
  BY <1>1, <1>2, NoLetters, PrecedeUnion
<1>7. ChunkLetters(result') \cup ChunkLetters(queue') = Contents(doc') \ dropped'
  BY <1>1, <1>4, <1>5, <1>6
<1> QED BY <1>1, <1>4, <1>6, <1>7 DEF LettersInv, KeptUnlessShort, Ordered, ChunkLetters

\* While the sizes are enforced: what the queue begins with, and the others.
LEMMA AtQueue ==
    ASSUME ChunkInv, LettersInv, stage \in {"enforce", "cut"}, queue # <<>>
    PROVE  /\ result \in Seq(Piece) /\ queue \in Seq(Piece) /\ Tail(queue) \in Seq(Piece)
           /\ Head(queue) \in Piece /\ Head(queue).text \in Text
           /\ InOrder(Head(queue).text.words) /\ Ordered(Tail(queue)) /\ Ordered(result)
           /\ Precede(ChunkLetters(result), Letters(Head(queue).text))
           /\ Precede(ChunkLetters(result), ChunkLetters(Tail(queue)))
           /\ Precede(Letters(Head(queue).text), ChunkLetters(Tail(queue)))
           /\ ChunkLetters(result) \cup Letters(Head(queue).text) \cup ChunkLetters(Tail(queue))
                = Contents(doc) \ dropped
<1>1. queue \in Seq(Piece) /\ result \in Seq(Bounded)
  BY DEF ChunkInv
<1>2. result \in Seq(Piece)
  <2>1. Len(result) \in Nat /\ result \in [1..Len(result) -> Bounded]
    BY <1>1, LenProperties
  <2>2. result \in [1..Len(result) -> Piece]
    BY <2>1, ShortTexts
  <2> QED BY <2>1, <2>2, FunctionSeq
<1>3. Head(queue) \in Piece /\ Tail(queue) \in Seq(Piece) /\ Head(queue).text \in Text
  BY FirstPiece
<1>4. /\ Ordered(result) /\ Ordered(queue)
      /\ Precede(ChunkLetters(result), ChunkLetters(queue))
      /\ ChunkLetters(result) \cup ChunkLetters(queue) = Contents(doc) \ dropped
  BY DEF LettersInv
<1>5. /\ ChunkLetters(queue) = Letters(Head(queue).text) \cup ChunkLetters(Tail(queue))
      /\ InOrder(Head(queue).text.words) /\ Ordered(Tail(queue))
      /\ Precede(Letters(Head(queue).text), ChunkLetters(Tail(queue)))
  BY <1>1, <1>4, OrderedHead
<1>6. /\ Precede(ChunkLetters(result), Letters(Head(queue).text))
      /\ Precede(ChunkLetters(result), ChunkLetters(Tail(queue)))
  BY <1>4, <1>5, PrecedeUnion
<1>7. ChunkLetters(result) \cup Letters(Head(queue).text) \cup ChunkLetters(Tail(queue))
        = Contents(doc) \ dropped
  BY <1>4, <1>5
<1> QED BY <1>1, <1>2, <1>3, <1>4, <1>5, <1>6, <1>7

\* The first chunk goes to the end of the result.
LEMMA MovedLetters ==
    ASSUME ChunkInv, LettersInv, stage \in {"enforce", "cut"}, queue # <<>>,
           result' = Append(result, Head(queue)), queue' = Tail(queue),
           UNCHANGED <<doc, dropped>>, stage' = "enforce"
    PROVE  LettersInv'
<1>1. /\ ChunkLetters(result') = ChunkLetters(result) \cup Letters(Head(queue).text)
      /\ Ordered(result')
  BY AtQueue, OrderedAppend
<1>2. Precede(ChunkLetters(result'), ChunkLetters(queue'))
  BY <1>1, AtQueue, PrecedeUnion
<1>3. Ordered(queue') /\ ChunkLetters(result') \cup ChunkLetters(queue') = Contents(doc') \ dropped'
  BY <1>1, AtQueue
<1> QED BY <1>1, <1>2, <1>3 DEF LettersInv, KeptUnlessShort, Ordered, ChunkLetters

\* It is added to the last one.
LEMMA MergedLetters ==
    ASSUME ChunkInv, LettersInv, Merge
    PROVE  LettersInv'
<1> DEFINE t == Head(queue).text
           n == Len(result)
           front == SubSeq(result, 1, n - 1)
           b == result[n]
<1>1. /\ stage = "enforce" /\ queue # <<>> /\ stage' = stage /\ UNCHANGED <<doc, dropped>>
      /\ queue' = Tail(queue)
  BY DEF Merge
<1>2. PICK longer \in Bounded :
          longer.text = Joined(b.text, 2, t) /\ result' = [result EXCEPT ![n] = longer]
  BY MergeStep
<1>3. result # <<>> /\ longer \in Piece /\ longer.text = Joined(b.text, 2, t)
  BY <1>2, MergeStep, ShortTexts
<1>4. /\ result \in Seq(Piece) /\ t \in Text /\ InOrder(t.words)
      /\ Precede(ChunkLetters(result), Letters(t)) /\ Ordered(result)
  BY <1>1, AtQueue
<1> HIDE DEF t
<1>5. n \in Nat /\ n > 0 /\ n \in 1..n /\ DOMAIN result = 1..n /\ b \in Piece /\ b.text \in Text
  BY <1>3, <1>4, EmptySeq, LenProperties, ElementOfSeq, ShortTexts
<1>6. /\ front \in Seq(Piece) /\ Len(front) = n - 1
      /\ \A i \in 1..(n - 1) : front[i] = result[i]
  <2> DEFINE m == n - 1
  <2>1. m \in Nat /\ \A i \in 1..m : result[i] \in Piece
    BY <1>4, <1>5, ElementOfSeq
  <2>2. 1..m = 1..(n - 1) /\ front = SubSeq(result, 1, m)
    OBVIOUS
  <2> HIDE DEF m, front
  <2>3. front \in Seq(Piece) /\ Len(front) = m /\ \A i \in 1..m : front[i] = result[i]
    BY <2>1, <2>2, SubSeqProperties
  <2> QED BY <2>3 DEF m
<1>7. ASSUME NEW r \in Seq(Piece), NEW x \in Piece, Len(r) = n, r[n] = x,
             \A i \in 1..(n - 1) : r[i] = result[i]
      PROVE  r = Append(front, x)
  <2> DEFINE u == Append(front, x)
  <2>1. /\ u \in Seq(Piece) /\ Len(u) = Len(front) + 1
        /\ \A i \in 1..Len(front) : u[i] = front[i]
        /\ u[Len(front) + 1] = x
    BY <1>6, AppendProperties
  <2> HIDE DEF u, front
  <2>2. Len(u) = n /\ u[n] = x /\ \A i \in 1..(n - 1) : u[i] = result[i]
    BY <1>5, <1>6, <2>1
  <2> HIDE DEF n
  <2>3. \A i \in 1..n : i \in 1..(n - 1) \/ i = n
    BY <1>5
  <2>4. \A i \in 1..Len(r) : r[i] = u[i]
    BY <1>7, <2>2, <2>3
  <2>5. r = u
    BY <1>7, <2>1, <2>2, <2>4, SeqEqual
  <2> QED BY <2>5 DEF u
<1> HIDE DEF front
<1>8. result = Append(front, b)
  BY <1>4, <1>5, <1>7
<1>9. result' = Append(front, longer)
  <2> DEFINE r == [result EXCEPT ![n] = longer]
  <2>1. r \in Seq(Piece) /\ Len(r) = n
    BY <1>3, <1>4, <1>5, ExceptSeq
  <2>2. r[n] = longer /\ \A i \in 1..(n - 1) : r[i] = result[i]
    <3> HIDE DEF b, n, r
    <3>1. n \in Nat
      BY <1>5
    <3>2. \A i \in 1..(n - 1) : i \in 1..n /\ i # n
      BY <3>1
    <3> QED BY <1>5, <3>2 DEF r
  <2> HIDE DEF r
  <2>3. r = Append(front, longer)
    BY <1>3, <1>7, <2>1, <2>2
  <2> QED BY <1>2, <2>3 DEF r
<1> HIDE DEF b, n
<1>10. /\ ChunkLetters(result) = ChunkLetters(front) \cup Letters(b.text)
       /\ Ordered(front) /\ InOrder(b.text.words)
       /\ Precede(ChunkLetters(front), Letters(b.text))
  <2> DEFINE r == Append(front, b)
  <2>1. /\ ChunkLetters(r) = ChunkLetters(front) \cup Letters(b.text)
        /\ Ordered(r) <=> /\ Ordered(front) /\ InOrder(b.text.words)
                          /\ Precede(ChunkLetters(front), Letters(b.text))
    BY <1>5, <1>6, OrderedAppend
  <2>2. result = r
    BY <1>8
  <2> HIDE DEF r
  <2> QED BY <1>4, <2>1, <2>2
<1>11. Precede(ChunkLetters(front), Letters(t)) /\ Precede(Letters(b.text), Letters(t))
  BY <1>4, <1>10, PrecedeUnion
<1>12. Letters(longer.text) = Letters(b.text) \cup Letters(t) /\ InOrder(longer.text.words)
  <2> DEFINE gap == 2
  <2>1. gap \in Nat /\ longer.text = Joined(b.text, gap, t)
    BY <1>3
  <2> HIDE DEF gap
  <2> QED BY <1>4, <1>5, <1>10, <1>11, <2>1, JoinedLetters
<1>13. Precede(ChunkLetters(front), Letters(longer.text))
  BY <1>10, <1>11, <1>12, PrecedeUnion
<1>14. /\ ChunkLetters(result') = ChunkLetters(front) \cup Letters(longer.text)
       /\ Ordered(result')
  <2> DEFINE r == Append(front, longer)
  <2>1. ChunkLetters(r) = ChunkLetters(front) \cup Letters(longer.text) /\ Ordered(r)
    BY <1>3, <1>6, <1>10, <1>12, <1>13, OrderedAppend
  <2>2. result' = r
    BY <1>9
  <2> HIDE DEF r
  <2> QED BY <2>1, <2>2
<1>15. ChunkLetters(result') = ChunkLetters(result) \cup Letters(t)
  BY <1>10, <1>12, <1>14
<1>16. Precede(ChunkLetters(result'), ChunkLetters(queue'))
  BY <1>1, <1>15, AtQueue, PrecedeUnion DEF t
<1>17. Ordered(queue') /\ ChunkLetters(result') \cup ChunkLetters(queue') = Contents(doc') \ dropped'
  BY <1>1, <1>15, AtQueue DEF t
<1> QED BY <1>1, <1>14, <1>16, <1>17 DEF LettersInv, KeptUnlessShort, Ordered, ChunkLetters

\* It is dropped: none of its letters is anywhere else.
LEMMA DroppedLetters ==
    ASSUME ChunkInv, LettersInv, Drop
    PROVE  LettersInv'
<1> DEFINE ls == Letters(Head(queue).text)
           kept == ChunkLetters(result)
           rest == ChunkLetters(Tail(queue))
<1>1. /\ stage = "enforce" /\ queue # <<>> /\ stage' = stage /\ UNCHANGED <<doc, result>>
      /\ queue' = Tail(queue) /\ dropped' = dropped \cup ls
  BY DEF Drop
<1>2. /\ Ordered(result) /\ Ordered(Tail(queue))
      /\ Precede(kept, ls) /\ Precede(kept, rest) /\ Precede(ls, rest)
      /\ kept \cup ls \cup rest = Contents(doc) \ dropped
      /\ result \in Seq(Piece) /\ Head(queue).text \in Text
  BY <1>1, AtQueue
<1>3. kept \subseteq Letter /\ ls \subseteq Letter
  BY <1>2, PieceLetters, LetterTypes
<1> HIDE DEF ls, kept, rest
<1>4. kept \cap ls = {} /\ ls \cap rest = {}
  BY <1>2, <1>3, Apart
<1>5. kept \cup rest = Contents(doc) \ dropped'
  BY <1>1, <1>2, <1>4
<1>6. Ordered(result') /\ Ordered(queue') /\ ChunkLetters(result') = kept /\ ChunkLetters(queue') = rest
  BY <1>1, <1>2 DEF kept, rest
<1>7. /\ Precede(ChunkLetters(result'), ChunkLetters(queue'))
      /\ ChunkLetters(result') \cup ChunkLetters(queue') = Contents(doc') \ dropped'
  BY <1>1, <1>2, <1>5, <1>6
<1> QED BY <1>1, <1>6, <1>7 DEF LettersInv, KeptUnlessShort, Ordered, ChunkLetters

\* It is cut in two, and the first part goes to the end of the result.
LEMMA CutOffLetters ==
    ASSUME ChunkInv, LettersInv, Cut
    PROVE  LettersInv'
<1> DEFINE t == Head(queue).text
           rest == ChunkLetters(Tail(queue))
           kept == ChunkLetters(result)
<1>1. /\ stage = "cut" /\ queue # <<>> /\ stage' = stage /\ UNCHANGED <<doc, dropped>>
  BY DEF Cut, ChunkInv
<1>2. PICK ws \in Seq(Word), n \in Nat \ {0}, p \in Bounded, q \in Chunk :
          /\ ws = t.words /\ ws # <<>> /\ EndOf(ws)[Len(ws)] > n
          /\ p.text = Words(Before(ws, n)) /\ result' = Append(result, p)
          /\ q.text = Words(After(ws, n)) /\ queue' = [queue EXCEPT ![1] = q]
  BY CutStep
<1>3. p \in Piece /\ q \in Piece
  BY ShortTexts, ManageableTexts
<1>4. /\ result \in Seq(Piece) /\ queue \in Seq(Piece)
      /\ Ordered(result) /\ Ordered(Tail(queue)) /\ InOrder(t.words)
      /\ Precede(kept, Letters(t)) /\ Precede(kept, rest) /\ Precede(Letters(t), rest)
      /\ kept \cup Letters(t) \cup rest = Contents(doc) \ dropped
  BY <1>1, AtQueue
<1>5. /\ InOrder(p.text.words) /\ InOrder(q.text.words)
      /\ Precede(Letters(p.text), Letters(q.text))
      /\ Letters(p.text) \cup Letters(q.text) = Letters(t)
  <2>1. p.text.words = Before(ws, n) /\ q.text.words = After(ws, n)
    BY <1>2 DEF Words
  <2>2. InOrder(ws) /\ t.words = ws
    BY <1>2, <1>4
  <2> HIDE DEF t
  <2>3. /\ InOrder(Before(ws, n)) /\ InOrder(After(ws, n))
        /\ Precede(Letters(Words(Before(ws, n))), Letters(Words(After(ws, n))))
        /\ Letters(Words(Before(ws, n))) \cup Letters(Words(After(ws, n))) = Letters(t)
    BY <1>2, <2>2, CutLetters
  <2> QED BY <1>2, <2>1, <2>3
<1>6. /\ ChunkLetters(queue') = Letters(q.text) \cup rest
      /\ Ordered(queue') <=> InOrder(q.text.words) /\ Ordered(Tail(queue)) /\ Precede(Letters(q.text), rest)
  <2> DEFINE r == [queue EXCEPT ![1] = q]
  <2>1. r \in Seq(Piece) /\ r # <<>> /\ Head(r) = q /\ Tail(r) = Tail(queue)
    BY <1>1, <1>3, <1>4, OtherHead
  <2>2. queue' = r
    BY <1>2
  <2> HIDE DEF r
  <2> QED BY <2>1, <2>2, OrderedHead
<1> HIDE DEF t, rest, kept
<1>7. /\ Precede(kept, Letters(p.text)) /\ Precede(kept, Letters(q.text))
      /\ Precede(Letters(p.text), rest) /\ Precede(Letters(q.text), rest)
  <2>1. /\ Precede(kept, Letters(p.text) \cup Letters(q.text))
        /\ Precede(Letters(p.text) \cup Letters(q.text), rest)
    BY <1>4, <1>5
  <2> QED BY <2>1, PrecedeUnion
<1>8. ChunkLetters(result') = kept \cup Letters(p.text) /\ Ordered(result')
  BY <1>2, <1>3, <1>4, <1>5, <1>7, OrderedAppend DEF kept
<1>9. Ordered(queue')
  BY <1>4, <1>5, <1>6, <1>7
<1>10. Precede(ChunkLetters(result'), ChunkLetters(queue'))
  <2>1. /\ Precede(kept, Letters(q.text) \cup rest)
        /\ Precede(Letters(p.text), Letters(q.text) \cup rest)
    BY <1>4, <1>5, <1>7, PrecedeUnion
  <2>2. Precede(kept \cup Letters(p.text), Letters(q.text) \cup rest)
    BY <2>1, PrecedeUnion
  <2> QED BY <1>6, <1>8, <2>2
<1>11. ChunkLetters(result') \cup ChunkLetters(queue') = Contents(doc') \ dropped'
  BY <1>1, <1>4, <1>5, <1>6, <1>8
<1> QED BY <1>1, <1>8, <1>9, <1>10, <1>11 DEF LettersInv, KeptUnlessShort, Ordered, ChunkLetters

\* LettersInv is inductive, given what the chunks are and what is to do.
LEMMA LettersStep ==
    ChunkInv /\ Upcoming /\ LettersInv /\ [CNext]_cvars => LettersInv'
<1> SUFFICES ASSUME ChunkInv, Upcoming, LettersInv, [CNext]_cvars PROVE LettersInv'
  OBVIOUS
<1>1. CASE UNCHANGED cvars
  <2>1. UNCHANGED <<doc, todo, acc, queue, result, dropped, stage>>
    BY <1>1 DEF cvars
  <2>2. Consumed' = Consumed /\ Parts' = Parts /\ Behind' = Behind
    BY <2>1 DEF Consumed, Parts, Behind
  <2> QED BY <2>1, <2>2 DEF LettersInv, KeptUnlessShort, Sound, Held, Ordered, ChunkLetters
<1>2. CASE Keep
  <2>1. stage = "enforce" /\ queue # <<>>
    BY <1>2 DEF Keep
  <2> QED BY <1>2, <2>1, MovedLetters DEF Keep
<1>3. CASE LastPiece
  <2>1. stage = "cut" /\ queue # <<>>
    BY <1>3 DEF LastPiece, ChunkInv
  <2> QED BY <1>3, <2>1, MovedLetters DEF LastPiece
<1>4. CASE SplitLarge
  <2>1. UNCHANGED <<doc, queue, result, dropped>> /\ stage = "enforce" /\ stage' = "cut"
    BY <1>4 DEF SplitLarge
  <2> QED BY <2>1 DEF LettersInv, KeptUnlessShort, Ordered, ChunkLetters
<1>5. CASE Finish
  <2>1. UNCHANGED <<doc, result, dropped>> /\ stage = "enforce" /\ stage' = "validate" /\ queue = <<>>
    BY <1>5 DEF Finish
  <2>2. Ordered(result) /\ ChunkLetters(result) = Contents(doc) \ dropped
    BY <2>1, NoLetters DEF LettersInv
  <2> QED BY <2>1, <2>2 DEF LettersInv, KeptUnlessShort, Ordered, ChunkLetters
<1>6. CASE Validate \/ Reset
  <2>1. UNCHANGED <<doc, result, dropped>> /\ stage = "validate" /\ stage' \in {"validate", "done"}
    BY <1>6 DEF Validate, Reset
  <2> QED BY <2>1 DEF LettersInv, KeptUnlessShort, Ordered, ChunkLetters
<1> QED BY <1>1, <1>2, <1>3, <1>4, <1>5, <1>6, FitLetters, BreakLetters, SentenceLettersAdded,
           ParagraphLettersDone, TextLettersDone, MergedLetters, DroppedLetters, CutOffLetters
        DEF CNext

LEMMA LettersInit == CInit => LettersInv
<1> SUFFICES ASSUME CInit PROVE LettersInv
  OBVIOUS
<1>1. /\ stage = "split" /\ acc.out = <<>> /\ acc.cur = Empty /\ result = <<>> /\ dropped = {}
      /\ todo = [p \in DOMAIN doc |-> Sentences(doc, p)]
  BY DEF CInit
<1>2. Upcoming /\ ChunkInv
  BY UpcomingInit, ChunkInit
<1>3. Consumed = 0
  <2>1. doc \in Seq(Seq(Seq(Item) \ {<<>>}) \ {<<>>}) /\ todo \in Seq(Seq(Sentence))
    BY <1>2, ChunkingAssumption DEF ChunkInv
  <2>2. Len(doc) \in Nat /\ Len(todo) \in Nat /\ DOMAIN todo = 1..Len(todo) /\ DOMAIN doc = 1..Len(doc)
    BY <2>1, LenProperties
  <2>3. DOMAIN todo = DOMAIN doc
    BY <1>1
  <2>4. Len(todo) = Len(doc)
    <3> DEFINE m == Len(todo)
               n == Len(doc)
    <3>1. m \in Nat /\ n \in Nat /\ 1..m = 1..n
      BY <2>2, <2>3
    <3> HIDE DEF m, n
    <3>2. m = n
      BY <3>1
    <3> QED BY <3>2 DEF m, n
  <2> QED BY <2>2, <2>4 DEF Consumed
<1>4. Sound(acc) /\ Held(acc) = {}
  BY <1>1, NoLetters, PrecedeUnion DEF Sound, Held
<1>5. DoneLetters(doc, 0) = {}
  BY LettersGrow
<1> QED BY <1>1, <1>3, <1>4, <1>5 DEF LettersInv, KeptUnlessShort

\* The chunks, before the first MaxChunks of them are returned, hold every letter
\* of the document once and in the document's order, except those of the short
\* chunks that fitted nowhere, whatever the document and wherever sentences and
\* words are cut (semantic_chunker.py:126-250).
THEOREM NothingElseLost == CSpec => []KeptUnlessShort
<1>1. LettersInv => KeptUnlessShort
  BY DEF LettersInv
<1> QED BY <1>1, ChunkInit, ChunkStep, UpcomingInit, UpcomingStep, LettersInit, LettersStep, PTL DEF CSpec
=============================================================================
