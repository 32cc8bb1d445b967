-------------------------- MODULE TaskQueueProofs --------------------------
(***************************************************************************)
(* Theorems about TaskQueue, for any number of tasks and coordinators, any  *)
(* attempt limit and batch size, and any number of crashes and lost claims. *)
(***************************************************************************)
EXTENDS TaskQueue, FiniteSetTheorems, TLAPS

-----------------------------------------------------------------------------
(* Operators on rows *)

\* What the row operators of the queue return is a row again.
LEMMA RowOperators ==
    ASSUME NEW r \in Row
    PROVE  /\ AfterDone(r) \in Row
           /\ AfterFailure(r) \in Row
           /\ ResetRow(r) \in Row
           /\ \A c \in Coordinator : Claimable(r) => Claimed(c, r) \in Row
<1> USE QueueAssumption DEF Row, Status
<1>1. r.attempts \in 0..MaxAttempts
  OBVIOUS
<1>2. AfterDone(r) \in Row
  BY DEF AfterDone
<1>3. AfterFailure(r) \in Row
  <2>1. [r EXCEPT !.status = "retrying"] \in Row /\ [r EXCEPT !.status = "failed"] \in Row
    OBVIOUS
  <2> QED BY <2>1 DEF AfterFailure
<1>4. ResetRow(r) \in Row
  BY <1>1 DEF ResetRow
<1>5. ASSUME NEW c \in Coordinator, Claimable(r) PROVE Claimed(c, r) \in Row
  BY <1>1, <1>5 DEF Claimable, Claimed
<1> QED
  BY <1>2, <1>3, <1>4, <1>5

\* Inserting tasks keeps the table well typed.
LEMMA InsertType ==
    ASSUME row \in [Task -> Row], NEW new, Insert(new)
    PROVE  row' \in [Task -> Row]
<1>1. ASSUME NEW r \in Row PROVE [r EXCEPT !.status = "pending"] \in Row
  BY DEF Row, Status
<1> QED
  BY <1>1 DEF Insert

\* A session reads rows.
LEMMA SeenType ==
    ASSUME TypeOK, NEW c \in Coordinator, NEW t \in Task
    PROVE  Seen(c, t) \in Row
  BY DEF TypeOK, Seen, Held

-----------------------------------------------------------------------------
(* Type correctness *)

LEMMA TypeInit == Init => TypeOK
  BY QueueAssumption DEF Init, TypeOK, Row, Status, Held

LEMMA TypeStep == TypeOK /\ [Next]_vars => TypeOK'
<1> SUFFICES ASSUME TypeOK, [Next]_vars PROVE TypeOK'
  OBVIOUS
<1> USE QueueAssumption
<1>1. ASSUME NEW t \in Task, Enqueue(t) PROVE TypeOK'
  BY <1>1, InsertType DEF Enqueue, TypeOK, Held
<1>2. ASSUME NEW c \in Coordinator, Claim(c) PROVE TypeOK'
  <2>1. PICK B \in Batch : /\ own' = [own EXCEPT ![c] = [t \in B |-> Claimed(c, row[t])]]
                           /\ todo' = [todo EXCEPT ![c] = B]
    BY <1>2 DEF Claim
  <2>2. B \subseteq Task /\ \A t \in B : Claimed(c, row[t]) \in Row
    BY <2>1, RowOperators DEF Batch, Free, TypeOK
  <2>3. [t \in B |-> Claimed(c, row[t])] \in [B -> Row]
    BY <2>2
  <2> QED BY <1>2, <2>1, <2>2, <2>3 DEF Claim, TypeOK, Held
<1>3. ASSUME NEW c \in Coordinator, StartHandler(c) PROVE TypeOK'
  BY <1>3 DEF StartHandler, TypeOK, Held
<1>4. ASSUME NEW c \in Coordinator, NEW new \in SUBSET Absent, HandlerCommit(c, new)
      PROVE  TypeOK'
  BY <1>4, InsertType DEF HandlerCommit, TypeOK, Held
<1>5. ASSUME NEW c \in Coordinator, NEW r \in Row, run[c] # NoTask, Record(c, r)
      PROVE  TypeOK'
  <2>1. run[c] \in Task /\ \A t \in Task : Seen(c, t) \in Row
    BY <1>5, SeenType DEF TypeOK
  <2>2. row' \in [Task -> Row]
    <3>1. [t \in Task |-> IF t = run[c] THEN r ELSE Seen(c, t)] \in [Task -> Row]
      BY <2>1
    <3> QED BY <1>5, <3>1 DEF Record, TypeOK
  <2>3. /\ DOMAIN own' = Coordinator
        /\ \A d \in Coordinator : Held(d)' \subseteq Task /\ own'[d] \in [Held(d)' -> Row]
    <3>1. CASE own' = own
      BY <3>1 DEF TypeOK, Held
    <3>2. CASE own' = [own EXCEPT ![c] = [t \in {} |-> row[t]]]
      BY <3>2 DEF TypeOK, Held
    <3>3. CASE own' = [own EXCEPT ![c] = [@ EXCEPT ![run[c]] = r]]
      <4>1. own[c] \in [Held(c) -> Row] /\ Held(c) \subseteq Task
        BY DEF TypeOK
      <4>2. [own[c] EXCEPT ![run[c]] = r] \in [Held(c) -> Row]
        BY <4>1
      <4> QED BY <3>3, <4>1, <4>2 DEF TypeOK, Held
    <3> QED BY <1>5, <3>1, <3>2, <3>3 DEF Record
  <2> QED BY <1>5, <2>2, <2>3 DEF Record, TypeOK
<1>6. ASSUME NEW c \in Coordinator, MarkDone(c) \/ MarkFailed(c) PROVE TypeOK'
  <2>1. run[c] \in Task
    BY <1>6 DEF MarkDone, MarkFailed, TypeOK
  <2>2. AfterDone(Seen(c, run[c])) \in Row /\ AfterFailure(Seen(c, run[c])) \in Row
    BY <2>1, SeenType, RowOperators
  <2> QED BY <1>5, <1>6, <2>2 DEF MarkDone, MarkFailed
<1>7. ASSUME NEW c \in Coordinator, EndIteration(c) PROVE TypeOK'
  <2>1. \A t \in Task : Seen(c, t) \in Row
    BY SeenType
  <2> QED BY <1>7, <2>1 DEF EndIteration, TypeOK, Held
<1>8. ASSUME NEW c \in Coordinator, ResetStuck(c) PROVE TypeOK'
  <2>1. \A t \in Task : Visible(c, t) \in Row /\ ResetRow(Visible(c, t)) \in Row
    BY SeenType, RowOperators DEF Visible, TypeOK
  <2>2. row' \in [Task -> Row]
    BY <1>8, <2>1 DEF ResetStuck
  <2> QED BY <1>8, <2>2 DEF ResetStuck, TypeOK, Held
<1>9. ASSUME NEW c \in Coordinator, LoseConnection(c) PROVE TypeOK'
  BY <1>9 DEF LoseConnection, TypeOK, Held
<1>10. ASSUME NEW c \in Coordinator, Crash(c) PROVE TypeOK'
  BY <1>10 DEF Crash, TypeOK, Held
<1>11. ASSUME UNCHANGED vars PROVE TypeOK'
  BY <1>11 DEF vars, TypeOK, Held
<1> QED
  BY <1>1, <1>2, <1>3, <1>4, <1>6, <1>7, <1>8, <1>9, <1>10, <1>11 DEF Next, Poll

\* In every reachable state each variable holds a value of its type: in
\* particular attempt_count never exceeds max_attempts, committed or not.
THEOREM TypeCorrect == Spec => []TypeOK
  BY TypeInit, TypeStep, PTL DEF Spec

-----------------------------------------------------------------------------
(* Claims, with isolated sessions *)

\* The committed rows: PROCESSING is never among them, a row that waits has an
\* attempt left, and a row not inserted yet has none behind it.
CommittedRows ==
    \A t \in Task :
        /\ row[t].status # "processing"
        /\ row[t].status \in {"pending", "retrying"} => row[t].attempts < MaxAttempts
        /\ row[t].status = "absent" => row[t].attempts = 0

ClaimCore == TypeOK /\ ClaimConsistent

ClaimInv == ClaimCore /\ CommittedRows

LEMMA ClaimInit == Init => ClaimInv
  BY TypeInit, QueueAssumption DEF Init, ClaimInv, ClaimCore, ClaimConsistent, CommittedRows, Held, BatchOver

\* Under a lock, the outcome of the task is what AfterDone or AfterFailure say.
LEMMA ClaimRecord ==
    ASSUME ClaimCore, TypeOK', IsolatedSessions,
           NEW c \in Coordinator, MarkDone(c) \/ MarkFailed(c)
    PROVE  ClaimConsistent' /\ (CommittedRows => CommittedRows')
<1> DEFINE t == run[c]
<1> USE QueueAssumption
<1>1. t \in Task /\ t \notin todo[c] /\ t # NoTask
  BY DEF MarkDone, MarkFailed, ClaimCore, TypeOK, ClaimConsistent
<1>2. PICK r : /\ Record(c, r)
               /\ r = AfterDone(Seen(c, t)) \/ r = AfterFailure(Seen(c, t))
  BY DEF MarkDone, MarkFailed
<1>3. CASE tx[c] = "lost"
  BY <1>1, <1>2, <1>3 DEF Record, ClaimCore, ClaimConsistent, CommittedRows, TypeOK, Held, BatchOver,
     Claimable
<1>4. CASE tx[c] # "lost"
  <2>1. tx[c] = "open" /\ t \in Held(c) /\ Seen(c, t) = own[c][t] /\ own[c][t] \in Row
    BY <1>1, <1>4 DEF ClaimCore, ClaimConsistent, TypeOK, BatchOver, Seen, Held
  <2>2. /\ own' = [own EXCEPT ![c] = [@ EXCEPT ![t] = r]]
        /\ row' = row /\ tx' = tx /\ todo' = todo
        /\ run' = [run EXCEPT ![c] = NoTask]
    BY <1>2, <1>4 DEF Record
  <2>3. \A d \in Coordinator : Held(d)' = Held(d)
    BY <2>2 DEF Held, ClaimCore, TypeOK
  <2>4. own'[c][t] = r /\ \A u \in Held(c) \ {t} : own'[c][u] = own[c][u]
    BY <2>1, <2>2 DEF Held, ClaimCore, TypeOK
  <2>5. \A d \in Coordinator \ {c} : own'[d] = own[d]
    BY <2>2 DEF ClaimCore, TypeOK
  <2>6. /\ r.attempts = own[c][t].attempts
        /\ r.status = "done" \/ r.status = AfterFailure(r).status
    <3>1. \A x \in Row : /\ AfterDone(x).attempts = x.attempts /\ AfterDone(x).status = "done"
                         /\ AfterFailure(x).attempts = x.attempts
                         /\ AfterFailure(x).status =
                              IF x.attempts < MaxAttempts THEN "retrying" ELSE "failed"
      BY DEF Row, AfterDone, AfterFailure
    <3>2. r \in Row
      BY <1>2, <2>1, RowOperators
    <3> QED BY <1>2, <2>1, <3>1, <3>2
  <2>7. ClaimConsistent'
    <3>1. ASSUME NEW d \in Coordinator, NEW u \in Held(d)'
          PROVE  /\ Claimable(row[u])'
                 /\ own'[d][u].attempts = row'[u].attempts + 1
                 /\ own'[d][u].status =
                      IF u \in todo'[d] \cup {run'[d]} THEN "processing"
                      ELSE IF own'[d][u].status = "done" THEN "done"
                      ELSE AfterFailure(own'[d][u]).status
      <4>1. u \in Held(d) /\ Claimable(row[u]) /\ own[d][u].attempts = row[u].attempts + 1
            /\ own[d][u].status =
                      IF u \in todo[d] \cup {run[d]} THEN "processing"
                      ELSE IF own[d][u].status = "done" THEN "done"
                      ELSE AfterFailure(own[d][u]).status
        BY <2>3, <3>1 DEF ClaimCore, ClaimConsistent
      <4>2. CASE d = c /\ u = t
        BY <1>1, <2>1, <2>2, <2>4, <2>6, <4>1, <4>2 DEF Claimable, ClaimCore, TypeOK
      <4>3. CASE d = c /\ u # t
        <5>1. own'[d][u] = own[d][u] /\ u # run'[d] /\ u # NoTask
          BY <2>2, <2>4, <4>1, <4>3 DEF ClaimCore, TypeOK
        <5> QED BY <2>2, <4>1, <4>3, <5>1 DEF Claimable
      <4>4. CASE d # c
        <5>1. own'[d] = own[d] /\ run'[d] = run[d]
          BY <2>2, <2>5, <4>4 DEF ClaimCore, TypeOK
        <5> QED BY <2>2, <4>1, <4>4, <5>1 DEF Claimable
      <4> QED BY <4>2, <4>3, <4>4
    <3> QED
      BY <1>1, <2>2, <2>3, <3>1 DEF ClaimCore, ClaimConsistent, TypeOK, BatchOver
  <2> QED
    BY <2>2, <2>7 DEF CommittedRows
<1> QED
  BY <1>3, <1>4

\* Claiming a batch of free rows locks them for the first time.
LEMMA ClaimClaim ==
    ASSUME ClaimCore, TypeOK', IsolatedSessions, NEW c \in Coordinator, Claim(c)
    PROVE  ClaimConsistent' /\ (CommittedRows => CommittedRows')
<1> USE QueueAssumption
<1>1. PICK B \in Batch : /\ own' = [own EXCEPT ![c] = [t \in B |-> Claimed(c, row[t])]]
                         /\ todo' = [todo EXCEPT ![c] = B]
  BY DEF Claim
<1>2. \A t \in B : t \in Task /\ Claimable(row[t]) /\ ~Locked(t) /\ row[t] \in Row
  BY <1>1 DEF Batch, Free, ClaimCore, TypeOK
<1>3. tx[c] = "idle" /\ Held(c) = {} /\ run[c] = NoTask
  BY DEF Claim, ClaimCore, ClaimConsistent, BatchOver, TypeOK
<1>4. /\ Held(c)' = B /\ todo'[c] = B
      /\ \A t \in B : own'[c][t] = Claimed(c, row[t])
  BY <1>1 DEF Held, ClaimCore, TypeOK
<1>5. \A d \in Coordinator \ {c} : own'[d] = own[d] /\ Held(d)' = Held(d) /\ todo'[d] = todo[d]
                                   /\ tx'[d] = tx[d]
  BY <1>1 DEF Claim, Held, ClaimCore, TypeOK
<1>6. row' = row /\ run' = run /\ tx'[c] = "open"
  BY DEF Claim, ClaimCore, TypeOK
<1>7. ClaimConsistent'
  <2>1. \A d \in Coordinator : /\ tx'[d] # "open" => Held(d)' = {}
                               /\ tx'[d] = "idle" => BatchOver(d)'
                               /\ run'[d] \notin todo'[d]
    BY <1>2, <1>3, <1>4, <1>5, <1>6 DEF ClaimCore, ClaimConsistent, BatchOver, TypeOK
  <2>2. ASSUME NEW d \in Coordinator, NEW e \in Coordinator, d # e
        PROVE  Held(d)' \cap Held(e)' = {}
    BY <1>2, <1>4, <1>5, <2>2 DEF ClaimCore, ClaimConsistent, Locked
  <2>3. ASSUME NEW d \in Coordinator
        PROVE  /\ tx'[d] = "open" => todo'[d] \subseteq Held(d)' /\ run'[d] \in Held(d)' \cup {NoTask}
               /\ \A t \in Held(d)' :
                /\ Claimable(row[t])'
                /\ own'[d][t].attempts = row'[t].attempts + 1
                /\ own'[d][t].status =
                      IF t \in todo'[d] \cup {run'[d]} THEN "processing"
                      ELSE IF own'[d][t].status = "done" THEN "done"
                      ELSE AfterFailure(own'[d][t]).status
    <3>1. CASE d = c
      <4>1. \A t \in B : /\ own'[c][t].attempts = row[t].attempts + 1
                        /\ own'[c][t].status = "processing"
        <5>1. \A r : Claimed(c, r).attempts = r.attempts + 1 /\ Claimed(c, r).status = "processing"
          BY DEF Claimed
        <5> QED BY <1>4, <5>1
      <4>2. \A t \in B : row'[t] = row[t] /\ Claimable(row[t])' /\ t \in todo'[c]
        BY <1>2, <1>4, <1>6 DEF Claimable
      <4> QED BY <1>3, <1>4, <1>6, <3>1, <4>1, <4>2
    <3>2. CASE d # c
      BY <1>5, <1>6, <3>2 DEF ClaimCore, ClaimConsistent, Claimable
    <3> QED BY <3>1, <3>2
  <2> QED BY <2>1, <2>2, <2>3 DEF ClaimConsistent
<1> QED
  BY <1>6, <1>7 DEF CommittedRows

\* When the batch is over, every row under its locks has an outcome.
LEMMA HeldOutcome ==
    ASSUME ClaimCore, IsolatedSessions, NEW c \in Coordinator, BatchOver(c), NEW t \in Held(c)
    PROVE  /\ own[c][t].status = "done" \/ own[c][t].status = AfterFailure(own[c][t]).status
           /\ own[c][t].status \in {"done", "retrying", "failed"}
           /\ own[c][t].status = "retrying" => own[c][t].attempts < MaxAttempts
<1>1. own[c][t] \in Row /\ t \in Task
  BY DEF ClaimCore, TypeOK
<1>2. \A x \in Row : AfterFailure(x).status =
                       IF x.attempts < MaxAttempts THEN "retrying" ELSE "failed"
  BY DEF Row, AfterFailure
<1>3. own[c][t].status = "done" \/ own[c][t].status = AfterFailure(own[c][t]).status
  BY <1>1, QueueAssumption DEF ClaimCore, ClaimConsistent, BatchOver
<1> QED BY <1>1, <1>2, <1>3

\* Ending an iteration commits outcomes only, and only under the lock.
LEMMA ClaimEnd ==
    ASSUME ClaimCore, TypeOK', IsolatedSessions, NEW c \in Coordinator, EndIteration(c)
    PROVE  ClaimConsistent' /\ (CommittedRows => CommittedRows')
<1> USE QueueAssumption
<1>1. /\ row' = [t \in Task |-> Seen(c, t)]
      /\ own' = [own EXCEPT ![c] = [t \in {} |-> row[t]]]
      /\ tx' = [tx EXCEPT ![c] = "idle"]
      /\ todo' = todo /\ run' = run /\ todo[c] = {} /\ run[c] = NoTask
  BY DEF EndIteration, BatchOver
<1>2. Held(c)' = {} /\ tx'[c] = "idle"
  BY <1>1 DEF Held, ClaimCore, TypeOK
<1>3. \A d \in Coordinator \ {c} : own'[d] = own[d] /\ Held(d)' = Held(d) /\ tx'[d] = tx[d]
  BY <1>1 DEF Held, ClaimCore, TypeOK
<1>4. \A t \in Task : row'[t] = IF t \in Held(c) THEN own[c][t] ELSE row[t]
  BY <1>1 DEF Seen
<1>5. \A t \in Held(c) : /\ own[c][t].status \in {"done", "retrying", "failed"}
                         /\ own[c][t].status = "retrying" => own[c][t].attempts < MaxAttempts
  BY <1>1, HeldOutcome DEF BatchOver
<1>6. CommittedRows => CommittedRows'
  BY <1>4, <1>5 DEF ClaimCore, CommittedRows, TypeOK
<1>7. ClaimConsistent'
  <2>1. \A d \in Coordinator : /\ tx'[d] # "open" => Held(d)' = {}
                               /\ tx'[d] = "idle" => BatchOver(d)'
                               /\ run'[d] \notin todo'[d]
    BY <1>1, <1>2, <1>3 DEF ClaimCore, ClaimConsistent, BatchOver
  <2>2. \A d, e \in Coordinator : d # e => Held(d)' \cap Held(e)' = {}
    BY <1>2, <1>3 DEF ClaimCore, ClaimConsistent
  <2>3. ASSUME NEW d \in Coordinator
        PROVE  /\ tx'[d] = "open" => todo'[d] \subseteq Held(d)' /\ run'[d] \in Held(d)' \cup {NoTask}
               /\ \A t \in Held(d)' :
                /\ Claimable(row[t])'
                /\ own'[d][t].attempts = row'[t].attempts + 1
                /\ own'[d][t].status =
                      IF t \in todo'[d] \cup {run'[d]} THEN "processing"
                      ELSE IF own'[d][t].status = "done" THEN "done"
                      ELSE AfterFailure(own'[d][t]).status
    <3>1. CASE d = c
      BY <1>2, <3>1
    <3>2. CASE d # c
      <4>1. \A t \in Held(d) : t \in Task /\ t \notin Held(c) /\ row'[t] = row[t]
        BY <1>4, <3>2 DEF ClaimCore, ClaimConsistent, TypeOK
      <4>2. \A t \in Held(d) : Claimable(row[t])'
        BY <4>1, <3>2 DEF ClaimCore, ClaimConsistent, Claimable
      <4>3. own'[d] = own[d] /\ Held(d)' = Held(d) /\ todo'[d] = todo[d] /\ run'[d] = run[d]
            /\ tx'[d] = tx[d]
        BY <1>1, <1>3, <3>2
      <4> QED BY <4>1, <4>2, <4>3 DEF ClaimCore, ClaimConsistent
    <3> QED BY <3>1, <3>2
  <2> QED BY <2>1, <2>2, <2>3 DEF ClaimConsistent
<1> QED
  BY <1>6, <1>7

\* Rows that were absent are not locked: inserting them disturbs no claim.
LEMMA ClaimInsert ==
    ASSUME ClaimCore, TypeOK', IsolatedSessions, NEW new \in SUBSET Absent, Insert(new),
           UNCHANGED <<own, tx, todo, run>>
    PROVE  ClaimConsistent' /\ (CommittedRows => CommittedRows')
<1> USE QueueAssumption
<1>1. \A t \in Task \ new : row'[t] = row[t]
  BY DEF Insert
<1>2. \A t \in new : /\ t \in Task /\ row[t].status = "absent"
                     /\ row'[t].status = "pending" /\ row'[t].attempts = row[t].attempts
  BY DEF Insert, Absent, ClaimCore, TypeOK, Row
<1>3. \A d \in Coordinator : \A t \in Held(d) : t \in Task \ new
  BY <1>2 DEF ClaimCore, ClaimConsistent, Claimable, TypeOK
<1>4. \A d \in Coordinator : Held(d)' = Held(d)
  BY DEF Held
<1>5. ClaimConsistent'
  BY <1>1, <1>3, <1>4 DEF ClaimCore, ClaimConsistent, Claimable, BatchOver
<1>6. CommittedRows => CommittedRows'
  BY <1>1, <1>2 DEF ClaimCore, CommittedRows
<1> QED BY <1>5, <1>6

\* A claim that is rolled back releases its rows as it found them.
LEMMA ClaimRollback ==
    ASSUME ClaimCore, TypeOK', IsolatedSessions, NEW c \in Coordinator,
           LoseConnection(c) \/ Crash(c)
    PROVE  ClaimConsistent' /\ (CommittedRows => CommittedRows')
<1> USE QueueAssumption
<1>1. /\ row' = row /\ Held(c)' = {} /\ tx'[c] # "open"
      /\ tx'[c] = "idle" => BatchOver(c)'
      /\ (todo'[c] = todo[c] /\ run'[c] = run[c]) \/ todo'[c] = {}
  BY DEF LoseConnection, Crash, Held, BatchOver, ClaimCore, TypeOK
<1>2. \A d \in Coordinator \ {c} : /\ own'[d] = own[d] /\ Held(d)' = Held(d) /\ tx'[d] = tx[d]
                                   /\ todo'[d] = todo[d] /\ run'[d] = run[d]
  BY DEF LoseConnection, Crash, Held, ClaimCore, TypeOK
<1>3. ClaimConsistent'
  BY <1>1, <1>2 DEF ClaimCore, ClaimConsistent, Claimable, BatchOver
<1> QED
  BY <1>1, <1>3 DEF CommittedRows

\* One step of the queue, the recovery of stuck tasks aside.
QueueStep(c) ==
    \/ Claim(c) \/ Poll(c) \/ StartHandler(c)
    \/ \E new \in SUBSET Absent : HandlerCommit(c, new)
    \/ MarkDone(c) \/ MarkFailed(c) \/ EndIteration(c) \/ LoseConnection(c) \/ Crash(c)

QueueNext == (\E t \in Task : Enqueue(t)) \/ (\E c \in Coordinator : QueueStep(c))

LEMMA QueueNextIsNext == QueueNext => Next
<1> SUFFICES ASSUME QueueNext PROVE Next
  OBVIOUS
<1>1. ASSUME NEW t \in Task, Enqueue(t) PROVE Next
  BY <1>1 DEF Next
<1>2. ASSUME NEW c \in Coordinator, QueueStep(c) PROVE Next
  BY <1>2 DEF Next, QueueStep
<1> QED BY <1>1, <1>2 DEF QueueNext

LEMMA ClaimCoreStep ==
    ASSUME IsolatedSessions, ClaimCore, TypeOK', [QueueNext]_vars
    PROVE  ClaimConsistent' /\ (CommittedRows => CommittedRows')
<1> DEFINE Goal == ClaimConsistent' /\ (CommittedRows => CommittedRows')
<1>1. ASSUME NEW t \in Task, Enqueue(t) PROVE Goal
  BY <1>1, ClaimInsert DEF Enqueue
<1>2. ASSUME NEW c \in Coordinator, Claim(c) PROVE Goal
  BY <1>2, ClaimClaim
<1>3. ASSUME NEW c \in Coordinator, StartHandler(c) PROVE Goal
  <2>1. PICK t \in todo[c] : /\ run' = [run EXCEPT ![c] = t]
                             /\ todo' = [todo EXCEPT ![c] = @ \ {t}]
    BY <1>3 DEF StartHandler
  <2>2. /\ run'[c] = t /\ todo'[c] = todo[c] \ {t}
        /\ todo'[c] \cup {run'[c]} = todo[c]
        /\ \A d \in Coordinator \ {c} : run'[d] = run[d] /\ todo'[d] = todo[d]
        /\ run[c] = NoTask /\ NoTask \notin Task
    BY <1>3, <2>1, QueueAssumption DEF StartHandler, ClaimCore, TypeOK
  <2>3. row' = row /\ own' = own /\ tx' = tx /\ \A d \in Coordinator : Held(d)' = Held(d)
    BY <1>3 DEF StartHandler, Held
  <2>4. \A d \in Coordinator : \A u \in Held(d) :
           u \in todo'[d] \cup {run'[d]} <=> u \in todo[d] \cup {run[d]}
    <3> SUFFICES ASSUME NEW d \in Coordinator, NEW u \in Held(d)
                 PROVE  u \in todo'[d] \cup {run'[d]} <=> u \in todo[d] \cup {run[d]}
      OBVIOUS
    <3>1. u # NoTask
      BY <2>2 DEF ClaimCore, TypeOK
    <3> QED BY <2>2, <3>1
  <2>5. ClaimConsistent'
    BY <2>1, <2>2, <2>3, <2>4 DEF ClaimCore, ClaimConsistent, Claimable, BatchOver, TypeOK
  <2> QED BY <2>3, <2>5 DEF ClaimCore, CommittedRows
<1>4. ASSUME NEW c \in Coordinator, NEW new \in SUBSET Absent, HandlerCommit(c, new)
      PROVE  Goal
  BY <1>4, ClaimInsert DEF HandlerCommit
<1>5. ASSUME NEW c \in Coordinator, MarkDone(c) \/ MarkFailed(c) PROVE Goal
  BY <1>5, ClaimRecord
<1>6. ASSUME NEW c \in Coordinator, EndIteration(c) PROVE Goal
  BY <1>6, ClaimEnd
<1>7. ASSUME NEW c \in Coordinator, LoseConnection(c) \/ Crash(c) PROVE Goal
  BY <1>7, ClaimRollback
<1>8. ASSUME UNCHANGED vars PROVE Goal
  BY <1>8 DEF vars, ClaimCore, ClaimConsistent, CommittedRows, Held, BatchOver, Claimable
<1> QED
  <2>1. CASE \E t \in Task : Enqueue(t)
    BY <1>1, <2>1
  <2>2. CASE \E c \in Coordinator : QueueStep(c)
    <3>1. PICK c \in Coordinator : QueueStep(c)
      BY <2>2
    <3>2. CASE \E new \in SUBSET Absent : HandlerCommit(c, new)
      BY <1>4, <3>2
    <3> QED BY <1>2, <1>3, <1>5, <1>6, <1>7, <1>8, <3>1, <3>2 DEF QueueStep, Poll
  <2> QED BY <1>8, <2>1, <2>2 DEF QueueNext

\* The committed row of t is inserted.
Inserted(t) == row[t].status = "absent" /\ row'[t] = [row[t] EXCEPT !.status = "pending"]

\* The iteration of c commits the outcome of t and releases its row.
Settled(c, t) ==
    /\ t \in Held(c) /\ Held(c)' = {}
    /\ Claimable(row[t])
    /\ row'[t] = own[c][t]
    /\ row'[t].status \in {"done", "retrying", "failed"}
    /\ row'[t].attempts = row[t].attempts + 1

\* A committed row changes in these two ways only.
LEMMA RowChange ==
    ASSUME IsolatedSessions, ClaimCore, TypeOK', [QueueNext]_vars, NEW t \in Task
    PROVE  row'[t] = row[t] \/ Inserted(t) \/ \E c \in Coordinator : Settled(c, t)
<1> DEFINE Goal == row'[t] = row[t] \/ Inserted(t) \/ \E c \in Coordinator : Settled(c, t)
<1>1. ASSUME NEW new \in SUBSET Absent, Insert(new) PROVE Goal
  BY <1>1 DEF Insert, Absent, Inserted
<1>2. ASSUME NEW c \in Coordinator, EndIteration(c) PROVE Goal
  <2>1. BatchOver(c) /\ row'[t] = Seen(c, t) /\ Held(c)' = {}
    BY <1>2 DEF EndIteration, Held, ClaimCore, TypeOK
  <2>2. CASE t \in Held(c)
    <3>1. /\ row'[t] = own[c][t] /\ Claimable(row[t])
          /\ own[c][t].attempts = row[t].attempts + 1
      BY <2>1, <2>2 DEF Seen, ClaimCore, ClaimConsistent
    <3>2. own[c][t].status \in {"done", "retrying", "failed"}
      BY <2>1, <2>2, HeldOutcome
    <3> QED BY <2>1, <2>2, <3>1, <3>2 DEF Settled
  <2>3. CASE t \notin Held(c)
    BY <2>1, <2>3 DEF Seen
  <2> QED BY <2>2, <2>3
<1>3. ASSUME NEW c \in Coordinator, MarkDone(c) \/ MarkFailed(c) PROVE row' = row
  BY <1>3 DEF MarkDone, MarkFailed, Record
<1>4. ASSUME NEW c \in Coordinator,
             Claim(c) \/ Poll(c) \/ StartHandler(c) \/ LoseConnection(c) \/ Crash(c)
      PROVE  row' = row
  BY <1>4 DEF Claim, Poll, StartHandler, LoseConnection, Crash, vars
<1>5. ASSUME NEW u \in Task, Enqueue(u) PROVE Goal
  BY <1>1, <1>5 DEF Enqueue
<1>6. ASSUME NEW c \in Coordinator, NEW new \in SUBSET Absent, HandlerCommit(c, new) PROVE Goal
  BY <1>1, <1>6 DEF HandlerCommit
<1>7. CASE \E c \in Coordinator : QueueStep(c)
  <2>1. PICK c \in Coordinator : QueueStep(c)
    BY <1>7
  <2>2. CASE \E new \in SUBSET Absent : HandlerCommit(c, new)
    BY <1>6, <2>2
  <2> QED BY <1>2, <1>3, <1>4, <2>1, <2>2 DEF QueueStep
<1> QED BY <1>5, <1>7 DEF vars, QueueNext

\* Nothing is PROCESSING that the recovery could find.
LEMMA NothingToReset ==
    ASSUME IsolatedSessions, CommittedRows, NEW c \in Coordinator PROVE ~ResetStuck(c)
  BY DEF ResetStuck, Visible, CommittedRows

LEMMA OnlyQueueSteps ==
    ASSUME IsolatedSessions, CommittedRows, [Next]_vars PROVE [QueueNext]_vars
  BY NothingToReset DEF Next, QueueStep, QueueNext

LEMMA ClaimStep ==
    ASSUME IsolatedSessions PROVE ClaimInv /\ [Next]_vars => ClaimInv'
<1> SUFFICES ASSUME ClaimInv, [Next]_vars PROVE ClaimInv'
  OBVIOUS
<1>1. TypeOK'
  BY TypeStep DEF ClaimInv, ClaimCore
<1> QED BY <1>1, OnlyQueueSteps, ClaimCoreStep DEF ClaimInv, ClaimCore

LEMMA ClaimsInvariant == ASSUME IsolatedSessions PROVE Spec => []ClaimInv
<1>1. ClaimInv /\ [Next]_vars => ClaimInv'
  BY ClaimStep
<1> QED
  BY <1>1, ClaimInit, PTL DEF Spec

-----------------------------------------------------------------------------
(* What the invariant means *)

\* The bookkeeping of the claims: what a coordinator holds, has left to do and
\* runs agrees with the committed rows through every claim, outcome, rollback,
\* crash and reset (queue_manager.py:73-130, task_coordinator.py:142-180).
THEOREM ClaimsConsistent == ASSUME IsolatedSessions PROVE Spec => []ClaimConsistent
<1>1. ClaimInv => ClaimConsistent
  BY DEF ClaimInv, ClaimCore
<1> QED BY <1>1, ClaimsInvariant, PTL

LEMMA ExclusiveClaims == ASSUME IsolatedSessions, ClaimCore PROVE ExclusiveRun
<1> SUFFICES ASSUME NEW c \in Coordinator, NEW d \in Coordinator, c # d,
                    run[c] # NoTask, run[c] = run[d], "lost" \notin {tx[c], tx[d]}
             PROVE  FALSE
  BY DEF ExclusiveRun
<1>1. tx[c] = "open" /\ tx[d] = "open"
  BY DEF ClaimCore, ClaimConsistent, BatchOver, TypeOK
<1>2. run[c] \in Held(c) \cap Held(d)
  BY <1>1 DEF ClaimCore, ClaimConsistent
<1> QED BY <1>2 DEF ClaimCore, ClaimConsistent

\* Two coordinators run the same task only after the database has dropped the
\* claim of one: dequeue_task's FOR UPDATE SKIP LOCKED does what it promises,
\* and nothing the coordinators do in between gives a lock away.
THEOREM ExclusiveExecution == Spec => []ExclusiveRun
<1>1. CASE IsolatedSessions
  <2>1. ClaimInv => ExclusiveRun
    BY <1>1, ExclusiveClaims DEF ClaimInv
  <2> QED BY <1>1, <2>1, ClaimsInvariant, PTL
<1>2. CASE ~IsolatedSessions
  <2>1. ExclusiveRun
    BY <1>2, QueueAssumption DEF ExclusiveRun
  <2> QED BY <2>1, PTL
<1> QED BY <1>1, <1>2

\* With isolated sessions no other session ever reads PROCESSING: the reset of
\* stuck tasks (queue_manager.py:231) and the "processing" count of the queue
\* status find nothing, whatever crashes.
THEOREM ClaimsHidden == Spec => []HiddenClaims
<1>1. CASE IsolatedSessions
  <2>1. ClaimInv => HiddenClaims
    BY DEF ClaimInv, CommittedRows, HiddenClaims
  <2> QED BY <1>1, <2>1, ClaimsInvariant, PTL
<1>2. CASE ~IsolatedSessions
  <2>1. HiddenClaims
    BY <1>2 DEF HiddenClaims
  <2> QED BY <2>1, PTL
<1> QED BY <1>1, <1>2

\* With isolated sessions no task waits with its attempts used up, where
\* dequeue_task would skip it for ever.
THEOREM NothingStuck == ASSUME IsolatedSessions PROVE Spec => []NoStranded
<1>1. ClaimInv => NoStranded
  BY DEF ClaimInv, CommittedRows, NoStranded, Claimable
<1> QED BY <1>1, ClaimsInvariant, PTL

-----------------------------------------------------------------------------
(* How often a handler runs, in both modes *)

\* What a claim does to the attempts: a row is locked by one open transaction at
\* most, and counts one attempt more there than in its committed version.
HoldInv ==
    /\ \A c \in Coordinator : /\ tx[c] # "open" => Held(c) = {}
                              /\ tx[c] = "idle" => todo[c] = {}
    /\ \A c, d \in Coordinator : c # d => Held(c) \cap Held(d) = {}
    /\ \A c \in Coordinator : \A t \in Held(c) : own[c][t].attempts = row[t].attempts + 1

\* The coordinators that will start t without a lock, having lost it or given it
\* away, and those that have started t under a lock they still have.
Unheld(t) == {c \in Coordinator : t \in todo[c] \ Held(c)}
Started(t) == {c \in Coordinator : t \in Held(c) \ todo[c]}

LEMMA HoldInit == Init => HoldInv
  BY DEF Init, HoldInv, Held

\* A transaction that ends, in whichever way, drops its locks; the rows it had
\* locked keep their attempts or take over the ones it counted.
LEMMA HoldEnd ==
    ASSUME TypeOK, HoldInv, NEW c \in Coordinator,
           own' = [own EXCEPT ![c] = [t \in {} |-> row[t]]],
           \A d \in Coordinator \ {c} : tx'[d] = tx[d] /\ todo'[d] = todo[d],
           tx'[c] = "idle" => todo'[c] = {},
           \A d \in Coordinator \ {c} : \A t \in Held(d) : row'[t].attempts = row[t].attempts
    PROVE  HoldInv'
<1>1. Held(c)' = {} /\ \A d \in Coordinator \ {c} : own'[d] = own[d] /\ Held(d)' = Held(d)
  BY DEF Held, TypeOK
<1> QED
  BY <1>1 DEF HoldInv

\* Steps that lock and release nothing and count no attempt.
LEMMA HoldKept ==
    ASSUME HoldInv,
           \A d \in Coordinator : Held(d)' = Held(d),
           \A d \in Coordinator : \A t \in Held(d) :
               own'[d][t].attempts = own[d][t].attempts /\ row'[t].attempts = row[t].attempts,
           \A d \in Coordinator : tx'[d] = tx[d] /\ todo'[d] \subseteq todo[d]
    PROVE  HoldInv'
  BY DEF HoldInv

\* An outcome keeps the attempts of the row, and what a session commits with it
\* are the attempts it reads.
LEMMA RecordAttempts ==
    ASSUME TypeOK, NEW c \in Coordinator, MarkDone(c) \/ MarkFailed(c)
    PROVE  \/ /\ row' = row /\ \A d \in Coordinator : Held(d)' = Held(d)
              /\ \A d \in Coordinator : \A t \in Held(d) : own'[d][t].attempts = own[d][t].attempts
           \/ /\ ~IsolatedSessions
              /\ own' = [own EXCEPT ![c] = [t \in {} |-> row[t]]]
              /\ \A t \in Task : row'[t].attempts = Seen(c, t).attempts
<1>1. run[c] \in Task
  BY DEF MarkDone, MarkFailed, TypeOK
<1>2. PICK r : Record(c, r) /\ r \in {AfterDone(Seen(c, run[c])), AfterFailure(Seen(c, run[c]))}
  BY DEF MarkDone, MarkFailed
<1>3. r.attempts = Seen(c, run[c]).attempts
  <2>1. \A x \in Row : AfterDone(x).attempts = x.attempts /\ AfterFailure(x).attempts = x.attempts
    BY DEF Row, AfterDone, AfterFailure
  <2> QED BY <1>1, <1>2, <2>1, SeenType
<1>4. CASE row' = row /\ own' = own
  BY <1>4 DEF Held
<1>5. CASE own' = [own EXCEPT ![c] = [@ EXCEPT ![run[c]] = r]] /\ row' = row
  <2>1. \A d \in Coordinator : Held(d)' = Held(d)
    BY <1>5 DEF Held, TypeOK
  <2>2. \A d \in Coordinator : \A t \in Held(d) : own'[d][t].attempts = own[d][t].attempts
    BY <1>3, <1>5 DEF Held, TypeOK, Seen
  <2> QED BY <1>5, <2>1, <2>2
<1>6. CASE /\ ~IsolatedSessions
           /\ row' = [t \in Task |-> IF t = run[c] THEN r ELSE Seen(c, t)]
           /\ own' = [own EXCEPT ![c] = [t \in {} |-> row[t]]]
  BY <1>1, <1>3, <1>6
<1> QED BY <1>2, <1>4, <1>5, <1>6 DEF Record

LEMMA HoldStep == TypeOK /\ HoldInv /\ [Next]_vars => HoldInv'
<1> SUFFICES ASSUME TypeOK, HoldInv, [Next]_vars PROVE HoldInv'
  OBVIOUS
<1>1. ASSUME NEW c \in Coordinator, Claim(c) PROVE HoldInv'
  <2>1. PICK B \in Batch : /\ own' = [own EXCEPT ![c] = [t \in B |-> Claimed(c, row[t])]]
                           /\ todo' = [todo EXCEPT ![c] = B]
                           /\ tx' = [tx EXCEPT ![c] = "open"]
                           /\ row' = row
    BY <1>1 DEF Claim
  <2>2. /\ Held(c)' = B
        /\ \A t \in B : own'[c][t].attempts = row[t].attempts + 1
        /\ tx'[c] = "open"
    BY <2>1 DEF Held, Claimed, TypeOK
  <2>3. \A d \in Coordinator \ {c} :
           own'[d] = own[d] /\ Held(d)' = Held(d) /\ tx'[d] = tx[d] /\ todo'[d] = todo[d]
    BY <2>1 DEF Held, TypeOK
  <2>4. \A d \in Coordinator : B \cap Held(d) = {}
    BY DEF Batch, Free, Locked
  <2> QED BY <2>1, <2>2, <2>3, <2>4 DEF HoldInv
<1>2. ASSUME NEW c \in Coordinator, StartHandler(c) PROVE HoldInv'
  BY <1>2, HoldKept DEF StartHandler, Held, TypeOK
<1>3. ASSUME NEW new \in SUBSET Absent, Insert(new), UNCHANGED <<own, tx, todo>> PROVE HoldInv'
  <2>1. \A t \in Task : row'[t].attempts = row[t].attempts
    BY <1>3 DEF Insert, Absent, TypeOK, Row
  <2> QED BY <1>3, <2>1, HoldKept DEF Held, TypeOK
<1>4. ASSUME NEW c \in Coordinator, MarkDone(c) \/ MarkFailed(c) PROVE HoldInv'
  <2>1. UNCHANGED <<tx, todo>>
    BY <1>4 DEF MarkDone, MarkFailed, Record
  <2>2. CASE /\ row' = row /\ \A d \in Coordinator : Held(d)' = Held(d)
             /\ \A d \in Coordinator : \A t \in Held(d) : own'[d][t].attempts = own[d][t].attempts
    BY <2>1, <2>2, HoldKept
  <2>3. CASE ~IsolatedSessions /\ own' = [own EXCEPT ![c] = [t \in {} |-> row[t]]]
    <3>1. Coordinator \ {c} = {}
      BY <2>3, QueueAssumption
    <3> QED BY <2>1, <2>3, <3>1, HoldEnd DEF HoldInv
  <2> QED BY <1>4, <2>2, <2>3, RecordAttempts
<1>5. ASSUME NEW c \in Coordinator, EndIteration(c) PROVE HoldInv'
  <2>1. \A d \in Coordinator \ {c} : \A t \in Held(d) : t \in Task /\ row'[t] = row[t]
    BY <1>5 DEF EndIteration, Seen, HoldInv, TypeOK
  <2>2. /\ own' = [own EXCEPT ![c] = [t \in {} |-> row[t]]] /\ todo'[c] = {}
        /\ \A d \in Coordinator \ {c} : tx'[d] = tx[d] /\ todo'[d] = todo[d]
    BY <1>5 DEF EndIteration, BatchOver, TypeOK
  <2> QED BY <2>1, <2>2, HoldEnd
<1>6. ASSUME NEW c \in Coordinator, ResetStuck(c) PROVE HoldInv'
  <2>1. CASE IsolatedSessions
    <3>1. \A t \in Task : row'[t].attempts = row[t].attempts
      BY <1>6, <2>1 DEF ResetStuck, ResetRow, Visible
    <3> QED BY <1>6, <2>1, <3>1, HoldKept DEF ResetStuck, Held, TypeOK
  <2>2. CASE ~IsolatedSessions
    <3>1. Coordinator \ {c} = {}
      BY <2>2, QueueAssumption
    <3> QED BY <1>6, <2>2, <3>1, HoldEnd DEF ResetStuck, HoldInv
  <2> QED BY <2>1, <2>2
<1>7. ASSUME NEW c \in Coordinator, LoseConnection(c) \/ Crash(c) PROVE HoldInv'
  <2>1. /\ own' = [own EXCEPT ![c] = [t \in {} |-> row[t]]] /\ row' = row
        /\ \A d \in Coordinator \ {c} : tx'[d] = tx[d] /\ todo'[d] = todo[d]
        /\ tx'[c] = "idle" => todo'[c] = {}
    BY <1>7 DEF LoseConnection, Crash, TypeOK
  <2> QED BY <2>1, HoldEnd
<1>8. ASSUME UNCHANGED vars PROVE HoldInv'
  BY <1>8 DEF vars, HoldInv, Held
<1>9. ASSUME NEW t \in Task, Enqueue(t) PROVE HoldInv'
  BY <1>3, <1>9 DEF Enqueue
<1>10. ASSUME NEW c \in Coordinator, NEW new \in SUBSET Absent, HandlerCommit(c, new) PROVE HoldInv'
  BY <1>3, <1>10 DEF HandlerCommit
<1> QED
  BY <1>1, <1>2, <1>4, <1>5, <1>6, <1>7, <1>8, <1>9, <1>10 DEF Next, Poll

-----------------------------------------------------------------------------
(* Counting *)

In(x, S) == IF x \in S THEN 1 ELSE 0

\* A set that changes in one element at most stays finite and counts that element.
LEMMA CountOne ==
    ASSUME NEW A, NEW B, NEW x, IsFiniteSet(A), A \ {x} = B \ {x}
    PROVE  /\ IsFiniteSet(B)
           /\ Cardinality(A) \in Nat /\ Cardinality(B) \in Nat
           /\ Cardinality(B) = Cardinality(A) - In(x, A) + In(x, B)
<1> DEFINE C == A \ {x}
<1>1. IsFiniteSet(C) /\ Cardinality(A) \in Nat /\ Cardinality(C) \in Nat
      /\ Cardinality(C) = Cardinality(A) - In(x, A)
  BY FS_RemoveElement, FS_CardinalityType DEF In
<1>2. CASE x \in B
  <2>1. B = C \cup {x} /\ x \notin C
    BY <1>2
  <2>2. IsFiniteSet(B) /\ Cardinality(B) = Cardinality(C) + 1
    BY <1>1, <2>1, FS_AddElement
  <2> QED BY <1>1, <1>2, <2>2 DEF In
<1>3. CASE x \notin B
  <2>1. B = C
    BY <1>3
  <2> QED BY <1>1, <1>3, <2>1 DEF In
<1> QED BY <1>2, <1>3

\* A balance n + |U| <= m + |S| survives a step that changes both sets in x at
\* most, if the change itself is balanced.
LEMMA Balance ==
    ASSUME NEW U, NEW U2, NEW S, NEW S2, NEW x, IsFiniteSet(U), IsFiniteSet(S),
           U \ {x} = U2 \ {x}, S \ {x} = S2 \ {x},
           NEW n \in Nat, NEW n2 \in Nat, NEW m \in Nat, NEW m2 \in Nat,
           n + Cardinality(U) <= m + Cardinality(S),
           n2 + In(x, U2) + In(x, S) + m <= m2 + In(x, S2) + In(x, U) + n
    PROVE  /\ IsFiniteSet(U2) /\ IsFiniteSet(S2)
           /\ n2 + Cardinality(U2) <= m2 + Cardinality(S2)
<1>1. /\ IsFiniteSet(U2) /\ Cardinality(U) \in Nat /\ Cardinality(U2) \in Nat
      /\ Cardinality(U2) = Cardinality(U) - In(x, U) + In(x, U2)
  BY CountOne
<1>2. /\ IsFiniteSet(S2) /\ Cardinality(S) \in Nat /\ Cardinality(S2) \in Nat
      /\ Cardinality(S2) = Cardinality(S) - In(x, S) + In(x, S2)
  BY CountOne
<1>3. \A X : In(x, X) \in Int
  BY DEF In
<1> QED
  BY <1>1, <1>2, <1>3

\* What t may have been started for: counted attempts, and claims taken back.
Credit(t) == row[t].attempts + crashes + losses

\* The change of the two sets and of the starts of t in a step of c.
Balanced(c, t) ==
    /\ Unheld(t)' \ {c} = Unheld(t) \ {c}
    /\ Started(t)' \ {c} = Started(t) \ {c}
    /\ starts'[t] + In(c, Unheld(t)') + In(c, Started(t)) + Credit(t)
         <= Credit(t)' + In(c, Started(t)') + In(c, Unheld(t)) + starts[t]

\* Steps of c leave the others' claims alone.
LEMMA OthersKeep ==
    ASSUME NEW c, NEW t,
           \A d \in Coordinator \ {c} : Held(d)' = Held(d) /\ todo'[d] = todo[d]
    PROVE  Unheld(t)' \ {c} = Unheld(t) \ {c} /\ Started(t)' \ {c} = Started(t) \ {c}
  BY DEF Unheld, Started

\* A transaction that ends pays for what it had started, with the attempt that it
\* commits or with the crash or loss that takes it back.
LEMMA EndBalanced ==
    ASSUME TypeOK, TypeOK', NEW c \in Coordinator, NEW t \in Task,
           own' = [own EXCEPT ![c] = [u \in {} |-> row[u]]],
           \A d \in Coordinator \ {c} : todo'[d] = todo[d],
           todo'[c] \subseteq todo[c], starts' = starts,
           NEW a \in Nat, Credit(t)' = a, a >= Credit(t) + In(t, Held(c))
    PROVE  Balanced(c, t)
<1>1. Held(c)' = {} /\ \A d \in Coordinator \ {c} : Held(d)' = Held(d) /\ todo'[d] = todo[d]
  BY DEF Held, TypeOK
<1>2. Unheld(t)' \ {c} = Unheld(t) \ {c} /\ Started(t)' \ {c} = Started(t) \ {c}
  BY <1>1, OthersKeep
<1>3. Credit(t) \in Nat /\ starts[t] \in Nat
  BY QueueAssumption DEF TypeOK, Row, Credit
<1>4. /\ c \notin Started(t)' /\ (c \in Unheld(t)' => t \in todo[c])
      /\ c \in Started(t) <=> t \in Held(c) /\ t \notin todo[c]
      /\ c \in Unheld(t) <=> t \notin Held(c) /\ t \in todo[c]
  BY <1>1 DEF Started, Unheld
<1>5. In(c, Unheld(t)') + In(c, Started(t)) <= In(t, Held(c)) + In(c, Unheld(t))
  BY <1>4 DEF In
<1>6. In(c, Started(t)') = 0
  BY <1>4 DEF In
<1>7. \A x, S : In(x, S) \in Nat
  BY DEF In
<1>8. starts[t] + In(c, Unheld(t)') + In(c, Started(t)) + Credit(t)
         <= a + 0 + In(c, Unheld(t)) + starts[t]
  <2> DEFINE u2 == In(c, Unheld(t)') s1 == In(c, Started(t)) u1 == In(c, Unheld(t))
             h == In(t, Held(c)) k == Credit(t)
  <2>1. u2 \in Nat /\ s1 \in Nat /\ u1 \in Nat /\ h \in Nat /\ k \in Nat /\ starts[t] \in Nat
    BY <1>3, <1>7
  <2>2. u2 + s1 <= h + u1 /\ a >= k + h
    BY <1>5
  <2> HIDE DEF u2, s1, u1, h, k
  <2>3. starts[t] + u2 + s1 + k <= a + 0 + u1 + starts[t]
    BY <2>1, <2>2
  <2> QED BY <2>3 DEF u2, s1, u1, h, k
<1> QED
  BY <1>2, <1>6, <1>8 DEF Balanced

\* Steps that neither lock, release nor start anything are balanced.
LEMMA KeptBalanced ==
    ASSUME TypeOK, NEW t \in Task, NEW c,
           \A d \in Coordinator : Held(d)' = Held(d),
           UNCHANGED <<todo, starts, crashes, losses>>,
           row'[t].attempts = row[t].attempts
    PROVE  Balanced(c, t)
<1>1. Unheld(t)' = Unheld(t) /\ Started(t)' = Started(t)
  BY DEF Unheld, Started
<1>2. Credit(t)' = Credit(t) /\ Credit(t) \in Nat /\ starts[t] \in Nat /\ starts' = starts
  BY QueueAssumption DEF Credit, TypeOK, Row
<1>3. \A x, S : In(x, S) \in Nat
  BY DEF In
<1>4. starts[t] + In(c, Unheld(t)) + In(c, Started(t)) + Credit(t)
         <= Credit(t) + In(c, Started(t)) + In(c, Unheld(t)) + starts[t]
  BY <1>2, <1>3
<1> QED BY <1>1, <1>2, <1>4 DEF Balanced

LEMMA StepBalanced ==
    ASSUME TypeOK, TypeOK', HoldInv, [Next]_vars, NEW t \in Task
    PROVE  \E c : Balanced(c, t)
<1> USE QueueAssumption
<1>1. ASSUME NEW c \in Coordinator, Claim(c) PROVE Balanced(c, t)
  <2>1. PICK B \in Batch : /\ own' = [own EXCEPT ![c] = [u \in B |-> Claimed(c, row[u])]]
                           /\ todo' = [todo EXCEPT ![c] = B]
    BY <1>1 DEF Claim
  <2>2. /\ Held(c)' = B /\ todo'[c] = B /\ Held(c) = {} /\ todo[c] = {}
        /\ \A d \in Coordinator \ {c} : Held(d)' = Held(d) /\ todo'[d] = todo[d]
    BY <1>1, <2>1 DEF Claim, HoldInv, Held, TypeOK
  <2>3. Unheld(t)' \ {c} = Unheld(t) \ {c} /\ Started(t)' \ {c} = Started(t) \ {c}
    BY <2>2, OthersKeep
  <2>4. Unheld(t)' = Unheld(t) /\ Started(t)' = Started(t)
    BY <2>2, <2>3 DEF Unheld, Started
  <2>5. /\ Credit(t)' = Credit(t) /\ Credit(t) \in Nat /\ starts[t] \in Nat /\ starts' = starts
        /\ \A x, S : In(x, S) \in Nat
    BY <1>1 DEF Claim, Credit, TypeOK, Row, In
  <2>6. starts[t] + In(c, Unheld(t)) + In(c, Started(t)) + Credit(t)
           <= Credit(t) + In(c, Started(t)) + In(c, Unheld(t)) + starts[t]
    BY <2>5
  <2> QED BY <2>4, <2>5, <2>6 DEF Balanced
<1>2. ASSUME NEW c \in Coordinator, StartHandler(c) PROVE Balanced(c, t)
  <2>1. PICK u \in todo[c] : /\ todo' = [todo EXCEPT ![c] = @ \ {u}]
                             /\ starts' = [starts EXCEPT ![u] = @ + 1]
    BY <1>2 DEF StartHandler
  <2>2. /\ todo'[c] = todo[c] \ {u} /\ \A d \in Coordinator : Held(d)' = Held(d)
        /\ \A d \in Coordinator \ {c} : todo'[d] = todo[d]
    BY <1>2, <2>1 DEF StartHandler, Held, TypeOK
  <2>3. Unheld(t)' \ {c} = Unheld(t) \ {c} /\ Started(t)' \ {c} = Started(t) \ {c}
    BY <2>2, OthersKeep
  <2>4. Credit(t)' = Credit(t) /\ Credit(t) \in Nat /\ starts[t] \in Nat
    BY <1>2 DEF StartHandler, Credit, TypeOK, Row
  <2>5. CASE t # u
    <3>1. Unheld(t)' = Unheld(t) /\ Started(t)' = Started(t) /\ starts'[t] = starts[t]
      BY <2>1, <2>2, <2>5 DEF Unheld, Started, TypeOK
    <3>2. \A x, S : In(x, S) \in Nat
      BY DEF In
    <3>3. starts[t] + In(c, Unheld(t)) + In(c, Started(t)) + Credit(t)
             <= Credit(t) + In(c, Started(t)) + In(c, Unheld(t)) + starts[t]
      BY <2>4, <3>2
    <3> QED BY <2>4, <3>1, <3>3 DEF Balanced
  <2>6. CASE t = u
    <3>1. /\ starts'[t] = starts[t] + 1
          /\ c \notin Unheld(t)' /\ c \notin Started(t)
          /\ c \in Started(t)' <=> t \in Held(c)
          /\ c \in Unheld(t) <=> t \notin Held(c)
      BY <2>1, <2>2, <2>6 DEF Unheld, Started, TypeOK
    <3>2. /\ In(c, Unheld(t)') = 0 /\ In(c, Started(t)) = 0
          /\ In(c, Started(t)') = In(t, Held(c))
          /\ In(c, Unheld(t)) = 1 - In(t, Held(c))
          /\ In(t, Held(c)) \in Nat
      BY <3>1 DEF In
    <3>3. starts[t] + 1 + 0 + 0 + Credit(t)
             <= Credit(t) + In(t, Held(c)) + (1 - In(t, Held(c))) + starts[t]
      BY <2>4, <3>2
    <3> QED BY <2>3, <2>4, <3>1, <3>2, <3>3 DEF Balanced
  <2> QED BY <2>5, <2>6
<1>3. ASSUME NEW c \in Coordinator, NEW new \in SUBSET Absent, Insert(new),
             UNCHANGED <<own, todo, starts, crashes, losses>>
      PROVE  Balanced(c, t)
  <2>1. row'[t].attempts = row[t].attempts
    BY <1>3 DEF Insert, Absent, TypeOK, Row
  <2> QED BY <1>3, <2>1, KeptBalanced DEF Held
<1>4. ASSUME NEW c \in Coordinator,
             own' = [own EXCEPT ![c] = [u \in {} |-> row[u]]],
             row'[t].attempts = Seen(c, t).attempts,
             UNCHANGED <<todo, starts, crashes, losses>>
      PROVE  Balanced(c, t)
  <2>1. row[t].attempts \in Nat /\ crashes \in Nat /\ losses \in Nat
    BY DEF TypeOK, Row
  <2>2. Seen(c, t).attempts = row[t].attempts + In(t, Held(c))
    BY <2>1 DEF Seen, HoldInv, In
  <2>3. In(t, Held(c)) \in Nat
    BY DEF In
  <2> DEFINE a == row[t].attempts + In(t, Held(c)) + crashes + losses
  <2>4. Credit(t)' = a
    BY <1>4, <2>2 DEF Credit
  <2>5. a \in Nat /\ a >= Credit(t) + In(t, Held(c))
    BY <2>1, <2>3 DEF Credit
  <2> HIDE DEF a
  <2> QED BY <1>4, <2>4, <2>5, EndBalanced
<1>5. ASSUME NEW c \in Coordinator, LoseConnection(c) \/ Crash(c) PROVE Balanced(c, t)
  <2>1. row[t].attempts \in Nat /\ crashes \in Nat /\ losses \in Nat
    BY DEF TypeOK, Row
  <2> DEFINE a == row[t].attempts + crashes + losses + 1
  <2>2. row' = row /\ starts' = starts
        /\ \/ crashes' = crashes + 1 /\ losses' = losses
           \/ crashes' = crashes /\ losses' = losses + 1
    BY <1>5 DEF LoseConnection, Crash
  <2>3. Credit(t)' = a
    <3>1. /\ row[t].attempts + (crashes + 1) + losses = a
          /\ row[t].attempts + crashes + (losses + 1) = a
      BY <2>1
    <3> QED BY <2>2, <3>1 DEF Credit
  <2>4. a \in Nat /\ a >= Credit(t) + In(t, Held(c))
    BY <2>1 DEF Credit, In
  <2>5. /\ own' = [own EXCEPT ![c] = [u \in {} |-> row[u]]]
        /\ \A d \in Coordinator \ {c} : todo'[d] = todo[d]
        /\ todo'[c] \subseteq todo[c]
    BY <1>5 DEF LoseConnection, Crash, TypeOK
  <2> HIDE DEF a
  <2> QED BY <2>2, <2>3, <2>4, <2>5, EndBalanced
<1>6. ASSUME NEW c \in Coordinator, MarkDone(c) \/ MarkFailed(c) \/ EndIteration(c)
      PROVE  UNCHANGED <<todo, starts, crashes, losses>>
  BY <1>6 DEF MarkDone, MarkFailed, Record, EndIteration
<1>7. ASSUME NEW c \in Coordinator, MarkDone(c) \/ MarkFailed(c) PROVE Balanced(c, t)
  <2>1. \/ row' = row /\ Held(c)' = Held(c) /\ \A d \in Coordinator : Held(d)' = Held(d)
        \/ /\ own' = [own EXCEPT ![c] = [u \in {} |-> row[u]]]
           /\ row'[t].attempts = Seen(c, t).attempts
    BY <1>7, RecordAttempts
  <2> QED BY <1>4, <1>6, <1>7, <2>1, KeptBalanced
<1>8. ASSUME NEW c \in Coordinator, EndIteration(c) PROVE Balanced(c, t)
  BY <1>4, <1>6, <1>8 DEF EndIteration
<1>9. ASSUME NEW c \in Coordinator, ResetStuck(c) PROVE Balanced(c, t)
  <2>1. row'[t].attempts = Visible(c, t).attempts /\ UNCHANGED <<todo, starts, crashes, losses>>
    BY <1>9 DEF ResetStuck, ResetRow
  <2>2. CASE IsolatedSessions
    BY <1>9, <2>1, <2>2, KeptBalanced DEF ResetStuck, Visible, Held
  <2>3. CASE ~IsolatedSessions
    BY <1>4, <1>9, <2>1, <2>3 DEF ResetStuck, Visible
  <2> QED BY <2>2, <2>3
<1>10. ASSUME NEW u \in Task, Enqueue(u) PROVE \E c : Balanced(c, t)
  <2>1. row'[t].attempts = row[t].attempts
    BY <1>10 DEF Enqueue, Insert, Absent, TypeOK, Row
  <2> QED BY <1>10, <2>1, KeptBalanced DEF Enqueue, Held
<1>11. ASSUME UNCHANGED vars PROVE \E c : Balanced(c, t)
  BY <1>11, KeptBalanced DEF vars, Held
<1>12. ASSUME NEW c \in Coordinator, NEW new \in SUBSET Absent, HandlerCommit(c, new)
       PROVE  Balanced(c, t)
  BY <1>3, <1>12 DEF HandlerCommit
<1> QED
  BY <1>1, <1>2, <1>5, <1>7, <1>8, <1>9, <1>10, <1>11, <1>12 DEF Next, Poll

\* The starts of a task, and those still to come without a lock, are paid for:
\* this is what makes ExecutionBound inductive.  Without the second set a claim
\* that is lost before its tasks are started would leave the bound no room.
ExecInv ==
    /\ HoldInv
    /\ \A t \in Task :
        /\ IsFiniteSet(Unheld(t)) /\ IsFiniteSet(Started(t))
        /\ starts[t] + Cardinality(Unheld(t)) <= Credit(t) + Cardinality(Started(t))

LEMMA ExecInit == Init => ExecInv
<1> SUFFICES ASSUME Init PROVE ExecInv
  OBVIOUS
<1>1. \A t \in Task : Unheld(t) = {} /\ Started(t) = {} /\ starts[t] = 0 /\ Credit(t) = 0
  BY DEF Init, Unheld, Started, Credit, Held
<1>2. IsFiniteSet({}) /\ Cardinality({}) = 0
  BY FS_EmptySet
<1>3. \A t \in Task : starts[t] + Cardinality(Unheld(t)) <= Credit(t) + Cardinality(Started(t))
  BY <1>1, <1>2
<1> QED BY <1>1, <1>2, <1>3, HoldInit DEF ExecInv

LEMMA ExecStep == TypeOK /\ ExecInv /\ [Next]_vars => ExecInv'
<1> SUFFICES ASSUME TypeOK, ExecInv, [Next]_vars PROVE ExecInv'
  OBVIOUS
<1>1. TypeOK' /\ HoldInv'
  BY TypeStep, HoldStep DEF ExecInv
<1>2. ASSUME NEW t \in Task
      PROVE  /\ IsFiniteSet(Unheld(t))' /\ IsFiniteSet(Started(t))'
             /\ (starts[t] + Cardinality(Unheld(t)) <= Credit(t) + Cardinality(Started(t)))'
  <2>1. PICK c : Balanced(c, t)
    BY <1>1, StepBalanced DEF ExecInv
  <2>2. starts[t] \in Nat /\ starts'[t] \in Nat /\ Credit(t) \in Nat /\ Credit(t)' \in Nat
    BY <1>1, QueueAssumption DEF Credit, TypeOK, Row
  <2>3. /\ IsFiniteSet(Unheld(t)) /\ IsFiniteSet(Started(t))
        /\ starts[t] + Cardinality(Unheld(t)) <= Credit(t) + Cardinality(Started(t))
    BY DEF ExecInv
  <2>4. starts'[t] + In(c, Unheld(t)') + In(c, Started(t)) + Credit(t)
           <= Credit(t)' + In(c, Started(t)') + In(c, Unheld(t)) + starts[t]
    BY <2>1 DEF Balanced
  <2> HIDE DEF Balanced
  <2>5. /\ Unheld(t)' \ {c} = Unheld(t) \ {c}
        /\ Started(t)' \ {c} = Started(t) \ {c}
    BY <2>1 DEF Balanced
  <2> QED BY <2>2, <2>3, <2>4, <2>5, Balance
<1> QED BY <1>1, <1>2 DEF ExecInv

LEMMA ExecBounds == TypeOK /\ ExecInv => ExecutionBound
<1> SUFFICES ASSUME TypeOK, ExecInv, NEW t \in Task
             PROVE  starts[t] <= row[t].attempts + crashes + losses + Cardinality(Started(t))
  BY DEF ExecutionBound, Started
<1>1. /\ Cardinality(Unheld(t)) \in Nat /\ Cardinality(Started(t)) \in Nat
      /\ starts[t] \in Nat /\ Credit(t) \in Nat
  BY FS_CardinalityType, QueueAssumption DEF ExecInv, TypeOK, Row, Credit
<1>2. starts[t] + Cardinality(Unheld(t)) <= Credit(t) + Cardinality(Started(t))
  BY DEF ExecInv
<1>3. starts[t] <= Credit(t) + Cardinality(Started(t))
  BY <1>1, <1>2
<1> QED BY <1>3 DEF Credit

\* Handlers run at most once for each attempt that the row counts, plus once for
\* each crash and each lost claim: in both modes, and however late an outcome, a
\* reset or a rollback lands (worker_pool.py:73-95, queue_manager.py:103-108).
THEOREM ExecutionsBounded == Spec => []ExecutionBound
<1>1. TypeOK /\ ExecInv => ExecutionBound
  BY ExecBounds
<1>2. TypeOK /\ ExecInv /\ [Next]_vars => (TypeOK /\ ExecInv)'
  BY TypeStep, ExecStep
<1> QED BY <1>1, <1>2, TypeInit, ExecInit, PTL DEF Spec

-----------------------------------------------------------------------------
(* Rows only advance *)

Advance ==
    \A t \in Task :
        /\ row[t].status \in {"done", "failed"} => row'[t] = row[t]
        /\ row'[t].attempts >= row[t].attempts

\* An insertion changes a row that has no attempt behind it, and no outcome.
LEMMA InsertAdvance ==
    ASSUME TypeOK, NEW new \in SUBSET Absent, Insert(new) PROVE Advance
<1>1. \A t \in Task : row[t].attempts \in Nat
  BY QueueAssumption DEF TypeOK, Row
<1>2. \A t \in new : row'[t].attempts = row[t].attempts /\ row[t].status = "absent"
  BY DEF Insert, Absent, TypeOK, Row
<1>3. \A t \in Task \ new : row'[t] = row[t]
  BY DEF Insert
<1> QED BY <1>1, <1>2, <1>3 DEF Advance

LEMMA SameAdvance == ASSUME TypeOK, row' = row PROVE Advance
  BY QueueAssumption DEF TypeOK, Row, Advance

\* With isolated sessions every committed change of a row is an insertion or the
\* outcome of its own claim.
LEMMA IsolatedAdvance == ASSUME IsolatedSessions, ClaimInv, TypeOK', [Next]_vars PROVE Advance
<1> SUFFICES ASSUME NEW t \in Task
             PROVE  /\ row[t].status \in {"done", "failed"} => row'[t] = row[t]
                    /\ row'[t].attempts >= row[t].attempts
  BY DEF Advance
<1>1. row[t] \in Row /\ row[t].attempts \in Nat
  BY QueueAssumption DEF ClaimInv, ClaimCore, TypeOK, Row
<1>2. row'[t] = row[t] \/ Inserted(t) \/ \E c \in Coordinator : Settled(c, t)
  BY OnlyQueueSteps, RowChange DEF ClaimInv
<1>3. CASE Inserted(t)
  BY <1>1, <1>3 DEF Inserted, Row
<1>4. ASSUME NEW c \in Coordinator, Settled(c, t)
      PROVE  row[t].status \notin {"done", "failed"} /\ row'[t].attempts >= row[t].attempts
  BY <1>1, <1>4 DEF Settled, Claimable
<1> QED BY <1>1, <1>2, <1>3, <1>4

\* What the single session of the legacy mode knows of its batch: the rows it has
\* not committed yet are claims of waiting rows, and no row of its batch has been
\* settled, although the recovery may have put it back to PENDING.
SharedInv ==
    \A c \in Coordinator :
        /\ tx[c] = "idle" => BatchOver(c)
        /\ run[c] \notin todo[c]
        /\ \A t \in Held(c) : /\ own[c][t].status = "processing"
                              /\ row[t].status \in {"pending", "retrying"}
        /\ \A t \in Task : t \in todo[c] \cup {run[c]}
                              => row[t].status \in {"pending", "retrying", "processing"}

LEMMA SharedInit == Init => SharedInv
  BY QueueAssumption DEF Init, SharedInv, Held, BatchOver

\* The rows of the batch, as the session sees them.
LEMMA SharedSeen ==
    ASSUME SharedInv, NEW c \in Coordinator, NEW t \in Task, t \in todo[c] \cup {run[c]}
    PROVE  Seen(c, t).status \in {"pending", "retrying", "processing"}
  BY DEF SharedInv, Seen

LEMMA SharedStep ==
    ASSUME ~IsolatedSessions PROVE TypeOK /\ SharedInv /\ [Next]_vars => SharedInv'
<1> SUFFICES ASSUME TypeOK, SharedInv, [Next]_vars PROVE SharedInv'
  OBVIOUS
<1> USE QueueAssumption
<1>1. ASSUME NEW c \in Coordinator, Claim(c) PROVE SharedInv'
  <2>1. PICK B \in Batch : /\ own' = [own EXCEPT ![c] = [t \in B |-> Claimed(c, row[t])]]
                           /\ todo' = [todo EXCEPT ![c] = B]
    BY <1>1 DEF Claim
  <2>2. /\ Held(c)' = B /\ todo'[c] = B /\ run'[c] = NoTask /\ row' = row /\ tx'[c] = "open"
        /\ \A t \in B : own'[c][t].status = "processing"
    BY <1>1, <2>1 DEF Claim, SharedInv, BatchOver, Held, Claimed, TypeOK
  <2>3. \A t \in B : t \in Task /\ row[t].status \in {"pending", "retrying"}
    BY <2>1 DEF Batch, Free, Claimable
  <2>4. Coordinator = {c}
    BY <1>1
  <2> QED BY <2>2, <2>3, <2>4 DEF SharedInv
<1>2. ASSUME NEW c \in Coordinator, StartHandler(c) PROVE SharedInv'
  <2>1. PICK t \in todo[c] : /\ run' = [run EXCEPT ![c] = t]
                             /\ todo' = [todo EXCEPT ![c] = @ \ {t}]
    BY <1>2 DEF StartHandler
  <2>2. /\ run'[c] = t /\ todo'[c] = todo[c] \ {t} /\ Held(c)' = Held(c)
        /\ UNCHANGED <<row, own, tx>>
    BY <1>2, <2>1 DEF StartHandler, Held, TypeOK
  <2>3. Coordinator = {c} /\ tx[c] # "idle"
    BY <1>2, <2>1 DEF SharedInv, BatchOver
  <2> QED BY <2>1, <2>2, <2>3 DEF SharedInv
<1>3. ASSUME NEW new \in SUBSET Absent, Insert(new), UNCHANGED <<own, tx, todo, run>>
      PROVE  SharedInv'
  <2>1. \A t \in Task : row'[t] = row[t] \/ row[t].status = "absent"
    BY <1>3 DEF Insert, Absent
  <2>2. \A c \in Coordinator : Held(c)' = Held(c) /\ Held(c) \subseteq Task
    BY <1>3 DEF Held, TypeOK
  <2> QED BY <1>3, <2>1, <2>2 DEF SharedInv, BatchOver
<1>4. ASSUME NEW c \in Coordinator, MarkDone(c) \/ MarkFailed(c) PROVE SharedInv'
  <2>1. PICK r : Record(c, r)
    BY <1>4 DEF MarkDone, MarkFailed
  <2>2. /\ Coordinator = {c} /\ run'[c] = NoTask /\ UNCHANGED <<tx, todo>>
        /\ tx[c] # "idle" /\ NoTask \notin todo[c]
    <3>1. run[c] # NoTask
      BY <1>4 DEF MarkDone, MarkFailed
    <3>2. Coordinator = {c}
      OBVIOUS
    <3>3. run'[c] = NoTask /\ UNCHANGED <<tx, todo>>
      BY <2>1 DEF Record, TypeOK
    <3> QED BY <3>1, <3>2, <3>3 DEF SharedInv, BatchOver, TypeOK
  <2>3. CASE UNCHANGED <<row, own>>
    BY <2>2, <2>3 DEF SharedInv, Held
  <2>4. CASE /\ row' = [t \in Task |-> IF t = run[c] THEN r ELSE Seen(c, t)]
             /\ own' = [own EXCEPT ![c] = [t \in {} |-> row[t]]]
    <3>1. Held(c)' = {}
      BY <2>4 DEF Held, TypeOK
    <3>2. \A t \in Task : t \in todo[c] => row'[t].status \in {"pending", "retrying", "processing"}
      BY <2>4, SharedSeen DEF SharedInv
    <3> QED BY <2>2, <3>1, <3>2 DEF SharedInv
  <2> QED BY <2>1, <2>3, <2>4 DEF Record
<1>5. ASSUME NEW c \in Coordinator, EndIteration(c) PROVE SharedInv'
  <2>1. /\ Coordinator = {c} /\ Held(c)' = {} /\ todo'[c] = {} /\ run'[c] = NoTask
    BY <1>5 DEF EndIteration, BatchOver, Held, TypeOK
  <2> QED BY <2>1 DEF SharedInv, BatchOver
<1>6. ASSUME NEW c \in Coordinator, ResetStuck(c) PROVE SharedInv'
  <2>1. /\ Coordinator = {c} /\ Held(c)' = {} /\ UNCHANGED <<tx, todo, run>>
    BY <1>6 DEF ResetStuck, Held, TypeOK
  <2>2. \A t \in Task : row'[t].status \in {"pending", Seen(c, t).status}
    BY <1>6 DEF ResetStuck, ResetRow, Visible
  <2>3. \A t \in Task : t \in todo[c] \cup {run[c]}
                           => row'[t].status \in {"pending", "retrying", "processing"}
    BY <2>2, SharedSeen
  <2> QED BY <2>1, <2>3 DEF SharedInv, BatchOver
<1>7. ASSUME NEW c \in Coordinator, LoseConnection(c) \/ Crash(c) PROVE SharedInv'
  <2>1. /\ Coordinator = {c} /\ Held(c)' = {} /\ row' = row
        /\ \/ todo'[c] = {} /\ run'[c] = NoTask
           \/ tx'[c] = "lost" /\ UNCHANGED <<todo, run>>
    BY <1>7 DEF LoseConnection, Crash, Held, TypeOK
  <2> QED BY <2>1 DEF SharedInv, BatchOver
<1>8. ASSUME UNCHANGED vars PROVE SharedInv'
  BY <1>8 DEF vars, SharedInv, Held, BatchOver
<1>9. ASSUME NEW t \in Task, Enqueue(t) PROVE SharedInv'
  BY <1>3, <1>9 DEF Enqueue
<1>10. ASSUME NEW c \in Coordinator, NEW new \in SUBSET Absent, HandlerCommit(c, new)
       PROVE  SharedInv'
  BY <1>3, <1>10 DEF HandlerCommit
<1> QED
  BY <1>1, <1>2, <1>4, <1>5, <1>6, <1>7, <1>8, <1>9, <1>10 DEF Next, Poll

\* A session that commits what it reads only moves rows forward: under its locks
\* it has waiting rows, and counts more attempts for them.
LEMMA SharedCommit ==
    ASSUME TypeOK, HoldInv, SharedInv, NEW c \in Coordinator, NEW t \in Task,
           NEW r, r = row'[t], r.attempts = Seen(c, t).attempts,
           \/ r = Seen(c, t)
           \/ t = run[c]
           \/ Seen(c, t).status = "processing"
    PROVE  /\ row[t].status \in {"done", "failed"} => r = row[t]
           /\ r.attempts >= row[t].attempts
<1>1. row[t].attempts \in Nat
  BY QueueAssumption DEF TypeOK, Row
<1>2. Seen(c, t).attempts >= row[t].attempts
  BY <1>1 DEF Seen, HoldInv
<1>3. t \in Held(c) => row[t].status \in {"pending", "retrying"}
  BY DEF SharedInv
<1>4. t = run[c] => row[t].status \in {"pending", "retrying", "processing"}
  BY DEF SharedInv
<1> QED BY <1>2, <1>3, <1>4 DEF Seen

LEMMA SharedAdvance ==
    ASSUME ~IsolatedSessions, TypeOK, HoldInv, SharedInv, Next PROVE Advance
<1>1. ASSUME NEW c \in Coordinator, MarkDone(c) \/ MarkFailed(c) PROVE Advance
  <2>1. row' = row \/ \A t \in Task : t # run[c] => row'[t] = Seen(c, t)
    BY <1>1 DEF MarkDone, MarkFailed, Record
  <2>2. row' = row \/ \A t \in Task : row'[t].attempts = Seen(c, t).attempts
    BY <1>1, RecordAttempts
  <2> QED BY <2>1, <2>2, SameAdvance, SharedCommit DEF Advance
<1>2. ASSUME NEW c \in Coordinator, EndIteration(c) PROVE Advance
  <2>1. \A t \in Task : row'[t] = Seen(c, t)
    BY <1>2 DEF EndIteration
  <2> QED BY <2>1, SharedCommit DEF Advance
<1>3. ASSUME NEW c \in Coordinator, ResetStuck(c) PROVE Advance
  <2>1. \A t \in Task : /\ row'[t].attempts = Seen(c, t).attempts
                        /\ row'[t] = Seen(c, t) \/ Seen(c, t).status = "processing"
    BY <1>3 DEF ResetStuck, ResetRow, Visible
  <2> QED BY <2>1, SharedCommit DEF Advance
<1>4. ASSUME NEW c \in Coordinator,
             Claim(c) \/ Poll(c) \/ StartHandler(c) \/ LoseConnection(c) \/ Crash(c)
      PROVE  row' = row
  BY <1>4 DEF Claim, Poll, StartHandler, LoseConnection, Crash, vars
<1>5. ASSUME NEW t \in Task, Enqueue(t) PROVE Advance
  BY <1>5, InsertAdvance DEF Enqueue
<1>6. ASSUME NEW c \in Coordinator, NEW new \in SUBSET Absent, HandlerCommit(c, new) PROVE Advance
  BY <1>6, InsertAdvance DEF HandlerCommit
<1> QED
  BY <1>1, <1>2, <1>3, <1>4, <1>5, <1>6, SameAdvance DEF Next

\* DONE and FAILED rows are final and attempt_count never runs back, in both
\* modes: also when the legacy session commits its claims task by task and the
\* recovery puts rows of its own batch back to PENDING.
THEOREM RowsOnlyAdvance == Spec => RowsAdvance
<1>1. CASE IsolatedSessions
  <2>1. ClaimInv /\ [Next]_vars => [Advance]_vars
    BY <1>1, IsolatedAdvance, TypeStep DEF ClaimInv, ClaimCore
  <2> QED BY <1>1, <2>1, ClaimsInvariant, PTL DEF Spec, RowsAdvance, Advance
<1>2. CASE ~IsolatedSessions
  <2> DEFINE Inv == TypeOK /\ HoldInv /\ SharedInv
  <2>1. Inv /\ [Next]_vars => Inv' /\ [Advance]_vars
    BY <1>2, TypeStep, HoldStep, SharedStep, SharedAdvance
  <2>2. Init => Inv
    BY TypeInit, HoldInit, SharedInit
  <2> QED BY <2>1, <2>2, PTL DEF Spec, RowsAdvance, Advance
<1> QED BY <1>1, <1>2

-----------------------------------------------------------------------------
(* An outcome is never invented *)

\* A handler that has committed has done the work of its task; DONE rows rest on it.
EffectInv ==
    /\ \A c \in Coordinator : applied[c] => run[c] # NoTask /\ effect[run[c]]
    /\ \A c \in Coordinator : \A t \in Held(c) : own[c][t].status = "done" => effect[t]
    /\ \A t \in Task : row[t].status = "done" => effect[t]

LEMMA EffectInit == Init => EffectInv
  BY DEF Init, EffectInv, Held

LEMMA EffectStep == TypeOK /\ TypeOK' /\ EffectInv /\ [Next]_vars => EffectInv'
<1> SUFFICES ASSUME TypeOK, TypeOK', EffectInv, [Next]_vars PROVE EffectInv'
  OBVIOUS
<1>1. ASSUME NEW new \in SUBSET Absent, Insert(new)
      PROVE  \A t \in Task : row'[t].status = "done" => row[t].status = "done"
  <2>1. \A t \in new : row'[t].status = "pending"
    BY <1>1 DEF Insert, Absent, TypeOK, Row
  <2>2. \A t \in Task \ new : row'[t] = row[t]
    BY <1>1 DEF Insert
  <2> QED BY <2>1, <2>2
<1>2. ASSUME NEW c \in Coordinator, NEW t \in Task, Seen(c, t).status = "done" PROVE effect[t]
  BY <1>2 DEF Seen, EffectInv
<1>3. ASSUME NEW t \in Task, Enqueue(t) PROVE EffectInv'
  BY <1>1, <1>3 DEF Enqueue, EffectInv, Held
<1>4. ASSUME NEW c \in Coordinator, Claim(c) PROVE EffectInv'
  <2>1. PICK B \in Batch : own' = [own EXCEPT ![c] = [t \in B |-> Claimed(c, row[t])]]
    BY <1>4 DEF Claim
  <2>2. \A r : Claimed(c, r).status # "done"
    BY DEF Claimed
  <2>3. \A t \in Held(c)' : own'[c][t].status # "done"
    BY <2>1, <2>2 DEF Held, TypeOK
  <2>4. \A d \in Coordinator \ {c} : own'[d] = own[d]
    BY <2>1 DEF TypeOK
  <2> QED BY <1>4, <2>3, <2>4 DEF Claim, EffectInv, Held
<1>5. ASSUME NEW c \in Coordinator, StartHandler(c) PROVE EffectInv'
  BY <1>5 DEF StartHandler, EffectInv, Held, TypeOK
<1>6. ASSUME NEW c \in Coordinator, NEW new \in SUBSET Absent, HandlerCommit(c, new)
      PROVE  EffectInv'
  <2>1. \A t \in Task : row'[t].status = "done" => effect[t]
    BY <1>1, <1>6 DEF HandlerCommit, EffectInv
  <2>2. \A t \in Task : effect[t] => effect'[t]
    BY <1>6 DEF HandlerCommit, TypeOK
  <2>3. run' = run /\ own' = own /\ run[c] \in Task /\ effect'[run[c]]
        /\ \A d \in Coordinator \ {c} : applied'[d] = applied[d]
    BY <1>6 DEF HandlerCommit, TypeOK
  <2> QED BY <1>6, <2>1, <2>2, <2>3 DEF EffectInv, Held, TypeOK, HandlerCommit
<1>7. ASSUME NEW c \in Coordinator, NEW r, run[c] # NoTask, Record(c, r),
             r.status = "done" => effect[run[c]]
      PROVE  EffectInv'
  <2>1. run[c] \in Task /\ effect' = effect
    BY <1>7 DEF TypeOK, Record
  <2>2. \A d \in Coordinator : applied'[d] => run'[d] # NoTask /\ effect'[run'[d]]
    BY <1>7, <2>1 DEF Record, EffectInv, TypeOK
  <2>3. \A t \in Task : row'[t].status = "done" => effect[t]
    <3>1. CASE row' = row
      BY <3>1 DEF EffectInv
    <3>2. CASE row' = [t \in Task |-> IF t = run[c] THEN r ELSE Seen(c, t)]
      BY <1>2, <1>7, <3>2
    <3> QED BY <1>7, <3>1, <3>2 DEF Record
  <2>4. \A d \in Coordinator : \A t \in Held(d)' : own'[d][t].status = "done" => effect[t]
    <3>1. CASE own' = own
      BY <3>1 DEF EffectInv, Held
    <3>2. CASE own' = [own EXCEPT ![c] = [t \in {} |-> row[t]]]
      BY <3>2 DEF EffectInv, Held, TypeOK
    <3>3. CASE own' = [own EXCEPT ![c] = [@ EXCEPT ![run[c]] = r]]
      <4>1. \A d \in Coordinator \ {c} : own'[d] = own[d]
        BY <3>3 DEF TypeOK
      <4>2. /\ Held(c)' = Held(c)
            /\ \A t \in Held(c) : own'[c][t] = IF t = run[c] THEN r ELSE own[c][t]
        BY <3>3 DEF TypeOK, Held
      <4> QED BY <1>7, <4>1, <4>2 DEF EffectInv, Held
    <3> QED BY <1>7, <3>1, <3>2, <3>3 DEF Record
  <2> QED BY <2>1, <2>2, <2>3, <2>4 DEF EffectInv
<1>8. ASSUME NEW c \in Coordinator, MarkDone(c) \/ MarkFailed(c) PROVE EffectInv'
  <2>1. CASE MarkDone(c)
    BY <1>7, <2>1 DEF MarkDone, EffectInv
  <2>2. CASE MarkFailed(c)
    <3>1. Seen(c, run[c]) \in Row
      BY <2>2, SeenType DEF MarkFailed, TypeOK
    <3>2. AfterFailure(Seen(c, run[c])).status # "done"
      BY <3>1 DEF AfterFailure, Row
    <3> QED BY <1>7, <2>2, <3>2 DEF MarkFailed
  <2> QED BY <1>8, <2>1, <2>2
<1>9. ASSUME NEW c \in Coordinator, EndIteration(c) PROVE EffectInv'
  <2>1. \A t \in Task : row'[t].status = "done" => effect[t]
    BY <1>2, <1>9 DEF EndIteration
  <2> QED BY <1>9, <2>1 DEF EndIteration, EffectInv, Held, TypeOK
<1>10. ASSUME NEW c \in Coordinator, ResetStuck(c) PROVE EffectInv'
  <2>1. \A t \in Task : Visible(c, t).status = "done" => effect[t]
    BY <1>2 DEF Visible, EffectInv
  <2>2. \A t \in Task : row'[t].status = "done" => effect[t]
    BY <1>10, <2>1 DEF ResetStuck, ResetRow
  <2> QED BY <1>10, <2>2 DEF ResetStuck, EffectInv, Held, TypeOK
<1>11. ASSUME NEW c \in Coordinator, LoseConnection(c) \/ Crash(c) PROVE EffectInv'
  <2>1. row' = row /\ effect' = effect /\ Held(c)' = {}
    BY <1>11 DEF LoseConnection, Crash, Held, TypeOK
  <2>2. applied'[c] => applied[c] /\ run'[c] = run[c]
    BY <1>11 DEF LoseConnection, Crash, TypeOK
  <2>3. \A d \in Coordinator \ {c} : /\ own'[d] = own[d] /\ run'[d] = run[d]
                                     /\ applied'[d] = applied[d]
    BY <1>11 DEF LoseConnection, Crash, TypeOK
  <2> QED BY <2>1, <2>2, <2>3 DEF EffectInv, Held
<1>12. ASSUME UNCHANGED vars PROVE EffectInv'
  BY <1>12 DEF vars, EffectInv, Held
<1>13. CASE Next
  <2>1. CASE \E t \in Task : Enqueue(t)
    BY <1>3, <2>1
  <2>2. CASE \E c \in Coordinator : \E new \in SUBSET Absent : HandlerCommit(c, new)
    BY <1>6, <2>2
  <2> QED BY <1>4, <1>5, <1>8, <1>9, <1>10, <1>11, <1>12, <1>13, <2>1, <2>2 DEF Next, Poll
<1> QED
  BY <1>12, <1>13

\* A task recorded DONE, committed or not, has had its work committed by a
\* handler: in both modes, and whatever is lost or crashes.
THEOREM NoInventedOutcome == Spec => []DoneHasEffect
<1>1. TypeOK /\ EffectInv => DoneHasEffect
  BY DEF TypeOK, EffectInv, DoneHasEffect, Seen
<1>2. Spec => [](TypeOK /\ EffectInv)
  BY TypeInit, TypeStep, EffectInit, EffectStep, PTL DEF Spec
<1> QED BY <1>1, <1>2, PTL

-----------------------------------------------------------------------------
(* TaskQueue implements TaskLifecycle *)

\* The abstract value of a row.
LEMMA AbstractRow ==
    ASSUME NEW r \in Row
    PROVE  /\ Abstract(r).attempts = r.attempts
           /\ r.status = "absent" => Abstract(r).status = "absent"
           /\ r.status = "pending" => Abstract(r).status = "waiting"
           /\ Claimable(r) => Abstract(r).status = "waiting"
  BY DEF Abstract, Claimable, Row

LEMMA LifecycleInitially == Init => Lifecycle!LifecycleInit
<1> SUFFICES ASSUME Init PROVE Lifecycle!LifecycleInit
  OBVIOUS
<1>1. \A t \in Task : Abstract(row[t]) = [status |-> "absent", attempts |-> 0]
  BY DEF Init, Abstract
<1> QED BY <1>1 DEF Lifecycle!LifecycleInit

LEMMA LifecycleStep ==
    ASSUME IsolatedSessions, ClaimInv, TypeOK', Next
    PROVE  Lifecycle!LifecycleNext \/ UNCHANGED [t \in Task |-> Abstract(row[t])]
<1> USE QueueAssumption
<1>1. CASE row' = row
  BY <1>1
<1>2. ASSUME NEW new \in SUBSET Absent, Insert(new) PROVE Lifecycle!LifecycleNext
  <2>1. new \subseteq Task
    BY DEF Absent
  <2>2. \A t \in new : /\ Abstract(row[t]).status = "absent"
                       /\ Abstract(row'[t]) = [Abstract(row[t]) EXCEPT !.status = "waiting"]
    <3> SUFFICES ASSUME NEW t \in new
                 PROVE  /\ Abstract(row[t]).status = "absent"
                        /\ Abstract(row'[t]) = [Abstract(row[t]) EXCEPT !.status = "waiting"]
      OBVIOUS
    <3>1. row'[t] = [row[t] EXCEPT !.status = "pending"] /\ row[t] \in Row
          /\ row[t].status = "absent"
      BY <1>2, <2>1 DEF Insert, Absent, ClaimInv, ClaimCore, TypeOK
    <3>2. row'[t].status = "pending" /\ row'[t].attempts = row[t].attempts
      BY <3>1 DEF Row
    <3>3. Abstract(row[t]) = [status |-> "absent", attempts |-> row[t].attempts]
      BY <3>1 DEF Abstract
    <3>4. Abstract(row'[t]) = [status |-> "waiting", attempts |-> row[t].attempts]
      BY <3>2 DEF Abstract
    <3> QED BY <3>3, <3>4
  <2>3. \A t \in Task \ new : row'[t] = row[t]
    BY <1>2 DEF Insert
  <2>4. Lifecycle!Submit(new)
    BY <2>1, <2>2, <2>3 DEF Lifecycle!Submit
  <2> QED BY <2>1, <2>4 DEF Lifecycle!LifecycleNext
<1>3. ASSUME NEW c \in Coordinator, EndIteration(c) PROVE Lifecycle!LifecycleNext
  <2> DEFINE won == {t \in Held(c) : own[c][t].status = "done"}
  <2>1. ASSUME NEW t \in Held(c)
        PROVE  /\ t \in Task /\ Abstract(row[t]).status = "waiting"
               /\ Abstract(row'[t]) = Lifecycle!Attempted(Abstract(row[t]), t \in won)
    <3>1. t \in Task /\ row[t] \in Row /\ Claimable(row[t]) /\ own[c][t] \in Row
          /\ own[c][t].attempts = row[t].attempts + 1 /\ row'[t] = own[c][t]
      BY <1>3, <2>1 DEF EndIteration, Seen, ClaimInv, ClaimCore, ClaimConsistent, TypeOK
    <3>2. own[c][t].status = "done" \/ own[c][t].status = AfterFailure(own[c][t]).status
      BY <1>3, <2>1, <3>1 DEF EndIteration, BatchOver, ClaimInv, ClaimCore, ClaimConsistent
    <3>3. AfterFailure(own[c][t]).status =
             IF row[t].attempts + 1 < MaxAttempts THEN "retrying" ELSE "failed"
      BY <3>1 DEF AfterFailure, Row
    <3>4. Abstract(row[t]) = [status |-> "waiting", attempts |-> row[t].attempts]
      BY <3>1 DEF Abstract, Claimable
    <3>5. CASE t \in won
      <4>1. Abstract(row'[t]) = [status |-> "done", attempts |-> row[t].attempts + 1]
        BY <3>1, <3>5 DEF Abstract
      <4> QED BY <3>1, <3>4, <3>5, <4>1 DEF Lifecycle!Attempted
    <3>6. CASE t \notin won
      <4>1. Abstract(row'[t]) =
              [status |-> IF row[t].attempts + 1 < MaxAttempts THEN "waiting" ELSE "failed",
               attempts |-> row[t].attempts + 1]
        BY <3>1, <3>2, <3>3, <3>6, <2>1 DEF Abstract
      <4> QED BY <3>1, <3>4, <3>6, <4>1 DEF Lifecycle!Attempted
    <3> QED BY <3>1, <3>4, <3>5, <3>6
  <2>2. \A t \in Task \ Held(c) : row'[t] = row[t]
    BY <1>3 DEF EndIteration, Seen
  <2>3. Lifecycle!Settle(Held(c), won)
    BY <2>1, <2>2 DEF Lifecycle!Settle
  <2>4. Held(c) \in SUBSET Lifecycle!Waiting
    BY <2>1 DEF Lifecycle!Waiting
  <2> QED BY <2>3, <2>4 DEF Lifecycle!LifecycleNext
<1>4. ASSUME NEW c \in Coordinator, ResetStuck(c) PROVE FALSE
  BY <1>4 DEF ResetStuck, Visible, ClaimInv, ClaimCore, CommittedRows
<1>5. ASSUME NEW c \in Coordinator,
             \/ MarkDone(c) \/ MarkFailed(c) \/ Claim(c) \/ Poll(c) \/ StartHandler(c)
             \/ LoseConnection(c) \/ Crash(c)
      PROVE  row' = row
  BY <1>5 DEF MarkDone, MarkFailed, Record, Claim, Poll, StartHandler, LoseConnection, Crash, vars
<1>6. ASSUME NEW t \in Task, Enqueue(t) PROVE Lifecycle!LifecycleNext
  BY <1>2, <1>6 DEF Enqueue
<1>7. ASSUME NEW c \in Coordinator, NEW new \in SUBSET Absent, HandlerCommit(c, new)
      PROVE  Lifecycle!LifecycleNext
  BY <1>2, <1>7 DEF HandlerCommit
<1> QED
  BY <1>1, <1>3, <1>4, <1>5, <1>6, <1>7 DEF Next

\* With isolated sessions the committed table behaves as TaskLifecycle says: a
\* polling iteration settles one attempt of every task of its batch, or none.
THEOREM Refinement == ASSUME IsolatedSessions PROVE Spec => ImplementsLifecycle
<1>1. ClaimInv /\ ClaimInv' /\ [Next]_vars
        => [Lifecycle!LifecycleNext]_([t \in Task |-> Abstract(row[t])])
  BY LifecycleStep DEF ClaimInv, ClaimCore, vars
<1> QED
  BY <1>1, LifecycleInitially, ClaimsInvariant, PTL
  DEF Spec, ImplementsLifecycle, Lifecycle!LifecycleSpec
=============================================================================
