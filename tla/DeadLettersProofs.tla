------------------------- MODULE DeadLettersProofs -------------------------
(***************************************************************************)
(* Theorems about DeadLetters: the claims of TaskQueue survive operators    *)
(* that replay dead letters among them, for any number of operators, tasks, *)
(* coordinators and replays.                                                *)
(***************************************************************************)
EXTENDS DeadLetters, TaskQueueProofs

-----------------------------------------------------------------------------
(* Type correctness *)

\* An UPDATE of a replay leaves a row in the table.
LEMMA ReplayedType ==
    ASSUME NEW r \in Row, NEW now \in Row PROVE Replayed(r, now) \in Row
<1>1. 0 \in 0..MaxAttempts /\ now.attempts \in 0..MaxAttempts
  BY QueueAssumption DEF Row
<1> DEFINE s == IF r.status = "pending" THEN now.status ELSE "pending"
           a == IF r.attempts = 0 THEN now.attempts ELSE 0
<1>2. s \in Status /\ a \in 0..MaxAttempts
  BY <1>1 DEF Row, Status
<1>3. \A x \in Status, y \in 0..MaxAttempts :
         [now EXCEPT !.status = x, !.attempts = y] \in Row
  BY DEF Row
<1>4. Replayed(r, now) = [now EXCEPT !.status = s, !.attempts = a]
  BY DEF Replayed
<1> HIDE DEF s, a
<1> QED BY <1>2, <1>3, <1>4

LEMMA DeadTypeInit == DInit => DTypeOK
  BY TypeInit, DeadLetterAssumption DEF DInit, DTypeOK

LEMMA DeadTypeStep == DTypeOK /\ [DNext]_deadvars => DTypeOK'
<1> SUFFICES ASSUME DTypeOK, [DNext]_deadvars PROVE DTypeOK'
  OBVIOUS
<1> USE DeadLetterAssumption
<1>1. CASE Next /\ UNCHANGED dvars
  BY <1>1, TypeStep DEF dvars, DTypeOK
<1>2. ASSUME UNCHANGED vars PROVE TypeOK'
  BY <1>2, TypeStep DEF DTypeOK
<1>3. ASSUME NEW o \in Operator, Scan(o) \/ List(o) PROVE DTypeOK'
  BY <1>2, <1>3 DEF Scan, List, Doomed, Listed, DTypeOK
<1>4. ASSUME NEW o \in Operator, NEW ts, ts \subseteq Task,
             read' = [read EXCEPT ![o] = [u \in ts |-> row[u]]]
      PROVE  /\ DOMAIN read' = Operator
             /\ \A p \in Operator : /\ DOMAIN read'[p] \subseteq Task
                                    /\ read'[p] \in [DOMAIN read'[p] -> Row]
  <2>1. [u \in ts |-> row[u]] \in [ts -> Row]
    BY <1>4 DEF DTypeOK, TypeOK
  <2>2. /\ DOMAIN read' = Operator /\ read'[o] = [u \in ts |-> row[u]]
        /\ \A p \in Operator \ {o} : read'[p] = read[p]
    BY <1>4 DEF DTypeOK
  <2> QED BY <1>4, <2>1, <2>2 DEF DTypeOK
<1>5. ASSUME NEW o \in Operator, ReplayTask(o) PROVE DTypeOK'
  <2>1. PICK t \in entries[o] : /\ read' = [read EXCEPT ![o] = [u \in {t} |-> row[u]]]
                                /\ entries' = [entries EXCEPT ![o] = @ \ {t}]
    BY <1>5 DEF ReplayTask
  <2>2. {t} \subseteq Task
    BY <2>1 DEF DTypeOK
  <2>3. /\ DOMAIN read' = Operator
        /\ \A p \in Operator : /\ DOMAIN read'[p] \subseteq Task
                               /\ read'[p] \in [DOMAIN read'[p] -> Row]
    BY <1>4, <2>1, <2>2
  <2>4. UNCHANGED <<vars, marked, replays>> /\ entries' \in [Operator -> SUBSET Task]
    BY <1>5, <2>1 DEF ReplayTask, DTypeOK
  <2> QED BY <1>2, <2>3, <2>4 DEF DTypeOK
<1>6. ASSUME NEW o \in Operator, ReplayAll(o) PROVE DTypeOK'
  <2>1. Listed \subseteq Task
    BY DEF Listed, DTypeOK
  <2> QED BY <1>2, <1>4, <1>6, <2>1 DEF ReplayAll, DTypeOK
<1>7. ASSUME NEW o \in Operator, ReplayFails(o) PROVE DTypeOK'
  BY <1>2, <1>4, <1>7 DEF ReplayFails, DTypeOK
<1>8. ASSUME NEW o \in Operator, ReplayCommit(o) PROVE DTypeOK'
  <2>1. row' \in [Task -> Row]
    <3>1. \A t \in Changed(o) : Replayed(read[o][t], row[t]) \in Row
      BY ReplayedType DEF Changed, DTypeOK, TypeOK
    <3> QED BY <1>8, <3>1 DEF ReplayCommit, DTypeOK, TypeOK
  <2>2. replays' \in [Task -> 0..MaxReplays]
    <3>1. \A t \in Changed(o) : t \in Task /\ replays[t] + 1 \in 0..MaxReplays
      BY <1>8 DEF ReplayCommit, Changed, DTypeOK
    <3> QED BY <1>8, <3>1 DEF ReplayCommit, DTypeOK
  <2>3. TypeOK'
    BY <1>8, <2>1 DEF ReplayCommit, DTypeOK, TypeOK, Held
  <2> QED BY <1>4, <1>8, <2>2, <2>3 DEF ReplayCommit, DTypeOK
<1>9. CASE UNCHANGED deadvars
  BY <1>2, <1>9 DEF deadvars, dvars, DTypeOK
<1> QED BY <1>1, <1>3, <1>5, <1>6, <1>7, <1>8, <1>9 DEF DNext, Operate

\* In every reachable state each variable holds a value of its type: no operator
\* has more rows at hand than there are, and no replay breaks a row.
THEOREM DeadLetterTypes == DSpec => []DTypeOK
  BY DeadTypeInit, DeadTypeStep, PTL DEF DSpec

-----------------------------------------------------------------------------
(* Claims and replays *)

\* A row that waits for its first attempt has none counted, and an outcome is an
\* outcome of some attempt: this is how replay_task's UPDATE, which sends what
\* differs from (PENDING, 0), is told to send both columns or none.
Counted(r) ==
    /\ r.status = "pending" => r.attempts = 0
    /\ r.status \in {"retrying", "failed", "done"} => r.attempts # 0

\* t has been FAILED, and has not run since, or has been replayed.
Dead(t) == row[t].status = "failed" \/ replays[t] # 0

DeadInv ==
    /\ DTypeOK
    /\ ClaimInv
    /\ \A t \in Task : Counted(row[t]) /\ (replays[t] # 0 => row[t].status # "absent")
    /\ \A o \in Operator :
        /\ \A t \in entries[o] \cup DOMAIN read[o] : Dead(t)
        /\ \A t \in DOMAIN read[o] :
            Counted(read[o][t]) /\ read[o][t].status \notin {"absent", "processing"}

LEMMA DeadInit == DInit => DeadInv
<1> SUFFICES ASSUME DInit PROVE DeadInv
  OBVIOUS
<1>1. DTypeOK /\ ClaimInv
  BY DeadTypeInit, ClaimInit DEF DInit
<1>2. \A t \in Task : row[t].status = "absent" /\ replays[t] = 0
  BY DEF DInit, Init
<1>3. \A o \in Operator : entries[o] \cup DOMAIN read[o] = {}
  BY DEF DInit
<1> QED BY <1>1, <1>2, <1>3 DEF DeadInv, Counted

\* A step of the queue keeps what the operators know of the rows.
LEMMA DeadQueue ==
    ASSUME IsolatedSessions, DeadInv, DTypeOK', Next, UNCHANGED dvars PROVE DeadInv'
<1>1. ClaimInv'
  BY ClaimStep DEF DeadInv
<1>2. ASSUME NEW t \in Task
      PROVE  /\ Counted(row'[t]) /\ (Dead(t) => Dead(t)')
             /\ row'[t].status = "absent" => row[t].status = "absent"
  <2>1. row[t] \in Row /\ Counted(row[t]) /\ (row[t].status = "absent" => row[t].attempts = 0)
    BY DEF DeadInv, DTypeOK, TypeOK, ClaimInv, CommittedRows
  <2>2. row'[t] = row[t] \/ Inserted(t) \/ \E c \in Coordinator : Settled(c, t)
    BY OnlyQueueSteps, RowChange DEF DeadInv, ClaimInv, DTypeOK
  <2>3. CASE row'[t] = row[t]
    BY <2>1, <2>3 DEF Dead, dvars, Counted
  <2>4. CASE Inserted(t)
    <3>1. row'[t].status = "pending" /\ row'[t].attempts = 0 /\ row[t].status = "absent"
      BY <2>1, <2>4 DEF Inserted, Row
    <3> QED BY <3>1 DEF Dead, dvars, Counted
  <2>5. ASSUME NEW c \in Coordinator, Settled(c, t)
        PROVE  /\ Counted(row'[t]) /\ row'[t].status # "absent"
               /\ row[t].status # "failed"
    <3>1. row[t].attempts \in Nat
      BY <2>1, QueueAssumption DEF Row
    <3>2. row[t].attempts + 1 # 0
      BY <3>1
    <3> QED BY <2>5, <3>2 DEF Settled, Counted, Claimable
  <2> QED BY <2>2, <2>3, <2>4, <2>5 DEF Dead, dvars
<1>3. entries' = entries /\ read' = read /\ replays' = replays
  BY DEF dvars
<1>4. ASSUME NEW o \in Operator
      PROVE  /\ \A t \in entries'[o] \cup DOMAIN read'[o] : Dead(t)'
             /\ \A t \in DOMAIN read'[o] :
                 Counted(read'[o][t]) /\ read'[o][t].status \notin {"absent", "processing"}
  <2>1. entries[o] \cup DOMAIN read[o] \subseteq Task
    BY DEF DeadInv, DTypeOK
  <2>2. /\ \A t \in entries[o] \cup DOMAIN read[o] : Dead(t)
        /\ \A t \in DOMAIN read[o] :
            Counted(read[o][t]) /\ read[o][t].status \notin {"absent", "processing"}
    BY DEF DeadInv
  <2> QED BY <1>2, <1>3, <2>1, <2>2
<1>5. \A t \in Task : Counted(row'[t]) /\ (replays'[t] # 0 => row'[t].status # "absent")
  BY <1>2, <1>3 DEF DeadInv
<1> QED BY <1>1, <1>4, <1>5 DEF DeadInv

\* The rows a replay has loaded are committed rows.
LEMMA DeadRead ==
    ASSUME DeadInv, UNCHANGED <<vars, replays>>, DTypeOK',
           NEW o \in Operator, NEW ts, ts \subseteq Task, \A t \in ts : Dead(t),
           \/ read' = [read EXCEPT ![o] = [u \in ts |-> row[u]]]
           \/ read' = read,
           \A p \in Operator : \A t \in entries'[p] : Dead(t)
    PROVE  DeadInv'
<1>1. ClaimInv' /\ row' = row
  <2>1. UNCHANGED vars
    OBVIOUS
  <2>2. TypeOK' /\ ClaimConsistent' /\ CommittedRows'
    BY <2>1, TypeStep DEF DeadInv, ClaimInv, ClaimCore, vars, ClaimConsistent, CommittedRows,
       Held, BatchOver, Claimable, DTypeOK
  <2> QED BY <2>1, <2>2 DEF ClaimInv, ClaimCore, vars
<1>2. \A t \in Task : Counted(row[t]) /\ Dead(t)' = Dead(t)
  BY <1>1 DEF DeadInv, Dead
<1>3. \A t \in ts : row[t].status \notin {"absent", "processing"}
  BY DEF DeadInv, Dead, ClaimInv, CommittedRows
<1>4. ASSUME NEW p \in Operator, NEW t \in DOMAIN read'[p]
      PROVE  /\ t \in Task /\ Dead(t)
             /\ Counted(read'[p][t]) /\ read'[p][t].status \notin {"absent", "processing"}
  <2>1. CASE read'[p] = read[p]
    BY <1>4, <2>1 DEF DeadInv, DTypeOK
  <2>2. CASE read'[p] = [u \in ts |-> row[u]]
    BY <1>2, <1>3, <1>4, <2>2
  <2>3. read'[p] = read[p] \/ read'[p] = [u \in ts |-> row[u]]
    BY DEF DeadInv, DTypeOK
  <2> QED BY <2>1, <2>2, <2>3
<1>5. \A p \in Operator : entries'[p] \subseteq Task
  BY DEF DTypeOK
<1>6. \A t \in Task : row'[t] = row[t] /\ replays'[t] = replays[t]
  BY <1>1
<1> QED BY <1>1, <1>2, <1>4, <1>5, <1>6 DEF DeadInv

\* What a replay commits: the rows it changes become PENDING with no attempt.
LEMMA ReplayedRow ==
    ASSUME DeadInv, NEW o \in Operator, ReplayCommit(o), NEW t \in Changed(o)
    PROVE  /\ t \in Task
           /\ row'[t].status = "pending" /\ row'[t].attempts = 0
           /\ \A c \in Coordinator : t \notin Held(c)
<1>1. /\ t \in DOMAIN read[o] /\ t \in Task /\ read[o][t] \in Row /\ row[t] \in Row
      /\ read[o][t].status # "pending" \/ read[o][t].attempts # 0
  BY DEF Changed, DeadInv, DTypeOK, TypeOK
<1>2. read[o][t].status # "pending" /\ read[o][t].attempts # 0
  BY <1>1 DEF DeadInv, Counted, Row, Status
<1>3. row'[t] = Replayed(read[o][t], row[t])
  BY <1>1 DEF ReplayCommit
<1>4. Replayed(read[o][t], row[t]) = [row[t] EXCEPT !.status = "pending", !.attempts = 0]
  BY <1>2 DEF Replayed
<1>5. \A r \in Row : /\ [r EXCEPT !.status = "pending", !.attempts = 0].status = "pending"
                     /\ [r EXCEPT !.status = "pending", !.attempts = 0].attempts = 0
  BY DEF Row
<1>6. \A c \in Coordinator : t \notin Held(c)
  BY DEF ReplayCommit, Blocked, Locked
<1> QED BY <1>1, <1>3, <1>4, <1>5, <1>6

LEMMA DeadReplay ==
    ASSUME DeadInv, DTypeOK', NEW o \in Operator, ReplayCommit(o) PROVE DeadInv'
<1>1. \A t \in Task \ Changed(o) : row'[t] = row[t] /\ replays'[t] = replays[t]
  BY DEF ReplayCommit
<1>2. \A t \in Changed(o) : replays'[t] # 0
  <2>1. \A t \in Changed(o) : t \in Task /\ replays[t] \in Nat
    BY DeadLetterAssumption DEF DeadInv, DTypeOK, Changed
  <2>2. \A t \in Changed(o) : replays'[t] = replays[t] + 1
    BY <2>1 DEF ReplayCommit
  <2>3. \A n \in Nat : n + 1 # 0
    OBVIOUS
  <2> QED BY <2>1, <2>2, <2>3
<1>3. UNCHANGED <<own, tx, todo, run, entries>>
  BY DEF ReplayCommit
<1>4. \A d \in Coordinator : Held(d)' = Held(d) /\ Held(d) \subseteq Task /\ Held(d) \cap Changed(o) = {}
  BY <1>3, ReplayedRow DEF Held, DeadInv, DTypeOK, TypeOK
<1>5. ClaimInv'
  <2>1. ClaimConsistent'
    BY <1>1, <1>3, <1>4 DEF DeadInv, ClaimInv, ClaimCore, ClaimConsistent, BatchOver, Claimable
  <2>2. CommittedRows'
    <3>1. 0 < MaxAttempts
      BY QueueAssumption
    <3> QED BY <1>1, <3>1, ReplayedRow DEF DeadInv, ClaimInv, CommittedRows
  <2> QED BY <2>1, <2>2 DEF ClaimInv, ClaimCore, DTypeOK
<1>6. \A t \in Task : Counted(row'[t]) /\ (replays'[t] # 0 => row'[t].status # "absent")
  BY <1>1, ReplayedRow DEF DeadInv, Counted
<1>7. \A t \in Task : Dead(t) => Dead(t)'
  BY <1>1, <1>2 DEF Dead
<1>8. \A p \in Operator : read'[p] = read[p] \/ DOMAIN read'[p] = {}
  BY DEF ReplayCommit
<1>9. \A p \in Operator : entries[p] \cup DOMAIN read[p] \subseteq Task
  BY DEF DeadInv, DTypeOK
<1> QED BY <1>3, <1>5, <1>6, <1>7, <1>8, <1>9 DEF DeadInv

LEMMA DeadStep == ASSUME IsolatedSessions PROVE DeadInv /\ [DNext]_deadvars => DeadInv'
<1> SUFFICES ASSUME DeadInv, [DNext]_deadvars PROVE DeadInv'
  OBVIOUS
<1> DTypeOK'
  BY DeadTypeStep DEF DeadInv
<1>1. CASE Next /\ UNCHANGED dvars
  BY <1>1, DeadQueue
<1>2. ASSUME NEW o \in Operator, Scan(o) \/ List(o) PROVE DeadInv'
  <2>1. UNCHANGED <<vars, read, replays>>
    BY <1>2 DEF Scan, List
  <2>2. \A p \in Operator : \A t \in entries'[p] : Dead(t)
    <3>1. \A p \in Operator : entries'[p] \in {entries[p], Doomed, Listed}
      BY <1>2 DEF Scan, List, DeadInv, DTypeOK
    <3>2. \A t \in Doomed \cup Listed : Dead(t)
      BY DEF Doomed, Listed, Dead
    <3> QED BY <3>1, <3>2 DEF DeadInv
  <2> DEFINE ts == {}
  <2>3. ts \subseteq Task /\ \A t \in ts : Dead(t)
    OBVIOUS
  <2>4. UNCHANGED <<vars, replays>> /\ read' = read
    BY <2>1
  <2> HIDE DEF ts
  <2> QED BY <2>2, <2>3, <2>4, DeadRead
<1>3. ASSUME NEW o \in Operator, ReplayTask(o) PROVE DeadInv'
  <2>1. PICK t \in entries[o] : /\ read' = [read EXCEPT ![o] = [u \in {t} |-> row[u]]]
                                /\ entries' = [entries EXCEPT ![o] = @ \ {t}]
    BY <1>3 DEF ReplayTask
  <2>2. UNCHANGED <<vars, replays>>
    BY <1>3 DEF ReplayTask
  <2>3. {t} \subseteq Task /\ \A u \in {t} : Dead(u)
    BY <2>1 DEF DeadInv, DTypeOK
  <2>4. \A p \in Operator : \A u \in entries'[p] : Dead(u)
    BY <2>1 DEF DeadInv, DTypeOK
  <2> QED BY <2>1, <2>2, <2>3, <2>4, DeadRead
<1>4. ASSUME NEW o \in Operator, ReplayAll(o) PROVE DeadInv'
  <2>1. Listed \subseteq Task /\ \A t \in Listed : Dead(t)
    BY DEF Listed, DeadInv, DTypeOK, Dead
  <2>2. UNCHANGED <<vars, replays, entries>>
    BY <1>4 DEF ReplayAll
  <2> QED BY <1>4, <2>1, <2>2, DeadRead DEF ReplayAll, DeadInv
<1>5. ASSUME NEW o \in Operator, ReplayFails(o) PROVE DeadInv'
  BY <1>5, DeadRead DEF ReplayFails, DeadInv
<1>6. ASSUME NEW o \in Operator, ReplayCommit(o) PROVE DeadInv'
  BY <1>6, DeadReplay
<1>7. CASE UNCHANGED deadvars
  BY <1>7 DEF deadvars, vars, dvars, DeadInv, ClaimInv, ClaimCore, ClaimConsistent, CommittedRows,
     Held, BatchOver, Claimable, Dead, Counted, DTypeOK, TypeOK
<1> QED BY <1>1, <1>2, <1>3, <1>4, <1>5, <1>6, <1>7 DEF DNext, Operate

LEMMA DeadInvariant == ASSUME IsolatedSessions PROVE DSpec => []DeadInv
<1>1. DeadInv /\ [DNext]_deadvars => DeadInv'
  BY DeadStep
<1> QED BY <1>1, DeadInit, PTL DEF DSpec

\* A replay never leaves a task waiting with its attempts used up, and no claim
\* of the queue is disturbed by replays (error_handler.py:127-143, queue_manager.py:86-94).
THEOREM ReplaysKeepClaims == ASSUME IsolatedSessions PROVE DSpec => [](ClaimConsistent /\ NoStranded)
<1>1. DeadInv => ClaimConsistent /\ NoStranded
  BY DEF DeadInv, ClaimInv, ClaimCore, CommittedRows, NoStranded, Claimable
<1> QED BY <1>1, DeadInvariant, PTL

\* Only a replay reopens a finished row, and gives it all its attempts; a DONE
\* row is reopened only by an entry older than an earlier replay of the task.
THEOREM OnlyReplaysReopen == ASSUME IsolatedSessions PROVE DSpec => ReopenedByReplay
<1> DEFINE Reopened ==
      \A t \in Task :
        row[t].status \in {"done", "failed"} /\ row'[t] # row[t] =>
            /\ row'[t].status = "pending" /\ row'[t].attempts = 0
            /\ row[t].status = "done" => replays[t] > 0
<1>1. DeadInv /\ [DNext]_deadvars => [Reopened]_deadvars
  <2> SUFFICES ASSUME DeadInv, DNext PROVE Reopened
    OBVIOUS
  <2>1. CASE Next
    <3>1. TypeOK' /\ ClaimInv
      BY <2>1, TypeStep DEF DeadInv, DTypeOK
    <3> QED BY <2>1, <3>1, IsolatedAdvance DEF Advance
  <2>2. ASSUME NEW o \in Operator, ReplayCommit(o), NEW t \in Task,
               row[t].status = "done", t \in Changed(o)
        PROVE  replays[t] > 0
    <3>1. replays[t] # 0
      BY <2>2 DEF Changed, DeadInv, Dead
    <3>2. replays[t] \in Nat
      BY DeadLetterAssumption DEF DeadInv, DTypeOK
    <3> QED BY <3>1, <3>2
  <2>3. ASSUME NEW o \in Operator, ReplayCommit(o) PROVE Reopened
    <3>1. \A t \in Task \ Changed(o) : row'[t] = row[t]
      BY <2>3 DEF ReplayCommit
    <3> QED BY <2>2, <2>3, <3>1, ReplayedRow
  <2>4. ASSUME NEW o \in Operator,
               Scan(o) \/ List(o) \/ ReplayTask(o) \/ ReplayAll(o) \/ ReplayFails(o)
        PROVE  row' = row
    BY <2>4 DEF Scan, List, ReplayTask, ReplayAll, ReplayFails, vars
  <2> QED BY <2>1, <2>3, <2>4 DEF DNext, Operate
<1> QED BY <1>1, DeadInvariant, PTL DEF DSpec, ReopenedByReplay

-----------------------------------------------------------------------------
(* How often a replayed task runs, in both modes *)

\* ExecInv, with MaxAttempts more starts for each replay.
ReplayInv ==
    /\ DTypeOK
    /\ HoldInv
    /\ \A t \in Task :
        /\ IsFiniteSet(Unheld(t)) /\ IsFiniteSet(Started(t))
        /\ starts[t] + Cardinality(Unheld(t))
             <= (Credit(t) + MaxAttempts * replays[t]) + Cardinality(Started(t))

LEMMA ReplayInit == DInit => ReplayInv
<1> SUFFICES ASSUME DInit PROVE ReplayInv
  OBVIOUS
<1>1. ExecInv /\ DTypeOK
  BY ExecInit, DeadTypeInit DEF DInit
<1>2. \A t \in Task : MaxAttempts * replays[t] = 0
  BY QueueAssumption DEF DInit
<1>3. \A t \in Task : Credit(t) \in Nat
  BY <1>1, QueueAssumption DEF DTypeOK, Credit, TypeOK, Row
<1>4. \A t \in Task : Credit(t) + MaxAttempts * replays[t] = Credit(t)
  BY <1>2, <1>3
<1> QED BY <1>1, <1>4 DEF ReplayInv, ExecInv

LEMMA ReplayStep == ReplayInv /\ [DNext]_deadvars => ReplayInv'
<1> SUFFICES ASSUME ReplayInv, [DNext]_deadvars PROVE ReplayInv'
  OBVIOUS
<1> USE QueueAssumption, DeadLetterAssumption
<1>1. DTypeOK'
  BY DeadTypeStep DEF ReplayInv
<1>2. ASSUME NEW t \in Task
      PROVE  /\ starts[t] \in Nat /\ Credit(t) \in Nat /\ replays[t] \in Nat
             /\ starts'[t] \in Nat /\ Credit(t)' \in Nat /\ replays'[t] \in Nat
             /\ MaxAttempts * replays[t] \in Nat /\ MaxAttempts * replays'[t] \in Nat
  <2>1. /\ starts[t] \in Nat /\ Credit(t) \in Nat /\ replays[t] \in Nat
        /\ starts'[t] \in Nat /\ Credit(t)' \in Nat /\ replays'[t] \in Nat
    BY <1>1 DEF ReplayInv, DTypeOK, TypeOK, Row, Credit
  <2>2. \A n \in Nat : MaxAttempts * n \in Nat
    OBVIOUS
  <2> QED BY <2>1, <2>2
<1>3. CASE [Next]_vars /\ replays' = replays
  <2>1. TypeOK /\ TypeOK' /\ HoldInv /\ HoldInv'
    BY <1>1, <1>3, HoldStep DEF ReplayInv, DTypeOK
  <2>2. ASSUME NEW t \in Task
        PROVE  /\ IsFiniteSet(Unheld(t))' /\ IsFiniteSet(Started(t))'
               /\ (starts[t] + Cardinality(Unheld(t))
                    <= (Credit(t) + MaxAttempts * replays[t]) + Cardinality(Started(t)))'
    <3>1. PICK c : Balanced(c, t)
      BY <1>3, <2>1, StepBalanced
    <3> DEFINE x == MaxAttempts * replays[t]
               m == Credit(t) + x
               n == Credit(t)' + x
    <3>2. x \in Nat /\ m \in Nat /\ n \in Nat
      BY <1>2
    <3>3. /\ IsFiniteSet(Unheld(t)) /\ IsFiniteSet(Started(t))
          /\ starts[t] + Cardinality(Unheld(t)) <= m + Cardinality(Started(t))
      BY DEF ReplayInv
    <3>4. starts'[t] + In(c, Unheld(t)') + In(c, Started(t)) + m
             <= n + In(c, Started(t)') + In(c, Unheld(t)) + starts[t]
      <4>1. \A y, S : In(y, S) \in Nat
        BY DEF In
      <4>2. starts'[t] + In(c, Unheld(t)') + In(c, Started(t)) + Credit(t)
             <= Credit(t)' + In(c, Started(t)') + In(c, Unheld(t)) + starts[t]
        BY <3>1 DEF Balanced
      <4> HIDE DEF x
      <4> QED BY <1>2, <3>2, <4>1, <4>2
    <3>5. Unheld(t)' \ {c} = Unheld(t) \ {c} /\ Started(t)' \ {c} = Started(t) \ {c}
      BY <3>1 DEF Balanced
    <3>6. n = (Credit(t) + MaxAttempts * replays[t])'
      BY <1>3
    <3> HIDE DEF m, n
    <3>7. /\ IsFiniteSet(Unheld(t)') /\ IsFiniteSet(Started(t)')
          /\ starts'[t] + Cardinality(Unheld(t)') <= n + Cardinality(Started(t)')
      BY <1>2, <3>2, <3>3, <3>4, <3>5, Balance
    <3> QED BY <3>6, <3>7
  <2> QED BY <1>1, <2>1, <2>2 DEF ReplayInv
<1>4. ASSUME NEW o \in Operator, ReplayCommit(o) PROVE ReplayInv'
  <2>1. UNCHANGED <<own, tx, todo, starts, crashes, losses>>
    BY <1>4 DEF ReplayCommit
  <2>2. \A c \in Coordinator : Held(c)' = Held(c) /\ Held(c) \cap Changed(o) = {}
                               /\ Held(c) \subseteq Task
    BY <1>4, <2>1 DEF ReplayCommit, Blocked, Locked, Held, ReplayInv, DTypeOK, TypeOK
  <2>3. \A t \in Task \ Changed(o) : row'[t] = row[t] /\ replays'[t] = replays[t]
    BY <1>4 DEF ReplayCommit
  <2>4. HoldInv'
    BY <2>1, <2>2, <2>3 DEF ReplayInv, HoldInv
  <2>5. \A t \in Task : Unheld(t)' = Unheld(t) /\ Started(t)' = Started(t)
    BY <2>1, <2>2 DEF Unheld, Started
  <2>6. ASSUME NEW t \in Task
        PROVE  Credit(t) + MaxAttempts * replays[t] <= Credit(t)' + MaxAttempts * replays'[t]
    <3>1. CASE t \notin Changed(o)
      <4>1. Credit(t)' = Credit(t) /\ replays'[t] = replays[t]
        BY <2>1, <2>3, <3>1 DEF Credit
      <4> QED BY <1>2, <4>1
    <3>2. CASE t \in Changed(o)
      <4>1. replays'[t] = replays[t] + 1
        BY <1>4, <3>2 DEF ReplayCommit
      <4>2. MaxAttempts * (replays[t] + 1) = MaxAttempts * replays[t] + MaxAttempts
        BY <1>2
      <4>3. row[t].attempts \in 0..MaxAttempts /\ crashes \in Nat /\ losses \in Nat
        BY DEF ReplayInv, DTypeOK, TypeOK, Row
      <4>4. Credit(t)' >= crashes + losses
        <5>1. row'[t].attempts \in Nat
          BY <1>1 DEF DTypeOK, TypeOK, Row
        <5>2. row'[t].attempts + crashes + losses >= crashes + losses
          BY <4>3, <5>1
        <5> QED BY <2>1, <5>2 DEF Credit
      <4>5. Credit(t) <= MaxAttempts + crashes + losses
        BY <4>3 DEF Credit
      <4>6. Credit(t) + MaxAttempts * replays[t]
              <= Credit(t)' + (MaxAttempts * replays[t] + MaxAttempts)
        BY <1>2, <4>3, <4>4, <4>5
      <4> QED BY <4>1, <4>2, <4>6
    <3> QED BY <3>1, <3>2
  <2>7. ASSUME NEW t \in Task
        PROVE  starts'[t] + Cardinality(Unheld(t))
                 <= (Credit(t)' + MaxAttempts * replays'[t]) + Cardinality(Started(t))
    <3>1. /\ Cardinality(Unheld(t)) \in Nat /\ Cardinality(Started(t)) \in Nat
          /\ starts[t] + Cardinality(Unheld(t))
               <= (Credit(t) + MaxAttempts * replays[t]) + Cardinality(Started(t))
      BY FS_CardinalityType DEF ReplayInv
    <3>2. starts[t] + Cardinality(Unheld(t))
                 <= (Credit(t)' + MaxAttempts * replays'[t]) + Cardinality(Started(t))
      BY <1>2, <2>6, <3>1
    <3> QED BY <2>1, <3>2
  <2> QED BY <1>1, <2>4, <2>5, <2>7 DEF ReplayInv
<1>5. ASSUME NEW o \in Operator,
             Scan(o) \/ List(o) \/ ReplayTask(o) \/ ReplayAll(o) \/ ReplayFails(o)
      PROVE  UNCHANGED vars /\ replays' = replays
  BY <1>5 DEF Scan, List, ReplayTask, ReplayAll, ReplayFails
<1> QED BY <1>3, <1>4, <1>5 DEF DNext, Operate, dvars, deadvars

\* A replay gives a task MaxAttempts executions and no more, in both modes and
\* whenever it lands: also on a row that another session has replayed, claimed or
\* settled since it was read (error_handler.py:127-149).
THEOREM ReplaysBounded == DSpec => []ReplayBound
<1>1. ReplayInv => ReplayBound
  <2> SUFFICES ASSUME ReplayInv, NEW t \in Task
               PROVE  starts[t] <= row[t].attempts + MaxAttempts * replays[t] + crashes + losses
                                     + Cardinality(Started(t))
    BY DEF ReplayBound, Started
  <2>1. /\ Cardinality(Unheld(t)) \in Nat /\ Cardinality(Started(t)) \in Nat
        /\ starts[t] \in Nat /\ replays[t] \in Nat
        /\ row[t].attempts \in Nat /\ crashes \in Nat /\ losses \in Nat
    BY FS_CardinalityType, QueueAssumption, DeadLetterAssumption
       DEF ReplayInv, DTypeOK, TypeOK, Row
  <2>2. starts[t] + Cardinality(Unheld(t))
          <= (row[t].attempts + crashes + losses + MaxAttempts * replays[t])
               + Cardinality(Started(t))
    BY DEF ReplayInv, Credit
  <2>3. MaxAttempts * replays[t] \in Nat
    BY <2>1, QueueAssumption
  <2> QED BY <2>1, <2>2, <2>3
<1> QED BY <1>1, ReplayInit, ReplayStep, PTL DEF DSpec
=============================================================================
