----------------------------- MODULE TaskQueue -----------------------------
(***************************************************************************)
(* The durable task queue of CARQ: the rows of processing_tasks, written by *)
(* QueueManager (src/carq/queue/queue_manager.py), and the coordinators     *)
(* that poll it, run one handler at a time and record the outcome           *)
(* (src/carq/worker/task_coordinator.py, worker_pool.py).                   *)
(*                                                                          *)
(* A coordinator works in one of the two modes of TaskCoordinator.          *)
(*   IsolatedSessions = TRUE   db_manager is given (what carq-worker runs): *)
(*     one database transaction spans a whole polling iteration, from the   *)
(*     claim to the outcome of the last task of the batch.                  *)
(*   IsolatedSessions = FALSE  the legacy shared session: one transaction   *)
(*     per task, so that PROCESSING rows become visible, and the loop that  *)
(*     recovers stuck tasks works on the same session.                      *)
(*                                                                          *)
(* A transaction is the function own[c]: the rows it wrote and has not      *)
(* committed.  Its domain is the set of rows it locks.                      *)
(***************************************************************************)
EXTENDS Integers, FiniteSets

CONSTANTS
    Task,              \* the rows of processing_tasks
    Coordinator,       \* coordinators, one worker pool each (runner.py:210-231)
    NoTask, NoWorker,  \* null values
    MaxAttempts,       \* ProcessingTask.max_attempts
    BatchSize,         \* WorkerConfig.max_workers: the LIMIT of a claim
    Rank,              \* place of a task in ORDER BY priority DESC, created_at
    IsolatedSessions,  \* db_manager given, or the legacy shared session
    MaxCrashes,        \* bound: crashes and cancelled iterations
    MaxLosses          \* bound: claim connections lost by the database

ASSUME QueueAssumption ==
    /\ MaxAttempts \in Nat \ {0}
    /\ BatchSize \in Nat \ {0}
    /\ Rank \in [Task -> Nat]
    /\ IsolatedSessions \in BOOLEAN
    /\ MaxCrashes \in Nat
    /\ MaxLosses \in Nat
    /\ NoTask \notin Task
    /\ NoWorker \notin Coordinator
    \* "apenas setups de worker único" (task_coordinator.py:130)
    /\ IsolatedSessions \/ \A c, d \in Coordinator : c = d

VARIABLES
    row,      \* row[t]: the committed row of task t
    own,      \* own[c]: uncommitted rows of c's claim transaction
    tx,       \* tx[c]: "idle", "open", or "lost" (rolled back by the database)
    todo,     \* todo[c]: tasks of the current batch not started yet
    run,      \* run[c]: the task whose handler c awaits
    applied,  \* applied[c]: that handler has committed its own transaction
    effect,   \* effect[t]: some handler committed the work of t
    starts,   \* starts[t]: handler executions of t so far
    crashes, losses

vars == <<row, own, tx, todo, run, applied, effect, starts, crashes, losses>>

Status == {"absent", "pending", "processing", "done", "failed", "retrying"}

Row == [status : Status, attempts : 0..MaxAttempts, worker : Coordinator \cup {NoWorker}]

Held(c) == DOMAIN own[c]

\* A row as the session of c reads it: its own writes first.
Seen(c, t) == IF t \in Held(c) THEN own[c][t] ELSE row[t]

Init ==
    /\ row = [t \in Task |-> [status |-> "absent", attempts |-> 0, worker |-> NoWorker]]
    /\ own = [c \in Coordinator |-> [t \in {} |-> row[t]]]
    /\ tx = [c \in Coordinator |-> "idle"]
    /\ todo = [c \in Coordinator |-> {}]
    /\ run = [c \in Coordinator |-> NoTask]
    /\ applied = [c \in Coordinator |-> FALSE]
    /\ effect = [t \in Task |-> FALSE]
    /\ starts = [t \in Task |-> 0]
    /\ crashes = 0
    /\ losses = 0

-----------------------------------------------------------------------------
(* Enqueue *)

Absent == {t \in Task : row[t].status = "absent"}

\* The rows of new are inserted by the transaction that commits now.
Insert(new) ==
    row' = [t \in Task |-> IF t \in new THEN [row[t] EXCEPT !.status = "pending"] ELSE row[t]]

Enqueue(t) ==
    /\ t \in Absent
    /\ Insert({t})
    /\ UNCHANGED <<own, tx, todo, run, applied, effect, starts, crashes, losses>>

-----------------------------------------------------------------------------
(* Claim: SELECT ... FOR UPDATE SKIP LOCKED *)

\* Bugs: the attempt limit is not looked at, or RETRYING rows are overlooked
\* (the condition of ProcessingTask.can_be_claimed).
BugClaimsFinished(r) == r.status \in {"pending", "retrying", "failed"}
BugClaimsPendingOnly(r) == r.status = "pending" /\ r.attempts < MaxAttempts

Claimable(r) == r.status \in {"pending", "retrying"} /\ r.attempts < MaxAttempts

Locked(t) == \E c \in Coordinator : t \in Held(c)

\* Bug: a plain SELECT, without FOR UPDATE SKIP LOCKED.
BugFree == {t \in Task : Claimable(row[t])}

Free == {t \in Task : Claimable(row[t]) /\ ~Locked(t)}

\* The rows ORDER BY ... LIMIT BatchSize may return (ties in any order).
Batch ==
    {B \in SUBSET Free :
        /\ B # {}
        /\ Cardinality(B) <= BatchSize
        /\ Cardinality(B) < BatchSize => B = Free
        /\ \A t \in B, u \in Free \ B : Rank[t] <= Rank[u]}

\* Bug: the attempt is not counted.
BugClaimed(c, r) == [status |-> "processing", attempts |-> r.attempts, worker |-> c]

Claimed(c, r) == [status |-> "processing", attempts |-> r.attempts + 1, worker |-> c]

Claim(c) ==
    /\ tx[c] = "idle"
    /\ \E B \in Batch :
        /\ own' = [own EXCEPT ![c] = [t \in B |-> Claimed(c, row[t])]]
        /\ todo' = [todo EXCEPT ![c] = B]
    /\ tx' = [tx EXCEPT ![c] = "open"]
    /\ UNCHANGED <<row, run, applied, effect, starts, crashes, losses>>

\* Bug: the claim is committed before the batch is worked off.
BugBatchOver(c) == run[c] = NoTask

BatchOver(c) == todo[c] = {} /\ run[c] = NoTask

\* An iteration that changes nothing: no free row, or a legacy session that is
\* in error and that no code path rolls back.
Poll(c) ==
    /\ \/ tx[c] = "idle" /\ Free = {}
       \/ ~IsolatedSessions /\ tx[c] = "lost" /\ BatchOver(c)
    /\ UNCHANGED vars

-----------------------------------------------------------------------------
(* One task of the batch: run the handler, record its outcome *)

StartHandler(c) ==
    /\ run[c] = NoTask
    /\ \E t \in todo[c] :
        /\ \A u \in todo[c] : Rank[t] <= Rank[u]
        /\ run' = [run EXCEPT ![c] = t]
        /\ todo' = [todo EXCEPT ![c] = @ \ {t}]
        /\ starts' = [starts EXCEPT ![t] = @ + 1]
    /\ UNCHANGED <<row, own, tx, applied, effect, crashes, losses>>

\* The handler's own transaction commits, with the tasks new it enqueued.
\* Unique constraints make a second execution fail once the work is there.
HandlerCommit(c, new) ==
    /\ run[c] # NoTask
    /\ ~effect[run[c]]
    /\ Insert(new)
    /\ effect' = [effect EXCEPT ![run[c]] = TRUE]
    /\ applied' = [applied EXCEPT ![c] = TRUE]
    /\ UNCHANGED <<own, tx, todo, run, starts, crashes, losses>>

AfterDone(r) == [r EXCEPT !.status = "done"]

\* Bug: one attempt too many is scheduled.
BugAfterFailure(r) ==
    [r EXCEPT !.status = IF r.attempts <= MaxAttempts THEN "retrying" ELSE "failed"]

AfterFailure(r) ==
    [r EXCEPT !.status = IF r.attempts < MaxAttempts THEN "retrying" ELSE "failed"]

\* The outcome r of the running task is written: into the open transaction,
\* committed at once by a shared session, or refused by a lost one.
Record(c, r) ==
    /\ run' = [run EXCEPT ![c] = NoTask]
    /\ applied' = [applied EXCEPT ![c] = FALSE]
    /\ \/ tx[c] = "lost" /\ UNCHANGED <<row, own>>
       \/ /\ tx[c] # "lost" /\ IsolatedSessions
          /\ own' = [own EXCEPT ![c] = [@ EXCEPT ![run[c]] = r]]
          /\ UNCHANGED row
       \/ /\ tx[c] # "lost" /\ ~IsolatedSessions
          /\ row' = [t \in Task |-> IF t = run[c] THEN r ELSE Seen(c, t)]
          /\ own' = [own EXCEPT ![c] = [t \in {} |-> row[t]]]
    /\ UNCHANGED <<tx, todo, effect, starts, crashes, losses>>

\* Bug: the outcome is recorded before the handler is awaited.
BugMarkDone(c) ==
    /\ run[c] # NoTask
    /\ Record(c, AfterDone(Seen(c, run[c])))

\* process_task returned (True, None): the handler ran to its end.
MarkDone(c) ==
    /\ run[c] # NoTask
    /\ applied[c]
    /\ Record(c, AfterDone(Seen(c, run[c])))

\* process_task returned (False, error): no handler, an exception, a timeout,
\* or an exception raised after the handler committed (worker_pool.py:87-94).
MarkFailed(c) ==
    /\ run[c] # NoTask
    /\ Record(c, AfterFailure(Seen(c, run[c])))

\* The batch is over: get_session commits, or rolls a lost transaction back.
EndIteration(c) ==
    /\ tx[c] = "open" \/ (tx[c] = "lost" /\ IsolatedSessions)
    /\ BatchOver(c)
    /\ row' = [t \in Task |-> Seen(c, t)]
    /\ own' = [own EXCEPT ![c] = [t \in {} |-> row[t]]]
    /\ tx' = [tx EXCEPT ![c] = "idle"]
    /\ UNCHANGED <<todo, run, applied, effect, starts, crashes, losses>>

-----------------------------------------------------------------------------
(* Recovery of stuck tasks.  The age of a row is not modelled: any of the    *)
(* PROCESSING rows the session reads may be older than the timeout.          *)

Visible(c, t) == IF IsolatedSessions THEN row[t] ELSE Seen(c, t)

ResetRow(r) == [status |-> "pending", attempts |-> r.attempts, worker |-> NoWorker]

ResetStuck(c) ==
    /\ IsolatedSessions \/ tx[c] # "lost"
    /\ \E stuck \in SUBSET {t \in Task : Visible(c, t).status = "processing"} :
        /\ stuck # {}
        /\ \A t \in stuck, d \in Coordinator : t \in Held(d) => ~IsolatedSessions /\ d = c
        /\ row' = [t \in Task |-> IF t \in stuck THEN ResetRow(Visible(c, t))
                                                 ELSE Visible(c, t)]
    /\ own' = IF IsolatedSessions THEN own ELSE [own EXCEPT ![c] = [t \in {} |-> row[t]]]
    /\ UNCHANGED <<tx, todo, run, applied, effect, starts, crashes, losses>>

-----------------------------------------------------------------------------
(* Failures *)

\* The claim transaction dies under a coordinator that keeps running the rest
\* of its batch: the locks are gone and every later write of it is refused.
LoseConnection(c) ==
    /\ losses < MaxLosses
    /\ tx[c] = "open"
    /\ tx' = [tx EXCEPT ![c] = "lost"]
    /\ own' = [own EXCEPT ![c] = [t \in {} |-> row[t]]]
    /\ losses' = losses + 1
    /\ UNCHANGED <<row, todo, run, applied, effect, starts, crashes>>

\* The process dies, or stop() cancels the loop; the worker is started again.
Crash(c) ==
    /\ crashes < MaxCrashes
    /\ tx[c] # "idle"
    /\ tx' = [tx EXCEPT ![c] = "idle"]
    /\ own' = [own EXCEPT ![c] = [t \in {} |-> row[t]]]
    /\ todo' = [todo EXCEPT ![c] = {}]
    /\ run' = [run EXCEPT ![c] = NoTask]
    /\ applied' = [applied EXCEPT ![c] = FALSE]
    /\ crashes' = crashes + 1
    /\ UNCHANGED <<row, effect, starts, losses>>

-----------------------------------------------------------------------------
Step(c) == Claim(c) \/ StartHandler(c) \/ MarkDone(c) \/ MarkFailed(c) \/ EndIteration(c)

Next ==
    \/ \E t \in Task : Enqueue(t)
    \/ \E c \in Coordinator :
        \/ Claim(c) \/ Poll(c) \/ StartHandler(c)
        \/ \E new \in SUBSET Absent : HandlerCommit(c, new)
        \/ MarkDone(c) \/ MarkFailed(c) \/ EndIteration(c)
        \/ ResetStuck(c) \/ LoseConnection(c) \/ Crash(c)

Spec == Init /\ [][Next]_vars

\* The three loops of a coordinator run for as long as its process, and
\* wait_for bounds every handler.
FairSpec == Spec /\ \A c \in Coordinator : WF_vars(Step(c))

\* Only the coordinators in S are sure to go on, with their recovery loops.  Any
\* other one may hang (a handler blocks its event loop, its process is suspended)
\* while its connection and the locks of its claim stay.
Survivors(S) == \A c \in S : WF_vars(Step(c)) /\ WF_vars(ResetStuck(c))

-----------------------------------------------------------------------------
(* Properties *)

TypeOK ==
    /\ row \in [Task -> Row]
    /\ DOMAIN own = Coordinator
    /\ \A c \in Coordinator : Held(c) \subseteq Task /\ own[c] \in [Held(c) -> Row]
    /\ tx \in [Coordinator -> {"idle", "open", "lost"}]
    /\ todo \in [Coordinator -> SUBSET Task]
    /\ run \in [Coordinator -> Task \cup {NoTask}]
    /\ applied \in [Coordinator -> BOOLEAN]
    /\ effect \in [Task -> BOOLEAN]
    /\ starts \in [Task -> Nat]
    /\ crashes \in 0..MaxCrashes
    /\ losses \in 0..MaxLosses

\* Two coordinators never run a handler for the same task at the same time,
\* unless the database dropped the claim of one of them: this is what
\* dequeue_task (queue_manager.py:82) promises of FOR UPDATE SKIP LOCKED.
ExclusiveRun ==
    \A c, d \in Coordinator :
        c # d /\ run[c] # NoTask /\ run[c] = run[d] => "lost" \in {tx[c], tx[d]}

\* A task is only recorded DONE, committed or not, when the transaction of a
\* handler that did its work has committed.
DoneHasEffect ==
    \A t \in Task :
        (row[t].status = "done" \/ \E c \in Coordinator : Seen(c, t).status = "done")
            => effect[t]

\* With isolated sessions no other transaction ever reads PROCESSING: a claim
\* ends in an outcome or in a rollback.  This is why reset_stuck_tasks, which
\* looks for committed PROCESSING rows (queue_manager.py:228-231), finds none,
\* whatever became of the worker that holds the claim.
HiddenClaims == IsolatedSessions => \A t \in Task : row[t].status # "processing"

\* Every task that waits and is in no batch can be claimed: none is queued with
\* its attempts used up, where dequeue_task would skip it for ever.
NoStranded ==
    \A t \in Task :
        /\ row[t].status \in {"pending", "retrying"}
        /\ \A c \in Coordinator : t \notin todo[c] \cup {run[c]}
        => Claimable(row[t])

\* The bookkeeping of a claim, from which the properties above follow: a
\* coordinator without a batch holds nothing; no row is locked twice; with
\* isolated sessions the rows of an open batch are locked until it is over, the
\* committed row under a lock is still the one that was claimed, and it counts
\* one attempt less than the row that will replace it.
ClaimConsistent ==
    /\ \A c \in Coordinator :
        /\ tx[c] # "open" => Held(c) = {}
        /\ tx[c] = "idle" => BatchOver(c)
        /\ run[c] \notin todo[c]
    /\ \A c, d \in Coordinator : c # d => Held(c) \cap Held(d) = {}
    /\ IsolatedSessions =>
        \A c \in Coordinator :
            /\ tx[c] = "open" => todo[c] \subseteq Held(c) /\ run[c] \in Held(c) \cup {NoTask}
            /\ \A t \in Held(c) :
                /\ Claimable(row[t])
                /\ own[c][t].attempts = row[t].attempts + 1
                /\ own[c][t].status =
                      IF t \in todo[c] \cup {run[c]} THEN "processing"
                      ELSE IF own[c][t].status = "done" THEN "done"
                      ELSE AfterFailure(own[c][t]).status

\* Handlers run at most MaxAttempts times, plus once for each claim that was
\* rolled back: a rollback also takes back the counted attempt, so that faults
\* come on top of the documented limit (GUIA_DE_USO.md:363).
ExecutionBound ==
    \A t \in Task : starts[t] <= row[t].attempts + crashes + losses
                     + Cardinality({c \in Coordinator : t \in Held(c) \ todo[c]})

\* DONE and FAILED rows are final and the attempt counter never runs back.
RowsAdvance ==
    [][\A t \in Task :
        /\ row[t].status \in {"done", "failed"} => row'[t] = row[t]
        /\ row'[t].attempts >= row[t].attempts]_vars

\* Every queued task is eventually DONE or FAILED.  With Survivors this is
\* what the recovery of stuck tasks is for: a task a worker hangs on goes back to
\* the queue after task_timeout, for the others (GUIA_DE_USO.md:387-388).
Settles == \A t \in Task : row[t].status # "absent" ~> row[t].status \in {"done", "failed"}

-----------------------------------------------------------------------------
(* Refinement *)

Abstract(r) ==
    [status |-> IF r.status \in {"pending", "processing", "retrying"} THEN "waiting" ELSE r.status,
     attempts |-> r.attempts]

Lifecycle == INSTANCE TaskLifecycle WITH task <- [t \in Task |-> Abstract(row[t])]

\* The committed rows behave as TaskLifecycle says: whatever coordinators do,
\* an iteration settles its whole batch at once or not at all.
ImplementsLifecycle == Lifecycle!LifecycleSpec
=============================================================================
