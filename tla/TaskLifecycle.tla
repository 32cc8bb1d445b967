--------------------------- MODULE TaskLifecycle ---------------------------
(***************************************************************************)
(* What the durable queue of CARQ promises about the committed rows of      *)
(* processing_tasks, whatever the coordinators do in between: a task waits, *)
(* every settled attempt is counted once, and after MaxAttempts failed      *)
(* attempts the task is failed for good.  A coordinator settles the tasks   *)
(* of one polling iteration together.  TaskQueue implements this module.    *)
(***************************************************************************)
EXTENDS Naturals

CONSTANTS Task, MaxAttempts

VARIABLE task

Waiting == {t \in Task : task[t].status = "waiting"}

LifecycleInit == task = [t \in Task |-> [status |-> "absent", attempts |-> 0]]

Submit(new) ==
    /\ \A t \in new : task[t].status = "absent"
    /\ task' = [t \in Task |-> IF t \in new THEN [task[t] EXCEPT !.status = "waiting"]
                                           ELSE task[t]]

\* The row of a task after one more attempt, won or lost.
Attempted(r, won) ==
    [status |-> IF won THEN "done"
                ELSE IF r.attempts + 1 < MaxAttempts THEN "waiting" ELSE "failed",
     attempts |-> r.attempts + 1]

\* The attempts of the tasks in batch are settled, those in won successfully.
Settle(batch, won) ==
    task' = [t \in Task |-> IF t \in batch THEN Attempted(task[t], t \in won)
                                           ELSE task[t]]

LifecycleNext ==
    \/ \E new \in SUBSET Task : Submit(new)
    \/ \E batch \in SUBSET Waiting : \E won \in SUBSET batch : Settle(batch, won)

LifecycleSpec == LifecycleInit /\ [][LifecycleNext]_task
=============================================================================
