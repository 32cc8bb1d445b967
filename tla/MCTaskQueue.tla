---------------------------- MODULE MCTaskQueue ----------------------------
(* Small instances of TaskQueue: values of the constants. *)
EXTENDS TaskQueue, TLC

CONSTANTS t1, t2, t3, c1, c2

\* t1 has a higher priority than t2 and t3, which tie.
OneUrgent == (t1 :> 0) @@ [t \in Task |-> 1]

\* Every coordinator but c1 goes on polling and looking for stuck tasks.
OneHangs == Spec /\ Survivors(Coordinator \ {c1})
=============================================================================
