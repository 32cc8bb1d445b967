--------------------------- MODULE MCDeadLetters ---------------------------
(* Two tasks, one of them queued without attributes, one worker, operators. *)
EXTENDS DeadLetters, TLC

CONSTANTS t1, t2, c1, o1, o2

Equal == [t \in Task |-> 0]

Symmetry == Permutations(Operator)
=============================================================================
