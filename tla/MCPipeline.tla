----------------------------- MODULE MCPipeline -----------------------------
(* One document of two chunks and its three tasks. *)
EXTENDS Pipeline, TLC

CONSTANTS d1, k1, k2, root, e1, e2, c1, c2

Roots == d1 :> root
Embeds == (k1 :> e1) @@ (k2 :> e2)
Owner == [k \in Chunk |-> d1]

\* The root task is older than the tasks its handler creates.
Created == (root :> 0) @@ (e1 :> 1) @@ (e2 :> 2)

Symmetry == Permutations(Coordinator)
=============================================================================
