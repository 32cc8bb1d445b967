----------------------------- MODULE MCGateway -----------------------------
(* Small instances of ApiGateway. *)
EXTENDS ApiGateway, TLC
Symmetry == Permutations(Process)
=============================================================================
