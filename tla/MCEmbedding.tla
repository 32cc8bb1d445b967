---------------------------- MODULE MCEmbedding ----------------------------
(* Small instances of EmbeddingService. *)
EXTENDS EmbeddingService, TLC
CONSTANTS short, long
MCTokensOf == short :> 1 @@ long :> 2
\* With sub-batches of two texts: two that fit into a bucket of three, one that
\* empties it, one too large.
MCBatch == {<<short, short, long>>, <<short, long>>, <<long, long>>}
Symmetry == Permutations(Caller)
=============================================================================
