--------------------------- MODULE MCShardWriter ----------------------------
(* Small instances of ShardWriter: blocks are interchangeable.             *)
EXTENDS ShardWriter, TLC
BlockSymmetry == Permutations(Blocks)
=============================================================================
