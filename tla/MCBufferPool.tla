---------------------------- MODULE MCBufferPool ----------------------------
(* Small instances of BufferPool for TLC. Getters, putters and blocks are  *)
(* model values, interchangeable where no liveness is checked.             *)
EXTENDS BufferPool, TLC

PoolSymmetry == Permutations(Getters) \cup Permutations(Putters) \cup Permutations(Blocks)
=============================================================================
