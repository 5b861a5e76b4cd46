----------------------------- MODULE KVCacheMC ------------------------------
(* Constants for model checking KVCache.                                   *)
EXTENDS KVCache, TLC

Symmetry == Permutations(Seqs) \cup Permutations(GpuBlocks) \cup Permutations(CpuBlocks)
=============================================================================
