-------------------------- MODULE InferCeptCacheMC --------------------------
(* Constants for model checking InferCeptCache.                            *)
EXTENDS InferCeptCache

Prompts == <<2, 1, 1>>

BlockSymmetry == Permutations(GpuBlocks) \cup Permutations(CpuBlocks)
=============================================================================
