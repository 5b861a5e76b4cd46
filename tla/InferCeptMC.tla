---------------------------- MODULE InferCeptMC -----------------------------
(* Constants for model checking InferCept.                                 *)
EXTENDS InferCept

Prompts == <<2, 1, 1>>
PromptsShort == <<1, 1, 1>>

BlockSymmetry == Permutations(GpuBlocks) \cup Permutations(CpuBlocks)
=============================================================================
