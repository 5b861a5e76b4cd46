---------------------------- MODULE SchedulerMC -----------------------------
(* Constants for model checking Scheduler.                                 *)
EXTENDS Scheduler

Prompts == <<1, 1, 1, 4>>

BlockSymmetry == Permutations(GpuBlocks) \cup Permutations(CpuBlocks)
=============================================================================
