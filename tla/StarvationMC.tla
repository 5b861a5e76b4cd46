---------------------------- MODULE StarvationMC ----------------------------
(* Constants for model checking Starvation: request 1 is the one the       *)
(* policy likes least.                                                     *)
EXTENDS Starvation

Scores == <<3, 2, 1, 1>>
=============================================================================
