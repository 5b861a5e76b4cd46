--------------------------- MODULE InferCeptCache ---------------------------
(***************************************************************************)
(* The InferCept scheduler together with the worker: what the KV cache     *)
(* holds while requests are swapped out and in within one call of          *)
(* schedule().                                                             *)
(***************************************************************************)
EXTENDS InferCept, Worker

CacheInit == Init /\ InitWorker

\* schedule() and the processing of the outputs leave the cache alone.
Between ==
    /\ Client \/ PausePhase \/ PassPhase \/ OutputPhase
    /\ UNCHANGED workerVars

\* execute_model with the dictionaries and the tables of the step
ExecuteModel ==
    /\ PostForward
    /\ Execute([r \in Seqs |-> Computed(r)], Tokens)

CacheNext == Between \/ ExecuteModel

CacheSpec == CacheInit /\ [][CacheNext]_<<vars, workerVars>>

-----------------------------------------------------------------------------
\* The attention of each step reads the tokens of its request, in order:
\* blocks of a preempted request that went to the CPU are, as PreemptionMode
\* says, swapped "back in when the sequences are resumed".
ReadsOwnTokens ==
    \A r \in Seqs : reads[r] = [i \in DOMAIN reads[r] |-> <<r, i - 1>>]
=============================================================================
