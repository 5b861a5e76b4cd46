------------------------------ MODULE KVCache -------------------------------
(***************************************************************************)
(* The KV cache of the engine, under the "V" policy: the block space       *)
(* manager and the worker, driven by any scheduler that keeps to the       *)
(* discipline of CacheProtocol (which SchedulerV2 is shown to keep).  The  *)
(* actions are the calls scheduler_v2.py makes to the block manager.       *)
(*                                                                         *)
(*      idle -> evict -> fill -> (the worker executes) -> idle             *)
(*                                                                         *)
(* The older scheduler starts with a pass, and pauses requests while the   *)
(* outputs of the step are processed: it has no idle phase (see Scheduler).*)
(***************************************************************************)
EXTENDS Worker

CONSTANTS
    Lengths,       \* lengths a sequence may have (up to max_model_len)
    AfterStep      \* phases in which the outputs of a step may be processed

ASSUME LengthAssumption == Lengths \subseteq Nat
ASSUME PhaseAssumption == AfterStep \subseteq {"idle", "evict"}

VARIABLES
    computed,    \* tokens of each sequence whose keys and values are computed
    scheduled,   \* sequences of the batch under construction
    forward,     \* running_inflight_tokens: tokens each of them forwards
    phase

batchVars == <<scheduled, forward>>
vars == <<blockVars, workerVars, computed, batchVars, phase>>

NoBatch == [s \in Seqs |-> 0]

Init ==
    /\ InitBlocks /\ InitWorker
    /\ computed = [s \in Seqs |-> 0]
    /\ scheduled = {} /\ forward = NoBatch
    /\ phase \in {"idle", "fill"}

\* free of an aborted or finished request, and _active_discard
Release(s) ==
    /\ phase = "idle" /\ tables[s] # <<>>
    /\ Free(s)
    /\ computed' = [computed EXCEPT ![s] = 0]
    /\ UNCHANGED <<workerVars, batchVars, phase>>

\* schedule() starts: the results of the last step are with the clients.
Begin ==
    /\ phase = "idle" /\ phase' = "evict"
    /\ reads' = Unread
    /\ UNCHANGED <<blockVars, kv, computed, batchVars>>

\* A paused request is swapped out as a whole (_pause_by_swap).
SwapOutPaused(s) ==
    /\ phase = "evict"
    /\ OnGpu(s) # {} /\ OnCpu(s) = {} /\ CanSwapOut(s)
    /\ SwapOut(s)
    /\ UNCHANGED <<workerVars, computed, batchVars, phase>>

\* Variant: what is scheduled is a victim too.
DiscardAny(s) ==
    /\ \/ phase = "evict" /\ OnCpu(s) = {}
       \/ phase = "fill"
    /\ tables[s] # <<>>
    /\ Free(s)
    /\ computed' = [computed EXCEPT ![s] = 0]
    /\ forward' = [forward EXCEPT ![s] = 0]
    /\ UNCHANGED <<workerVars, scheduled, phase>>

\* _pause_by_recompute in the first phase, passive_discard_by_order in the
\* passes; what is scheduled is no victim.
Discard(s) ==
    /\ \/ phase = "evict" /\ OnCpu(s) = {}
       \/ phase = "fill" /\ s \notin scheduled
    /\ tables[s] # <<>>
    /\ Free(s)
    /\ computed' = [computed EXCEPT ![s] = 0]
    /\ UNCHANGED <<workerVars, batchVars, phase>>

\* Without an idle phase, they are with the clients when the passes start.
StartPasses ==
    /\ phase = "evict" /\ phase' = "fill"
    /\ reads' = Unread
    /\ UNCHANGED <<blockVars, kv, computed, batchVars>>

\* num_required_blocks_inflight
NewBlocks(s, n) == Token2Block(computed[s] + n) - Token2Block(computed[s])

\* allocate: all blocks on the CPU come back, and n tokens get their slots.
Schedule(s, n) ==
    LET in == Cardinality(OnCpu(s))
    IN  /\ phase = "fill" /\ s \notin scheduled
        /\ computed[s] + n \in Lengths
        /\ n > 0 \/ in > 0
        /\ in + NewBlocks(s, n) <= Cardinality(freeGpu)
        /\ Allocate(s, in, NewBlocks(s, n))
        /\ scheduled' = scheduled \cup {s}
        /\ forward' = [forward EXCEPT ![s] = n]
        /\ UNCHANGED <<workerVars, computed, phase>>

\* The worker runs the step, and post_forward records what it computed.
Finish ==
    /\ phase = "fill" /\ phase' \in AfterStep
    /\ Execute(computed, forward)
    /\ computed' = [s \in Seqs |-> computed[s] + forward[s]]
    /\ scheduled' = {} /\ forward' = NoBatch

Next ==
    \/ \E s \in Seqs : \/ Release(s) \/ SwapOutPaused(s) \/ Discard(s)
                       \/ \E n \in Lengths : Schedule(s, n)
    \/ Begin \/ StartPasses \/ Finish

Spec == Init /\ [][Next]_vars

-----------------------------------------------------------------------------
\* The type invariant
TypeOK ==
    /\ TypeOKBlocks
    /\ kv \in [Blocks -> [Offsets -> (Seqs \X Nat) \cup {Nothing}]]
    /\ computed \in [Seqs -> Nat]
    /\ scheduled \subseteq Seqs
    /\ forward \in [Seqs -> Nat]
    /\ phase \in {"idle", "evict", "fill"}

\* The contents of the block b once the copies of dict are made
Moved(k, dict, b) ==
    IF \E p \in dict : p[2] = b
    THEN k[(CHOOSE p \in dict : p[2] = b)[1]] ELSE k[b]

\* ... and once all pending copies are made
Eventual(b) == Moved([c \in Blocks |-> Moved(kv, swapOut, c)], swapIn, b)

\* Wherever the blocks of a sequence are, and whatever was discarded, swapped
\* and handed to others meanwhile, its computed tokens are there, in order
\* (PreemptionMode: swapped blocks are "swapped back in" when it is resumed).
CacheIntact ==
    \A s \in Seqs : \A p \in 0..(computed[s] - 1) :
        Eventual(BlockOf(s, p))[OffsetOf(p)] = <<s, p>>

\* A copy that is still pending is never made obsolete by another one: the
\* destinations of a step differ, and those of the swapped in belong to the
\* sequences of the batch (dict.update in allocate and swap_out).
CopiesApart ==
    /\ \A p, q \in swapIn : (p[1] = q[1] \/ p[2] = q[2]) => p = q
    /\ \A p, q \in swapOut : (p[1] = q[1] \/ p[2] = q[2]) => p = q
    /\ \A p \in swapIn : \E s \in scheduled : \E i \in DOMAIN tables[s] : tables[s][i] = p[2]

Store == INSTANCE TokenStore WITH size <- computed

\* The attention of every step reads, for each of its sequences, all its
\* tokens and no other: the cache is a private memory of each sequence.
ServesTokens == Store!Spec
=============================================================================
