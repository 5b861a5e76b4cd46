------------------------------- MODULE Worker -------------------------------
(***************************************************************************)
(* The worker (src/vllm/worker/worker.py), its cache engine and the part   *)
(* of the model that touches the KV cache: the copies of blocks_to_swap_out*)
(* and blocks_to_swap_in, the keys and values written for the new tokens,  *)
(* and what the attention then reads through the block tables.             *)
(*                                                                         *)
(* Every layer does the same to its own cache and waits for its own copies,*)
(* and the sampler at the end waits for all of them: one step of the model *)
(* stands for one call of execute_model, for one layer.  A slot holds the  *)
(* token <<s, p>>, the one at position p of the sequence s.                *)
(***************************************************************************)
EXTENDS BlockSpaceManager

CONSTANT Nothing       \* what the slots hold at first (torch.empty)

VARIABLES
    kv,      \* gpu_cache and cpu_cache: the contents of each block
    reads    \* what the attention of the last step read, in order

workerVars == <<kv, reads>>

Offsets == 0..(BlockSize - 1)
Unread == [s \in Seqs |-> <<>>]

InitWorker ==
    /\ kv = [b \in Blocks |-> [o \in Offsets |-> Nothing]]
    /\ reads = Unread

\* block_number and block_offset of _prepare_inputs
BlockOf(s, p) == tables[s][(p \div BlockSize) + 1]
OffsetOf(p) == p % BlockSize

\* cache_ops.swap_blocks.  When two sources have one destination, the order
\* of the copies is that of the source block numbers, which are not modelled:
\* either may come last.
Copies(k, dict) ==
    LET dest == {p[2] : p \in dict}
    IN  {[b \in Blocks |-> IF b \in dest THEN k[from[b]] ELSE k[b]] :
            from \in {f \in [dest -> Blocks] : \A b \in dest : <<f[b], b>> \in dict}}

\* Variant: the positions start at 0 in every chunk.
WrittenFromZero(k, start, n) ==
    LET Writes(b, o) == {t \in UNION {{s} \X (0..(n[s] - 1)) : s \in Seqs} :
                            BlockOf(t[1], t[2]) = b /\ OffsetOf(t[2]) = o}
    IN  [b \in Blocks |-> [o \in Offsets |->
            IF Writes(b, o) # {} THEN CHOOSE t \in Writes(b, o) : TRUE ELSE k[b][o]]]

\* new_reshape_and_cache: n[s] tokens of each s from position start[s] on
Written(k, start, n) ==
    LET Writes(b, o) == {t \in UNION {{s} \X (start[s]..(start[s] + n[s] - 1)) : s \in Seqs} :
                            BlockOf(t[1], t[2]) = b /\ OffsetOf(t[2]) = o}
    IN  [b \in Blocks |-> [o \in Offsets |->
            IF Writes(b, o) # {} THEN CHOOSE t \in Writes(b, o) : TRUE ELSE k[b][o]]]

\* The keys the attention of s goes through when its length is m
Context(k, s, m) == [i \in 1..m |-> k[BlockOf(s, i - 1)][OffsetOf(i - 1)]]

Held == UNION {{tables[s][i] : i \in DOMAIN tables[s]} : s \in Seqs}

\* What nobody holds is overwritten before it is read: it is forgotten.
Forget(k) ==
    [b \in Blocks |-> IF b \in Held THEN k[b] ELSE [o \in Offsets |-> Nothing]]

\* Variant: the blocks are swapped in before the others are swapped out.
ExecuteInFirst(start, n) ==
    \E k1 \in Copies(kv, swapIn) : \E k2 \in Copies(k1, swapOut) :
        LET k == Written(k2, start, n)
        IN  /\ kv' = Forget(k)
            /\ reads' = [s \in Seqs |-> IF n[s] > 0 THEN Context(k, s, start[s] + n[s])
                                                    ELSE <<>>]
            /\ swapIn' = {} /\ swapOut' = {}
            /\ UNCHANGED <<tables, freeGpu, freeCpu>>

\* execute_model: each layer swaps out, then in, then writes and attends.
Execute(start, n) ==
    \E k1 \in Copies(kv, swapOut) : \E k2 \in Copies(k1, swapIn) :
        LET k == Written(k2, start, n)
        IN  /\ kv' = Forget(k)
            /\ reads' = [s \in Seqs |-> IF n[s] > 0 THEN Context(k, s, start[s] + n[s])
                                                    ELSE <<>>]
            /\ swapIn' = {} /\ swapOut' = {}
            /\ UNCHANGED <<tables, freeGpu, freeCpu>>
=============================================================================
