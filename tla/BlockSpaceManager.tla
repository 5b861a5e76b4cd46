-------------------------- MODULE BlockSpaceManager --------------------------
(***************************************************************************)
(* The block space manager (src/vllm/core/block_manager.py) with the       *)
(* identities of its blocks: the free blocks of the two devices, the block *)
(* table of each sequence, and the two dictionaries of one step, from      *)
(* source to destination, that the worker is to copy.                      *)
(*                                                                         *)
(* The operations are action fragments; the modules that extend this one   *)
(* call them as the schedulers do.  Each group has one sequence, so that   *)
(* no block is shared and the reference count is 1 for a block of a table  *)
(* and 0 for a free one.  Of the free list only the set is kept: any free  *)
(* block may be handed out next.  A sequence without an entry in           *)
(* block_tables has the empty table.                                       *)
(***************************************************************************)
EXTENDS Integers, Sequences, FiniteSets

CONSTANTS
    Seqs,          \* the sequences, one per request
    GpuBlocks,     \* the physical blocks of each device
    CpuBlocks,
    BlockSize      \* tokens per block

ASSUME BlocksAssumption ==
    /\ GpuBlocks \cap CpuBlocks = {}
    /\ IsFiniteSet(GpuBlocks) /\ IsFiniteSet(CpuBlocks)
    /\ BlockSize \in Nat \ {0}

VARIABLES
    tables,            \* block_tables: the blocks of each sequence, in order
    freeGpu, freeCpu,  \* free_blocks of the two allocators
    swapIn, swapOut    \* blocks_to_swap_in and blocks_to_swap_out

blockVars == <<tables, freeGpu, freeCpu, swapIn, swapOut>>

Blocks == GpuBlocks \cup CpuBlocks

InitBlocks ==
    /\ tables = [s \in Seqs |-> <<>>]
    /\ freeGpu = GpuBlocks /\ freeCpu = CpuBlocks
    /\ swapIn = {} /\ swapOut = {}

\* token_2_block
Token2Block(n) == (n + BlockSize - 1) \div BlockSize

\* get_seq_blocks_by_device, as indices into the block table
OnGpu(s) == {i \in DOMAIN tables[s] : tables[s][i] \in GpuBlocks}
OnCpu(s) == {i \in DOMAIN tables[s] : tables[s][i] \in CpuBlocks}

FirstOf(S, n) == {i \in S : Cardinality({j \in S : j < i}) < n}
LastOf(S, n)  == {i \in S : Cardinality({j \in S : j > i}) < n}

\* n different blocks of the free ones, one for each index of I
Handouts(I, free) ==
    {to \in [I -> free] : \A i, j \in I : to[i] = to[j] => i = j}

Chosen(to) == {to[i] : i \in DOMAIN to}

\* The mapping from the old blocks at the indices I to the new ones
Mapping(s, I, to) == {<<tables[s][i], to[i]>> : i \in I}

\* dict.update: a source that is there already gets the new destination
Update(dict, pairs) ==
    {p \in dict : \A q \in pairs : q[1] # p[1]} \cup pairs

\* Variant: the CPU blocks that were swapped in are not given back.
AllocateKeepingCpu(s, in, new) ==
    LET old   == FirstOf(OnCpu(s), in)
        size  == Len(tables[s]) + new
        fresh == (Len(tables[s]) + 1)..size
    IN  \E to \in Handouts(old \cup fresh, freeGpu) :
            /\ tables' = [tables EXCEPT ![s] =
                  [i \in 1..size |-> IF i \in DOMAIN to THEN to[i] ELSE @[i]]]
            /\ freeGpu' = freeGpu \ Chosen(to)
            /\ freeCpu' = freeCpu
            /\ swapIn' = Update(swapIn, Mapping(s, old, to))
            /\ UNCHANGED swapOut

\* allocate: the first `in` blocks that are on the CPU get a GPU block each,
\* and `new` blocks are appended.
Allocate(s, in, new) ==
    LET old   == FirstOf(OnCpu(s), in)
        size  == Len(tables[s]) + new
        fresh == (Len(tables[s]) + 1)..size
    IN  \E to \in Handouts(old \cup fresh, freeGpu) :
            /\ tables' = [tables EXCEPT ![s] =
                  [i \in 1..size |-> IF i \in DOMAIN to THEN to[i] ELSE @[i]]]
            /\ freeGpu' = freeGpu \ Chosen(to)
            /\ freeCpu' = freeCpu \cup {tables[s][i] : i \in old}
            /\ swapIn' = Update(swapIn, Mapping(s, old, to))
            /\ UNCHANGED swapOut

\* Variant: the mapping goes from the new blocks to the old ones.
SwapOutBackwards(s, I) ==
    \E to \in Handouts(I, freeCpu) :
        /\ tables' = [tables EXCEPT ![s] =
              [i \in DOMAIN @ |-> IF i \in I THEN to[i] ELSE @[i]]]
        /\ freeCpu' = freeCpu \ Chosen(to)
        /\ freeGpu' = freeGpu \cup {tables[s][i] : i \in I}
        /\ swapOut' = Update(swapOut, {<<to[i], tables[s][i]>> : i \in I})
        /\ UNCHANGED swapIn

\* The blocks at the indices I go to the CPU, which has room for them.
SwapOutBlocks(s, I) ==
    \E to \in Handouts(I, freeCpu) :
        /\ tables' = [tables EXCEPT ![s] =
              [i \in DOMAIN @ |-> IF i \in I THEN to[i] ELSE @[i]]]
        /\ freeCpu' = freeCpu \ Chosen(to)
        /\ freeGpu' = freeGpu \cup {tables[s][i] : i \in I}
        /\ swapOut' = Update(swapOut, Mapping(s, I, to))
        /\ UNCHANGED swapIn

\* can_swap_out and swap_out, of a whole table
CanSwapOut(s) == Cardinality(OnGpu(s)) <= Cardinality(freeCpu)
SwapOut(s) == SwapOutBlocks(s, OnGpu(s))

\* swap_out_from_back: the last n blocks that are on the GPU
SwapOutFromBack(s, n) == SwapOutBlocks(s, LastOf(OnGpu(s), n))

\* free and _free_block_table
Free(s) ==
    /\ tables' = [tables EXCEPT ![s] = <<>>]
    /\ freeGpu' = freeGpu \cup {tables[s][i] : i \in OnGpu(s)}
    /\ freeCpu' = freeCpu \cup {tables[s][i] : i \in OnCpu(s)}
    /\ UNCHANGED <<swapIn, swapOut>>

-----------------------------------------------------------------------------
TypeOKBlocks ==
    /\ tables \in [Seqs -> Seq(Blocks)]
    /\ freeGpu \subseteq GpuBlocks /\ freeCpu \subseteq CpuBlocks
    /\ swapIn \subseteq CpuBlocks \X GpuBlocks
    /\ swapOut \subseteq GpuBlocks \X CpuBlocks

\* A block is free or at one place of one block table, and no block is lost,
\* through every allocation, swap and discard (BlockAllocator).
BlocksExclusive ==
    /\ \A s, t \in Seqs : \A i \in DOMAIN tables[s], j \in DOMAIN tables[t] :
          tables[s][i] = tables[t][j] => s = t /\ i = j
    /\ \A s \in Seqs : \A i \in DOMAIN tables[s] :
          tables[s][i] \notin freeGpu \cup freeCpu
    /\ \A b \in Blocks : b \in freeGpu \cup freeCpu
                         \/ \E s \in Seqs : \E i \in DOMAIN tables[s] : tables[s][i] = b
=============================================================================
