--------------------------- MODULE KVCacheProofs ----------------------------
(***************************************************************************)
(* Proofs about KVCache, for every set of sequences, every number of       *)
(* blocks on the two devices, every size of a block and every length.      *)
(***************************************************************************)
EXTENDS KVCache, FiniteSetTheorems, TLAPS

-----------------------------------------------------------------------------
(* The inductive invariant.                                                *)

\* A table has the blocks of the computed tokens and of those of the step.
SizeInv == \A s \in Seqs :
    /\ Len(tables[s]) = Token2Block(computed[s] + forward[s])
    /\ s \notin scheduled => forward[s] = 0

PhaseInv ==
    /\ phase # "fill" => scheduled = {} /\ swapIn = {}
    /\ phase = "idle" => swapOut = {}

\* What is scheduled is on the GPU.
ScheduledOnGpu ==
    \A s \in scheduled : \A i \in DOMAIN tables[s] : tables[s][i] \in GpuBlocks

\* The CPU blocks that are swapped in stay free until the step is executed;
\* those that are swapped out are not handed out twice, because nothing is
\* given back to the CPU while blocks go out.
PendingInv ==
    /\ \A p \in swapIn : p[1] \in freeCpu
    /\ phase = "evict" => \A p \in swapOut : p[1] \in freeGpu /\ p[2] \notin freeCpu

BlockInv == TypeOK /\ BlocksExclusive /\ SizeInv /\ PhaseInv /\ ScheduledOnGpu
            /\ CopiesApart /\ PendingInv

-----------------------------------------------------------------------------
(* Arithmetic of positions and blocks.                                     *)

\* The block of a position is in a table made for more tokens.
LEMMA PositionInTable ==
    ASSUME NEW p \in Nat, NEW m \in Nat, p < m
    PROVE  /\ (p \div BlockSize) + 1 \in 1..Token2Block(m)
           /\ p % BlockSize \in Offsets
BY BlocksAssumption, SMTT(30) DEF Token2Block, Offsets

\* A position is given by its block and its offset.
LEMMA PositionUnique ==
    ASSUME NEW p \in Nat, NEW q \in Nat,
           p \div BlockSize = q \div BlockSize, p % BlockSize = q % BlockSize
    PROVE  p = q
BY BlocksAssumption, SMTT(30)

\* token_2_block is monotonic, and no tokens need no block.
LEMMA Token2BlockFacts ==
    ASSUME NEW m \in Nat, NEW n \in Nat
    PROVE  /\ Token2Block(m) \in Nat
           /\ m <= n => Token2Block(m) <= Token2Block(n)
           /\ Token2Block(0) = 0
BY BlocksAssumption, SMTT(30) DEF Token2Block

-----------------------------------------------------------------------------
(* Copies.                                                                 *)

\* A block that is the destination of one copy receives its source.
LEMMA MovedTo ==
    ASSUME NEW k, NEW dict, NEW p \in dict,
           \A q \in dict : q[2] = p[2] => q = p
    PROVE  Moved(k, dict, p[2]) = k[p[1]]
<1>1. (CHOOSE q \in dict : q[2] = p[2]) = p
  OBVIOUS
<1> QED
  BY <1>1 DEF Moved

\* Any other block keeps its contents.
LEMMA NotMoved ==
    ASSUME NEW k, NEW dict, NEW b, \A q \in dict : q[2] # b
    PROVE  Moved(k, dict, b) = k[b]
BY DEF Moved

\* When the destinations differ, the order of the copies does not matter.
LEMMA CopiesMove ==
    ASSUME NEW k, NEW dict, NEW c \in Copies(k, dict), NEW b \in Blocks,
           \A p, q \in dict : p[2] = q[2] => p = q,
           \A p \in dict : p = <<p[1], p[2]>>
    PROVE  c[b] = Moved(k, dict, b)
<1> DEFINE dest == {p[2] : p \in dict}
<1>1. PICK from \in [dest -> Blocks] :
          /\ \A d \in dest : <<from[d], d>> \in dict
          /\ c = [d \in Blocks |-> IF d \in dest THEN k[from[d]] ELSE k[d]]
  BY DEF Copies
<1>2. CASE b \in dest
  <2>1. <<from[b], b>> \in dict
    BY <1>1, <1>2
  <2>2. Moved(k, dict, b) = k[from[b]]
    <3>1. \A q \in dict : q[2] = <<from[b], b>>[2] => q = <<from[b], b>>
      BY <2>1
    <3>2. Moved(k, dict, <<from[b], b>>[2]) = k[<<from[b], b>>[1]]
      BY <2>1, <3>1, MovedTo
    <3> QED
      BY <3>2
  <2> QED
    BY <1>1, <1>2, <2>2
<1>3. CASE b \notin dest
  BY <1>1, <1>3, NotMoved
<1> QED
  BY <1>2, <1>3

-----------------------------------------------------------------------------
(* Tables and free blocks.                                                 *)

\* A block is on one device.
LEMMA DevicesApart ==
    \A b : b \in GpuBlocks => b \notin CpuBlocks
BY BlocksAssumption

\* The indices of a table, by device
LEMMA OnDevicesFacts ==
    ASSUME TypeOK, NEW s \in Seqs
    PROVE  /\ Len(tables[s]) \in Nat /\ DOMAIN tables[s] = 1..Len(tables[s])
           /\ \A i \in DOMAIN tables[s] : tables[s][i] \in Blocks
           /\ IsFiniteSet(OnGpu(s)) /\ IsFiniteSet(OnCpu(s))
           /\ OnGpu(s) \subseteq DOMAIN tables[s] /\ OnCpu(s) \subseteq DOMAIN tables[s]
           /\ OnGpu(s) \cup OnCpu(s) = DOMAIN tables[s]
<1>1. tables[s] \in Seq(Blocks)
  BY DEF TypeOK, TypeOKBlocks
<1>2. /\ Len(tables[s]) \in Nat /\ DOMAIN tables[s] = 1..Len(tables[s])
      /\ \A i \in DOMAIN tables[s] : tables[s][i] \in Blocks
  BY <1>1
<1>3. IsFiniteSet(DOMAIN tables[s])
  BY <1>2, FS_Interval
<1>4. OnGpu(s) \in SUBSET DOMAIN tables[s] /\ OnCpu(s) \in SUBSET DOMAIN tables[s]
  BY DEF OnGpu, OnCpu
<1>5. IsFiniteSet(OnGpu(s)) /\ IsFiniteSet(OnCpu(s))
  BY <1>3, <1>4, FS_Subset
<1>6. OnGpu(s) \cup OnCpu(s) = DOMAIN tables[s]
  BY <1>2 DEF OnGpu, OnCpu, Blocks
<1> QED
  BY <1>2, <1>4, <1>5, <1>6

\* allocate brings back all the blocks that are on the CPU.
LEMMA FirstOfAll ==
    ASSUME NEW S, IsFiniteSet(S), S \subseteq Nat
    PROVE  FirstOf(S, Cardinality(S)) = S
<1>1. ASSUME NEW i \in S
      PROVE  Cardinality({j \in S : j < i}) < Cardinality(S)
  <2> DEFINE T == {j \in S : j < i}
  <2>1. T \in SUBSET S /\ i \notin T
    BY <1>1
  <2>2. /\ Cardinality(T) <= Cardinality(S) /\ IsFiniteSet(T)
        /\ Cardinality(S) = Cardinality(T) => S = T
    BY <2>1, FS_Subset
  <2>3. Cardinality(S) \in Nat /\ Cardinality(T) \in Nat
    BY <2>2, FS_CardinalityType
  <2>4. S # T
    BY <2>1, <1>1
  <2> QED
    BY <2>2, <2>3, <2>4
<1> QED
  BY <1>1 DEF FirstOf

\* A computed or forwarded token has a block in the table of its sequence.
LEMMA BlockOfHeld ==
    ASSUME TypeOK, SizeInv, NEW s \in Seqs, NEW p \in 0..(computed[s] + forward[s] - 1)
    PROVE  /\ p \in Nat
           /\ (p \div BlockSize) + 1 \in DOMAIN tables[s]
           /\ BlockOf(s, p) \in Blocks /\ OffsetOf(p) \in Offsets
<1>1. computed[s] \in Nat /\ forward[s] \in Nat
  BY LengthAssumption DEF TypeOK
<1>2. p \in Nat /\ p < computed[s] + forward[s]
  BY <1>1
<1>3. /\ (p \div BlockSize) + 1 \in 1..Token2Block(computed[s] + forward[s])
      /\ p % BlockSize \in Offsets
  BY <1>1, <1>2, PositionInTable
<1>4. Len(tables[s]) = Token2Block(computed[s] + forward[s])
  BY DEF SizeInv
<1> QED
  BY <1>2, <1>3, <1>4, OnDevicesFacts DEF BlockOf, OffsetOf

-----------------------------------------------------------------------------
(* The calls to the block manager keep every block at one place.           *)

\* free gives every block of the table back to the pool it came from.
LEMMA FreeKeeps ==
    ASSUME TypeOK, BlocksExclusive, NEW s \in Seqs, Free(s)
    PROVE  TypeOKBlocks' /\ BlocksExclusive'
<1>1. TypeOKBlocks'
  <2>1. tables' \in [Seqs -> Seq(Blocks)]
    BY DEF TypeOK, TypeOKBlocks, Free
  <2>2. freeGpu' \subseteq GpuBlocks /\ freeCpu' \subseteq CpuBlocks
    BY OnDevicesFacts DEF TypeOK, TypeOKBlocks, Free, OnGpu, OnCpu
  <2> QED
    BY <2>1, <2>2 DEF TypeOK, TypeOKBlocks, Free
<1>2. \A t \in Seqs : t # s => tables'[t] = tables[t]
  BY DEF Free
<1>3. tables'[s] = <<>> /\ DOMAIN tables'[s] = {}
  BY DEF Free, TypeOK, TypeOKBlocks
<1>4. \A b : b \in freeGpu' \cup freeCpu'
             <=> \/ b \in freeGpu \cup freeCpu
                 \/ \E i \in DOMAIN tables[s] : tables[s][i] = b
  <2>1. \A i \in DOMAIN tables[s] : i \in OnGpu(s) \/ i \in OnCpu(s)
    BY OnDevicesFacts
  <2>2. OnGpu(s) \subseteq DOMAIN tables[s] /\ OnCpu(s) \subseteq DOMAIN tables[s]
    BY OnDevicesFacts
  <2> QED
    BY <2>1, <2>2 DEF Free
<1>5. \A t1, t2 \in Seqs : \A i \in DOMAIN tables'[t1], j \in DOMAIN tables'[t2] :
          tables'[t1][i] = tables'[t2][j] => t1 = t2 /\ i = j
  BY <1>2, <1>3 DEF BlocksExclusive
<1>6. \A t \in Seqs : \A i \in DOMAIN tables'[t] :
          tables'[t][i] \notin freeGpu' \cup freeCpu'
  BY <1>2, <1>3, <1>4 DEF BlocksExclusive
<1>7. \A b \in Blocks : b \in freeGpu' \cup freeCpu'
          \/ \E t \in Seqs : \E i \in DOMAIN tables'[t] : tables'[t][i] = b
  BY <1>2, <1>4 DEF BlocksExclusive
<1> QED
  BY <1>1, <1>5, <1>6, <1>7 DEF BlocksExclusive, Blocks

\* swap_out replaces the blocks on the GPU by free ones on the CPU.
LEMMA SwapOutKeeps ==
    ASSUME TypeOK, BlocksExclusive, NEW s \in Seqs,
           NEW to \in Handouts(OnGpu(s), freeCpu),
           tables' = [tables EXCEPT ![s] =
              [i \in DOMAIN @ |-> IF i \in OnGpu(s) THEN to[i] ELSE @[i]]],
           freeCpu' = freeCpu \ Chosen(to),
           freeGpu' = freeGpu \cup {tables[s][i] : i \in OnGpu(s)},
           swapOut' = Update(swapOut, Mapping(s, OnGpu(s), to)),
           UNCHANGED swapIn
    PROVE  TypeOKBlocks' /\ BlocksExclusive'
<1>1. /\ DOMAIN tables[s] = 1..Len(tables[s]) /\ Len(tables[s]) \in Nat
      /\ \A i \in DOMAIN tables[s] : tables[s][i] \in Blocks
      /\ OnGpu(s) \subseteq DOMAIN tables[s]
  BY OnDevicesFacts
<1>2. /\ to \in [OnGpu(s) -> freeCpu]
      /\ \A i, j \in OnGpu(s) : to[i] = to[j] => i = j
      /\ \A b : b \in Chosen(to) <=> \E i \in OnGpu(s) : to[i] = b
  BY DEF Handouts, Chosen
<1>3. freeCpu \subseteq CpuBlocks /\ freeGpu \subseteq GpuBlocks
  BY DEF TypeOK, TypeOKBlocks
<1>4. \A t \in Seqs : t # s => tables'[t] = tables[t]
  BY DEF TypeOK, TypeOKBlocks
<1>5. /\ tables'[s] = [i \in DOMAIN tables[s] |->
                          IF i \in OnGpu(s) THEN to[i] ELSE tables[s][i]]
      /\ DOMAIN tables'[s] = DOMAIN tables[s]
  BY DEF TypeOK, TypeOKBlocks
<1>6. \A i \in DOMAIN tables[s] : i \notin OnGpu(s) => tables[s][i] \in CpuBlocks
  BY <1>1 DEF OnGpu, Blocks
<1>7. \A i \in OnGpu(s) : tables[s][i] \in GpuBlocks
  BY DEF OnGpu
<1>8. TypeOKBlocks'
  <2>1. tables'[s] \in Seq(Blocks)
    <3>1. \A i \in 1..Len(tables[s]) : tables'[s][i] \in Blocks
      BY <1>1, <1>2, <1>3, <1>5 DEF Blocks
    <3>2. tables'[s] \in [1..Len(tables[s]) -> Blocks]
      BY <3>1, <1>5, <1>1
    <3> QED
      BY <3>2, <1>1
  <2>2. tables' \in [Seqs -> Seq(Blocks)]
    BY <2>1 DEF TypeOK, TypeOKBlocks
  <2>3. freeGpu' \subseteq GpuBlocks /\ freeCpu' \subseteq CpuBlocks
    BY <1>3, <1>7
  <2>4. Mapping(s, OnGpu(s), to) \subseteq GpuBlocks \X CpuBlocks
    BY <1>2, <1>3, <1>7 DEF Mapping
  <2>5. swapOut' \subseteq GpuBlocks \X CpuBlocks
    BY <2>4 DEF Update, TypeOK, TypeOKBlocks
  <2> QED
    BY <2>2, <2>3, <2>5 DEF TypeOK, TypeOKBlocks
<1>9. \A t \in Seqs : t # s => \A i \in DOMAIN tables[t] :
          /\ tables[t][i] \notin freeGpu \cup freeCpu
          /\ \A j \in DOMAIN tables[s] : tables[t][i] # tables[s][j]
  BY DEF BlocksExclusive
<1>10. \A t1, t2 \in Seqs : \A i \in DOMAIN tables'[t1], j \in DOMAIN tables'[t2] :
          tables'[t1][i] = tables'[t2][j] => t1 = t2 /\ i = j
  <2>1. \A i, j \in DOMAIN tables[s] : tables'[s][i] = tables'[s][j] => i = j
    BY <1>2, <1>5 DEF BlocksExclusive
  <2>2. \A t \in Seqs : t # s => \A i \in DOMAIN tables[t], j \in DOMAIN tables[s] :
            tables[t][i] # tables'[s][j]
    BY <1>2, <1>5, <1>9
  <2>3. \A t1, t2 \in Seqs : t1 # s /\ t2 # s =>
           \A i \in DOMAIN tables'[t1], j \in DOMAIN tables'[t2] :
             tables'[t1][i] = tables'[t2][j] => t1 = t2 /\ i = j
    BY <1>4 DEF BlocksExclusive
  <2> SUFFICES ASSUME NEW t1 \in Seqs, NEW t2 \in Seqs,
                      NEW i \in DOMAIN tables'[t1], NEW j \in DOMAIN tables'[t2],
                      tables'[t1][i] = tables'[t2][j]
               PROVE  t1 = t2 /\ i = j
    OBVIOUS
  <2>4. CASE t1 = s /\ t2 = s
    BY <2>1, <2>4, <1>5
  <2>5. CASE t1 = s /\ t2 # s
    BY <2>2, <2>5, <1>4, <1>5
  <2>6. CASE t1 # s /\ t2 = s
    BY <2>2, <2>6, <1>4, <1>5
  <2>7. CASE t1 # s /\ t2 # s
    BY <2>3, <2>7
  <2> QED
    BY <2>4, <2>5, <2>6, <2>7
<1>11. \A t \in Seqs : \A i \in DOMAIN tables'[t] :
          tables'[t][i] \notin freeGpu' \cup freeCpu'
  <2>1. \A t \in Seqs : t # s => \A i \in DOMAIN tables'[t] :
          tables'[t][i] \notin freeGpu' \cup freeCpu'
    BY <1>1, <1>4, <1>9
  <2>2. \A i \in DOMAIN tables'[s] : tables'[s][i] \notin freeGpu' \cup freeCpu'
    <3> SUFFICES ASSUME NEW i \in DOMAIN tables[s]
                 PROVE  tables'[s][i] \notin freeGpu' \cup freeCpu'
      BY <1>5
    <3>1. CASE i \in OnGpu(s)
      BY <3>1, <1>2, <1>3, <1>5, <1>7, DevicesApart
    <3>2. CASE i \notin OnGpu(s)
      <4>1. tables[s][i] \in CpuBlocks /\ tables[s][i] \notin freeGpu \cup freeCpu
        BY <3>2, <1>6 DEF BlocksExclusive
      <4> QED
        BY <3>2, <4>1, <1>5, <1>7, DevicesApart
    <3> QED
      BY <3>1, <3>2
  <2> QED
    BY <2>1, <2>2
<1>12. \A b \in Blocks : b \in freeGpu' \cup freeCpu'
          \/ \E t \in Seqs : \E i \in DOMAIN tables'[t] : tables'[t][i] = b
  <2> SUFFICES ASSUME NEW b \in Blocks, b \notin freeGpu' \cup freeCpu'
               PROVE  \E t \in Seqs : \E i \in DOMAIN tables'[t] : tables'[t][i] = b
    OBVIOUS
  <2>1. CASE b \in Chosen(to)
    <3>1. PICK i \in OnGpu(s) : to[i] = b
      BY <2>1, <1>2
    <3>2. i \in DOMAIN tables'[s] /\ tables'[s][i] = b
      BY <3>1, <1>1, <1>5
    <3> QED
      BY <3>2
  <2>2. CASE b \notin Chosen(to)
    <3>1. PICK t \in Seqs : \E i \in DOMAIN tables[t] : tables[t][i] = b
      BY <2>2 DEF BlocksExclusive
    <3>2. PICK i \in DOMAIN tables[t] : tables[t][i] = b
      BY <3>1
    <3>3. t = s => i \notin OnGpu(s)
      BY <3>2
    <3> QED
      BY <3>2, <3>3, <1>4, <1>5
  <2> QED
    BY <2>1, <2>2
<1> QED
  BY <1>8, <1>10, <1>11, <1>12 DEF BlocksExclusive, Blocks

\* allocate replaces the blocks on the CPU and appends new ones.
LEMMA AllocateKeeps ==
    ASSUME TypeOK, BlocksExclusive, NEW s \in Seqs, NEW old, old = OnCpu(s),
           NEW size \in Nat, size >= Len(tables[s]),
           NEW fresh, fresh = (Len(tables[s]) + 1)..size,
           NEW to \in Handouts(old \cup fresh, freeGpu),
           tables' = [tables EXCEPT ![s] =
              [i \in 1..size |-> IF i \in DOMAIN to THEN to[i] ELSE @[i]]],
           freeGpu' = freeGpu \ Chosen(to),
           freeCpu' = freeCpu \cup {tables[s][i] : i \in old},
           swapIn' = Update(swapIn, Mapping(s, old, to)),
           UNCHANGED swapOut
    PROVE  /\ TypeOKBlocks' /\ BlocksExclusive'
           /\ \A i \in DOMAIN tables'[s] : tables'[s][i] \in GpuBlocks
<1>1. /\ DOMAIN tables[s] = 1..Len(tables[s]) /\ Len(tables[s]) \in Nat
      /\ \A i \in DOMAIN tables[s] : tables[s][i] \in Blocks
      /\ old \subseteq DOMAIN tables[s]
  BY OnDevicesFacts
<1>2. /\ to \in [old \cup fresh -> freeGpu]
      /\ DOMAIN to = old \cup fresh
      /\ \A i, j \in old \cup fresh : to[i] = to[j] => i = j
      /\ \A b : b \in Chosen(to) <=> \E i \in old \cup fresh : to[i] = b
  BY DEF Handouts, Chosen
<1>3. freeCpu \subseteq CpuBlocks /\ freeGpu \subseteq GpuBlocks
  BY DEF TypeOK, TypeOKBlocks
<1>4. \A t \in Seqs : t # s => tables'[t] = tables[t]
  BY DEF TypeOK, TypeOKBlocks
<1>5. /\ tables'[s] = [i \in 1..size |->
                          IF i \in old \cup fresh THEN to[i] ELSE tables[s][i]]
      /\ DOMAIN tables'[s] = 1..size
  BY <1>2 DEF TypeOK, TypeOKBlocks
<1>6. \A i \in DOMAIN tables[s] : i \notin old => tables[s][i] \in GpuBlocks
  BY <1>1 DEF OnCpu, Blocks
<1>7. \A i \in old : tables[s][i] \in CpuBlocks
  BY DEF OnCpu
<1>8. /\ old \cup fresh \subseteq 1..size
      /\ \A i \in 1..size : i \notin old \cup fresh =>
             i \in DOMAIN tables[s] /\ i \notin old
      /\ DOMAIN tables[s] \subseteq 1..size
      /\ \A i \in DOMAIN tables[s] : i \notin fresh
  BY <1>1
<1>9. \A i \in DOMAIN tables'[s] : tables'[s][i] \in GpuBlocks
  BY <1>2, <1>3, <1>5, <1>6, <1>8
<1>10. TypeOKBlocks'
  <2>1. tables'[s] \in [1..size -> Blocks]
    BY <1>5, <1>9 DEF Blocks
  <2>2. tables'[s] \in Seq(Blocks)
    BY <2>1
  <2>3. tables' \in [Seqs -> Seq(Blocks)]
    BY <2>2 DEF TypeOK, TypeOKBlocks
  <2>4. freeGpu' \subseteq GpuBlocks /\ freeCpu' \subseteq CpuBlocks
    BY <1>3, <1>7
  <2>5. Mapping(s, old, to) \subseteq CpuBlocks \X GpuBlocks
    BY <1>2, <1>3, <1>7 DEF Mapping
  <2>6. swapIn' \subseteq CpuBlocks \X GpuBlocks
    BY <2>5 DEF Update, TypeOK, TypeOKBlocks
  <2> QED
    BY <2>3, <2>4, <2>6 DEF TypeOK, TypeOKBlocks
<1>11. \A t \in Seqs : t # s => \A i \in DOMAIN tables[t] :
          /\ tables[t][i] \notin freeGpu \cup freeCpu
          /\ \A j \in DOMAIN tables[s] : tables[t][i] # tables[s][j]
  BY DEF BlocksExclusive
<1>12. \A i \in 1..size : i \notin old \cup fresh =>
          tables'[s][i] = tables[s][i] /\ tables[s][i] \notin freeGpu \cup freeCpu
  BY <1>5, <1>8 DEF BlocksExclusive
<1>13. \A i \in old \cup fresh : tables'[s][i] = to[i] /\ to[i] \in freeGpu
  BY <1>2, <1>5, <1>8
<1>14. \A t1, t2 \in Seqs : \A i \in DOMAIN tables'[t1], j \in DOMAIN tables'[t2] :
          tables'[t1][i] = tables'[t2][j] => t1 = t2 /\ i = j
  <2>1. \A i, j \in 1..size : tables'[s][i] = tables'[s][j] => i = j
    <3> SUFFICES ASSUME NEW i \in 1..size, NEW j \in 1..size,
                        tables'[s][i] = tables'[s][j]
                 PROVE  i = j
      OBVIOUS
    <3>1. CASE i \in old \cup fresh /\ j \in old \cup fresh
      BY <3>1, <1>2, <1>13
    <3>2. CASE i \in old \cup fresh /\ j \notin old \cup fresh
      BY <3>2, <1>12, <1>13
    <3>3. CASE i \notin old \cup fresh /\ j \in old \cup fresh
      BY <3>3, <1>12, <1>13
    <3>4. CASE i \notin old \cup fresh /\ j \notin old \cup fresh
      BY <3>4, <1>8, <1>12 DEF BlocksExclusive
    <3> QED
      BY <3>1, <3>2, <3>3, <3>4
  <2>2. \A t \in Seqs : t # s => \A i \in DOMAIN tables[t], j \in 1..size :
            tables[t][i] # tables'[s][j]
    <3> SUFFICES ASSUME NEW t \in Seqs, t # s, NEW i \in DOMAIN tables[t],
                        NEW j \in 1..size
                 PROVE  tables[t][i] # tables'[s][j]
      OBVIOUS
    <3>1. CASE j \in old \cup fresh
      <4>1. tables'[s][j] \in freeGpu
        BY <3>1, <1>13
      <4>2. tables[t][i] \notin freeGpu
        BY <1>11
      <4> QED
        BY <4>1, <4>2
    <3>2. CASE j \notin old \cup fresh
      <4>1. j \in DOMAIN tables[s]
        BY <3>2, <1>8
      <4>2. tables'[s][j] = tables[s][j]
        BY <3>2, <1>12
      <4>3. tables[t][i] # tables[s][j]
        BY <4>1, <1>11
      <4> QED
        BY <4>2, <4>3
    <3> QED
      BY <3>1, <3>2
  <2>3. \A t1, t2 \in Seqs : t1 # s /\ t2 # s =>
           \A i \in DOMAIN tables'[t1], j \in DOMAIN tables'[t2] :
             tables'[t1][i] = tables'[t2][j] => t1 = t2 /\ i = j
    BY <1>4 DEF BlocksExclusive
  <2> SUFFICES ASSUME NEW t1 \in Seqs, NEW t2 \in Seqs,
                      NEW i \in DOMAIN tables'[t1], NEW j \in DOMAIN tables'[t2],
                      tables'[t1][i] = tables'[t2][j]
               PROVE  t1 = t2 /\ i = j
    OBVIOUS
  <2>4. CASE t1 = s /\ t2 = s
    BY <2>1, <2>4, <1>5
  <2>5. CASE t1 = s /\ t2 # s
    BY <2>2, <2>5, <1>4, <1>5
  <2>6. CASE t1 # s /\ t2 = s
    BY <2>2, <2>6, <1>4, <1>5
  <2>7. CASE t1 # s /\ t2 # s
    BY <2>3, <2>7
  <2> QED
    BY <2>4, <2>5, <2>6, <2>7
<1>15. \A t \in Seqs : \A i \in DOMAIN tables'[t] :
          tables'[t][i] \notin freeGpu' \cup freeCpu'
  <2>1. \A t \in Seqs : t # s => \A i \in DOMAIN tables'[t] :
          tables'[t][i] \notin freeGpu' \cup freeCpu'
    BY <1>1, <1>4, <1>11
  <2>2. \A i \in 1..size : tables'[s][i] \notin freeGpu' \cup freeCpu'
    <3> SUFFICES ASSUME NEW i \in 1..size
                 PROVE  tables'[s][i] \notin freeGpu' \cup freeCpu'
      OBVIOUS
    <3>1. tables'[s][i] \in GpuBlocks
      BY <1>5, <1>9
    <3>2. \A b \in freeCpu' : b \in CpuBlocks
      BY <1>3, <1>7
    <3>3. \A b \in freeGpu' : b \in freeGpu /\ b \notin Chosen(to)
      OBVIOUS
    <3>4. tables'[s][i] \notin freeCpu'
      BY <3>1, <3>2, DevicesApart
    <3>5. CASE i \in old \cup fresh
      <4>1. tables'[s][i] \in Chosen(to)
        BY <3>5, <1>2, <1>13
      <4> QED
        BY <4>1, <3>3, <3>4
    <3>6. CASE i \notin old \cup fresh
      BY <3>6, <3>3, <3>4, <1>12
    <3> QED
      BY <3>5, <3>6
  <2> QED
    BY <2>1, <2>2, <1>5
<1>16. \A b \in Blocks : b \in freeGpu' \cup freeCpu'
          \/ \E t \in Seqs : \E i \in DOMAIN tables'[t] : tables'[t][i] = b
  <2> SUFFICES ASSUME NEW b \in Blocks, b \notin freeGpu' \cup freeCpu'
               PROVE  \E t \in Seqs : \E i \in DOMAIN tables'[t] : tables'[t][i] = b
    OBVIOUS
  <2>1. CASE b \in Chosen(to)
    <3>1. PICK i \in old \cup fresh : to[i] = b
      BY <2>1, <1>2
    <3>2. i \in DOMAIN tables'[s] /\ tables'[s][i] = b
      BY <3>1, <1>5, <1>8, <1>13
    <3> QED
      BY <3>2
  <2>2. CASE b \notin Chosen(to)
    <3>1. PICK t \in Seqs : \E i \in DOMAIN tables[t] : tables[t][i] = b
      BY <2>2 DEF BlocksExclusive
    <3>2. PICK i \in DOMAIN tables[t] : tables[t][i] = b
      BY <3>1
    <3>3. t = s => i \notin old
      BY <3>2
    <3>4. CASE t = s
      <4>1. i \in 1..size /\ i \notin old \cup fresh
        BY <3>2, <3>3, <3>4, <1>8
      <4> QED
        BY <4>1, <3>2, <3>4, <1>5, <1>12
    <3>5. CASE t # s
      BY <3>2, <3>5, <1>4
    <3> QED
      BY <3>4, <3>5
  <2> QED
    BY <2>1, <2>2
<1> QED
  BY <1>9, <1>10, <1>14, <1>15, <1>16 DEF BlocksExclusive, Blocks

-----------------------------------------------------------------------------
(* The steps, one lemma for each kind.                                     *)

\* Between two steps and in the passes, what is freed is not scheduled; while
\* blocks go out, nothing on the CPU is freed.
LEMMA FreeStep ==
    ASSUME BlockInv, NEW s \in Seqs, Free(s), s \notin scheduled,
           phase = "evict" => OnCpu(s) = {},
           computed' = [computed EXCEPT ![s] = 0],
           UNCHANGED <<workerVars, batchVars, phase>>
    PROVE  BlockInv' /\ (CacheIntact => CacheIntact')
<1>1. TypeOKBlocks' /\ BlocksExclusive'
  BY FreeKeeps DEF BlockInv
<1>2. TypeOK'
  <2>1. computed' \in [Seqs -> Nat]
    BY DEF BlockInv, TypeOK
  <2>2. UNCHANGED <<kv, scheduled, forward, phase>>
    BY DEF workerVars, batchVars
  <2> QED
    BY <1>1, <2>1, <2>2 DEF BlockInv, TypeOK, Blocks, Offsets
<1>3. \A t \in Seqs : t # s => tables'[t] = tables[t] /\ computed'[t] = computed[t]
  BY DEF Free, BlockInv, TypeOK
<1>4. tables'[s] = <<>> /\ computed'[s] = 0
  BY DEF Free, BlockInv, TypeOK, TypeOKBlocks
<1>5. UNCHANGED <<kv, scheduled, forward, phase, swapIn, swapOut>>
  BY DEF Free, workerVars, batchVars
<1>6. SizeInv'
  <2>1. forward[s] = 0
    BY DEF BlockInv, SizeInv
  <2>2. Token2Block(0) = 0 /\ Len(<<>>) = 0
    BY Token2BlockFacts
  <2>3. Len(tables'[s]) = Token2Block(computed'[s] + forward'[s])
    BY <1>4, <1>5, <2>1, <2>2
  <2> QED
    BY <1>3, <1>5, <2>1, <2>3 DEF BlockInv, SizeInv, Token2Block
<1>7. PhaseInv'
  BY <1>5 DEF BlockInv, PhaseInv
<1>8. ScheduledOnGpu'
  BY <1>3, <1>5 DEF BlockInv, ScheduledOnGpu, TypeOK
<1>9. CopiesApart'
  <2>1. \A p \in swapIn : \E t \in scheduled : \E i \in DOMAIN tables'[t] : tables'[t][i] = p[2]
    BY <1>3 DEF BlockInv, CopiesApart, TypeOK
  <2> QED
    BY <1>5, <2>1 DEF BlockInv, CopiesApart
<1>10. PendingInv'
  <2>1. freeCpu \subseteq freeCpu' /\ freeGpu \subseteq freeGpu'
    BY DEF Free
  <2>2. phase = "evict" => freeCpu' = freeCpu
    BY DEF Free
  <2> QED
    BY <1>5, <2>1, <2>2 DEF BlockInv, PendingInv
<1>11. CacheIntact => CacheIntact'
  <2> SUFFICES ASSUME CacheIntact, NEW t \in Seqs, NEW p \in 0..(computed'[t] - 1)
               PROVE  Eventual(BlockOf(t, p))'[OffsetOf(p)] = <<t, p>>
    BY DEF CacheIntact, OffsetOf
  <2>1. t # s
    BY <1>4
  <2>2. BlockOf(t, p)' = BlockOf(t, p)
    BY <1>3, <2>1 DEF BlockOf
  <2>3. Eventual(BlockOf(t, p))' = Eventual(BlockOf(t, p))
    BY <1>5, <2>2 DEF Eventual, Moved, Blocks
  <2> QED
    BY <1>3, <2>1, <2>3 DEF CacheIntact
<1> QED
  BY <1>1, <1>2, <1>6, <1>7, <1>8, <1>9, <1>10, <1>11 DEF BlockInv

\* While blocks go out nothing comes in, and nothing on the CPU is given back:
\* a block that goes out gets a destination of its own.
LEMMA SwapOutStep ==
    ASSUME BlockInv, NEW s \in Seqs, SwapOutPaused(s)
    PROVE  BlockInv' /\ (CacheIntact => CacheIntact')
<1>1. PICK to \in Handouts(OnGpu(s), freeCpu) :
        /\ tables' = [tables EXCEPT ![s] =
              [i \in DOMAIN @ |-> IF i \in OnGpu(s) THEN to[i] ELSE @[i]]]
        /\ freeCpu' = freeCpu \ Chosen(to)
        /\ freeGpu' = freeGpu \cup {tables[s][i] : i \in OnGpu(s)}
        /\ swapOut' = Update(swapOut, Mapping(s, OnGpu(s), to))
        /\ UNCHANGED swapIn
  BY DEF SwapOutPaused, SwapOut, SwapOutBlocks
<1>2. /\ phase = "evict" /\ scheduled = {} /\ swapIn = {}
      /\ OnCpu(s) = {}
      /\ UNCHANGED <<kv, computed, scheduled, forward, phase, swapIn>>
  BY <1>1 DEF SwapOutPaused, BlockInv, PhaseInv, workerVars, batchVars
<1>3. TypeOKBlocks' /\ BlocksExclusive'
  BY <1>1, SwapOutKeeps DEF BlockInv
<1>4. TypeOK'
  BY <1>2, <1>3 DEF BlockInv, TypeOK, Blocks, Offsets
<1>5. /\ \A t \in Seqs : t # s => tables'[t] = tables[t]
      /\ tables'[s] = [i \in DOMAIN tables[s] |->
                          IF i \in OnGpu(s) THEN to[i] ELSE tables[s][i]]
  BY <1>1 DEF BlockInv, TypeOK, TypeOKBlocks
<1>6. /\ to \in [OnGpu(s) -> freeCpu]
      /\ \A i, j \in OnGpu(s) : to[i] = to[j] => i = j
      /\ \A b : b \in Chosen(to) <=> \E i \in OnGpu(s) : to[i] = b
  BY DEF Handouts, Chosen
<1>7. /\ OnGpu(s) \subseteq DOMAIN tables[s]
      /\ DOMAIN tables[s] = 1..Len(tables[s]) /\ Len(tables[s]) \in Nat
      /\ OnGpu(s) = DOMAIN tables[s]
  BY <1>2, OnDevicesFacts DEF BlockInv
<1>8. \A i \in OnGpu(s) : /\ tables[s][i] \in GpuBlocks
                          /\ tables[s][i] \notin freeGpu
  BY <1>7 DEF OnGpu, BlockInv, BlocksExclusive
\* The sources of the earlier copies are free, so none of them is redirected.
<1>9. \A p : p \in swapOut' <=>
         p \in swapOut \/ \E i \in OnGpu(s) : p = <<tables[s][i], to[i]>>
  <2>1. \A p \in swapOut : \A i \in OnGpu(s) : p[1] # tables[s][i]
    BY <1>2, <1>8 DEF BlockInv, PendingInv
  <2> QED
    BY <1>1, <2>1 DEF Update, Mapping
<1>10. \A p \in swapOut : /\ p[1] \in freeGpu /\ p[2] \notin freeCpu
                          /\ p[2] \in CpuBlocks
  BY <1>2 DEF BlockInv, PendingInv, TypeOK, TypeOKBlocks
<1>11. SizeInv'
  <2>1. Len(tables'[s]) = Len(tables[s])
    BY <1>5, <1>7
  <2> QED
    BY <1>2, <1>5, <2>1 DEF BlockInv, SizeInv, Token2Block
<1>12. PhaseInv' /\ ScheduledOnGpu'
  BY <1>2 DEF BlockInv, PhaseInv, ScheduledOnGpu
<1>13. CopiesApart'
  <2> SUFFICES ASSUME NEW p \in swapOut', NEW q \in swapOut',
                      p[1] = q[1] \/ p[2] = q[2]
               PROVE  p = q
    BY <1>2 DEF CopiesApart
  <2>1. CASE p \in swapOut /\ q \in swapOut
    BY <2>1 DEF BlockInv, CopiesApart
  <2>2. ASSUME NEW i \in OnGpu(s), NEW r \in swapOut
        PROVE  r[1] # tables[s][i] /\ r[2] # to[i]
    BY <1>6, <1>8, <1>10
  <2>3. CASE p \in swapOut /\ q \notin swapOut
    BY <2>2, <2>3, <1>9
  <2>4. CASE p \notin swapOut /\ q \in swapOut
    BY <2>2, <2>4, <1>9
  <2>5. CASE p \notin swapOut /\ q \notin swapOut
    <3>1. PICK i \in OnGpu(s) : p = <<tables[s][i], to[i]>>
      BY <2>5, <1>9
    <3>2. PICK j \in OnGpu(s) : q = <<tables[s][j], to[j]>>
      BY <2>5, <1>9
    <3>3. i = j
      BY <3>1, <3>2, <1>6, <1>7 DEF BlockInv, BlocksExclusive
    <3> QED
      BY <3>1, <3>2, <3>3
  <2> QED
    BY <2>1, <2>3, <2>4, <2>5
<1>14. PendingInv'
  <2> SUFFICES ASSUME NEW p \in swapOut'
               PROVE  p[1] \in freeGpu' /\ p[2] \notin freeCpu'
    BY <1>2 DEF PendingInv
  <2>1. CASE p \in swapOut
    BY <2>1, <1>1, <1>10
  <2>2. CASE p \notin swapOut
    <3>1. PICK i \in OnGpu(s) : p = <<tables[s][i], to[i]>>
      BY <2>2, <1>9
    <3>2. to[i] \in Chosen(to)
      BY <1>6
    <3> QED
      BY <3>1, <3>2, <1>1
  <2> QED
    BY <2>1, <2>2
<1>15. CacheIntact => CacheIntact'
  <2> SUFFICES ASSUME CacheIntact, NEW t \in Seqs, NEW p \in 0..(computed[t] - 1)
               PROVE  Eventual(BlockOf(t, p))'[OffsetOf(p)] = <<t, p>>
    BY <1>2 DEF CacheIntact, OffsetOf
  <2> DEFINE i == (p \div BlockSize) + 1
  <2>1. Eventual(BlockOf(t, p))[OffsetOf(p)] = <<t, p>>
    BY DEF CacheIntact
  <2>2. p \in 0..(computed[t] + forward[t] - 1)
    BY LengthAssumption DEF BlockInv, TypeOK
  <2>3. i \in DOMAIN tables[t] /\ BlockOf(t, p) \in Blocks /\ BlockOf(t, p) = tables[t][i]
    BY <2>2, BlockOfHeld DEF BlockInv, BlockOf
  <2>4. \A b \in Blocks : /\ Eventual(b) = Moved(kv, swapOut, b)
                          /\ Eventual(b)' = Moved(kv, swapOut', b)
    BY <1>2 DEF Eventual, Moved, Blocks
  <2>5. BlockOf(t, p)' = tables'[t][i]
    BY DEF BlockOf
  <2>6. CASE t = s
    <3>1. i \in OnGpu(s)
      BY <2>3, <2>6, <1>7
    <3>2. tables[s][i] \in GpuBlocks /\ to[i] \in CpuBlocks
      BY <3>1, <1>6, <1>8 DEF BlockInv, TypeOK, TypeOKBlocks
    <3>3. tables'[s][i] = to[i]
      BY <3>1, <1>5, <1>7
    <3>4. Moved(kv, swapOut, tables[s][i]) = kv[tables[s][i]]
      <4>1. \A q \in swapOut : q[2] # tables[s][i]
        BY <1>10, <3>2, DevicesApart
      <4> QED
        BY <4>1, NotMoved
    <3>5. Moved(kv, swapOut', to[i]) = kv[tables[s][i]]
      <4> DEFINE r == <<tables[s][i], to[i]>>
      <4>1. r \in swapOut'
        BY <3>1, <1>9
      <4>2. \A q \in swapOut' : q[2] = r[2] => q = r
        BY <4>1, <1>13 DEF CopiesApart
      <4>3. Moved(kv, swapOut', r[2]) = kv[r[1]]
        BY <4>1, <4>2, MovedTo
      <4> QED
        BY <4>3
    <3>6. Eventual(BlockOf(t, p)) = kv[tables[s][i]]
      BY <2>3, <2>4, <2>6, <3>4
    <3>7. Eventual(BlockOf(t, p))' = kv[tables[s][i]]
      <4>1. BlockOf(t, p)' = to[i] /\ to[i] \in Blocks
        BY <2>5, <2>6, <3>2, <3>3 DEF Blocks
      <4>2. Eventual(BlockOf(t, p))' = Moved(kv, swapOut', to[i])
        BY <4>1, <2>4
      <4> QED
        BY <4>2, <3>5
    <3> QED
      BY <2>1, <3>6, <3>7
  <2>7. CASE t # s
    <3>1. BlockOf(t, p)' = BlockOf(t, p)
      BY <2>3, <2>5, <2>7, <1>5
    <3>2. \A q : q[2] = BlockOf(t, p) => (q \in swapOut' <=> q \in swapOut)
      <4>1. \A j \in OnGpu(s) : to[j] # BlockOf(t, p)
        BY <2>3, <1>6 DEF BlockInv, BlocksExclusive
      <4> QED
        BY <4>1, <1>9
    <3>3. Moved(kv, swapOut', BlockOf(t, p)) = Moved(kv, swapOut, BlockOf(t, p))
      <4>1. CASE \E q \in swapOut : q[2] = BlockOf(t, p)
        <5>1. PICK q \in swapOut : q[2] = BlockOf(t, p)
          BY <4>1
        <5>2. q \in swapOut' /\ (\A r \in swapOut : r[2] = q[2] => r = q)
              /\ (\A r \in swapOut' : r[2] = q[2] => r = q)
          BY <5>1, <3>2, <1>13 DEF BlockInv, CopiesApart
        <5>3. Moved(kv, swapOut, q[2]) = kv[q[1]] /\ Moved(kv, swapOut', q[2]) = kv[q[1]]
          BY <5>1, <5>2, MovedTo
        <5> QED
          BY <5>1, <5>3
      <4>2. CASE \A q \in swapOut : q[2] # BlockOf(t, p)
        BY <4>2, <3>2, NotMoved
      <4> QED
        BY <4>1, <4>2
    <3>4. Eventual(BlockOf(t, p))' = Moved(kv, swapOut', BlockOf(t, p))
      BY <3>1, <2>3, <1>2 DEF Eventual, Moved, Blocks
    <3> QED
      BY <2>1, <2>3, <2>4, <3>3, <3>4
  <2> QED
    BY <2>6, <2>7
<1> QED
  BY <1>3, <1>4, <1>11, <1>12, <1>13, <1>14, <1>15 DEF BlockInv

\* What comes back gets free GPU blocks; the CPU blocks it leaves are free, and
\* nothing goes out any more in this step.
LEMMA ScheduleStep ==
    ASSUME BlockInv, NEW s \in Seqs, NEW n \in Lengths, Schedule(s, n)
    PROVE  BlockInv' /\ (CacheIntact => CacheIntact')
<1> DEFINE size  == Len(tables[s]) + NewBlocks(s, n)
           old   == OnCpu(s)
           fresh == (Len(tables[s]) + 1)..size
<1>1. /\ IsFiniteSet(OnCpu(s)) /\ OnCpu(s) \subseteq DOMAIN tables[s]
      /\ DOMAIN tables[s] = 1..Len(tables[s]) /\ Len(tables[s]) \in Nat
      /\ OnCpu(s) \subseteq Nat
      /\ \A i \in DOMAIN tables[s] : tables[s][i] \in Blocks
  BY OnDevicesFacts DEF BlockInv
<1>2. FirstOf(OnCpu(s), Cardinality(OnCpu(s))) = OnCpu(s)
  BY <1>1, FirstOfAll
<1>3. PICK to \in Handouts(old \cup fresh, freeGpu) :
        /\ tables' = [tables EXCEPT ![s] =
              [i \in 1..size |-> IF i \in DOMAIN to THEN to[i] ELSE @[i]]]
        /\ freeGpu' = freeGpu \ Chosen(to)
        /\ freeCpu' = freeCpu \cup {tables[s][i] : i \in old}
        /\ swapIn' = Update(swapIn, Mapping(s, old, to))
        /\ UNCHANGED swapOut
  BY <1>2 DEF Schedule, Allocate
<1>4. /\ phase = "fill" /\ s \notin scheduled /\ computed[s] + n \in Nat
      /\ scheduled' = scheduled \cup {s}
      /\ forward' = [forward EXCEPT ![s] = n]
      /\ UNCHANGED <<kv, computed, phase, swapOut>>
  BY <1>3, LengthAssumption DEF Schedule, workerVars
<1>5. /\ computed[s] \in Nat /\ n \in Nat /\ forward[s] = 0
      /\ Len(tables[s]) = Token2Block(computed[s])
  BY <1>4, LengthAssumption DEF BlockInv, TypeOK, SizeInv
<1>6. size = Token2Block(computed[s] + n) /\ size \in Nat /\ size >= Len(tables[s])
  <2>1. /\ Token2Block(computed[s]) \in Nat
        /\ Token2Block(computed[s] + n) \in Nat
        /\ Token2Block(computed[s]) <= Token2Block(computed[s] + n)
    BY <1>5, Token2BlockFacts
  <2> QED
    BY <2>1, <1>5 DEF NewBlocks
<1> HIDE DEF size, old, fresh
<1>7. old = OnCpu(s) /\ fresh = (Len(tables[s]) + 1)..size
  BY DEF old, fresh
<1>8. /\ TypeOKBlocks' /\ BlocksExclusive'
      /\ \A i \in DOMAIN tables'[s] : tables'[s][i] \in GpuBlocks
  BY <1>3, <1>6, <1>7, AllocateKeeps DEF BlockInv
<1>9. TypeOK'
  BY <1>4, <1>5, <1>8 DEF BlockInv, TypeOK, Blocks, Offsets
<1>10. /\ to \in [old \cup fresh -> freeGpu] /\ DOMAIN to = old \cup fresh
       /\ \A i, j \in old \cup fresh : to[i] = to[j] => i = j
  BY DEF Handouts
<1>11. /\ \A t \in Seqs : t # s => tables'[t] = tables[t]
       /\ tables'[s] = [i \in 1..size |-> IF i \in old \cup fresh THEN to[i]
                                                               ELSE tables[s][i]]
  BY <1>3, <1>10 DEF BlockInv, TypeOK, TypeOKBlocks
<1>12. old \subseteq 1..size /\ DOMAIN tables[s] \subseteq 1..size
       /\ \A i \in DOMAIN tables[s] : i \notin fresh
  BY <1>1, <1>6, <1>7
<1>13. \A i \in old : /\ tables[s][i] \in CpuBlocks /\ tables[s][i] \notin freeCpu
                      /\ to[i] \in freeGpu
  BY <1>1, <1>7, <1>10 DEF OnCpu, BlockInv, BlocksExclusive
<1>14. freeGpu \subseteq GpuBlocks
  BY DEF BlockInv, TypeOK, TypeOKBlocks
\* The sources of the earlier copies are free: none of them is redirected.
<1>15. \A p : p \in swapIn' <=>
          p \in swapIn \/ \E i \in old : p = <<tables[s][i], to[i]>>
  <2>1. \A p \in swapIn : \A i \in old : p[1] # tables[s][i]
    BY <1>13 DEF BlockInv, PendingInv
  <2> QED
    BY <1>3, <2>1 DEF Update, Mapping
\* Their destinations are held.
<1>16. \A p \in swapIn : p[1] \in freeCpu /\ p[2] \notin freeGpu
  BY DEF BlockInv, PendingInv, CopiesApart, BlocksExclusive, TypeOK
<1>17. SizeInv'
  <2>1. Len(tables'[s]) = size
    BY <1>6, <1>11
  <2>2. forward'[s] = n /\ \A t \in Seqs : t # s => forward'[t] = forward[t]
    BY <1>4 DEF BlockInv, TypeOK
  <2>3. Len(tables'[s]) = Token2Block(computed'[s] + forward'[s])
    BY <1>4, <1>6, <2>1, <2>2
  <2> QED
    BY <1>4, <1>11, <2>2, <2>3 DEF BlockInv, SizeInv, Token2Block
<1>18. PhaseInv'
  BY <1>4 DEF PhaseInv
<1>19. ScheduledOnGpu'
  BY <1>4, <1>8, <1>11 DEF BlockInv, ScheduledOnGpu, TypeOK
<1>20. CopiesApart'
  <2>1. \A p, q \in swapIn' : (p[1] = q[1] \/ p[2] = q[2]) => p = q
    <3> SUFFICES ASSUME NEW p \in swapIn', NEW q \in swapIn',
                        p[1] = q[1] \/ p[2] = q[2]
                 PROVE  p = q
      OBVIOUS
    <3>1. CASE p \in swapIn /\ q \in swapIn
      BY <3>1 DEF BlockInv, CopiesApart
    <3>2. ASSUME NEW i \in old, NEW r \in swapIn
          PROVE  r[1] # tables[s][i] /\ r[2] # to[i]
      BY <1>13, <1>16
    <3>3. CASE p \in swapIn /\ q \notin swapIn
      BY <3>2, <3>3, <1>15
    <3>4. CASE p \notin swapIn /\ q \in swapIn
      BY <3>2, <3>4, <1>15
    <3>5. CASE p \notin swapIn /\ q \notin swapIn
      <4>1. PICK i \in old : p = <<tables[s][i], to[i]>>
        BY <3>5, <1>15
      <4>2. PICK j \in old : q = <<tables[s][j], to[j]>>
        BY <3>5, <1>15
      <4>3. i \in DOMAIN tables[s] /\ j \in DOMAIN tables[s]
        BY <1>1, <1>7
      <4>4. i = j
        BY <4>1, <4>2, <4>3, <1>10 DEF BlockInv, BlocksExclusive
      <4> QED
        BY <4>1, <4>2, <4>4
    <3> QED
      BY <3>1, <3>3, <3>4, <3>5
  <2>2. \A p \in swapIn' : \E t \in scheduled' : \E i \in DOMAIN tables'[t] : tables'[t][i] = p[2]
    <3> SUFFICES ASSUME NEW p \in swapIn'
                 PROVE  \E t \in scheduled' : \E i \in DOMAIN tables'[t] : tables'[t][i] = p[2]
      OBVIOUS
    <3>1. CASE p \in swapIn
      <4>1. PICK t \in scheduled : \E i \in DOMAIN tables[t] : tables[t][i] = p[2]
        BY <3>1 DEF BlockInv, CopiesApart
      <4>2. t # s /\ t \in Seqs /\ t \in scheduled'
        BY <1>4 DEF BlockInv, TypeOK
      <4> QED
        BY <4>1, <4>2, <1>11
    <3>2. CASE p \notin swapIn
      <4>1. PICK i \in old : p = <<tables[s][i], to[i]>>
        BY <3>2, <1>15
      <4>2. i \in DOMAIN tables'[s] /\ tables'[s][i] = p[2]
        BY <4>1, <1>11, <1>12
      <4> QED
        BY <4>2, <1>4
    <3> QED
      BY <3>1, <3>2
  <2> QED
    BY <2>1, <2>2, <1>4 DEF BlockInv, CopiesApart
<1>21. PendingInv'
  <2>1. \A p \in swapIn' : p[1] \in freeCpu'
    BY <1>3, <1>15, <1>16
  <2> QED
    BY <2>1, <1>4 DEF PendingInv
<1>22. CacheIntact => CacheIntact'
  <2> SUFFICES ASSUME CacheIntact, NEW t \in Seqs, NEW p \in 0..(computed[t] - 1)
               PROVE  Eventual(BlockOf(t, p))'[OffsetOf(p)] = <<t, p>>
    BY <1>4 DEF CacheIntact, OffsetOf
  <2> DEFINE i == (p \div BlockSize) + 1
             out == [c \in Blocks |-> Moved(kv, swapOut, c)]
  <2>1. Eventual(BlockOf(t, p))[OffsetOf(p)] = <<t, p>>
    BY DEF CacheIntact
  <2>2. p \in 0..(computed[t] + forward[t] - 1)
    BY LengthAssumption DEF BlockInv, TypeOK
  <2>3. i \in DOMAIN tables[t] /\ BlockOf(t, p) \in Blocks /\ BlockOf(t, p) = tables[t][i]
    BY <2>2, BlockOfHeld DEF BlockInv, BlockOf
  <2>4. BlockOf(t, p)' = tables'[t][i]
    BY DEF BlockOf
  <2>5. Eventual(BlockOf(t, p)) = Moved(out, swapIn, BlockOf(t, p))
    BY DEF Eventual
  <2>6. Eventual(BlockOf(t, p))' = Moved(out, swapIn', tables'[t][i])
    BY <2>4, <1>4 DEF Eventual, Moved, Blocks
  <2> HIDE DEF i, out
  <2>7. CASE t = s /\ i \in old
    <3>1. tables[s][i] \in CpuBlocks /\ tables[s][i] \in Blocks
      BY <2>7, <1>13 DEF Blocks
    <3>2. tables'[s][i] = to[i]
      BY <2>7, <1>11, <1>12
    <3>3. Moved(out, swapIn, tables[s][i]) = out[tables[s][i]]
      <4>1. \A q \in swapIn : q[2] # tables[s][i]
        BY <3>1, DevicesApart DEF BlockInv, TypeOK, TypeOKBlocks
      <4> QED
        BY <4>1, NotMoved
    <3>4. Moved(out, swapIn', to[i]) = out[tables[s][i]]
      <4> DEFINE r == <<tables[s][i], to[i]>>
      <4>1. r \in swapIn'
        BY <2>7, <1>15
      <4>2. \A q \in swapIn' : q[2] = r[2] => q = r
        BY <4>1, <1>20 DEF CopiesApart
      <4>3. Moved(out, swapIn', r[2]) = out[r[1]]
        BY <4>1, <4>2, MovedTo
      <4> QED
        BY <4>3
    <3> QED
      BY <2>1, <2>3, <2>5, <2>6, <2>7, <3>2, <3>3, <3>4
  <2>8. CASE t # s \/ i \notin old
    <3>1. tables'[t][i] = tables[t][i]
      BY <2>3, <2>8, <1>11, <1>12
    <3>2. tables[t][i] \notin freeGpu
      BY <2>3 DEF BlockInv, BlocksExclusive
    <3>3. \A q : q[2] = tables[t][i] => (q \in swapIn' <=> q \in swapIn)
      BY <3>2, <1>13, <1>15
    <3>4. Moved(out, swapIn', tables[t][i]) = Moved(out, swapIn, tables[t][i])
      <4>1. CASE \E q \in swapIn : q[2] = tables[t][i]
        <5>1. PICK q \in swapIn : q[2] = tables[t][i]
          BY <4>1
        <5>2. q \in swapIn' /\ (\A r \in swapIn : r[2] = q[2] => r = q)
              /\ (\A r \in swapIn' : r[2] = q[2] => r = q)
          BY <5>1, <3>3, <1>20 DEF BlockInv, CopiesApart
        <5>3. Moved(out, swapIn, q[2]) = out[q[1]] /\ Moved(out, swapIn', q[2]) = out[q[1]]
          BY <5>1, <5>2, MovedTo
        <5> QED
          BY <5>1, <5>3
      <4>2. CASE \A q \in swapIn : q[2] # tables[t][i]
        BY <4>2, <3>3, NotMoved
      <4> QED
        BY <4>1, <4>2
    <3> QED
      BY <2>1, <2>3, <2>5, <2>6, <3>1, <3>4
  <2> QED
    BY <2>7, <2>8
<1> QED
  BY <1>8, <1>9, <1>17, <1>18, <1>19, <1>20, <1>21, <1>22 DEF BlockInv

-----------------------------------------------------------------------------
(* The worker.                                                             *)

ForwardedTokens(start, n) == UNION {{s} \X (start[s]..(start[s] + n[s] - 1)) : s \in Seqs}

WritesTo(start, n, b, o) ==
    {t \in ForwardedTokens(start, n) : BlockOf(t[1], t[2]) = b /\ OffsetOf(t[2]) = o}

\* The content of a slot after the forward pass
LEMMA WrittenSlot ==
    ASSUME NEW k, NEW start, NEW n, NEW b \in Blocks, NEW o \in Offsets
    PROVE  Written(k, start, n)[b][o] = IF WritesTo(start, n, b, o) # {}
                                        THEN CHOOSE t \in WritesTo(start, n, b, o) : TRUE
                                        ELSE k[b][o]
BY DEF Written, WritesTo, ForwardedTokens

\* The tokens that a forward pass writes
LEMMA Forwarded ==
    ASSUME NEW start \in [Seqs -> Nat], NEW n \in [Seqs -> Nat], NEW t
    PROVE  t \in ForwardedTokens(start, n) <=>
             \E s \in Seqs : \E p \in Nat :
                 t = <<s, p>> /\ start[s] <= p /\ p < start[s] + n[s]
BY DEF ForwardedTokens

\* Every token of the sequences, the new ones included, is in its slot once the
\* new ones are written.
LEMMA TokensInPlace ==
    ASSUME BlockInv, NEW k,
           \A s \in Seqs : \A p \in 0..(computed[s] - 1) :
               k[BlockOf(s, p)][OffsetOf(p)] = <<s, p>>,
           NEW s \in Seqs, NEW p \in 0..(computed[s] + forward[s] - 1)
    PROVE  Written(k, computed, forward)[BlockOf(s, p)][OffsetOf(p)] = <<s, p>>
<1> DEFINE b == BlockOf(s, p)
           o == OffsetOf(p)
           W == WritesTo(computed, forward, b, o)
<1>1. computed \in [Seqs -> Nat] /\ forward \in [Seqs -> Nat]
  BY LengthAssumption DEF BlockInv, TypeOK
<1>2. p \in Nat /\ b \in Blocks /\ o \in Offsets
      /\ (p \div BlockSize) + 1 \in DOMAIN tables[s]
  BY BlockOfHeld DEF BlockInv
<1>3. ASSUME NEW t \in W PROVE t = <<s, p>>
  <2>1. PICK s2 \in Seqs, q \in Nat :
          t = <<s2, q>> /\ computed[s2] <= q /\ q < computed[s2] + forward[s2]
    BY <1>1, <1>3, Forwarded DEF WritesTo
  <2>2. BlockOf(s2, q) = BlockOf(s, p) /\ OffsetOf(q) = OffsetOf(p)
    BY <1>3, <2>1 DEF WritesTo
  <2>3. q \in 0..(computed[s2] + forward[s2] - 1)
    BY <1>1, <2>1
  <2>4. (q \div BlockSize) + 1 \in DOMAIN tables[s2]
    BY <2>3, BlockOfHeld DEF BlockInv
  <2>5. s2 = s /\ (q \div BlockSize) + 1 = (p \div BlockSize) + 1
    BY <1>2, <2>2, <2>4 DEF BlockOf, BlockInv, BlocksExclusive
  <2>6. q \div BlockSize = p \div BlockSize
    BY <1>2, <2>1, <2>5, BlocksAssumption
  <2>7. q = p
    BY <1>2, <2>2, <2>6, PositionUnique DEF OffsetOf
  <2> QED
    BY <2>1, <2>5, <2>7
<1>4. <<s, p>> \in W => computed[s] <= p
  <2> SUFFICES ASSUME <<s, p>> \in W PROVE computed[s] <= p
    OBVIOUS
  <2>1. PICK s2 \in Seqs, q \in Nat :
          <<s, p>> = <<s2, q>> /\ computed[s2] <= q /\ q < computed[s2] + forward[s2]
    BY <1>1, Forwarded DEF WritesTo
  <2> QED
    BY <2>1
<1>5. Written(k, computed, forward)[b][o] = IF W # {} THEN CHOOSE t \in W : TRUE ELSE k[b][o]
  BY <1>2, WrittenSlot
<1>6. CASE p < computed[s]
  <2>1. W = {}
    BY <1>1, <1>2, <1>3, <1>4, <1>6
  <2>2. p \in 0..(computed[s] - 1)
    BY <1>1, <1>2, <1>6
  <2> QED
    BY <1>5, <2>1, <2>2
<1>7. CASE computed[s] <= p
  <2>1. p < computed[s] + forward[s]
    BY <1>1
  <2>2. <<s, p>> \in ForwardedTokens(computed, forward)
    BY <1>1, <1>2, <1>7, <2>1, Forwarded
  <2>3. <<s, p>> \in W
    BY <2>2 DEF WritesTo
  <2>4. (CHOOSE t \in W : TRUE) = <<s, p>>
    BY <1>3, <2>3
  <2> QED
    BY <1>5, <2>3, <2>4
<1> QED
  BY <1>1, <1>2, <1>6, <1>7

\* The copies of a dictionary put blocks in the place of blocks.
LEMMA CopiesType ==
    ASSUME NEW K, NEW k \in [Blocks -> K], NEW dict, NEW c \in Copies(k, dict)
    PROVE  c \in [Blocks -> K]
BY DEF Copies

\* After a forward pass each slot holds a token or nothing.
LEMMA WrittenType ==
    ASSUME NEW k \in [Blocks -> [Offsets -> (Seqs \X Nat) \cup {Nothing}]],
           NEW start \in [Seqs -> Nat], NEW n \in [Seqs -> Nat]
    PROVE  Written(k, start, n) \in [Blocks -> [Offsets -> (Seqs \X Nat) \cup {Nothing}]]
<1>1. ASSUME NEW b \in Blocks, NEW o \in Offsets
      PROVE  Written(k, start, n)[b][o] \in (Seqs \X Nat) \cup {Nothing}
  <2> DEFINE W == WritesTo(start, n, b, o)
  <2>1. \A t \in W : t \in Seqs \X Nat
    BY Forwarded DEF WritesTo
  <2>2. W # {} => (CHOOSE t \in W : TRUE) \in W
    OBVIOUS
  <2> QED
    BY <2>1, <2>2, WrittenSlot
<1>2. Written(k, start, n) = [b \in Blocks |-> [o \in Offsets |-> Written(k, start, n)[b][o]]]
  BY DEF Written
<1> HIDE DEF Written
<1> QED
  BY <1>1, <1>2

\* The pending copies and the new tokens are what Eventual announced, and the
\* attention finds every token of its sequences.
LEMMA ExecuteStep ==
    ASSUME BlockInv, NEW k1 \in Copies(kv, swapOut), NEW k2 \in Copies(k1, swapIn)
    PROVE  /\ \A b \in Blocks : k2[b] = Eventual(b)
           /\ k2 \in [Blocks -> [Offsets -> (Seqs \X Nat) \cup {Nothing}]]
<1>1. /\ kv \in [Blocks -> [Offsets -> (Seqs \X Nat) \cup {Nothing}]]
      /\ swapIn \subseteq CpuBlocks \X GpuBlocks
      /\ swapOut \subseteq GpuBlocks \X CpuBlocks
  BY DEF BlockInv, TypeOK, TypeOKBlocks
<1>2. k1 \in [Blocks -> [Offsets -> (Seqs \X Nat) \cup {Nothing}]]
  BY <1>1, CopiesType
<1>3. k2 \in [Blocks -> [Offsets -> (Seqs \X Nat) \cup {Nothing}]]
  BY <1>2, CopiesType
<1>4. /\ \A p, q \in swapOut : p[2] = q[2] => p = q
      /\ \A p \in swapOut : p = <<p[1], p[2]>>
      /\ \A p, q \in swapIn : p[2] = q[2] => p = q
      /\ \A p \in swapIn : p = <<p[1], p[2]>>
  BY <1>1 DEF BlockInv, CopiesApart
<1>5. \A b \in Blocks : k1[b] = Moved(kv, swapOut, b)
  BY <1>4, CopiesMove
<1>6. k1 = [c \in Blocks |-> Moved(kv, swapOut, c)]
  BY <1>2, <1>5
<1>7. \A b \in Blocks : k2[b] = Moved(k1, swapIn, b)
  BY <1>4, CopiesMove
<1> QED
  BY <1>3, <1>6, <1>7 DEF Eventual

\* The execution of a batch keeps the contents of the cache right, and reads
\* of every sequence all tokens computed so far.
LEMMA FinishStep ==
    ASSUME BlockInv, Finish
    PROVE  /\ BlockInv' /\ (CacheIntact => CacheIntact')
           /\ CacheIntact => reads' =
                [s \in Seqs |-> IF forward[s] > 0
                                THEN Store!Tokens(s, computed[s] + forward[s]) ELSE <<>>]
<1>0. PICK k1 \in Copies(kv, swapOut) : \E k2 \in Copies(k1, swapIn) :
        /\ kv' = Forget(Written(k2, computed, forward))
        /\ reads' = [s \in Seqs |-> IF forward[s] > 0
                       THEN Context(Written(k2, computed, forward), s, computed[s] + forward[s])
                       ELSE <<>>]
  BY DEF Finish, Execute
<1>1. PICK k2 \in Copies(k1, swapIn) :
        /\ kv' = Forget(Written(k2, computed, forward))
        /\ reads' = [s \in Seqs |-> IF forward[s] > 0
                       THEN Context(Written(k2, computed, forward), s, computed[s] + forward[s])
                       ELSE <<>>]
  BY <1>0
<1>2. /\ phase = "fill" /\ phase' \in {"idle", "evict"}
      /\ swapIn' = {} /\ swapOut' = {}
      /\ UNCHANGED <<tables, freeGpu, freeCpu>>
      /\ computed' = [s \in Seqs |-> computed[s] + forward[s]]
      /\ scheduled' = {} /\ forward' = NoBatch
  BY PhaseAssumption DEF Finish, Execute
<1>3. computed \in [Seqs -> Nat] /\ forward \in [Seqs -> Nat]
  BY LengthAssumption DEF BlockInv, TypeOK
<1>4. /\ \A b \in Blocks : k2[b] = Eventual(b)
      /\ k2 \in [Blocks -> [Offsets -> (Seqs \X Nat) \cup {Nothing}]]
  BY <1>1, ExecuteStep
<1> DEFINE k == Written(k2, computed, forward)
<1>5. k \in [Blocks -> [Offsets -> (Seqs \X Nat) \cup {Nothing}]]
  BY <1>3, <1>4, WrittenType
<1>6. kv' = Forget(k)
  BY <1>1
<1> HIDE DEF k
<1>7. kv' \in [Blocks -> [Offsets -> (Seqs \X Nat) \cup {Nothing}]]
  BY <1>5, <1>6 DEF Forget
<1>9. TypeOK'
  <2>1. computed' \in [Seqs -> Nat]
    BY <1>2, <1>3
  <2>2. forward' \in [Seqs -> Nat]
    BY <1>2 DEF NoBatch
  <2>3. TypeOKBlocks'
    BY <1>2 DEF BlockInv, TypeOK, TypeOKBlocks, Blocks
  <2> QED
    BY <1>2, <1>7, <2>1, <2>2, <2>3 DEF TypeOK, Blocks, Offsets
<1>10. BlocksExclusive'
  BY <1>2 DEF BlockInv, BlocksExclusive, Blocks
<1>11. SizeInv'
  <2>1. \A s \in Seqs : computed'[s] + forward'[s] = computed[s] + forward[s]
    BY <1>2, <1>3 DEF NoBatch
  <2>2. \A s \in Seqs : forward'[s] = 0
    BY <1>2 DEF NoBatch
  <2> QED
    BY <1>2, <2>1, <2>2 DEF BlockInv, SizeInv, Token2Block
<1>12. PhaseInv' /\ ScheduledOnGpu' /\ CopiesApart' /\ PendingInv'
  BY <1>2 DEF PhaseInv, ScheduledOnGpu, CopiesApart, PendingInv
<1>13. ASSUME CacheIntact
       PROVE  \A s \in Seqs : \A p \in 0..(computed[s] + forward[s] - 1) :
                 k[BlockOf(s, p)][OffsetOf(p)] = <<s, p>>
  <2>1. \A s \in Seqs : \A p \in 0..(computed[s] - 1) :
            k2[BlockOf(s, p)][OffsetOf(p)] = <<s, p>>
    <3> SUFFICES ASSUME NEW s \in Seqs, NEW p \in 0..(computed[s] - 1)
                 PROVE  k2[BlockOf(s, p)][OffsetOf(p)] = <<s, p>>
      OBVIOUS
    <3>1. p \in 0..(computed[s] + forward[s] - 1)
      BY <1>3
    <3>2. BlockOf(s, p) \in Blocks
      BY <3>1, BlockOfHeld DEF BlockInv
    <3> QED
      BY <3>2, <1>4, <1>13 DEF CacheIntact
  <2> QED
    BY <2>1, TokensInPlace DEF k
<1>14. CacheIntact => CacheIntact'
  <2> SUFFICES ASSUME CacheIntact, NEW s \in Seqs, NEW p \in 0..(computed[s] + forward[s] - 1)
               PROVE  Eventual(BlockOf(s, p))'[OffsetOf(p)] = <<s, p>>
    BY <1>2, <1>3 DEF CacheIntact, OffsetOf
  <2>1. /\ BlockOf(s, p) \in Blocks
        /\ (p \div BlockSize) + 1 \in DOMAIN tables[s]
    BY BlockOfHeld DEF BlockInv
  <2>2. BlockOf(s, p) \in Held
    BY <2>1 DEF Held, BlockOf
  <2>3. kv'[BlockOf(s, p)] = k[BlockOf(s, p)]
    BY <1>6, <2>1, <2>2 DEF Forget
  <2>4. BlockOf(s, p)' = BlockOf(s, p)
    BY <1>2 DEF BlockOf
  <2>5. Eventual(BlockOf(s, p))' = kv'[BlockOf(s, p)]
    BY <1>2, <2>1, <2>4 DEF Eventual, Moved, Blocks
  <2> QED
    BY <1>13, <2>3, <2>5
<1>15. CacheIntact => reads' =
                [s \in Seqs |-> IF forward[s] > 0
                                THEN Store!Tokens(s, computed[s] + forward[s]) ELSE <<>>]
  <2> SUFFICES ASSUME CacheIntact, NEW s \in Seqs
               PROVE  Context(k, s, computed[s] + forward[s])
                        = Store!Tokens(s, computed[s] + forward[s])
    BY <1>1 DEF k
  <2>1. \A i \in 1..(computed[s] + forward[s]) : i - 1 \in 0..(computed[s] + forward[s] - 1)
    BY <1>3
  <2>2. \A i \in 1..(computed[s] + forward[s]) :
            k[BlockOf(s, i - 1)][OffsetOf(i - 1)] = <<s, i - 1>>
    BY <1>13, <2>1
  <2> QED
    BY <2>2 DEF Context, Store!Tokens
<1> QED
  BY <1>9, <1>10, <1>11, <1>12, <1>14, <1>15 DEF BlockInv

-----------------------------------------------------------------------------
(* The theorems.                                                           *)

\* At first all blocks are free and nothing is computed.
LEMMA InitHolds ==
    ASSUME Init
    PROVE  BlockInv /\ CacheIntact
<1>1. TypeOK
  <2>1. tables \in [Seqs -> Seq(Blocks)]
    BY DEF Init, InitBlocks
  <2> QED
    BY <2>1, LengthAssumption
    DEF Init, InitBlocks, InitWorker, NoBatch, TypeOK, TypeOKBlocks
<1>2. \A s \in Seqs : Len(tables[s]) = 0 /\ DOMAIN tables[s] = {}
  BY DEF Init, InitBlocks
<1>3. BlocksExclusive
  BY <1>2 DEF Init, InitBlocks, BlocksExclusive, Blocks
<1>4. SizeInv
  <2>1. Token2Block(0) = 0 /\ 0 + 0 = 0
    BY Token2BlockFacts
  <2> QED
    BY <1>2, <2>1 DEF Init, NoBatch, SizeInv
<1>5. PhaseInv /\ ScheduledOnGpu /\ CopiesApart /\ PendingInv
  BY DEF Init, InitBlocks, PhaseInv, ScheduledOnGpu, CopiesApart, PendingInv
<1>6. CacheIntact
  BY DEF Init, CacheIntact
<1> QED
  BY <1>1, <1>3, <1>4, <1>5, <1>6 DEF BlockInv

\* A step that touches neither blocks nor contents
LEMMA IdleStep ==
    ASSUME BlockInv, UNCHANGED <<blockVars, kv, computed, batchVars>>,
           phase' = phase \/ (phase = "idle" /\ phase' = "evict")
              \/ (phase = "evict" /\ phase' = "fill")
    PROVE  BlockInv' /\ (CacheIntact => CacheIntact')
<1>1. UNCHANGED <<tables, freeGpu, freeCpu, swapIn, swapOut, kv, computed, scheduled, forward>>
  BY DEF blockVars, batchVars
<1>2. TypeOK'
  BY <1>1 DEF BlockInv, TypeOK, TypeOKBlocks, Blocks, Offsets
<1>3. BlocksExclusive' /\ SizeInv' /\ ScheduledOnGpu' /\ CopiesApart'
  BY <1>1 DEF BlockInv, BlocksExclusive, SizeInv, ScheduledOnGpu, CopiesApart, Blocks, Token2Block
<1>4. PhaseInv' /\ PendingInv'
  BY <1>1 DEF BlockInv, PhaseInv, PendingInv
<1>5. CacheIntact => CacheIntact'
  BY <1>1 DEF CacheIntact, Eventual, Moved, Blocks, BlockOf, OffsetOf
<1> QED
  BY <1>2, <1>3, <1>4, <1>5 DEF BlockInv

\* Every step keeps the blocks exclusive and the contents right.
LEMMA StepHolds ==
    ASSUME BlockInv, [Next]_vars
    PROVE  BlockInv' /\ (CacheIntact => CacheIntact')
<1>1. CASE \E s \in Seqs : Release(s)
  <2>1. PICK s \in Seqs : Release(s)
    BY <1>1
  <2>2. s \notin scheduled
    BY <2>1 DEF Release, BlockInv, PhaseInv
  <2> QED
    BY <2>1, <2>2, FreeStep DEF Release
<1>2. CASE \E s \in Seqs : SwapOutPaused(s)
  BY <1>2, SwapOutStep
<1>3. CASE \E s \in Seqs : Discard(s)
  <2>1. PICK s \in Seqs : Discard(s)
    BY <1>3
  <2>2. s \notin scheduled /\ (phase = "evict" => OnCpu(s) = {})
    BY <2>1 DEF Discard, BlockInv, PhaseInv
  <2> QED
    BY <2>1, <2>2, FreeStep DEF Discard
<1>4. CASE \E s \in Seqs : \E n \in Lengths : Schedule(s, n)
  BY <1>4, ScheduleStep
<1>5. CASE Begin
  BY <1>5, IdleStep DEF Begin
<1>6. CASE StartPasses
  BY <1>6, IdleStep DEF StartPasses
<1>7. CASE Finish
  BY <1>7, FinishStep
<1>8. CASE UNCHANGED vars
  BY <1>8, IdleStep DEF vars, workerVars
<1> QED
  BY <1>1, <1>2, <1>3, <1>4, <1>5, <1>6, <1>7, <1>8 DEF Next

\* Both hold in every state.
LEMMA CacheInvariant == Spec => [](BlockInv /\ CacheIntact)
<1>1. Init => BlockInv /\ CacheIntact
  BY InitHolds
<1>2. BlockInv /\ CacheIntact /\ [Next]_vars => (BlockInv /\ CacheIntact)'
  BY StepHolds
<1> QED
  BY <1>1, <1>2, PTL DEF Spec

\* The type invariant of the block manager and the worker: every copy goes from
\* one device to the other, and no sequence outgrows its limit.
THEOREM CacheTyped == Spec => []TypeOK
<1>1. BlockInv /\ CacheIntact => TypeOK
  BY DEF BlockInv
<1> QED
  BY <1>1, CacheInvariant, PTL

\* No block is lost, handed out twice or held by two sequences, through every
\* allocation, swap and discard (block_manager.py, BlockAllocator).
THEOREM CacheBlocksExclusive == Spec => []BlocksExclusive
<1>1. BlockInv /\ CacheIntact => BlocksExclusive
  BY DEF BlockInv
<1> QED
  BY <1>1, CacheInvariant, PTL

\* The copies of one step have different sources and destinations, whatever the
\* order in which swap_blocks makes them (cache_engine.py, _swap).
THEOREM CacheCopiesApart == Spec => []CopiesApart
<1>1. BlockInv /\ CacheIntact => CopiesApart
  BY DEF BlockInv
<1> QED
  BY <1>1, CacheInvariant, PTL

\* The computed tokens of every sequence are where its block table and the
\* pending copies say.
THEOREM CacheContents == Spec => []CacheIntact
BY CacheInvariant, PTL

-----------------------------------------------------------------------------
(* The refinement.                                                         *)

\* Every step is a step of TokenStore, or none.
LEMMA StepRefines ==
    ASSUME BlockInv, CacheIntact, [Next]_vars
    PROVE  [Store!Next]_(<<computed, reads>>)
<1>1. computed \in [Seqs -> Nat] /\ forward \in [Seqs -> Nat]
  BY LengthAssumption DEF BlockInv, TypeOK
<1>2. ASSUME NEW s \in Seqs, Release(s) \/ Discard(s)
      PROVE  Store!Drop(s)
  BY <1>2 DEF Release, Discard, Store!Drop, workerVars
<1>3. ASSUME NEW s \in Seqs, SwapOutPaused(s) \/ \E n \in Lengths : Schedule(s, n)
      PROVE  UNCHANGED <<computed, reads>>
  BY <1>3 DEF SwapOutPaused, Schedule, workerVars
<1>4. CASE Begin \/ StartPasses
  <2>1. Store!Rest
    BY <1>4 DEF Begin, StartPasses, Store!Rest, Unread
  <2> QED
    BY <2>1 DEF Store!Next
<1>5. CASE Finish
  <2>1. reads' = [s \in Seqs |-> IF forward[s] > 0
                                 THEN Store!Tokens(s, computed[s] + forward[s]) ELSE <<>>]
    BY <1>5, FinishStep
  <2>2. computed' = [s \in Seqs |-> computed[s] + forward[s]]
    BY <1>5 DEF Finish
  <2>3. computed' \in [Seqs -> Nat] /\ \A s \in Seqs : computed'[s] >= computed[s]
    BY <1>1, <2>2
  <2>4. reads' = [s \in Seqs |-> IF computed'[s] > computed[s]
                                 THEN Store!Tokens(s, computed'[s]) ELSE <<>>]
    <3>1. \A s \in Seqs : /\ computed'[s] = computed[s] + forward[s]
                          /\ computed'[s] > computed[s] <=> forward[s] > 0
      BY <1>1, <2>2
    <3> QED
      BY <2>1, <3>1
  <2>5. Store!Forward
    BY <2>3, <2>4 DEF Store!Forward
  <2> QED
    BY <2>5 DEF Store!Next
<1>6. CASE UNCHANGED vars
  BY <1>6 DEF vars, workerVars
<1> QED
  BY <1>2, <1>3, <1>4, <1>5, <1>6 DEF Next, Store!Next

\* The attention of every forward pass reads all the tokens of its sequences and
\* no other: block manager, swaps and worker together implement a private
\* memory for each sequence.
THEOREM CacheServesTokens == Spec => ServesTokens
<1>1. Init => Store!Init
  BY DEF Init, InitWorker, Unread, Store!Init
<1>2. BlockInv /\ CacheIntact /\ [Next]_vars => [Store!Next]_(<<computed, reads>>)
  BY StepRefines
<1> QED
  BY <1>1, <1>2, CacheInvariant, PTL DEF Spec, ServesTokens, Store!Spec
=============================================================================
