------------------------- MODULE SchedulerV2Proofs -------------------------
(***************************************************************************)
(* Proofs about SchedulerV2, for every number of requests, every size of   *)
(* the pools, the batch and the blocks, and every outcome of classify():   *)
(* its types and counters, that tables and data agree, then the order of   *)
(* the calls of one step to the block manager, the one queue of a request, *)
(* the victims that hold blocks, the blocks that are neither lost nor      *)
(* invented, and the empty step.                                           *)
(***************************************************************************)
EXTENDS SchedulerV2, DataLemmas

-----------------------------------------------------------------------------
(* First invariant: types, and what keeps the counters natural numbers.    *)

\* A workload never asks for more than there is to do.
WorkBounded(r) ==
    /\ work[r].tokens <= inflight[r]
    /\ work[r].swap <= swapLen[r]

\* What the preemption loop knows of cur.
CurInv ==
    cur # 0 => /\ pc \in {"pass1", "pass2", "crashed"}
               /\ WorkBounded(cur)
               /\ work[cur].tokens <= batchLeft
               /\ MemoryRequirement(cur, work[cur]) <= newBlocks

CountInv ==
    /\ TypeOK
    /\ \A r \in Reqs : inflight[r] <= len[r]
    /\ \A r \in scheduled : WorkBounded(r)
    /\ CurInv

-----------------------------------------------------------------------------
(* Second invariant: where a request is, and what its table holds.         *)

\* A request is in one place: the call of schedule() holds it once, running
\* excludes the other queues, and a paused request is in none of them (it
\* leaves running when the processing of the outputs ends).
PlaceInv == \A r \in Reqs :
    /\ r \in targets => r \notin delayed \cup scheduled \cup {cur}
    /\ r \in delayed => r \notin scheduled \cup {cur}
    /\ r \in scheduled => r # cur
    /\ r \in running => r \notin waiting \cup swapped
    /\ mode[r] # "none" => r \notin waiting \cup swapped \cup Handled
    /\ mode[r] # "none" /\ r \in running => pc = "process"

\* What each phase has left empty or taken from elsewhere
PhaseInv ==
    /\ pc \in {"idle", "pause", "execute", "process"} =>
          targets = {} /\ delayed = {} /\ cur = 0
    /\ pc \in {"idle", "pause", "process"} => scheduled = {}
    /\ pc # "process" => sampled = {}
    /\ pc \in {"idle", "execute", "process"} => victims = {}
    /\ pc \notin {"pause", "crashed"} => demoted = {}
    /\ pc \in {"pass1", "after1"} =>
          running = {} /\ \A r \in Handled : r \notin waiting \cup swapped
    /\ pc \in {"pass2", "after2"} =>
          \A r \in targets \cup delayed \cup ({cur} \ {0}) : r \in waiting \cup swapped
    /\ pc = "execute" => scheduled \subseteq running

\* Paused requests that may lose their blocks have them on the GPU.
VictimInv ==
    \A r \in Reqs : /\ r \in victims \cup demoted => mode[r] = "PRESERVE"
                    /\ ~(r \in victims /\ r \in demoted)

\* Only live requests are held or queued, but for those that the phase has
\* just ignored or stopped.
LiveInv == \A r \in Reqs :
    /\ r \in Handled => Live(r)
    /\ pc \notin {"pass2", "after2", "crashed"} /\ r \in waiting \cup swapped => Live(r)
    /\ pc \notin {"process", "crashed"} /\ r \in running => Live(r)
    /\ pc = "process" /\ r \in running => status[r] # "none"

\* A request whose new token is being processed has everything computed.
SampledInv == \A r \in Reqs : r \in sampled =>
    /\ inflight[r] = 0 /\ swapLen[r] = 0
    /\ Live(r) /\ mode[r] = "none" /\ r \notin waiting \cup swapped

\* All swapped blocks come back at once; a request that has not arrived has
\* nothing computed.
WorkInv == \A r \in Reqs :
    /\ r \in scheduled \/ r = cur => work[r].swap = swapLen[r]
    /\ len[r] > 0
    /\ status[r] = "none" => /\ inflight[r] = len[r] /\ swapLen[r] = 0
                             /\ gpu[r] = 0 /\ cpu[r] = 0

TableInv ==
    /\ PlaceInv /\ PhaseInv /\ VictimInv /\ LiveInv /\ SampledInv /\ WorkInv
    /\ TableMatchesData /\ ModeMatchesBlocks

-----------------------------------------------------------------------------
(* Arithmetic.                                                             *)

\* Requests are numbered from 1; 0 stands for none.
LEMMA ReqsFacts ==
    /\ Reqs \subseteq Nat \ {0}
    /\ IsFiniteSet(Reqs)
    /\ 0 \notin Reqs
BY SizesAssumption, FS_Interval DEF Reqs

\* token_2_block returns a natural number.
LEMMA Token2BlockNat ==
    ASSUME NEW n \in Nat
    PROVE  Token2Block(n) \in Nat
BY SizesAssumption, SMT DEF Token2Block

\* More tokens never need fewer blocks.
LEMMA Token2BlockMonotonic ==
    ASSUME NEW m \in Nat, NEW n \in Nat, m <= n
    PROVE  Token2Block(m) <= Token2Block(n)
BY SizesAssumption, SMTT(30) DEF Token2Block

\* No token needs no block, and one token needs one.
LEMMA Token2BlockZero ==
    /\ Token2Block(0) = 0
    /\ \A n \in Nat \ {0} : Token2Block(n) > 0
<1>1. Token2Block(0) = 0
  BY SizesAssumption, SMT DEF Token2Block
<1>2. ASSUME NEW n \in Nat \ {0} PROVE Token2Block(n) > 0
  <2>1. Token2Block(1) = 1
    BY SizesAssumption, SMT DEF Token2Block
  <2> QED
    BY <2>1, Token2BlockMonotonic, Token2BlockNat
<1> QED
  BY <1>1, <1>2

\* The blocks a chunk of n tokens adds
LEMMA InflightBlocksNat ==
    ASSUME CountInv, NEW r \in Reqs, NEW n \in Nat
    PROVE  /\ Computed(r) \in Nat
           /\ InflightBlocks(r, n) \in Nat
           /\ InflightBlocks(r, 0) = 0
<1>1. Computed(r) \in Nat
  BY DEF CountInv, TypeOK, Computed
<1>2. Computed(r) + n \in Nat /\ Computed(r) + 0 = Computed(r)
      /\ Computed(r) <= Computed(r) + n
  BY <1>1
<1>3. Token2Block(Computed(r)) <= Token2Block(Computed(r) + n)
  BY <1>1, <1>2, Token2BlockMonotonic
<1>4. /\ Token2Block(Computed(r)) \in Nat
      /\ Token2Block(Computed(r) + n) \in Nat
  BY <1>1, <1>2, Token2BlockNat
<1> QED
  BY <1>1, <1>2, <1>3, <1>4 DEF InflightBlocks

\* The part of an API return that is kept has a length.
LEMMA ApiTokensNat ==
    ASSUME TypeOK, NEW r \in Reqs, NEW n \in Nat, NEW single \in BOOLEAN
    PROVE  ApiTokens(r, n, single) \in Nat
BY SizesAssumption DEF ApiTokens, SliceLen, Smaller, Larger, TypeOK

\* The workload offered to r in a pass
LEMMA WorkloadFacts ==
    ASSUME CountInv, NEW r \in Reqs
    PROVE  /\ Workload(r) \in [swap : Nat, tokens : Nat]
           /\ Workload(r).tokens <= inflight[r]
           /\ Workload(r).tokens <= batchLeft
           /\ Workload(r).swap = swapLen[r]
BY DEF CountInv, TypeOK, Workload, Smaller

-----------------------------------------------------------------------------
(* CountInv is inductive.                                                  *)

\* All blocks are free and nothing is scheduled.
LEMMA CountInit == Init => CountInv
<1> SUFFICES ASSUME Init PROVE CountInv
  OBVIOUS
<1>1. TypeOK
  <2>1. Prompt \in [Reqs -> Nat]
    BY SizesAssumption
  <2> QED
    BY <2>1, SizesAssumption
       DEF Init, TypeOK, NoWork, Statuses, Modes, Phases, Strategies
<1>2. \A r \in Reqs : inflight[r] <= len[r]
  BY SizesAssumption DEF Init
<1> QED
  BY <1>1, <1>2 DEF Init, CountInv, CurInv

\* Discarding a request or freeing its table keeps the types.
LEMMA FreeTableTypes ==
    ASSUME TypeOK, NEW r \in Reqs, FreeTable(r)
    PROVE  /\ tables' \subseteq Reqs
           /\ gpu' \in [Reqs -> Nat] /\ cpu' \in [Reqs -> Nat]
           /\ freeGpu' \in Nat /\ freeCpu' \in Nat
           /\ freeGpu' >= freeGpu
BY DEF TypeOK, FreeTable

\* A discard keeps the types, and the GPU pool loses no block.
LEMMA DiscardTypes ==
    ASSUME CountInv, NEW r \in Reqs, Discard(r)
    PROVE  /\ tables' \subseteq Reqs
           /\ gpu' \in [Reqs -> Nat] /\ cpu' \in [Reqs -> Nat]
           /\ freeGpu' \in Nat /\ freeCpu' \in Nat
           /\ work' \in [Reqs -> [swap : Nat, tokens : Nat]]
           /\ inflight' \in [Reqs -> Nat] /\ swapLen' \in [Reqs -> Nat]
           /\ \A s \in Reqs : inflight'[s] <= len[s]
           /\ \A s \in Reqs : WorkBounded(s) => WorkBounded(s)'
           /\ \A s \in Reqs \ {r} : work'[s] = work[s] /\ inflight'[s] = inflight[s]
           /\ work'[r] = NoWork /\ inflight'[r] = len[r]
<1>1. FreeTable(r)
  BY DEF Discard
<1>2. /\ work' = [work EXCEPT ![r] = NoWork]
      /\ swapLen' = [swapLen EXCEPT ![r] = 0]
      /\ inflight' = [inflight EXCEPT ![r] = len[r]]
  BY DEF Discard
<1>3. /\ work' \in [Reqs -> [swap : Nat, tokens : Nat]]
      /\ inflight' \in [Reqs -> Nat] /\ swapLen' \in [Reqs -> Nat]
  BY <1>2 DEF CountInv, TypeOK, NoWork
<1>4. \A s \in Reqs \ {r} : /\ work'[s] = work[s] /\ inflight'[s] = inflight[s]
                            /\ swapLen'[s] = swapLen[s]
  BY <1>2 DEF CountInv, TypeOK
<1>5. work'[r] = NoWork /\ inflight'[r] = len[r] /\ swapLen'[r] = 0
  BY <1>2 DEF CountInv, TypeOK
<1>6. \A s \in Reqs : inflight'[s] <= len[s]
  BY <1>4, <1>5 DEF CountInv, TypeOK
<1>7. \A s \in Reqs : WorkBounded(s) => WorkBounded(s)'
  BY <1>4, <1>5 DEF WorkBounded, CountInv, TypeOK, NoWork
<1> QED
  BY <1>1, <1>3, <1>4, <1>5, <1>6, <1>7, FreeTableTypes DEF CountInv

\* A victim is discarded into a queue or stays paused.
LEMMA DiscardVictimTypes ==
    ASSUME CountInv, NEW r \in Reqs, DiscardVictim(r)
    PROVE  /\ Discard(r)
           /\ waiting' \subseteq Reqs
           /\ status' \in [Reqs -> Statuses] /\ mode' \in [Reqs -> Modes]
BY DEF DiscardVictim, PauseByRecompute, PreemptByRecompute, CountInv, TypeOK,
       Statuses, Modes

\* The workload given to allocate fits the batch and the free blocks.
LEMMA AllocateTypes ==
    ASSUME CountInv, NEW r \in Reqs, NEW w \in [swap : Nat, tokens : Nat],
           w.tokens <= inflight[r], w.swap <= swapLen[r], w.tokens <= batchLeft,
           MemoryRequirement(r, w) <= freeGpu,
           Allocate(r, w)
    PROVE  /\ tables' \subseteq Reqs
           /\ gpu' \in [Reqs -> Nat] /\ cpu' \in [Reqs -> Nat]
           /\ freeGpu' \in Nat /\ freeCpu' \in Nat
           /\ work' \in [Reqs -> [swap : Nat, tokens : Nat]]
           /\ batchLeft' \in Nat
           /\ status' \in [Reqs -> Statuses]
           /\ scheduled' \subseteq Reqs
           /\ \A s \in scheduled' : WorkBounded(s)'
<1> DEFINE new == InflightBlocks(r, w.tokens)
           in  == Smaller(w.swap, cpu[r])
<1>1. new \in Nat /\ in \in Nat /\ in <= w.swap /\ in <= cpu[r]
  BY InflightBlocksNat DEF CountInv, TypeOK, Smaller
<1>2. in + new <= freeGpu
  BY <1>1 DEF MemoryRequirement, CountInv, TypeOK
<1>3. /\ tables' = tables \cup {r}
      /\ gpu' = [gpu EXCEPT ![r] = @ + in + new]
      /\ cpu' = [cpu EXCEPT ![r] = @ - in]
      /\ freeGpu' = freeGpu - in - new
      /\ freeCpu' = freeCpu + in
  BY DEF Allocate
<1> HIDE DEF new, in
<1>4. /\ tables' \subseteq Reqs
      /\ gpu' \in [Reqs -> Nat] /\ cpu' \in [Reqs -> Nat]
      /\ freeGpu' \in Nat /\ freeCpu' \in Nat
  BY <1>1, <1>2, <1>3 DEF CountInv, TypeOK
<1>5. /\ work' \in [Reqs -> [swap : Nat, tokens : Nat]]
      /\ batchLeft' \in Nat
      /\ status' \in [Reqs -> Statuses]
      /\ scheduled' \subseteq Reqs
  BY DEF Allocate, CountInv, TypeOK, Statuses
<1>6. \A s \in scheduled' : WorkBounded(s)'
  BY DEF Allocate, WorkBounded, CountInv, TypeOK
<1> QED
  BY <1>4, <1>5, <1>6

\* What the clients do
LEMMA CountClient == CountInv /\ Client => CountInv'
<1> SUFFICES ASSUME CountInv, Client PROVE CountInv'
  OBVIOUS
<1> USE DEF requests, data, memory, queues, pass, evicting
<1>1. ASSUME NEW r \in Reqs, AddRequest(r) PROVE CountInv'
  BY <1>1, InputsAssumption
     DEF CountInv, TypeOK, CurInv, WorkBounded, MemoryRequirement,
         InflightBlocks, Computed, AddRequest, Classify, Statuses, Strategies
<1>2. ASSUME NEW r \in Reqs, AbortRequest(r) PROVE CountInv'
  <2>1. CASE r \in waiting \cup running \cup swapped
    <3>1. FreeTable(r)
      BY <1>2, <2>1 DEF AbortRequest
    <3> QED
      BY <1>2, <2>1, <3>1, FreeTableTypes
         DEF CountInv, TypeOK, CurInv, WorkBounded, MemoryRequirement,
             InflightBlocks, Computed, AbortRequest, Statuses, Finished
  <2>2. CASE r \notin waiting \cup running \cup swapped
    BY <1>2, <2>2
       DEF CountInv, TypeOK, CurInv, WorkBounded, MemoryRequirement,
           InflightBlocks, Computed, AbortRequest
  <2> QED
    BY <2>1, <2>2
<1>3. ASSUME NEW r \in Reqs, NEW n \in ApiRets, NEW single \in BOOLEAN,
             ResumeRequest(r, n, single)
      PROVE  CountInv'
  <2> DEFINE k == ApiTokens(r, n, single)
  <2>1. k \in Nat
    BY InputsAssumption, ApiTokensNat DEF CountInv
  <2>2. /\ len' = [len EXCEPT ![r] = @ + k]
        /\ inflight' = [inflight EXCEPT ![r] = @ + k]
    BY <1>3 DEF ResumeRequest
  <2> HIDE DEF k
  <2>3. pc # "crashed" /\ cur = 0
    BY <1>3 DEF ResumeRequest, CountInv, CurInv
  <2>4. /\ len' \in [Reqs -> Nat] /\ inflight' \in [Reqs -> Nat]
        /\ \A s \in Reqs : inflight'[s] <= len'[s]
        /\ \A s \in Reqs : inflight[s] <= inflight'[s]
    BY <2>1, <2>2 DEF CountInv, TypeOK
  <2>5. /\ mode' \in [Reqs -> Modes] /\ status' \in [Reqs -> Statuses]
        /\ class' \in [Reqs -> [strategy : Strategies, waste : Nat]]
        /\ waiting' \subseteq Reqs /\ running' \subseteq Reqs
        /\ swapped' \subseteq Reqs
    BY <1>3, InputsAssumption
       DEF ResumeRequest, Classify, CountInv, TypeOK, Modes, Statuses, Strategies
  <2>6. UNCHANGED <<calls, aborted, swapLen, work, memory, pass, evicting, pc>>
    BY <1>3 DEF ResumeRequest
  <2>7. TypeOK'
    BY <2>4, <2>5, <2>6 DEF CountInv, TypeOK
  <2>8. \A s \in scheduled' : WorkBounded(s)'
    BY <2>4, <2>6 DEF CountInv, TypeOK, WorkBounded
  <2> QED
    BY <2>3, <2>4, <2>6, <2>7, <2>8 DEF CountInv, CurInv
<1> QED
  BY <1>1, <1>2, <1>3 DEF Client

\* The choice of the paused requests that give up their blocks
LEMMA CountPausePhase == CountInv /\ PausePhase => CountInv'
<1> SUFFICES ASSUME CountInv, PausePhase PROVE CountInv'
  OBVIOUS
<1> USE DEF requests, data, memory, queues, pass, evicting
<1>1. CASE StartSchedule
  <2>1. cur = 0 /\ cur' = 0
    BY <1>1 DEF StartSchedule, CountInv, CurInv
  <2>2. /\ UNCHANGED <<requests, running, targets, delayed, scheduled, seqLimit,
                       sampled, evicting>>
        /\ victims' \subseteq Reqs /\ demoted' \subseteq Reqs
        /\ batchLeft' \in Nat /\ pc' \in Phases
    BY <1>1, SizesAssumption DEF StartSchedule, PausedOnGpu, Phases
  <2>3. CASE waiting = {} /\ swapped # {}
    <3>1. PICK r \in swapped : PreemptByRecompute(r) /\ swapped' = swapped \ {r}
      BY <1>1, <2>3 DEF StartSchedule, ActiveDiscard
    <3>2. /\ r \in Reqs /\ Discard(r)
          /\ waiting' \subseteq Reqs /\ swapped' \subseteq Reqs
          /\ status' \in [Reqs -> Statuses] /\ mode' = mode
      BY <3>1 DEF PreemptByRecompute, CountInv, TypeOK, Statuses
    <3> QED
      BY <2>1, <2>2, <3>2, DiscardTypes DEF CountInv, TypeOK, CurInv
  <2>4. CASE ~(waiting = {} /\ swapped # {})
    <3>1. UNCHANGED <<waiting, swapped, mode, status, data, memory>>
      BY <1>1, <2>4 DEF StartSchedule, ActiveDiscard
    <3> QED
      BY <2>1, <2>2, <3>1 DEF CountInv, TypeOK, CurInv, WorkBounded
  <2> QED
    BY <2>3, <2>4
<1>2. ASSUME NEW r \in Reqs, Demote(r) PROVE CountInv'
  <2>1. cur = 0 /\ cur' = 0
    BY <1>2 DEF Demote, CountInv, CurInv
  <2>2. /\ UNCHANGED <<requests, running, swapped, targets, delayed, scheduled,
                       victims, batchLeft, seqLimit, sampled, evicting, pc>>
        /\ demoted' \subseteq Reqs
    BY <1>2 DEF Demote, CountInv, TypeOK
  <2>3. CASE PauseByRecompute(r)
    <3>1. /\ Discard(r) /\ UNCHANGED <<waiting, status>>
          /\ mode' \in [Reqs -> Modes]
      BY <2>3 DEF PauseByRecompute, CountInv, TypeOK, Modes
    <3> QED
      BY <2>1, <2>2, <3>1, DiscardTypes DEF CountInv, TypeOK, CurInv
  <2>4. CASE gpu[r] <= freeCpu /\ PauseBySwap(r)
    <3>1. /\ mode' \in [Reqs -> Modes]
          /\ gpu' \in [Reqs -> Nat] /\ cpu' \in [Reqs -> Nat]
          /\ freeGpu' \in Nat /\ freeCpu' \in Nat
          /\ swapLen' \in [Reqs -> Nat]
          /\ work' \in [Reqs -> [swap : Nat, tokens : Nat]]
          /\ UNCHANGED <<waiting, status, inflight, tables>>
      BY <2>4 DEF PauseBySwap, CountInv, TypeOK, NoWork, Modes
    <3>2. \A s \in Reqs : WorkBounded(s) => WorkBounded(s)'
      BY <2>4 DEF PauseBySwap, CountInv, TypeOK, NoWork, WorkBounded
    <3> QED
      BY <2>1, <2>2, <3>1, <3>2 DEF CountInv, TypeOK, CurInv
  <2>5. CASE UNCHANGED <<waiting, mode, status, data, memory>>
    BY <2>1, <2>2, <2>5 DEF CountInv, TypeOK, CurInv, WorkBounded
  <2> QED
    BY <1>2, <2>3, <2>4, <2>5 DEF Demote
<1>3. CASE StartPass1
  BY <1>3, SizesAssumption
     DEF StartPass1, CountInv, TypeOK, CurInv, WorkBounded, Phases
<1> QED
  BY <1>1, <1>2, <1>3 DEF PausePhase

\* The micro-steps of the two passes that do not touch a victim
LEMMA CountTargets ==
    ASSUME CountInv, NEW r \in Reqs,
           \/ Ignore(r) \/ SequenceLimit(r) \/ BatchLimit(r)
           \/ Schedule(r) \/ GiveUp(r) \/ StartEviction(r)
    PROVE  CountInv'
<1> USE DEF requests, data, memory, queues, pass, evicting
<1>1. CASE Ignore(r)
  BY <1>1 DEF Ignore, IsNext, CountInv, TypeOK, CurInv, WorkBounded, Statuses,
              Finished
<1>2. CASE SequenceLimit(r)
  BY <1>2 DEF SequenceLimit, IsNext, Stop, CountInv, TypeOK, CurInv,
              WorkBounded, Phases
<1>3. CASE BatchLimit(r)
  BY <1>3 DEF BatchLimit, IsNext, CountInv, TypeOK, CurInv, WorkBounded
<1>4. CASE Schedule(r)
  <2>1. /\ Allocate(r, Workload(r)) /\ cur = 0
        /\ MemoryRequirement(r, Workload(r)) <= freeGpu
    BY <1>4 DEF Schedule, Eligible, IsNext, Fits
  <2>2. /\ UNCHANGED <<requests, waiting, running, swapped, mode, delayed,
                       victims, demoted, seqLimit, sampled, evicting, pc,
                       inflight, swapLen>>
        /\ targets' \subseteq Reqs
    BY <1>4, <2>1 DEF Schedule, Allocate, CountInv, TypeOK
  <2>3. Workload(r).swap <= swapLen[r]
    BY WorkloadFacts DEF CountInv, TypeOK
  <2> QED
    BY <2>1, <2>2, <2>3, WorkloadFacts, AllocateTypes
       DEF CountInv, TypeOK, CurInv
<1>5. ASSUME work' = [work EXCEPT ![r] = Workload(r)],
             UNCHANGED <<inflight, swapLen>>
      PROVE  /\ work' \in [Reqs -> [swap : Nat, tokens : Nat]]
             /\ \A s \in Reqs : WorkBounded(s) => WorkBounded(s)'
             /\ WorkBounded(r)'
  <2>1. Workload(r).swap <= swapLen[r]
    BY WorkloadFacts DEF CountInv, TypeOK
  <2> QED
    BY <1>5, <2>1, WorkloadFacts DEF WorkBounded, CountInv, TypeOK
<1>6. CASE GiveUp(r)
  <2>1. cur = 0 /\ cur' = 0
    BY <1>6 DEF GiveUp, Eligible, IsNext
  <2> QED
    BY <1>5, <1>6, <2>1 DEF GiveUp, Stop, CountInv, TypeOK, CurInv, Phases
<1>7. CASE StartEviction(r)
  <2>1. /\ work' = [work EXCEPT ![r] = Workload(r)] /\ cur' = r
        /\ newBlocks' = MemoryRequirement(r, Workload(r))
        /\ pc \in {"pass1", "pass2"} /\ targets' \subseteq Reqs
        /\ UNCHANGED <<requests, inflight, swapLen, memory, queues, delayed,
                       scheduled, victims, demoted, batchLeft, seqLimit,
                       sampled, need, victim, pc>>
    BY <1>7 DEF StartEviction, Eligible, IsNext, CountInv, TypeOK
  <2>2. work'[r] = Workload(r)
    BY <2>1 DEF CountInv, TypeOK
  <2>3. newBlocks' \in Nat
    BY <2>1, WorkloadFacts, InflightBlocksNat
       DEF MemoryRequirement, CountInv, TypeOK
  <2>4. MemoryRequirement(r, work[r])' = newBlocks'
    BY <2>1, <2>2 DEF MemoryRequirement, InflightBlocks, Computed
  <2>5. newBlocks' <= newBlocks'
    BY <2>3
  <2>6. CurInv'
    BY <1>5, <2>1, <2>2, <2>4, <2>5, WorkloadFacts DEF CurInv
  <2> QED
    BY <1>5, <2>1, <2>3, <2>6 DEF CountInv, TypeOK
<1> QED
  BY <1>1, <1>2, <1>3, <1>4, <1>6, <1>7

\* Discarding a victim leaves the loop's knowledge of cur as it is, even when
\* the victim is cur itself.
LEMMA DiscardKeepsCur ==
    ASSUME CountInv, NEW r \in Reqs, Discard(r), cur # 0, cur' = cur,
           UNCHANGED <<len, batchLeft, newBlocks>>,
           pc' \in {"pass1", "pass2", "crashed"}
    PROVE  CurInv'
<1>1. cur \in Reqs
  BY DEF CountInv, TypeOK
<1>2. WorkBounded(cur)'
  BY <1>1, DiscardTypes DEF CountInv, CurInv, WorkBounded
<1>3. CASE r = cur
  <2>1. work'[cur] = NoWork /\ inflight'[cur] = len[cur] /\ len[cur] \in Nat
    BY <1>1, <1>3, DiscardTypes DEF CountInv, TypeOK
  <2>2. MemoryRequirement(cur, work[cur])' = 0
    BY <2>1, Token2BlockZero DEF MemoryRequirement, InflightBlocks, Computed, NoWork
  <2> QED
    BY <1>2, <2>1, <2>2 DEF CurInv, CountInv, TypeOK, NoWork
<1>4. CASE r # cur
  <2>1. work'[cur] = work[cur] /\ inflight'[cur] = inflight[cur]
    BY <1>1, <1>4, DiscardTypes
  <2>2. MemoryRequirement(cur, work[cur])' = MemoryRequirement(cur, work[cur])
    BY <2>1 DEF MemoryRequirement, InflightBlocks, Computed
  <2> QED
    BY <1>2, <2>1, <2>2 DEF CurInv, CountInv
<1> QED
  BY <1>3, <1>4

\* The micro-steps of the preemption loop
LEMMA CountDiscardSwapped ==
    ASSUME CountInv, NEW v \in Reqs, NEW d \in Reqs, DiscardSwapped(v, d)
    PROVE  CountInv'
<1> USE DEF requests, data, memory, queues, pass, evicting
<1>1. /\ DiscardVictim(d) /\ swapped' \subseteq Reqs
      /\ UNCHANGED <<requests, running, pass, cur, newBlocks, pc>>
      /\ victim' \in Reqs
  BY DEF DiscardSwapped, CountInv, TypeOK
<1>2. cur # 0 /\ pc \in {"pass1", "pass2"} /\ need' = Required
      /\ (need > 0 \/ newBlocks > freeGpu)
  BY DEF DiscardSwapped, IsVictim, Evicting, InLoop
<1>3. need' \in Nat
  BY <1>2 DEF Required, CountInv, TypeOK
<1>4. Discard(d) /\ TypeOK'
  BY <1>1, <1>3, DiscardVictimTypes, DiscardTypes DEF CountInv, TypeOK
<1>5. CurInv'
  BY <1>1, <1>2, <1>4, DiscardKeepsCur
<1> QED
  BY <1>1, <1>4, <1>5, DiscardTypes DEF CountInv, TypeOK

\* Preempting or pausing a victim keeps the counts in range.
LEMMA CountEvict ==
    ASSUME CountInv, NEW v \in Reqs, Evict(v)
    PROVE  CountInv'
<1> USE DEF requests, data, memory, queues, pass, evicting
<1>1. /\ UNCHANGED <<requests, running, swapped, scheduled, demoted, batchLeft,
                     seqLimit, sampled>>
      /\ victims' \subseteq Reqs /\ delayed' \subseteq Reqs
      /\ targets' \subseteq Reqs /\ victim' = 0
      /\ cur' = (IF v = cur THEN 0 ELSE cur)
      /\ newBlocks' = (IF v = cur THEN 0 ELSE newBlocks)
  BY DEF Evict, CountInv, TypeOK
<1>2. /\ cur # 0 /\ pc \in {"pass1", "pass2"}
      /\ pc' \in {pc, "crashed"} /\ pc' \in Phases
      /\ (need > 0 \/ newBlocks > freeGpu)
  BY DEF Evict, IsVictim, Evicting, InLoop, Phases
<1>3. need' \in Nat
  BY <1>2 DEF Evict, Required, Larger, CountInv, TypeOK
<1>4. CASE gpu[v] > 0
  <2>1. DiscardVictim(v) /\ Discard(v)
    BY <1>4, DiscardVictimTypes DEF Evict
  <2>2. TypeOK'
    BY <1>1, <1>2, <1>3, <2>1, DiscardVictimTypes, DiscardTypes
       DEF CountInv, TypeOK
  <2>3. CurInv'
    <3>1. CASE v = cur
      BY <1>1, <3>1 DEF CurInv
    <3>2. CASE v # cur
      BY <1>1, <1>2, <2>1, <3>2, DiscardKeepsCur
    <3> QED
      BY <3>1, <3>2
  <2> QED
    BY <1>1, <2>1, <2>2, <2>3, DiscardTypes DEF CountInv, TypeOK
<1>5. CASE ~(gpu[v] > 0)
  <2>1. UNCHANGED <<waiting, mode, status, data, memory>>
    BY <1>5 DEF Evict
  <2> QED
    BY <1>1, <1>2, <1>3, <2>1
       DEF CountInv, TypeOK, CurInv, WorkBounded, MemoryRequirement,
           InflightBlocks, Computed
<1> QED
  BY <1>4, <1>5

\* So does the end of the loop over a target, a delay or an allocation.
LEMMA CountLoopEnd ==
    ASSUME CountInv, DelayCur \/ ScheduleCur
    PROVE  CountInv'
<1> USE DEF requests, data, memory, queues, pass, evicting
<1>1. CASE DelayCur
  BY <1>1 DEF DelayCur, Evicting, InLoop, CountInv, TypeOK, CurInv, WorkBounded
<1>2. CASE ScheduleCur
  <2>1. cur \in Reqs /\ work[cur] \in [swap : Nat, tokens : Nat]
    BY <1>2 DEF ScheduleCur, InLoop, CountInv, TypeOK
  <2>2. MemoryRequirement(cur, work[cur]) \in Nat
    BY <2>1, InflightBlocksNat DEF MemoryRequirement
  <2>3. /\ Allocate(cur, work[cur]) /\ newBlocks <= freeGpu
        /\ work[cur].tokens <= inflight[cur] /\ work[cur].swap <= swapLen[cur]
        /\ work[cur].tokens <= batchLeft
        /\ MemoryRequirement(cur, work[cur]) <= newBlocks
    BY <1>2 DEF ScheduleCur, InLoop, Evicting, CountInv, TypeOK, CurInv, WorkBounded
  <2>4. MemoryRequirement(cur, work[cur]) <= freeGpu
    BY <2>2, <2>3 DEF CountInv, TypeOK
  <2>5. /\ UNCHANGED <<requests, waiting, running, swapped, mode, targets, delayed,
                       victims, demoted, seqLimit, sampled, need, victim, pc>>
        /\ UNCHANGED <<inflight, swapLen>> /\ cur' = 0 /\ newBlocks' = 0
    BY <1>2 DEF ScheduleCur, Allocate
  <2> QED
    BY <2>1, <2>3, <2>4, <2>5, AllocateTypes DEF CountInv, TypeOK, CurInv
<1> QED
  BY <1>1, <1>2

\* The end of the passes
LEMMA CountFinishPass ==
    ASSUME CountInv, FinishPass1 \/ FinishPass2
    PROVE  CountInv'
<1> USE DEF requests, data, memory, queues, pass, evicting
<1>1. cur = 0 /\ cur' = 0
  BY DEF FinishPass1, FinishPass2, PassOver, CountInv, CurInv
<1>2. ASSUME ClearDelayed
      PROVE  /\ work' \in [Reqs -> [swap : Nat, tokens : Nat]]
             /\ UNCHANGED <<inflight, swapLen>>
                   => \A s \in Reqs : WorkBounded(s) => WorkBounded(s)'
  BY <1>2 DEF ClearDelayed, CountInv, TypeOK, NoWork, WorkBounded
<1>3. CASE FinishPass1
  <2>1. Cardinality(scheduled) \in Nat
    BY ReqsFacts, FS_Subset, FS_CardinalityType DEF CountInv, TypeOK
  <2>2. seqLimit' \in Int
    BY <1>3, <2>1, SizesAssumption DEF FinishPass1
  <2> QED
    BY <1>1, <1>2, <1>3, <2>2 DEF FinishPass1, CountInv, TypeOK, CurInv, Phases
<1>4. CASE FinishPass2
  BY <1>1, <1>2, <1>4 DEF FinishPass2, CountInv, TypeOK, CurInv, Phases
<1> QED
  BY <1>3, <1>4

\* The outputs
LEMMA CountOutputPhase ==
    ASSUME CountInv, OutputPhase
    PROVE  CountInv'
<1> USE DEF requests, data, memory, queues, pass, evicting
<1>1. CASE PostForward
  BY <1>1, SMTT(30)
     DEF PostForward, CountInv, TypeOK, CurInv, WorkBounded, NoWork, Phases
<1>2. ASSUME NEW r \in Reqs, AppendToken(r)
      PROVE  /\ sampled' \subseteq Reqs
             /\ len' \in [Reqs -> Nat] /\ inflight' \in [Reqs -> Nat]
             /\ \A s \in Reqs : inflight'[s] <= len'[s]
             /\ \A s \in Reqs : WorkBounded(s) => WorkBounded(s)'
             /\ cur' = 0
             /\ UNCHANGED <<class, aborted, waiting, running, swapped, swapLen,
                            work, targets, delayed, scheduled, victims, demoted,
                            batchLeft, seqLimit, evicting, pc>>
  BY <1>2 DEF AppendToken, CountInv, TypeOK, CurInv, WorkBounded
<1>3. ASSUME NEW r \in Reqs, CallApi(r) PROVE CountInv'
  <2>1. /\ AppendToken(r) /\ calls' \in [Reqs -> Nat]
        /\ status' \in [Reqs -> Statuses] /\ mode' \in [Reqs -> Modes]
        /\ UNCHANGED memory
    BY <1>3 DEF CallApi, CountInv, TypeOK, Statuses, Modes
  <2> QED
    BY <1>2, <2>1 DEF CountInv, TypeOK, CurInv
<1>4. ASSUME NEW r \in Reqs, StopRequest(r) PROVE CountInv'
  <2>1. /\ AppendToken(r) /\ FreeTable(r)
        /\ status' \in [Reqs -> Statuses] /\ UNCHANGED <<calls, mode>>
    BY <1>4 DEF StopRequest, CountInv, TypeOK, Statuses, Finished
  <2> QED
    BY <1>2, <2>1, FreeTableTypes DEF CountInv, TypeOK, CurInv
<1>5. ASSUME NEW r \in Reqs, Continue(r) PROVE CountInv'
  BY <1>2, <1>5 DEF Continue, CountInv, TypeOK, CurInv
<1>6. CASE FinishStep
  BY <1>6 DEF FinishStep, CountInv, TypeOK, CurInv, WorkBounded, Phases
<1> QED
  BY <1>1, <1>3, <1>4, <1>5, <1>6 DEF OutputPhase

\* Every step keeps the counts of blocks, tokens and requests in range.
LEMMA CountNext == CountInv /\ [Next]_vars => CountInv'
<1> SUFFICES ASSUME CountInv, [Next]_vars PROVE CountInv'
  OBVIOUS
<1>1. CASE Client
  BY <1>1, CountClient
<1>2. CASE PausePhase
  BY <1>2, CountPausePhase
<1>3. CASE PassPhase
  BY <1>3, CountTargets, CountEvict, CountDiscardSwapped, CountLoopEnd,
     CountFinishPass DEF PassPhase
<1>4. CASE OutputPhase
  BY <1>4, CountOutputPhase
<1>5. CASE UNCHANGED vars
  BY <1>5 DEF vars, requests, data, memory, queues, pass, evicting, CountInv,
              TypeOK, CurInv, WorkBounded, MemoryRequirement, InflightBlocks,
              Computed
<1> QED
  BY <1>1, <1>2, <1>3, <1>4, <1>5 DEF Next, Step

\* The counters of the scheduler never go wrong: neither block pool is ever
\* overdrawn, no workload exceeds what its request has left to compute or to
\* swap in, and the batch never goes below zero.
THEOREM CountsCorrect == Spec => []CountInv
BY CountInit, CountNext, PTL DEF Spec

\* Every variable of the scheduler keeps its type, whatever clients, APIs
\* and classify() do: TypeOK, which the run SchedSmallCpu checks.
THEOREM TypeCorrect == Spec => []TypeOK
<1>1. CountInv => TypeOK
  BY DEF CountInv
<1> QED
  BY <1>1, CountsCorrect, PTL

-----------------------------------------------------------------------------
(* TableInv is inductive, given CountInv.                                  *)

\* No request has arrived, so no table holds anything.
LEMMA TableInit == Init => TableInv
<1> SUFFICES ASSUME Init PROVE TableInv
  OBVIOUS
<1>1. PlaceInv /\ PhaseInv /\ VictimInv /\ LiveInv /\ SampledInv
  BY DEF Init, PlaceInv, PhaseInv, VictimInv, LiveInv, SampledInv, Handled
<1>2. WorkInv
  BY SizesAssumption, ReqsFacts DEF Init, WorkInv
<1>3. TableMatchesData /\ ModeMatchesBlocks
  BY DEF Init, TableMatchesData, ModeMatchesBlocks, Live, Paused, Finished
<1> QED
  BY <1>1, <1>2, <1>3 DEF TableInv

\* What discarding r leaves of r, and of the others
LEMMA DiscardData ==
    ASSUME CountInv, NEW r \in Reqs, Discard(r)
    PROVE  /\ gpu'[r] = 0 /\ cpu'[r] = 0 /\ swapLen'[r] = 0
           /\ inflight'[r] = len[r] /\ work'[r] = NoWork /\ r \notin tables'
           /\ \A s \in Reqs \ {r} :
                 /\ gpu'[s] = gpu[s] /\ cpu'[s] = cpu[s]
                 /\ swapLen'[s] = swapLen[s] /\ inflight'[s] = inflight[s]
                 /\ work'[s] = work[s] /\ (s \in tables' <=> s \in tables)
BY DEF Discard, FreeTable, CountInv, TypeOK

\* A request that is discarded, wherever it was, holds what its data says.
LEMMA VictimData ==
    ASSUME CountInv, TableMatchesData, ModeMatchesBlocks, WorkInv,
           NEW r \in Reqs, DiscardVictim(r), cur' \in {0, cur},
           UNCHANGED <<len, scheduled>>
    PROVE  TableMatchesData' /\ ModeMatchesBlocks' /\ WorkInv'
<1>1. Discard(r)
  BY DiscardVictimTypes
<1>2. /\ mode' \in [Reqs -> Modes] /\ status' \in [Reqs -> Statuses]
      /\ \A s \in Reqs \ {r} : mode'[s] = mode[s] /\ status'[s] = status[s]
      /\ mode'[r] \in {"none", "RECOMPUTE"}
      /\ mode'[r] # "none" => status'[r] = "PAUSED_API"
      /\ status'[r] # "none"
  BY DEF DiscardVictim, PauseByRecompute, PreemptByRecompute, ModeMatchesBlocks,
         Paused, CountInv, TypeOK, Modes, Statuses
<1>3. TableMatchesData'
  <2> SUFFICES ASSUME NEW s \in Reqs, Live(s)'
               PROVE  IF s \in scheduled
                      THEN /\ cpu'[s] = 0
                           /\ gpu'[s] = Token2Block(Computed(s)' + work'[s].tokens)
                      ELSE /\ cpu'[s] = swapLen'[s]
                           /\ gpu'[s] + cpu'[s] = Token2Block(Computed(s)')
    BY DEF TableMatchesData, Computed, Token2Block
  <2>1. CASE s = r
    <3>1. Computed(s)' = 0 /\ work'[s].tokens = 0
      BY <1>1, <2>1, DiscardData DEF Computed, NoWork, CountInv, TypeOK
    <3> QED
      BY <1>1, <2>1, <3>1, DiscardData, Token2BlockZero
  <2>2. CASE s # r
    <3>1. Live(s) /\ Computed(s)' = Computed(s)
      BY <1>1, <1>2, <2>2, DiscardData DEF Live, Computed
    <3> QED
      BY <1>1, <2>2, <3>1, DiscardData DEF TableMatchesData
  <2> QED
    BY <2>1, <2>2
<1>4. ModeMatchesBlocks'
  BY <1>1, <1>2, DiscardData DEF ModeMatchesBlocks, Paused
<1>5. WorkInv'
  BY <1>1, <1>2, DiscardData, ReqsFacts DEF WorkInv, NoWork
<1> QED
  BY <1>3, <1>4, <1>5

\* A request that is allocated has all its blocks on the GPU, those of the new
\* tokens included.
LEMMA AllocateData ==
    ASSUME CountInv, TableMatchesData, ModeMatchesBlocks, WorkInv,
           NEW r \in Reqs, Live(r), mode[r] = "none", r \notin scheduled,
           NEW w \in [swap : Nat, tokens : Nat], w.swap = swapLen[r],
           Allocate(r, w), UNCHANGED <<len, mode>>, cur' = 0
    PROVE  TableMatchesData' /\ ModeMatchesBlocks' /\ WorkInv'
<1> DEFINE new == InflightBlocks(r, w.tokens)
           in  == Smaller(w.swap, cpu[r])
<1>1. /\ UNCHANGED <<inflight, swapLen>>
      /\ scheduled' = scheduled \cup {r}
      /\ tables' = tables \cup {r}
      /\ gpu' = [gpu EXCEPT ![r] = @ + in + new]
      /\ cpu' = [cpu EXCEPT ![r] = @ - in]
      /\ work' = [work EXCEPT ![r] = w]
      /\ status' = [status EXCEPT ![r] = "RUNNING"]
  BY DEF Allocate
<1>2. in = cpu[r] /\ cpu[r] = swapLen[r]
      /\ gpu[r] + cpu[r] = Token2Block(Computed(r))
  BY DEF TableMatchesData, Smaller, CountInv, TypeOK
<1>3. /\ Computed(r) \in Nat /\ Token2Block(Computed(r)) \in Nat
      /\ Token2Block(Computed(r) + w.tokens) \in Nat
  BY InflightBlocksNat, Token2BlockNat
<1>4. new = Token2Block(Computed(r) + w.tokens) - Token2Block(Computed(r))
  BY DEF InflightBlocks
<1> HIDE DEF new, in
<1>5. /\ cpu'[r] = 0 /\ gpu'[r] = Token2Block(Computed(r) + w.tokens)
      /\ work'[r] = w
  BY <1>1, <1>2, <1>3, <1>4 DEF CountInv, TypeOK
<1>6. \A s \in Reqs : Computed(s)' = Computed(s)
  BY <1>1 DEF Computed
<1>7. \A s \in Reqs \ {r} : /\ gpu'[s] = gpu[s] /\ cpu'[s] = cpu[s]
                            /\ work'[s] = work[s] /\ status'[s] = status[s]
                            /\ (s \in scheduled' <=> s \in scheduled)
                            /\ (s \in tables' <=> s \in tables)
  BY <1>1 DEF CountInv, TypeOK
<1>8. TableMatchesData'
  <2> SUFFICES ASSUME NEW s \in Reqs, Live(s)'
               PROVE  IF s \in scheduled'
                      THEN /\ cpu'[s] = 0
                           /\ gpu'[s] = Token2Block(Computed(s) + work'[s].tokens)
                      ELSE /\ cpu'[s] = swapLen[s]
                           /\ gpu'[s] + cpu'[s] = Token2Block(Computed(s))
    BY <1>1, <1>6 DEF TableMatchesData, Token2Block
  <2>1. CASE s = r
    BY <1>1, <1>5, <2>1
  <2>2. CASE s # r
    BY <1>1, <1>7, <2>2 DEF TableMatchesData, Live
  <2> QED
    BY <2>1, <2>2
<1>9. ModeMatchesBlocks'
  BY <1>7 DEF ModeMatchesBlocks, Paused
<1>10. WorkInv'
  BY <1>1, <1>5, <1>7, ReqsFacts DEF WorkInv, CountInv, TypeOK
<1> QED
  BY <1>8, <1>9, <1>10

\* What the clients do
LEMMA TableClient ==
    ASSUME CountInv, TableInv, Client
    PROVE  TableInv'
<1> USE DEF requests, data, memory, queues, pass, evicting
<1>1. ASSUME NEW r \in Reqs, AddRequest(r) PROVE TableInv'
  <2>1. /\ status' = [status EXCEPT ![r] = "WAITING"] /\ status[r] = "none"
        /\ waiting' = waiting \cup {r} /\ pc = "idle"
        /\ UNCHANGED <<len, running, swapped, mode, data, memory, pass,
                       evicting, pc>>
    BY <1>1 DEF AddRequest
  <2>2. mode[r] = "none" /\ r \notin running
    BY <2>1 DEF TableInv, ModeMatchesBlocks, Paused, LiveInv, Live
  <2>3. PlaceInv' /\ PhaseInv' /\ VictimInv' /\ LiveInv' /\ SampledInv'
    BY <2>1, <2>2 DEF TableInv, PlaceInv, PhaseInv, VictimInv, LiveInv,
       SampledInv, Handled, Live, Finished, CountInv, TypeOK
  <2>4. WorkInv' /\ ModeMatchesBlocks'
    BY <2>1, <2>2 DEF TableInv, WorkInv, ModeMatchesBlocks, Paused, CountInv,
       TypeOK
  <2>5. r \notin scheduled /\ inflight[r] = len[r] /\ swapLen[r] = 0
        /\ gpu[r] = 0 /\ cpu[r] = 0 /\ Token2Block(len[r] - len[r]) = 0
    BY <2>1, Token2BlockZero DEF TableInv, PhaseInv, WorkInv, CountInv, TypeOK
  <2>6. TableMatchesData'
    BY <2>1, <2>5
       DEF TableInv, TableMatchesData, Live, Computed, Token2Block, CountInv,
           TypeOK
  <2> QED
    BY <2>3, <2>4, <2>6 DEF TableInv
<1>2. ASSUME NEW r \in Reqs, AbortRequest(r) PROVE TableInv'
  <2>1. CASE r \in waiting \cup running \cup swapped
    <3>1. /\ waiting' = waiting \ {r} /\ running' = running \ {r}
          /\ swapped' = swapped \ {r} /\ pc = "idle"
          /\ status' = [status EXCEPT ![r] = "FINISHED_ABORTED"]
          /\ FreeTable(r)
          /\ UNCHANGED <<len, mode, data, pass, evicting, pc>>
      BY <1>2, <2>1 DEF AbortRequest
    <3>2. mode[r] = "none" /\ r \notin scheduled
      BY <2>1, <3>1 DEF TableInv, PlaceInv, PhaseInv
    <3>3. PlaceInv' /\ PhaseInv' /\ VictimInv' /\ LiveInv' /\ SampledInv'
      BY <3>1, <3>2 DEF TableInv, PlaceInv, PhaseInv, VictimInv, LiveInv,
         SampledInv, Handled, Live, Finished, CountInv, TypeOK
    <3>4. WorkInv' /\ ModeMatchesBlocks'
      BY <3>1, <3>2 DEF TableInv, WorkInv, ModeMatchesBlocks, Paused,
         FreeTable, CountInv, TypeOK
    <3>5. TableMatchesData'
      BY <3>1, <3>2
         DEF TableInv, TableMatchesData, Live, Finished, Computed, Token2Block,
             FreeTable, CountInv, TypeOK
    <3> QED
      BY <3>3, <3>4, <3>5 DEF TableInv
  <2>2. CASE r \notin waiting \cup running \cup swapped
    <3>1. UNCHANGED <<len, mode, data, memory, pass, evicting, pc, waiting,
                      running, swapped, status>>
      BY <1>2, <2>2 DEF AbortRequest
    <3> QED
      BY <3>1 DEF TableInv, PlaceInv, PhaseInv, VictimInv, LiveInv, SampledInv,
         Handled, Live, WorkInv, ModeMatchesBlocks, Paused, TableMatchesData,
         Computed, Token2Block
  <2> QED
    BY <2>1, <2>2
<1>3. ASSUME NEW r \in Reqs, NEW n \in ApiRets, NEW single \in BOOLEAN,
             ResumeRequest(r, n, single)
      PROVE  TableInv'
  <2> DEFINE k == ApiTokens(r, n, single)
  <2>1. k \in Nat
    BY InputsAssumption, ApiTokensNat DEF CountInv
  <2>2. /\ len' = [len EXCEPT ![r] = @ + k]
        /\ inflight' = [inflight EXCEPT ![r] = @ + k]
    BY <1>3 DEF ResumeRequest
  <2> HIDE DEF k
  <2>3. /\ pc \in {"idle", "execute"} /\ mode[r] # "none"
        /\ mode' = [mode EXCEPT ![r] = "none"]
        /\ UNCHANGED <<swapLen, work, memory, pass, evicting, pc>>
    BY <1>3 DEF ResumeRequest
  <2>4. \E q \in {"RUNNING", "SWAPPED", "WAITING"} :
            /\ status' = [status EXCEPT ![r] = q]
            /\ running' = running \cup (IF q = "RUNNING" THEN {r} ELSE {})
            /\ swapped' = swapped \cup (IF q = "SWAPPED" THEN {r} ELSE {})
            /\ waiting' = waiting \cup (IF q = "WAITING" THEN {r} ELSE {})
    BY <1>3 DEF ResumeRequest
  <2>5. /\ status[r] = "PAUSED_API" /\ r \notin Handled
        /\ r \notin waiting \cup swapped \cup running
    BY <2>3 DEF TableInv, ModeMatchesBlocks, Paused, PlaceInv
  <2>6. PlaceInv' /\ PhaseInv' /\ VictimInv' /\ LiveInv' /\ SampledInv'
    BY <2>3, <2>4, <2>5 DEF TableInv, PlaceInv, PhaseInv, VictimInv, LiveInv,
       SampledInv, Handled, Live, Finished, CountInv, TypeOK
  <2>7. ModeMatchesBlocks'
    BY <2>3, <2>4 DEF TableInv, ModeMatchesBlocks, Paused, CountInv, TypeOK
  <2>8. WorkInv'
    BY <2>1, <2>2, <2>3, <2>4 DEF TableInv, WorkInv, CountInv, TypeOK
  <2>9. \A s \in Reqs : Computed(s)' = Computed(s)
    BY <2>1, <2>2 DEF Computed, CountInv, TypeOK
  <2>10. TableMatchesData'
    BY <2>3, <2>4, <2>5, <2>9
       DEF TableInv, TableMatchesData, Live, Finished, Token2Block, CountInv,
           TypeOK
  <2> QED
    BY <2>6, <2>7, <2>8, <2>10 DEF TableInv
<1> QED
  BY <1>1, <1>2, <1>3 DEF Client

\* The choice of the paused requests that give up their blocks
LEMMA TablePausePhase ==
    ASSUME CountInv, TableInv, PausePhase
    PROVE  TableInv'
<1> USE DEF requests, data, memory, queues, pass, evicting
<1>1. CASE StartSchedule
  <2>1. /\ pc = "idle" /\ pc' \in {"pause", "crashed"}
        /\ victims' \subseteq PausedOnGpu
        /\ demoted' \subseteq PausedOnGpu \ victims'
        /\ UNCHANGED <<requests, running, targets, delayed, scheduled, sampled,
                       evicting>>
    BY <1>1 DEF StartSchedule
  <2>2. CASE waiting = {} /\ swapped # {}
    <3>1. PICK r \in swapped : PreemptByRecompute(r) /\ swapped' = swapped \ {r}
      BY <1>1, <2>2 DEF StartSchedule, ActiveDiscard
    <3>2. r \in Reqs /\ mode[r] = "none" /\ DiscardVictim(r)
      BY <3>1 DEF TableInv, PlaceInv, DiscardVictim, CountInv, TypeOK
    <3>3. TableMatchesData' /\ ModeMatchesBlocks' /\ WorkInv'
      BY <2>1, <3>2, VictimData DEF TableInv
    <3>4. /\ waiting' = waiting \cup {r} /\ UNCHANGED mode
          /\ status' = [status EXCEPT ![r] = "WAITING"]
      BY <3>1 DEF PreemptByRecompute
    <3>5. PlaceInv' /\ PhaseInv' /\ VictimInv' /\ LiveInv' /\ SampledInv'
      BY <2>1, <3>1, <3>2, <3>4
         DEF TableInv, PlaceInv, PhaseInv, VictimInv, LiveInv, SampledInv,
             Handled, Live, Finished, PausedOnGpu, CountInv, TypeOK
    <3> QED
      BY <3>3, <3>5 DEF TableInv
  <2>3. CASE ~(waiting = {} /\ swapped # {})
    <3>1. UNCHANGED <<waiting, swapped, mode, status, data, memory>>
      BY <1>1, <2>3 DEF StartSchedule, ActiveDiscard
    <3>2. PlaceInv' /\ PhaseInv' /\ VictimInv' /\ LiveInv' /\ SampledInv'
      BY <2>1, <3>1
         DEF TableInv, PlaceInv, PhaseInv, VictimInv, LiveInv, SampledInv,
             Handled, Live, PausedOnGpu, CountInv, TypeOK
    <3>3. WorkInv' /\ ModeMatchesBlocks' /\ TableMatchesData'
      BY <2>1, <3>1
         DEF TableInv, WorkInv, ModeMatchesBlocks, Paused, TableMatchesData,
             Live, Computed, Token2Block
    <3> QED
      BY <3>2, <3>3 DEF TableInv
  <2> QED
    BY <2>2, <2>3
<1>2. ASSUME NEW r \in Reqs, Demote(r) PROVE TableInv'
  <2>1. /\ pc = "pause" /\ r \in demoted /\ demoted' = demoted \ {r}
        /\ UNCHANGED <<requests, running, swapped, targets, delayed, scheduled,
                       victims, sampled, evicting, pc>>
    BY <1>2 DEF Demote
  <2>2. mode[r] = "PRESERVE" /\ r \notin victims /\ status[r] = "PAUSED_API"
    BY <2>1 DEF TableInv, VictimInv, ModeMatchesBlocks, Paused
  <2>3. CASE PauseByRecompute(r)
    <3>1. DiscardVictim(r)
      BY <2>2, <2>3 DEF DiscardVictim
    <3>2. TableMatchesData' /\ ModeMatchesBlocks' /\ WorkInv'
      BY <2>1, <3>1, VictimData DEF TableInv
    <3>3. /\ mode' = [mode EXCEPT ![r] = "RECOMPUTE"]
          /\ UNCHANGED <<waiting, status>>
      BY <2>3 DEF PauseByRecompute
    <3>4. PlaceInv' /\ PhaseInv' /\ VictimInv' /\ LiveInv' /\ SampledInv'
      BY <2>1, <2>2, <3>3
         DEF TableInv, PlaceInv, PhaseInv, VictimInv, LiveInv, SampledInv,
             Handled, Live, CountInv, TypeOK
    <3> QED
      BY <3>2, <3>4 DEF TableInv
  <2>4. CASE PauseBySwap(r)
    <3>1. /\ mode' = [mode EXCEPT ![r] = "SWAP"]
          /\ gpu' = [gpu EXCEPT ![r] = 0]
          /\ cpu' = [cpu EXCEPT ![r] = @ + gpu[r]]
          /\ swapLen' = [swapLen EXCEPT ![r] = gpu[r] + cpu[r]]
          /\ work' = [work EXCEPT ![r] = NoWork]
          /\ UNCHANGED <<waiting, status, inflight, tables>>
      BY <2>4 DEF PauseBySwap
    <3>2. /\ r \notin scheduled /\ r # cur
          /\ cpu[r] = 0 /\ gpu[r] > 0 /\ swapLen[r] = 0
          /\ gpu[r] = Token2Block(Computed(r))
      BY <2>1, <2>2, ReqsFacts
         DEF TableInv, PhaseInv, ModeMatchesBlocks, Paused, TableMatchesData,
             Live, Finished, CountInv, TypeOK
    <3>3. PlaceInv' /\ PhaseInv' /\ VictimInv' /\ LiveInv' /\ SampledInv'
      <4>1. ~(r \in sampled)
        BY <2>1 DEF TableInv, PhaseInv
      <4> QED
        BY <2>1, <2>2, <3>1, <4>1
           DEF TableInv, PlaceInv, PhaseInv, VictimInv, LiveInv, SampledInv,
               Handled, Live, CountInv, TypeOK
    <3>4. WorkInv' /\ ModeMatchesBlocks'
      BY <2>1, <2>2, <3>1, <3>2
         DEF TableInv, WorkInv, ModeMatchesBlocks, Paused, CountInv, TypeOK
    <3>5. TableMatchesData'
      BY <2>1, <3>1, <3>2
         DEF TableInv, TableMatchesData, Live, Computed, Token2Block, CountInv,
             TypeOK
    <3> QED
      BY <3>3, <3>4, <3>5 DEF TableInv
  <2>5. CASE UNCHANGED <<waiting, mode, status, data, memory>>
    BY <2>1, <2>5
       DEF TableInv, PlaceInv, PhaseInv, VictimInv, LiveInv, SampledInv,
           Handled, Live, WorkInv, ModeMatchesBlocks, Paused, TableMatchesData,
           Computed, Token2Block
  <2> QED
    BY <1>2, <2>3, <2>4, <2>5 DEF Demote
<1>3. CASE StartPass1
  <2>1. /\ pc = "pause" /\ demoted = {} /\ pc' = "pass1"
        /\ targets' = running /\ running' = {}
        /\ UNCHANGED <<requests, data, memory, waiting, swapped, mode, status,
                       delayed, scheduled, victims, demoted, sampled, evicting>>
    BY <1>3 DEF StartPass1
  <2>2. PlaceInv' /\ PhaseInv' /\ VictimInv' /\ LiveInv' /\ SampledInv'
    BY <2>1, ReqsFacts
       DEF TableInv, PlaceInv, PhaseInv, VictimInv, LiveInv, SampledInv,
           Handled, Live, CountInv, TypeOK
  <2>3. WorkInv' /\ ModeMatchesBlocks' /\ TableMatchesData'
    BY <2>1
       DEF TableInv, WorkInv, ModeMatchesBlocks, Paused, TableMatchesData,
           Live, Computed, Token2Block
  <2> QED
    BY <2>2, <2>3 DEF TableInv
<1> QED
  BY <1>1, <1>2, <1>3 DEF PausePhase

\* The micro-steps of the two passes that do not touch a victim
LEMMA TableTargets ==
    ASSUME CountInv, TableInv, NEW r \in Reqs,
           \/ Ignore(r) \/ SequenceLimit(r) \/ BatchLimit(r)
           \/ Schedule(r) \/ GiveUp(r) \/ StartEviction(r)
    PROVE  TableInv'
<1> USE DEF requests, data, memory, queues, pass, evicting
<1>1. /\ pc \in {"pass1", "pass2"} /\ cur = 0 /\ r \in targets
      /\ r \notin delayed \cup scheduled /\ Live(r) /\ mode[r] = "none"
      /\ targets' = targets \ {r}
  BY DEF Ignore, SequenceLimit, BatchLimit, Schedule, GiveUp, StartEviction,
         Eligible, IsNext, TableInv, PlaceInv, LiveInv, Handled
<1>2. CASE Ignore(r)
  <2>1. /\ status' = [status EXCEPT ![r] = "FINISHED_IGNORED"]
        /\ UNCHANGED <<requests, data, memory, waiting, running, swapped, mode,
                       delayed, scheduled, victims, demoted, sampled, evicting, pc>>
    BY <1>2 DEF Ignore
  <2>2. r \notin running
    BY <1>1 DEF TableInv, PlaceInv, PhaseInv
  <2>3. PlaceInv' /\ PhaseInv' /\ VictimInv' /\ LiveInv' /\ SampledInv'
    BY <1>1, <2>1, <2>2
       DEF TableInv, PlaceInv, PhaseInv, VictimInv, LiveInv, SampledInv,
           Handled, Live, CountInv, TypeOK
  <2>4. WorkInv' /\ ModeMatchesBlocks' /\ TableMatchesData'
    BY <1>1, <2>1
       DEF TableInv, WorkInv, ModeMatchesBlocks, Paused, TableMatchesData,
           Live, Finished, Computed, Token2Block, CountInv, TypeOK
  <2> QED
    BY <2>3, <2>4 DEF TableInv
<1>3. ASSUME delayed' = delayed \cup {r}, UNCHANGED cur,
             pc' \in {pc, IF pc = "pass1" THEN "after1" ELSE "after2"},
             UNCHANGED <<requests, inflight, swapLen, memory, queues, scheduled,
                         victims, demoted, sampled, evicting>>,
             work' = work \/ work' = [work EXCEPT ![r] = Workload(r)]
      PROVE  TableInv'
  <2>1. PlaceInv' /\ PhaseInv' /\ VictimInv' /\ LiveInv' /\ SampledInv'
    BY <1>1, <1>3
       DEF TableInv, PlaceInv, PhaseInv, VictimInv, LiveInv, SampledInv,
           Handled, Live, CountInv, TypeOK
  <2>2. WorkInv' /\ ModeMatchesBlocks' /\ TableMatchesData'
    BY <1>1, <1>3, ReqsFacts
       DEF TableInv, WorkInv, ModeMatchesBlocks, Paused, TableMatchesData,
           Live, Computed, Token2Block, CountInv, TypeOK
  <2> QED
    BY <2>1, <2>2 DEF TableInv
<1>4. CASE SequenceLimit(r)
  BY <1>3, <1>4 DEF SequenceLimit, Stop
<1>5. CASE BatchLimit(r)
  BY <1>3, <1>5 DEF BatchLimit
<1>6. CASE GiveUp(r)
  BY <1>3, <1>6 DEF GiveUp, Stop
<1>7. CASE Schedule(r)
  <2>1. /\ Allocate(r, Workload(r))
        /\ UNCHANGED <<requests, waiting, running, swapped, mode, delayed,
                       victims, demoted, sampled, evicting, pc>>
        /\ status' = [status EXCEPT ![r] = "RUNNING"]
        /\ scheduled' = scheduled \cup {r}
        /\ UNCHANGED <<inflight, swapLen>>
    BY <1>7 DEF Schedule, Allocate
  <2>2. TableMatchesData' /\ ModeMatchesBlocks' /\ WorkInv'
    BY <1>1, <2>1, WorkloadFacts, AllocateData DEF TableInv
  <2>3. PlaceInv' /\ PhaseInv' /\ VictimInv' /\ LiveInv' /\ SampledInv'
    BY <1>1, <2>1
       DEF TableInv, PlaceInv, PhaseInv, VictimInv, LiveInv, SampledInv,
           Handled, Live, Finished, CountInv, TypeOK
  <2> QED
    BY <2>2, <2>3 DEF TableInv
<1>8. CASE StartEviction(r)
  <2>1. /\ work' = [work EXCEPT ![r] = Workload(r)] /\ cur' = r
        /\ UNCHANGED <<requests, inflight, swapLen, memory, queues, delayed,
                       scheduled, victims, demoted, sampled, pc>>
    BY <1>8 DEF StartEviction
  <2>2. PlaceInv' /\ PhaseInv' /\ VictimInv' /\ LiveInv' /\ SampledInv'
    BY <1>1, <2>1
       DEF TableInv, PlaceInv, PhaseInv, VictimInv, LiveInv, SampledInv,
           Handled, Live, CountInv, TypeOK
  <2>3. WorkInv'
    BY <1>1, <2>1, WorkloadFacts DEF TableInv, WorkInv, CountInv, TypeOK
  <2>4. ModeMatchesBlocks' /\ TableMatchesData'
    BY <1>1, <2>1
       DEF TableInv, ModeMatchesBlocks, Paused, TableMatchesData, Live,
           Computed, Token2Block, CountInv, TypeOK
  <2> QED
    BY <2>2, <2>3, <2>4 DEF TableInv
<1> QED
  BY <1>2, <1>4, <1>5, <1>6, <1>7, <1>8

\* A swapped request loses its CPU blocks, be it queued, paused, scheduled in
\* this pass or the one being scheduled.
LEMMA TableDiscardSwapped ==
    ASSUME CountInv, TableInv, NEW v \in Reqs, NEW d \in Reqs,
           DiscardSwapped(v, d)
    PROVE  TableInv'
<1> USE DEF requests, data, memory, queues, pass, evicting
<1>1. /\ pc \in {"pass1", "pass2"} /\ cur # 0 /\ DiscardVictim(d)
      /\ d \in swapped \/ mode[d] = "SWAP"
      /\ swapped' = swapped \ {d}
      /\ UNCHANGED <<requests, running, pass, cur, pc>>
  BY DEF DiscardSwapped, IsVictim, Evicting, InLoop, DiscardList
<1>2. TableMatchesData' /\ ModeMatchesBlocks' /\ WorkInv'
  BY <1>1, VictimData DEF TableInv
<1>3. CASE mode[d] # "none"
  <2>1. /\ mode' = [mode EXCEPT ![d] = "RECOMPUTE"] /\ mode[d] = "SWAP"
        /\ d \notin swapped /\ UNCHANGED <<waiting, status>>
    BY <1>1, <1>3
       DEF DiscardVictim, PauseByRecompute, TableInv, PlaceInv
  <2>2. PlaceInv' /\ PhaseInv' /\ VictimInv' /\ LiveInv' /\ SampledInv'
    BY <1>1, <2>1
       DEF TableInv, PlaceInv, PhaseInv, VictimInv, LiveInv, SampledInv,
           Handled, Live, CountInv, TypeOK
  <2> QED
    BY <1>2, <2>2 DEF TableInv
<1>4. CASE mode[d] = "none"
  <2>1. /\ status' = [status EXCEPT ![d] = "WAITING"] /\ d \in swapped
        /\ waiting' = waiting \cup {d} /\ UNCHANGED mode
    BY <1>1, <1>4 DEF DiscardVictim, PreemptByRecompute
  <2>2. PlaceInv' /\ PhaseInv' /\ VictimInv' /\ LiveInv' /\ SampledInv'
    BY <1>1, <1>4, <2>1
       DEF TableInv, PlaceInv, PhaseInv, VictimInv, LiveInv, SampledInv,
           Handled, Live, Finished, CountInv, TypeOK
  <2> QED
    BY <1>2, <2>2 DEF TableInv
<1> QED
  BY <1>3, <1>4

\* A victim is a request paused on the GPU or, in the first pass, one that the
\* pass holds and has not scheduled.
LEMMA TableEvict ==
    ASSUME CountInv, TableInv, NEW v \in Reqs, Evict(v)
    PROVE  TableInv'
<1> USE DEF requests, data, memory, queues, pass, evicting
<1>1. /\ pc \in {"pass1", "pass2"} /\ cur # 0 /\ pc' \in {pc, "crashed"}
      /\ victims' = victims \ {v} /\ delayed' = delayed \ {v}
      /\ targets' = targets \ {v} /\ cur' = (IF v = cur THEN 0 ELSE cur)
      /\ UNCHANGED <<requests, running, swapped, scheduled, demoted, sampled>>
  BY DEF Evict, IsVictim, Evicting, InLoop
<1>2. \/ v \in victims /\ mode[v] = "PRESERVE"
      \/ pc = "pass1" /\ v \in targets \cup delayed \cup {cur} /\ mode[v] = "none"
  <2>1. CASE victims # {}
    BY <2>1 DEF Evict, IsVictim, LastVictims, VictimList, TableInv, VictimInv
  <2>2. CASE victims = {}
    <3>1. /\ VictimList \in {delayed, targets, {cur}, {}} /\ v \in VictimList
          /\ pc = "pass1"
      BY <2>2 DEF Evict, IsVictim, LastVictims, VictimList, Youngest,
                       SelfPreempt
    <3> QED
      BY <1>1, <3>1 DEF TableInv, PlaceInv, Handled
  <2> QED
    BY <2>1, <2>2
<1>3. v \notin scheduled /\ v \notin demoted /\ Live(v)
  BY <1>1, <1>2
     DEF TableInv, PlaceInv, PhaseInv, LiveInv, ModeMatchesBlocks, Paused,
         Handled, Live, Finished
<1>4. CASE gpu[v] > 0
  <2>1. DiscardVictim(v)
    BY <1>4 DEF Evict
  <2>2. TableMatchesData' /\ ModeMatchesBlocks' /\ WorkInv'
    BY <1>1, <2>1, VictimData DEF TableInv
  <2>3. CASE v \in victims /\ mode[v] = "PRESERVE"
    <3>1. /\ mode' = [mode EXCEPT ![v] = "RECOMPUTE"]
          /\ UNCHANGED <<waiting, status>> /\ v # cur
      BY <1>1, <2>1, <2>3
         DEF DiscardVictim, PauseByRecompute, TableInv, PlaceInv, Handled
    <3>2. PlaceInv' /\ PhaseInv' /\ VictimInv' /\ LiveInv' /\ SampledInv'
      BY <1>1, <2>3, <3>1, ReqsFacts
         DEF TableInv, PlaceInv, PhaseInv, VictimInv, LiveInv, SampledInv,
             Handled, Live, CountInv, TypeOK
    <3> QED
      BY <2>2, <3>2 DEF TableInv
  <2>4. CASE /\ pc = "pass1" /\ v \in targets \cup delayed \cup {cur}
             /\ mode[v] = "none"
    <3>1. /\ status' = [status EXCEPT ![v] = "WAITING"]
          /\ waiting' = waiting \cup {v} /\ UNCHANGED mode
      BY <2>1, <2>4 DEF DiscardVictim, PreemptByRecompute
    <3>2. PlaceInv' /\ PhaseInv' /\ VictimInv' /\ LiveInv' /\ SampledInv'
      BY <1>1, <1>3, <2>4, <3>1, ReqsFacts
         DEF TableInv, PlaceInv, PhaseInv, VictimInv, LiveInv, SampledInv,
             Handled, Live, Finished, CountInv, TypeOK
    <3> QED
      BY <2>2, <3>2 DEF TableInv
  <2> QED
    BY <1>2, <2>3, <2>4
<1>5. CASE ~(gpu[v] > 0)
  <2>1. UNCHANGED <<waiting, mode, status, data, memory>>
    BY <1>5 DEF Evict
  <2>2. PlaceInv' /\ PhaseInv' /\ VictimInv' /\ LiveInv' /\ SampledInv'
    BY <1>1, <2>1, ReqsFacts
       DEF TableInv, PlaceInv, PhaseInv, VictimInv, LiveInv, SampledInv,
           Handled, Live, CountInv, TypeOK
  <2>3. WorkInv' /\ ModeMatchesBlocks' /\ TableMatchesData'
    BY <1>1, <2>1, ReqsFacts
       DEF TableInv, WorkInv, ModeMatchesBlocks, Paused, TableMatchesData,
           Live, Computed, Token2Block
  <2> QED
    BY <2>2, <2>3 DEF TableInv
<1> QED
  BY <1>4, <1>5

\* The ends of the preemption loop and of the passes
LEMMA TablePassEnds ==
    ASSUME CountInv, TableInv,
           DelayCur \/ ScheduleCur \/ FinishPass1 \/ FinishPass2
    PROVE  TableInv'
<1> USE DEF requests, data, memory, queues, pass, evicting
<1>1. CASE DelayCur
  <2>1. /\ pc \in {"pass1", "pass2"} /\ cur # 0 /\ cur \in Reqs
        /\ delayed' = delayed \cup {cur} /\ cur' = 0
        /\ UNCHANGED <<requests, data, memory, queues, targets, scheduled,
                       victims, demoted, sampled, pc>>
    BY <1>1 DEF DelayCur, Evicting, InLoop, CountInv, TypeOK
  <2>2. PlaceInv' /\ PhaseInv' /\ VictimInv' /\ LiveInv' /\ SampledInv'
    BY <2>1, ReqsFacts
       DEF TableInv, PlaceInv, PhaseInv, VictimInv, LiveInv, SampledInv,
           Handled, Live, CountInv, TypeOK
  <2>3. WorkInv' /\ ModeMatchesBlocks' /\ TableMatchesData'
    BY <2>1, ReqsFacts
       DEF TableInv, WorkInv, ModeMatchesBlocks, Paused, TableMatchesData,
           Live, Computed, Token2Block
  <2> QED
    BY <2>2, <2>3 DEF TableInv
<1>2. CASE ScheduleCur
  <2>1. /\ pc \in {"pass1", "pass2"} /\ cur # 0 /\ cur \in Reqs /\ cur' = 0
        /\ Allocate(cur, work[cur])
        /\ UNCHANGED <<requests, waiting, running, swapped, mode, targets,
                       delayed, victims, demoted, sampled, pc>>
        /\ status' = [status EXCEPT ![cur] = "RUNNING"]
        /\ scheduled' = scheduled \cup {cur}
        /\ UNCHANGED <<inflight, swapLen>>
    BY <1>2 DEF ScheduleCur, Allocate, InLoop, CountInv, TypeOK
  <2>2. /\ Live(cur) /\ mode[cur] = "none" /\ cur \notin scheduled
        /\ work[cur].swap = swapLen[cur]
        /\ work[cur] \in [swap : Nat, tokens : Nat]
    BY <2>1 DEF TableInv, PlaceInv, LiveInv, WorkInv, Handled, CountInv, TypeOK
  <2>3. TableMatchesData' /\ ModeMatchesBlocks' /\ WorkInv'
    BY <2>1, <2>2, AllocateData DEF TableInv
  <2>4. PlaceInv' /\ PhaseInv' /\ VictimInv' /\ LiveInv' /\ SampledInv'
    BY <2>1, <2>2, ReqsFacts
       DEF TableInv, PlaceInv, PhaseInv, VictimInv, LiveInv, SampledInv,
           Handled, Live, Finished, CountInv, TypeOK
  <2> QED
    BY <2>3, <2>4 DEF TableInv
<1>3. CASE FinishPass1
  <2>1. /\ pc \in {"pass1", "after1"} /\ pc' = "pass2" /\ cur = 0
        /\ running' = targets \cup scheduled \cup delayed
        /\ targets' = swapped \cup waiting /\ delayed' = {}
        /\ UNCHANGED <<requests, inflight, swapLen, memory, waiting, swapped,
                       mode, status, scheduled, victims, demoted, sampled,
                       evicting>>
        /\ \A r \in Reqs : r \notin delayed => work'[r] = work[r]
    BY <1>3 DEF FinishPass1, PassOver, ClearDelayed, CountInv, CurInv
  <2>2. PlaceInv' /\ PhaseInv' /\ VictimInv' /\ LiveInv' /\ SampledInv'
    BY <2>1, ReqsFacts
       DEF TableInv, PlaceInv, PhaseInv, VictimInv, LiveInv, SampledInv,
           Handled, Live, CountInv, TypeOK
  <2>3. WorkInv' /\ ModeMatchesBlocks' /\ TableMatchesData'
    BY <2>1, ReqsFacts
       DEF TableInv, PlaceInv, WorkInv, ModeMatchesBlocks, Paused,
           TableMatchesData, Live, Computed, Token2Block
  <2> QED
    BY <2>2, <2>3 DEF TableInv
<1>4. CASE FinishPass2
  <2>1. /\ pc \in {"pass2", "after2"} /\ cur = 0
        /\ pc' \in {"idle", "execute", "crashed"}
        /\ pc' = "idle" => scheduled = {}
        /\ running' = running \cup scheduled
        /\ swapped' = swapped \cap (delayed \cup targets)
        /\ waiting' = waiting \cap (delayed \cup targets)
        /\ targets' = {} /\ delayed' = {} /\ victims' = {}
        /\ UNCHANGED <<requests, inflight, swapLen, memory, mode, status,
                       scheduled, demoted, sampled, evicting>>
        /\ \A r \in Reqs : r \notin delayed => work'[r] = work[r]
    BY <1>4 DEF FinishPass2, PassOver, ClearDelayed, CountInv, CurInv
  <2>2. PlaceInv' /\ PhaseInv' /\ VictimInv' /\ LiveInv' /\ SampledInv'
    BY <2>1
       DEF TableInv, PlaceInv, PhaseInv, VictimInv, LiveInv, SampledInv,
           Handled, Live, CountInv, TypeOK
  <2>3. WorkInv' /\ ModeMatchesBlocks' /\ TableMatchesData'
    BY <2>1, ReqsFacts
       DEF TableInv, PlaceInv, WorkInv, ModeMatchesBlocks, Paused,
           TableMatchesData, Live, Computed, Token2Block
  <2> QED
    BY <2>2, <2>3 DEF TableInv
<1> QED
  BY <1>1, <1>2, <1>3, <1>4

\* The outputs
LEMMA TableOutputPhase ==
    ASSUME CountInv, TableInv, OutputPhase
    PROVE  TableInv'
<1> USE DEF requests, data, memory, queues, pass, evicting
<1>1. CASE PostForward
  <2>1. /\ pc = "execute" /\ pc' = "process" /\ cur = 0 /\ scheduled' = {}
        /\ sampled' = {r \in scheduled : /\ work[r].tokens > 0
                                         /\ work[r].tokens = inflight[r]}
        /\ UNCHANGED <<requests, memory, queues, targets, delayed, victims,
                       demoted, evicting>>
        /\ \A r \in scheduled : /\ inflight'[r] = inflight[r] - work[r].tokens
                                /\ swapLen'[r] = swapLen[r] - work[r].swap
        /\ \A r \in Reqs \ scheduled : /\ inflight'[r] = inflight[r]
                                       /\ swapLen'[r] = swapLen[r]
    BY <1>1 DEF PostForward, CountInv, TypeOK, CurInv
  <2>2. \A r \in scheduled : /\ swapLen'[r] = 0 /\ Live(r) /\ mode[r] = "none"
                             /\ r \notin waiting \cup swapped
    BY <2>1
       DEF TableInv, PlaceInv, PhaseInv, LiveInv, WorkInv, Handled, CountInv,
           TypeOK
  <2>3. \A r \in sampled' : inflight'[r] = 0
    BY <2>1 DEF CountInv, TypeOK
  <2>4. PlaceInv' /\ PhaseInv' /\ VictimInv' /\ LiveInv' /\ SampledInv'
    BY <2>1, <2>2, <2>3
       DEF TableInv, PlaceInv, PhaseInv, VictimInv, LiveInv, SampledInv,
           Handled, Live, Finished, CountInv, TypeOK
  <2>5. WorkInv' /\ ModeMatchesBlocks'
    BY <2>1, <2>2, ReqsFacts
       DEF TableInv, WorkInv, ModeMatchesBlocks, Paused, Live
  <2>6. \A r \in scheduled : Computed(r)' = Computed(r) + work[r].tokens
    BY <2>1 DEF Computed, CountInv, TypeOK
  <2>7. TableMatchesData'
    <3> SUFFICES ASSUME NEW r \in Reqs, Live(r)
                 PROVE  /\ cpu[r] = swapLen'[r]
                        /\ gpu[r] + cpu[r] = Token2Block(Computed(r)')
      BY <2>1 DEF TableMatchesData, Live, Token2Block
    <3>1. CASE r \in scheduled
      BY <2>2, <2>6, <3>1 DEF TableInv, TableMatchesData, CountInv, TypeOK
    <3>2. CASE r \notin scheduled
      BY <2>1, <3>2 DEF TableInv, TableMatchesData, Computed
    <3> QED
      BY <3>1, <3>2
  <2> QED
    BY <2>4, <2>5, <2>7 DEF TableInv
<1>2. ASSUME NEW r \in Reqs, AppendToken(r)
      PROVE  /\ pc = "process" /\ sampled' = sampled \ {r}
             /\ mode[r] = "none" /\ r \notin waiting \cup swapped
             /\ r \notin Handled /\ Live(r) /\ scheduled = {} /\ r # cur
             /\ len[r] > 0 /\ swapLen[r] = 0 /\ inflight[r] = 0
             /\ len' = [len EXCEPT ![r] = @ + 1]
             /\ inflight' = [inflight EXCEPT ![r] = @ + 1]
             /\ \A s \in Reqs : Computed(s)' = Computed(s)
             /\ UNCHANGED <<waiting, running, swapped, swapLen, work, targets,
                            delayed, scheduled, victims, demoted, evicting, pc>>
  <2>1. r \in sampled /\ pc = "process"
    BY <1>2 DEF AppendToken
  <2>2. r \notin Handled /\ scheduled = {} /\ r # cur
    BY <2>1, ReqsFacts DEF TableInv, PhaseInv, Handled
  <2>3. \A s \in Reqs : Computed(s)' = Computed(s)
    BY <1>2 DEF AppendToken, Computed, CountInv, TypeOK
  <2> QED
    BY <1>2, <2>1, <2>2, <2>3 DEF AppendToken, TableInv, SampledInv, WorkInv
<1>3. ASSUME NEW r \in Reqs, CallApi(r) PROVE TableInv'
  <2>1. /\ AppendToken(r)
        /\ status' = [status EXCEPT ![r] = "PAUSED_API"]
        /\ mode' = [mode EXCEPT ![r] = "PRESERVE"]
        /\ UNCHANGED memory
    BY <1>3 DEF CallApi
  <2>2. PlaceInv' /\ PhaseInv' /\ VictimInv' /\ LiveInv' /\ SampledInv'
    BY <1>2, <2>1
       DEF TableInv, PlaceInv, PhaseInv, VictimInv, LiveInv, SampledInv,
           Handled, Live, Finished, CountInv, TypeOK
  <2>3. WorkInv'
    BY <1>2, <2>1 DEF TableInv, WorkInv, CountInv, TypeOK
  <2>4. TableMatchesData'
    BY <1>2, <2>1
       DEF TableInv, TableMatchesData, Live, Token2Block, CountInv, TypeOK
  <2>5. cpu[r] = 0 /\ gpu[r] > 0
    <3>1. Computed(r) \in Nat \ {0}
      BY <1>2, <2>1 DEF Computed, CountInv, TypeOK
    <3>2. cpu[r] = 0 /\ gpu[r] = Token2Block(Computed(r))
      BY <1>2, <2>1 DEF TableInv, TableMatchesData, CountInv, TypeOK
    <3> QED
      BY <3>1, <3>2, Token2BlockZero
  <2>6. ModeMatchesBlocks'
    BY <2>1, <2>5 DEF TableInv, ModeMatchesBlocks, Paused, CountInv, TypeOK
  <2> QED
    BY <2>2, <2>3, <2>4, <2>6 DEF TableInv
<1>4. ASSUME NEW r \in Reqs, StopRequest(r) PROVE TableInv'
  <2>1. /\ AppendToken(r) /\ FreeTable(r) /\ UNCHANGED mode
        /\ status' = [status EXCEPT ![r] = "FINISHED_STOPPED"]
    BY <1>4 DEF StopRequest
  <2>2. PlaceInv' /\ PhaseInv' /\ VictimInv' /\ LiveInv' /\ SampledInv'
    BY <1>2, <2>1
       DEF TableInv, PlaceInv, PhaseInv, VictimInv, LiveInv, SampledInv,
           Handled, Live, Finished, CountInv, TypeOK
  <2>3. WorkInv' /\ ModeMatchesBlocks'
    BY <1>2, <2>1
       DEF TableInv, WorkInv, ModeMatchesBlocks, Paused, FreeTable, CountInv,
           TypeOK
  <2>4. TableMatchesData'
    BY <1>2, <2>1
       DEF TableInv, TableMatchesData, Live, Finished, Token2Block, FreeTable,
           CountInv, TypeOK
  <2> QED
    BY <2>2, <2>3, <2>4 DEF TableInv
<1>5. ASSUME NEW r \in Reqs, Continue(r) PROVE TableInv'
  <2>1. AppendToken(r) /\ UNCHANGED <<status, mode, memory>>
    BY <1>5 DEF Continue
  <2>2. PlaceInv' /\ PhaseInv' /\ VictimInv' /\ LiveInv' /\ SampledInv'
    BY <1>2, <2>1
       DEF TableInv, PlaceInv, PhaseInv, VictimInv, LiveInv, SampledInv,
           Handled, Live, CountInv, TypeOK
  <2>3. WorkInv' /\ ModeMatchesBlocks'
    BY <1>2, <2>1
       DEF TableInv, WorkInv, ModeMatchesBlocks, Paused, Live, CountInv, TypeOK
  <2>4. TableMatchesData'
    BY <1>2, <2>1 DEF TableInv, TableMatchesData, Live, Token2Block
  <2> QED
    BY <2>2, <2>3, <2>4 DEF TableInv
<1>6. CASE FinishStep
  <2>1. /\ pc = "process" /\ sampled = {} /\ pc' = "idle"
        /\ running' = {r \in running :
                          status[r] \notin Finished \cup {"PAUSED_API"}}
        /\ UNCHANGED <<requests, data, memory, waiting, swapped, mode, status,
                       pass, evicting>>
    BY <1>6 DEF FinishStep
  <2>2. PlaceInv' /\ PhaseInv' /\ VictimInv' /\ LiveInv' /\ SampledInv'
    BY <2>1
       DEF TableInv, PlaceInv, PhaseInv, VictimInv, LiveInv, SampledInv,
           ModeMatchesBlocks, Paused, Handled, Live, CountInv, TypeOK
  <2>3. WorkInv' /\ ModeMatchesBlocks' /\ TableMatchesData'
    BY <2>1
       DEF TableInv, WorkInv, ModeMatchesBlocks, Paused, TableMatchesData,
           Live, Computed, Token2Block
  <2> QED
    BY <2>2, <2>3 DEF TableInv
<1> QED
  BY <1>1, <1>3, <1>4, <1>5, <1>6 DEF OutputPhase

\* Every step keeps the tables in agreement with the data.
LEMMA TableNext == CountInv /\ TableInv /\ [Next]_vars => TableInv'
<1> SUFFICES ASSUME CountInv, TableInv, [Next]_vars PROVE TableInv'
  OBVIOUS
<1>1. CASE Client
  BY <1>1, TableClient
<1>2. CASE PausePhase
  BY <1>2, TablePausePhase
<1>3. CASE PassPhase
  BY <1>3, TableTargets, TableEvict, TableDiscardSwapped, TablePassEnds
     DEF PassPhase
<1>4. CASE OutputPhase
  BY <1>4, TableOutputPhase
<1>5. CASE UNCHANGED vars
  BY <1>5
     DEF vars, requests, data, memory, queues, pass, evicting, TableInv,
         PlaceInv, PhaseInv, VictimInv, LiveInv, SampledInv, Handled, Live,
         WorkInv, ModeMatchesBlocks, Paused, TableMatchesData, Computed,
         Token2Block
<1> QED
  BY <1>1, <1>2, <1>3, <1>4, <1>5 DEF Next, Step

\* Both invariants hold in every state.
LEMMA TableInvariant == Spec => [](CountInv /\ TableInv)
<1>1. Init => CountInv /\ TableInv
  BY CountInit, TableInit
<1>2. (CountInv /\ TableInv) /\ [Next]_vars => (CountInv /\ TableInv)'
  BY CountNext, TableNext
<1> QED
  BY <1>1, <1>2, PTL DEF Spec

\* The block table of every live request holds exactly the blocks of its
\* computed tokens, through chunks, swaps, evictions and API returns, even
\* when schedule() has raised: TableMatchesData, which SchedSmallCpu checks.
THEOREM TablesMatch == Spec => []TableMatchesData
<1>1. CountInv /\ TableInv => TableMatchesData
  BY DEF TableInv
<1> QED
  BY <1>1, TableInvariant, PTL

\* The mode of a paused request says where its blocks are when its API
\* returns: ModeMatchesBlocks, which SchedSmallCpu checks.
THEOREM ModesMatch == Spec => []ModeMatchesBlocks
<1>1. CountInv /\ TableInv => ModeMatchesBlocks
  BY DEF TableInv
<1> QED
  BY <1>1, TableInvariant, PTL

\* A request whose API is running is never offered to a pass nor forwarded:
\* PausedNotScheduled, which SchedSmallCpu checks.
THEOREM PausedStayOut == Spec => []PausedNotScheduled
<1>1. CountInv /\ TableInv => PausedNotScheduled
  BY ReqsFacts DEF TableInv, PlaceInv, PausedNotScheduled, Paused, Handled
<1> QED
  BY <1>1, TableInvariant, PTL

-----------------------------------------------------------------------------
(* The order of the calls to the block manager is the one the copies of    *)
(* the worker need (CacheProtocol), but for one step: the discard of a     *)
(* request that the same step has swapped in and scheduled, to make room   *)
(* on a small CPU pool (the run SchedVictims).                             *)

\* swapped_discard_list still holds a request that was scheduled.
ScheduledDiscarded ==
    \E v, d \in Reqs : DiscardSwapped(v, d) /\ d \in scheduled

\* What runs, is scheduled or is paused on the GPU has a block table.
RunInv == \A r \in Reqs :
    /\ pc # "crashed" /\ r \in running /\ Live(r) => r \in tables
    /\ r \in scheduled \cup sampled => r \in tables
    /\ pc \in {"pass1", "after1"} /\ r \in Handled => r \in tables
    /\ mode[r] = "PRESERVE" => r \in tables

\* Nothing is scheduled.
LEMMA RunInit == Init => RunInv
BY DEF Init, RunInv, Handled

\* A discard takes the table of one request only.
LEMMA TablesAfterDiscard ==
    ASSUME CountInv, NEW d \in Reqs, DiscardVictim(d)
    PROVE  /\ tables' = tables \ {d}
           /\ mode' \in [Reqs -> Modes] /\ mode'[d] # "PRESERVE"
           /\ status' \in [Reqs -> Statuses]
           /\ \A r \in Reqs \ {d} : mode'[r] = mode[r] /\ status'[r] = status[r]
BY DEF DiscardVictim, PauseByRecompute, PreemptByRecompute, Discard, FreeTable,
       CountInv, TypeOK, Modes, Statuses

\* Clients come, go and resume between the steps.
LEMMA RunClient ==
    ASSUME CountInv, TableInv, RunInv, Client
    PROVE  RunInv'
<1>1. ASSUME NEW r \in Reqs, AddRequest(r) PROVE RunInv'
  BY <1>1 DEF AddRequest, memory, pass, evicting, RunInv, Handled, Live, CountInv,
              TypeOK, Finished, TableInv, LiveInv, PhaseInv
<1>2. ASSUME NEW r \in Reqs, AbortRequest(r) PROVE RunInv'
  <2>1. /\ pc = "idle" /\ pc' = "idle" /\ scheduled = {} /\ sampled = {}
        /\ UNCHANGED <<mode, targets, delayed, scheduled, sampled, cur>>
    BY <1>2 DEF AbortRequest, pass, evicting, TableInv, PhaseInv
  <2>2. CASE r \in waiting \cup running \cup swapped
    <3>1. /\ running' = running \ {r} /\ tables' = tables \ {r}
          /\ status' = [status EXCEPT ![r] = "FINISHED_ABORTED"]
      BY <1>2, <2>2 DEF AbortRequest, FreeTable
    <3>2. mode[r] = "none"
      BY <2>1, <2>2 DEF TableInv, PlaceInv
    <3> QED
      BY <2>1, <3>1, <3>2 DEF RunInv, Live, CountInv, TypeOK
  <2>3. CASE r \notin waiting \cup running \cup swapped
    BY <1>2, <2>1, <2>3 DEF AbortRequest, memory, RunInv, Live
  <2> QED
    BY <2>2, <2>3
<1>3. ASSUME NEW r \in Reqs, NEW n \in ApiRets, NEW single \in BOOLEAN,
             ResumeRequest(r, n, single)
      PROVE  RunInv'
  <2>1. /\ UNCHANGED <<tables, pc, scheduled, sampled>>
        /\ pc \in {"idle", "execute"} /\ mode[r] # "none"
        /\ mode' = [mode EXCEPT ![r] = "none"]
    BY <1>3 DEF ResumeRequest, memory, pass, evicting
  <2>2. \A s \in Reqs : s # r => status'[s] = status[s]
                                 /\ (s \in running' <=> s \in running)
    BY <1>3 DEF ResumeRequest, CountInv, TypeOK
  <2>3. r \in running' => r \in running \/ mode[r] = "PRESERVE"
    BY <1>3 DEF ResumeRequest
  <2>4. r \notin running
    BY <2>1 DEF TableInv, PlaceInv
  <2> QED
    BY <2>1, <2>2, <2>3, <2>4 DEF RunInv, Live, CountInv, TypeOK
<1> QED
  BY <1>1, <1>2, <1>3 DEF Client

\* What is discarded at the beginning of schedule() is not scheduled.
LEMMA RunPausePhase ==
    ASSUME CountInv, TableInv, RunInv, PausePhase
    PROVE  RunInv' /\ pc' # "crashed"
<1>1. ASSUME StartSchedule PROVE RunInv' /\ pc' = "pause"
  <2>1. /\ pc = "idle" /\ scheduled = {} /\ sampled = {}
        /\ UNCHANGED <<running, targets, delayed, scheduled, sampled, cur>>
        /\ pc' = IF running \subseteq tables THEN "pause" ELSE "crashed"
    BY <1>1 DEF StartSchedule, evicting, TableInv, PhaseInv
  <2>2. \A r \in Reqs : r \in running => r \in tables
    BY <2>1 DEF RunInv, TableInv, LiveInv
  <2>3. pc' = "pause"
    BY <2>1, <2>2 DEF CountInv, TypeOK
  <2>4. CASE UNCHANGED <<waiting, swapped, mode, status, data, memory>>
    BY <2>1, <2>3, <2>4 DEF memory, RunInv, Live
  <2>5. ASSUME NEW r \in swapped, PreemptByRecompute(r) PROVE RunInv'
    <3>1. /\ tables' = tables \ {r} /\ UNCHANGED mode
          /\ status' = [status EXCEPT ![r] = "WAITING"]
      BY <2>5 DEF PreemptByRecompute, Discard, FreeTable
    <3>2. r \in Reqs /\ r \notin running /\ mode[r] = "none"
      BY <2>5 DEF TableInv, PlaceInv, CountInv, TypeOK
    <3> QED
      BY <2>1, <2>3, <3>1, <3>2 DEF RunInv, Live, CountInv, TypeOK
  <2> QED
    BY <1>1, <2>3, <2>4, <2>5 DEF StartSchedule, ActiveDiscard
<1>2. ASSUME NEW r \in Reqs, Demote(r) PROVE RunInv' /\ pc' = "pause"
  <2>1. /\ pc = "pause" /\ pc' = "pause" /\ scheduled = {} /\ sampled = {}
        /\ UNCHANGED <<running, targets, delayed, scheduled, sampled, cur, status>>
    BY <1>2 DEF Demote, evicting, TableInv, PhaseInv, PauseByRecompute, PauseBySwap
  <2>2. mode[r] = "PRESERVE" /\ r \notin running
    BY <1>2, <2>1 DEF Demote, TableInv, VictimInv, PlaceInv
  <2>3. CASE PauseByRecompute(r)
    BY <2>1, <2>2, <2>3
    DEF PauseByRecompute, Discard, FreeTable, RunInv, Live, CountInv, TypeOK
  <2>4. CASE PauseBySwap(r)
    BY <2>1, <2>2, <2>4 DEF PauseBySwap, RunInv, Live, CountInv, TypeOK
  <2>5. CASE UNCHANGED <<waiting, mode, status, data, memory>>
    BY <2>1, <2>5 DEF memory, RunInv, Live
  <2> QED
    BY <1>2, <2>1, <2>3, <2>4, <2>5 DEF Demote
<1>3. ASSUME StartPass1 PROVE RunInv' /\ pc' = "pass1"
  <2>1. /\ pc = "pause" /\ pc' = "pass1" /\ targets' = running /\ running' = {}
        /\ delayed = {} /\ scheduled = {} /\ cur = 0 /\ sampled = {}
        /\ UNCHANGED <<tables, mode, status, delayed, scheduled, sampled, cur>>
    BY <1>3 DEF StartPass1, memory, evicting, TableInv, PhaseInv
  <2>2. Handled' = running
    BY <2>1 DEF Handled
  <2> QED
    BY <2>1, <2>2 DEF RunInv, TableInv, LiveInv
<1> QED
  BY <1>1, <1>2, <1>3 DEF PausePhase

\* Where the requests are that a pass evicts
LEMMA VictimPlace ==
    ASSUME CountInv, TableInv, NEW v \in Reqs, IsVictim(v)
    PROVE  /\ v \in victims \cup delayed \cup targets \cup {cur}
           /\ v \notin scheduled
           /\ pc \in {"pass1", "pass2"} /\ cur # 0 /\ cur \in Reqs
           /\ pc = "pass2" => v \in victims
<1>1. /\ v \in LastVictims
      /\ pc \in {"pass1", "pass2"} /\ cur # 0 /\ cur \in Reqs
  BY DEF IsVictim, Evicting, InLoop, CountInv, TypeOK
<1>2. LastVictims \subseteq VictimList
  BY DEF LastVictims, Youngest
<1>3. v \in VictimList
  BY <1>1, <1>2
<1>4. v \in victims \cup delayed \cup targets \cup {cur}
  BY <1>3 DEF VictimList
<1>5. pc = "pass2" => v \in victims
  BY <1>3 DEF VictimList, SelfPreempt
<1>6. v \in victims => v \notin scheduled
  BY DEF TableInv, VictimInv, PlaceInv, Handled
<1>7. v \in delayed \cup targets \cup {cur} => v \notin scheduled
  BY <1>1 DEF TableInv, PlaceInv
<1> QED
  BY <1>1, <1>4, <1>5, <1>6, <1>7

\* Both passes, as long as nothing scheduled is discarded
LEMMA RunPassPhase ==
    ASSUME CountInv, TableInv, RunInv, PassPhase, ~ScheduledDiscarded
    PROVE  RunInv'
<1>1. sampled = {} /\ sampled' = {}
  BY DEF PassPhase, Ignore, SequenceLimit, BatchLimit, Schedule, GiveUp, StartEviction,
         Evict, DiscardSwapped, DelayCur, ScheduleCur, FinishPass1, FinishPass2, IsNext,
         Eligible, IsVictim, Evicting, InLoop, PassOver, pass, TableInv, PhaseInv
\* Nothing is given back and nothing is handed over: the request stays held.
<1>2. ASSUME NEW r \in Reqs, Ignore(r) \/ SequenceLimit(r) \/ BatchLimit(r) \/ GiveUp(r)
                             \/ StartEviction(r)
      PROVE  RunInv'
  <2>1. /\ UNCHANGED <<tables, running, mode, scheduled>>
        /\ \A s \in Reqs : s # r => status'[s] = status[s]
        /\ status'[r] \in {status[r], "FINISHED_IGNORED"}
    BY <1>2 DEF Ignore, SequenceLimit, BatchLimit, GiveUp, StartEviction, memory, queues,
                CountInv, TypeOK
  <2>2. Handled' \subseteq Handled
    BY <1>2 DEF Ignore, SequenceLimit, BatchLimit, GiveUp, StartEviction, evicting, IsNext,
                Eligible, Handled
  <2>3. /\ pc \in {"pass1", "pass2"}
        /\ pc = "pass2" => pc' \in {"pass2", "after2"}
        /\ pc' # "crashed"
    BY <1>2 DEF Ignore, SequenceLimit, BatchLimit, GiveUp, StartEviction, IsNext,
                Eligible, Stop
  <2>4. \A s \in Reqs : Live(s)' => Live(s)
    BY <2>1 DEF Live, Finished
  <2> QED
    BY <1>1, <2>1, <2>2, <2>3, <2>4 DEF RunInv
<1>3. ASSUME NEW r \in Reqs, NEW w, Allocate(r, w), r \in Handled,
             UNCHANGED <<running, mode, pc>>,
             Handled' = Handled, pc \in {"pass1", "pass2"}, Live(r)
      PROVE  RunInv'
  <2>1. /\ tables' = tables \cup {r} /\ scheduled' = scheduled \cup {r}
        /\ status' = [status EXCEPT ![r] = "RUNNING"]
    BY <1>3 DEF Allocate
  <2> QED
    BY <1>1, <1>3, <2>1 DEF RunInv, Live, Finished, CountInv, TypeOK
<1>4. ASSUME NEW r \in Reqs, Schedule(r) PROVE RunInv'
  <2>1. /\ Allocate(r, Workload(r)) /\ r \in targets /\ cur = 0 /\ cur' = 0
        /\ targets' = targets \ {r} /\ scheduled' = scheduled \cup {r}
        /\ pc \in {"pass1", "pass2"} /\ UNCHANGED <<running, mode, pc, delayed>>
    BY <1>4 DEF Schedule, Eligible, IsNext, evicting, Allocate
  <2>2. Handled' = Handled /\ r \in Handled
    BY <2>1 DEF Handled
  <2>3. Live(r)
    BY <2>2 DEF TableInv, LiveInv
  <2> QED
    BY <2>1, <2>2, <2>3, <1>3
<1>5. ASSUME ScheduleCur PROVE RunInv'
  <2>1. /\ Allocate(cur, work[cur]) /\ cur # 0 /\ cur \in Reqs /\ cur' = 0
        /\ scheduled' = scheduled \cup {cur}
        /\ pc \in {"pass1", "pass2"} /\ UNCHANGED <<running, mode, pc, delayed, targets>>
    BY <1>5 DEF ScheduleCur, InLoop, Allocate, CountInv, TypeOK
  <2>2. Handled' = Handled /\ cur \in Handled
    BY <2>1 DEF Handled
  <2>3. Live(cur)
    BY <2>1, <2>2 DEF TableInv, LiveInv
  <2> QED
    BY <2>1, <2>2, <2>3, <1>3
<1>6. ASSUME NEW v \in Reqs, Evict(v) PROVE RunInv'
  <2>1. IsVictim(v) /\ UNCHANGED <<running, scheduled>>
    BY <1>6 DEF Evict
  <2>2. /\ v \in victims \cup delayed \cup targets \cup {cur} /\ v \notin scheduled
        /\ pc \in {"pass1", "pass2"} /\ cur \in Reqs /\ cur # 0
        /\ pc = "pass2" => v \in victims
    BY <2>1, VictimPlace
  <2>3. /\ Handled' = (targets \cup delayed \cup {cur} \cup scheduled) \ {v}
        /\ pc' \in {pc, "crashed"}
    BY <1>6, <2>2, ReqsFacts DEF Evict, Handled
  <2>4. v \notin running
    BY <2>2 DEF TableInv, VictimInv, PlaceInv, PhaseInv
  <2>5. CASE gpu[v] > 0
    <3>1. DiscardVictim(v)
      BY <1>6, <2>5 DEF Evict
    <3> QED
      BY <3>1, TablesAfterDiscard, <1>1, <2>1, <2>2, <2>3, <2>4 DEF RunInv, Live, Handled
  <2>6. CASE ~(gpu[v] > 0)
    <3>1. UNCHANGED <<mode, status, tables>>
      BY <1>6, <2>6 DEF Evict, memory
    <3> QED
      BY <3>1, <1>1, <2>1, <2>2, <2>3, <2>4 DEF RunInv, Live, Handled
  <2> QED
    BY <2>5, <2>6
<1>7. ASSUME NEW v \in Reqs, NEW d \in Reqs, DiscardSwapped(v, d) PROVE RunInv'
  <2>1. /\ IsVictim(v) /\ DiscardVictim(d) /\ d \in DiscardList
        /\ UNCHANGED <<running, scheduled, targets, delayed, cur, pc>>
    BY <1>7 DEF DiscardSwapped, pass
  <2>2. d \notin scheduled
    BY <1>7 DEF ScheduledDiscarded
  <2>3. pc \in {"pass1", "pass2"}
    BY <2>1, VictimPlace
  <2>4. mode[d] = "SWAP" \/ d \in swapped
    BY <2>1 DEF DiscardList
  <2>5. d \notin running
    BY <2>3, <2>4 DEF TableInv, PlaceInv
  <2>6. pc = "pass1" => d \notin Handled
    BY <2>3, <2>4 DEF TableInv, PlaceInv, PhaseInv
  <2>7. Handled' = Handled
    BY <2>1 DEF Handled
  <2> QED
    BY <2>1, <2>2, <2>3, <2>5, <2>6, <2>7, <1>1, TablesAfterDiscard DEF RunInv, Live
<1>8. ASSUME DelayCur PROVE RunInv'
  <2>1. /\ UNCHANGED <<running, scheduled, tables, mode, status, targets, pc>>
        /\ delayed' = delayed \cup {cur} /\ cur' = 0 /\ cur # 0
    BY <1>8 DEF DelayCur, memory, queues, Evicting, InLoop
  <2>2. Handled' = Handled
    BY <2>1 DEF Handled
  <2> QED
    BY <1>1, <2>1, <2>2 DEF RunInv, Live
<1>9. ASSUME FinishPass1 PROVE RunInv'
  <2>1. /\ UNCHANGED <<scheduled, tables, mode, status>> /\ pc' = "pass2"
        /\ pc \in {"pass1", "after1"}
        /\ running' = targets \cup scheduled \cup delayed
    BY <1>9 DEF FinishPass1, memory, PassOver
  <2>2. \A r \in Reqs : r \in running' => r \in tables
    BY <2>1 DEF RunInv, Handled
  <2> QED
    BY <1>1, <2>1, <2>2 DEF RunInv
<1>10. ASSUME FinishPass2 PROVE RunInv'
  <2>1. /\ UNCHANGED <<scheduled, tables, mode, status>>
        /\ pc \in {"pass2", "after2"} /\ pc' \in {"crashed", "idle", "execute"}
        /\ running' = running \cup scheduled
    BY <1>10 DEF FinishPass2, memory, PassOver
  <2> QED
    BY <1>1, <2>1 DEF RunInv, Live
<1> QED
  BY <1>2, <1>4, <1>5, <1>6, <1>7, <1>8, <1>9, <1>10 DEF PassPhase

\* The outputs of the batch are handled one by one.
LEMMA RunOutputPhase ==
    ASSUME CountInv, TableInv, RunInv, OutputPhase
    PROVE  RunInv'
<1>1. ASSUME PostForward PROVE RunInv'
  <2>1. /\ UNCHANGED <<running, tables, mode, status>>
        /\ scheduled' = {} /\ sampled' \subseteq scheduled /\ pc = "execute" /\ pc' = "process"
    BY <1>1 DEF PostForward, memory, queues
  <2> QED
    BY <2>1 DEF RunInv, Live
<1>2. ASSUME NEW r \in Reqs, AppendToken(r),
             tables' = tables \/ (tables' = tables \ {r} /\ ~Live(r)'),
             mode' = mode \/ (mode' = [mode EXCEPT ![r] = "PRESERVE"] /\ tables' = tables),
             \A s \in Reqs \ {r} : status'[s] = status[s],
             Live(r)
      PROVE  RunInv'
  <2>1. /\ UNCHANGED <<running, scheduled, pc>> /\ pc = "process"
        /\ r \in sampled /\ sampled' = sampled \ {r}
    BY <1>2 DEF AppendToken
  <2>2. scheduled = {} /\ r \in tables /\ mode[r] = "none"
    BY <2>1 DEF RunInv, TableInv, PhaseInv, SampledInv
  <2> QED
    BY <1>2, <2>1, <2>2 DEF RunInv, Live, CountInv, TypeOK
<1>3. ASSUME NEW r \in Reqs, CallApi(r) \/ StopRequest(r) \/ Continue(r) PROVE RunInv'
  <2>1. AppendToken(r) /\ Live(r)
    BY <1>3 DEF CallApi, StopRequest, Continue, AppendToken, TableInv, SampledInv
  <2>2. tables' = tables \/ (tables' = tables \ {r} /\ ~Live(r)')
    BY <1>3 DEF CallApi, StopRequest, Continue, FreeTable, memory, Live, Finished,
                CountInv, TypeOK
  <2>3. mode' = mode \/ (mode' = [mode EXCEPT ![r] = "PRESERVE"] /\ tables' = tables)
    BY <1>3 DEF CallApi, StopRequest, Continue, memory
  <2>4. \A s \in Reqs \ {r} : status'[s] = status[s]
    BY <1>3 DEF CallApi, StopRequest, Continue, CountInv, TypeOK
  <2> QED
    BY <2>1, <2>2, <2>3, <2>4, <1>2
<1>4. ASSUME FinishStep PROVE RunInv'
  BY <1>4 DEF FinishStep, memory, pass, RunInv, Live, TableInv, PhaseInv
<1> QED
  BY <1>1, <1>3, <1>4 DEF OutputPhase

\* Every step keeps the tables of what is scheduled.
LEMMA RunNext ==
    ASSUME CountInv, TableInv, RunInv, [Next]_vars, [~ScheduledDiscarded]_vars
    PROVE  RunInv'
<1>1. CASE UNCHANGED vars
  BY <1>1 DEF vars, requests, data, memory, queues, pass, evicting, RunInv, Handled, Live
<1>2. CASE ~ScheduledDiscarded /\ Next
  BY <1>2, RunClient, RunPausePhase, RunPassPhase, RunOutputPhase DEF Next, Step
<1> QED
  BY <1>1, <1>2

-----------------------------------------------------------------------------
(* The refinement.                                                         *)

\* A request that is discarded gives all its blocks back.
LEMMA DiscardReleases ==
    ASSUME NEW r \in Reqs, Discard(r) \/ FreeTable(r)
    PROVE  Protocol!Released(r)
BY DEF Discard, FreeTable, Protocol!Released

\* A request that is allocated is on the GPU with all it had.
LEMMA AllocateSchedules ==
    ASSUME CountInv, TableInv, NEW r \in Reqs, NEW w \in [swap : Nat, tokens : Nat],
           r \in Handled, r \notin scheduled, w.swap = swapLen[r], Allocate(r, w),
           pc \in {"pass1", "pass2"}, pc' = pc
    PROVE  Protocol!Schedule(r)
<1>1. Live(r)
  BY DEF TableInv, LiveInv
<1>2. cpu[r] = swapLen[r] /\ gpu[r] \in Nat /\ cpu[r] \in Nat
  BY <1>1 DEF TableInv, TableMatchesData, CountInv, TypeOK
<1>3. Smaller(w.swap, cpu[r]) = cpu[r]
  BY <1>2 DEF Smaller
<1>4. InflightBlocks(r, w.tokens) \in Nat
  BY InflightBlocksNat
<1>5. /\ gpu' = [gpu EXCEPT ![r] = @ + cpu[r] + InflightBlocks(r, w.tokens)]
      /\ cpu' = [cpu EXCEPT ![r] = @ - cpu[r]]
      /\ scheduled' = scheduled \cup {r}
  BY <1>3 DEF Allocate
<1>6. gpu \in [Reqs -> Nat] /\ cpu \in [Reqs -> Nat]
  BY DEF CountInv, TypeOK
<1>7. gpu'[r] = gpu[r] + cpu[r] + InflightBlocks(r, w.tokens)
  BY <1>5, <1>6
<1> HIDE DEF InflightBlocks
<1>8. gpu'[r] >= gpu[r] + cpu[r]
  BY <1>2, <1>4, <1>7
<1>9. gpu' = [gpu EXCEPT ![r] = gpu'[r]] /\ cpu' = [cpu EXCEPT ![r] = 0]
  <2>1. cpu[r] - cpu[r] = 0
    BY <1>2
  <2>2. cpu' = [cpu EXCEPT ![r] = 0]
    BY <1>5, <2>1
  <2>3. gpu' = [gpu EXCEPT ![r] = gpu'[r]]
    BY <1>5, <1>7
  <2> QED
    BY <2>2, <2>3
<1>10. CachePhase = "fill" /\ CachePhase' = "fill"
  BY DEF CachePhase
<1> QED
  BY <1>5, <1>8, <1>9, <1>10 DEF Protocol!Schedule

\* The beginning of schedule() opens a step of the protocol.
LEMMA ProtocolPausePhase ==
    ASSUME CountInv, TableInv, RunInv, PausePhase
    PROVE  [Protocol!Next]_(Protocol!protocolVars)
<1>1. ASSUME StartSchedule PROVE Protocol!Begin
  <2>1. pc = "idle" /\ pc' \in {"pause", "crashed"} /\ UNCHANGED scheduled
    BY <1>1 DEF StartSchedule
  <2>2. CachePhase = "idle" /\ CachePhase' = "evict"
    BY <1>1, <2>1, RunPausePhase DEF CachePhase, PausePhase
  <2>3. UNCHANGED <<gpu, cpu>> \/ \E r \in Reqs : Protocol!Released(r)
    <3>1. ASSUME NEW r \in swapped, PreemptByRecompute(r)
          PROVE  \E s \in Reqs : Protocol!Released(s)
      BY <3>1, DiscardReleases DEF PreemptByRecompute, CountInv, TypeOK
    <3> QED
      BY <1>1, <3>1 DEF StartSchedule, ActiveDiscard, memory
  <2> QED
    BY <2>1, <2>2, <2>3 DEF Protocol!Begin
<1>2. ASSUME NEW r \in Reqs, Demote(r)
      PROVE  \/ Protocol!SwapOut(r) \/ Protocol!Discard(r)
             \/ UNCHANGED Protocol!protocolVars
  <2>1. /\ pc = "pause" /\ pc' = "pause" /\ r \in demoted /\ UNCHANGED scheduled
    BY <1>2 DEF Demote
  <2>2. CachePhase = "evict" /\ CachePhase' = "evict"
    BY <2>1 DEF CachePhase
  <2>3. cpu[r] = 0 /\ gpu[r] > 0 /\ gpu[r] \in Nat /\ cpu[r] \in Nat
    BY <2>1 DEF TableInv, VictimInv, ModeMatchesBlocks, Paused, CountInv, TypeOK
  <2>4. CASE PauseByRecompute(r)
    BY <2>1, <2>2, <2>3, <2>4, DiscardReleases DEF PauseByRecompute, Protocol!Discard
  <2>5. CASE PauseBySwap(r)
    <3>1. gpu' = [gpu EXCEPT ![r] = 0] /\ cpu' = [cpu EXCEPT ![r] = @ + gpu[r]]
      BY <2>5 DEF PauseBySwap
    <3>2. cpu' = [cpu EXCEPT ![r] = gpu[r]]
      <4>1. cpu[r] + gpu[r] = gpu[r]
        BY <2>3
      <4> QED
        BY <3>1, <4>1
    <3> QED
      BY <2>1, <2>2, <2>3, <3>1, <3>2 DEF Protocol!SwapOut
  <2>6. CASE UNCHANGED <<waiting, mode, status, data, memory>>
    BY <2>1, <2>2, <2>6 DEF memory, Protocol!protocolVars
  <2> QED
    BY <1>2, <2>4, <2>5, <2>6 DEF Demote
<1>3. ASSUME StartPass1 PROVE Protocol!StartPasses
  BY <1>3 DEF StartPass1, memory, CachePhase, Protocol!StartPasses
<1> QED
  BY <1>1, <1>2, <1>3 DEF PausePhase, Protocol!Next

\* The passes allocate, swap and discard as the protocol allows.
LEMMA ProtocolPassPhase ==
    ASSUME CountInv, TableInv, PassPhase, ~ScheduledDiscarded
    PROVE  [Protocol!Next]_(Protocol!protocolVars)
<1>1. ASSUME NEW r \in Reqs, Ignore(r) \/ SequenceLimit(r) \/ BatchLimit(r) \/ GiveUp(r)
                             \/ StartEviction(r)
      PROVE  UNCHANGED Protocol!protocolVars
  <2>1. UNCHANGED <<gpu, cpu, scheduled>>
    BY <1>1 DEF Ignore, SequenceLimit, BatchLimit, GiveUp, StartEviction, memory
  <2>2. pc \in {"pass1", "pass2"} /\ pc' \in {"pass1", "pass2", "after1", "after2"}
    BY <1>1 DEF Ignore, SequenceLimit, BatchLimit, GiveUp, StartEviction, IsNext,
                Eligible, Stop
  <2>3. CachePhase' = CachePhase
    BY <2>2 DEF CachePhase
  <2> QED
    BY <2>1, <2>3 DEF Protocol!protocolVars
<1>2. ASSUME NEW r \in Reqs, Schedule(r) PROVE Protocol!Schedule(r)
  <2>1. /\ Allocate(r, Workload(r)) /\ r \in targets
        /\ pc \in {"pass1", "pass2"} /\ pc' = pc
    BY <1>2 DEF Schedule, Eligible, IsNext
  <2>2. Workload(r) \in [swap : Nat, tokens : Nat] /\ Workload(r).swap = swapLen[r]
    BY WorkloadFacts DEF Workload, CountInv, TypeOK
  <2>3. r \in Handled /\ r \notin scheduled
    BY <2>1 DEF Handled, TableInv, PlaceInv
  <2> QED
    BY <2>1, <2>2, <2>3, AllocateSchedules
<1>3. ASSUME ScheduleCur PROVE \E r \in Reqs : Protocol!Schedule(r)
  <2>1. /\ Allocate(cur, work[cur]) /\ cur # 0 /\ cur \in Reqs
        /\ pc \in {"pass1", "pass2"} /\ pc' = pc
    BY <1>3 DEF ScheduleCur, InLoop, CountInv, TypeOK
  <2>2. work[cur] \in [swap : Nat, tokens : Nat] /\ work[cur].swap = swapLen[cur]
    BY <2>1 DEF TableInv, WorkInv, CountInv, TypeOK
  <2>3. cur \in Handled /\ cur \notin scheduled
    BY <2>1 DEF Handled, TableInv, PlaceInv
  <2> QED
    BY <2>1, <2>2, <2>3, AllocateSchedules
<1>4. ASSUME NEW v \in Reqs, Evict(v)
      PROVE  Protocol!Discard(v) \/ UNCHANGED Protocol!protocolVars
  <2>1. IsVictim(v) /\ UNCHANGED scheduled /\ pc' \in {pc, "crashed"}
    BY <1>4 DEF Evict
  <2>2. v \notin scheduled /\ pc \in {"pass1", "pass2"}
    BY <2>1, VictimPlace
  <2>3. CachePhase = "fill" /\ CachePhase' = "fill"
    BY <2>1, <2>2 DEF CachePhase
  <2>4. CASE gpu[v] > 0
    <3>1. Discard(v)
      BY <1>4, <2>4, DiscardVictimTypes DEF Evict
    <3> QED
      BY <2>1, <2>2, <2>3, <3>1, DiscardReleases DEF Protocol!Discard
  <2>5. CASE ~(gpu[v] > 0)
    BY <1>4, <2>1, <2>3, <2>5 DEF Evict, memory, Protocol!protocolVars
  <2> QED
    BY <2>4, <2>5
<1>5. ASSUME NEW v \in Reqs, NEW d \in Reqs, DiscardSwapped(v, d)
      PROVE  Protocol!Discard(d)
  <2>1. IsVictim(v) /\ UNCHANGED <<scheduled, pc>> /\ d \notin scheduled
    BY <1>5 DEF DiscardSwapped, pass, ScheduledDiscarded
  <2>2. pc \in {"pass1", "pass2"}
    BY <2>1, VictimPlace
  <2>3. CachePhase = "fill" /\ CachePhase' = "fill"
    BY <2>1, <2>2 DEF CachePhase
  <2>4. Discard(d)
    BY <1>5, DiscardVictimTypes DEF DiscardSwapped
  <2> QED
    BY <2>1, <2>3, <2>4, DiscardReleases DEF Protocol!Discard
<1>6. ASSUME DelayCur \/ FinishPass1 PROVE UNCHANGED Protocol!protocolVars
  BY <1>6 DEF DelayCur, FinishPass1, Evicting, InLoop, PassOver, memory, CachePhase,
              Protocol!protocolVars
<1>7. ASSUME FinishPass2 PROVE Protocol!Execute \/ UNCHANGED Protocol!protocolVars
  <2>1. /\ UNCHANGED <<gpu, cpu, scheduled>> /\ pc \in {"pass2", "after2"}
        /\ pc' \in {"crashed", "idle", "execute"} /\ (pc' = "idle" => scheduled = {})
    BY <1>7 DEF FinishPass2, memory, PassOver
  <2>2. CASE pc' = "idle"
    BY <2>1, <2>2 DEF CachePhase, Protocol!Execute
  <2>3. CASE pc' # "idle"
    BY <2>1, <2>3 DEF CachePhase, Protocol!protocolVars
  <2> QED
    BY <2>2, <2>3
<1> QED
  BY <1>1, <1>2, <1>3, <1>4, <1>5, <1>6, <1>7 DEF PassPhase, Protocol!Next

\* Outside of schedule() only free is called.
LEMMA ProtocolOthers ==
    ASSUME CountInv, TableInv, Client \/ OutputPhase
    PROVE  [Protocol!Next]_(Protocol!protocolVars)
<1>1. ASSUME NEW r \in Reqs, AbortRequest(r)
      PROVE  Protocol!Release(r) \/ UNCHANGED Protocol!protocolVars
  <2>1. pc = "idle" /\ UNCHANGED <<pc, scheduled>>
    BY <1>1 DEF AbortRequest, pass
  <2>2. FreeTable(r) \/ UNCHANGED memory
    BY <1>1 DEF AbortRequest
  <2> QED
    BY <2>1, <2>2, DiscardReleases
    DEF CachePhase, memory, Protocol!Release, Protocol!protocolVars
<1>2. ASSUME NEW r \in Reqs,
             \/ AddRequest(r) \/ CallApi(r) \/ Continue(r)
             \/ \E n \in ApiRets, single \in BOOLEAN : ResumeRequest(r, n, single)
      PROVE  UNCHANGED Protocol!protocolVars
  BY <1>2 DEF AddRequest, CallApi, Continue, AppendToken, ResumeRequest, memory, pass,
              CachePhase, Protocol!protocolVars
<1>3. ASSUME NEW r \in Reqs, StopRequest(r) PROVE Protocol!Release(r)
  <2>1. pc = "process" /\ UNCHANGED <<pc, scheduled>> /\ FreeTable(r)
    BY <1>3 DEF StopRequest, AppendToken
  <2> QED
    BY <2>1, DiscardReleases DEF CachePhase, Protocol!Release
<1>4. ASSUME PostForward PROVE Protocol!Execute
  BY <1>4 DEF PostForward, memory, CachePhase, Protocol!Execute
<1>5. ASSUME FinishStep PROVE UNCHANGED Protocol!protocolVars
  BY <1>5 DEF FinishStep, memory, pass, CachePhase, Protocol!protocolVars
<1> QED
  BY <1>1, <1>2, <1>3, <1>4, <1>5 DEF Client, OutputPhase, Protocol!Next

\* Every step is a step of CacheProtocol, or none.
LEMMA ProtocolStep ==
    ASSUME CountInv, TableInv, RunInv, [Next]_vars, [~ScheduledDiscarded]_vars
    PROVE  [Protocol!Next]_(Protocol!protocolVars)
<1>1. CASE UNCHANGED vars
  BY <1>1 DEF vars, memory, pass, CachePhase, Protocol!protocolVars
<1>2. CASE ~ScheduledDiscarded /\ Next
  BY <1>2, ProtocolPausePhase, ProtocolPassPhase, ProtocolOthers DEF Next, Step
<1> QED
  BY <1>1, <1>2

\* As long as no request is discarded that the same step has scheduled, the
\* calls of schedule() to the block manager come in the order that the copies
\* of the worker need: FollowsProtocol, which SchedLive checks.
THEOREM ProtocolKept ==
    Spec /\ [][~ScheduledDiscarded]_vars => FollowsProtocol
<1>1. Init => RunInv /\ Protocol!Init
  BY RunInit DEF Init, CachePhase, Protocol!Init
<1>2. (CountInv /\ TableInv) /\ RunInv /\ [Next]_vars /\ [~ScheduledDiscarded]_vars => RunInv'
  BY RunNext
<1>3. (CountInv /\ TableInv) /\ RunInv /\ [Next]_vars /\ [~ScheduledDiscarded]_vars
        => [Protocol!Next]_(Protocol!protocolVars)
  BY ProtocolStep
<1> QED
  BY <1>1, <1>2, <1>3, TableInvariant, PTL DEF Spec, FollowsProtocol, Protocol!Spec

\* Under the same condition every running request has a block table when
\* schedule() starts: get_seq_blocks_by_device over self.running raises no
\* KeyError.
THEOREM RunningHaveTables ==
    Spec /\ [][~ScheduledDiscarded]_vars
        => [](pc = "idle" => \A r \in Reqs : r \in running => r \in tables)
<1>1. CountInv /\ TableInv /\ RunInv
        => (pc = "idle" => \A r \in Reqs : r \in running => r \in tables)
  BY DEF RunInv, TableInv, LiveInv
<1>2. Init => RunInv
  BY RunInit
<1>3. (CountInv /\ TableInv) /\ RunInv /\ [Next]_vars /\ [~ScheduledDiscarded]_vars => RunInv'
  BY RunNext
<1> QED
  BY <1>1, <1>2, <1>3, TableInvariant, PTL DEF Spec

-----------------------------------------------------------------------------
(* The queues: who is where, and who is a victim.                          *)

\* A nonempty set of requests has a youngest one.
LEMMA YoungestExists ==
    ASSUME NEW S \in SUBSET Reqs, S # {}
    PROVE  Youngest(S) # {}
<1> DEFINE Above(r) == {s \in S : s > r}
           Uppers == {Above(r) : r \in S}
<1>1. IsFiniteSet(S) /\ S \subseteq Nat
  BY ReqsFacts, FS_Subset
<1>2. Uppers \in SUBSET SUBSET S /\ Uppers # {}
  OBVIOUS
<1>3. PICK u \in Uppers : \A v \in Uppers : ~(v \subseteq u /\ v # u)
  <2>1. IsFiniteSet(S)
    BY <1>1
  <2> HIDE DEF Uppers
  <2> QED
    BY <2>1, <1>2, MinimalSubset
<1>4. PICK r \in S : u = Above(r)
  BY <1>3
<1>5. ASSUME NEW s \in S, s > r PROVE FALSE
  <2>1. Above(s) \in Uppers /\ s \in Above(r) /\ s \notin Above(s)
    BY <1>1, <1>5
  <2>2. Above(s) \subseteq Above(r)
    <3>1. \A t \in S : t > s => t > r
      BY <1>1, <1>5
    <3> QED
      BY <3>1
  <2> QED
    BY <1>3, <1>4, <2>1, <2>2
<1>6. \A s \in S : r >= s
  BY <1>1, <1>5
<1> QED
  BY <1>6 DEF Youngest

\* What a pass still has to decide on
Pending == targets \cup delayed \cup ({cur} \ {0})

\* What is in a queue has the status of that queue.
MemberInv == \A r \in Reqs :
    /\ status[r] = "PAUSED_API" <=> mode[r] # "none"
    /\ pc \notin {"pass2", "after2", "crashed"} =>
          /\ r \in waiting => status[r] = "WAITING"
          /\ r \in swapped => status[r] = "SWAPPED"
    /\ pc \in {"idle", "pause", "execute"} /\ r \in running => status[r] = "RUNNING"
    /\ pc \in {"pass1", "after1"} /\ r \in Handled => status[r] = "RUNNING"
    /\ pc \in {"pass2", "after2"} =>
          /\ r \in Pending =>
                 \/ status[r] = "WAITING" /\ r \in waiting \ swapped
                 \/ status[r] = "SWAPPED" /\ r \in swapped \ waiting
          /\ r \in waiting \cup swapped =>
                 status[r] \notin {"none", "FINISHED_STOPPED", "FINISHED_ABORTED"}
          /\ r \in running => status[r] = "RUNNING"
          /\ r \in scheduled =>
                 status[r] = "RUNNING" \/ (status[r] = "WAITING" /\ r \notin tables)
    /\ pc = "process" /\ r \in running => status[r] \notin {"WAITING", "SWAPPED"}

\* No request has arrived.
LEMMA MemberInit == Init => MemberInv
BY DEF Init, MemberInv, Pending, Handled

\* Clients put requests into queues and take them out.
LEMMA MemberClient ==
    ASSUME CountInv, TableInv, MemberInv, Client
    PROVE  MemberInv'
<1> USE DEF requests, data, memory, queues, pass, evicting
<1>1. ASSUME NEW r \in Reqs, AddRequest(r) PROVE MemberInv'
  <2>1. /\ status' = [status EXCEPT ![r] = "WAITING"] /\ status[r] = "none"
        /\ waiting' = waiting \cup {r} /\ pc = "idle"
        /\ UNCHANGED <<running, swapped, mode, pc>>
    BY <1>1 DEF AddRequest
  <2>2. r \notin running \cup swapped
    BY <2>1 DEF TableInv, LiveInv, Live
  <2> QED
    BY <2>1, <2>2 DEF MemberInv, CountInv, TypeOK
<1>2. ASSUME NEW r \in Reqs, AbortRequest(r) PROVE MemberInv'
  <2>1. CASE r \in waiting \cup running \cup swapped
    <3>1. /\ waiting' = waiting \ {r} /\ running' = running \ {r}
          /\ swapped' = swapped \ {r} /\ pc = "idle"
          /\ status' = [status EXCEPT ![r] = "FINISHED_ABORTED"]
          /\ UNCHANGED <<mode, pc>>
      BY <1>2, <2>1 DEF AbortRequest
    <3>2. mode[r] = "none"
      BY <2>1, <3>1 DEF TableInv, PlaceInv
    <3> QED
      BY <3>1, <3>2 DEF MemberInv, CountInv, TypeOK
  <2>2. CASE r \notin waiting \cup running \cup swapped
    BY <1>2, <2>2 DEF AbortRequest, MemberInv, Pending, Handled
  <2> QED
    BY <2>1, <2>2
<1>3. ASSUME NEW r \in Reqs, NEW n \in ApiRets, NEW single \in BOOLEAN,
             ResumeRequest(r, n, single)
      PROVE  MemberInv'
  <2>1. /\ pc \in {"idle", "execute"} /\ mode[r] # "none"
        /\ mode' = [mode EXCEPT ![r] = "none"] /\ UNCHANGED pc
    BY <1>3 DEF ResumeRequest
  <2>2. \E q \in {"RUNNING", "SWAPPED", "WAITING"} :
            /\ status' = [status EXCEPT ![r] = q]
            /\ running' = running \cup (IF q = "RUNNING" THEN {r} ELSE {})
            /\ swapped' = swapped \cup (IF q = "SWAPPED" THEN {r} ELSE {})
            /\ waiting' = waiting \cup (IF q = "WAITING" THEN {r} ELSE {})
    BY <1>3 DEF ResumeRequest
  <2>3. r \notin waiting \cup swapped \cup running
    BY <2>1 DEF TableInv, PlaceInv
  <2> QED
    BY <2>1, <2>2, <2>3 DEF MemberInv, CountInv, TypeOK
<1> QED
  BY <1>1, <1>2, <1>3 DEF Client

\* The beginning of schedule() moves swapped requests to the waiting.
LEMMA MemberPausePhase ==
    ASSUME CountInv, TableInv, MemberInv, PausePhase
    PROVE  MemberInv'
<1> USE DEF requests, data, memory, queues, pass, evicting
<1>1. CASE StartSchedule
  <2>1. /\ pc = "idle" /\ pc' \in {"pause", "crashed"}
        /\ UNCHANGED <<running, mode>>
    BY <1>1 DEF StartSchedule, ActiveDiscard, PreemptByRecompute
  <2>2. CASE waiting = {} /\ swapped # {}
    <3>1. PICK r \in swapped : PreemptByRecompute(r) /\ swapped' = swapped \ {r}
      BY <1>1, <2>2 DEF StartSchedule, ActiveDiscard
    <3>2. /\ r \in Reqs /\ mode[r] = "none" /\ r \notin running
          /\ waiting' = waiting \cup {r}
          /\ status' = [status EXCEPT ![r] = "WAITING"]
      BY <3>1 DEF PreemptByRecompute, TableInv, PlaceInv, CountInv, TypeOK
    <3> QED
      BY <2>1, <3>1, <3>2 DEF MemberInv, CountInv, TypeOK
  <2>3. CASE UNCHANGED <<waiting, swapped, mode, status, data, memory>>
    BY <2>1, <2>3 DEF MemberInv
  <2> QED
    BY <1>1, <2>2, <2>3 DEF StartSchedule, ActiveDiscard
<1>2. ASSUME NEW r \in Reqs, Demote(r) PROVE MemberInv'
  <2>1. /\ pc = "pause" /\ pc' = pc /\ mode[r] # "none" /\ mode'[r] # "none"
        /\ UNCHANGED <<waiting, running, swapped, status>>
        /\ \A s \in Reqs \ {r} : mode'[s] = mode[s]
    BY <1>2 DEF Demote, PauseByRecompute, PauseBySwap, TableInv, VictimInv, CountInv,
                TypeOK
  <2> QED
    BY <2>1 DEF MemberInv
<1>3. CASE StartPass1
  <2>1. /\ pc = "pause" /\ pc' = "pass1" /\ targets' = running /\ cur' = 0
        /\ delayed' = {} /\ scheduled' = {}
        /\ UNCHANGED <<waiting, swapped, mode, status>>
    BY <1>3 DEF StartPass1, TableInv, PhaseInv
  <2> QED
    BY <2>1 DEF MemberInv, Handled
<1> QED
  BY <1>1, <1>2, <1>3 DEF PausePhase

\* A target is ignored, delayed, scheduled or starts an eviction.
LEMMA MemberTargets ==
    ASSUME CountInv, TableInv, MemberInv, NEW r \in Reqs,
           \/ Ignore(r) \/ SequenceLimit(r) \/ BatchLimit(r)
           \/ Schedule(r) \/ GiveUp(r) \/ StartEviction(r)
    PROVE  MemberInv'
<1> USE DEF requests, data, memory, queues, pass, evicting
<1>1. /\ pc \in {"pass1", "pass2"} /\ cur = 0 /\ r \in targets
      /\ r \notin delayed \cup scheduled /\ mode[r] = "none"
      /\ targets' = targets \ {r}
      /\ pc = "pass1" => pc' \in {"pass1", "after1"}
      /\ pc = "pass2" => pc' \in {"pass2", "after2"}
      /\ UNCHANGED <<waiting, running, swapped, mode>>
      /\ pc = "pass1" => r \notin waiting \cup swapped
      /\ r \notin running
  BY DEF Ignore, SequenceLimit, BatchLimit, Schedule, GiveUp, StartEviction,
         Eligible, IsNext, Stop, TableInv, PlaceInv, PhaseInv, Handled
<1>2. CASE Ignore(r)
  BY <1>1, <1>2 DEF Ignore, MemberInv, Pending, Handled, CountInv, TypeOK
<1>3. CASE SequenceLimit(r) \/ BatchLimit(r) \/ GiveUp(r) \/ StartEviction(r)
  <2>1. /\ UNCHANGED <<status, scheduled, tables>>
        /\ Pending' \subseteq Pending
        /\ Handled' \subseteq Handled
    BY <1>1, <1>3 DEF SequenceLimit, BatchLimit, GiveUp, StartEviction, Pending, Handled
  <2> QED
    BY <1>1, <2>1 DEF MemberInv
<1>4. CASE Schedule(r)
  <2>1. /\ UNCHANGED <<delayed, cur, pc>> /\ tables \subseteq tables'
        /\ tables' \subseteq tables \cup {r}
        /\ status' = [status EXCEPT ![r] = "RUNNING"]
        /\ scheduled' = scheduled \cup {r}
    BY <1>4 DEF Schedule, Allocate
  <2> QED
    BY <1>1, <2>1 DEF MemberInv, Pending, Handled, CountInv, TypeOK
<1> QED
  BY <1>2, <1>3, <1>4

\* A swapped request starts over, to make room on the CPU.
LEMMA MemberDiscard ==
    ASSUME CountInv, TableInv, MemberInv, NEW v \in Reqs, NEW d \in Reqs,
           DiscardSwapped(v, d)
    PROVE  MemberInv'
<1> USE DEF requests, data, memory, queues, pass, evicting
<1>1. /\ pc \in {"pass1", "pass2"} /\ DiscardVictim(d)
      /\ d \in swapped \/ mode[d] = "SWAP"
      /\ swapped' = swapped \ {d}
      /\ UNCHANGED <<running, pass, cur, pc>>
  BY DEF DiscardSwapped, IsVictim, Evicting, InLoop, DiscardList
<1>2. tables' = tables \ {d}
  BY <1>1, TablesAfterDiscard
<1>3. CASE mode[d] # "none"
  <2>1. /\ mode' = [mode EXCEPT ![d] = "RECOMPUTE"]
        /\ d \notin swapped /\ UNCHANGED <<waiting, status>>
    BY <1>1, <1>3 DEF DiscardVictim, PauseByRecompute, TableInv, PlaceInv
  <2> QED
    BY <1>1, <1>2, <1>3, <2>1 DEF MemberInv, Pending, Handled, CountInv, TypeOK
<1>4. CASE mode[d] = "none"
  <2>1. /\ status' = [status EXCEPT ![d] = "WAITING"] /\ d \in swapped
        /\ waiting' = waiting \cup {d} /\ UNCHANGED mode
        /\ d \notin running
        /\ pc = "pass1" => d \notin Handled
    BY <1>1, <1>4 DEF DiscardVictim, PreemptByRecompute, TableInv, PlaceInv, PhaseInv
  <2> QED
    BY <1>1, <1>2, <1>4, <2>1 DEF MemberInv, Pending, Handled, CountInv, TypeOK
<1> QED
  BY <1>3, <1>4

\* What an eviction does to the queues
LEMMA EvictQueues ==
    ASSUME CountInv, TableInv, NEW v \in Reqs, Evict(v)
    PROVE  /\ pc \in {"pass1", "pass2"} /\ cur # 0 /\ cur \in Reqs
           /\ pc' = IF gpu[v] = 0 /\ v # cur THEN "crashed" ELSE pc
           /\ victims' = victims \ {v}
           /\ Pending' = Pending \ {v}
           /\ UNCHANGED <<running, swapped, scheduled, sampled, len, batchLeft>>
           /\ v \notin scheduled \cup running \cup waiting \cup swapped
           /\ \/ /\ v \in victims /\ v \notin Handled
                 /\ mode[v] # "none" /\ mode'[v] # "none"
                 /\ UNCHANGED <<waiting, status>>
              \/ /\ victims = {} /\ pc = "pass1" /\ v \in Pending /\ mode[v] = "none"
                 /\ UNCHANGED mode
                 /\ gpu[v] > 0 => /\ waiting' = waiting \cup {v}
                                  /\ status' = [status EXCEPT ![v] = "WAITING"]
                 /\ gpu[v] = 0 => UNCHANGED <<waiting, status>>
           /\ \A r \in Reqs \ {v} : mode'[r] = mode[r] /\ status'[r] = status[r]
           /\ gpu[v] > 0 => DiscardVictim(v)
           /\ gpu[v] = 0 => UNCHANGED <<data, memory>>
<1> USE DEF requests, data, memory, queues, pass, evicting
<1>1. IsVictim(v) /\ gpu[v] \in Nat
  BY DEF Evict, CountInv, TypeOK
<1>2. /\ v \notin scheduled
      /\ pc \in {"pass1", "pass2"} /\ cur # 0 /\ cur \in Reqs
      /\ pc = "pass2" => v \in victims
  BY <1>1, VictimPlace
<1>3. /\ victims' = victims \ {v}
      /\ pc' = IF gpu[v] = 0 /\ v # cur THEN "crashed" ELSE pc
      /\ UNCHANGED <<running, swapped, scheduled, sampled, len, batchLeft>>
      /\ gpu[v] > 0 => DiscardVictim(v)
      /\ gpu[v] = 0 => UNCHANGED <<waiting, mode, status, data, memory>>
  BY <1>1 DEF Evict
<1>4. Pending' = Pending \ {v}
  BY <1>2, ReqsFacts DEF Evict, Pending
<1>5. \A r \in Reqs \ {v} : mode'[r] = mode[r] /\ status'[r] = status[r]
  BY <1>1, <1>3, TablesAfterDiscard
<1>6. CASE v \in victims
  <2>1. mode[v] = "PRESERVE"
    BY <1>6 DEF TableInv, VictimInv
  <2>2. v \notin Handled \cup waiting \cup swapped \cup running
    BY <1>2, <2>1 DEF TableInv, PlaceInv
  <2>3. mode'[v] # "none" /\ UNCHANGED <<waiting, status>>
    BY <1>1, <1>3, <2>1 DEF DiscardVictim, PauseByRecompute, CountInv, TypeOK
  <2> QED
    BY <1>2, <1>3, <1>4, <1>5, <1>6, <2>1, <2>2, <2>3
<1>7. CASE v \notin victims
  <2>1. pc = "pass1" /\ v \in Pending /\ victims = {}
    BY <1>1, <1>2, <1>7, VictimPlace DEF Pending, IsVictim, LastVictims, VictimList
  <2>2. v \in Handled
    BY <2>1 DEF Pending, Handled
  <2>3. mode[v] = "none" /\ v \notin waiting \cup swapped \cup running
    BY <2>1, <2>2 DEF TableInv, PlaceInv, PhaseInv
  <2>4. /\ UNCHANGED mode
        /\ gpu[v] > 0 => /\ waiting' = waiting \cup {v}
                         /\ status' = [status EXCEPT ![v] = "WAITING"]
    BY <1>1, <1>3, <2>3 DEF DiscardVictim, PreemptByRecompute
  <2> QED
    BY <1>2, <1>3, <1>4, <1>5, <2>1, <2>3, <2>4
<1> QED
  BY <1>6, <1>7

\* A victim is preempted, or paused in another way.
LEMMA MemberEvict ==
    ASSUME CountInv, TableInv, MemberInv, NEW v \in Reqs, Evict(v)
    PROVE  MemberInv'
<1>1. gpu[v] \in Nat
  BY DEF CountInv, TypeOK
<1>2. pc' \in {pc, "crashed"} /\ pc \in {"pass1", "pass2"}
      /\ Handled = Pending \cup scheduled /\ Handled' = Pending' \cup scheduled'
  BY EvictQueues DEF Pending, Handled
<1>3. /\ tables' \subseteq tables
      /\ \A r \in Reqs \ {v} : status'[r] = status[r]
  <2>1. CASE gpu[v] > 0
    <3>1. DiscardVictim(v)
      BY <2>1, EvictQueues
    <3> QED
      BY <3>1, TablesAfterDiscard
  <2>2. CASE gpu[v] = 0
    BY <2>2, EvictQueues DEF memory
  <2> QED
    BY <1>1, <2>1, <2>2
<1> QED
  BY <1>1, <1>2, <1>3, EvictQueues DEF MemberInv, CountInv, TypeOK

\* The loop over a target ends, and so does a pass.
LEMMA MemberPassEnds ==
    ASSUME CountInv, TableInv, MemberInv,
           DelayCur \/ ScheduleCur \/ FinishPass1 \/ FinishPass2
    PROVE  MemberInv'
<1> USE DEF requests, data, memory, queues, pass, evicting
<1>1. CASE DelayCur
  <2>1. /\ UNCHANGED <<running, scheduled, tables, mode, status, waiting, swapped, pc>>
        /\ Pending' = Pending
    BY <1>1, ReqsFacts DEF DelayCur, Evicting, InLoop, Pending
  <2>2. Handled' = Handled
    BY <2>1 DEF Handled, Pending
  <2> QED
    BY <2>1, <2>2 DEF MemberInv
<1>2. CASE ScheduleCur
  <2>1. /\ pc \in {"pass1", "pass2"} /\ cur # 0 /\ cur \in Reqs /\ cur' = 0
        /\ tables' = tables \cup {cur}
        /\ UNCHANGED <<waiting, running, swapped, mode, targets, delayed, pc>>
        /\ status' = [status EXCEPT ![cur] = "RUNNING"]
        /\ scheduled' = scheduled \cup {cur}
    BY <1>2 DEF ScheduleCur, Allocate, InLoop, CountInv, TypeOK
  <2>2. /\ mode[cur] = "none" /\ cur \in Handled /\ cur \notin scheduled \cup targets \cup delayed
        /\ pc = "pass1" => cur \notin waiting \cup swapped
    BY <2>1 DEF TableInv, PlaceInv, PhaseInv, Handled
  <2> QED
    BY <2>1, <2>2 DEF MemberInv, Pending, Handled, CountInv, TypeOK
<1>3. CASE FinishPass1
  <2>1. /\ pc \in {"pass1", "after1"} /\ pc' = "pass2" /\ cur = 0 /\ cur' = 0
        /\ running' = targets \cup scheduled \cup delayed
        /\ targets' = swapped \cup waiting /\ delayed' = {}
        /\ UNCHANGED <<waiting, swapped, mode, status, scheduled>>
    BY <1>3 DEF FinishPass1, PassOver, CountInv, CurInv
  <2> QED
    BY <2>1 DEF MemberInv, Pending, Handled
<1>4. CASE FinishPass2
  <2>1. /\ pc \in {"pass2", "after2"} /\ cur = 0
        /\ pc' \in {"idle", "execute", "crashed"}
        /\ pc' # "crashed" => scheduled \subseteq tables
        /\ running' = running \cup scheduled
        /\ swapped' = swapped \cap (delayed \cup targets)
        /\ waiting' = waiting \cap (delayed \cup targets)
        /\ UNCHANGED <<mode, status>>
    BY <1>4 DEF FinishPass2, PassOver, CountInv, CurInv
  <2> QED
    BY <2>1 DEF MemberInv, Pending
<1> QED
  BY <1>1, <1>2, <1>3, <1>4

\* What pauses or finishes leaves the running.
LEMMA MemberOutputPhase ==
    ASSUME CountInv, TableInv, MemberInv, OutputPhase
    PROVE  MemberInv'
<1> USE DEF requests, data, memory, queues, pass, evicting
<1>1. CASE PostForward
  BY <1>1 DEF PostForward, MemberInv
<1>2. ASSUME NEW r \in Reqs, CallApi(r) \/ StopRequest(r) \/ Continue(r) PROVE MemberInv'
  <2>1. /\ pc = "process" /\ UNCHANGED <<waiting, running, swapped, pc>>
        /\ r \in sampled
    BY <1>2 DEF CallApi, StopRequest, Continue, AppendToken
  <2>2. mode[r] = "none" /\ r \notin waiting \cup swapped
    BY <2>1 DEF TableInv, SampledInv
  <2>3. \/ UNCHANGED <<status, mode>>
        \/ /\ status' = [status EXCEPT ![r] = "FINISHED_STOPPED"] /\ UNCHANGED mode
        \/ /\ status' = [status EXCEPT ![r] = "PAUSED_API"]
           /\ mode' = [mode EXCEPT ![r] = "PRESERVE"]
    BY <1>2 DEF CallApi, StopRequest, Continue
  <2> QED
    BY <2>1, <2>2, <2>3 DEF MemberInv, CountInv, TypeOK
<1>3. CASE FinishStep
  <2>1. \A r \in Reqs : r \in running => status[r] # "none"
    BY <1>3 DEF FinishStep, TableInv, LiveInv
  <2> QED
    BY <1>3, <2>1 DEF FinishStep, MemberInv, CountInv, TypeOK, Statuses
<1> QED
  BY <1>1, <1>2, <1>3 DEF OutputPhase

\* Every step keeps each request in the places its status allows.
LEMMA MemberNext ==
    ASSUME CountInv, TableInv, MemberInv, [Next]_vars
    PROVE  MemberInv'
<1>1. CASE UNCHANGED vars
  BY <1>1 DEF vars, requests, data, memory, queues, pass, evicting, MemberInv, Pending, Handled
<1>2. CASE PassPhase
  BY <1>2, MemberTargets, MemberDiscard, MemberEvict, MemberPassEnds DEF PassPhase
<1> QED
  BY <1>1, <1>2, MemberClient, MemberPausePhase, MemberOutputPhase DEF Next, Step

-----------------------------------------------------------------------------

\* Every unfinished request has something left to compute, and blocks to swap
\* in only while it is swapped or has just been scheduled.
WorkLeftInv == \A r \in Reqs :
    /\ status[r] \notin Finished /\ r \notin sampled => inflight[r] > 0
    /\ status[r] = "RUNNING" /\ r \notin scheduled => swapLen[r] = 0

\* Of a prompt every token is still to compute.
LEMMA WorkLeftInit == Init => WorkLeftInv
BY SizesAssumption DEF Init, WorkLeftInv, Finished

\* A request that is discarded has all its tokens to compute.
LEMMA DiscardLeavesWork ==
    ASSUME CountInv, TableInv, WorkLeftInv, NEW d \in Reqs, DiscardVictim(d),
           UNCHANGED <<len, scheduled, sampled>>
    PROVE  WorkLeftInv'
<1>1. Discard(d)
  BY DiscardVictimTypes
<1>2. len[d] > 0
  BY DEF TableInv, WorkInv
<1>3. \A r \in Reqs \ {d} : status'[r] = status[r]
  BY TablesAfterDiscard
<1> QED
  BY <1>1, <1>2, <1>3, DiscardData DEF WorkLeftInv

\* A resumed request has the new tokens to compute.
LEMMA WorkLeftClient ==
    ASSUME CountInv, TableInv, WorkLeftInv, Client
    PROVE  WorkLeftInv'
<1> USE DEF requests, data, memory, queues, pass, evicting
<1>1. ASSUME NEW r \in Reqs, AddRequest(r) \/ AbortRequest(r) PROVE WorkLeftInv'
  <2>1. /\ UNCHANGED <<inflight, swapLen, scheduled, sampled>>
        /\ \/ UNCHANGED status
           \/ status' = [status EXCEPT ![r] = "FINISHED_ABORTED"]
           \/ status' = [status EXCEPT ![r] = "WAITING"] /\ status[r] = "none"
    BY <1>1 DEF AddRequest, AbortRequest
  <2> QED
    BY <2>1 DEF WorkLeftInv, Finished, CountInv, TypeOK
<1>2. ASSUME NEW r \in Reqs, NEW n \in ApiRets, NEW single \in BOOLEAN,
             ResumeRequest(r, n, single)
      PROVE  WorkLeftInv'
  <2> DEFINE k == ApiTokens(r, n, single)
  <2>1. k \in Nat
    BY InputsAssumption, ApiTokensNat DEF CountInv
  <2>2. inflight' = [inflight EXCEPT ![r] = @ + k]
    BY <1>2 DEF ResumeRequest
  <2> HIDE DEF k
  <2>3. /\ pc \in {"idle", "execute"} /\ mode[r] # "none"
        /\ UNCHANGED <<swapLen, scheduled, sampled>>
        /\ \A s \in Reqs \ {r} : status'[s] = status[s]
        /\ status'[r] = "RUNNING" => mode[r] = "PRESERVE"
    BY <1>2 DEF ResumeRequest, CountInv, TypeOK
  <2>4. /\ status[r] = "PAUSED_API" /\ r \notin scheduled
        /\ mode[r] = "PRESERVE" => cpu[r] = 0
    BY <2>3 DEF TableInv, ModeMatchesBlocks, Paused, PlaceInv, Handled
  <2>5. status'[r] = "RUNNING" => swapLen[r] = 0
    BY <2>3, <2>4 DEF TableInv, TableMatchesData, Live, Finished
  <2> QED
    BY <2>1, <2>2, <2>3, <2>4, <2>5 DEF WorkLeftInv, Finished, CountInv, TypeOK
<1> QED
  BY <1>1, <1>2 DEF Client

\* A discard leaves all tokens to compute.
LEMMA WorkLeftPausePhase ==
    ASSUME CountInv, TableInv, WorkLeftInv, PausePhase
    PROVE  WorkLeftInv'
<1> USE DEF requests, data, memory, queues, pass, evicting
<1>1. CASE StartSchedule
  <2>1. UNCHANGED <<len, scheduled, sampled>>
    BY <1>1 DEF StartSchedule
  <2>2. ASSUME NEW r \in swapped, PreemptByRecompute(r) PROVE WorkLeftInv'
    <3>1. r \in Reqs /\ DiscardVictim(r)
      BY <2>2 DEF TableInv, PlaceInv, DiscardVictim, CountInv, TypeOK
    <3> QED
      BY <2>1, <3>1, DiscardLeavesWork
  <2>3. CASE UNCHANGED <<waiting, swapped, mode, status, data, memory>>
    BY <2>1, <2>3 DEF WorkLeftInv
  <2> QED
    BY <1>1, <2>2, <2>3 DEF StartSchedule, ActiveDiscard
<1>2. ASSUME NEW r \in Reqs, Demote(r) PROVE WorkLeftInv'
  <2>1. /\ pc = "pause" /\ mode[r] = "PRESERVE" /\ UNCHANGED <<len, scheduled, sampled>>
        /\ status[r] = "PAUSED_API"
    BY <1>2 DEF Demote, TableInv, VictimInv, ModeMatchesBlocks, Paused
  <2>2. CASE PauseByRecompute(r)
    <3>1. DiscardVictim(r)
      BY <2>1, <2>2 DEF DiscardVictim
    <3> QED
      BY <2>1, <3>1, DiscardLeavesWork
  <2>3. CASE PauseBySwap(r)
    BY <2>1, <2>3 DEF PauseBySwap, WorkLeftInv, CountInv, TypeOK
  <2>4. CASE UNCHANGED <<waiting, mode, status, data, memory>>
    BY <2>1, <2>4 DEF WorkLeftInv
  <2> QED
    BY <1>2, <2>2, <2>3, <2>4 DEF Demote
<1>3. CASE StartPass1
  BY <1>3 DEF StartPass1, WorkLeftInv
<1> QED
  BY <1>1, <1>2, <1>3 DEF PausePhase

\* The passes compute nothing.
LEMMA WorkLeftPassPhase ==
    ASSUME CountInv, TableInv, WorkLeftInv, PassPhase
    PROVE  WorkLeftInv'
<1> USE DEF requests, data, memory, queues, pass, evicting
<1>1. ASSUME NEW r \in Reqs, Ignore(r) \/ SequenceLimit(r) \/ BatchLimit(r) \/ GiveUp(r)
                             \/ StartEviction(r)
      PROVE  WorkLeftInv'
  <2>1. /\ UNCHANGED <<inflight, swapLen, scheduled, sampled>>
        /\ UNCHANGED status \/ status' = [status EXCEPT ![r] = "FINISHED_IGNORED"]
    BY <1>1 DEF Ignore, SequenceLimit, BatchLimit, GiveUp, StartEviction
  <2> QED
    BY <2>1 DEF WorkLeftInv, Finished, CountInv, TypeOK
<1>2. ASSUME NEW r \in Reqs, NEW w, Allocate(r, w), UNCHANGED sampled, Live(r)
      PROVE  WorkLeftInv'
  BY <1>2 DEF Allocate, WorkLeftInv, Live, CountInv, TypeOK
<1>3. ASSUME NEW r \in Reqs, Schedule(r) PROVE WorkLeftInv'
  <2>1. Allocate(r, Workload(r)) /\ UNCHANGED sampled /\ r \in targets
    BY <1>3 DEF Schedule, Eligible, IsNext
  <2> QED
    BY <1>2, <2>1 DEF TableInv, LiveInv, Handled
<1>4. CASE ScheduleCur
  <2>1. Allocate(cur, work[cur]) /\ UNCHANGED sampled /\ cur \in Reqs /\ cur # 0
    BY <1>4 DEF ScheduleCur, InLoop, CountInv, TypeOK
  <2> QED
    BY <1>2, <2>1 DEF TableInv, LiveInv, Handled
<1>5. ASSUME NEW v \in Reqs, NEW d \in Reqs, DiscardSwapped(v, d) PROVE WorkLeftInv'
  BY <1>5, DiscardLeavesWork DEF DiscardSwapped
<1>6. ASSUME NEW v \in Reqs, Evict(v) PROVE WorkLeftInv'
  <2>1. CASE gpu[v] > 0
    <3>1. DiscardVictim(v) /\ UNCHANGED <<len, scheduled, sampled>>
      BY <1>6, <2>1, EvictQueues
    <3> QED
      BY <3>1, DiscardLeavesWork
  <2>2. CASE ~(gpu[v] > 0)
    BY <1>6, <2>2 DEF Evict, WorkLeftInv
  <2> QED
    BY <2>1, <2>2
<1>7. CASE DelayCur \/ FinishPass1 \/ FinishPass2
  BY <1>7 DEF DelayCur, FinishPass1, FinishPass2, WorkLeftInv
<1> QED
  BY <1>1, <1>3, <1>4, <1>5, <1>6, <1>7 DEF PassPhase

\* A sampled request has its new token to compute.
LEMMA WorkLeftOutputPhase ==
    ASSUME CountInv, TableInv, WorkLeftInv, OutputPhase
    PROVE  WorkLeftInv'
<1> USE DEF requests, data, memory, queues, pass, evicting
<1>1. CASE PostForward
  <2>1. /\ UNCHANGED status /\ scheduled' = {} /\ sampled = {}
        /\ sampled' = {r \in scheduled : /\ work[r].tokens > 0
                                         /\ work[r].tokens = inflight[r]}
        /\ \A r \in scheduled : /\ inflight'[r] = inflight[r] - work[r].tokens
                                /\ swapLen'[r] = swapLen[r] - work[r].swap
        /\ \A r \in Reqs \ scheduled : /\ inflight'[r] = inflight[r]
                                       /\ swapLen'[r] = swapLen[r]
    BY <1>1 DEF PostForward, CountInv, TypeOK, TableInv, PhaseInv
  <2>2. \A r \in scheduled : /\ swapLen'[r] = 0
                             /\ work[r].tokens <= inflight[r]
    BY <2>1 DEF TableInv, WorkInv, CountInv, TypeOK, WorkBounded
  <2>3. ASSUME NEW r \in scheduled, status[r] \notin Finished, r \notin sampled'
        PROVE  inflight'[r] > 0
    <3>1. /\ inflight[r] > 0 /\ r \in Reqs
          /\ inflight[r] \in Nat /\ work[r].tokens \in Nat
      BY <2>1, <2>3 DEF WorkLeftInv, CountInv, TypeOK
    <3>2. ~(work[r].tokens > 0 /\ work[r].tokens = inflight[r])
      BY <2>1, <2>3
    <3> QED
      BY <2>1, <2>2, <2>3, <3>1, <3>2
  <2> QED
    BY <2>1, <2>2, <2>3 DEF WorkLeftInv
<1>2. ASSUME NEW r \in Reqs, CallApi(r) \/ StopRequest(r) \/ Continue(r)
      PROVE  WorkLeftInv'
  <2>1. /\ inflight' = [inflight EXCEPT ![r] = @ + 1]
        /\ sampled' = sampled \ {r} /\ UNCHANGED <<swapLen, scheduled>>
        /\ \A s \in Reqs \ {r} : status'[s] = status[s]
        /\ status'[r] = "RUNNING" => status[r] = "RUNNING"
    BY <1>2 DEF CallApi, StopRequest, Continue, AppendToken, CountInv, TypeOK
  <2> QED
    BY <2>1 DEF WorkLeftInv, CountInv, TypeOK
<1>3. CASE FinishStep
  BY <1>3 DEF FinishStep, WorkLeftInv
<1> QED
  BY <1>1, <1>2, <1>3 DEF OutputPhase

\* Every step leaves a live request something to compute or to sample.
LEMMA WorkLeftNext ==
    ASSUME CountInv, TableInv, WorkLeftInv, [Next]_vars
    PROVE  WorkLeftInv'
<1>1. CASE UNCHANGED vars
  BY <1>1 DEF vars, data, queues, pass, WorkLeftInv
<1> QED
  BY <1>1, WorkLeftClient, WorkLeftPausePhase, WorkLeftPassPhase, WorkLeftOutputPhase
  DEF Next, Step

-----------------------------------------------------------------------------

\* The first pass goes through the running requests in order of arrival, and
\* stops scheduling once it has delayed one.
OrderInv == pc = "pass1" =>
    /\ \A s \in scheduled, t \in Pending : s < t
    /\ \A t \in targets : cur < t
    /\ delayed # {} => batchLeft = 0 /\ cur = 0

\* The first pass takes its targets in the order of arrival.
LEMMA OrderNext ==
    ASSUME CountInv, TableInv, MemberInv, WorkLeftInv, OrderInv, [Next]_vars
    PROVE  OrderInv'
<1> USE DEF requests, data, memory, queues, pass, evicting
<1>1. CASE pc' # "pass1"
  BY <1>1 DEF OrderInv
<1>2. ASSUME UNCHANGED <<scheduled, targets, delayed, cur, batchLeft, pc>> PROVE OrderInv'
  BY <1>2 DEF OrderInv, Pending
<1>3. CASE UNCHANGED vars
  BY <1>2, <1>3 DEF vars
<1>4. CASE Client
  BY <1>2, <1>4 DEF Client, AddRequest, AbortRequest, ResumeRequest
<1>5. CASE PausePhase
  <2>1. CASE StartPass1
    <3>1. delayed' = {} /\ scheduled' = {} /\ cur' = 0 /\ targets' \subseteq Reqs
      BY <2>1 DEF StartPass1, TableInv, PhaseInv, CountInv, TypeOK
    <3> QED
      BY <3>1, ReqsFacts DEF OrderInv
  <2>2. CASE \E r \in Reqs : Demote(r)
    BY <1>2, <2>2 DEF Demote
  <2>3. CASE StartSchedule
    BY <1>1, <2>3 DEF StartSchedule
  <2> QED
    BY <1>5, <2>1, <2>2, <2>3 DEF PausePhase
<1>6. CASE PassPhase /\ pc' = "pass1"
  <2>1. pc = "pass1"
    BY <1>6 DEF PassPhase, Ignore, SequenceLimit, BatchLimit, Schedule, GiveUp,
                StartEviction, Evict, DiscardSwapped, DelayCur, ScheduleCur, FinishPass1,
                FinishPass2, IsNext, Eligible, IsVictim, Evicting, InLoop, PassOver, Stop
  <2>2. ASSUME NEW r \in Reqs, IsNext(r)
        PROVE  /\ cur = 0 /\ r \in targets /\ \A t \in targets : r <= t
               /\ delayed # {} => batchLeft = 0
               /\ Workload(r) = NoWork <=> batchLeft = 0
    <3>1. cur = 0 /\ r \in targets /\ \A t \in targets : r <= t
      BY <2>1, <2>2 DEF IsNext, Oldest
    <3>2. status[r] = "RUNNING" /\ r \notin scheduled /\ r \notin sampled
      BY <2>1, <3>1 DEF MemberInv, Handled, TableInv, PlaceInv, PhaseInv
    <3>3. inflight[r] > 0 /\ swapLen[r] = 0
      BY <3>2 DEF WorkLeftInv, Finished
    <3>4. Workload(r) = NoWork <=> batchLeft = 0
      BY <3>3 DEF Workload, NoWork, Smaller, CountInv, TypeOK
    <3> QED
      BY <2>1, <3>1, <3>4 DEF OrderInv
  <2>3. ASSUME NEW r \in Reqs, Ignore(r) PROVE OrderInv'
    BY <2>1, <2>3 DEF Ignore, OrderInv, Pending
  <2>4. ASSUME NEW r \in Reqs, BatchLimit(r) PROVE OrderInv'
    <3>1. IsNext(r) /\ Workload(r) = NoWork
      BY <2>4 DEF BatchLimit
    <3>2. cur = 0 /\ batchLeft = 0 /\ r \in targets
      BY <2>2, <3>1
    <3> QED
      BY <2>1, <2>4, <3>2, ReqsFacts DEF BatchLimit, OrderInv, Pending, CountInv, TypeOK
  <2>5. ASSUME NEW r \in Reqs, Schedule(r) PROVE OrderInv'
    <3>1. IsNext(r) /\ Workload(r) # NoWork
      BY <2>5 DEF Schedule, Eligible
    <3>2. cur = 0 /\ delayed = {} /\ r \in targets /\ \A t \in targets : r <= t
      BY <2>2, <3>1
    <3>3. /\ scheduled' = scheduled \cup {r} /\ targets' = targets \ {r}
          /\ UNCHANGED <<delayed, cur>>
      BY <2>5 DEF Schedule, Allocate
    <3>4. Pending' = targets \ {r} /\ Pending = targets
      BY <3>2, <3>3 DEF Pending
    <3>5. \A t \in targets \ {r} : r < t
      BY <3>2, ReqsFacts DEF CountInv, TypeOK
    <3> QED
      BY <2>1, <3>2, <3>3, <3>4, <3>5 DEF OrderInv
  <2>6. ASSUME NEW r \in Reqs, StartEviction(r) PROVE OrderInv'
    <3>1. IsNext(r) /\ Workload(r) # NoWork
      BY <2>6 DEF StartEviction, Eligible
    <3>2. cur = 0 /\ delayed = {} /\ r \in targets /\ \A t \in targets : r <= t
      BY <2>2, <3>1
    <3>3. /\ targets' = targets \ {r} /\ cur' = r
          /\ UNCHANGED <<delayed, scheduled>>
      BY <2>6 DEF StartEviction
    <3>4. Pending' \subseteq Pending
      BY <3>2, <3>3 DEF Pending
    <3>5. \A t \in targets \ {r} : r < t
      BY <3>2, ReqsFacts DEF CountInv, TypeOK
    <3> QED
      BY <2>1, <3>2, <3>3, <3>4, <3>5 DEF OrderInv
  <2>7. ASSUME NEW v \in Reqs, Evict(v) PROVE OrderInv'
    <3>1. /\ Pending' = Pending \ {v} /\ UNCHANGED <<scheduled, batchLeft>>
          /\ targets' = targets \ {v} /\ cur' \in {0, cur} /\ delayed' \subseteq delayed
          /\ cur # 0 /\ targets \subseteq Reqs
      BY <2>7, EvictQueues DEF Evict, CountInv, TypeOK
    <3>2. delayed' = {}
      BY <2>1, <3>1 DEF OrderInv
    <3>3. \A t \in targets : 0 < t
      BY <3>1, ReqsFacts
    <3> QED
      BY <2>1, <3>1, <3>2, <3>3 DEF OrderInv
  <2>8. ASSUME NEW v \in Reqs, NEW d \in Reqs, DiscardSwapped(v, d) PROVE OrderInv'
    BY <1>2, <2>8 DEF DiscardSwapped
  <2>9. ~DelayCur
    <3>1. ASSUME DelayCur PROVE FALSE
      <4>1. LastVictims = {} /\ cur \in Reqs
        BY <2>1, <3>1 DEF DelayCur, Evicting, InLoop, CountInv, TypeOK
      <4>2. VictimList # {} /\ VictimList \subseteq Reqs
        BY <2>1, <4>1 DEF VictimList, SelfPreempt, CountInv, TypeOK
      <4> QED
        BY <4>1, <4>2, YoungestExists DEF LastVictims
    <3> QED
      BY <3>1
  <2>10. ASSUME ScheduleCur PROVE OrderInv'
    <3>1. /\ scheduled' = scheduled \cup {cur} /\ cur' = 0 /\ cur # 0 /\ cur \in Reqs
          /\ UNCHANGED <<delayed, targets>>
      BY <2>10 DEF ScheduleCur, Allocate, InLoop, CountInv, TypeOK
    <3>2. delayed = {}
      BY <2>1, <3>1 DEF OrderInv
    <3>3. Pending' = targets /\ targets \subseteq Pending
      BY <3>1, <3>2 DEF Pending
    <3> QED
      BY <2>1, <3>1, <3>2, <3>3, ReqsFacts DEF OrderInv, CountInv, TypeOK
  <2>11. ~\E r \in Reqs : SequenceLimit(r) \/ GiveUp(r)
    BY <2>1, <1>6 DEF SequenceLimit, GiveUp, Stop
  <2>12. ~FinishPass1 /\ ~FinishPass2
    BY <1>6 DEF FinishPass1, FinishPass2
  <2> QED
    BY <1>6, <2>3, <2>4, <2>5, <2>6, <2>7, <2>8, <2>9, <2>10, <2>11, <2>12 DEF PassPhase
<1>7. CASE OutputPhase /\ pc' = "pass1"
  BY <1>7 DEF OutputPhase, PostForward, CallApi, StopRequest, Continue, AppendToken,
              FinishStep
<1> QED
  BY <1>1, <1>3, <1>4, <1>5, <1>6, <1>7 DEF Next, Step

-----------------------------------------------------------------------------

QueueInv == MemberInv /\ WorkLeftInv /\ OrderInv

\* The invariants of the queues hold in every state.
LEMMA QueueInvariant == Spec => [](CountInv /\ TableInv /\ QueueInv)
<1>1. Init => QueueInv
  BY MemberInit, WorkLeftInit DEF Init, QueueInv, OrderInv
<1>2. (CountInv /\ TableInv) /\ QueueInv /\ [Next]_vars => QueueInv'
  BY MemberNext, WorkLeftNext, OrderNext DEF QueueInv
<1> QED
  BY <1>1, <1>2, TableInvariant, PTL DEF Spec

\* A step that preempts a running request takes the one that arrived last.
LEMMA ArrivalStep ==
    ASSUME CountInv, TableInv, QueueInv, [Next]_vars, pc = "pass1",
           NEW r \in Reqs, status[r] = "RUNNING", status'[r] = "WAITING"
    PROVE  cur <= r /\ \A s \in scheduled : s < r
<1>1. ASSUME NEW v \in Reqs, Evict(v) PROVE cur <= r /\ \A s \in scheduled : s < r
  <2>1. v = r
    <3>1. v # r => status'[r] = status[r]
      BY <1>1, EvictQueues DEF CountInv, TypeOK
    <3> QED
      BY <3>1
  <2>2. r \in Pending /\ victims = {} /\ cur # 0 /\ cur \in Reqs
    BY <1>1, <2>1, EvictQueues
  <2>3. delayed = {} /\ \A s \in scheduled : s < r
    BY <2>2 DEF QueueInv, OrderInv
  <2>4. r = cur \/ cur < r
    BY <2>2, <2>3 DEF Pending, QueueInv, OrderInv
  <2> QED
    BY <2>2, <2>3, <2>4, ReqsFacts
<1>2. ASSUME NEW v \in Reqs, NEW d \in Reqs, DiscardSwapped(v, d) PROVE FALSE
  <2>1. DiscardVictim(d) /\ (d \in swapped \/ mode[d] = "SWAP")
    BY <1>2 DEF DiscardSwapped, DiscardList
  <2>2. d = r
    BY <2>1, TablesAfterDiscard
  <2>3. status[r] # "RUNNING"
    BY <2>1, <2>2 DEF QueueInv, MemberInv
  <2> QED
    BY <2>3
<1>3. ASSUME NEW q \in Reqs, NEW w, Allocate(q, w) PROVE FALSE
  BY <1>3 DEF Allocate, CountInv, TypeOK
<1>4. ASSUME UNCHANGED status PROVE FALSE
  BY <1>4
<1>5. CASE Client
  BY <1>5 DEF Client, AddRequest, AbortRequest, ResumeRequest
<1>6. CASE PausePhase
  BY <1>6 DEF PausePhase, StartSchedule, Demote, StartPass1
<1>7. CASE OutputPhase
  BY <1>7 DEF OutputPhase, PostForward, CallApi, StopRequest, Continue, AppendToken,
              FinishStep
<1>8. CASE PassPhase
  <2>1. ASSUME NEW q \in Reqs, Ignore(q) PROVE FALSE
    BY <2>1 DEF Ignore, CountInv, TypeOK
  <2>2. ASSUME NEW q \in Reqs,
               SequenceLimit(q) \/ BatchLimit(q) \/ GiveUp(q) \/ StartEviction(q)
        PROVE  FALSE
    BY <1>4, <2>2 DEF SequenceLimit, BatchLimit, GiveUp, StartEviction, queues
  <2>3. ~(\E q \in Reqs : Schedule(q)) /\ ~ScheduleCur
    <3>1. ScheduleCur => cur \in Reqs /\ Allocate(cur, work[cur])
      BY DEF ScheduleCur, InLoop, CountInv, TypeOK
    <3> QED
      BY <1>3, <3>1 DEF Schedule
  <2>4. ~DelayCur /\ ~FinishPass1 /\ ~FinishPass2
    BY <1>4 DEF DelayCur, FinishPass1, FinishPass2, queues
  <2> QED
    BY <1>1, <1>2, <1>8, <2>1, <2>2, <2>3, <2>4 DEF PassPhase
<1>9. CASE UNCHANGED vars
  BY <1>4, <1>9 DEF vars, queues
<1> QED
  BY <1>5, <1>6, <1>7, <1>8, <1>9 DEF Next, Step

\* The first pass never takes memory from a running request for one that
\* arrived later: EvictionRespectsArrival, which SchedSmallCpu checks.
THEOREM ArrivalRespected == Spec => EvictionRespectsArrival
<1>1. CountInv /\ TableInv /\ QueueInv /\ [Next]_vars =>
        [\A r \in Reqs :
            (pc = "pass1" /\ status[r] = "RUNNING" /\ status'[r] = "WAITING")
                => cur <= r /\ \A s \in scheduled : s < r]_vars
  BY ArrivalStep
<1> QED
  BY <1>1, QueueInvariant, PTL DEF Spec, EvictionRespectsArrival

-----------------------------------------------------------------------------

\* The preemption loop for cur has discarded cur itself.
CurDiscarded == \E v, d \in Reqs : DiscardSwapped(v, d) /\ d = cur

\* What runs holds blocks, and what the loop makes room for has work.
HoldInv == pc # "crashed" =>
    /\ \A r \in Reqs : status[r] = "RUNNING" => gpu[r] > 0
    /\ cur # 0 => work[cur] # NoWork

\* A request that is allocated a workload gets a block.
LEMMA AllocateHolds ==
    ASSUME CountInv, TableInv, HoldInv, NEW r \in Reqs, Live(r), mode[r] = "none",
           r \notin scheduled, pc # "crashed",
           NEW w \in [swap : Nat, tokens : Nat], w.swap = swapLen[r], w # NoWork,
           Allocate(r, w), UNCHANGED <<len, mode>>, cur' = 0
    PROVE  HoldInv'
<1>1. TableMatchesData'
  BY AllocateData DEF TableInv
<1>2. /\ UNCHANGED <<inflight, swapLen>>
      /\ scheduled' = scheduled \cup {r}
      /\ work' = [work EXCEPT ![r] = w]
      /\ status' = [status EXCEPT ![r] = "RUNNING"]
      /\ \A s \in Reqs \ {r} : gpu'[s] = gpu[s]
  BY DEF Allocate, CountInv, TypeOK
<1>3. /\ cpu[r] = swapLen[r] /\ gpu[r] + cpu[r] = Token2Block(Computed(r))
      /\ gpu[r] \in Nat /\ cpu[r] \in Nat
  BY DEF TableInv, TableMatchesData, CountInv, TypeOK
<1>4. gpu'[r] = Token2Block(Computed(r) + w.tokens)
  <2>1. Live(r)' /\ r \in scheduled' /\ work'[r] = w /\ Computed(r)' = Computed(r)
    BY <1>2 DEF Live, Finished, Computed, CountInv, TypeOK
  <2> QED
    BY <1>1, <2>1 DEF TableMatchesData, Token2Block
<1>5. Computed(r) \in Nat /\ w.tokens \in Nat /\ w.swap \in Nat
  BY InflightBlocksNat
<1>6. gpu'[r] > 0
  <2>1. CASE w.tokens > 0
    <3>1. Computed(r) + w.tokens \in Nat \ {0}
      BY <1>5, <2>1
    <3> QED
      BY <1>4, <3>1, Token2BlockZero
  <2>2. CASE w.tokens = 0
    <3>1. w.swap > 0
      BY <1>5, <2>2 DEF NoWork
    <3>2. gpu'[r] = gpu[r] + cpu[r]
      BY <1>3, <1>4, <1>5, <2>2
    <3> QED
      BY <1>3, <3>1, <3>2
  <2> QED
    BY <1>5, <2>1, <2>2
<1> QED
  BY <1>2, <1>6 DEF HoldInv, CountInv, TypeOK

\* A discard leaves its victim waiting or paused.
LEMMA DiscardHolds ==
    ASSUME CountInv, TableInv, QueueInv, HoldInv, NEW d \in Reqs, DiscardVictim(d),
           pc # "crashed", cur' # 0 => cur' = cur /\ cur # d
    PROVE  HoldInv'
<1>1. /\ \A r \in Reqs \ {d} : status'[r] = status[r]
      /\ status'[d] # "RUNNING"
  <2>1. mode[d] # "none" => status[d] = "PAUSED_API"
    BY DEF TableInv, ModeMatchesBlocks, Paused
  <2> QED
    BY <2>1 DEF DiscardVictim, PauseByRecompute, PreemptByRecompute, CountInv, TypeOK
<1>2. Discard(d)
  BY DiscardVictimTypes
<1>3. /\ \A r \in Reqs \ {d} : gpu'[r] = gpu[r] /\ work'[r] = work[r]
  BY <1>2, DiscardData
<1> QED
  BY <1>1, <1>3 DEF HoldInv, CountInv, TypeOK

\* Every step leaves what runs its blocks, as long as the target of the
\* loop is not itself discarded.
LEMMA HoldNext ==
    ASSUME CountInv, TableInv, QueueInv, HoldInv, [Next]_vars, [~CurDiscarded]_vars
    PROVE  HoldInv'
<1> USE DEF requests, data, memory, queues, pass, evicting
<1>1. CASE UNCHANGED vars
  BY <1>1 DEF vars, HoldInv
<1>2. CASE Client
  <2>1. ASSUME NEW r \in Reqs, AddRequest(r) PROVE HoldInv'
    BY <2>1 DEF AddRequest, HoldInv, CountInv, TypeOK
  <2>2. ASSUME NEW r \in Reqs, AbortRequest(r) PROVE HoldInv'
    <3>1. CASE r \in waiting \cup running \cup swapped
      <4>1. /\ FreeTable(r) /\ UNCHANGED <<pc, cur, work>>
            /\ status' = [status EXCEPT ![r] = "FINISHED_ABORTED"]
        BY <2>2, <3>1 DEF AbortRequest
      <4> QED
        BY <4>1 DEF FreeTable, HoldInv, CountInv, TypeOK
    <3>2. CASE r \notin waiting \cup running \cup swapped
      BY <2>2, <3>2 DEF AbortRequest, HoldInv
    <3> QED
      BY <3>1, <3>2
  <2>3. ASSUME NEW r \in Reqs, NEW n \in ApiRets, NEW single \in BOOLEAN,
               ResumeRequest(r, n, single)
        PROVE  HoldInv'
    <3>1. /\ mode[r] # "none" /\ UNCHANGED <<gpu, work, cur, pc>>
          /\ \A s \in Reqs \ {r} : status'[s] = status[s]
          /\ status'[r] = "RUNNING" => mode[r] = "PRESERVE"
      BY <2>3 DEF ResumeRequest, CountInv, TypeOK
    <3>2. mode[r] = "PRESERVE" => gpu[r] > 0
      BY <3>1 DEF TableInv, ModeMatchesBlocks, Paused
    <3> QED
      BY <3>1, <3>2 DEF HoldInv
  <2> QED
    BY <1>2, <2>1, <2>2, <2>3 DEF Client
<1>3. CASE PausePhase
  <2>1. pc # "crashed" /\ cur = 0 /\ cur' = 0
    BY <1>3 DEF PausePhase, StartSchedule, Demote, StartPass1, TableInv, PhaseInv
  <2>2. ASSUME NEW r \in Reqs, DiscardVictim(r) PROVE HoldInv'
    BY <2>1, <2>2, DiscardHolds
  <2>3. ASSUME UNCHANGED <<status, gpu>> PROVE HoldInv'
    BY <2>1, <2>3 DEF HoldInv
  <2>4. CASE StartSchedule
    <3>1. ASSUME NEW r \in swapped, PreemptByRecompute(r) PROVE r \in Reqs /\ DiscardVictim(r)
      BY <3>1 DEF TableInv, PlaceInv, DiscardVictim, CountInv, TypeOK
    <3> QED
      BY <2>2, <2>3, <2>4, <3>1 DEF StartSchedule, ActiveDiscard
  <2>5. ASSUME NEW r \in Reqs, Demote(r) PROVE HoldInv'
    <3>1. mode[r] = "PRESERVE" /\ status[r] = "PAUSED_API"
      BY <2>5 DEF Demote, TableInv, VictimInv, ModeMatchesBlocks, Paused
    <3>2. CASE PauseByRecompute(r)
      BY <2>2, <3>1, <3>2 DEF DiscardVictim
    <3>3. CASE PauseBySwap(r)
      BY <2>1, <3>1, <3>3 DEF PauseBySwap, HoldInv, CountInv, TypeOK
    <3> QED
      BY <2>3, <2>5, <3>2, <3>3 DEF Demote
  <2>6. CASE StartPass1
    BY <2>3, <2>6 DEF StartPass1
  <2> QED
    BY <1>3, <2>4, <2>5, <2>6 DEF PausePhase
<1>4. CASE OutputPhase
  <2>1. pc # "crashed" /\ cur = 0 /\ cur' = 0
    BY <1>4 DEF OutputPhase, PostForward, CallApi, StopRequest, Continue, AppendToken,
                FinishStep, TableInv, PhaseInv
  <2>2. ASSUME NEW r \in Reqs, StopRequest(r) PROVE HoldInv'
    BY <2>1, <2>2 DEF StopRequest, FreeTable, HoldInv, CountInv, TypeOK
  <2>3. ASSUME NEW r \in Reqs, CallApi(r) \/ Continue(r) PROVE HoldInv'
    BY <2>1, <2>3 DEF CallApi, Continue, HoldInv, CountInv, TypeOK
  <2>4. CASE PostForward \/ FinishStep
    BY <2>1, <2>4 DEF PostForward, FinishStep, HoldInv
  <2> QED
    BY <1>4, <2>2, <2>3, <2>4 DEF OutputPhase
<1>5. CASE PassPhase /\ ~CurDiscarded
  <2>1. ASSUME NEW r \in Reqs, Ignore(r) \/ SequenceLimit(r) \/ BatchLimit(r) \/ GiveUp(r)
        PROVE  HoldInv'
    <3>1. /\ UNCHANGED gpu /\ cur = 0 /\ cur' = 0 /\ pc # "crashed"
          /\ UNCHANGED status \/ status' = [status EXCEPT ![r] = "FINISHED_IGNORED"]
      BY <2>1 DEF Ignore, SequenceLimit, BatchLimit, GiveUp, IsNext, Eligible
    <3> QED
      BY <3>1 DEF HoldInv, CountInv, TypeOK
  <2>2. ASSUME NEW r \in Reqs, StartEviction(r) PROVE HoldInv'
    <3>1. /\ UNCHANGED <<status, gpu, pc>> /\ cur' = r
          /\ work' = [work EXCEPT ![r] = Workload(r)] /\ Workload(r) # NoWork
      BY <2>2 DEF StartEviction, Eligible
    <3> QED
      BY <3>1 DEF HoldInv, CountInv, TypeOK
  <2>3. ASSUME NEW r \in Reqs, Schedule(r) PROVE HoldInv'
    <3>1. /\ Allocate(r, Workload(r)) /\ Workload(r) # NoWork /\ r \in targets
          /\ cur' = 0 /\ pc # "crashed" /\ UNCHANGED <<len, mode>>
      BY <2>3 DEF Schedule, Eligible, IsNext
    <3>2. Live(r) /\ mode[r] = "none" /\ r \notin scheduled
      BY <3>1 DEF TableInv, LiveInv, PlaceInv, Handled
    <3> QED
      BY <3>1, <3>2, WorkloadFacts, AllocateHolds
  <2>4. CASE ScheduleCur
    <3>1. /\ Allocate(cur, work[cur]) /\ cur \in Reqs /\ cur # 0 /\ cur' = 0
          /\ pc # "crashed" /\ UNCHANGED <<len, mode>>
      BY <2>4 DEF ScheduleCur, InLoop, CountInv, TypeOK
    <3>2. /\ Live(cur) /\ mode[cur] = "none" /\ cur \notin scheduled
          /\ work[cur].swap = swapLen[cur] /\ work[cur] \in [swap : Nat, tokens : Nat]
          /\ work[cur] # NoWork
      BY <3>1 DEF TableInv, LiveInv, PlaceInv, WorkInv, Handled, HoldInv, CountInv, TypeOK
    <3> QED
      BY <3>1, <3>2, AllocateHolds
  <2>5. ASSUME NEW v \in Reqs, Evict(v) PROVE HoldInv'
    <3>1. /\ cur' # 0 => cur' = cur /\ cur # v
          /\ pc # "crashed" /\ gpu[v] \in Nat
      BY <2>5, EvictQueues DEF Evict, CountInv, TypeOK
    <3>2. CASE gpu[v] > 0
      BY <2>5, <3>1, <3>2, EvictQueues, DiscardHolds
    <3>3. CASE gpu[v] = 0
      BY <2>5, <3>1, <3>3 DEF Evict, HoldInv
    <3> QED
      BY <3>1, <3>2, <3>3
  <2>6. ASSUME NEW v \in Reqs, NEW d \in Reqs, DiscardSwapped(v, d) PROVE HoldInv'
    <3>1. DiscardVictim(d) /\ pc # "crashed" /\ cur' = cur /\ d # cur
      BY <1>5, <2>6 DEF DiscardSwapped, IsVictim, Evicting, InLoop, CurDiscarded
    <3> QED
      BY <3>1, DiscardHolds
  <2>7. CASE DelayCur \/ FinishPass1 \/ FinishPass2
    <3>1. /\ UNCHANGED <<status, gpu>> /\ pc # "crashed" /\ cur' = 0
      BY <2>7 DEF DelayCur, FinishPass1, FinishPass2, PassOver, Evicting, InLoop, CountInv,
                  CurInv
    <3> QED
      BY <3>1 DEF HoldInv
  <2> QED
    BY <1>5, <2>1, <2>2, <2>3, <2>4, <2>5, <2>6, <2>7 DEF PassPhase
<1> QED
  BY <1>1, <1>2, <1>3, <1>4, <1>5 DEF Next, Step

\* So what runs holds blocks in every state.
LEMMA HoldInvariant ==
    Spec /\ [][~CurDiscarded]_vars => [](CountInv /\ TableInv /\ QueueInv /\ HoldInv)
<1>1. Init => HoldInv
  BY DEF Init, HoldInv
<1>2. (CountInv /\ TableInv /\ QueueInv) /\ HoldInv /\ [Next]_vars /\ [~CurDiscarded]_vars
        => HoldInv'
  BY HoldNext
<1> QED
  BY <1>1, <1>2, QueueInvariant, PTL DEF Spec

\* No victim of the preemption loop is without blocks, unless the loop has
\* discarded the request it makes room for: the ValueError of
\* passive_discard_by_order is then never raised.  VictimsHoldBlocks, which
\* SchedLive checks.
THEOREM VictimsHold == Spec /\ [][~CurDiscarded]_vars => []VictimsHoldBlocks
<1>1. CountInv /\ TableInv /\ QueueInv /\ HoldInv => VictimsHoldBlocks
  <2> SUFFICES ASSUME CountInv, TableInv, QueueInv, HoldInv, Evicting, NEW v \in LastVictims
               PROVE  gpu[v] > 0
    BY DEF VictimsHoldBlocks
  <2>1. pc \in {"pass1", "pass2"} /\ cur # 0 /\ cur \in Reqs
    BY DEF Evicting, InLoop, CountInv, TypeOK
  <2>2. CASE victims # {}
    BY <2>2 DEF LastVictims, VictimList, TableInv, VictimInv, ModeMatchesBlocks, Paused,
                CountInv, TypeOK
  <2>3. CASE victims = {}
    <3>1. v \in Pending /\ pc = "pass1" /\ v \in Reqs
      BY <2>1, <2>3 DEF LastVictims, VictimList, Youngest, SelfPreempt, Pending, CountInv,
                        TypeOK
    <3>2. status[v] = "RUNNING"
      BY <3>1 DEF QueueInv, MemberInv, Pending, Handled
    <3> QED
      BY <3>1, <3>2 DEF HoldInv
  <2> QED
    BY <2>2, <2>3
<1> QED
  BY <1>1, HoldInvariant, PTL

-----------------------------------------------------------------------------

\* A request that the second pass has ignored as too long is discarded.
IgnoredDiscarded == \E v, d \in Reqs : DiscardSwapped(v, d) /\ status[d] \in Finished

\* r is not lost: its status names a queue that it is in, or the pass still
\* holds it.
Kept(r) ==
    /\ pc \notin {"pass2", "after2", "crashed"} =>
          /\ status[r] = "WAITING" => r \in waiting
          /\ status[r] = "SWAPPED" => r \in swapped
    /\ pc \in {"idle", "pause", "execute", "process"} /\ status[r] = "RUNNING" => r \in running
    /\ pc \in {"pass1", "after1"} /\ status[r] = "RUNNING" => r \in Handled
    /\ pc \in {"pass2", "after2"} =>
          /\ status[r] = "RUNNING" => r \in running \cup scheduled
          /\ status[r] \in {"WAITING", "SWAPPED"} =>
                 r \in Pending \/ (r \in scheduled /\ r \notin tables)

\* A pass loses a request in two ways only.
LEMMA KeptPassPhase ==
    ASSUME CountInv, TableInv, QueueInv, PassPhase,
           NEW x \in Reqs, Kept(x), ~Losing(x)
    PROVE  Kept(x)'
<1> USE DEF requests, data, memory, queues, pass, evicting
<1>1. ASSUME NEW r \in Reqs, Ignore(r) PROVE Kept(x)'
  <2>1. /\ pc \in {"pass1", "pass2"} /\ targets' = targets \ {r}
        /\ status' = [status EXCEPT ![r] = "FINISHED_IGNORED"]
        /\ UNCHANGED <<waiting, swapped, running, delayed, scheduled, cur, tables, pc>>
    BY <1>1 DEF Ignore, IsNext
  <2> QED
    BY <2>1 DEF Kept, Pending, Handled, CountInv, TypeOK
<1>2. ASSUME NEW r \in Reqs,
             SequenceLimit(r) \/ BatchLimit(r) \/ GiveUp(r) \/ StartEviction(r)
      PROVE  Kept(x)'
  <2>1. /\ pc \in {"pass1", "pass2"}
        /\ pc = "pass1" => pc' \in {"pass1", "after1"}
        /\ pc = "pass2" => pc' \in {"pass2", "after2"}
        /\ UNCHANGED <<waiting, swapped, running, scheduled, tables, status>>
    BY <1>2 DEF SequenceLimit, BatchLimit, GiveUp, StartEviction, IsNext, Eligible, Stop
  <2>2. /\ targets' = targets \ {r} /\ cur = 0 /\ r # 0
        /\ \/ delayed' = delayed \cup {r} /\ UNCHANGED cur
           \/ cur' = r /\ UNCHANGED delayed
    BY <1>2, ReqsFacts DEF SequenceLimit, BatchLimit, GiveUp, StartEviction, IsNext, Eligible
  <2>3. Pending \subseteq Pending'
    BY <2>2 DEF Pending
  <2>4. Handled \subseteq Handled'
    BY <2>1, <2>2 DEF Handled
  <2> QED
    BY <2>1, <2>3, <2>4 DEF Kept
<1>3. ASSUME NEW r \in Reqs, NEW w, Allocate(r, w), pc \in {"pass1", "pass2"},
             UNCHANGED <<waiting, swapped, running, pc>>,
             Pending' = Pending \ {r}
      PROVE  Kept(x)'
  <2>1. /\ tables' = tables \cup {r} /\ scheduled' = scheduled \cup {r}
        /\ status' = [status EXCEPT ![r] = "RUNNING"]
    BY <1>3 DEF Allocate
  <2>2. Handled = Pending \cup scheduled /\ Handled' = Pending' \cup scheduled'
    BY DEF Handled, Pending
  <2>3. ASSUME NEW s \in Reqs \ {r}
        PROVE  /\ status'[s] = status[s] /\ (s \in tables' <=> s \in tables)
               /\ (s \in Pending' <=> s \in Pending) /\ (s \in scheduled' <=> s \in scheduled)
               /\ (s \in Handled' <=> s \in Handled)
    BY <1>3, <2>1, <2>2 DEF CountInv, TypeOK
  <2>4. status'[r] = "RUNNING" /\ r \in scheduled' /\ r \in Handled'
    BY <2>1, <2>2 DEF CountInv, TypeOK
  <2> QED
    BY <1>3, <2>3, <2>4 DEF Kept
<1>4. ASSUME NEW r \in Reqs, Schedule(r) PROVE Kept(x)'
  <2>1. /\ Allocate(r, Workload(r)) /\ pc \in {"pass1", "pass2"}
        /\ cur = 0 /\ UNCHANGED <<waiting, swapped, running, pc, delayed, cur>>
        /\ targets' = targets \ {r} /\ r \in targets
    BY <1>4 DEF Schedule, Eligible, IsNext
  <2>2. Pending' = Pending \ {r}
    BY <2>1 DEF Pending, TableInv, PlaceInv
  <2> QED
    BY <1>3, <2>1, <2>2
<1>5. CASE ScheduleCur
  <2>1. /\ Allocate(cur, work[cur]) /\ pc \in {"pass1", "pass2"} /\ cur \in Reqs
        /\ UNCHANGED <<waiting, swapped, running, pc, delayed, targets>> /\ cur' = 0
    BY <1>5 DEF ScheduleCur, InLoop, CountInv, TypeOK
  <2>2. Pending' = Pending \ {cur}
    BY <2>1 DEF Pending, TableInv, PlaceInv
  <2> QED
    BY <1>3, <2>1, <2>2
<1>6. ASSUME NEW v \in Reqs, Evict(v) PROVE Kept(x)'
  <2>1. CASE pc' = "crashed"
    BY <2>1 DEF Kept
  <2>2. CASE pc' # "crashed"
    <3>1. /\ pc' = pc /\ pc \in {"pass1", "pass2"} /\ gpu[v] \in Nat
          /\ Pending' = Pending \ {v} /\ UNCHANGED <<running, swapped, scheduled>>
          /\ v \notin scheduled
          /\ \A s \in Reqs \ {v} : status'[s] = status[s]
      BY <1>6, <2>2, EvictQueues DEF CountInv, TypeOK
    <3>2. Handled = Pending \cup scheduled /\ Handled' = Pending' \cup scheduled'
      BY DEF Handled, Pending
    <3>3. /\ tables' \subseteq tables /\ waiting \subseteq waiting'
      <4>1. CASE gpu[v] > 0
        BY <1>6, <4>1, EvictQueues, TablesAfterDiscard
      <4>2. CASE gpu[v] = 0
        BY <1>6, <4>2 DEF Evict
      <4> QED
        BY <3>1, <4>1, <4>2
    <3>4. /\ v \in Handled => \/ pc = "pass1" /\ status'[v] = "WAITING" /\ v \in waiting'
                              \/ v # x
          /\ v \notin Handled => v \notin Pending /\ UNCHANGED status
      <4>1. CASE v \in victims /\ v \notin Handled
        BY <1>6, <4>1, <3>2, EvictQueues
      <4>2. CASE ~(v \in victims /\ v \notin Handled)
        <5>1. /\ pc = "pass1" /\ v \in Pending /\ v \in Handled
              /\ gpu[v] > 0 => status' = [status EXCEPT ![v] = "WAITING"] /\ v \in waiting'
          BY <1>6, <4>2, <3>2, EvictQueues
        <5>2. gpu[v] > 0 \/ v # x
          <6>1. gpu[v] = 0 => v = cur
            BY <1>6, <2>2, EvictQueues
          <6> QED
            BY <1>6, <3>1, <6>1 DEF Losing
        <5> QED
          BY <5>1, <5>2 DEF CountInv, TypeOK
      <4> QED
        BY <4>1, <4>2
    <3>5. CASE v \in Handled
      BY <3>1, <3>2, <3>3, <3>4, <3>5 DEF Kept
    <3>6. CASE v \notin Handled
      <4>1. Pending' = Pending /\ Handled' = Handled /\ UNCHANGED status
        BY <3>1, <3>2, <3>4, <3>6
      <4> QED
        BY <3>1, <3>3, <4>1 DEF Kept
    <3> QED
      BY <3>5, <3>6
  <2> QED
    BY <2>1, <2>2
<1>7. ASSUME NEW v \in Reqs, NEW d \in Reqs, DiscardSwapped(v, d) PROVE Kept(x)'
  <2>1. /\ pc \in {"pass1", "pass2"} /\ DiscardVictim(d)
        /\ d \in swapped \/ mode[d] = "SWAP"
        /\ swapped' = swapped \ {d}
        /\ UNCHANGED <<running, pass, cur, pc>>
    BY <1>7 DEF DiscardSwapped, IsVictim, Evicting, InLoop, DiscardList
  <2>2. Pending' = Pending /\ Handled' = Handled
    BY <2>1 DEF Pending, Handled
  <2>3. tables' = tables \ {d}
    BY <2>1, TablesAfterDiscard
  <2>4. CASE mode[d] # "none"
    <3>1. UNCHANGED <<waiting, status>> /\ d \notin swapped
      BY <2>1, <2>4 DEF DiscardVictim, PauseByRecompute, TableInv, PlaceInv
    <3> QED
      BY <2>1, <2>2, <2>3, <3>1 DEF Kept
  <2>5. CASE mode[d] = "none"
    <3>1. /\ status' = [status EXCEPT ![d] = "WAITING"] /\ d \in swapped
          /\ waiting' = waiting \cup {d} /\ d \notin running
      BY <2>1, <2>5 DEF DiscardVictim, PreemptByRecompute, TableInv, PlaceInv
    <3>2. CASE d # x
      BY <2>1, <2>2, <2>3, <3>1, <3>2 DEF Kept, CountInv, TypeOK
    <3>3. CASE d = x
      <4>1. pc = "pass2" => d \in Pending \cup scheduled
        <5>1. ASSUME pc = "pass2", d \notin scheduled PROVE status[d] \in {"WAITING", "SWAPPED"}
          <6>1. status[d] \notin {"none", "FINISHED_STOPPED", "FINISHED_ABORTED", "PAUSED_API"}
            BY <2>5, <3>1, <5>1 DEF QueueInv, MemberInv
          <6>2. status[d] # "RUNNING" /\ status[d] # "FINISHED_IGNORED"
            BY <1>7, <3>1, <3>3, <5>1 DEF Kept, Losing
          <6> QED
            BY <6>1, <6>2 DEF CountInv, TypeOK, Statuses, Finished
        <5> QED
          BY <3>3, <5>1 DEF Kept
      <4> QED
        BY <2>1, <2>2, <2>3, <3>1, <3>3, <4>1 DEF Kept, CountInv, TypeOK
    <3> QED
      BY <3>2, <3>3
  <2> QED
    BY <2>4, <2>5
<1>8. CASE DelayCur
  <2>1. /\ UNCHANGED <<running, scheduled, tables, status, waiting, swapped, pc>>
        /\ Pending' = Pending
    BY <1>8, ReqsFacts DEF DelayCur, Evicting, InLoop, Pending
  <2>2. Handled' = Handled
    BY <2>1 DEF Handled, Pending
  <2> QED
    BY <2>1, <2>2 DEF Kept
<1>9. CASE FinishPass1
  <2>1. /\ pc \in {"pass1", "after1"} /\ pc' = "pass2" /\ cur = 0 /\ cur' = 0
        /\ running' = targets \cup scheduled \cup delayed
        /\ targets' = swapped \cup waiting
        /\ UNCHANGED <<waiting, swapped, status, scheduled>>
    BY <1>9 DEF FinishPass1, PassOver, CountInv, CurInv
  <2> QED
    BY <2>1 DEF Kept, Pending, Handled
<1>10. CASE FinishPass2
  <2>1. /\ pc \in {"pass2", "after2"} /\ cur = 0
        /\ pc' \in {"idle", "execute", "crashed"}
        /\ pc' # "crashed" => scheduled \subseteq tables
        /\ running' = running \cup scheduled
        /\ swapped' = swapped \cap (delayed \cup targets)
        /\ waiting' = waiting \cap (delayed \cup targets)
        /\ UNCHANGED status
    BY <1>10 DEF FinishPass2, PassOver, CountInv, CurInv
  <2>2. CASE pc' = "crashed"
    BY <2>2 DEF Kept
  <2>3. CASE pc' # "crashed"
    <3>1. status[x] = "RUNNING" => x \in running'
      BY <2>1 DEF Kept
    <3>2. /\ status[x] = "WAITING" => x \in waiting'
          /\ status[x] = "SWAPPED" => x \in swapped'
      BY <2>1, <2>3 DEF Kept, QueueInv, MemberInv, Pending
    <3> QED
      BY <2>1, <2>3, <3>1, <3>2 DEF Kept
  <2> QED
    BY <2>2, <2>3
<1> QED
  BY <1>1, <1>2, <1>4, <1>5, <1>6, <1>7, <1>8, <1>9, <1>10 DEF PassPhase

\* Nor does any step outside of the passes.
LEMMA KeptOthers ==
    ASSUME CountInv, TableInv, QueueInv, Client \/ PausePhase \/ OutputPhase,
           NEW x \in Reqs, Kept(x)
    PROVE  Kept(x)'
<1> USE DEF requests, data, memory, queues, pass, evicting
<1>1. ASSUME NEW r \in Reqs, AddRequest(r) PROVE Kept(x)'
  BY <1>1 DEF AddRequest, Kept, CountInv, TypeOK
<1>2. ASSUME NEW r \in Reqs, AbortRequest(r) PROVE Kept(x)'
  BY <1>2 DEF AbortRequest, Kept, CountInv, TypeOK
<1>3. ASSUME NEW r \in Reqs, NEW n \in ApiRets, NEW single \in BOOLEAN,
             ResumeRequest(r, n, single)
      PROVE  Kept(x)'
  BY <1>3 DEF ResumeRequest, Kept, CountInv, TypeOK
<1>4. CASE StartSchedule
  <2>1. pc = "idle" /\ pc' \in {"pause", "crashed"} /\ UNCHANGED running
    BY <1>4 DEF StartSchedule
  <2>2. ASSUME NEW r \in swapped, PreemptByRecompute(r), swapped' = swapped \ {r}
        PROVE  Kept(x)'
    <3>1. r \in Reqs /\ waiting' = waiting \cup {r} /\ status' = [status EXCEPT ![r] = "WAITING"]
      BY <2>2 DEF PreemptByRecompute, CountInv, TypeOK
    <3> QED
      BY <2>1, <2>2, <3>1 DEF Kept, CountInv, TypeOK
  <2>3. CASE UNCHANGED <<waiting, swapped, mode, status, data, memory>>
    BY <2>1, <2>3 DEF Kept
  <2> QED
    BY <1>4, <2>2, <2>3 DEF StartSchedule, ActiveDiscard
<1>5. ASSUME NEW r \in Reqs, Demote(r) PROVE Kept(x)'
  BY <1>5 DEF Demote, PauseByRecompute, PauseBySwap, Kept
<1>6. CASE StartPass1
  BY <1>6 DEF StartPass1, Kept, Handled
<1>7. CASE PostForward
  BY <1>7 DEF PostForward, Kept
<1>8. ASSUME NEW r \in Reqs, CallApi(r) \/ StopRequest(r) \/ Continue(r) PROVE Kept(x)'
  <2>1. /\ pc = "process" /\ UNCHANGED <<waiting, running, swapped, pc>>
        /\ \A s \in Reqs \ {r} : status'[s] = status[s]
        /\ status'[r] \in {status[r], "PAUSED_API", "FINISHED_STOPPED"}
    BY <1>8 DEF CallApi, StopRequest, Continue, AppendToken, CountInv, TypeOK
  <2> QED
    BY <2>1 DEF Kept
<1>9. CASE FinishStep
  BY <1>9 DEF FinishStep, Kept, Finished
<1> QED
  BY <1>1, <1>2, <1>3, <1>4, <1>5, <1>6, <1>7, <1>8, <1>9 DEF Client, PausePhase, OutputPhase

\* In every state that the program reaches, InPlace adds nothing to Kept.
LEMMA KeptInPlace ==
    ASSUME CountInv, TableInv, QueueInv, NEW r \in Reqs
    PROVE  InPlace(r) <=> Kept(r)
<1> QED
  BY DEF QueueInv, MemberInv, InPlace, Kept, Handled, Pending

\* Whatever the preemption loop discards, a request is lost in two ways only:
\* LossesExplained, which SchedSmallCpu checks where both happen.
THEOREM OnlyKnownLosses == Spec => LossesExplained
<1>1. CountInv /\ TableInv /\ QueueInv /\ CountInv' /\ TableInv' /\ QueueInv' /\ [Next]_vars
        => [\A r \in Reqs : InPlace(r) /\ ~InPlace(r)' => Losing(r)]_vars
  <2> SUFFICES ASSUME CountInv, TableInv, QueueInv, CountInv', TableInv', QueueInv', Next,
                      NEW r \in Reqs, InPlace(r), ~Losing(r)
               PROVE  InPlace(r)'
    BY DEF vars
  <2>1. Kept(r)
    BY KeptInPlace
  <2>2. Kept(r)'
    BY <2>1, KeptPassPhase, KeptOthers DEF Next, Step
  <2>3. (InPlace(r) <=> Kept(r))'
    BY DEF QueueInv, MemberInv, InPlace, Kept, Handled, Pending
  <2> QED
    BY <2>2, <2>3
<1> QED
  BY <1>1, QueueInvariant, PTL DEF Spec, LossesExplained

\* Every unfinished request is in exactly one queue between two calls of
\* schedule(), the one of its status, and nothing else is in any: OneQueue.  It
\* holds as long as the preemption loop discards neither the request it makes
\* room for nor one that the same pass has ignored, which is the violation of
\* the run SchedIgnored.
THEOREM QueuesKept ==
    Spec /\ [][~CurDiscarded]_vars /\ [][~IgnoredDiscarded]_vars => []OneQueue
<1> DEFINE KeptInv == \A r \in Reqs : Kept(r)
<1>1. Init => KeptInv
  BY DEF Init, Kept
<1>2. (CountInv /\ TableInv /\ QueueInv /\ HoldInv) /\ KeptInv /\ [Next]_vars
        /\ [~IgnoredDiscarded]_vars => KeptInv'
  <2> SUFFICES ASSUME CountInv, TableInv, QueueInv, HoldInv, KeptInv, [Next]_vars,
                      [~IgnoredDiscarded]_vars, NEW r \in Reqs
               PROVE  Kept(r)'
    OBVIOUS
  <2>1. CASE UNCHANGED vars
    BY <2>1 DEF vars, memory, queues, pass, evicting, Kept, Handled, Pending
  <2>2. ASSUME ~IgnoredDiscarded
        PROVE  ~Losing(r)
    <3>1. ASSUME cur = r, Evict(r) PROVE gpu[r] > 0
      <4>1. pc = "pass1" \/ r \in victims
        BY <3>1, EvictQueues
      <4>2. r \in Handled /\ r \notin victims
        BY <3>1, ReqsFacts DEF Handled, TableInv, PlaceInv, VictimInv
      <4>3. status[r] = "RUNNING"
        BY <4>1, <4>2 DEF QueueInv, MemberInv
      <4> QED
        BY <4>1, <4>2, <4>3 DEF HoldInv
    <3>2. gpu[r] > 0 => gpu[r] # 0
      BY DEF CountInv, TypeOK
    <3> QED
      BY <2>2, <3>1, <3>2 DEF Losing, IgnoredDiscarded, Finished
  <2> QED
    BY <2>1, <2>2, KeptPassPhase, KeptOthers DEF Next, Step
<1>3. CountInv /\ TableInv /\ QueueInv /\ KeptInv => OneQueue
  BY DEF QueueInv, MemberInv, Kept, OneQueue, Paused, CountInv, TypeOK
<1> QED
  BY <1>1, <1>2, <1>3, HoldInvariant, PTL DEF Spec

-----------------------------------------------------------------------------
(* Where schedule() raises nothing.                                        *)

\* A step raises only where a running or scheduled request has lost its table
\* or a victim has no blocks.
LEMMA RaisesNothing ==
    ASSUME CountInv, TableInv, RunInv, VictimsHoldBlocks, pc # "crashed", [Next]_vars
    PROVE  pc' # "crashed"
<1>1. CASE UNCHANGED vars
  BY <1>1 DEF vars
<1>2. CASE Client
  BY <1>2 DEF Client, AddRequest, AbortRequest, ResumeRequest
<1>3. CASE PausePhase
  BY <1>3, RunPausePhase
<1>4. CASE OutputPhase
  <2>1. CASE PostForward \/ FinishStep
    BY <2>1 DEF PostForward, FinishStep
  <2>2. ASSUME NEW r \in Reqs, CallApi(r) \/ StopRequest(r) \/ Continue(r)
        PROVE  pc' = pc
    BY <2>2 DEF CallApi, StopRequest, Continue, AppendToken
  <2> QED
    BY <1>4, <2>1, <2>2 DEF OutputPhase
<1>5. CASE PassPhase
  <2>1. ASSUME NEW v \in Reqs, Evict(v) PROVE pc' # "crashed"
    <3>1. gpu[v] > 0 /\ gpu[v] \in Nat
      BY <2>1 DEF Evict, IsVictim, VictimsHoldBlocks, CountInv, TypeOK
    <3> QED
      BY <2>1, <3>1 DEF Evict
  <2>2. CASE FinishPass2
    <3>1. scheduled \subseteq tables
      BY DEF RunInv, CountInv, TypeOK
    <3> QED
      BY <2>2, <3>1 DEF FinishPass2
  <2>3. CASE DelayCur \/ ScheduleCur \/ FinishPass1
    BY <2>3 DEF DelayCur, ScheduleCur, FinishPass1
  <2>4. ASSUME NEW r \in Reqs,
               Ignore(r) \/ SequenceLimit(r) \/ BatchLimit(r) \/ Schedule(r)
                  \/ GiveUp(r) \/ StartEviction(r)
        PROVE  pc' # "crashed"
    BY <2>4 DEF Ignore, SequenceLimit, BatchLimit, Schedule, GiveUp, StartEviction, Stop
  <2>5. ASSUME NEW v \in Reqs, NEW d \in Reqs, DiscardSwapped(v, d)
        PROVE  pc' # "crashed"
    BY <2>5 DEF DiscardSwapped
  <2> QED
    BY <1>5, <2>1, <2>2, <2>3, <2>4, <2>5 DEF PassPhase
<1> QED
  BY <1>1, <1>2, <1>3, <1>4, <1>5 DEF Next, Step

\* schedule() raises nothing, unless the preemption loop discards a request
\* that it is scheduling or has scheduled: neither the KeyError of a missing
\* table, at its begin or end, nor the ValueError of passive_discard_by_order.
THEOREM ScheduleNeverRaises ==
    Spec /\ [][~CurDiscarded]_vars /\ [][~ScheduledDiscarded]_vars => [](pc # "crashed")
<1>1. Init => RunInv /\ pc # "crashed"
  BY RunInit DEF Init
<1>2. (CountInv /\ TableInv) /\ RunInv /\ [Next]_vars /\ [~ScheduledDiscarded]_vars => RunInv'
  BY RunNext
<1>3. (CountInv /\ TableInv) /\ RunInv /\ VictimsHoldBlocks /\ pc # "crashed" /\ [Next]_vars
        => (pc # "crashed")'
  BY RaisesNothing
<1> QED
  BY <1>1, <1>2, <1>3, TableInvariant, VictimsHold, PTL DEF Spec

-----------------------------------------------------------------------------
(* Without swapping nothing is ever on the CPU, and no swapped request can *)
(* be discarded.                                                           *)

\* classify() never answers "swap".
NoSwaps == \A c \in Classes : c.strategy # "swap"

NoSwapInv ==
    /\ swapped = {}
    /\ \A r \in Reqs : mode[r] # "SWAP" /\ class[r].strategy # "swap"

\* Without swaps the queue of the swapped stays empty, and nothing is
\* discarded from it.
LEMMA NoSwapNext ==
    ASSUME NoSwaps, CountInv, NoSwapInv, [Next]_vars
    PROVE  NoSwapInv' /\ ~\E v, d \in Reqs : DiscardSwapped(v, d)
<1> USE DEF requests, data, memory, queues, pass, evicting
<1>1. ASSUME NEW v \in Reqs, NEW d \in Reqs, DiscardSwapped(v, d) PROVE FALSE
  BY <1>1 DEF DiscardSwapped, DiscardList, NoSwapInv
<1>2. ASSUME UNCHANGED <<swapped, mode, class>> PROVE NoSwapInv'
  BY <1>2 DEF NoSwapInv
<1>3. ASSUME UNCHANGED vars PROVE NoSwapInv'
  <2>1. UNCHANGED <<swapped, mode, class>>
    BY <1>3 DEF vars
  <2> QED
    BY <1>2, <2>1
<1>4. ASSUME NEW r \in Reqs, Classify(r)
      PROVE  \A s \in Reqs : class'[s].strategy # "swap"
  BY <1>4 DEF Classify, NoSwaps, NoSwapInv, CountInv, TypeOK
<1>5. ASSUME NEW r \in Reqs, AddRequest(r) PROVE NoSwapInv'
  BY <1>4, <1>5 DEF AddRequest, NoSwapInv
<1>6. ASSUME NEW r \in Reqs, AbortRequest(r) PROVE NoSwapInv'
  BY <1>6 DEF AbortRequest, NoSwapInv
<1>7. ASSUME NEW r \in Reqs, NEW n \in ApiRets, NEW single \in BOOLEAN,
             ResumeRequest(r, n, single)
      PROVE  NoSwapInv'
  <2>1. /\ Classify(r) /\ mode' = [mode EXCEPT ![r] = "none"]
        /\ swapped' = swapped \/ mode[r] = "SWAP"
    BY <1>7 DEF ResumeRequest
  <2> QED
    BY <1>4, <2>1 DEF NoSwapInv, CountInv, TypeOK
<1>8. ASSUME StartSchedule PROVE NoSwapInv'
  <2>1. UNCHANGED <<mode, class>> /\ swapped' \subseteq swapped
    BY <1>8 DEF StartSchedule, ActiveDiscard, PreemptByRecompute
  <2> QED
    BY <2>1 DEF NoSwapInv
<1>9. ASSUME NEW r \in Reqs, Demote(r) PROVE NoSwapInv'
  BY <1>9 DEF Demote, PauseByRecompute, NoSwapInv, CountInv, TypeOK
<1>10. ASSUME NEW v \in Reqs, Evict(v) PROVE NoSwapInv'
  BY <1>10 DEF Evict, DiscardVictim, PauseByRecompute, PreemptByRecompute, NoSwapInv,
               CountInv, TypeOK
<1>11. ASSUME FinishPass2 PROVE NoSwapInv'
  <2>1. UNCHANGED <<mode, class>> /\ swapped' \subseteq swapped
    BY <1>11 DEF FinishPass2
  <2> QED
    BY <2>1 DEF NoSwapInv
<1>12. ASSUME NEW r \in Reqs, CallApi(r) \/ StopRequest(r) \/ Continue(r) PROVE NoSwapInv'
  BY <1>12 DEF CallApi, StopRequest, Continue, AppendToken, NoSwapInv, CountInv, TypeOK
<1>13. ASSUME StartPass1 \/ PostForward \/ FinishStep \/ DelayCur \/ ScheduleCur \/ FinishPass1 PROVE NoSwapInv'
  <2>1. UNCHANGED <<swapped, mode, class>>
    BY <1>13 DEF StartPass1, PostForward, FinishStep, DelayCur, ScheduleCur, FinishPass1
  <2> QED
    BY <1>2, <2>1
<1>14. ASSUME NEW r \in Reqs, Ignore(r) \/ SequenceLimit(r) \/ BatchLimit(r) \/ Schedule(r)
                              \/ GiveUp(r) \/ StartEviction(r)
       PROVE  NoSwapInv'
  BY <1>2, <1>14 DEF Ignore, SequenceLimit, BatchLimit, Schedule, GiveUp, StartEviction
<1>15. Client => NoSwapInv'
  BY <1>5, <1>6, <1>7 DEF Client
<1>16. PausePhase \/ OutputPhase => NoSwapInv'
  BY <1>8, <1>9, <1>12, <1>13 DEF PausePhase, OutputPhase
<1>17. PassPhase => NoSwapInv'
  BY <1>1, <1>10, <1>11, <1>13, <1>14 DEF PassPhase
<1> QED
  BY <1>1, <1>3, <1>15, <1>16, <1>17 DEF Next, Step

\* When classify() never answers "swap", the conditions of the theorems above
\* always hold: no request is lost, schedule() raises nothing, and the block
\* manager is called in the order that the copies of the worker need.
THEOREM SafeWithoutSwaps ==
    ASSUME NoSwaps
    PROVE  Spec => /\ []OneQueue /\ []VictimsHoldBlocks /\ FollowsProtocol
                   /\ [](pc # "crashed")
<1>1. Init => NoSwapInv
  BY DEF Init, NoSwapInv
<1>2. CountInv /\ NoSwapInv /\ [Next]_vars
        => /\ NoSwapInv'
           /\ [~CurDiscarded]_vars /\ [~IgnoredDiscarded]_vars /\ [~ScheduledDiscarded]_vars
  BY NoSwapNext DEF CurDiscarded, IgnoredDiscarded, ScheduledDiscarded
<1>3. Spec => [][~CurDiscarded]_vars /\ [][~IgnoredDiscarded]_vars
              /\ [][~ScheduledDiscarded]_vars
  BY <1>1, <1>2, CountsCorrect, PTL DEF Spec
<1> QED
  BY <1>3, QueuesKept, VictimsHold, ProtocolKept, ScheduleNeverRaises, PTL

-----------------------------------------------------------------------------
(* The two block pools.                                                    *)

SumInv ==
    /\ freeGpu + Total(gpu, Reqs) = NumGpu
    /\ freeCpu + Total(cpu, Reqs) = NumCpu
    /\ \A r \in Reqs \ tables : gpu[r] = 0 /\ cpu[r] = 0

\* One table changes at a time.
LEMMA TableTotal ==
    ASSUME NEW blocks \in [Reqs -> Nat], NEW q \in Reqs, NEW n \in Nat
    PROVE  /\ Total([blocks EXCEPT ![q] = n], Reqs) = Total(blocks, Reqs) + n - blocks[q]
           /\ Total(blocks, Reqs) \in Int
<1> DEFINE after == [blocks EXCEPT ![q] = n]
<1>1. /\ blocks \in [Reqs -> Int] /\ after \in [Reqs -> Int] /\ after[q] = n
      /\ \A s \in Reqs \ {q} : after[s] = blocks[s]
  OBVIOUS
<1>2. IsFiniteSet(Reqs)
  BY ReqsFacts
<1>3. Total(blocks, Reqs) \in Int
  BY <1>1, <1>2, TotalType
<1> HIDE DEF after
<1>4. Total(after, Reqs) = Total(blocks, Reqs) + after[q] - blocks[q]
  BY <1>1, <1>2, TotalUpdate
<1> QED
  BY <1>1, <1>3, <1>4 DEF after

\* free returns what it takes from the table.
LEMMA SumFree ==
    ASSUME CountInv, SumInv, NEW r \in Reqs, FreeTable(r)
    PROVE  SumInv'
<1>1. /\ gpu' = [gpu EXCEPT ![r] = 0] /\ cpu' = [cpu EXCEPT ![r] = 0]
      /\ freeGpu' = freeGpu + gpu[r] /\ freeCpu' = freeCpu + cpu[r]
      /\ tables' = tables \ {r}
  BY DEF FreeTable
<1>2. /\ gpu \in [Reqs -> Nat] /\ cpu \in [Reqs -> Nat]
      /\ freeGpu \in Nat /\ freeCpu \in Nat
  BY DEF CountInv, TypeOK
<1>3. /\ Total(gpu', Reqs) = Total(gpu, Reqs) + 0 - gpu[r]
      /\ Total(cpu', Reqs) = Total(cpu, Reqs) + 0 - cpu[r]
      /\ Total(gpu, Reqs) \in Int /\ Total(cpu, Reqs) \in Int
  BY <1>1, <1>2, TableTotal
<1>4. /\ freeGpu' + Total(gpu', Reqs) = NumGpu
      /\ freeCpu' + Total(cpu', Reqs) = NumCpu
  BY <1>1, <1>2, <1>3 DEF SumInv
<1>5. \A s \in Reqs \ tables' : gpu'[s] = 0 /\ cpu'[s] = 0
  BY <1>1, <1>2 DEF SumInv
<1> QED
  BY <1>4, <1>5 DEF SumInv

\* swap_out moves blocks from one pool to the other.
LEMMA SumSwap ==
    ASSUME CountInv, SumInv, NEW r \in Reqs, PauseBySwap(r)
    PROVE  SumInv'
<1>1. /\ gpu' = [gpu EXCEPT ![r] = 0] /\ cpu' = [cpu EXCEPT ![r] = cpu[r] + gpu[r]]
      /\ freeGpu' = freeGpu + gpu[r] /\ freeCpu' = freeCpu - gpu[r]
      /\ tables' = tables
  BY DEF PauseBySwap
<1>2. /\ gpu \in [Reqs -> Nat] /\ cpu \in [Reqs -> Nat]
      /\ freeGpu \in Nat /\ freeCpu \in Nat
      /\ cpu[r] + gpu[r] \in Nat
  BY DEF CountInv, TypeOK
<1>3. /\ Total(gpu', Reqs) = Total(gpu, Reqs) + 0 - gpu[r]
      /\ Total(cpu', Reqs) = Total(cpu, Reqs) + (cpu[r] + gpu[r]) - cpu[r]
      /\ Total(gpu, Reqs) \in Int /\ Total(cpu, Reqs) \in Int
  BY <1>1, <1>2, TableTotal
<1>4. /\ freeGpu' + Total(gpu', Reqs) = NumGpu
      /\ freeCpu' + Total(cpu', Reqs) = NumCpu
  BY <1>1, <1>2, <1>3 DEF SumInv
<1>5. \A s \in Reqs \ tables' : gpu'[s] = 0 /\ cpu'[s] = 0
  BY <1>1, <1>2 DEF SumInv
<1> QED
  BY <1>4, <1>5 DEF SumInv

\* allocate takes from the GPU pool what the table gains.
LEMMA SumAllocate ==
    ASSUME CountInv, SumInv, NEW r \in Reqs, NEW w \in [swap : Nat, tokens : Nat],
           Allocate(r, w)
    PROVE  SumInv'
<1> DEFINE new == InflightBlocks(r, w.tokens)
           in  == Smaller(w.swap, cpu[r])
<1>1. new \in Nat /\ in \in Nat /\ in <= cpu[r]
  BY InflightBlocksNat DEF CountInv, TypeOK, Smaller
<1>2. /\ tables' = tables \cup {r}
      /\ gpu' = [gpu EXCEPT ![r] = gpu[r] + in + new]
      /\ cpu' = [cpu EXCEPT ![r] = cpu[r] - in]
      /\ freeGpu' = freeGpu - in - new
      /\ freeCpu' = freeCpu + in
  BY DEF Allocate
<1> HIDE DEF new, in
<1>3. /\ gpu \in [Reqs -> Nat] /\ cpu \in [Reqs -> Nat]
      /\ freeGpu \in Nat /\ freeCpu \in Nat
      /\ gpu[r] \in Nat /\ cpu[r] \in Nat
      /\ gpu[r] + in + new \in Nat /\ cpu[r] - in \in Nat
  BY <1>1 DEF CountInv, TypeOK
<1>4. /\ Total(gpu', Reqs) = Total(gpu, Reqs) + (gpu[r] + in + new) - gpu[r]
      /\ Total(cpu', Reqs) = Total(cpu, Reqs) + (cpu[r] - in) - cpu[r]
      /\ Total(gpu, Reqs) \in Int /\ Total(cpu, Reqs) \in Int
  BY <1>2, <1>3, TableTotal
<1>5. /\ freeGpu' + Total(gpu', Reqs) = NumGpu
      /\ freeCpu' + Total(cpu', Reqs) = NumCpu
  BY <1>1, <1>2, <1>3, <1>4 DEF SumInv
<1>6. \A s \in Reqs \ tables' : gpu'[s] = 0 /\ cpu'[s] = 0
  BY <1>2, <1>3 DEF SumInv
<1> QED
  BY <1>5, <1>6 DEF SumInv

\* No step of the scheduler touches the pools but by these three.
LEMMA MemorySteps ==
    ASSUME CountInv, [Next]_vars
    PROVE  \/ UNCHANGED memory
           \/ \E r \in Reqs :
                 \/ FreeTable(r) \/ PauseBySwap(r)
                 \/ \E w \in [swap : Nat, tokens : Nat] : Allocate(r, w)
<1>1. ASSUME NEW r \in Reqs, DiscardVictim(r) \/ PreemptByRecompute(r) \/ PauseByRecompute(r)
      PROVE  FreeTable(r)
  BY <1>1 DEF DiscardVictim, PreemptByRecompute, PauseByRecompute, Discard
<1>2. CASE UNCHANGED vars
  BY <1>2 DEF vars, memory
<1>3. CASE Client
  BY <1>3 DEF Client, AddRequest, AbortRequest, ResumeRequest, memory
<1>4. CASE PausePhase
  <2>1. swapped \subseteq Reqs
    BY DEF CountInv, TypeOK
  <2> QED
    BY <1>1, <1>4, <2>1 DEF PausePhase, StartSchedule, ActiveDiscard, Demote, StartPass1
<1>5. CASE OutputPhase
  BY <1>5 DEF OutputPhase, PostForward, CallApi, StopRequest, Continue, FinishStep
<1>6. CASE PassPhase
  <2>1. ASSUME NEW r \in Reqs,
               Ignore(r) \/ SequenceLimit(r) \/ BatchLimit(r) \/ GiveUp(r) \/ StartEviction(r)
        PROVE  UNCHANGED memory
    BY <2>1 DEF Ignore, SequenceLimit, BatchLimit, GiveUp, StartEviction
  <2>2. ASSUME NEW r \in Reqs, Schedule(r)
        PROVE  \E w \in [swap : Nat, tokens : Nat] : Allocate(r, w)
    BY <2>2, WorkloadFacts DEF Schedule
  <2>3. ASSUME ScheduleCur
        PROVE  \E r \in Reqs : \E w \in [swap : Nat, tokens : Nat] : Allocate(r, w)
    BY <2>3 DEF ScheduleCur, InLoop, CountInv, TypeOK
  <2>4. ASSUME NEW v \in Reqs, Evict(v) PROVE UNCHANGED memory \/ FreeTable(v)
    BY <1>1, <2>4 DEF Evict
  <2>5. ASSUME NEW v \in Reqs, NEW d \in Reqs, DiscardSwapped(v, d) PROVE FreeTable(d)
    BY <1>1, <2>5 DEF DiscardSwapped
  <2>6. DelayCur \/ FinishPass1 \/ FinishPass2 => UNCHANGED memory
    BY DEF DelayCur, FinishPass1, FinishPass2
  <2> QED
    BY <1>6, <2>1, <2>2, <2>3, <2>4, <2>5, <2>6 DEF PassPhase
<1> QED
  BY <1>2, <1>3, <1>4, <1>5, <1>6 DEF Next, Step

\* The blocks of the tables and of the pools add up in every state.
LEMMA SumInvariant == Spec => []SumInv
<1>1. Init => SumInv
  <2> SUFFICES ASSUME Init PROVE SumInv
    OBVIOUS
  <2>1. /\ \A r \in Reqs : gpu[r] = 0 /\ cpu[r] = 0
        /\ freeGpu = NumGpu /\ freeCpu = NumCpu
    BY DEF Init
  <2>2. Total(gpu, Reqs) = 0 /\ Total(cpu, Reqs) = 0
    BY <2>1, ReqsFacts, TotalZero
  <2> QED
    BY <2>1, <2>2, SizesAssumption DEF SumInv
<1>2. CountInv /\ SumInv /\ [Next]_vars => SumInv'
  <2> SUFFICES ASSUME CountInv, SumInv, [Next]_vars PROVE SumInv'
    OBVIOUS
  <2>1. CASE UNCHANGED memory
    BY <2>1 DEF memory, SumInv
  <2> QED
    BY <2>1, MemorySteps, SumFree, SumSwap, SumAllocate
<1> QED
  BY <1>1, <1>2, CountsCorrect, PTL DEF Spec

\* The free blocks and those of the block tables always add up to the two
\* pools, and what has no table has no blocks: BlocksConserved, which
\* SchedSmallCpu checks.
THEOREM BlocksKept == Spec => []BlocksConserved
<1>1. SumInv => BlocksConserved
  BY DEF SumInv, BlocksConserved, Total
<1> QED
  BY <1>1, SumInvariant, PTL

-----------------------------------------------------------------------------
(* Empty batches.                                                          *)

\* A request that became too long is ignored and keeps its blocks: _schedule
\* drops it without freeing its table.
IgnoredHolding == \E r \in Reqs : Ignore(r) /\ gpu[r] > 0

\* Whatever is short enough to be served fits the GPU on its own.
AllFit == \A r \in Reqs : len[r] <= MaxModelLen => Token2Block(len[r]) <= NumGpu

\* Only what runs or is paused on the GPU has blocks there.
GpuInv == pc # "crashed" => \A r \in Reqs : gpu[r] > 0 =>
    /\ status[r] \notin Finished
    /\ \/ mode[r] = "PRESERVE" \/ r \in running \/ r \in scheduled
       \/ pc \in {"pass1", "after1"} /\ r \in Handled

\* What is required in the middle of an eviction
NeedInv ==
    /\ cur = 0 => need = 0
    /\ pc = "pass2" /\ need > 0 => victims # {}
    /\ cur # 0 => newBlocks <= NumGpu

\* As long as nothing is scheduled, only the memory of the paused delays.
EmptyInv ==
    /\ pc # "after1"
    /\ pc = "after2" => delayed # {}
    /\ pc = "pass1" => seqLimit = MaxNumSeqs
    /\ scheduled = {} =>
         /\ pc \in {"pause", "pass1", "pass2", "after2"} => batchLeft = BatchMax
         /\ pc = "pass1" => delayed = {}
         /\ pc \in {"pass2", "after2"} =>
               /\ seqLimit = MaxNumSeqs /\ running = {}
               /\ delayed # {} => PausedOnGpu # {} /\ victims = {}

\* A request of legal length never needs more than the whole GPU.
LEMMA FitsAlone ==
    ASSUME CountInv, TableInv, AllFit, NEW r \in Reqs, Live(r), r \notin scheduled,
           len[r] <= MaxModelLen
    PROVE  MemoryRequirement(r, Workload(r)) <= NumGpu
<1> DEFINE n == Workload(r).tokens
<1>1. n \in Nat /\ n <= inflight[r] /\ Workload(r).swap = swapLen[r]
  BY WorkloadFacts
<1> HIDE DEF n
<1>2. /\ Computed(r) \in Nat /\ len[r] \in Nat
      /\ Computed(r) + n \in Nat /\ Computed(r) + n <= len[r]
  BY <1>1 DEF CountInv, TypeOK, Computed
<1>3. /\ Token2Block(Computed(r)) \in Nat /\ Token2Block(Computed(r) + n) \in Nat
      /\ Token2Block(len[r]) \in Nat
      /\ Token2Block(Computed(r) + n) <= Token2Block(len[r])
  BY <1>2, Token2BlockNat, Token2BlockMonotonic
<1>4. swapLen[r] \in Nat /\ swapLen[r] <= Token2Block(Computed(r))
  BY DEF TableInv, TableMatchesData, CountInv, TypeOK
<1>5. Token2Block(len[r]) <= NumGpu
  BY DEF AllFit
<1>6. MemoryRequirement(r, Workload(r))
        = swapLen[r] + (Token2Block(Computed(r) + n) - Token2Block(Computed(r)))
  BY <1>1 DEF MemoryRequirement, InflightBlocks, n
<1> QED
  BY <1>3, <1>4, <1>5, <1>6, SizesAssumption

\* With nothing running, scheduled or paused on it, the GPU is free.
LEMMA AllFree ==
    ASSUME CountInv, SumInv, GpuInv, pc \in {"pass2", "after2"},
           running = {}, scheduled = {}, PausedOnGpu = {}
    PROVE  freeGpu = NumGpu
<1>1. \A r \in Reqs : gpu[r] = 0
  BY DEF GpuInv, PausedOnGpu, CountInv, TypeOK
<1>2. Total(gpu, Reqs) = 0
  BY <1>1, ReqsFacts, TotalZero
<1> QED
  BY <1>2 DEF SumInv, CountInv, TypeOK

\* A discard takes the GPU blocks of one request only.
LEMMA DiscardGpu ==
    ASSUME CountInv, NEW d \in Reqs, DiscardVictim(d)
    PROVE  /\ gpu' = [gpu EXCEPT ![d] = 0]
           /\ \A s \in Reqs \ {d} : mode'[s] = mode[s] /\ status'[s] = status[s]
BY DEF DiscardVictim, PauseByRecompute, PreemptByRecompute, Discard, FreeTable,
       CountInv, TypeOK

\* The steps of a pass keep GpuInv.
LEMMA GpuPassPhase ==
    ASSUME CountInv, TableInv, GpuInv, PassPhase, ~IgnoredHolding
    PROVE  GpuInv'
<1> USE DEF requests, data, memory, queues, pass, evicting
<1>0. pc # "crashed"
  BY DEF PassPhase, Ignore, SequenceLimit, BatchLimit, Schedule, GiveUp, StartEviction,
         Evict, DiscardSwapped, DelayCur, ScheduleCur, FinishPass1, FinishPass2, IsNext,
         Eligible, IsVictim, Evicting, InLoop, PassOver
<1>1. ASSUME NEW r \in Reqs, Ignore(r) PROVE GpuInv'
  <2>1. gpu[r] = 0
    BY <1>1 DEF IgnoredHolding, CountInv, TypeOK
  <2>2. /\ UNCHANGED <<gpu, mode, running, scheduled, pc, delayed, cur>>
        /\ targets' = targets \ {r}
        /\ \A s \in Reqs \ {r} : status'[s] = status[s]
    BY <1>1 DEF Ignore, CountInv, TypeOK
  <2> QED
    BY <1>0, <2>1, <2>2 DEF GpuInv, Handled
<1>2. ASSUME NEW r \in Reqs, SequenceLimit(r) \/ BatchLimit(r) \/ GiveUp(r) \/ StartEviction(r)
      PROVE  GpuInv'
  <2>1. /\ UNCHANGED <<gpu, mode, status, running, scheduled>> /\ Handled \subseteq Handled'
        /\ pc \in {"pass1", "pass2"} /\ (pc = "pass1" => pc' \in {"pass1", "after1"})
    BY <1>2, ReqsFacts DEF SequenceLimit, BatchLimit, GiveUp, StartEviction, Eligible, IsNext,
                           Stop, Handled
  <2> QED
    BY <2>1 DEF GpuInv
<1>3. ASSUME NEW r \in Reqs, NEW w, Allocate(r, w), UNCHANGED <<mode, running, pc>>,
             Handled' = Handled
      PROVE  GpuInv'
  <2>1. /\ scheduled' = scheduled \cup {r} /\ status' = [status EXCEPT ![r] = "RUNNING"]
        /\ \A s \in Reqs \ {r} : gpu'[s] = gpu[s]
    BY <1>3 DEF Allocate, CountInv, TypeOK
  <2> QED
    BY <1>0, <1>3, <2>1 DEF GpuInv, Finished, CountInv, TypeOK
<1>4. ASSUME NEW r \in Reqs, Schedule(r) PROVE GpuInv'
  <2>1. Handled' = Handled
    BY <1>4 DEF Schedule, Eligible, IsNext, Allocate, Handled
  <2> QED
    BY <1>3, <1>4, <2>1 DEF Schedule
<1>5. CASE ScheduleCur
  <2>1. cur \in Reqs /\ Handled' = Handled
    BY <1>5 DEF ScheduleCur, InLoop, Allocate, Handled, CountInv, TypeOK
  <2> QED
    BY <1>3, <1>5, <2>1 DEF ScheduleCur
<1>6. ASSUME NEW v \in Reqs, Evict(v) PROVE GpuInv'
  <2>1. /\ UNCHANGED <<running, scheduled>> /\ pc' \in {pc, "crashed"}
        /\ \A s \in Reqs \ {v} : s \in Handled => s \in Handled'
    BY <1>6 DEF Evict, Handled
  <2>2. CASE gpu[v] > 0
    <3>1. DiscardVictim(v)
      BY <1>6, <2>2 DEF Evict
    <3>2. gpu'[v] = 0 /\ \A s \in Reqs \ {v} : /\ gpu'[s] = gpu[s] /\ mode'[s] = mode[s]
                                               /\ status'[s] = status[s]
      BY <3>1, DiscardGpu DEF CountInv, TypeOK
    <3> QED
      BY <1>0, <2>1, <3>2 DEF GpuInv
  <2>3. CASE ~(gpu[v] > 0)
    BY <1>0, <1>6, <2>1, <2>3 DEF Evict, GpuInv
  <2> QED
    BY <2>2, <2>3
<1>7. ASSUME NEW v \in Reqs, NEW d \in Reqs, DiscardSwapped(v, d) PROVE GpuInv'
  <2>1. /\ UNCHANGED <<running, scheduled, targets, delayed, cur, pc>> /\ DiscardVictim(d)
    BY <1>7 DEF DiscardSwapped
  <2> QED
    BY <1>0, <2>1, DiscardGpu DEF GpuInv, Handled, CountInv, TypeOK
<1>8. CASE DelayCur
  BY <1>0, <1>8 DEF DelayCur, GpuInv, Handled
<1>9. CASE FinishPass1
  <2>1. /\ UNCHANGED <<gpu, status, mode, scheduled>> /\ cur = 0
        /\ running' = targets \cup scheduled \cup delayed
        /\ running = {}
    BY <1>9 DEF FinishPass1, PassOver, TableInv, PhaseInv, CountInv, CurInv
  <2> QED
    BY <1>0, <2>1 DEF GpuInv, Handled
<1>10. CASE FinishPass2
  <2>1. /\ UNCHANGED <<gpu, status, mode, scheduled>> /\ running' = running \cup scheduled
        /\ pc \in {"pass2", "after2"}
    BY <1>10 DEF FinishPass2, PassOver
  <2> QED
    BY <2>1 DEF GpuInv
<1> QED
  BY <1>1, <1>2, <1>4, <1>5, <1>6, <1>7, <1>8, <1>9, <1>10 DEF PassPhase

\* The other steps keep GpuInv: what a request had swapped out or discarded
\* when it was paused is not on the GPU when its API call returns.
LEMMA GpuOthers ==
    ASSUME CountInv, TableInv, QueueInv, SumInv, GpuInv, Client \/ PausePhase \/ OutputPhase
    PROVE  GpuInv'
<1> USE DEF requests, data, memory, queues, pass, evicting
<1>0. /\ \A r \in Reqs : mode[r] \in {"SWAP", "RECOMPUTE"} => ~(gpu[r] > 0)
      /\ \A r \in Reqs : mode[r] \in {"none", "PRESERVE", "SWAP", "RECOMPUTE"}
  BY DEF TableInv, ModeMatchesBlocks, Paused, SumInv, CountInv, TypeOK, Modes
<1>1. ASSUME NEW r \in Reqs, AddRequest(r) PROVE GpuInv'
  BY <1>1 DEF AddRequest, GpuInv, Handled, Finished, CountInv, TypeOK
<1>2. ASSUME NEW r \in Reqs, AbortRequest(r) PROVE GpuInv'
  BY <1>2 DEF AbortRequest, FreeTable, GpuInv, Handled, CountInv, TypeOK
<1>3. ASSUME NEW r \in Reqs, NEW n \in ApiRets, NEW single \in BOOLEAN,
             ResumeRequest(r, n, single)
      PROVE  GpuInv'
  <2>1. /\ UNCHANGED <<gpu, scheduled, pc>> /\ pc \in {"idle", "execute"}
        /\ mode[r] # "none" /\ mode' = [mode EXCEPT ![r] = "none"]
        /\ mode[r] = "PRESERVE" => r \in running' /\ status'[r] = "RUNNING"
        /\ \A s \in Reqs \ {r} : status'[s] = status[s] /\ (s \in running => s \in running')
    BY <1>3 DEF ResumeRequest, CountInv, TypeOK
  <2> QED
    BY <1>0, <2>1 DEF GpuInv, Finished, CountInv, TypeOK
<1>4. CASE StartSchedule
  <2>1. /\ pc = "idle" /\ pc' \in {"pause", "crashed"} /\ UNCHANGED <<running, scheduled>>
    BY <1>4 DEF StartSchedule
  <2>2. ASSUME NEW r \in swapped, PreemptByRecompute(r) PROVE GpuInv'
    <3>1. r \in Reqs /\ UNCHANGED mode /\ gpu' = [gpu EXCEPT ![r] = 0]
          /\ \A s \in Reqs \ {r} : status'[s] = status[s]
      BY <2>2 DEF PreemptByRecompute, Discard, FreeTable, CountInv, TypeOK
    <3> QED
      BY <2>1, <3>1 DEF GpuInv, CountInv, TypeOK
  <2>3. CASE UNCHANGED <<waiting, swapped, mode, status, data, memory>>
    BY <2>1, <2>3 DEF GpuInv
  <2> QED
    BY <1>4, <2>2, <2>3 DEF StartSchedule, ActiveDiscard
<1>5. ASSUME NEW r \in Reqs, Demote(r) PROVE GpuInv'
  BY <1>5 DEF Demote, PauseByRecompute, PauseBySwap, Discard, FreeTable, GpuInv,
              CountInv, TypeOK
<1>6. CASE StartPass1
  BY <1>6 DEF StartPass1, GpuInv, Handled
<1>7. CASE PostForward
  BY <1>7 DEF PostForward, GpuInv, TableInv, PhaseInv
<1>8. ASSUME NEW r \in Reqs, CallApi(r) \/ StopRequest(r) \/ Continue(r) PROVE GpuInv'
  <2>1. /\ pc = "process" /\ UNCHANGED <<running, scheduled, pc>>
        /\ \A s \in Reqs \ {r} : /\ status'[s] = status[s] /\ mode'[s] = mode[s]
                                 /\ gpu'[s] = gpu[s]
        /\ \/ gpu'[r] = 0
           \/ status'[r] = "PAUSED_API" /\ mode'[r] = "PRESERVE"
           \/ status'[r] = status[r] /\ mode'[r] = mode[r] /\ gpu'[r] = gpu[r]
    BY <1>8 DEF CallApi, StopRequest, Continue, AppendToken, FreeTable, CountInv, TypeOK
  <2> QED
    BY <2>1 DEF GpuInv, Finished
<1>9. CASE FinishStep
  <2>1. /\ pc = "process" /\ pc' = "idle" /\ UNCHANGED <<gpu, status, mode, scheduled>>
        /\ running' = {r \in running : status[r] \notin Finished \cup {"PAUSED_API"}}
    BY <1>9 DEF FinishStep
  <2>2. \A r \in Reqs : status[r] = "PAUSED_API" /\ gpu[r] > 0 => mode[r] = "PRESERVE"
    BY <1>0 DEF QueueInv, MemberInv
  <2> QED
    BY <2>1, <2>2 DEF GpuInv
<1> QED
  BY <1>1, <1>2, <1>3, <1>4, <1>5, <1>6, <1>7, <1>8, <1>9 DEF Client, PausePhase, OutputPhase

\* In the first pass there is always somebody to evict, cur in the end.
LEMMA AlwaysVictims ==
    ASSUME CountInv, TableInv, pc = "pass1", cur # 0
    PROVE  LastVictims # {}
<1>1. VictimList \in SUBSET Reqs /\ VictimList # {}
  BY DEF VictimList, SelfPreempt, CountInv, TypeOK
<1> QED
  BY <1>1, YoungestExists DEF LastVictims

\* cur is the last victim of its own list.
LEMMA CurLast ==
    ASSUME CountInv, TableInv, cur # 0, cur \in VictimList
    PROVE  VictimList = {cur}
<1>1. cur \in Reqs /\ cur \notin targets /\ cur \notin delayed /\ mode[cur] = "none"
  BY DEF CountInv, TypeOK, TableInv, PlaceInv, Handled
<1>2. cur \notin victims
  BY <1>1 DEF TableInv, VictimInv
<1> QED
  BY <1>1, <1>2 DEF VictimList

\* A target that waits for blocks needs no more than the GPU has.
LEMMA NeedNext ==
    ASSUME CountInv, TableInv, AllFit, NeedInv, [Next]_vars
    PROVE  NeedInv'
<1> USE DEF requests, data, memory, queues, pass, evicting
<1>1. ASSUME UNCHANGED <<cur, newBlocks, need>>, pc' # "pass2" \/ cur = 0 PROVE NeedInv'
  BY <1>1 DEF NeedInv
<1>2. ASSUME UNCHANGED <<cur, newBlocks, need, pc, victims>> PROVE NeedInv'
  BY <1>2 DEF NeedInv
<1>3. CASE UNCHANGED vars
  BY <1>2, <1>3 DEF vars
<1>4. CASE Client
  BY <1>2, <1>4 DEF Client, AddRequest, AbortRequest, ResumeRequest
<1>5. CASE PausePhase
  BY <1>1, <1>5 DEF PausePhase, StartSchedule, Demote, StartPass1
<1>6. CASE OutputPhase
  BY <1>1, <1>6 DEF OutputPhase, PostForward, CallApi, StopRequest, Continue, AppendToken,
                    FinishStep
<1>7. ASSUME NEW r \in Reqs, Ignore(r) \/ SequenceLimit(r) \/ BatchLimit(r) \/ Schedule(r)
                             \/ GiveUp(r)
      PROVE  NeedInv'
  <2>1. cur = 0 /\ UNCHANGED <<cur, newBlocks, need>>
    BY <1>7 DEF Ignore, SequenceLimit, BatchLimit, Schedule, GiveUp, Eligible, IsNext
  <2> QED
    BY <1>1, <2>1
<1>8. ASSUME NEW r \in Reqs, StartEviction(r) PROVE NeedInv'
  <2>1. /\ r \in targets /\ cur = 0 /\ len[r] <= MaxModelLen /\ UNCHANGED need
        /\ cur' = r /\ newBlocks' = MemoryRequirement(r, Workload(r))
    BY <1>8 DEF StartEviction, Eligible, IsNext
  <2>2. Live(r) /\ r \notin scheduled
    BY <2>1 DEF TableInv, LiveInv, PlaceInv, Handled
  <2>3. newBlocks' <= NumGpu
    BY <2>1, <2>2, FitsAlone
  <2> QED
    BY <2>1, <2>3, ReqsFacts DEF NeedInv
<1>9. ASSUME NEW v \in Reqs, Evict(v) PROVE NeedInv'
  <2>1. /\ IsVictim(v) /\ victims' = victims \ {v}
        /\ need' = (IF VictimList = {v} THEN 0 ELSE Larger(0, Required - gpu[v]))
        /\ cur' = (IF v = cur THEN 0 ELSE cur)
        /\ newBlocks' = (IF v = cur THEN 0 ELSE newBlocks)
        /\ pc' \in {pc, "crashed"}
    BY <1>9 DEF Evict
  <2>2. /\ cur # 0 /\ cur \in Reqs /\ v \in VictimList
    BY <2>1, VictimPlace DEF IsVictim, LastVictims, Youngest
  <2>3. v = cur => need' = 0
    BY <2>1, <2>2, CurLast
  <2>4. pc' = "pass2" => VictimList = victims /\ v \in victims
    BY <2>1, <2>2, VictimPlace DEF VictimList
  <2>5. victims' = {} /\ pc' = "pass2" => need' = 0
    BY <2>1, <2>4
  <2> QED
    BY <2>1, <2>2, <2>3, <2>5 DEF NeedInv, CountInv, TypeOK
<1>10. ASSUME NEW v \in Reqs, NEW d \in Reqs, DiscardSwapped(v, d) PROVE NeedInv'
  <2>1. /\ IsVictim(v) /\ UNCHANGED <<cur, newBlocks, pc, victims>>
    BY <1>10 DEF DiscardSwapped
  <2> QED
    BY <2>1, VictimPlace DEF NeedInv
<1>11. CASE DelayCur
  <2>1. /\ Evicting /\ LastVictims = {} /\ cur' = 0 /\ UNCHANGED <<need, pc, victims>>
    BY <1>11 DEF DelayCur
  <2>2. pc = "pass2" /\ cur # 0
    BY <2>1, AlwaysVictims DEF Evicting, InLoop
  <2>3. victims = {}
    BY <2>1 DEF LastVictims, VictimList
  <2>4. need \in Nat /\ ~(need > 0)
    BY <2>2, <2>3 DEF NeedInv, CountInv, TypeOK
  <2> QED
    BY <2>1, <2>4 DEF NeedInv
<1>12. CASE ScheduleCur
  BY <1>12 DEF ScheduleCur, InLoop, Evicting, NeedInv, CountInv, TypeOK
<1>13. CASE FinishPass1 \/ FinishPass2
  <2>1. cur = 0
    BY <1>13 DEF FinishPass1, FinishPass2, PassOver, CountInv, CurInv
  <2> QED
    BY <1>1, <1>13, <2>1 DEF FinishPass1, FinishPass2
<1> QED
  BY <1>3, <1>4, <1>5, <1>6, <1>7, <1>8, <1>9, <1>10, <1>11, <1>12, <1>13
     DEF Next, Step, PassPhase

\* The batch and the number of sequences let one request through.
LimitsPositive == BatchMax >= 1 /\ MaxNumSeqs >= 1

\* A target of an empty pass is stopped by neither limit, and is given up
\* only where a paused request has the memory.
LEMMA EmptyTargets ==
    ASSUME LimitsPositive, CountInv, TableInv, QueueInv, SumInv, AllFit, GpuInv, EmptyInv,
           scheduled = {}, NEW r \in Reqs, IsNext(r), len[r] <= MaxModelLen
    PROVE  /\ seqLimit >= 1 /\ Workload(r) # NoWork
           /\ pc = "pass2" /\ ~Fits(r) => PausedOnGpu # {}
<1>1. r \in targets /\ pc \in {"pass1", "pass2"} /\ cur = 0
  BY DEF IsNext
<1>2. seqLimit >= 1 /\ batchLeft >= 1
  BY <1>1 DEF EmptyInv, LimitsPositive
<1>3. Live(r) /\ r \notin sampled
  BY <1>1 DEF TableInv, LiveInv, PhaseInv, Handled
<1>4. inflight[r] > 0
  BY <1>3 DEF QueueInv, WorkLeftInv, Live
<1>5. Workload(r) # NoWork
  BY <1>2, <1>4 DEF Workload, NoWork, Smaller, CountInv, TypeOK
<1>6. ASSUME pc = "pass2", ~Fits(r), PausedOnGpu = {} PROVE FALSE
  <2>1. freeGpu = NumGpu
    BY <1>6, AllFree DEF EmptyInv
  <2>2. MemoryRequirement(r, Workload(r)) <= NumGpu
    BY <1>3, FitsAlone
  <2> QED
    BY <1>6, <2>1, <2>2 DEF Fits
<1> QED
  BY <1>2, <1>5, <1>6

\* As long as nothing is scheduled, every step leaves only the memory of the
\* paused to delay a request.
LEMMA EmptyNext ==
    ASSUME LimitsPositive, CountInv, TableInv, QueueInv, SumInv, AllFit, GpuInv, NeedInv,
           EmptyInv, [Next]_vars
    PROVE  EmptyInv'
<1> USE DEF requests, data, memory, queues, pass, evicting
<1>1. ASSUME UNCHANGED <<pc, delayed, seqLimit, scheduled, batchLeft, running, victims>>,
             PausedOnGpu' = PausedOnGpu
      PROVE  EmptyInv'
  BY <1>1 DEF EmptyInv
<1>2. ASSUME pc' \in {"idle", "execute", "process", "crashed"} PROVE EmptyInv'
  BY <1>2 DEF EmptyInv
<1>3. ASSUME UNCHANGED <<pc, seqLimit, running>>, pc \in {"pass1", "pass2"}, scheduled' # {}
      PROVE  EmptyInv'
  BY <1>3 DEF EmptyInv
<1>4. CASE UNCHANGED vars
  BY <1>1, <1>4 DEF vars, PausedOnGpu
<1>5. CASE Client
  BY <1>2, <1>5 DEF Client, AddRequest, AbortRequest, ResumeRequest
<1>6. CASE StartSchedule
  BY <1>6 DEF StartSchedule, EmptyInv
<1>7. ASSUME NEW r \in Reqs, Demote(r) PROVE EmptyInv'
  BY <1>7 DEF Demote, EmptyInv
<1>8. CASE StartPass1
  BY <1>8 DEF StartPass1, EmptyInv, TableInv, PhaseInv
<1>9. CASE OutputPhase
  BY <1>2, <1>9 DEF OutputPhase, PostForward, CallApi, StopRequest, Continue, AppendToken,
                    FinishStep
<1>10. ASSUME NEW r \in Reqs, Ignore(r) PROVE EmptyInv'
  BY <1>1, <1>10 DEF Ignore, PausedOnGpu
<1>11. ASSUME NEW r \in Reqs, SequenceLimit(r) PROVE EmptyInv'
  <2>1. /\ IsNext(r) /\ len[r] <= MaxModelLen /\ seqLimit < 1
        /\ pc' = IF pc = "pass1" THEN "after1" ELSE "after2"
        /\ delayed' = delayed \cup {r} /\ UNCHANGED scheduled
    BY <1>11 DEF SequenceLimit, Stop
  <2>2. scheduled # {}
    BY <2>1, EmptyTargets DEF CountInv, TypeOK
  <2>3. pc = "pass2"
    BY <2>1 DEF IsNext, EmptyInv, LimitsPositive, CountInv, TypeOK
  <2> QED
    BY <2>1, <2>2, <2>3 DEF EmptyInv
<1>12. ASSUME NEW r \in Reqs, BatchLimit(r) PROVE EmptyInv'
  <2>1. /\ IsNext(r) /\ len[r] <= MaxModelLen /\ Workload(r) = NoWork
        /\ UNCHANGED <<pc, seqLimit, running, scheduled>> /\ pc \in {"pass1", "pass2"}
    BY <1>12 DEF BatchLimit, IsNext
  <2>2. scheduled # {}
    BY <2>1, EmptyTargets
  <2> QED
    BY <1>3, <2>1, <2>2
<1>13. ASSUME NEW r \in Reqs, Schedule(r) PROVE EmptyInv'
  BY <1>3, <1>13 DEF Schedule, Allocate, Eligible, IsNext
<1>14. ASSUME NEW r \in Reqs, GiveUp(r) PROVE EmptyInv'
  <2>1. /\ IsNext(r) /\ len[r] <= MaxModelLen /\ ~Fits(r) /\ victims = {} /\ pc = "pass2"
        /\ pc' = "after2" /\ delayed' = delayed \cup {r}
        /\ UNCHANGED <<victims, batchLeft, seqLimit, scheduled, running, mode>>
    BY <1>14 DEF GiveUp, Stop, SelfPreempt, Eligible, IsNext
  <2>2. scheduled = {} => PausedOnGpu # {}
    BY <2>1, EmptyTargets
  <2> QED
    BY <2>1, <2>2 DEF EmptyInv, PausedOnGpu
<1>15. ASSUME NEW r \in Reqs, StartEviction(r) PROVE EmptyInv'
  BY <1>1, <1>15 DEF StartEviction, PausedOnGpu
<1>16. ASSUME NEW v \in Reqs, Evict(v) PROVE EmptyInv'
  <2>1. /\ IsVictim(v) /\ victims' = victims \ {v} /\ delayed' = delayed \ {v}
        /\ UNCHANGED <<batchLeft, seqLimit, scheduled, running>>
        /\ pc' \in {pc, "crashed"}
    BY <1>16 DEF Evict
  <2>2. pc \in {"pass1", "pass2"} /\ (pc = "pass2" => v \in victims)
    BY <2>1, VictimPlace
  <2>3. pc = "pass2" /\ scheduled = {} => delayed = {}
    BY <2>2 DEF EmptyInv
  <2> QED
    BY <2>1, <2>2, <2>3 DEF EmptyInv
<1>17. ASSUME NEW v \in Reqs, NEW d \in Reqs, DiscardSwapped(v, d) PROVE EmptyInv'
  <2>1. /\ IsVictim(v)
        /\ UNCHANGED <<pc, delayed, seqLimit, scheduled, batchLeft, running, victims>>
    BY <1>17 DEF DiscardSwapped
  <2>2. pc \in {"pass1", "pass2"} /\ (pc = "pass2" => v \in victims)
    BY <2>1, VictimPlace
  <2>3. pc = "pass2" /\ scheduled = {} => delayed = {}
    BY <2>2 DEF EmptyInv
  <2> QED
    BY <2>1, <2>2, <2>3 DEF EmptyInv
<1>18. CASE DelayCur
  <2>1. /\ Evicting /\ LastVictims = {} /\ delayed' = delayed \cup {cur} /\ cur # 0
        /\ UNCHANGED <<pc, seqLimit, scheduled, batchLeft, running, victims, mode>>
    BY <1>18 DEF DelayCur, Evicting, InLoop
  <2>2. pc = "pass2"
    BY <2>1, AlwaysVictims DEF Evicting, InLoop
  <2>3. victims = {}
    BY <2>1, <2>2 DEF LastVictims, VictimList
  <2>4. newBlocks > freeGpu /\ newBlocks <= NumGpu
    BY <2>1, <2>2, <2>3 DEF Evicting, NeedInv
  <2>5. scheduled = {} => PausedOnGpu # {}
    BY <2>2, <2>4, AllFree DEF EmptyInv, CountInv, TypeOK
  <2> QED
    BY <2>1, <2>2, <2>3, <2>5 DEF EmptyInv, PausedOnGpu
<1>19. CASE ScheduleCur
  BY <1>3, <1>19 DEF ScheduleCur, Allocate, InLoop
<1>20. CASE FinishPass1
  <2>1. /\ pc = "pass1" /\ pc' = "pass2" /\ targets = {} /\ cur = 0
        /\ running' = targets \cup scheduled \cup delayed /\ delayed' = {}
        /\ seqLimit' = MaxNumSeqs - Cardinality(scheduled)
        /\ UNCHANGED <<scheduled, batchLeft, victims>>
    BY <1>20 DEF FinishPass1, PassOver, EmptyInv
  <2>2. scheduled = {} => running' = {} /\ seqLimit' = MaxNumSeqs
    <3>1. ASSUME scheduled = {} PROVE Cardinality(scheduled) = 0
      BY <3>1, FS_EmptySet
    <3>2. scheduled = {} => delayed = {}
      BY <2>1 DEF EmptyInv
    <3> QED
      BY <2>1, <3>1, <3>2, SizesAssumption
  <2>3. scheduled = {} => batchLeft = BatchMax
    BY <2>1 DEF EmptyInv
  <2> QED
    BY <2>1, <2>2, <2>3 DEF EmptyInv
<1>21. CASE FinishPass2
  BY <1>2, <1>21 DEF FinishPass2
<1> QED
  BY <1>4, <1>5, <1>6, <1>7, <1>8, <1>9, <1>10, <1>11, <1>12, <1>13, <1>14, <1>15, <1>16,
     <1>17, <1>18, <1>19, <1>20, <1>21
     DEF Next, Step, PausePhase, PassPhase

\* schedule() returns an empty batch only when nobody is left to serve or a
\* paused request holds GPU blocks: EmptyOnlyBehindPaused, which SchedLive
\* checks.  Every request of legal length must fit the GPU on its own, which
\* the engine does not check when it starts, and no request may be ignored
\* while it holds blocks, which the code then never frees.
THEOREM EmptyOnlyWhenPaused ==
    ASSUME LimitsPositive
    PROVE  Spec /\ []AllFit /\ [][~IgnoredHolding]_vars => EmptyOnlyBehindPaused
<1> DEFINE Known == CountInv /\ TableInv /\ QueueInv /\ SumInv
           EmptyStep == (pc \in {"pass2", "after2"} /\ pc' = "idle") =>
                            (waiting' \cup running' \cup swapped' = {} \/ PausedOnGpu # {})
<1>1. Init => GpuInv /\ NeedInv /\ EmptyInv
  BY DEF Init, GpuInv, NeedInv, EmptyInv, Handled
<1>2. Known /\ GpuInv /\ [Next]_vars /\ [~IgnoredHolding]_vars => GpuInv'
  <2> SUFFICES ASSUME CountInv, TableInv, QueueInv, SumInv, GpuInv, [Next]_vars,
                      [~IgnoredHolding]_vars
               PROVE  GpuInv'
    OBVIOUS
  <2>1. CASE UNCHANGED vars
    BY <2>1 DEF vars, memory, queues, pass, evicting, GpuInv, Handled
  <2> QED
    BY <2>1, GpuPassPhase, GpuOthers DEF Next, Step
<1>3. Known /\ AllFit /\ NeedInv /\ [Next]_vars => NeedInv'
  BY NeedNext
<1>4. Known /\ AllFit /\ GpuInv /\ NeedInv /\ EmptyInv /\ [Next]_vars => EmptyInv'
  BY EmptyNext
<1>5. Known /\ EmptyInv /\ [Next]_vars => [EmptyStep]_vars
  <2> SUFFICES ASSUME CountInv, EmptyInv, Next, pc \in {"pass2", "after2"}, pc' = "idle"
               PROVE  waiting' \cup running' \cup swapped' = {} \/ PausedOnGpu # {}
    BY DEF vars
  <2>1. FinishPass2
    BY DEF Next, Step, Client, PausePhase, PassPhase, OutputPhase, AddRequest, AbortRequest,
           ResumeRequest, StartSchedule, Demote, StartPass1, PostForward, CallApi,
           StopRequest, Continue, AppendToken, FinishStep, Ignore, SequenceLimit, BatchLimit,
           Schedule, GiveUp, StartEviction, Evict, DiscardSwapped, DelayCur, ScheduleCur,
           FinishPass1, Stop
  <2>2. scheduled = {} /\ running = {}
    BY <2>1 DEF FinishPass2, EmptyInv
  <2>3. CASE delayed # {}
    BY <2>2, <2>3 DEF EmptyInv
  <2>4. CASE delayed = {}
    <3>1. targets = {}
      BY <2>1, <2>4 DEF FinishPass2, PassOver, EmptyInv
    <3> QED
      BY <2>1, <2>2, <2>4, <3>1 DEF FinishPass2
  <2> QED
    BY <2>3, <2>4
<1>6. Spec => []Known
  BY QueueInvariant, SumInvariant, PTL
<1> QED
  BY <1>1, <1>2, <1>3, <1>4, <1>5, <1>6, PTL DEF Spec, EmptyOnlyBehindPaused
=============================================================================
