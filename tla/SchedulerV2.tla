---------------------------- MODULE SchedulerV2 ----------------------------
(***************************************************************************)
(* The MARS scheduler (src/vllm/core/scheduler_v2.py) under the "V" API    *)
(* policy, together with the parts of the engine that drive it: adding,    *)
(* aborting, resuming a request and processing the outputs of one step.    *)
(*                                                                         *)
(* One call of schedule() is a sequence of micro-steps controlled by pc:   *)
(*                                                                         *)
(*   idle -> pause -> pass1 (-> after1) -> pass2 (-> after2)               *)
(*        -> execute -> idle          (or -> crashed: the call raised)     *)
(*                                                                         *)
(* A request is a sequence group of one sequence.  Requests are numbered   *)
(* in order of arrival.  Of a block table the number of GPU and of CPU     *)
(* blocks is kept.                                                         *)
(***************************************************************************)
EXTENDS Integers, FiniteSets, FiniteSetsExt

CONSTANTS
    NumReqs,        \* number of requests that ever arrive
    Prompt,         \* prompt length of each request
    BlockSize,      \* tokens per block
    NumGpu, NumCpu, \* sizes of the two block pools
    BatchMax,       \* batch_max_tokens: tokens forwarded per step
    MaxNumSeqs,     \* scheduler_config.max_num_seqs
    MaxModelLen,    \* scheduler_config.max_model_len = prompt_limit
    MaxTokens,      \* sampling_params.max_tokens
    ApiRets,        \* lengths of what an API call may return
    MaxCalls,       \* bound on the API calls of one request
    Classes,        \* results of classify(): [strategy, waste]
    Abortable       \* requests whose client may go away

Reqs == 1..NumReqs
Strategies == {"preserve", "swap", "recompute"}

ASSUME SizesAssumption ==
    /\ NumReqs \in Nat
    /\ Prompt \in [Reqs -> Nat \ {0}]
    /\ BlockSize \in Nat \ {0}
    /\ NumGpu \in Nat /\ NumCpu \in Nat
    /\ BatchMax \in Nat /\ MaxNumSeqs \in Nat
    /\ MaxModelLen \in Nat /\ MaxTokens \in Nat /\ MaxCalls \in Nat
ASSUME InputsAssumption ==
    /\ ApiRets \subseteq Nat
    /\ Classes \subseteq [strategy : Strategies, waste : Nat]
    /\ Abortable \subseteq Reqs

VARIABLES
    waiting, running, swapped, \* the three queues of the scheduler
    mode,        \* paused: mode[r] is the PreemptionMode, "none" if not paused
    status,      \* SequenceStatus, "none" before arrival
    class,       \* sampling_params.strategy and .waste
    calls,       \* number of API calls made so far
    len,         \* seq.get_len()
    inflight,    \* data.inflight_length: tokens whose KV is not computed
    swapLen,     \* data.swap_length: blocks that must be swapped in
    work,        \* the workload: blocks to swap in, tokens to forward
    tables,      \* requests that have an entry in block_tables
    gpu, cpu,    \* blocks of each table on the two devices
    freeGpu, freeCpu,  \* len(free_blocks) of the two allocators
    aborted,     \* requests the client asked to abort
    pc,
    targets,     \* schedule_targets
    delayed, scheduled,
    victims,     \* paused_preemption_target
    demoted,     \* paused candidates still to be swapped out or discarded
    batchLeft,   \* batch_max_tokens - num_batched_tokens
    seqLimit,    \* max_sequences of the current pass
    cur,         \* seq_group of the preemption loop, 0 outside of it
    newBlocks,   \* new_blocks of cur
    need,        \* required_blocks inside passive_discard, 0 outside
    sampled,     \* scheduled requests whose new token is not yet appended
    victim       \* victim whose CPU space is being made, 0 if none

requests == <<class, calls, len, aborted>>
data     == <<inflight, swapLen, work>>
memory   == <<tables, gpu, cpu, freeGpu, freeCpu>>
queues   == <<waiting, running, swapped, mode, status>>
pass     == <<targets, delayed, scheduled, victims, demoted, batchLeft, seqLimit,
              sampled>>
evicting == <<cur, newBlocks, need, victim>>
vars == <<requests, data, memory, queues, pass, evicting, pc>>

-----------------------------------------------------------------------------
(* Arithmetic on blocks.                                                   *)

Smaller(a, b) == IF a <= b THEN a ELSE b
Larger(a, b) == IF a >= b THEN a ELSE b

\* BlockSpaceManager.token_2_block
Token2Block(n) == (n + BlockSize - 1) \div BlockSize

NoWork == [swap |-> 0, tokens |-> 0]

\* Tokens of r whose KV cache is in its blocks.
Computed(r) == len[r] - inflight[r]

\* SequenceData.num_required_blocks_inflight for n tokens
InflightBlocks(r, n) ==
    Token2Block(Computed(r) + n) - Token2Block(Computed(r))

\* Variant: the blocks to swap in need no memory.
SwapInIsFree(r, w) == InflightBlocks(r, w.tokens)

\* BlockSpaceManager.get_memory_requirement for the workload w
MemoryRequirement(r, w) == w.swap + InflightBlocks(r, w.tokens)

\* The workload _schedule gives r: all its swapped blocks, and as many
\* uncomputed tokens as the batch still takes.
Workload(r) == [swap   |-> swapLen[r],
                tokens |-> Smaller(batchLeft, inflight[r])]

\* Python's ret[:k] for a list of n elements, where k may be negative
SliceLen(n, k) == IF k >= 0 THEN Smaller(n, k) ELSE Larger(0, n + k)

\* resume_request truncates at max_tokens, resume_request_single one earlier.
ApiTokens(r, n, single) ==
    SliceLen(n, Smaller(Smaller(n, MaxModelLen - len[r]),
                        MaxTokens - (IF single THEN 1 ELSE 0)
                                  - (len[r] - Prompt[r])))

Paused == {r \in Reqs : mode[r] # "none"}
PausedOnGpu == {r \in Reqs : mode[r] = "PRESERVE"}
Finished == {"FINISHED_STOPPED", "FINISHED_ABORTED", "FINISHED_IGNORED"}
Youngest(S) == {r \in S : \A s \in S : r >= s}
Oldest(S) == {r \in S : \A s \in S : r <= s}

-----------------------------------------------------------------------------
Init ==
    /\ waiting = {} /\ running = {} /\ swapped = {}
    /\ mode = [r \in Reqs |-> "none"]
    /\ status = [r \in Reqs |-> "none"]
    /\ class = [r \in Reqs |-> [strategy |-> "preserve", waste |-> 0]]
    /\ calls = [r \in Reqs |-> 0]
    /\ len = Prompt
    /\ inflight = Prompt
    /\ swapLen = [r \in Reqs |-> 0]
    /\ work = [r \in Reqs |-> NoWork]
    /\ tables = {}
    /\ gpu = [r \in Reqs |-> 0] /\ cpu = [r \in Reqs |-> 0]
    /\ freeGpu = NumGpu /\ freeCpu = NumCpu
    /\ aborted = {}
    /\ pc = "idle"
    /\ targets = {} /\ delayed = {} /\ scheduled = {}
    /\ victims = {} /\ demoted = {} /\ sampled = {}
    /\ batchLeft = 0 /\ seqLimit = 0
    /\ cur = 0 /\ newBlocks = 0 /\ need = 0 /\ victim = 0

-----------------------------------------------------------------------------
(* Requests entering, leaving and returning.                               *)

\* Variant: the CPU blocks are not given back.
FreeGpuBlocks(r) ==
    /\ tables' = tables \ {r}
    /\ gpu' = [gpu EXCEPT ![r] = 0]
    /\ cpu' = [cpu EXCEPT ![r] = 0]
    /\ freeGpu' = freeGpu + gpu[r]
    /\ UNCHANGED freeCpu

\* BlockSpaceManager.free: nothing happens when r has no table.
FreeTable(r) ==
    /\ tables' = tables \ {r}
    /\ gpu' = [gpu EXCEPT ![r] = 0]
    /\ cpu' = [cpu EXCEPT ![r] = 0]
    /\ freeGpu' = freeGpu + gpu[r]
    /\ freeCpu' = freeCpu + cpu[r]

\* classify(): the floating point costs are abstracted to their outcome.
Classify(r) == \E c \in Classes : class' = [class EXCEPT ![r] = c]

\* add_request and add_seq_group
AddRequest(r) ==
    /\ pc = "idle"
    /\ status[r] = "none"
    /\ \A s \in Reqs : s < r => status[s] # "none"
    /\ status' = [status EXCEPT ![r] = "WAITING"]
    /\ waiting' = waiting \cup {r}
    /\ Classify(r)
    /\ UNCHANGED <<calls, len, aborted, running, swapped, mode, data, memory,
                   pass, evicting, pc>>

\* abort_seq_group looks at the three queues; a paused request is not found.
AbortRequest(r) ==
    /\ pc = "idle"
    /\ r \in Abortable \ aborted
    /\ status[r] \notin Finished \cup {"none"}
    /\ aborted' = aborted \cup {r}
    /\ IF r \in waiting \cup running \cup swapped
       THEN /\ waiting' = waiting \ {r}
            /\ running' = running \ {r}
            /\ swapped' = swapped \ {r}
            /\ status' = [status EXCEPT ![r] = "FINISHED_ABORTED"]
            /\ FreeTable(r)
       ELSE UNCHANGED <<waiting, running, swapped, status, memory>>
    /\ UNCHANGED <<class, calls, len, mode, data, pass, evicting, pc>>

\* resume_request, resume_request_single and resume_seq_group.  The call is
\* made by the API server, so it may come between schedule() and the
\* processing of the outputs.
ResumeRequest(r, n, single) ==
    /\ pc \in {"idle", "execute"}
    /\ mode[r] # "none"
    /\ LET k == ApiTokens(r, n, single)
       IN  /\ len' = [len EXCEPT ![r] = @ + k]
           /\ inflight' = [inflight EXCEPT ![r] = @ + k]
    /\ Classify(r)
    /\ mode' = [mode EXCEPT ![r] = "none"]
    /\ \/ /\ mode[r] = "PRESERVE" /\ running' = running \cup {r}
          /\ status' = [status EXCEPT ![r] = "RUNNING"]
          /\ UNCHANGED <<waiting, swapped>>
       \/ /\ mode[r] = "SWAP" /\ swapped' = swapped \cup {r}
          /\ status' = [status EXCEPT ![r] = "SWAPPED"]
          /\ UNCHANGED <<waiting, running>>
       \/ /\ mode[r] = "RECOMPUTE" /\ waiting' = waiting \cup {r}
          /\ status' = [status EXCEPT ![r] = "WAITING"]
          /\ UNCHANGED <<running, swapped>>
    /\ UNCHANGED <<calls, aborted, swapLen, work, memory, pass, evicting, pc>>

-----------------------------------------------------------------------------
(* Discarding the KV cache of a request.                                   *)

\* Variant: swap_length is not reset.
DiscardKeepingSwap(r) ==
    /\ work' = [work EXCEPT ![r] = NoWork]
    /\ inflight' = [inflight EXCEPT ![r] = len[r]]
    /\ UNCHANGED swapLen
    /\ FreeTable(r)

Discard(r) ==
    /\ work' = [work EXCEPT ![r] = NoWork]
    /\ swapLen' = [swapLen EXCEPT ![r] = 0]
    /\ inflight' = [inflight EXCEPT ![r] = len[r]]
    /\ FreeTable(r)

PauseByRecompute(r) ==
    /\ Discard(r)
    /\ mode' = [mode EXCEPT ![r] = "RECOMPUTE"]
    /\ UNCHANGED <<waiting, status>>

PreemptByRecompute(r) ==
    /\ Discard(r)
    /\ status' = [status EXCEPT ![r] = "WAITING"]
    /\ waiting' = waiting \cup {r}
    /\ UNCHANGED mode

\* Variant: a paused victim is sent to the waiting queue.
DiscardToWaiting(r) == PreemptByRecompute(r)

\* passive_discard_by_order uses the one or the other
DiscardVictim(r) ==
    IF mode[r] # "none" THEN PauseByRecompute(r) ELSE PreemptByRecompute(r)

-----------------------------------------------------------------------------
(* schedule(): the active discard and the choice of the paused requests    *)
(* that give up their GPU blocks.                                          *)

\* _active_discard: with nobody waiting, one swapped request starts over.
ActiveDiscard ==
    IF waiting = {} /\ swapped # {}
    THEN \E r \in swapped : PreemptByRecompute(r) /\ swapped' = swapped \ {r}
    ELSE UNCHANGED <<waiting, swapped, mode, status, data, memory>>

\* Among the requests paused with their blocks on the GPU, those of largest
\* waste may be evicted later; the others follow their strategy at once.
StartSchedule ==
    /\ pc = "idle"
    /\ ActiveDiscard
    /\ LET worst == {r \in PausedOnGpu :
                        \A s \in PausedOnGpu : class[s].waste <= class[r].waste}
       IN  /\ victims' = worst
           /\ demoted' = {r \in PausedOnGpu \ worst :
                             class[r].strategy # "preserve"}
    /\ batchLeft' = BatchMax
    \* get_seq_blocks_by_device over self.running: a KeyError without a table
    /\ pc' = IF running \subseteq tables THEN "pause" ELSE "crashed"
    /\ UNCHANGED <<requests, running, targets, delayed, scheduled, seqLimit, sampled,
                   evicting>>

\* swap_out of the whole table of a paused request
PauseBySwap(r) ==
    /\ mode' = [mode EXCEPT ![r] = "SWAP"]
    /\ gpu' = [gpu EXCEPT ![r] = 0]
    /\ cpu' = [cpu EXCEPT ![r] = @ + gpu[r]]
    /\ freeGpu' = freeGpu + gpu[r]
    /\ freeCpu' = freeCpu - gpu[r]
    /\ swapLen' = [swapLen EXCEPT ![r] = gpu[r] + cpu[r]]
    /\ work' = [work EXCEPT ![r] = NoWork]
    /\ UNCHANGED <<waiting, status, inflight, tables>>

Demote(r) ==
    /\ pc = "pause"
    /\ r \in demoted
    /\ demoted' = demoted \ {r}
    /\ \/ class[r].strategy = "recompute" /\ PauseByRecompute(r)
       \/ class[r].strategy = "swap" /\ gpu[r] <= freeCpu /\ PauseBySwap(r)
       \/ class[r].strategy = "swap" /\ gpu[r] > freeCpu
             /\ UNCHANGED <<waiting, mode, status, data, memory>>
    /\ UNCHANGED <<requests, running, swapped, targets, delayed, scheduled,
                   victims, batchLeft, seqLimit, sampled, evicting, pc>>

-----------------------------------------------------------------------------
(* _schedule: one pass over schedule_targets.  The first pass takes the    *)
(* running queue, oldest arrival first, and may preempt the targets        *)
(* themselves (self_preempt); self.running is the list being consumed.     *)
(* The second takes swapped and waiting, in the order of the policy's      *)
(* score, which is abstracted to any order.                                *)

StartPass1 ==
    /\ pc = "pause" /\ demoted = {}
    /\ pc' = "pass1"
    /\ targets' = running
    /\ running' = {}
    /\ seqLimit' = MaxNumSeqs
    /\ UNCHANGED <<requests, data, memory, waiting, swapped, mode, status,
                   delayed, scheduled, victims, demoted, batchLeft, sampled, evicting>>

\* Variant: no pass preempts its own targets.
NeverSelfPreempt == FALSE

\* Variant: the second pass preempts its targets too.
AlwaysSelfPreempt == TRUE

SelfPreempt == pc = "pass1"

\* The next target: pop(0)
IsNext(r) ==
    /\ pc \in {"pass1", "pass2"} /\ cur = 0
    /\ r \in targets
    /\ pc = "pass1" => r \in Oldest(targets)

\* Variant: one block is kept in reserve.
FitsWithSpare(r) == MemoryRequirement(r, Workload(r)) < freeGpu

Fits(r) == MemoryRequirement(r, Workload(r)) <= freeGpu

\* The conditions under which _schedule gets to the memory requirement of r:
\* it is not too long, the sequence limit (num_batched_seqs stays 0) leaves
\* room, and there is something to do for it.
Eligible(r) ==
    /\ IsNext(r)
    /\ len[r] <= MaxModelLen
    /\ seqLimit >= 1
    /\ Workload(r) # NoWork

Ignore(r) ==
    /\ IsNext(r)
    /\ len[r] > MaxModelLen
    /\ status' = [status EXCEPT ![r] = "FINISHED_IGNORED"]
    /\ targets' = targets \ {r}
    /\ UNCHANGED <<requests, data, memory, waiting, running, swapped, mode,
                   delayed, scheduled, victims, demoted, batchLeft, seqLimit, sampled,
                   evicting, pc>>

\* break out of the loop over the targets
Stop == pc' = IF pc = "pass1" THEN "after1" ELSE "after2"

SequenceLimit(r) ==
    /\ IsNext(r)
    /\ len[r] <= MaxModelLen
    /\ seqLimit < 1
    /\ targets' = targets \ {r}
    /\ delayed' = delayed \cup {r}
    /\ Stop
    /\ UNCHANGED <<requests, data, memory, queues, scheduled, victims,
                   demoted, batchLeft, seqLimit, sampled, evicting>>

\* Variant: a request without work goes back to the head of the targets.
BatchLimitRetries(r) ==
    /\ IsNext(r)
    /\ len[r] <= MaxModelLen
    /\ seqLimit >= 1
    /\ Workload(r) = NoWork
    /\ UNCHANGED vars

BatchLimit(r) ==
    /\ IsNext(r)
    /\ len[r] <= MaxModelLen
    /\ seqLimit >= 1
    /\ Workload(r) = NoWork
    /\ targets' = targets \ {r}
    /\ delayed' = delayed \cup {r}
    /\ UNCHANGED <<requests, data, memory, queues, scheduled, victims,
                   demoted, batchLeft, seqLimit, sampled, evicting, pc>>

\* block_manager.allocate with the workload w, and its bookkeeping
Allocate(r, w) ==
    LET new == InflightBlocks(r, w.tokens)
        in  == Smaller(w.swap, cpu[r])
    IN  /\ tables' = tables \cup {r}
        /\ gpu' = [gpu EXCEPT ![r] = @ + in + new]
        /\ cpu' = [cpu EXCEPT ![r] = @ - in]
        /\ freeGpu' = freeGpu - in - new
        /\ freeCpu' = freeCpu + in
        /\ work' = [work EXCEPT ![r] = w]
        /\ batchLeft' = batchLeft - w.tokens
        /\ status' = [status EXCEPT ![r] = "RUNNING"]
        /\ scheduled' = scheduled \cup {r}
        /\ UNCHANGED <<inflight, swapLen>>

Schedule(r) ==
    /\ Eligible(r)
    /\ Fits(r)
    /\ Allocate(r, Workload(r))
    /\ targets' = targets \ {r}
    /\ UNCHANGED <<requests, waiting, running, swapped, mode, delayed,
                   victims, demoted, seqLimit, sampled, evicting, pc>>

\* No memory, and nobody to take it from.
GiveUp(r) ==
    /\ Eligible(r)
    /\ ~Fits(r)
    /\ victims = {} /\ ~SelfPreempt
    /\ work' = [work EXCEPT ![r] = Workload(r)]
    /\ targets' = targets \ {r}
    /\ delayed' = delayed \cup {r}
    /\ Stop
    /\ UNCHANGED <<requests, inflight, swapLen, memory, queues, scheduled,
                   victims, demoted, batchLeft, seqLimit, sampled, evicting>>

StartEviction(r) ==
    /\ Eligible(r)
    /\ ~Fits(r)
    /\ victims # {} \/ SelfPreempt
    /\ work' = [work EXCEPT ![r] = Workload(r)]
    /\ targets' = targets \ {r}
    /\ cur' = r
    /\ newBlocks' = MemoryRequirement(r, Workload(r))
    /\ UNCHANGED <<requests, inflight, swapLen, memory, queues, delayed,
                   scheduled, victims, demoted, batchLeft, seqLimit, sampled, need,
                   victim, pc>>

-----------------------------------------------------------------------------
(* The preemption loop for cur: passive_discard takes one victim after the *)
(* other from the first nonempty list until enough GPU blocks are free.    *)
(* Before a victim is discarded, swapped requests are discarded until the  *)
(* CPU pool could hold the victim's blocks.                                *)

OnlySelf == victims = {} /\ delayed = {} /\ targets = {} /\ SelfPreempt

\* What the current call of schedule() is holding
Handled == targets \cup delayed \cup scheduled \cup ({cur} \ {0})

\* The list the victims come from; all of its last elements, which is one
\* except for the paused, whose order is abstracted.
VictimList ==
    IF victims # {} THEN victims
    ELSE IF ~SelfPreempt THEN {}
    ELSE IF delayed # {} THEN delayed
    ELSE IF targets # {} THEN targets ELSE {cur}

\* Variant: the oldest request of the pass is evicted, scheduled or not.
EvictOldest ==
    IF victims # {} THEN VictimList
    ELSE IF VictimList = {} THEN {} ELSE Oldest(VictimList \cup scheduled)

LastVictims ==
    IF victims # {} THEN VictimList ELSE Youngest(VictimList)

\* required_blocks of the passive_discard in progress or about to start
Required == IF need > 0 THEN need
            ELSE IF OnlySelf THEN gpu[cur] ELSE newBlocks - freeGpu

InLoop == pc \in {"pass1", "pass2"} /\ cur # 0
Evicting == InLoop /\ (need > 0 \/ newBlocks > freeGpu)

\* swapped_discard_list: the paused are popped before the queue
DiscardList ==
    LET pausedSwapped == {r \in Reqs : mode[r] = "SWAP"}
    IN  IF pausedSwapped # {} THEN pausedSwapped ELSE swapped

IsVictim(v) == Evicting /\ v \in LastVictims /\ victim \in {0, v}
LacksCpuSpace(v) == freeCpu < Smaller(gpu[v], Required)

\* A request that is swapped out loses its CPU blocks.
DiscardSwapped(v, d) ==
    /\ IsVictim(v) /\ gpu[v] > 0
    /\ LacksCpuSpace(v) /\ d \in DiscardList
    /\ DiscardVictim(d)
    /\ swapped' = swapped \ {d}
    /\ need' = Required
    /\ victim' = v
    /\ UNCHANGED <<requests, running, pass, cur, newBlocks, pc>>

\* The victim itself is always discarded.  A victim without GPU blocks
\* raises ValueError, unless it is cur itself: then nothing is required, the
\* loop is not entered and cur stays out of every queue.
Evict(v) ==
    /\ IsVictim(v)
    /\ gpu[v] = 0 \/ ~LacksCpuSpace(v) \/ DiscardList = {}
    /\ IF gpu[v] > 0 THEN DiscardVictim(v)
                     ELSE UNCHANGED <<waiting, mode, status, data, memory>>
    /\ victims' = victims \ {v}
    /\ delayed' = delayed \ {v}
    /\ targets' = targets \ {v}
    /\ need' = IF VictimList = {v} THEN 0 ELSE Larger(0, Required - gpu[v])
    /\ victim' = 0
    /\ cur' = IF v = cur THEN 0 ELSE cur
    /\ newBlocks' = IF v = cur THEN 0 ELSE newBlocks
    /\ pc' = IF gpu[v] = 0 /\ v # cur THEN "crashed" ELSE pc
    /\ UNCHANGED <<requests, running, swapped, scheduled, demoted, batchLeft,
                   seqLimit, sampled>>

\* The second pass runs out of victims.
DelayCur ==
    /\ Evicting /\ LastVictims = {}
    /\ delayed' = delayed \cup {cur}
    /\ cur' = 0 /\ newBlocks' = 0
    /\ UNCHANGED <<requests, data, memory, queues, targets, scheduled, victims,
                   demoted, batchLeft, seqLimit, sampled, need, victim, pc>>

\* The loop ends with enough room: the workload populated before the loop is
\* the one allocated.
ScheduleCur ==
    /\ InLoop /\ ~Evicting
    /\ Allocate(cur, work[cur])
    /\ cur' = 0 /\ newBlocks' = 0
    /\ UNCHANGED <<requests, waiting, running, swapped, mode, targets, delayed,
                   victims, demoted, seqLimit, sampled, need, victim, pc>>

PassOver(p, after) == pc = after \/ (pc = p /\ cur = 0 /\ targets = {})

\* clear_workload for the delayed, at the end of _schedule
ClearDelayed ==
    work' = [r \in Reqs |-> IF r \in delayed THEN NoWork ELSE work[r]]

FinishPass1 ==
    /\ PassOver("pass1", "after1")
    /\ pc' = "pass2"
    /\ ClearDelayed
    /\ running' = targets \cup scheduled \cup delayed
    /\ targets' = swapped \cup waiting
    /\ delayed' = {}
    /\ seqLimit' = MaxNumSeqs - Cardinality(scheduled)
    /\ UNCHANGED <<requests, inflight, swapLen, memory, waiting, swapped, mode,
                   status, scheduled, victims, demoted, batchLeft, sampled,
                   evicting>>

\* Variant: the queues are rebuilt without the delayed.
ForgetDelayed ==
    /\ PassOver("pass2", "after2")
    /\ ClearDelayed
    /\ running' = running \cup scheduled
    /\ swapped' = swapped \cap targets
    /\ waiting' = waiting \cap targets
    /\ targets' = {} /\ delayed' = {} /\ victims' = {}
    /\ pc' = IF scheduled = {} THEN "idle" ELSE "execute"
    /\ UNCHANGED <<requests, inflight, swapLen, memory, mode, status,
                   scheduled, demoted, batchLeft, seqLimit, sampled, evicting>>

\* The queues are rebuilt from what was not scheduled, and the metadata of
\* the scheduled is collected: a KeyError if one of them has no table.
FinishPass2 ==
    /\ PassOver("pass2", "after2")
    /\ ClearDelayed
    /\ running' = running \cup scheduled
    /\ swapped' = swapped \cap (delayed \cup targets)
    /\ waiting' = waiting \cap (delayed \cup targets)
    /\ targets' = {} /\ delayed' = {} /\ victims' = {}
    /\ pc' = IF ~(scheduled \subseteq tables) THEN "crashed"
             ELSE IF scheduled = {} THEN "idle" ELSE "execute"
    /\ UNCHANGED <<requests, inflight, swapLen, memory, mode, status,
                   scheduled, demoted, batchLeft, seqLimit, sampled, evicting>>

-----------------------------------------------------------------------------
(* _process_model_outputs: post_forward of every scheduled request, then   *)
(* one new token for those whose last uncomputed token was forwarded.      *)

PostForward ==
    /\ pc = "execute"
    /\ pc' = "process"
    /\ inflight' = [r \in Reqs |-> IF r \in scheduled
                                   THEN inflight[r] - work[r].tokens
                                   ELSE inflight[r]]
    /\ swapLen' = [r \in Reqs |-> IF r \in scheduled
                                  THEN swapLen[r] - work[r].swap
                                  ELSE swapLen[r]]
    /\ work' = [r \in Reqs |-> IF r \in scheduled THEN NoWork ELSE work[r]]
    /\ sampled' = {r \in scheduled : /\ work[r].tokens > 0
                                     /\ work[r].tokens = inflight[r]}
    /\ scheduled' = {} /\ batchLeft' = 0 /\ seqLimit' = 0
    /\ UNCHANGED <<requests, memory, queues, targets, delayed, victims,
                   demoted, evicting>>

\* append_token_id
AppendToken(r) ==
    /\ pc = "process"
    /\ r \in sampled
    /\ \A s \in sampled : r <= s
    /\ sampled' = sampled \ {r}
    /\ len' = [len EXCEPT ![r] = @ + 1]
    /\ inflight' = [inflight EXCEPT ![r] = @ + 1]
    /\ UNCHANGED <<class, aborted, waiting, running, swapped, swapLen, work,
                   targets, delayed, scheduled, victims, demoted, batchLeft,
                   seqLimit, evicting, pc>>

\* _check_stop after the new token: an API stop string comes before the
\* limits; a stop string, stop token or EOS may end any request; the two
\* limits end the request that reaches them.
CallApi(r) ==
    /\ AppendToken(r)
    /\ calls[r] < MaxCalls
    /\ calls' = [calls EXCEPT ![r] = @ + 1]
    /\ status' = [status EXCEPT ![r] = "PAUSED_API"]
    /\ mode' = [mode EXCEPT ![r] = "PRESERVE"]
    /\ UNCHANGED memory

StopRequest(r) ==
    /\ AppendToken(r)
    /\ status' = [status EXCEPT ![r] = "FINISHED_STOPPED"]
    /\ FreeTable(r)
    /\ UNCHANGED <<calls, mode>>

Continue(r) ==
    /\ AppendToken(r)
    /\ len[r] + 1 < MaxModelLen
    /\ len[r] + 1 - Prompt[r] < MaxTokens
    /\ UNCHANGED <<calls, status, mode, memory>>

\* Variant: a paused request stays in the running queue.
KeepPausedRunning ==
    /\ pc = "process" /\ sampled = {}
    /\ pc' = "idle"
    /\ running' = {r \in running : status[r] \notin Finished}
    /\ UNCHANGED <<requests, data, memory, waiting, swapped, mode, status,
                   pass, evicting>>

\* free_finished_seq_groups
FinishStep ==
    /\ pc = "process" /\ sampled = {}
    /\ pc' = "idle"
    /\ running' = {r \in running : status[r] \notin Finished \cup {"PAUSED_API"}}
    /\ UNCHANGED <<requests, data, memory, waiting, swapped, mode, status,
                   pass, evicting>>

-----------------------------------------------------------------------------
\* What the clients and the API server do
Client ==
    \E r \in Reqs : \/ AddRequest(r)
                    \/ AbortRequest(r)
                    \/ \E n \in ApiRets, single \in BOOLEAN :
                          ResumeRequest(r, n, single)

\* One call of step(): schedule() and the processing of the outputs
PausePhase == StartSchedule \/ (\E r \in Reqs : Demote(r)) \/ StartPass1

PassPhase ==
    \/ \E r \in Reqs : \/ Ignore(r) \/ SequenceLimit(r) \/ BatchLimit(r)
                       \/ Schedule(r) \/ GiveUp(r) \/ StartEviction(r)
                       \/ Evict(r)
                       \/ \E d \in Reqs : DiscardSwapped(r, d)
    \/ DelayCur \/ ScheduleCur
    \/ FinishPass1 \/ FinishPass2

OutputPhase ==
    \/ PostForward
    \/ \E r \in Reqs : CallApi(r) \/ StopRequest(r) \/ Continue(r)
    \/ FinishStep

Step == PausePhase \/ PassPhase \/ OutputPhase

Next == Client \/ Step

Spec == Init /\ [][Next]_vars

\* The engine keeps stepping, and every API call returns in the end: its
\* coroutine is run between two steps, again and again.
Fairness ==
    /\ WF_vars(Step)
    /\ \A r \in Reqs :
          SF_vars(\E n \in ApiRets, single \in BOOLEAN :
                     ResumeRequest(r, n, single))

FairSpec == Spec /\ Fairness

-----------------------------------------------------------------------------
Statuses == {"none", "WAITING", "RUNNING", "SWAPPED", "PAUSED_API"} \cup Finished
Modes == {"none", "PRESERVE", "SWAP", "RECOMPUTE"}
Phases == {"idle", "pause", "pass1", "after1", "pass2", "after2", "execute",
           "process", "crashed"}

\* The type invariant.  That the free counters are natural numbers says that
\* neither block pool is ever overdrawn (BlockAllocator.allocate raises).
TypeOK ==
    /\ waiting \subseteq Reqs /\ running \subseteq Reqs /\ swapped \subseteq Reqs
    /\ mode \in [Reqs -> Modes]
    /\ status \in [Reqs -> Statuses]
    /\ class \in [Reqs -> [strategy : Strategies, waste : Nat]]
    /\ calls \in [Reqs -> Nat]
    /\ len \in [Reqs -> Nat]
    /\ inflight \in [Reqs -> Nat]
    /\ swapLen \in [Reqs -> Nat]
    /\ work \in [Reqs -> [swap : Nat, tokens : Nat]]
    /\ tables \subseteq Reqs
    /\ gpu \in [Reqs -> Nat] /\ cpu \in [Reqs -> Nat]
    /\ freeGpu \in Nat /\ freeCpu \in Nat
    /\ aborted \subseteq Reqs
    /\ pc \in Phases
    /\ targets \subseteq Reqs /\ delayed \subseteq Reqs
    /\ scheduled \subseteq Reqs /\ victims \subseteq Reqs
    /\ demoted \subseteq Reqs /\ sampled \subseteq Reqs
    /\ batchLeft \in Nat
    /\ seqLimit \in Int
    /\ cur \in Reqs \cup {0} /\ victim \in Reqs \cup {0}
    /\ newBlocks \in Nat /\ need \in Nat

-----------------------------------------------------------------------------
(* Safety.                                                                 *)

Live(r) == status[r] \notin Finished \cup {"none"}

\* No block of either pool is lost or used twice: the free blocks and those
\* of the tables add up to the pool (allocate, swap_out, free).
BlocksConserved ==
    /\ freeGpu + MapThenSumSet(LAMBDA r : gpu[r], Reqs) = NumGpu
    /\ freeCpu + MapThenSumSet(LAMBDA r : cpu[r], Reqs) = NumCpu
    /\ \A r \in Reqs \ tables : gpu[r] = 0 /\ cpu[r] = 0

\* The block table of an unfinished request always holds exactly the blocks
\* of its computed tokens: what the bookkeeping in SequenceData says of the
\* request is what the block manager holds, through every discard, swap,
\* chunk and API return.
TableMatchesData ==
    \A r \in Reqs : Live(r) =>
        IF r \in scheduled
        THEN /\ cpu[r] = 0
             /\ gpu[r] = Token2Block(Computed(r) + work[r].tokens)
        ELSE /\ cpu[r] = swapLen[r]
             /\ gpu[r] + cpu[r] = Token2Block(Computed(r))

\* The preemption mode of a paused request says where its blocks are.
ModeMatchesBlocks ==
    \A r \in Paused :
        /\ status[r] = "PAUSED_API"
        /\ mode[r] = "PRESERVE" => cpu[r] = 0 /\ gpu[r] > 0
        /\ mode[r] = "SWAP" => gpu[r] = 0 /\ cpu[r] > 0
        /\ mode[r] = "RECOMPUTE" => r \notin tables

\* A request waiting for its API is never given to the model.
PausedNotScheduled ==
    Paused \cap (targets \cup delayed \cup scheduled \cup {cur}) = {}

\* Between two calls of schedule() every unfinished request is in exactly
\* one of waiting, running, swapped and paused, the one its status names, and
\* nothing else is in any of them: no request is lost or handled twice.
OneQueue ==
    pc \in {"idle", "pause", "execute"} =>
        /\ waiting = {r \in Reqs : status[r] = "WAITING"}
        /\ running = {r \in Reqs : status[r] = "RUNNING"}
        /\ swapped = {r \in Reqs : status[r] = "SWAPPED"}
        /\ Paused  = {r \in Reqs : status[r] = "PAUSED_API"}

\* "Fully preempted seqs should not stay in the victim group"
\* (passive_discard_by_order raises a ValueError with this text).
VictimsHoldBlocks ==
    Evicting => \A v \in LastVictims : gpu[v] > 0

\* The first pass respects arrival order: memory for a running request is
\* never taken from a running request that arrived before it.
EvictionRespectsArrival ==
    [][\A r \in Reqs :
          (pc = "pass1" /\ status[r] = "RUNNING" /\ status'[r] = "WAITING")
              => cur <= r /\ \A s \in scheduled : s < r]_vars

\* schedule() returns an empty batch only when nobody is left to serve or a
\* paused request still holds GPU blocks: the loops that stop stepping after
\* an empty batch are then woken by the return of that API call.
EmptyOnlyBehindPaused ==
    [][(pc \in {"pass2", "after2"} /\ pc' = "idle") =>
          (waiting' \cup running' \cup swapped' = {} \/ PausedOnGpu # {})]_vars

\* Where the status of a request says that it is: in the queue of that name,
\* or in the hands of the pass that took it from there.
InPlace(r) ==
    /\ pc \notin {"pass2", "after2", "crashed"} =>
          /\ r \in waiting <=> status[r] = "WAITING"
          /\ r \in swapped <=> status[r] = "SWAPPED"
    /\ pc \in {"idle", "pause", "execute"} => (r \in running <=> status[r] = "RUNNING")
    /\ pc \in {"pass1", "after1"} => (r \in Handled <=> status[r] = "RUNNING")
    /\ pc \in {"pass2", "after2"} =>
          (status[r] \in {"WAITING", "SWAPPED", "RUNNING"} => r \in running \cup Handled)
    /\ pc = "process" => (status[r] = "RUNNING" => r \in running)

\* r is discarded to make CPU room although the pass has ignored it, or it is
\* its own victim and has no blocks to give up.  (Such a request was discarded
\* while it was being scheduled: VictimsHoldBlocks.)
Losing(r) ==
    \/ status[r] = "FINISHED_IGNORED" /\ \E v \in Reqs : DiscardSwapped(v, r)
    \/ cur = r /\ gpu[r] = 0 /\ Evict(r)

\* A request is lost, or put in two queues, in these two ways only, and takes
\* no other with it, although schedule() goes on over the queues without it.
LossesExplained ==
    [][\A r \in Reqs : InPlace(r) /\ ~InPlace(r)' => Losing(r)]_vars

\* Every call of schedule() returns, and every output is processed: the
\* eviction loops terminate.
StepEnds == (pc # "idle") ~> (pc = "idle")

\* Every request that arrives is finished in the end.
EveryRequestFinishes ==
    \A r \in Reqs : (status[r] = "WAITING") ~> (status[r] \in Finished)

-----------------------------------------------------------------------------
(* What the block manager and the worker see of the scheduler.             *)

CachePhase ==
    CASE pc \in {"idle", "process"} -> "idle"
      [] pc = "pause"              -> "evict"
      [] OTHER                     -> "fill"

Protocol == INSTANCE CacheProtocol WITH Seqs <- Reqs, phase <- CachePhase

\* Within one call of schedule() the block manager is called in the order
\* that the copies of the worker need: all that goes out does so before
\* anything is allocated, and what was scheduled is left alone.
FollowsProtocol == Protocol!Spec
=============================================================================
