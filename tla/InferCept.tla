----------------------------- MODULE InferCept ------------------------------
(***************************************************************************)
(* The InferCept scheduler (src/vllm/core/scheduler_v2_infercept.py), used *)
(* under every API policy other than "V", with the block identities of     *)
(* BlockSpaceManager and the parts of the engine that drive it.            *)
(*                                                                         *)
(*   idle -> pause -> pass1 -> pass2 -> pass3 -> execute -> process -> idle*)
(*                 (-> after1) (-> after2) (-> after3)                     *)
(*                                                                         *)
(* Unlike SchedulerV2, a preempted request is swapped out in part, from    *)
(* the back, and swapped in in part, from the front, under limits of each  *)
(* step.  The targets of a pass are the queue itself: running, swapped,    *)
(* waiting.  Requests are numbered in order of arrival (policy "fcfs").    *)
(***************************************************************************)
EXTENDS BlockSpaceManager, SequencesExt, Queues

CONSTANTS
    Prompt,         \* prompt length of each request
    PromptLimit,    \* min(max_model_len, max_num_batched_tokens)
    MaxModelLen,
    MaxTokens,      \* sampling_params.max_tokens
    BatchMax,       \* mlimit, the tokens of one step
    MaxNumSeqs,     \* scheduler_config.max_num_seqs
    InLimits, OutLimits,   \* values of max_swap_in_blocks, max_swap_out_blocks
    PauseModes,     \* modes pause_seq_group chooses under the API policy
    ApiRets,        \* lengths of what an API call may return
    MaxCalls,       \* bound on the API calls of one request
    Abortable       \* requests whose client may go away

ASSUME RequestsAssumption ==
    /\ Seqs \subseteq Nat \ {0}
    /\ Prompt \in [Seqs -> Nat \ {0}]
    /\ PauseModes \subseteq {"PRESERVE", "SWAP", "RECOMPUTE"}
    /\ InLimits \subseteq Nat /\ OutLimits \subseteq Nat
    /\ BatchMax \in Nat /\ MaxModelLen \in Nat /\ MaxTokens \in Nat
    /\ ApiRets \subseteq Nat

VARIABLES
    waiting, running, swapped, \* the three queues
    mode,        \* paused: mode[r] is the PreemptionMode, "none" if not paused
    status,      \* SequenceStatus, "none" before arrival
    calls, len,
    inflight,    \* inflight_length: tokens whose KV is not computed
    swapLen,     \* swap_length and
    swapStart,   \* swap_start_idx: the blocks of the table that are swapped
    work,        \* the workload: blocks to swap in, tokens to forward
    pc,
    victims,     \* paused_preemption_target
    demoted,     \* paused requests still to be discarded
    delayed, scheduled,
    batchLeft, seqLimit, inLimit, outLimit,
    cur,         \* seq_group of the preemption loop, 0 outside of it
    newBlocks,   \* new_blocks of cur
    need,        \* required_blocks of passive_discard, 0 outside of it
    group,       \* its victim_group: "paused", "delayed", "targets" or "self"
    victim,      \* the paused victim in progress, 0 if none
    discards,    \* its swapped_discard_list: the swapped, then the paused
    sampled      \* scheduled requests whose new token is not yet appended

queues == <<waiting, running, swapped, mode, status>>
data   == <<inflight, swapLen, swapStart, work>>
texts  == <<calls, len>>
limits == <<batchLeft, seqLimit, inLimit, outLimit>>
choice == <<victims, demoted>>
loop   == <<cur, newBlocks, need, group, victim, discards>>
vars == <<blockVars, queues, data, texts, limits, choice, loop,
          delayed, scheduled, sampled, pc>>

NoWork == [swap |-> 0, tokens |-> 0]
NoDiscards == [queue |-> <<>>, paused |-> {}]

Computed(r) == len[r] - inflight[r]
GpuCount(r) == Cardinality(OnGpu(r))
FreeGpu == Cardinality(freeGpu)
FreeCpu == Cardinality(freeCpu)

Paused == {r \in Seqs : mode[r] # "none"}
PausedOnGpu == {r \in Seqs : mode[r] = "PRESERVE"}
Finished == {"FINISHED_STOPPED", "FINISHED_ABORTED", "FINISHED_IGNORED"}

\* sort_by_priority of the policy "fcfs"
ByArrival(S) == Ascending(S)

Smaller(a, b) == IF a <= b THEN a ELSE b
Larger(a, b) == IF a >= b THEN a ELSE b

-----------------------------------------------------------------------------
Init ==
    /\ InitBlocks
    /\ waiting = <<>> /\ running = <<>> /\ swapped = <<>>
    /\ mode = [r \in Seqs |-> "none"] /\ status = [r \in Seqs |-> "none"]
    /\ calls = [r \in Seqs |-> 0]
    /\ len = Prompt /\ inflight = Prompt
    /\ swapLen = [r \in Seqs |-> 0] /\ swapStart = [r \in Seqs |-> 0]
    /\ work = [r \in Seqs |-> NoWork]
    /\ pc = "idle"
    /\ victims = {} /\ demoted = {} /\ delayed = <<>>
    /\ scheduled = {} /\ sampled = {}
    /\ batchLeft = 0 /\ seqLimit = 0 /\ inLimit = 0 /\ outLimit = 0
    /\ cur = 0 /\ newBlocks = 0 /\ need = 0 /\ group = "none" /\ victim = 0
    /\ discards = NoDiscards

-----------------------------------------------------------------------------
(* Requests entering, leaving and returning.                               *)

AddRequest(r) ==
    /\ pc = "idle" /\ status[r] = "none"
    /\ \A s \in Seqs : s < r => status[s] # "none"
    /\ status' = [status EXCEPT ![r] = "WAITING"]
    /\ waiting' = Append(waiting, r)
    /\ UNCHANGED <<blockVars, running, swapped, mode, data, texts, limits,
                   choice, loop, delayed, scheduled, sampled, pc>>

\* abort_seq_group: a paused request is not found.
AbortRequest(r) ==
    /\ pc = "idle" /\ r \in Abortable
    /\ r \in ToSet(waiting \o running \o swapped)
    /\ waiting' = Without(waiting, r)
    /\ running' = Without(running, r)
    /\ swapped' = Without(swapped, r)
    /\ status' = [status EXCEPT ![r] = "FINISHED_ABORTED"]
    /\ Free(r)
    /\ UNCHANGED <<mode, data, texts, limits, choice, loop, delayed, scheduled,
                   sampled, pc>>

\* resume_request and resume_request_single; both truncate the return, and
\* may be called between schedule() and the processing of the outputs.
ApiTokens(r, n, single) ==
    LET most == Smaller(MaxModelLen - len[r],
                        MaxTokens - (IF single THEN 1 ELSE 0) - (len[r] - Prompt[r]))
        k    == Smaller(n, most)
    IN  IF k >= 0 THEN k ELSE Larger(0, n + k)

ResumeRequest(r, n, single) ==
    /\ pc \in {"idle", "execute"}
    /\ mode[r] # "none"
    /\ LET k == ApiTokens(r, n, single)
       IN  /\ len' = [len EXCEPT ![r] = @ + k]
           /\ inflight' = [inflight EXCEPT ![r] = @ + k]
    /\ mode' = [mode EXCEPT ![r] = "none"]
    /\ \/ /\ mode[r] = "PRESERVE" /\ running' = Append(running, r)
          /\ status' = [status EXCEPT ![r] = "RUNNING"]
          /\ UNCHANGED <<waiting, swapped>>
       \/ /\ mode[r] = "SWAP" /\ swapped' = Append(swapped, r)
          /\ status' = [status EXCEPT ![r] = "SWAPPED"]
          /\ UNCHANGED <<waiting, running>>
       \/ /\ mode[r] = "RECOMPUTE" /\ waiting' = <<r>> \o waiting
          /\ status' = [status EXCEPT ![r] = "WAITING"]
          /\ UNCHANGED <<running, swapped>>
    /\ UNCHANGED <<blockVars, calls, swapLen, swapStart, work, limits, choice,
                   loop, delayed, scheduled, sampled, pc>>

-----------------------------------------------------------------------------
(* Giving up blocks.                                                       *)

Discard(r) ==
    /\ Free(r)
    /\ inflight' = [inflight EXCEPT ![r] = len[r]]
    /\ swapLen' = [swapLen EXCEPT ![r] = 0]
    /\ swapStart' = [swapStart EXCEPT ![r] = 0]
    /\ work' = [work EXCEPT ![r] = NoWork]

PauseByRecompute(r) ==
    /\ Discard(r)
    /\ mode' = [mode EXCEPT ![r] = "RECOMPUTE"]
    /\ UNCHANGED <<waiting, status>>

PreemptByRecompute(r) ==
    /\ Discard(r)
    /\ status' = [status EXCEPT ![r] = "WAITING"]
    /\ waiting' = Append(waiting, r)
    /\ UNCHANGED mode

DiscardVictim(r) == IF mode[r] # "none" THEN PauseByRecompute(r) ELSE PreemptByRecompute(r)

\* _active_discard: with nobody waiting, the oldest swapped one starts over.
ActiveDiscard ==
    IF waiting = <<>> /\ swapped # <<>>
    THEN LET order == ByArrival(ToSet(swapped))
         IN  PreemptByRecompute(Head(order)) /\ swapped' = Tail(order)
    ELSE UNCHANGED <<blockVars, data, waiting, swapped, mode, status>>

\* schedule() begins.  Of the paused requests on the GPU that are not worth
\* preserving (w_d < w_p), those of largest waste may be evicted later and
\* the others are discarded at once.  The waste depends on the clock and on
\* the number of blocks; the limits depend on the free blocks.
StartSchedule ==
    /\ pc = "idle" /\ pc' = "pause"
    /\ inLimit' \in InLimits /\ outLimit' \in OutLimits
    /\ batchLeft' = BatchMax
    /\ ActiveDiscard
    /\ \E candidates \in SUBSET PausedOnGpu :
          /\ victims' \in SUBSET candidates
          /\ candidates # {} => victims' # {}
          /\ demoted' = candidates \ victims'
          /\ \A r \in victims', s \in demoted' : GpuCount(r) # GpuCount(s)
    /\ UNCHANGED <<running, texts, seqLimit, loop, delayed, scheduled, sampled>>

Demote(r) ==
    /\ pc = "pause" /\ r \in demoted
    /\ demoted' = demoted \ {r}
    /\ PauseByRecompute(r)
    /\ UNCHANGED <<running, swapped, texts, limits, victims, loop, delayed,
                   scheduled, sampled, pc>>

-----------------------------------------------------------------------------
(* _schedule: one pass over the targets.                                   *)

Passes == {"pass1", "pass2", "pass3"}

\* Variant: in no pass may the targets be preempted.
NeverSelfPreempt == FALSE

SelfPreempt == pc = "pass1"

Targets == CASE pc = "pass1" -> running
             [] pc = "pass2" -> swapped
             [] OTHER -> waiting

\* The queue of this pass becomes q; the other two are unchanged.
SetTargets(q) ==
    /\ running' = IF pc = "pass1" THEN q ELSE running
    /\ swapped' = IF pc = "pass2" THEN q ELSE swapped
    /\ waiting' = IF pc = "pass3" THEN q ELSE waiting

StartPass1 ==
    /\ pc = "pause" /\ demoted = {} /\ pc' = "pass1"
    /\ running' = ByArrival(ToSet(running))
    /\ seqLimit' = MaxNumSeqs
    /\ UNCHANGED <<blockVars, waiting, swapped, mode, status, data, texts,
                   batchLeft, inLimit, outLimit, choice, loop, delayed,
                   scheduled, sampled>>

\* The next target: pop(0)
IsNext(r) ==
    /\ pc \in Passes /\ cur = 0
    /\ Targets # <<>> /\ r = Head(Targets)

InflightBlocks(r, n) == Token2Block(Computed(r) + n) - Token2Block(Computed(r))
MemoryRequirement(r, w) == w.swap + InflightBlocks(r, w.tokens)

\* No tokens are forwarded before all blocks are swapped in.
Workload(r) ==
    LET in == Smaller(inLimit, swapLen[r])
    IN  [swap   |-> in,
         tokens |-> IF in = swapLen[r] THEN Smaller(batchLeft, inflight[r]) ELSE 0]

Fits(r) == MemoryRequirement(r, Workload(r)) <= FreeGpu

Eligible(r) ==
    /\ IsNext(r)
    /\ len[r] <= PromptLimit
    /\ seqLimit >= 1
    /\ Workload(r) # NoWork

Ignore(r) ==
    /\ IsNext(r)
    /\ len[r] > PromptLimit
    /\ status' = [status EXCEPT ![r] = "FINISHED_IGNORED"]
    /\ SetTargets(Tail(Targets))
    /\ UNCHANGED <<blockVars, mode, data, texts, limits, choice, loop, delayed,
                   scheduled, sampled, pc>>

\* break out of the loop over the targets
Stop == pc' = CASE pc = "pass1" -> "after1" [] pc = "pass2" -> "after2"
                [] OTHER -> "after3"

Delay(r) ==
    /\ delayed' = Append(delayed, r)
    /\ SetTargets(Tail(Targets))
    /\ UNCHANGED <<blockVars, mode, status, data, texts, limits, choice, loop,
                   scheduled, sampled>>

SequenceLimit(r) ==
    /\ IsNext(r) /\ len[r] <= PromptLimit
    /\ seqLimit < 1
    /\ Delay(r) /\ Stop

\* Nothing to do for r: only the third pass stops there.
BatchLimit(r) ==
    /\ IsNext(r) /\ len[r] <= PromptLimit /\ seqLimit >= 1
    /\ Workload(r) = NoWork
    /\ Delay(r)
    /\ IF pc = "pass3" THEN Stop ELSE pc' = pc

\* The second and third pass stop when nobody may be preempted, or more
\* blocks are missing than may be swapped out.
MayEvict(r) ==
    SelfPreempt \/ /\ victims # {}
                   /\ MemoryRequirement(r, Workload(r)) - FreeGpu <= outLimit

GiveUp(r) ==
    /\ Eligible(r) /\ ~Fits(r) /\ ~MayEvict(r)
    /\ Delay(r) /\ Stop

\* allocate, with the workload w
Admit(r, w) ==
    /\ Allocate(r, w.swap, InflightBlocks(r, w.tokens))
    /\ work' = [work EXCEPT ![r] = w]
    /\ status' = [status EXCEPT ![r] = "RUNNING"]
    /\ scheduled' = scheduled \cup {r}
    /\ batchLeft' = batchLeft - w.tokens
    /\ inLimit' = inLimit - w.swap
    /\ UNCHANGED <<mode, inflight, swapLen, swapStart, texts, seqLimit,
                   outLimit, choice, delayed, sampled, pc>>

Schedule(r) ==
    /\ Eligible(r) /\ Fits(r)
    /\ SetTargets(Tail(Targets))
    /\ Admit(r, Workload(r))
    /\ UNCHANGED loop

StartEviction(r) ==
    /\ Eligible(r) /\ ~Fits(r) /\ MayEvict(r)
    /\ SetTargets(Tail(Targets))
    /\ cur' = r
    /\ work' = [work EXCEPT ![r] = Workload(r)]
    /\ newBlocks' = MemoryRequirement(r, Workload(r))
    /\ UNCHANGED <<blockVars, mode, status, inflight, swapLen, swapStart, texts,
                   limits, choice, need, group, victim, discards, delayed,
                   scheduled, sampled, pc>>
-----------------------------------------------------------------------------
(* The preemption loop over one target, cur, and passive_discard.          *)

InLoop == pc \in Passes /\ cur # 0
Missing == newBlocks - FreeGpu
TryPreempt == InLoop /\ need = 0 /\ Missing > 0

\* More blocks are missing than may still be swapped out, or no victim is
\* left for a target that may not preempt its own pass.
DelayCur ==
    /\ TryPreempt
    /\ Missing > outLimit \/ (victims = {} /\ ~SelfPreempt)
    /\ delayed' = Append(delayed, cur)
    /\ work' = [work EXCEPT ![cur] = NoWork]
    /\ cur' = 0 /\ newBlocks' = 0
    /\ UNCHANGED <<blockVars, queues, inflight, swapLen, swapStart, texts,
                   limits, choice, need, group, victim, discards, scheduled,
                   sampled, pc>>

\* A call of passive_discard: its victims are the paused, else the delayed,
\* else the targets, else cur itself, which then gives up all it has on the
\* GPU; the requests that are swapped out now may lose their CPU blocks.
StartDiscard ==
    /\ TryPreempt /\ Missing <= outLimit
    /\ victims # {} \/ SelfPreempt
    /\ LET of == CASE victims # {}                      -> "paused"
                 [] victims = {} /\ delayed # <<>>      -> "delayed"
                 [] /\ victims = {} /\ delayed = <<>>
                    /\ Targets # <<>>                   -> "targets"
                 [] OTHER                              -> "self"
           n  == IF of = "self" THEN GpuCount(cur) ELSE Missing
       IN  /\ need' = n
           /\ group' = IF n = 0 THEN "none" ELSE of
           /\ cur' = IF n = 0 THEN 0 ELSE cur
           /\ newBlocks' = IF n = 0 THEN 0 ELSE newBlocks
    /\ discards' = [queue |-> swapped, paused |-> {r \in Seqs : mode[r] = "SWAP"}]
    /\ UNCHANGED <<blockVars, queues, data, texts, limits, choice, victim,
                   delayed, scheduled, sampled, pc>>

\* victim_group[-1]; the order of the paused is abstracted.
IsVictim(v) ==
    /\ InLoop /\ need > 0
    /\ CASE group = "paused"  -> v \in victims /\ victim \in {0, v}
         [] group = "delayed" -> v = Last(delayed)
         [] group = "targets" -> v = Last(Targets)
         [] group = "self"    -> v = cur

OutCount(v) == Smaller(GpuCount(v), need)
LacksCpuSpace(v) == FreeCpu < OutCount(v)

\* Variant: what is scheduled may be discarded too.
IsDiscardedOrScheduled(d) ==
    IF discards.paused # {} THEN d \in discards.paused
    ELSE discards.queue # <<>> /\ d \in {Last(discards.queue)} \cup scheduled

\* swapped_discard_list.pop(-1): the paused are at its end, in any order.
IsDiscarded(d) ==
    IF discards.paused # {} THEN d \in discards.paused
    ELSE discards.queue # <<>> /\ d = Last(discards.queue)

DiscardSwapped(v, d) ==
    /\ IsVictim(v) /\ GpuCount(v) > 0 /\ LacksCpuSpace(v)
    /\ IsDiscarded(d)
    /\ DiscardVictim(d)
    /\ swapped' = Without(swapped, d)
    /\ discards' = IF discards.paused # {}
                   THEN [discards EXCEPT !.paused = @ \ {d}]
                   ELSE [discards EXCEPT !.queue = Front(@)]
    /\ victim' = IF group = "paused" THEN v ELSE 0
    /\ UNCHANGED <<running, texts, limits, choice, cur, newBlocks, need, group,
                   delayed, scheduled, sampled, pc>>

\* Variant: a victim that gave up everything stays in its group.
StayInGroup(v) == UNCHANGED <<victims, delayed>>

\* v leaves its group, in which it is the last, and q is the rest of the
\* queue of this pass.
LeaveGroup(v) ==
    /\ victims' = victims \ {v}
    /\ delayed' = IF group = "delayed" THEN Front(delayed) ELSE delayed
GroupEmpty(v) ==
    CASE group = "paused"  -> victims = {v}
      [] group = "delayed" -> Len(delayed) = 1
      [] group = "targets" -> Len(Targets) = 1
      [] group = "self"    -> TRUE

\* What is left to do once `more` of the required blocks are found; after a
\* call on itself cur is done with.
Continued(more, empty) ==
    LET left == IF empty THEN 0 ELSE Larger(0, need - more)
    IN  /\ need' = left
        /\ group' = IF left = 0 THEN "none" ELSE group
        /\ discards' = IF left = 0 THEN NoDiscards ELSE discards
        /\ victim' = 0
        /\ cur' = IF left = 0 /\ group = "self" THEN 0 ELSE cur
        /\ newBlocks' = IF left = 0 /\ group = "self" THEN 0 ELSE newBlocks

\* The CPU has no room and nobody to discard: the victim starts over.
RecomputeVictim(v) ==
    /\ IsVictim(v) /\ GpuCount(v) > 0 /\ LacksCpuSpace(v)
    /\ discards = NoDiscards
    /\ Discard(v)
    /\ mode' = [mode EXCEPT ![v] = IF group = "paused" THEN "RECOMPUTE" ELSE @]
    /\ status' = [status EXCEPT ![v] = IF group = "paused" THEN @ ELSE "WAITING"]
    /\ waiting' = IF group = "paused" THEN waiting ELSE Append(waiting, v)
    /\ running' = IF group = "targets" THEN Front(running) ELSE running
    /\ LeaveGroup(v)
    /\ Continued(GpuCount(v), GroupEmpty(v))
    /\ UNCHANGED <<swapped, texts, limits, demoted, scheduled, sampled, pc>>

\* Variant: the swap_start_idx of a second partial swap is computed afresh.
SwapOutAfresh(v) ==
    LET n == OutCount(v)
    IN  /\ SwapOutFromBack(v, n)
        /\ swapLen' = [swapLen EXCEPT ![v] = @ + n]
        /\ swapStart' = [swapStart EXCEPT ![v] = Token2Block(Computed(v)) - n]

\* swap_out_from_back and what the data keep of it
SwapOutPart(v) ==
    LET n == OutCount(v)
    IN  /\ SwapOutFromBack(v, n)
        /\ swapLen' = [swapLen EXCEPT ![v] = @ + n]
        /\ swapStart' = [swapStart EXCEPT ![v] =
              IF swapLen[v] = 0 THEN Token2Block(Computed(v)) - n ELSE @ - n]

\* A part of the victim is swapped out; it stays where it is.
SwapVictimPart(v) ==
    /\ IsVictim(v) /\ GpuCount(v) > need /\ ~LacksCpuSpace(v)
    /\ SwapOutPart(v)
    /\ Continued(need, FALSE)
    /\ outLimit' = outLimit - need
    /\ UNCHANGED <<queues, inflight, work, texts, batchLeft, seqLimit, inLimit,
                   choice, delayed, scheduled, sampled, pc>>

\* All of the victim is swapped out: _preempt_by_swap, or a paused request
\* changes to the mode SWAP.
SwapVictim(v) ==
    /\ IsVictim(v) /\ 0 < GpuCount(v) /\ GpuCount(v) <= need /\ ~LacksCpuSpace(v)
    /\ SwapOutPart(v)
    /\ work' = [work EXCEPT ![v] = NoWork]
    /\ mode' = [mode EXCEPT ![v] = IF group = "paused" THEN "SWAP" ELSE @]
    /\ status' = [status EXCEPT ![v] = IF group = "paused" THEN @ ELSE "SWAPPED"]
    /\ swapped' = IF group = "paused" THEN swapped ELSE Append(swapped, v)
    /\ running' = IF group = "targets" THEN Front(running) ELSE running
    /\ LeaveGroup(v)
    /\ Continued(GpuCount(v), GroupEmpty(v))
    /\ outLimit' = IF group = "self" THEN outLimit ELSE outLimit - GpuCount(v)
    /\ UNCHANGED <<waiting, inflight, texts, batchLeft, seqLimit, inLimit,
                   demoted, scheduled, sampled, pc>>

\* The loop ends with enough room.
ScheduleCur ==
    /\ InLoop /\ need = 0 /\ Missing <= 0
    /\ Admit(cur, work[cur])
    /\ cur' = 0 /\ newBlocks' = 0
    /\ UNCHANGED <<waiting, running, swapped, need, group, victim, discards>>

-----------------------------------------------------------------------------
(* Between the passes, and the end of schedule().                          *)

PassOver(p, after) == pc = after \/ (pc = p /\ cur = 0 /\ Targets = <<>>)

\* The order of self.running is not used before it is sorted again, and the
\* same goes for self.waiting until the third pass.
FinishPass1 ==
    /\ PassOver("pass1", "after1") /\ pc' = "pass2"
    /\ running' = ByArrival(ToSet(running) \cup ToSet(delayed) \cup scheduled)
    /\ swapped' = ByArrival(ToSet(swapped))
    /\ delayed' = <<>>
    /\ seqLimit' = MaxNumSeqs - Cardinality(scheduled)
    /\ UNCHANGED <<blockVars, waiting, mode, status, data, texts, batchLeft,
                   inLimit, outLimit, choice, loop, scheduled, sampled>>

\* Variant: the delayed of the second pass are not put back.
ForgetDelayed ==
    /\ PassOver("pass2", "after2") /\ pc' = "pass3"
    /\ running' = ByArrival(ToSet(running) \cup scheduled)
    /\ waiting' = ByArrival(ToSet(waiting))
    /\ delayed' = <<>>
    /\ seqLimit' = MaxNumSeqs - Cardinality(scheduled)
    /\ UNCHANGED <<blockVars, swapped, mode, status, data, texts, batchLeft,
                   inLimit, outLimit, choice, loop, scheduled, sampled>>

FinishPass2 ==
    /\ PassOver("pass2", "after2") /\ pc' = "pass3"
    /\ running' = ByArrival(ToSet(running) \cup scheduled)
    /\ swapped' = swapped \o delayed
    /\ waiting' = ByArrival(ToSet(waiting))
    /\ delayed' = <<>>
    /\ seqLimit' = MaxNumSeqs - Cardinality(scheduled)
    /\ UNCHANGED <<blockVars, mode, status, data, texts, batchLeft, inLimit,
                   outLimit, choice, loop, scheduled, sampled>>

\* The step is executed unless is_empty() of its outputs.
FinishPass3 ==
    /\ PassOver("pass3", "after3")
    /\ running' = ByArrival(ToSet(running) \cup scheduled)
    /\ waiting' = delayed \o waiting
    /\ delayed' = <<>> /\ victims' = {}
    /\ batchLeft' = 0 /\ seqLimit' = 0 /\ inLimit' = 0 /\ outLimit' = 0
    /\ pc' = IF scheduled = {} /\ swapIn = {} /\ swapOut = {} THEN "idle" ELSE "execute"
    /\ UNCHANGED <<blockVars, swapped, mode, status, data, texts, demoted, loop,
                   scheduled, sampled>>

-----------------------------------------------------------------------------
(* The worker executes the step (its copies are made, see InferCeptCache), *)
(* and _process_model_outputs handles what it returns.                     *)

Tokens == [r \in Seqs |-> IF r \in scheduled THEN work[r].tokens ELSE 0]

PostForward ==
    /\ pc = "execute" /\ pc' = "process"
    /\ swapIn' = {} /\ swapOut' = {}
    /\ inflight' = [r \in Seqs |-> inflight[r] - Tokens[r]]
    /\ LET in == [r \in Seqs |-> IF r \in scheduled THEN work[r].swap ELSE 0]
       IN  /\ swapLen' = [r \in Seqs |-> swapLen[r] - in[r]]
           /\ swapStart' = [r \in Seqs |-> swapStart[r] + in[r]]
    /\ work' = [r \in Seqs |-> NoWork]
    /\ sampled' = {r \in scheduled : Tokens[r] > 0 /\ Tokens[r] = inflight[r]}
    /\ scheduled' = {}
    /\ UNCHANGED <<tables, freeGpu, freeCpu, queues, texts, limits, choice,
                   loop, delayed>>

\* append_token_id
AppendToken(r) ==
    /\ pc = "process"
    /\ r \in sampled /\ \A s \in sampled : r <= s
    /\ sampled' = sampled \ {r}
    /\ len' = [len EXCEPT ![r] = @ + 1]
    /\ UNCHANGED <<waiting, running, swapped, work, limits, choice, loop,
                   delayed, scheduled, pc>>

\* pause_seq_group: a swap that the CPU has no room for becomes a preserve,
\* and the copies wait for the next schedule().
CallApi(r, m) ==
    /\ AppendToken(r)
    /\ calls[r] < MaxCalls
    /\ calls' = [calls EXCEPT ![r] = @ + 1]
    /\ status' = [status EXCEPT ![r] = "PAUSED_API"]
    /\ inflight' = [inflight EXCEPT ![r] = IF m = "RECOMPUTE" THEN len'[r] ELSE @ + 1]
    /\ \/ /\ m = "RECOMPUTE" /\ Free(r)
          /\ mode' = [mode EXCEPT ![r] = "RECOMPUTE"]
          /\ UNCHANGED <<swapLen, swapStart>>
       \/ /\ m = "SWAP" /\ CanSwapOut(r) /\ SwapOut(r)
          /\ mode' = [mode EXCEPT ![r] = "SWAP"]
          /\ swapLen' = [swapLen EXCEPT ![r] = Len(tables[r])]
          /\ swapStart' = [swapStart EXCEPT ![r] = 0]
       \/ /\ m = "PRESERVE" \/ (m = "SWAP" /\ ~CanSwapOut(r))
          /\ mode' = [mode EXCEPT ![r] = "PRESERVE"]
          /\ UNCHANGED <<blockVars, swapLen, swapStart>>

StopRequest(r) ==
    /\ AppendToken(r)
    /\ status' = [status EXCEPT ![r] = "FINISHED_STOPPED"]
    /\ inflight' = [inflight EXCEPT ![r] = @ + 1]
    /\ Free(r)
    /\ UNCHANGED <<calls, mode, swapLen, swapStart>>

Continue(r) ==
    /\ AppendToken(r)
    /\ len[r] + 1 < MaxModelLen
    /\ len[r] + 1 - Prompt[r] < MaxTokens
    /\ inflight' = [inflight EXCEPT ![r] = @ + 1]
    /\ UNCHANGED <<blockVars, calls, status, mode, swapLen, swapStart>>

\* free_finished_seq_groups
FinishStep ==
    /\ pc = "process" /\ sampled = {} /\ pc' = "idle"
    /\ running' = OnlyOf(running, {r \in Seqs :
                              status[r] \notin Finished \cup {"PAUSED_API"}})
    /\ UNCHANGED <<blockVars, waiting, swapped, mode, status, data, texts,
                   limits, choice, loop, delayed, scheduled, sampled>>
-----------------------------------------------------------------------------
Client ==
    \E r \in Seqs : \/ AddRequest(r)
                    \/ AbortRequest(r)
                    \/ \E n \in ApiRets, single \in BOOLEAN : ResumeRequest(r, n, single)

PausePhase == StartSchedule \/ (\E r \in Seqs : Demote(r)) \/ StartPass1

PassPhase ==
    \/ \E r \in Seqs : \/ Ignore(r) \/ SequenceLimit(r) \/ BatchLimit(r)
                       \/ GiveUp(r) \/ Schedule(r) \/ StartEviction(r)
                       \/ RecomputeVictim(r) \/ SwapVictimPart(r) \/ SwapVictim(r)
                       \/ \E d \in Seqs : DiscardSwapped(r, d)
    \/ DelayCur \/ StartDiscard \/ ScheduleCur
    \/ FinishPass1 \/ FinishPass2 \/ FinishPass3

OutputPhase ==
    \/ \E r \in Seqs : \/ \E m \in PauseModes : CallApi(r, m)
                       \/ StopRequest(r) \/ Continue(r)
    \/ FinishStep

Step == PausePhase \/ PassPhase \/ PostForward \/ OutputPhase

Next == Client \/ Step

Spec == Init /\ [][Next]_vars

\* The engine is stepped as long as there are requests, and every API call
\* returns (strong, for a resume is possible only between the micro-steps).
Fairness ==
    /\ WF_vars(Step)
    /\ \A r \in Seqs :
          SF_vars(\E n \in ApiRets, single \in BOOLEAN : ResumeRequest(r, n, single))

FairSpec == Spec /\ Fairness

-----------------------------------------------------------------------------

Live(r) == status[r] \notin Finished \cup {"none"}

\* The block table of an unfinished request is what its data say: the tail
\* from swap_start_idx on is on the CPU, the rest on the GPU, and together
\* they hold the computed tokens, through every partial swap in and out.
\* (The assertions of passive_discard_by_order and _preempt_by_swap.)
TableMatchesData ==
    \A r \in Seqs : Live(r) =>
        LET w == IF r \in scheduled THEN work[r] ELSE NoWork
        IN  /\ Len(tables[r]) = Token2Block(Computed(r) + w.tokens)
            /\ Cardinality(OnCpu(r)) = swapLen[r] - w.swap
            /\ OnGpu(r) = 1..GpuCount(r)
            /\ swapLen[r] > 0 /\ w.tokens = 0 => swapStart[r] + w.swap = GpuCount(r)

\* A victim of passive_discard has blocks on the GPU ("Fully preempted seqs
\* should not stay in the victim group").
VictimsHoldBlocks == \A v \in Seqs : IsVictim(v) => GpuCount(v) > 0

InQueues == waiting \o running \o swapped

\* Between two calls of schedule() every unfinished request is once in the
\* queue its status names, or paused, although the passes pop the queues
\* they also append to: no request is lost or handled twice.
OneQueue ==
    pc \in {"idle", "pause", "execute"} =>
        /\ ToSet(waiting) = {r \in Seqs : status[r] = "WAITING"}
        /\ ToSet(running) = {r \in Seqs : status[r] = "RUNNING"}
        /\ ToSet(swapped) = {r \in Seqs : status[r] = "SWAPPED"}
        /\ Paused = {r \in Seqs : status[r] = "PAUSED_API"}
        /\ Len(InQueues) = Cardinality(ToSet(InQueues))

\* What was scheduled keeps its blocks until its batch is executed.
ScheduledKeepBlocks ==
    [][\A r \in scheduled : pc # "execute" => r \in scheduled' /\ tables'[r] = tables[r]]_vars

\* With room for one request at its full length, and a swap-out limit that
\* covers what one batch needs, every request finishes, in whatever parts it
\* is swapped out and in: no two requests evict or delay one another for ever.
EveryRequestFinishes ==
    \A r \in Seqs : (status[r] = "WAITING") ~> (status[r] \in Finished)
=============================================================================
