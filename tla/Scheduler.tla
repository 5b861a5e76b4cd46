----------------------------- MODULE Scheduler ------------------------------
(***************************************************************************)
(* The scheduler without chunked prefill (src/vllm/core/scheduler.py, used *)
(* when chunk_fill is off), with the engine that drives it and the worker  *)
(* that executes its batches.                                              *)
(*                                                                         *)
(*   idle -> prompts -> running -> swapped -> execute -> process -> idle   *)
(*                                                                         *)
(* A step runs either the prompts that fit, whole, or the requests that    *)
(* are generating and those that are swapped in again.  A running request  *)
(* for which the batch has no room is delayed to the next step; a victim   *)
(* is always recomputed.  Requests are numbered in order of arrival        *)
(* (policy "fcfs"), and each has one sequence.                             *)
(***************************************************************************)
EXTENDS Worker, SequencesExt, Queues

CONSTANTS
    Prompt,         \* prompt length of each request
    MaxModelLen,
    MaxTokens,      \* sampling_params.max_tokens
    MaxBatched,     \* max_num_batched_tokens
    MaxNumSeqs,
    PauseModes,     \* modes pause_seq_group chooses under the API policy
    ApiRets,        \* lengths of what an API call may return
    MaxCalls,       \* bound on the API calls of one request
    Abortable       \* requests whose client may go away

\* SchedulerConfig._verify_args
ASSUME ConfigAssumption ==
    /\ Seqs \subseteq Nat \ {0}
    /\ Prompt \in [Seqs -> Nat \ {0}]
    /\ MaxModelLen \in Nat /\ MaxTokens \in Nat /\ ApiRets \subseteq Nat
    /\ MaxBatched \in Nat /\ MaxModelLen <= MaxBatched
    /\ MaxNumSeqs \in Nat /\ MaxNumSeqs <= MaxBatched
    /\ PauseModes \subseteq {"PRESERVE", "SWAP", "RECOMPUTE"}

VARIABLES
    waiting, running, swapped,
    delayed,        \* delayed_running
    mode,           \* paused: the PreemptionMode, "none" if not paused
    status,         \* SequenceStatus, "none" before arrival
    calls, len,
    inflight,       \* inflight_length: tokens whose KV is not computed
    swapLen,        \* swap_length: blocks of the table that are swapped
    forward,        \* running_inflight_tokens of the batch
    pc,
    cur,            \* seq_group of the preemption loop, 0 outside of it
    tookDelayed,    \* this round of the loop has preempted a delayed one
    preempted,      \* the list is not empty
    ignored,        \* ignored_seq_groups is not empty
    batch           \* scheduled_seq_groups, then those not yet processed

queues == <<waiting, running, swapped, delayed, mode, status>>
texts  == <<calls, len>>
data   == <<inflight, swapLen>>
step   == <<forward, cur, tookDelayed, preempted, ignored, batch>>
vars   == <<blockVars, workerVars, queues, texts, data, step, pc>>

Computed(r) == len[r] - inflight[r]
Batched == FoldFunction(LAMBDA x, y : x + y, 0, forward)
FreeGpu == Cardinality(freeGpu)
Finished == {"FINISHED_STOPPED", "FINISHED_ABORTED", "FINISHED_IGNORED"}

\* sort_by_priority of the policy "fcfs"
ByArrival(q) == Ascending(ToSet(q))

NoForward == [r \in Seqs |-> 0]

Init ==
    /\ InitBlocks /\ InitWorker
    /\ waiting = <<>> /\ running = <<>> /\ swapped = <<>> /\ delayed = <<>>
    /\ mode = [r \in Seqs |-> "none"] /\ status = [r \in Seqs |-> "none"]
    /\ calls = [r \in Seqs |-> 0]
    /\ len = Prompt /\ inflight = Prompt
    /\ swapLen = [r \in Seqs |-> 0]
    /\ forward = NoForward /\ pc = "idle" /\ cur = 0 /\ batch = <<>>
    /\ tookDelayed = FALSE /\ preempted = FALSE /\ ignored = FALSE

-----------------------------------------------------------------------------
(* Requests entering, leaving and returning.                               *)

AddRequest(r) ==
    /\ pc = "idle" /\ status[r] = "none"
    /\ \A s \in Seqs : s < r => status[s] # "none"
    /\ status' = [status EXCEPT ![r] = "WAITING"]
    /\ waiting' = Append(waiting, r)
    /\ UNCHANGED <<blockVars, workerVars, running, swapped, delayed, mode,
                   texts, data, step, pc>>

\* abort_seq_group: neither the paused nor the delayed are looked at.
AbortRequest(r) ==
    /\ pc = "idle" /\ r \in Abortable
    /\ r \in ToSet(waiting \o running \o swapped)
    /\ waiting' = Without(waiting, r)
    /\ running' = Without(running, r)
    /\ swapped' = Without(swapped, r)
    /\ status' = [status EXCEPT ![r] = "FINISHED_ABORTED"]
    /\ Free(r)
    /\ UNCHANGED <<workerVars, delayed, mode, texts, data, step, pc>>

\* resume_request and resume_request_single: what does not fit of the API's
\* return is cut off; a negative slice bound cuts at the end.
ApiTokens(r, n, single) ==
    LET room == Min({MaxModelLen - len[r],
                     MaxTokens - (IF single THEN 1 ELSE 0) - (len[r] - Prompt[r])})
        k    == Min({n, room})
    IN  IF k >= 0 THEN k ELSE Max({0, n + k})

\* resume_seq_group, also between schedule() and the outputs of the step
ResumeRequest(r, n, single) ==
    /\ pc \in {"idle", "execute"} /\ mode[r] # "none"
    /\ len' = [len EXCEPT ![r] = @ + ApiTokens(r, n, single)]
    /\ inflight' = [inflight EXCEPT ![r] = @ + ApiTokens(r, n, single)]
    /\ mode' = [mode EXCEPT ![r] = "none"]
    /\ \/ /\ mode[r] = "PRESERVE" /\ running' = Append(running, r)
          /\ status' = [status EXCEPT ![r] = "RUNNING"]
          /\ UNCHANGED <<waiting, swapped>>
       \/ /\ mode[r] = "SWAP" /\ swapped' = Append(swapped, r)
          /\ status' = [status EXCEPT ![r] = "SWAPPED"]
          /\ UNCHANGED <<waiting, running>>
       \/ /\ mode[r] = "RECOMPUTE" /\ waiting' = Append(waiting, r)
          /\ status' = [status EXCEPT ![r] = "WAITING"]
          /\ UNCHANGED <<running, swapped>>
    /\ UNCHANGED <<blockVars, workerVars, delayed, calls, swapLen, step, pc>>

-----------------------------------------------------------------------------
(* schedule() and the waiting requests.                                    *)

\* Variant: the delayed are not put back.
LeaveDelayed ==
    /\ pc = "idle"
    /\ running' = IF swapped = <<>> THEN running ELSE ByArrival(running)
    /\ pc' = IF swapped = <<>> THEN "prompts" ELSE "running"
    /\ preempted' = FALSE /\ ignored' = FALSE
    /\ UNCHANGED <<blockVars, workerVars, waiting, swapped, delayed, mode, status,
                   texts, data, forward, cur, tookDelayed, batch>>

StartSchedule ==
    /\ pc = "idle"
    /\ running' = IF swapped = <<>> THEN running \o delayed
                                    ELSE ByArrival(running \o delayed)
    /\ delayed' = <<>>
    /\ pc' = IF swapped = <<>> THEN "prompts" ELSE "running"
    /\ preempted' = FALSE /\ ignored' = FALSE
    /\ UNCHANGED <<blockVars, workerVars, waiting, swapped, mode, status, texts,
                   data, forward, cur, tookDelayed, batch>>

\* get_memory_requirement: the blocks to swap in, and those for new tokens
NewBlocks(r) == Token2Block(len[r]) - Token2Block(Computed(r))
MemoryRequirement(r) == swapLen[r] + NewBlocks(r)

\* can_fulfill_blocks
Fits(r) == MemoryRequirement(r) <= FreeGpu

\* The step is executed unless is_empty() of its outputs.
FinishSchedule ==
    pc' = IF batch = <<>> /\ swapIn = {} /\ swapOut = {} THEN "idle" ELSE "execute"

NextPrompt(r) == pc = "prompts" /\ waiting # <<>> /\ r = Head(waiting)

\* prompt_limit is max_model_len, the smaller of the two.
TooLong(r) == len[r] > MaxModelLen

IgnorePrompt(r) ==
    /\ NextPrompt(r) /\ TooLong(r)
    /\ status' = [status EXCEPT ![r] = "FINISHED_IGNORED"]
    /\ waiting' = Tail(waiting)
    /\ ignored' = TRUE
    /\ UNCHANGED <<blockVars, workerVars, running, swapped, delayed, mode, texts,
                   data, forward, cur, tookDelayed, preempted, batch, pc>>

HasRoom(r) ==
    /\ Batched + len[r] <= MaxBatched
    /\ Len(running) < MaxNumSeqs /\ Fits(r)

\* allocate, with all its tokens as the workload
Admit(r) ==
    /\ Allocate(r, swapLen[r], NewBlocks(r))
    /\ status' = [status EXCEPT ![r] = "RUNNING"]
    /\ forward' = [forward EXCEPT ![r] = inflight[r]]
    /\ batch' = Append(batch, r)
    /\ UNCHANGED <<workerVars, mode, texts, data, ignored, pc>>

AdmitPrompt(r) ==
    /\ NextPrompt(r) /\ ~TooLong(r) /\ HasRoom(r)
    /\ waiting' = Tail(waiting) /\ running' = Append(running, r)
    /\ Admit(r)
    /\ UNCHANGED <<swapped, delayed, cur, tookDelayed, preempted>>

\* The others run only if no prompt does.
FinishPrompts ==
    /\ pc = "prompts"
    /\ \A r \in Seqs : NextPrompt(r) => ~TooLong(r) /\ ~HasRoom(r)
    /\ IF batch # <<>> \/ ignored
       THEN FinishSchedule /\ UNCHANGED running
       ELSE pc' = "running" /\ running' = ByArrival(running)
    /\ UNCHANGED <<blockVars, workerVars, waiting, swapped, delayed, mode,
                   status, texts, data, step>>

-----------------------------------------------------------------------------
(* The running requests: each takes the slots of its tokens, and preempts  *)
(* others, then itself, while there are none.                              *)

NextRunning(r) == pc = "running" /\ cur = 0 /\ running # <<>> /\ r = Head(running)

Delay(r) ==
    /\ NextRunning(r) /\ Batched + inflight[r] > MaxBatched
    /\ running' = Tail(running) /\ delayed' = Append(delayed, r)
    /\ UNCHANGED <<blockVars, workerVars, waiting, swapped, mode, status, texts,
                   data, step, pc>>

TakeRunning(r) ==
    /\ NextRunning(r) /\ Batched + inflight[r] <= MaxBatched
    /\ running' = Tail(running) /\ cur' = r
    /\ UNCHANGED <<blockVars, workerVars, waiting, swapped, delayed, mode,
                   status, texts, data, forward, tookDelayed, preempted,
                   ignored, batch, pc>>

ScheduleCur ==
    /\ cur # 0 /\ ~tookDelayed /\ Fits(cur)
    /\ Admit(cur)
    /\ cur' = 0
    /\ UNCHANGED <<waiting, running, swapped, delayed, tookDelayed, preempted>>

\* Variant: the data still say that the blocks are computed.
RecomputeKeepingData(r) ==
    /\ Free(r)
    /\ UNCHANGED data

\* The blocks go, and all is computed again.
Recompute(r) ==
    /\ Free(r)
    /\ inflight' = [inflight EXCEPT ![r] = len[r]]
    /\ swapLen' = [swapLen EXCEPT ![r] = 0]

\* _preempt, always by recomputation, to the front of the queue
Preempt(r) ==
    /\ Recompute(r)
    /\ status' = [status EXCEPT ![r] = "WAITING"]
    /\ waiting' = <<r>> \o waiting
    /\ preempted' = TRUE
    /\ UNCHANGED <<workerVars, swapped, mode, texts, forward, ignored, batch, pc>>

MustPreempt == cur # 0 /\ (tookDelayed \/ ~Fits(cur))

\* One round preempts the last delayed request, if there is one, and then the
\* last running one, or the current one: whether the first was enough or not.
PreemptDelayed ==
    /\ MustPreempt /\ ~tookDelayed /\ delayed # <<>>
    /\ Preempt(Last(delayed))
    /\ delayed' = Front(delayed) /\ tookDelayed' = TRUE
    /\ UNCHANGED <<running, cur>>

PreemptRunning ==
    /\ MustPreempt /\ (tookDelayed \/ delayed = <<>>) /\ running # <<>>
    /\ Preempt(Last(running))
    /\ running' = Front(running) /\ tookDelayed' = FALSE
    /\ UNCHANGED <<delayed, cur>>

PreemptCur ==
    /\ MustPreempt /\ (tookDelayed \/ delayed = <<>>) /\ running = <<>>
    /\ Preempt(cur)
    /\ cur' = 0 /\ tookDelayed' = FALSE
    /\ UNCHANGED <<running, delayed>>

\* self.running becomes the list of those scheduled.
FinishRunning ==
    /\ pc = "running" /\ cur = 0 /\ running = <<>>
    /\ running' = batch
    /\ swapped' = ByArrival(swapped)
    /\ IF preempted THEN FinishSchedule ELSE pc' = "swapped"
    /\ UNCHANGED <<blockVars, workerVars, waiting, delayed, mode, status, texts,
                   data, step>>

-----------------------------------------------------------------------------
(* The swapped requests, if nobody was preempted for want of blocks.       *)

HasRoomSwapped(r) ==
    /\ Fits(r) /\ Len(running) < MaxNumSeqs
    /\ Batched + inflight[r] <= MaxBatched

NextSwapped(r) == pc = "swapped" /\ swapped # <<>> /\ r = Head(swapped)

AdmitSwapped(r) ==
    /\ NextSwapped(r) /\ HasRoomSwapped(r)
    /\ swapped' = Tail(swapped) /\ running' = Append(running, r)
    /\ Admit(r)
    /\ UNCHANGED <<waiting, delayed, cur, tookDelayed, preempted>>

FinishSwapped ==
    /\ pc = "swapped" /\ FinishSchedule
    /\ \A r \in Seqs : NextSwapped(r) => ~HasRoomSwapped(r)
    /\ UNCHANGED <<blockVars, workerVars, queues, texts, data, step>>

-----------------------------------------------------------------------------
(* The step is executed, and _process_model_outputs handles its results.   *)

PostForward ==
    /\ pc = "execute" /\ pc' = "process"
    /\ Execute([r \in Seqs |-> Computed(r)], forward)
    /\ inflight' = [r \in Seqs |-> inflight[r] - forward[r]]
    /\ swapLen' = [r \in Seqs |-> IF r \in ToSet(batch) THEN 0 ELSE swapLen[r]]
    /\ forward' = NoForward
    /\ UNCHANGED <<queues, texts, cur, tookDelayed, preempted, ignored, batch>>

\* append_token_id
AppendToken(r) ==
    /\ pc = "process" /\ batch # <<>> /\ r = Head(batch)
    /\ batch' = Tail(batch)
    /\ len' = [len EXCEPT ![r] = @ + 1]
    /\ UNCHANGED <<workerVars, waiting, running, swapped, delayed, forward, cur,
                   tookDelayed, preempted, ignored, pc>>

\* pause_seq_group: the blocks go to the CPU with the next step; without room
\* there they are given up.
CallApi(r, m) ==
    /\ AppendToken(r)
    /\ calls[r] < MaxCalls
    /\ calls' = [calls EXCEPT ![r] = @ + 1]
    /\ status' = [status EXCEPT ![r] = "PAUSED_API"]
    /\ LET swaps == m = "SWAP" /\ CanSwapOut(r)
           now   == IF m = "SWAP" /\ ~swaps THEN "RECOMPUTE" ELSE m
       IN  /\ mode' = [mode EXCEPT ![r] = now]
           /\ inflight' = [inflight EXCEPT ![r] =
                 IF now = "RECOMPUTE" THEN len'[r] ELSE @ + 1]
           /\ swapLen' = [swapLen EXCEPT ![r] = IF swaps THEN Len(tables[r]) ELSE 0]
           /\ \/ now = "RECOMPUTE" /\ Free(r)
              \/ now = "SWAP" /\ SwapOut(r)
              \/ now = "PRESERVE" /\ UNCHANGED blockVars

StopRequest(r) ==
    /\ AppendToken(r)
    /\ status' = [status EXCEPT ![r] = "FINISHED_STOPPED"]
    /\ inflight' = [inflight EXCEPT ![r] = @ + 1]
    /\ Free(r)
    /\ UNCHANGED <<mode, calls, swapLen>>

Continue(r) ==
    /\ AppendToken(r)
    /\ len[r] + 1 < MaxModelLen /\ len[r] + 1 - Prompt[r] < MaxTokens
    /\ inflight' = [inflight EXCEPT ![r] = @ + 1]
    /\ UNCHANGED <<blockVars, mode, status, calls, swapLen>>

\* Variant: a paused request stays in the running queue.
KeepPaused ==
    /\ pc = "process" /\ batch = <<>> /\ pc' = "idle"
    /\ running' = OnlyOf(running, {r \in Seqs : status[r] \notin Finished})
    /\ reads' = Unread
    /\ UNCHANGED <<blockVars, kv, waiting, swapped, delayed, mode,
                   status, texts, data, step>>

\* free_finished_seq_groups; the results of the step are with the clients.
FinishStep ==
    /\ pc = "process" /\ batch = <<>> /\ pc' = "idle"
    /\ running' = OnlyOf(running, {r \in Seqs :
                              status[r] \notin Finished \cup {"PAUSED_API"}})
    /\ reads' = Unread
    /\ UNCHANGED <<blockVars, kv, waiting, swapped, delayed, mode,
                   status, texts, data, step>>

-----------------------------------------------------------------------------
Client ==
    \E r \in Seqs : \/ AddRequest(r)
                    \/ AbortRequest(r)
                    \/ \E n \in ApiRets, single \in BOOLEAN : ResumeRequest(r, n, single)

Schedule ==
    \/ StartSchedule
    \/ \E r \in Seqs : \/ IgnorePrompt(r) \/ AdmitPrompt(r)
                       \/ Delay(r) \/ TakeRunning(r) \/ AdmitSwapped(r)
    \/ ScheduleCur \/ PreemptDelayed \/ PreemptRunning \/ PreemptCur
    \/ FinishPrompts \/ FinishRunning \/ FinishSwapped

Outputs ==
    \/ PostForward \/ FinishStep
    \/ \E r \in Seqs : \/ \E m \in PauseModes : CallApi(r, m)
                       \/ StopRequest(r) \/ Continue(r)

Next == Client \/ Schedule \/ Outputs

Spec == Init /\ [][Next]_vars

-----------------------------------------------------------------------------
Live(r) == status[r] \notin Finished \cup {"none"}

\* The block table of an unfinished request holds its computed tokens and
\* those it is about to forward, all on the GPU or, when swap_length says so,
\* all on the CPU: through pauses that find no room, preemptions and returns
\* of any length (the assertions of _preempt_by_swap and allocate).
TableMatchesData ==
    \A r \in Seqs : Live(r) =>
        /\ Len(tables[r]) = Token2Block(Computed(r) + forward[r])
        /\ Cardinality(OnCpu(r)) = IF r \in ToSet(batch) THEN 0 ELSE swapLen[r]
        /\ OnCpu(r) = {} \/ OnGpu(r) = {}

\* Between two calls of schedule() each unfinished request is paused or in one
\* queue, the delayed ones included, although the passes preempt from the
\* lists they consume.
OneQueue ==
    pc \in {"idle", "execute"} =>
        LET all == waiting \o running \o swapped \o delayed
        IN  /\ ToSet(waiting) = {r \in Seqs : status[r] = "WAITING"}
            /\ ToSet(running \o delayed) = {r \in Seqs : status[r] = "RUNNING"}
            /\ ToSet(swapped) = {r \in Seqs : status[r] = "SWAPPED"}
            /\ {r \in Seqs : mode[r] # "none"} = {r \in Seqs : status[r] = "PAUSED_API"}
            /\ Len(all) = Cardinality(ToSet(all))

\* schedule() runs nobody only if nobody is left or a paused request keeps its
\* blocks. Such a step has no outputs, also when it copies swapped blocks, and
\* run_engine_loop then sleeps; the paused request's return wakes it.
EmptyOnlyBehindPaused ==
    [][ (pc \notin {"idle", "execute", "process"} /\ pc' \in {"idle", "execute"}
            /\ batch' = <<>> /\ ~ignored) =>
            \/ \A r \in Seqs : ~Live(r) \/ mode[r] # "none"
            \/ \E r \in Seqs : mode[r] = "PRESERVE" ]_vars

\* The tokens of each request in the cache: none once its blocks are freed
cached == [r \in Seqs |-> IF status[r] \in {"FINISHED_STOPPED", "FINISHED_ABORTED"}
                         THEN 0 ELSE Computed(r)]

Store == INSTANCE TokenStore WITH size <- cached

\* Each forward pass reads all tokens of its requests and no other, whatever
\* was swapped, preempted and handed out in between.
ServesTokens == Store!Spec
=============================================================================
