# Verification of the MARS serving engine

MARS is a fork of vLLM that serves language model requests which call external APIs in the
middle of their generation. While the API runs, the request is paused and its KV cache is
kept on the GPU, swapped to the CPU, or dropped and recomputed later. This directory holds
TLA+ models of the engine, TLC configurations that check them on small instances, and
proofs checked by TLAPS.

## Inventory

| Component | Source | State | Operations | What can go wrong | Modelled in |
|---|---|---|---|---|---|
| SchedulerV2 | `vllm/core/scheduler_v2.py` | the queues `waiting`, `running`, `swapped`, `paused`; the batch budget | `add_seq_group`, `abort_seq_group`, `pause_*`, `resume_seq_group`, `schedule` | requests lost or in two queues, blocks taken from a scheduled request, endless eviction, a paused request forwarded | `SchedulerV2`, `Starvation` |
| InferCept scheduler | `vllm/core/scheduler_v2_infercept.py` | as SchedulerV2, and the limits on the blocks swapped in a step | as SchedulerV2, with partial swaps | as SchedulerV2; a block reused before it is copied | `InferCept`, `InferCeptCache` |
| Scheduler without chunked prefill | `vllm/core/scheduler.py` | as above, `delayed_running` | as above | a delayed or preempted request lost | `Scheduler` |
| Block manager | `vllm/core/block_manager.py` | free blocks of two devices, block tables, the copies of a step | `allocate`, `swap_out`, `swap_out_from_back`, `free` | leaks, double use, overdrawn pools, copies that overtake each other | `BlockSpaceManager` |
| Sequence bookkeeping | `vllm/sequence.py` | `inflight_length`, `swap_length`, the workload, status, starvation counters | `populate_workload`, `post_forward`, `clear_workload`, `append_token_id` | bookkeeping that does not match the block table | the scheduler modules, `Starvation` |
| Engine | `vllm/engine/llm_engine.py` | the requests and workers | `add_request`, `step`, `resume_request`, `abort_request` | stops and API calls in the wrong order, API returns over a limit | the scheduler modules |
| Async engine | `vllm/engine/async_llm_engine.py` | output streams, queues of new, aborted and resumed requests | the engine loop, `generate`, `abort`, `resume_request` | a client leaving while a step is awaited | `AsyncEngine` |
| Policies | `vllm/core/policy.py` | cached scores | `sort_by_priority` | starvation, stale scores | order only: `Starvation`, the schedulers |
| Worker, cache engine | `vllm/worker/` | the KV cache | `execute_model`, swaps | a block overwritten before it is swapped out, a wrong slot | `Worker`, `KVCache` |
| Model execution | `vllm/model_executor/` | the weights of each rank | building, `load_weights`, the forward pass, sampling | a rank computing with rows of another head, samples given to another request | `TensorParallel`, `ShardedModels`, `ModelExecution` |
| Configuration | `vllm/config.py`, `vllm/engine/arg_utils.py` | | checks | limits that do not fit each other | constants and assumptions of the modules |
| Servers, prediction, kernels, benchmarks | `vllm/entrypoints/`, `prediction/`, `csrc/` | | | | no, see the end |

The engine is one process. `AsyncLLMEngine.run_engine_loop` calls `LLMEngine.step` again
and again; a step calls `schedule` of one of three schedulers, sends the batch to the workers,
and processes the outputs. `LLMEngine` takes `Scheduler` when `chunk_fill` is off, `SchedulerV2` under the
API policy "V", and `SchedulerV2_InferCept` under the others. In the async engine the workers' answer is awaited, so
that calls of the server (a resumed API call, an abort, a new request) may run between `schedule` and
the processing of the outputs. The scheduler calls the block manager and writes the
bookkeeping of each sequence; nothing but those three decide where a request's KV cache is. The worker receives
the block tables and two dictionaries of blocks to copy, makes the copies layer by layer in front of the
attention, and runs the model, sharded over the ranks.

### State and interactions in detail

`SchedulerV2` decides what every request's KV cache goes through. A request
arrives in `waiting`, is moved to `running` by a pass that allocates blocks for the next chunk
of its prompt, and generates one token per step once its prompt is computed. When the new
token completes an API call, `_check_stop` puts it into `paused` with its blocks on the GPU;
the next `schedule()` may swap those blocks out or discard them, following the strategy that
`classify()` chose, or later take them as the preferred victims of an eviction. `resume_seq_group`
moves it to `running`, `swapped` or `waiting`, whichever fits the place of its blocks. Three
records describe the same blocks: the tables of the block manager, the lengths in
`SequenceData` (`inflight_length`, `swap_length`, the workload), and the queue or mode.

The block manager hands out block numbers at once and the copies are made later, by the worker, in an order
of its own: everything that goes out, then everything that comes in. Whether a block's content is right therefore depends on
the order of the calls within `schedule()`, which no single component knows. `CacheProtocol` states the
order that is needed, `KVCache` shows that it is enough, and `SchedulerV2` is shown to keep it.

`AsyncLLMEngine` gives every request a stream. `RequestTracker` keeps the ids to abort
(`_finished_requests`), the new requests, and the registered streams; `get_new_and_finished_requests`
drains the first two at the start of a step, and `process_request_output` writes to the streams at
its end. A pause writes a `StopIteration` into the stream and leaves it registered: the client
iterates the same stream again after `resume_request`.

### Behaviours that are hard to test

- *Chains of preemptions inside one `schedule()`.* The call runs two passes over lists that
  it consumes while it evicts from them, and makes CPU room by discarding swapped requests,
  which can be targets of the pass in progress.
- *Bookkeeping of one fact in three places*, updated at different moments: the workload is
  populated before the evictions and allocated after them; `post_forward` runs after the workers.
- *Callbacks between steps and inside a step.* asyncio runs the clients at three places: while
  the loop waits for its event, at the `sleep(0)` after a step, and, with Ray workers, between
  `schedule()` and the outputs.
- *Two queues drained in a fixed order*: aborts are applied before new requests, whichever
  came first.
- *Death and restart of the loop* over the groups and streams of the loop before it.
- *Liveness under preemption*: a request can be evicted again and again; the loop can sleep.
- *A block freed and reused within one call of `schedule()`*, before the copy of its old content.
- *Partial swaps, repeatedly, in both directions*, described by two numbers.
- *The same shape, other rows*: a shard of a fused, grouped or transposed weight that is cut at the wrong place
  loads without an error.
- *Boundaries*: pools at 0, a batch that fills exactly, `prompt_limit`, an API return longer
  than the room that is left, negative slices.

`PROJECT.json` lists each at its line with the properties that would catch it going wrong.

### What makes each component correct

| Component | Correct means | Where |
|---|---|---|
| SchedulerV2 | one queue per request, scheduled blocks stay, paused requests stay out, evictions follow arrival, every step ends, every request finishes | `SchedulerV2` |
| InferCept scheduler | the same with part of a table on each device, and every request reads its own tokens | `InferCept`, `InferCeptCache` |
| Scheduler without chunked prefill | nobody is lost between the local lists, the engine idles only behind a paused request | `Scheduler` |
| Block manager | no pool overdrawn, no block lost or in two tables | `SchedulerV2` as counts, `KVCache` with identities |
| Sequence bookkeeping | `inflight_length` and `swap_length` describe the block table | the three scheduler modules |
| Engine step | stops and pauses in the right order | the three scheduler modules |
| Async engine | streams and groups agree, no lost wake-up, the loop lives, every client is answered | `AsyncEngine` |
| Policies | a starving request is preferred after `starvation_threshold` steps and is served | `Starvation` |
| Worker, cache engine | every attention reads all tokens of its own sequence, in order | `KVCache` against `TokenStore` |
| Model execution | the ranks together compute the unsharded model; every request gets its own sample | `ModelExecution` |

## Plan

The order was that of importance: what decides over the memory of the requests first, then what
decides over their answers, then the parts below and beside them.

1. `SchedulerV2`, `SchedulerV2MC`, `SchedulerV2Proofs`: done.
2. `AsyncEngine`, `AsyncEngineMC`, `AsyncEngineProofs`: done.
3. `BlockSpaceManager`, `Worker`, `KVCache`, and the abstract `TokenStore` they implement, with `KVCacheProofs`: done.
4. `CacheProtocol`, the abstract specification of a scheduler as the block manager sees it, and its proof in `SchedulerV2Proofs`: done.
5. `InferCept`, `InferCeptProofs`, and `InferCeptCache` that composes it with the worker: done.
6. `Scheduler`, composed with the worker, and `SchedulerProofs`: done.
7. `Starvation`, `StarvationProofs`: done for the order and the counters.
8. `TensorParallel`, `ShardedModels`, `ModelExecution`, `ModelExecutionProofs`: done.

Left: a module of the abstract life of a request that `AsyncEngine` and the schedulers implement;
reference counts and `fork`; the score of policy V with its cache; a proof of
`ForwardIsUnsharded`, and that `InferCept` with its worker reads its own tokens in the steps in which no block is given back and
taken again.

## How the modules correspond to the code

### SchedulerV2

State: the three deques are sets, ordered where the code relies on order by the number of the
request, which is its arrival. `paused` is the function `mode`. Of a block table the number of
blocks on each device is kept, with `tables` for the requests that have one at all; `free` of a request
without table does nothing, and `get_seq_blocks_by_device` without table raises. `inflight`, `swapLen` and
`work` are the fields of `SequenceData`. The variables from `targets` on are the locals of `schedule()` and
`_schedule`, so that a call is a sequence of micro-steps along `pc`.

| Action | Code |
|---|---|
| `AddRequest`, `AbortRequest`, `ResumeRequest` | `LLMEngine.add_request`, `abort_request`, `resume_request(_single)` with the scheduler's methods they call |
| `StartSchedule`, `Demote` | `_active_discard`, and the choice among the paused: those of largest waste become victims, the others follow their strategy |
| `StartPass1`, `FinishPass1`, `FinishPass2` | the beginning and the ends of the two calls of `_schedule` |
| `Ignore`, `SequenceLimit`, `BatchLimit`, `Schedule`, `GiveUp`, `StartEviction` | one iteration of `_schedule`'s loop, one action per branch |
| `DiscardSwapped`, `Evict`, `DelayCur`, `ScheduleCur` | one iteration of `passive_discard` and `passive_discard_by_order`, and the ends of the loop around them |
| `PostForward`, `CallApi`, `StopRequest`, `Continue`, `FinishStep` | `_process_model_outputs` with `_check_stop` and `free_finished_seq_groups` |

Abstractions, each one a superset of what the code does:

- `classify()` computes floating point costs; any member of `Classes` may come out.
- The second pass takes its targets in any order, in place of the score; victims among the
  paused and swapped requests to discard come in any order too.
- Sequence groups have one sequence: beam search and `n > 1` are not modelled (the schedulers assert it).
- `FINISHED_STOPPED` stands for the length caps too, and a stop may come with any token. The API's stop
  string is looked at first, as in the code.
- `prompt_limit` and `max_model_len` are one constant. The swap limits of the configuration
  (1e9 by default) are never reached; the batch of 384 tokens is `BatchMax`.
- The calls of clients come between two steps; `ResumeRequest` also between `schedule()` and the
  outputs, because the API server calls the engine directly.
- A raised exception is the phase `crashed`, where the synchronous drivers end. The async engine may start its loop again, over the queues and
  blocks as the exception left them: `schedule()` has popped requests that it has not put back. That life after a `crashed` is not followed
  block by block; `AsyncEngine` takes up what its clients can see of it (`ScheduleRaises`, `pool`).

### AsyncEngine

State: `newRequests`, `finishedRequests`, `streams` and `event` are the fields of `RequestTracker`; `box` holds the
queue of each stream, `client` and `lastOutput` the coroutine that reads it. `group` reduces the
engine to what `SchedulerV2` shows of it: queued (in one of three queues), paused, done, which here means in none. `batch`,
`ignored`, `outputs`, `outputsAgain` are the locals of `engine_step`; `outputsAgain` are the ignored groups
that `step_async` adds a second time. Two variables are history: `abortsLost`, the requests whose abort was taken from the tracker and never
reached the engine, and `pool`, "leaky" once a request that is in no queue may keep its blocks for good (after `ScheduleRaises`, or when one that has run is ignored):
then a step may have nobody to run although nobody is paused.

| Action | Code |
|---|---|
| `Generate` | `generate` up to its first wait, `add_request`, `start_background_loop` if the loop is not running |
| `Receive`, `ReceiveError` | `AsyncStream.__anext__` and the handler around it in `generate` |
| `Cancel` | a cancelled `generate` or a call of `abort` |
| `Leave` | external: the client does not come back from its API |
| `ResumeRequest` | `resume_request`, `resume_request_single` |
| `TakeRequests` | `get_new_and_finished_requests`, the first part of each of the next three |
| `StartStep` | `engine_step` up to the workers: the two queues, the calls of the engine, `schedule()`; without a batch the workers are called only if blocks have to be copied |
| `AddRequestRaises` | the engine's `add_request` raises, in the middle of the new requests and before `_engine_abort` |
| `ScheduleRaises` | `schedule()` raises, where `SchedulerV2` is `crashed` |
| `FinishWorkers`, `WorkersRaise` | the workers' answer and `_process_model_outputs`; their exception |
| `Deliver`, `Die` | one output through `process_request_output`; its `KeyError` and `_raise_exception_on_finish` |

`ClientsRun` says where a client may run. Outputs of a step come in any order. An id is used
for one request at a time (`IdInUse`), as `add_request` demands; its `KeyError` is not modelled, and
`StreamsMatchClients` shows that an id whose client saw the end is no longer registered.
`start_engine_loop` is on; `engine_use_ray` is not modelled, because `resume_request` calls the engine
directly and cannot work with it. `MayRefuse` are the calls for which `add_request` may raise, for example because their id is no number
(`int(request_id)` under policy V); `MayRaise` says whether `schedule()` and the workers may. All three end `run_engine_loop`, and
`_raise_exception_on_finish` puts the exception into every registered stream (`WithException`).
An intermediate output is the item "partial". `TooLong` are requests that may be found too long by the
scheduler, not all of which need to be.

### CacheProtocol

The scheduler as the block manager sees it, in two phases of a step. First blocks go out (`SwapOut`); what is discarded
meanwhile has its blocks on the GPU, so that no CPU block is given back while others go out. Then requests are allocated for
(`Schedule`) and only discards go on; a request that was allocated for keeps its blocks, all on the GPU, until the worker has run. `SchedulerV2` implements it under a refinement mapping of its counts
(`FollowsProtocol`), and `KVCache` takes its actions from it.

### BlockSpaceManager, Worker, KVCache, TokenStore

`BlockSpaceManager` holds block identities: `tables`, the free blocks, and the two dictionaries of a step. Any free
block may be handed out, in place of the order of the free list. `Worker` holds the contents: `kv` maps
each block to its slots, a slot holds the pair of a sequence and a position.

| Operator or action | Code |
|---|---|
| `Allocate` | `BlockSpaceManager.allocate`: blocks to swap in get GPU blocks and their CPU blocks are freed at once, then new blocks |
| `SwapOut`, `SwapOutFromBack` | `swap_out`, `swap_out_from_back` |
| `CanSwapOut`, `Free` | `can_swap_out`, `free` |
| `Execute` | `Worker.execute_model` with the forward pass: the copies out, the copies in, the keys and values of the new tokens at their slots, and what the attention reads |
| `KVCache`: `Begin`, `SwapOutPaused`, `Discard`, `StartPasses`, `Schedule`, `Finish` | the calls of `scheduler_v2.py`, in every order `CacheProtocol` allows |

`TokenStore` is what a user of the cache expects: each sequence has a memory of its own, which only grows, or is dropped as
a whole, and a forward pass reads all of it in order. `ServesTokens` says that `KVCache`, and `Scheduler` with
its worker, implement it. `KVCache` has two shapes: `SchedulerV2` starts a step with what leaves the GPU, the older scheduler pauses requests while the
outputs are processed and starts with a pass. `AfterStep` and the initial phase leave both open, and `Scheduler` is shown to be a user of
`KVCache` in the second shape (`KeepsCache`). `Lengths` are the lengths a sequence may have; for `Scheduler` they are all of `Nat`.
Layers are alike and each waits for its own copies, so one stands for all.

### InferCept, InferCeptCache

`SchedulerV2_InferCept` with block identities: targets are the queues themselves, so `queues` are sequences that the
passes pop from and append to. `swapStart` and `swapLen` are `swap_start_idx` and `swap_length`.

| Action | Code |
|---|---|
| `AddRequest`, `AbortRequest`, `ResumeRequest` | as in `SchedulerV2` |
| `StartSchedule`, `Demote`, `ActiveDiscard` | the paused requests, with the limits of the step, any of `InLimits` and `OutLimits` |
| `Ignore`, `SequenceLimit`, `BatchLimit`, `Schedule`, `GiveUp`, `StartEviction`, `PassOver` | one iteration of `_schedule`, in the passes over running, swapped and waiting |
| `DelayCur`, `StartDiscard`, `DiscardSwapped`, `RecomputeVictim`, `SwapVictimPart`, `SwapVictim`, `ScheduleCur` | `passive_discard` and the loop around it |
| `PostForward`, `CallApi`, `StopRequest`, `Continue`, `FinishStep` | outputs of the step |

`InferCeptCache` adds the `Worker` without changing the scheduler. The limits are computed in the code from measured
times and the batch (lines 797-811); a run gives the values that may come out.

### Scheduler

The scheduler used when `chunk_fill` is off, with the worker: `IgnorePrompt` and `AdmitPrompt` are its loop over prompts, `Delay`,
`TakeRunning`, `PreemptDelayed`, `PreemptRunning`, `PreemptCur` the loop over running requests, `AdmitSwapped` the
one over swapped ones. A victim is always recomputed. The methods of this class for chunked prefill
(`_schedule_chunk_and_fill`, the `resuming` queue, `_preempt_by_swap`) are reached by no configuration and left out.

### Starvation

The second pass of `SchedulerV2` once more, with what the module `SchedulerV2` leaves open: its order and the counters of
`vllm/sequence.py` behind it. Every request needs one slot of the GPU and the score is constant, which the
cached `newest_sort_waste` makes it between refreshes; ties come in any order. `Schedule` is the whole pass with `check_starvation`,
`increment_starvation` and `check_reset`; `Arrive` and `Finish` let requests come for ever. Swapped requests get no counter and
no priority, as in the code. At threshold 0 the counter may still reach 1 (`CounterMax`).

### TensorParallel, ShardedModels, ModelExecution

A weight is a symbolic matrix of the labels of its rows and columns in the checkpoint, so that slicing, transposing, packing,
padding and copying move labels, and the result of a computation is the bag of terms it sums. `TensorParallel`
has the layers (`ColumnParallelLinear`, `RowParallelLinear`, `VocabParallelEmbedding`), the quantized ones, the
collectives and the helpers of `weight_utils.py`. `ShardedModels` has the fourteen architectures of the registry, each with
its attention, MLP, decoder layer, model and `load_weights`. `Model` is the object they construct, kept in the variable `model`. `ModelExecution` runs them.

| Action | Code |
|---|---|
| `BuildModel`, `RefuseModel` | `get_model`: the constructors and their divisibility assertions |
| `LoadTensor`, `LoadMismatch` | one turn of the loop over `hf_model_weights_iterator`; an assertion on a shape fails |
| `Profile` | `profile_num_available_blocks`: the forward pass |
| `InitCache`, `NoCache` | `_init_cache`; a cache block without heads makes it divide by zero |
| `Execute`, `ExecuteTypeError` | `execute_model`: prompts first, sampling type by type, and the zip with the scheduled requests; models that do not take the swap arguments |

The ranks run in lockstep between two collectives and share nothing else, so one action is the same step on all. One
decoder layer stands for each. Checkpoints are external: `Checkpoint` writes down how they are published, and
`UnshardedForward` what the published models compute; both are the reference the code is compared with.

## Runs

TLC explores each run exhaustively; every passing run ends well within five minutes.

| Run | Instance | What it asks |
|---|---|---|
| `SchedSmallCpu` | 3 requests of 1, 3 and 2 prompt tokens and up to 2 more, 5 GPU and 2 CPU blocks of 1 token, batch 4, `max_model_len` 5, one API call each that returns 4 tokens, all strategies, one abort | With too little CPU memory for the victims, swapped requests are discarded in the middle of a pass, requests are ignored, and `schedule()` may raise. The code then loses requests: `LossesExplained` says which, the one that is discarded after the pass has ignored it and the one that, without blocks because it was discarded while it was being scheduled, becomes its own victim; the queues keep every other request, in later passes too. The memory stays right through all of it: `TypeOK`, `BlocksConserved`, `TableMatchesData`, `ModeMatchesBlocks`, `PausedNotScheduled`, `EvictionRespectsArrival` |
| `SchedLive` | 3 requests, one over the limit, a GPU pool that holds one of them at full length, 8 CPU blocks | With enough CPU memory nothing goes wrong in a pass, and all is served: `VictimsHoldBlocks`, `FollowsProtocol`, `EmptyOnlyBehindPaused`, `StepEnds`, `EveryRequestFinishes` |
| `AsyncServe` | 2 clients, one of which may cancel or stay away, Ray workers, one request that may be too long, an engine that may refuse either request or raise in `schedule()` or in the workers | Streams, groups and aborts agree through pauses, disconnects, the death of the loop and its restart; the causes of death are known; the loop does not sleep on work: `TypeOK`, `AnsweredInFull`, `StreamsMatchClients`, `NoOrphanInEngine`, `NoLostWakeup`, `DeathExplained`, `EveryClientAnswered` |
| `CacheServe` | 3 sequences of up to 3 tokens, 2 GPU and 3 CPU blocks of 2 tokens, every order the protocol allows, outputs processed between the calls as `SchedulerV2` does (`AfterStep`); about a third of a million states up to symmetry | Identities, copies and contents: `TypeOK`, `BlocksExclusive`, `CacheIntact`, `CopiesApart`, `ServesTokens` |
| `InferServe` | 3 requests, 3 GPU and 2 CPU blocks of 1 token, all pause modes, swap limits 0 to 2, an abort | Tables, data, queues and victims agree through partial swaps: `TableMatchesData`, `VictimsHoldBlocks`, `OneQueue`, `ScheduledKeepBlocks` |
| `InferLive` | 3 requests, 3 GPU blocks and 1 CPU block, a swap-out limit that covers a batch | `EveryRequestFinishes` |
| `VanillaServe` | 4 requests, one too long, 5 GPU and 2 CPU blocks of 1 token, an abort | The scheduler without chunked prefill, with its worker: `TableMatchesData`, `OneQueue`, `EmptyOnlyBehindPaused`, `ServesTokens` |
| `StarveServe` | 4 requests for 2 slots; the one with the worst score calls APIs and is preempted, the others keep arriving | `PriorityInTime`, `PriorityServedFirst`, `ResumedServed` |
| `ModelServe` | 14 architectures, 1 to 4 ranks, 4 and 6 heads, grouped and single key/value heads, AWQ, post-norm, parallel residual, ALiBi, vocabularies with and without padding; batches of both sampling types | `ForwardIsUnsharded`, `VocabularyIsUnsharded`, `CacheFitsAttention`, `OutputsReachTheirRequest` |
| `SchedVictims` | 3 requests of 1, 2 and 2 prompt tokens and up to 3 more, 4 GPU and 2 CPU blocks, nobody recomputes or aborts | violates `VictimsHoldBlocks`, see Findings |
| `SchedIgnored` | 3 requests, 2 GPU blocks and 1 CPU block, an API return beyond `max_model_len` | violates `OneQueue`, see Findings |
| `InferSwap` | `InferServe` with the worker | violates `ReadsOwnTokens`, see Findings |

Why the bounds are enough. A pass needs one request that is being scheduled, one victim and one
bystander: three requests. Two to five GPU blocks force an eviction whenever two or three requests grow. Block
sizes 1 and 2 give both a new block per token and tokens that fit into a started block. A batch of 2 to 4
tokens cuts prompts into chunks and fills exactly. One API call per request reaches every
mode and every return; a second one only adds length, which `MaxTokens` bounds anyway. The instance of `SchedSmallCpu` is the smallest found that
reaches both losses and a raising `schedule()`: five GPU blocks for the request that is discarded while it is being scheduled, an API return over the legal
length for the ignored one. Its states are counted up to `View`: the class of a request is read while it is paused, and no more after its last call. In `VanillaServe` four requests are needed: one that is too
long and three for a running, a delayed and a preempted one. In
`AsyncServe` the hazards are between one client and the loop, or between one request whose step or death
another one shares: two clients. The one case that needs a third is the death by an abort that was lost (one client is refused in the step that takes another's
abort, and somebody has to start the loop again); `DeathsExplained` proves it for any number. `MaxForwards` and `MaxApiCalls` bound how often a request goes on; both are guards.
In `ModelServe` six heads are no power of two, which ALiBi slopes treat separately; a vocabulary of six is padded to eight, and three ranks divide
neither; a head of two elements tells an element from a head; two file orders (`MCFileOrders`) decide who writes last.

Blocks are interchangeable, in `CacheServe` sequences too, and no property orders them: `SYMMETRY` is used in the safety runs and
not for liveness.

Every property of a passing run has a mutant in `PROJECT.json`: a variant of one
definition, a plausible bug, with which the same run finds the property violated. The variants stand before
the definitions they vary and are marked as such.

### Fairness

`SchedulerV2` and `InferCept`: `WF(Step)`. The synchronous drivers call `step()` in a loop while there are unfinished requests.
`run_engine_loop` steps again only after a step with outputs or when its event is set; that this is enough
is `EmptyOnlyBehindPaused` (an empty batch, also one whose step only copies blocks, leaves nobody, or a request that is paused on the GPU,
whose resume sets the event) with `NoLostWakeup`. Each API returns: `SF(ResumeRequest)`, strong because a resume is
possible only where the event loop runs it. The choice of a request in a pass is not fair: that every request
finishes with any order of the second pass is a result. In `InferLive` `OutLimits` covers what one batch may need, as the code's
own formula gives it for the batch of 384 tokens; with smaller limits requests delay one another for ever.

`AsyncEngine`: `WF(Loop)` and `SF` of each client's `Receive`, `ReceiveError` and `ResumeRequest`: asyncio runs what is ready at each
suspension, and the loop suspends after each step. A request is not left out of the batches for ever: this
is `EveryRequestFinishes` of `SchedulerV2`, assumed here for a request that stays ready. Nobody is forced to generate, cancel or
leave. `EveryClientAnswered` gives up where a client abandoned a paused request, which keeps its
memory, where blocks have leaked with a request that is in no queue any more (`pool`), or where the loop is dead.

`Starvation`: `WF(Step)`, and each paused request is resumed. `ResumedServed` needs `Quantum` at least `MaxRun`: a quantum is used up while
the request waits, admitted or not. It holds for one request in need; two that are favoured together compete by score, and one may lose its
priority before there is room.

`CHECK_DEADLOCK FALSE` stands where the system may stop: a dead engine or a client that left (`AsyncServe`), a `schedule()` that raised
(`SchedSmallCpu`), all requests ended or one left paused (`VanillaServe`), a model that is refused (`ModelServe`).

### Findings

The violation runs, each with one property quoted from the repository:

- `SchedVictims`: making CPU room discards a swapped request that the pass is scheduling. It then runs
  without blocks and raises "Fully preempted seqs should not stay in the victim group".
- `SchedIgnored`: the second pass ignores a swapped request that outgrew `max_model_len`, leaves it in `self.swapped`, and may discard it
  from there for a later target. Its status is then WAITING, and `self.waiting`, "Sequence groups in the WAITING state", does not have it.
- `InferSwap`: within one `schedule()` the InferCept scheduler swaps a request in, which frees its CPU block, and swaps a victim out into
  that block. The worker copies out before in, and the request reads the victim's tokens.

### Where the code and its words disagree

Met while modelling. The models do what the code does; none of these needs a search to be seen, so no run is spent on them.

- `num_batched_seqs` is compared with `max_num_seqs` and never incremented (`core/scheduler_v2.py:575`): the
  "Maximum number of sequences to be processed in a single iteration" (`config.py:277`) limits no pass.
- `abort_seq_group` looks at `waiting`, `running` and `swapped` (`core/scheduler_v2.py:312`): "Aborts a request(s) with the given ID"
  (`engine/llm_engine.py:309`) does nothing for a paused one, which keeps its blocks and goes on when its API returns. The
  same holds for a delayed request of `core/scheduler.py`.
- "Truncate api return if too long" (`engine/llm_engine.py:785`): the length may be negative, and the slice then
  keeps the head of the return, beyond `max_tokens`.
- A running or swapped request that outgrew `prompt_limit` is set to `FINISHED_IGNORED` and dropped (`core/scheduler_v2.py:566`) without freeing its blocks.
- "Task finished unexpectedly. This should never happen!" (`engine/async_llm_engine.py:25`): it happens to everybody's loop when the engine raises, and
  when an output has no stream. The engine raises for a single request (`add_request`, next item), in `schedule()` (`SchedVictims`; the `ValueError` of
  `core/scheduler_v2.py:397`), or in the workers. An output has no stream when, with Ray workers, its request was aborted during the step, when the abort was lost, or when it is
  the second output of an ignored request, which is returned twice in a step that calls the workers. `DeathExplained` shows that these are all.
- Under policy V every request id has to be a number (`int(seq_group.request_id)`, `core/scheduler_v2.py:117`), while the server makes up `random_uuid()` for a request without one
  (`entrypoints/api_server.py:38`).
- "Abort a request during next background loop iteration" (`engine/async_llm_engine.py:137`): if `add_request` raises in that iteration, the aborts it has taken are
  lost (line 329), and the engine goes on computing for clients that have gone.
- A request id that is used again before the step that cleans up after an abort gets an empty stream.
- Only requests that were scheduled before are counted as starving (`core/scheduler_v2.py:892`): behind "Avoid starvation in the scheduler" (`engine/arg_utils.py:224`)
  a fresh request of bad score may wait for ever.
- "Here, each sequence group within the batch can have different sampling parameters" (`model_executor/layers/sampler.py:28`): with the real
  sampler the rows are reordered by sampling type, and penalties and temperatures are not. `_USE_SIMULATOR = True` hides it.
- "You can seamlessly run your model" (`docs/source/models/supported_models.rst:60`): the worker passes swap arguments that only llama,
  opt, gpt_j and baichuan accept; the others raise `TypeError` (`ExecuteTypeError`).
- GPT-J and multi-head GPT-BigCode fail to load on more than one rank, a vocabulary that the padding or the ranks do not divide is
  refused where the model does not pad it, and `get_num_kv_heads` is 0 for a llama with more ranks than key/value heads and for a falcon without `n_head_kv`
  on more than one rank (`NoCache`).
- "PagedAttention with ALiBi bias for the generation tokens" (`model_executor/layers/attention.py:457`): the kernel that is
  called for them (line 265) gets no slopes.

## Proofs

All proofs hold for any number of requests and any sizes, under the named assumptions on the constants of each module: their types,
that a block holds a token, that a prompt has one, for `Scheduler` what `SchedulerConfig` checks
(`config.py:323-335`, `ConfigAssumption`), and for `ModelExecution` which architectures have fewer key/value heads than heads and the two sampling
types that are implemented (`ConfigAssumption`, `BatchAssumption`), and that the files hold every tensor of the checkpoint, in any order (`FilesAssumption`).

`SchedulerV2Proofs`. `TypeOK` is not inductive: that a free counter stays natural needs to know that a workload never
exceeds what is left of its request, and that the memory computed before the evictions of a pass still covers
what is allocated after them. `CountInv` adds this; the delicate step is an eviction that discards the
request being scheduled or one that is counted on (`DiscardKeepsCur`). `TypeCorrect` follows. The second
invariant, `TableInv`, relates the places: where the call holds a request (`PlaceInv`), what each phase has left empty
(`PhaseInv`), who may be a victim (`VictimInv`), and from them that table and data agree after each discard, swap,
allocation and output. `TablesMatch`, `ModesMatch` and `PausedStayOut` are conjuncts or consequences. They hold even in the
behaviours of `SchedVictims`.

`AsyncEngineProofs`, for calls with distinct ids (`UniqueIds`; without it `AnsweredInFull` is false:
a reused id gets an empty stream). The property that a stream ends with a full answer is about items that are read many steps after
they were put, so `Inv` describes the content of every stream (`BoxOf`): each stop follows a pause or a last output,
and after the stop of a pause nothing can come before the resume but the exception of a dead loop. Why the loop
cannot put a second pause is in `OutputInv`: an output whose group is paused has not been seen yet. `StreamInv` and `FreshInv`
relate streams, clients and groups, through aborts that are still on their way. From `Inv` follow `AsyncTypeCorrect`,
`EndedStreamsAnswered`, `ClientsHaveStreams`, `NobodyOrphaned` and `DeathsExplained`: apart from the exceptions of the engine
itself, the loop dies of an output without stream only, in the three ways named above. For that `OutputInv` says that each output has a
stream, or an abort on its way, or one that was lost (`HasStream`). The exceptions cost `Inv` nothing but the
proof that putting an error at the end of each stream keeps `BoxOf` (`ErrorKeepsBox`, `RaiseInv`). `LoopIsWoken` is an induction of its own on top of `Inv`; it has to know already while the workers
only copy blocks that the loop may sleep afterwards. `LoopSafe` adds `QuietInv`, no
abort is outstanding for an output of the step, and shows that the loop lives under `NoCause`: the engine raises nothing, the workers run inside the
loop, and no request is too long. That `schedule()` raises nothing is in turn a theorem about `SchedulerV2`, `ScheduleNeverRaises`, with its own conditions.

`KVCacheProofs`, for any number of sequences and blocks and any block size. The inductive invariant says where a token is *now*: a block's eventual
content is what is in it after the pending copies, out before in (`Eventual`), and the computed tokens of a sequence are at the places of its
table in that sense (`CacheContents`). This is inductive only with two more facts: a block is in one place of one table (`CacheBlocksExclusive`), and no pending
copy makes another obsolete (`CacheCopiesApart`: two copies share neither source nor destination, and what comes in belongs
to the batch). Both rest on the phases of the protocol. `CacheServesTokens` is the refinement of `TokenStore`: initial states map to
initial states, a step of the worker to `Forward`, a discard or release to `Drop`, the others stutter.

The second half of `SchedulerV2Proofs` has what the scheduler promises beyond types and tables. Its invariants rest on those above and on each other:

| Theorem | For every size | Along |
|---|---|---|
| `ProtocolKept` | the calls to the block manager follow `CacheProtocol` | `RunInv`: what runs, is scheduled, or is paused on the GPU has a table |
| `ArrivalRespected` | a running request is never preempted for a younger one | `MemberInv` (who is in a queue has its status), `WorkLeftInv` (every live request has something left to compute), `OrderInv` (targets are popped in order of arrival, so that all that is scheduled is older than what is not) |
| `VictimsHold` | no victim is without blocks | `HoldInv`: a request that runs holds blocks, because what was scheduled had work and got a block for it |
| `ScheduleNeverRaises` | `schedule()` raises neither the `KeyError` of a missing table nor the `ValueError` of a victim without blocks | `VictimsHoldBlocks` and `RunInv`, since these are what the exceptions check |
| `OnlyKnownLosses` | a request is lost, or in two queues, only in the two ways of `LossesExplained` | `Kept`, request by request: the status of a request names a queue that has it, or the pass still holds it. It is the converse of `MemberInv`, and every step but `Losing` keeps it |
| `QueuesKept` | nobody is lost or in two queues | `Kept` of every request, and `HoldInv`: without the two discards nothing is `Losing` |
| `BlocksKept` | free blocks and tables add up to the pools | `SumInv`, with the lemmas on sums of `DataLemmas`: each call changes one table and one or two pools |
| `EmptyOnlyWhenPaused` | an empty step leaves nobody but behind a paused request | `GpuInv` (who can hold GPU blocks), `NeedInv` (what a target waits for fits the GPU), `EmptyInv` (as long as nothing is scheduled, nothing but the paused is in the way) |

The first pass may discard nobody that is scheduled; the second may, when it makes room on a small CPU pool. This is what the violation runs
show, and it is the reason why some theorems are conditional. `ScheduledDiscarded`, `CurDiscarded` and `IgnoredDiscarded` name the steps that
discard a request already scheduled, the target of the loop itself, or one that the pass has ignored; `ProtocolKept`, `VictimsHold`, `ScheduleNeverRaises` and `QueuesKept` say
that in a behaviour without such a step nothing goes wrong: these steps are all the causes. None can be dropped: a request that runs without blocks after
`CurDiscarded` (`SchedVictims`) may next be its own victim, give up nothing, and be in no queue afterwards. `SchedSmallCpu` reaches both this loss and that of
`SchedIgnored`. What is true without any condition is `OnlyKnownLosses`: these two are the only ways in which a request is lost, and each loses that request only. The conditions are
on steps, and the behaviours of `SchedLive` meet them. `SafeWithoutSwaps` proves that the three never happen when `classify()` never answers
"swap": then no request is lost and `schedule()` never raises. `EmptyOnlyWhenPaused` assumes a batch of at least one token (the code has 384), `max_num_seqs` at least 1, and `AllFit`, that each
request of legal length fits the GPU alone. The engine does not check the latter: it demands one block (`llm_engine.py:240`), and with less memory than `max_model_len`
needs, a long request is delayed for ever although nothing is in its way. It also assumes that no request is ignored while it holds blocks, which the code would never
free (`IgnoredHolding`, see above).

With `KVCacheProofs` this gives the chain scheduler, protocol, cache, tokens for `SchedulerV2`.

`SchedulerProofs`: for any set of requests, blocks and limits, the scheduler without chunked prefill has one inductive invariant, `SchedulerInv`, in three layers. `QueueInv` says where
each request is while a pass takes apart `self.running` into the batch, the delayed and the waiting (`OneQueueKept`). `DataInv` says that a
batch forwards all that its requests have not computed; here nothing is computed in parts. `DeviceInv` and the invariant of `KVCache` are proved together: a step of `Scheduler` is one
of `KVCache` (`KeepsCache`) because queues and data say that what is preempted or swapped is not in the batch, and that it is a step of `KVCache`
gives the blocks back. `TableMatchesDataKept` and `TokensServed` follow, the latter through `CacheServesTokens` of the
instance, whose assumptions on `Lengths` and `AfterStep` are discharged (`CacheLengths`, `CachePhases`).
`IdleOnlyBehindPaused` adds two invariants: only what runs or is paused there has blocks on the GPU (`GpuInv`), and, as long as a pass has scheduled
nobody and nobody is paused on the GPU, nothing is delayed or preempted, and who waits has somebody before it (`IdleInv`). Then the request the pass looks at is alone on the GPU, and
the blocks that it does not hold are free (`FitsAlone`). The theorem assumes at least one sequence per step, a GPU that holds `max_model_len`
tokens (again unchecked by the code), finitely many requests, and `WithinLimit`: no running or swapped request is longer than `max_model_len`. `VanillaServe`
meets all four. `WithinLimit` cannot be dropped: a prompt of exactly `max_model_len` tokens that calls an API returns with one token more than the
limit; on a GPU of that size it then preempts itself, the batch is empty, and it waits although nothing is in its way (TLC finds this
with one request of three tokens and three blocks).

`InferCeptProofs`: `InferCeptInv` is again a joint invariant. `QueueInv` describes the lists that the passes pop from, `Popped` what is in no list, and the victims of the
loop; it needs from the tables that a victim has blocks on the GPU (`VictimCounts`), or the loop would not end with its group. `DataInv` says of every table that it has the
shape the data describe, a front on the GPU and a back on the CPU (`Shape`), where for a request that is scheduled the data are those after
the step (`Part`); it needs from the queues that no step but `allocate` touches what is scheduled. Three lemmas follow a shape through
`allocate`, `swap_out_from_back` and `free`. `InferCeptOneQueue`, `InferCeptTables`, `InferCeptVictims` and
`InferCeptScheduled` hold without condition: this scheduler discards only what is in `self.swapped`, and a target is not in it while its pass runs.
What does not hold is that it reads its own tokens (run `InferSwap`).

`DataLemmas` has the lemmas the three share. Its queues are lists without repetition (`Once`): what `append`, `pop`, `remove`, filtering and sorting
do to the set of members and to their number. Its sums are `MapThenSumSet`, which is a fold over the subsets of a set: that the
fold exists is an induction on finite sets, done with the smallest set for which it fails (`MinimalSubset`) instead of an induction theorem.

`StarvationProofs`: the counter of a request is at least the number of times it was passed over in a row, and at the threshold
it is turned into a quantum, which gives priority in the next call. `PriorityIsInTime` and `PriorityIsServedFirst`
follow for every threshold, positive quantum, number of slots and score.

`ModelExecutionProofs`, for every configuration, number of ranks and batch. `SamplesReachRequests`: prompts come first in the scheduler's
order already, so the worker keeps the order of the requests that run (`GroupsInOrder`); the sampler's places, type after type, are a permutation
of those of the groups (`SampledFacts`). `CacheFits` goes through the architectures one by one (`KvHeadsAgree`); `CacheFitsEveryModel` says the same
of every model whose cache is allocated, except a multi-head falcon: its configuration has no `n_head_kv`, for which `RWConfig` gives 1, while its attention takes
all heads. It never serves, because its forward refuses the swap arguments (`SwapTakers`).

`VocabularyServed` is `VocabularyIsUnsharded` for every architecture, number of ranks, size of the vocabulary and order of the files. What is loaded has to be known when
the prompt of the profiling runs, many turns of the loop later. `LoadInv` says that each parameter that holds the vocabulary (the embedding, the
projection to the logits and its bias) is, on each rank, untouched or the shard of that rank, and is the shard once its tensor has left the files.
It is inductive because a tensor either reaches such a parameter with all of its rows or not at all, and no other
tensor reaches it: `CheckpointFacts` and `LMFacts` separate the names, architecture by architecture, `LoadsVocab` says what `load_weights` writes, tied
embeddings included, and `LoadKeepsVocab` puts them together. From complete shards, exactly one rank contributes a row to the
all-reduce for a token (`OneOwner`, `EmbedsToken`), and the gathered pieces, flattened and cut to the vocabulary, are its rows in order
(`FlattenPieces`, `GathersLogits`). Both need that the ranks divide the padded vocabulary, which `Buildable` checks, and that the padded vocabulary is no smaller. The inductions over ranks and
pieces are done with the smallest counterexample (`SmallestNumber`).

Only model-checked:

- liveness (`StepEnds`, `EveryRequestFinishes`, `EveryClientAnswered`, `ResumedServed`): fairness and ENABLED are out of the prover's reach;
- `ForwardIsUnsharded`, whose sums go over the columns of all projections of a layer in fourteen architectures, with fused, grouped, replicated and packed rows. Each fold and each
  flattened sequence in it would need an induction of its own, as those of `VocabularyServed`; the sizes that matter for sharding (ranks, heads, packing) are covered by `ModelServe`.

## Not modelled

- `core/scheduler_infercept.py`: imported by nothing, a near copy of `scheduler.py`.
- Sequences that share blocks: `fork`, `append_slot`, copy on write, beam search, `n > 1`, the sliding window. Every
  driver uses one sequence, and the schedulers assert it; reference counts above 1 do not arise.
- The score of policy V and the measured costs of `classify()` and of InferCept's limits: floating point. Their results are any
  order, any class, any limit.
- Numerics: rotary embeddings, the weights of the norms (and `qk_ln` of MPT), softmax, sampling proper, kernels. Any token may come out.
- `engine_use_ray`, in which `resume_request` cannot work; the start of the Ray cluster.
- The prediction of API durations (its result is `Classes`), HTTP handling, argument parsing, metrics, benchmarks.
