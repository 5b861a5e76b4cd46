--------------------------- MODULE ModelExecution ---------------------------
(* From a configuration to sampled tokens: the workers build their shard of *)
(* the model, load the checkpoint into it tensor by tensor, profile it with *)
(* a prompt, size the KV cache and run batches (model_loader.py, the        *)
(* load_weights of the models, worker.py, sampler.py, llm_engine.py).       *)
(*                                                                          *)
(* The ranks run in lockstep between two collective operations and share    *)
(* nothing else, so one step here is the same step on every rank.           *)
EXTENDS ShardedModels, Queues

CONSTANTS
    Configs,      \* the configurations of the model and its parallelism
    FileOrders(_),\* the orders in which the files of a checkpoint may hold its tensors
    Batches       \* batches of the scheduler: requests taken from the waiting,
                  \* running and swapped queues

VARIABLES
    config,       \* the configuration that was started
    model,        \* the model object, the same on every rank
    files,        \* tensors of the checkpoint still to load, in file order
    params,       \* rank -> name of a parameter -> matrix (state_dict)
    status,       \* "new", "loading", "loaded", "ready", "serving", "failed"
    cacheHeads,   \* key/value heads of a block of the cache
    forward,      \* what a prompt and a generation token compute in a layer
    outputs       \* pairs of a scheduled request and the sample it is given

vars == <<config, model, files, params, status, cacheHeads, forward, outputs>>

Architectures ==
    {"llama", "mistral", "aquila", "internlm", "baichuan", "qwen", "falcon", "gpt_bigcode",
     "gpt_neox", "bloom", "mpt", "gpt2", "gpt_j", "opt"}

\* Only some architectures have fewer key/value heads than attention heads.
ASSUME ConfigAssumption ==
    \A c \in Configs :
        /\ c.arch \in Architectures
        /\ {c.tp, c.heads, c.kv, c.vocab} \subseteq Nat \ {0}
        /\ c.arch \notin {"llama", "mistral", "falcon", "gpt_bigcode"} => c.kv = c.heads
        /\ c.arch \in {"falcon", "gpt_bigcode"} =>
              \/ c.arch = "falcon" /\ c.variant = "new"
              \/ c.variant = "mha" /\ c.kv = c.heads
              \/ c.variant = "multi_query" /\ c.kv = 1

ASSUME BatchAssumption ==
    \A b \in Batches :
        /\ \A q \in {b.waiting, b.running, b.swapped} : q \in Seq(Range(q))
        /\ \A q \in {b.waiting, b.running, b.swapped} :
              \A g \in Range(q) : g.type \in {"greedy", "random"}


Ranks(c) == 0 .. c.tp - 1

----------------------------------------------------------------------------
(* The checkpoint, as its publishers store it: a matrix whose row and       *)
(* column labels say which weight it is.                                    *)

HeadRows(kind, n) == [i \in 1 .. n * HeadDim |-> <<kind, (i - 1) \div HeadDim, (i - 1) % HeadDim>>]
Units(kind, n) == [i \in 1 .. n |-> <<kind, i>>]
BiasOf(rows) == [i \in DOMAIN rows |-> <<"b", rows[i]>>]
Inner(c) == IF c.arch \in {"falcon", "bloom"} THEN 4 * Hidden(c) ELSE IntermediateSize

HasBias(c, part) ==
    \/ c.arch \in {"falcon", "mpt", "opt"} /\ c.bias
    \/ c.arch \in {"gpt_bigcode", "gpt_neox", "bloom", "gpt2"}
    \/ c.arch = "internlm" /\ part \in {"qkv", "o"}
    \/ c.arch = "qwen" /\ part = "qkv"
    \/ c.arch = "gpt_j" /\ part = "mlp"

\* Tensor names: q, k and v (one name if fused), output, MLP, embedding, head.
Names(qkv, o, up, down, embed, head) ==
    [qkv |-> qkv, o |-> o, up |-> up, down |-> down, embed |-> embed, head |-> head]

TensorNames(c) ==
    LET qkv == <<"q_proj", "k_proj", "v_proj">>
        gateUp == <<"gate_proj", "up_proj">>
    IN CASE c.arch \in {"llama", "mistral", "aquila", "internlm"} ->
              Names(qkv, "o_proj", gateUp, "down_proj", "embed_tokens", "lm_head")
         [] c.arch = "baichuan" ->
              Names(<<"W_pack">>, "o_proj", gateUp, "down_proj", "embed_tokens", "lm_head")
         [] c.arch = "qwen" ->
              Names(<<"c_attn">>, "attn.c_proj", <<"w2", "w1">>, "mlp.c_proj", "wte", "lm_head")
         [] c.arch = "falcon" ->
              Names(<<"query_key_value">>, "dense", <<"dense_h_to_4h">>, "dense_4h_to_h",
                    "word_embeddings", "lm_head")
         [] c.arch \in {"gpt_bigcode", "gpt2"} ->
              Names(<<"c_attn">>, "attn.c_proj", <<"c_fc">>, "mlp.c_proj", "wte", "lm_head")
         [] c.arch = "gpt_neox" ->
              Names(<<"query_key_value">>, "dense", <<"dense_h_to_4h">>, "dense_4h_to_h",
                    "embed_in", "embed_out")
         [] c.arch = "bloom" ->
              Names(<<"query_key_value">>, "dense", <<"dense_h_to_4h">>, "dense_4h_to_h",
                    "word_embeddings", "lm_head")
         [] c.arch = "mpt" -> Names(<<"Wqkv">>, "out_proj", <<"up_proj">>, "down_proj", "wte", "wte")
         [] c.arch = "gpt_j" -> Names(qkv, "out_proj", <<"fc_in">>, "fc_out", "wte", "lm_head")
         [] c.arch = "opt" -> Names(qkv, "out_proj", <<"fc1">>, "fc2", "embed_tokens", "lm_head")

\* A linear layer of the checkpoint: stored whole, transposed (Conv1D), or
\* quantized (AWQ: input first, words of PackFactor outputs).
Tensor(c, name, rows, cols, bias) ==
    IF c.variant = "awq"
    THEN (<<name, "qweight">> := Mat(cols, Grouped(rows, PackFactor)))
            ++ (<<name, "qzeros">> := Mat(Grouped(cols, GroupSize), Grouped(rows, PackFactor)))
            ++ (<<name, "scales">> := Mat(Grouped(cols, GroupSize), rows))
    ELSE (<<name, "weight">> := IF c.arch = "gpt2" THEN Mat(cols, rows) ELSE Mat(rows, cols))
            ++ (IF bias THEN <<name, "bias">> := Mat(BiasOf(rows), << <<"1">> >>) ELSE <<>>)

\* Rows of a fused q, k, v: one after the other, or by key/value head.
FusedRows(c) ==
    LET q == HeadRows("q", c.heads)
        k == HeadRows("k", c.kv)
        v == HeadRows("v", c.kv)
        group(s, n, g) == Pieces(s, HeadDim, n * (g - 1), n * g)
        perKv == c.heads \div c.kv
    IN IF c.arch \in {"falcon", "gpt_neox", "bloom"}
       THEN FlattenSeq([g \in 1 .. c.kv |-> group(q, perKv, g) \o group(k, 1, g) \o group(v, 1, g)])
       ELSE q \o k \o v

TiedHead(c) == c.arch \in {"gpt_bigcode", "gpt2", "bloom", "opt", "mpt"}

Checkpoint(c) ==
    LET n == TensorNames(c)
        x == Units("x", Hidden(c))
        kinds == <<"q", "k", "v">>
        rows(i) == IF Len(n.qkv) = 1 THEN FusedRows(c)
                   ELSE HeadRows(kinds[i], IF i = 1 THEN c.heads ELSE c.kv)
        upKinds == <<"up", "gate">>
        up(i) == Units(upKinds[Len(n.up) + 1 - i], Inner(c))
        table(name, kind, bias) ==
            (<<name, "weight">> := Mat(Units(kind, c.vocab), x))
                ++ (IF bias THEN <<name, "bias">> := Mat(BiasOf(Units(kind, c.vocab)), << <<"1">> >>)
                    ELSE <<>>)
        merge(t, i) == IF i = 1 THEN t[1] ELSE IF i = 2 THEN t[1] ++ t[2] ELSE t[1] ++ t[2] ++ t[3]
    IN merge([i \in DOMAIN n.qkv |-> Tensor(c, n.qkv[i], rows(i), x, HasBias(c, "qkv"))], Len(n.qkv))
         ++ merge([i \in DOMAIN n.up |-> Tensor(c, n.up[i], up(i), x, HasBias(c, "mlp"))], Len(n.up))
         ++ Tensor(c, n.o, Units("attn", Hidden(c)), HeadRows("o", c.heads), HasBias(c, "o"))
         ++ Tensor(c, n.down, Units("mlp", Hidden(c)), Units("down", Inner(c)), HasBias(c, "mlp"))
         ++ table(n.embed, "token", FALSE)
         ++ table(n.head, IF TiedHead(c) THEN "token" ELSE "logit", c.arch = "gpt_j")

\* Every tensor is in the files, in whatever order its publishers wrote them.
ASSUME FilesAssumption ==
    \A c \in Configs : \A order \in FileOrders(c) :
        order \in Seq(Range(order)) /\ Range(order) = DOMAIN Checkpoint(c)

----------------------------------------------------------------------------
(* What the unsharded model computes.                                       *)

\* The geometric sequence of the ALiBi paper, for any number of heads: of the
\* power of two below it, then every second one of the next power.
ReferenceSlopes(heads) ==
    LET p == PowerBelow(heads)
    IN [h \in 1 .. heads |-> IF h <= p THEN 16 * h ELSE 16 * (h - p) - 8]

\* The terms of the two sums of a layer, each of them once: each column of the
\* output projection with its query head and that head's key, value and slope;
\* each column of the down projection with its unit of the MLP; the biases.
UnshardedSums(c) ==
    LET row(part, label) == <<label, IF HasBias(c, part) THEN <<"b", label>> ELSE <<"no bias">> >>
        head(kind, h) == [d \in 1 .. HeadDim |-> row("qkv", <<kind, h, d - 1>>)]
        kvHead(h) == h \div (c.heads \div c.kv)
        slope(h) == IF UsesAlibi(c) THEN ReferenceSlopes(c.heads)[h + 1] ELSE 0
        unit(i) == IF Len(TensorNames(c).up) = 2 THEN <<row("mlp", <<"gate", i>>), row("mlp", <<"up", i>>)>>
                   ELSE row("mlp", <<"up", i>>)
        bias(part, kind) == IF HasBias(c, part)
                            THEN {<< <<"bias", "added">>, BiasOf(Units(kind, Hidden(c)))>>} ELSE {}
    IN [attention |-> {<< <<"o", h, d>>, [q |-> head("q", h), k |-> head("k", kvHead(h)),
                                          v |-> head("v", kvHead(h))[d + 1], slope |-> slope(h)]>> :
                          h \in 0 .. c.heads - 1, d \in 0 .. HeadDim - 1},
        mlp |-> {<< <<"down", i>>, unit(i)>> : i \in 1 .. Inner(c)},
        attentionBias |-> bias("o", "attn"), mlpBias |-> bias("mlp", "mlp")]

\* The layer norms of the published models: of the attention, of the MLP, and
\* of the model.
LayerNorms(c) ==
    CASE c.arch \in {"llama", "mistral", "aquila", "internlm", "baichuan"} ->
            <<"input_layernorm", "post_attention_layernorm", "norm">>
      [] c.arch \in {"qwen", "gpt_bigcode", "gpt2"} -> <<"ln_1", "ln_2", "ln_f">>
      [] c.arch = "falcon" /\ c.variant = "new" -> <<"ln_attn", "ln_mlp", "ln_f">>
      [] c.arch = "falcon" /\ c.variant # "new" /\ c.parallel ->
            <<"input_layernorm", "input_layernorm", "ln_f">>
      [] (c.arch = "falcon" /\ c.variant # "new" /\ ~c.parallel) \/ c.arch = "bloom" ->
            <<"input_layernorm", "post_attention_layernorm", "ln_f">>
      [] c.arch = "gpt_neox" -> <<"input_layernorm", "post_attention_layernorm", "final_layer_norm">>
      [] c.arch = "mpt" -> <<"norm_1", "norm_2", "norm_f">>
      [] c.arch = "gpt_j" -> <<"ln_1", "ln_1", "ln_f">>
      [] c.arch = "opt" -> <<"self_attn_layer_norm", "final_layer_norm", "final_layer_norm">>

\* Attention and MLP side by side on one stream.
ParallelLayer(c) ==
    \/ c.arch = "gpt_j"
    \/ c.arch \in {"gpt_neox", "falcon"} /\ c.parallel
    \/ c.arch = "falcon" /\ c.variant = "new"

UnshardedEmbedding(c, token) ==
    LET x == {<< <<"token", token + 1>>, "embedding">>}
             \cup (IF c.arch \in {"gpt2", "gpt_bigcode", "opt"} THEN {<< <<"position">>, "embedding">>} ELSE {})
    IN IF c.arch = "bloom" THEN SetToBag({<< <<"norm", "word_embeddings_layernorm">>, SetToBag(x)>>})
       ELSE SetToBag(x)

UnshardedForward(c, token) ==
    LET sums == UnshardedSums(c)
        norms == LayerNorms(c)
        norm(n, x) == SetToBag({<< <<"norm", n>>, x>>})
        reading(terms, x) == SetToBag({<<t[1], t[2], x>> : t \in terms})
        attn(x) == reading(sums.attention, x) (+) SetToBag(sums.attentionBias)
        mlp(x) == reading(sums.mlp, x) (+) SetToBag(sums.mlpBias)
        h == UnshardedEmbedding(c, token)
        post == c.variant = "post_norm"
        layer ==
            CASE ParallelLayer(c) -> h (+) attn(norm(norms[1], h)) (+) mlp(norm(norms[2], h))
              [] c.arch = "bloom" /\ post ->
                    LET y == norm(norms[1], h)
                        z == norm(norms[2], attn(y) (+) y)
                    IN mlp(z) (+) z
              [] c.arch = "opt" /\ post ->
                    LET x == norm(norms[1], attn(h) (+) h) IN norm(norms[2], mlp(x) (+) x)
              [] OTHER ->
                    LET x == h (+) attn(norm(norms[1], h)) IN x (+) mlp(norm(norms[2], x))
    IN IF c.arch = "opt" /\ post THEN layer ELSE norm(norms[3], layer)

----------------------------------------------------------------------------
(* Building and loading.                                                    *)

\* ModelConfig.verify_with_parallel_config.
verify_with_parallel_config(c) == c.heads % c.tp = 0

Buildable(c) ==
    /\ LET a == AttentionOf(c) IN a.asserts /\ a.kv > 0 /\ a.heads % a.kv = 0
    /\ \A n \in DOMAIN LayersOf(c) : Divides(LayersOf(c)[n], c.tp)

Init ==
    /\ config \in {c \in Configs : verify_with_parallel_config(c)}
    /\ model = <<>> /\ files = <<>> /\ params = <<>> /\ status = "new"
    /\ cacheHeads = 0 /\ forward = <<>> /\ outputs = <<>>

Fail == status' = "failed" /\ UNCHANGED <<config, model, files, params, cacheHeads, forward, outputs>>

\* get_model: the weights are allocated and not initialized.
BuildModel ==
    /\ status = "new" /\ Buildable(config)
    /\ model' = Model(config)
    /\ params' = [r \in Ranks(config) |-> StateDict(model'.layers, config.tp)]
    /\ files' \in FileOrders(config)
    /\ status' = "loading"
    /\ UNCHANGED <<config, cacheHeads, forward, outputs>>

RefuseModel == status = "new" /\ ~Buildable(config) /\ Fail

Copied(x) == [r \in Ranks(config) |-> load_weights(config, r, params[r], x, Checkpoint(config)[x])]
AnyFailed(copied) == \E r \in Ranks(config) : \E key \in DOMAIN copied[r] : Failed(copied[r][key])

\* One turn of the loop over hf_model_weights_iterator.
LoadTensor ==
    /\ status = "loading" /\ files # <<>>
    /\ LET copied == Copied(Head(files))
       IN /\ ~AnyFailed(copied)
          /\ params' = [r \in Ranks(config) |-> copied[r] ++ params[r]]
    /\ files' = Tail(files)
    /\ UNCHANGED <<config, model, status, cacheHeads, forward, outputs>>

\* An assertion on the shapes fails.
LoadMismatch ==
    /\ status = "loading" /\ files # <<>>
    /\ AnyFailed(Copied(Head(files)))
    /\ Fail

----------------------------------------------------------------------------
(* Running.                                                                 *)

\* The hidden state of a prompt that ends with the last token of the
\* vocabulary, and the tables of the vocabulary.
Forward(m, P) ==
    [prompt |-> ModelForward(m, P, m.config.vocab - 1),
     embedded |-> [t \in 0 .. m.config.vocab - 1 |-> Embed(m, P, t)],
     logits |-> get_logits(m, P)]

\* profile_num_available_blocks runs the model on prompts, without a cache.
Profile ==
    /\ status = "loading" /\ files = <<>>
    /\ forward' = Forward(model, params)
    /\ status' = "loaded"
    /\ UNCHANGED <<config, model, files, params, cacheHeads, outputs>>

\* Variant: the heads are not divided among the ranks.
TotalKvHeads(c) == IF c.variant = "multi_query" THEN 1 ELSE c.kv

\* RWConfig gives a falcon without n_head_kv one.
get_num_kv_heads(c) ==
    CASE c.arch \in {"falcon", "gpt_bigcode"} /\ c.variant = "multi_query" -> 1
      [] c.arch = "falcon" /\ c.variant = "mha" -> 1 \div c.tp
      [] OTHER -> c.kv \div c.tp

\* No heads: get_cache_block_size is 0 and the number of blocks divides by it.
InitCache ==
    /\ status = "loaded" /\ get_num_kv_heads(config) > 0
    /\ cacheHeads' = get_num_kv_heads(config)
    /\ status' = "ready"
    /\ UNCHANGED <<config, model, files, params, forward, outputs>>

NoCache == status = "loaded" /\ get_num_kv_heads(config) = 0 /\ Fail

\* scheduled_from_wait + scheduled + scheduled_from_swap; the first are prompts.
Scheduled(b) == b.waiting \o b.running \o b.swapped
IsPrompt(b, i) == i <= Len(b.waiting)

\* The elements of s at the given places, in their order.
At(s, places) ==
    LET order == Ascending(places) IN [k \in DOMAIN order |-> s[order[k]]]

\* Those that run: a request that only swaps is out.
Running(b) == {i \in DOMAIN Scheduled(b) : ~Scheduled(b)[i].onlySwap}

\* _prepare_inputs: prompts, then generation.
SeqGroups(b) ==
    LET prompts == {i \in Running(b) : IsPrompt(b, i)}
    IN At(Scheduled(b), prompts) \o At(Scheduled(b), Running(b) \ prompts)

SamplingTypes == <<"greedy", "random">>

\* The positions of the groups of each sampling type, type after type.
Categorized(groups) ==
    LET ofType(t) == Ascending({i \in DOMAIN groups : groups[i].type = SamplingTypes[t]})
    IN ofType(1) \o ofType(2)

\* Variant: the samples stay in the order of the sampling types.
SampledByType(groups) ==
    LET order == Categorized(groups)
    IN [j \in DOMAIN order |-> [id |-> groups[order[j]].id, type |-> groups[order[j]].type]]

\* Simulator.forward samples type after type and answers in the groups' order.
Sampled(groups) ==
    LET order == Categorized(groups)
        sampleOf(j) == [id |-> groups[order[j]].id, type |-> groups[order[j]].type]
    IN [i \in DOMAIN groups |-> sampleOf(CHOOSE j \in DOMAIN order : order[j] = i)]

\* _process_model_outputs zips the scheduled requests with the samples.
Zipped(b) ==
    LET withOutput == At(Scheduled(b), Running(b))
        samples == Sampled(SeqGroups(b))
    IN [i \in 1 .. Min({Len(withOutput), Len(samples)}) |-> <<withOutput[i], samples[i]>>]

Execute(b) ==
    /\ status \in {"ready", "serving"} /\ model.lm.takesSwaps
    /\ outputs' = Zipped(b)
    /\ status' = "serving"
    /\ UNCHANGED <<config, model, files, params, cacheHeads, forward>>

\* The worker passes keyword arguments the model's forward does not have.
ExecuteTypeError == status = "ready" /\ ~model.lm.takesSwaps /\ Fail

Next ==
    \/ BuildModel \/ RefuseModel
    \/ LoadTensor \/ LoadMismatch
    \/ Profile \/ InitCache \/ NoCache
    \/ \E b \in Batches : Execute(b)
    \/ ExecuteTypeError

Spec == Init /\ [][Next]_vars

----------------------------------------------------------------------------
(* Properties.                                                              *)

\* Tensor parallelism changes nothing: every rank gives the sampler the hidden
\* state of the unsharded model, each term of each sum once and computed from
\* the stream the published model reads there, though the weights were fused,
\* split by heads, transposed, packed or replicated and the partial sums
\* reduced (the load_weights and forward of the models).
ForwardIsUnsharded ==
    forward # <<>> =>
        \A r \in Ranks(config) : forward.prompt[r] = UnshardedForward(config, config.vocab - 1)

\* Every token is embedded by one rank with its own row, and the logits of all
\* ranks side by side are those of the vocabulary, in its order and without
\* the padding (VocabParallelEmbedding, _get_logits).
VocabularyIsUnsharded ==
    forward # <<>> =>
        /\ \A t \in 0 .. config.vocab - 1, r \in Ranks(config) :
              forward.embedded[t][r] = UnshardedEmbedding(config, t)
        /\ forward.logits =
             [t \in 1 .. config.vocab |->
                LET label == <<IF TiedHead(config) THEN "token" ELSE "logit", t>>
                IN <<label, IF config.arch = "gpt_j" THEN <<"b", label>> ELSE <<"no bias">> >>]

\* The blocks of a serving model's cache have room for exactly the key/value
\* heads its attention writes there (get_num_kv_heads against the models).
CacheFitsAttention == status = "serving" => cacheHeads = model.attention.kv

\* Every scheduled request that runs is given one sample, its own, though the
\* worker puts prompts first and the sampler groups the batch by sampling type.
OutputsReachTheirRequest ==
    status = "serving" =>
        \E b \in Batches :
            /\ Len(outputs) = Cardinality(Running(b))
            /\ {outputs[i][1] : i \in DOMAIN outputs} = {Scheduled(b)[j] : j \in Running(b)}
            /\ \A i \in DOMAIN outputs : outputs[i][1].id = outputs[i][2].id
=============================================================================
