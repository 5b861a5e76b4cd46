---------------------------- MODULE ShardedModels ---------------------------
(* The model classes of model_executor/models as far as tensor parallelism  *)
(* reaches them: the parallel layers each constructor builds, how its       *)
(* forward splits them into heads, and what its load_weights copies where.  *)
(* c is a configuration: architecture (arch), tensor parallel size (tp),    *)
(* attention heads, key/value heads (kv), vocabulary, variant and whether   *)
(* its linear layers have biases.                                           *)
EXTENDS TensorParallel

CONSTANTS IntermediateSize    \* config.intermediate_size of the MLP

Hidden(c) == c.heads * HeadDim
HeadsPerRank(c) == c.heads \div c.tp

\* qkv.split([q, kv, kv]) of one layer, and qkv.chunk(3).
Split(n, q, kv) ==
    [q |-> <<n, 0, q>>, k |-> <<n, q, q + kv>>, v |-> <<n, q + kv, q + 2 * kv>>]
Chunks(n, size) == LET third == (size + 2) \div 3 IN Split(n, third, third)

NoSlopes(c) == [r \in 0 .. c.tp - 1 |-> [h \in 1 .. HeadsPerRank(c) |-> 0]]
SlopesOf(all, c) ==
    [r \in 0 .. c.tp - 1 |-> Slice(all, r * HeadsPerRank(c), (r + 1) * HeadsPerRank(c))]

Attention(asserts, layers, split, heads, kv, out) ==
    [asserts |-> asserts, layers |-> layers, split |-> split,
     heads |-> heads, kv |-> kv, out |-> out]
MLP(in, first, out, second, gated) ==
    [layers |-> (in := first) ++ (out := second), in |-> in, out |-> out, gated |-> gated]

\* Most models: a fused layer of 3 * hidden rows cut into three chunks.
FusedAttention(c, qkv, out, biasIn, biasOut) ==
    Attention(c.heads % c.tp = 0,
        (qkv := ColumnParallelLinear(Hidden(c), 3 * Hidden(c), biasIn))
            ++ (out := RowParallelLinear(Hidden(c), Hidden(c), biasOut)),
        Chunks(qkv, (3 * Hidden(c)) \div c.tp), HeadsPerRank(c), HeadsPerRank(c), out)

\* The embedding and the logits layer, and whether forward takes the cache
\* engine and the swap maps the worker passes.
LM(embed, vocabIn, norm, head, vocabOut, headBias, takesSwaps, c) ==
    [layers |-> (embed := VocabParallelEmbedding(vocabIn, Hidden(c)))
        ++ (IF head = embed THEN <<>>
            ELSE head := ColumnParallelLinear(Hidden(c), vocabOut, headBias)),
     embed |-> embed, positions |-> FALSE, embedNorm |-> FALSE,
     norm |-> norm, head |-> head, takesSwaps |-> takesSwaps]

WithPositions(lm) == [lm EXCEPT !.positions = TRUE]

----------------------------------------------------------------------------
(* Pieces the load_weights methods repeat.                                  *)

\* param[at:at + n] <- w[n * shard:n * (shard + 1)]
CopyShard(P, key, at, n, shard, w) ==
    key := CopySlice(P[key], at, n, RowSlice(w, n * shard, n * (shard + 1)))

\* gate_proj and up_proj share the rows of one parameter.
CopyGateUp(P, key, stride, r, w) ==
    LET half == Len(P[key].rows) \div 2 IN CopyShard(P, key, half * stride, half, r, w)

\* q, k and v are thirds of one parameter.
CopyThird(P, key, stride, r, w) ==
    LET third == Len(P[key].rows) \div 3 IN CopyShard(P, key, third * stride, third, r, w)

CopyPadded(P, x, r, w) == x := load_padded_tensor_parallel_vocab(P[x], w, r)

CopyWhole(P, key, column, row, r, w) ==
    key := load_tensor_parallel_weights(P[key], w, key, column, row, r)

\* view(3, heads, head, -1)[:, head_start:head_end] of a stacked q, k, v.
HeadsOfStacked(c, r, w) ==
    LET own(i) == Pieces(SubSeq(w.rows, i * Hidden(c) + 1, (i + 1) * Hidden(c)), HeadDim,
                         r * HeadsPerRank(c), (r + 1) * HeadsPerRank(c))
    IN Mat(own(0) \o own(1) \o own(2), w.cols)

\* view(-1, 3, head).transpose(0, 1) of the rank's slice of per-head q, k, v.
HeadsFirst(P, key, r, w) ==
    LET n == Len(P[key].rows)
        mine == RowSlice(w, n * r, n * (r + 1))
        heads == Len(mine.rows) \div (3 * HeadDim)
        part(i) == FlattenSeq([h \in 1 .. heads |-> Pieces(mine.rows, HeadDim, 3 * (h - 1) + i, 3 * (h - 1) + i + 1)])
    IN Mat(part(0) \o part(1) \o part(2), mine.cols)

Stride(names, n) == CHOOSE i \in 0 .. Len(names) - 1 : names[i + 1] = n
Weights(names) == {<<n, "weight">> : n \in names}
WeightsAndBiases(names) == Weights(names) \cup {<<n, "bias">> : n \in names}

----------------------------------------------------------------------------
(* llama.py                                                                 *)

LlamaMLP(c) ==
    LET quant == c.variant = "awq"
    IN MLP("gate_up_proj",
           Quantized(ColumnParallelLinear(Hidden(c), 2 * IntermediateSize, FALSE), quant),
           "down_proj",
           Quantized(RowParallelLinear(IntermediateSize, Hidden(c), FALSE), quant), TRUE)

\* Fewer key/value heads than ranks: every head is replicated.
LlamaAttention(c) ==
    LET quant == c.variant = "awq"
        kv == Max({1, c.kv \div c.tp})
        replicas == Max({1, c.tp \div c.kv})
    IN Attention(
        /\ c.heads % c.tp = 0
        /\ IF c.kv >= c.tp THEN c.kv % c.tp = 0 ELSE c.tp % c.kv = 0,
        ("qkv_proj" := Quantized(ColumnParallelLinear(Hidden(c),
                          (c.heads + 2 * c.kv * replicas) * HeadDim, FALSE), quant))
            ++ ("o_proj" := Quantized(RowParallelLinear(Hidden(c), Hidden(c), FALSE), quant)),
        Split("qkv_proj", HeadsPerRank(c) * HeadDim, kv * HeadDim),
        HeadsPerRank(c), kv, "o_proj")

LlamaForCausalLM(c) ==
    LM("embed_tokens", padded_vocab(c.vocab), "norm", "lm_head", padded_vocab(c.vocab), FALSE, TRUE, c)

\* Packed tensors are cut in words; transposed ones are copied transposed.
LlamaLoad(c, r, P, x, loaded) ==
    LET name == x[1]
        quant == x[2] # "weight"
        packed == x[2] \in {"qweight", "qzeros"}
        T(m) == IF quant THEN Transposed(m) ELSE m
        size(n) == IF packed THEN n \div PackFactor ELSE n
        PT == [key \in DOMAIN P |-> IF key[2] = x[2] THEN T(P[key]) ELSE P[key]]
        w == T(loaded)
        q == Hidden(c) \div c.tp
        kv == HeadDim * Max({1, c.kv \div c.tp})
        kvShard == r \div Max({1, c.tp \div c.kv})
        qkv(at, n, shard) == CopyShard(PT, <<"qkv_proj", x[2]>>, size(at), size(n), shard, w)
        row == {<<n, x[2]>> : n \in {"o_proj", "down_proj"}}
        copied ==
            CASE name = "q_proj" -> qkv(0, q, r)
              [] name = "k_proj" -> qkv(q, kv, kvShard)
              [] name = "v_proj" -> qkv(q + kv, kv, kvShard)
              [] name \in {"gate_proj", "up_proj"} ->
                    CopyGateUp(PT, <<"gate_up_proj", x[2]>>,
                               Stride(<<"gate_proj", "up_proj">>, name), r, w)
              [] name \in {"embed_tokens", "lm_head"} -> CopyPadded(PT, x, r, w)
              [] OTHER -> CopyWhole(PT, x, {}, row, r, w)
    IN [key \in DOMAIN copied |-> T(copied[key])]

----------------------------------------------------------------------------
(* mistral.py                                                               *)

MistralMLP(c) ==
    MLP("gate_up_proj", ColumnParallelLinear(Hidden(c), 2 * IntermediateSize, FALSE),
        "down_proj", RowParallelLinear(IntermediateSize, Hidden(c), FALSE), TRUE)

MistralAttention(c) ==
    LET kv == c.kv \div c.tp
    IN Attention(c.heads % c.tp = 0 /\ c.kv % c.tp = 0,
        ("qkv_proj" := ColumnParallelLinear(Hidden(c), (c.heads + 2 * c.kv) * HeadDim, FALSE))
            ++ ("o_proj" := RowParallelLinear(Hidden(c), Hidden(c), FALSE)),
        Split("qkv_proj", HeadsPerRank(c) * HeadDim, kv * HeadDim),
        HeadsPerRank(c), kv, "o_proj")

MistralForCausalLM(c) ==
    LM("embed_tokens", padded_vocab(c.vocab), "norm", "lm_head", padded_vocab(c.vocab), FALSE, FALSE, c)

MistralLoad(c, r, P, x, w) ==
    LET name == x[1]
        q == Hidden(c) \div c.tp
        kv == (HeadDim * c.kv) \div c.tp
        qkv(at, n) == CopyShard(P, <<"qkv_proj", x[2]>>, at, n, r, w)
    IN CASE name = "q_proj" -> qkv(0, q)
         [] name = "k_proj" -> qkv(q, kv)
         [] name = "v_proj" -> qkv(q + kv, kv)
         [] name \in {"gate_proj", "up_proj"} ->
               CopyGateUp(P, <<"gate_up_proj", x[2]>>, Stride(<<"gate_proj", "up_proj">>, name), r, w)
         [] name \in {"embed_tokens", "lm_head"} -> CopyPadded(P, x, r, w)
         [] OTHER -> CopyWhole(P, x, {}, Weights({"o_proj", "down_proj"}), r, w)

----------------------------------------------------------------------------
(* aquila.py                                                                *)

AquilaMLP(c) ==
    MLP("gate_up_proj", ColumnParallelLinear(Hidden(c), 2 * IntermediateSize, FALSE),
        "down_proj", RowParallelLinear(IntermediateSize, Hidden(c), FALSE), TRUE)

\* AquilaDecoderLayer passes the attention heads as the key/value heads too.
AquilaAttention(c) ==
    LET kv == c.heads \div c.tp
    IN Attention(c.heads % c.tp = 0,
        ("qkv_proj" := ColumnParallelLinear(Hidden(c), (c.heads + 2 * c.heads) * HeadDim, FALSE))
            ++ ("o_proj" := RowParallelLinear(Hidden(c), Hidden(c), FALSE)),
        Split("qkv_proj", HeadsPerRank(c) * HeadDim, kv * HeadDim),
        HeadsPerRank(c), HeadsPerRank(c), "o_proj")

\* The embedding keeps the vocabulary's size while the head is padded.
AquilaForCausalLM(c) ==
    LM("embed_tokens", c.vocab, "norm", "lm_head", padded_vocab(c.vocab), FALSE, FALSE, c)

AquilaLoad(c, r, P, x, w) ==
    LET name == x[1]
        q == Hidden(c) \div c.tp
        kv == (HeadDim * c.heads) \div c.tp
        qkv(at, n) == CopyShard(P, <<"qkv_proj", x[2]>>, at, n, r, w)
    IN CASE name = "q_proj" -> qkv(0, q)
         [] name = "k_proj" -> qkv(q, kv)
         [] name = "v_proj" -> qkv(q + kv, kv)
         [] name \in {"gate_proj", "up_proj"} ->
               CopyGateUp(P, <<"gate_up_proj", x[2]>>, Stride(<<"gate_proj", "up_proj">>, name), r, w)
         [] name \in {"embed_tokens", "lm_head"} -> CopyPadded(P, x, r, w)
         [] OTHER -> CopyWhole(P, x, Weights({"qkv_proj", "gate_proj", "up_proj"}),
                               Weights({"o_proj", "down_proj"}), r, w)

----------------------------------------------------------------------------
(* internlm.py                                                              *)

InternLMMLP(c) ==
    MLP("gate_up_proj", ColumnParallelLinear(Hidden(c), 2 * IntermediateSize, FALSE),
        "down_proj", RowParallelLinear(IntermediateSize, Hidden(c), FALSE), TRUE)

InternLMAttention(c) == FusedAttention(c, "qkv_proj", "o_proj", TRUE, TRUE)

InternLMForCausalLM(c) ==
    LM("embed_tokens", padded_vocab(c.vocab), "norm", "lm_head", padded_vocab(c.vocab), FALSE, FALSE, c)

InternLMLoad(c, r, P, x, w) ==
    LET name == x[1]
        qkv == <<"q_proj", "k_proj", "v_proj">>
    IN CASE name \in {"embed_tokens", "lm_head"} -> CopyPadded(P, x, r, w)
         [] name \in Range(qkv) -> CopyThird(P, <<"qkv_proj", x[2]>>, Stride(qkv, name), r, w)
         [] name \in {"gate_proj", "up_proj"} ->
               CopyGateUp(P, <<"gate_up_proj", x[2]>>, Stride(<<"gate_proj", "up_proj">>, name), r, w)
         [] OTHER -> CopyWhole(P, x, Weights({"qkv_proj", "gate_proj", "up_proj"}),
                               Weights({"o_proj", "down_proj"}), r, w)

----------------------------------------------------------------------------
(* baichuan.py                                                              *)

\* The largest power of two up to n.
PowerBelow(n) == Max({p \in {2 ^ k : k \in 0 .. n} : p <= n})

\* Exponents of the slopes, in units of 1 / (2 * PowerBelow(heads)).
BaiChuanSlopes(heads) ==
    LET p == PowerBelow(heads)
    IN [i \in 1 .. p |-> 16 * i] \o [j \in 1 .. Min({p, heads - p}) |-> 8 * (2 * j - 1)]

\* falcon.py and bloom.py have the same function.
FalconSlopes(heads) == BaiChuanSlopes(heads)
BloomSlopes(heads) == BaiChuanSlopes(heads)

BaiChuanMLP(c) ==
    MLP("gate_up_proj", ColumnParallelLinear(Hidden(c), 2 * IntermediateSize, FALSE),
        "down_proj", RowParallelLinear(IntermediateSize, Hidden(c), FALSE), TRUE)

BaiChuanAttention(c) == FusedAttention(c, "W_pack", "o_proj", FALSE, FALSE)

BaiChuanForCausalLM(c) == LM("embed_tokens", c.vocab, "norm", "lm_head", c.vocab, FALSE, TRUE, c)

BaiChuanLoad(c, r, P, x, loaded) ==
    LET name == x[1]
        w == IF name = "W_pack" THEN HeadsOfStacked(c, r, loaded) ELSE loaded
    IN CASE name \in {"gate_proj", "up_proj"} ->
               CopyGateUp(P, <<"gate_up_proj", x[2]>>, Stride(<<"gate_proj", "up_proj">>, name), r, w)
         [] name \in {"embed_tokens", "lm_head"} -> CopyPadded(P, x, r, w)
         [] OTHER -> CopyWhole(P, x, {}, Weights({"o_proj", "down_proj"}), r, w)

----------------------------------------------------------------------------
(* qwen.py: w2 is the gate.  The two c_proj layers are told apart here.     *)

QWenMLP(c) ==
    MLP("gate_up_proj", ColumnParallelLinear(Hidden(c), 2 * IntermediateSize, FALSE),
        "mlp.c_proj", RowParallelLinear(IntermediateSize, Hidden(c), FALSE), TRUE)

QWenAttention(c) == FusedAttention(c, "c_attn", "attn.c_proj", TRUE, FALSE)

QWenLMHeadModel(c) ==
    LM("wte", padded_vocab(c.vocab), "ln_f", "lm_head", padded_vocab(c.vocab), FALSE, FALSE, c)

QWenLoad(c, r, P, x, loaded) ==
    LET name == x[1]
        w == IF name = "c_attn" THEN HeadsOfStacked(c, r, loaded) ELSE loaded
    IN CASE name \in {"w2", "w1"} ->
               CopyGateUp(P, <<"gate_up_proj", x[2]>>, Stride(<<"w2", "w1">>, name), r, w)
         [] name \in {"wte", "lm_head"} -> CopyPadded(P, x, r, w)
         [] OTHER -> CopyWhole(P, x, {}, Weights({"attn.c_proj", "mlp.c_proj"}), r, w)

----------------------------------------------------------------------------
(* falcon.py: a layer is new (new_decoder_architecture), multi-query or     *)
(* multi-head; its linear layers return their bias instead of adding it.    *)

FalconIsNew(c) == c.variant = "new"
FalconIsMultiQuery(c) == c.variant = "multi_query"
SkippingBias(layer) == [layer EXCEPT !.skipBias = TRUE]
FalconReduces(c) == ~(FalconIsNew(c) \/ c.parallel)

FalconMLP(c) ==
    MLP("dense_h_to_4h", SkippingBias(ColumnParallelLinear(Hidden(c), 4 * Hidden(c), c.bias)),
        "dense_4h_to_h",
        [SkippingBias(RowParallelLinear(4 * Hidden(c), Hidden(c), c.bias))
            EXCEPT !.reduce = FalconReduces(c)], FALSE)

FalconTotalKv(c) ==
    IF FalconIsNew(c) THEN c.kv ELSE IF FalconIsMultiQuery(c) THEN 1 ELSE c.heads

FalconAttention(c) ==
    LET kv == IF FalconIsMultiQuery(c) THEN 1 ELSE FalconTotalKv(c) \div c.tp
        q == HeadsPerRank(c) * HeadDim
        dense == [SkippingBias(RowParallelLinear(Hidden(c), Hidden(c), c.bias))
                    EXCEPT !.reduce = FalconReduces(c)]
        separate ==
            ("query" := SkippingBias(ColumnParallelLinear(Hidden(c), Hidden(c), c.bias)))
                ++ ("key_value" := Linear(Hidden(c), 2 * HeadDim, c.bias))
        fused == "query_key_value" := SkippingBias(ColumnParallelLinear(Hidden(c),
                    (c.heads + 2 * FalconTotalKv(c)) * HeadDim, c.bias))
    IN Attention(c.heads % c.tp = 0,
        (IF FalconIsMultiQuery(c) THEN separate ELSE fused) ++ ("dense" := dense),
        IF FalconIsMultiQuery(c)
        THEN [q |-> <<"query", 0, q>>, k |-> <<"key_value", 0, HeadDim>>,
              v |-> <<"key_value", HeadDim, 2 * HeadDim>>]
        ELSE Split("query_key_value", q, kv * HeadDim),
        HeadsPerRank(c), kv, "dense")

FalconForCausalLM(c) ==
    LM("word_embeddings", c.vocab, "ln_f", "lm_head", c.vocab, FALSE, FALSE, c)

\* The checkpoint holds, for each key/value head, its query heads, k and v.
FalconLoad(c, r, P, x, w) ==
    LET kvHeads == FalconTotalKv(c)
        perKv == c.heads \div kvHeads
        ownKv == IF FalconIsMultiQuery(c) THEN 1 ELSE kvHeads \div c.tp
        firstKv == IF FalconIsMultiQuery(c) THEN 0 ELSE r * ownKv
        part(first, n) == FlattenSeq([g \in 1 .. kvHeads |->
            Pieces(w.rows, HeadDim, (g - 1) * (perKv + 2) + first, (g - 1) * (perKv + 2) + first + n)])
        heads(rows, first, n) == Slice(rows, HeadDim * first, HeadDim * (first + n))
        wq == heads(part(0, perKv), r * HeadsPerRank(c), HeadsPerRank(c))
        wkv == heads(part(perKv, 1), firstKv, ownKv) \o heads(part(perKv + 1, 1), firstKv, ownKv)
        column == Weights({"word_embeddings", "lm_head"}) \cup WeightsAndBiases({"dense_h_to_4h"})
        load(n, m) == CopyWhole(P, <<n, x[2]>>, column, Weights({"dense", "dense_4h_to_h"}), r, m)
    IN IF x[1] # "query_key_value" THEN load(x[1], w)
       ELSE IF FalconIsMultiQuery(c)
       THEN load("query", Mat(wq, w.cols)) ++ load("key_value", Mat(wkv, w.cols))
       ELSE load("query_key_value", Mat(wq \o wkv, w.cols))

----------------------------------------------------------------------------
(* gpt_bigcode.py                                                           *)

GPTBigMLP(c) ==
    MLP("c_fc", ColumnParallelLinear(Hidden(c), IntermediateSize, TRUE),
        "mlp.c_proj", RowParallelLinear(IntermediateSize, Hidden(c), TRUE), FALSE)

\* Multi-head: c_attn counts the key/value heads of one rank only.
GPTBigCodeAttention(c) ==
    LET multiQuery == c.variant = "multi_query"
        kvDim == (IF multiQuery THEN 1 ELSE HeadsPerRank(c)) * HeadDim
        q == Hidden(c) \div c.tp
    IN Attention(c.heads % c.tp = 0,
        (IF multiQuery
         THEN ("c_attn_q" := ColumnParallelLinear(Hidden(c), Hidden(c), TRUE))
                ++ ("c_attn_kv" := Linear(Hidden(c), 2 * kvDim, TRUE))
         ELSE "c_attn" := ColumnParallelLinear(Hidden(c), Hidden(c) + 2 * kvDim, TRUE))
            ++ ("attn.c_proj" := RowParallelLinear(Hidden(c), Hidden(c), TRUE)),
        IF multiQuery THEN [q |-> <<"c_attn_q", 0, q>>, k |-> <<"c_attn_kv", 0, kvDim>>,
                            v |-> <<"c_attn_kv", kvDim, 2 * kvDim>>]
        ELSE Split("c_attn", q, kvDim),
        HeadsPerRank(c), IF multiQuery THEN 1 ELSE HeadsPerRank(c), "attn.c_proj")

GPTBigCodeForCausalLM(c) ==
    WithPositions(LM("wte", padded_vocab(c.vocab), "ln_f", "wte", padded_vocab(c.vocab), FALSE, FALSE, c))

GPTBigCodeLoad(c, r, P, x, w) ==
    LET multiQuery == c.variant = "multi_query"
        kv == (IF multiQuery THEN 1 ELSE c.heads) * HeadDim
        own(rows) == Slice(rows, HeadDim * r * HeadsPerRank(c), HeadDim * (r + 1) * HeadsPerRank(c))
        wq == own(Slice(w.rows, 0, Hidden(c)))
        wk == Slice(w.rows, Hidden(c), Hidden(c) + kv)
        wv == Slice(w.rows, Hidden(c) + kv, Hidden(c) + 2 * kv)
        load(n, m) == CopyWhole(P, <<n, x[2]>>, WeightsAndBiases({"c_fc"}),
                                Weights({"attn.c_proj", "mlp.c_proj"}), r, m)
    IN CASE x[1] = "lm_head" -> <<>>
         [] x[1] = "wte" -> CopyPadded(P, x, r, w)
         [] x[1] = "c_attn" /\ multiQuery ->
               load("c_attn_q", Mat(wq, w.cols)) ++ load("c_attn_kv", Mat(wk \o wv, w.cols))
         [] x[1] = "c_attn" /\ ~multiQuery -> load("c_attn", Mat(wq \o own(wk) \o own(wv), w.cols))
         [] OTHER -> load(x[1], w)

----------------------------------------------------------------------------
(* gpt_neox.py and bloom.py: the checkpoint interleaves q, k and v by head. *)

NeoXStyleMLP(inner, c) ==
    MLP("dense_h_to_4h", ColumnParallelLinear(Hidden(c), inner, TRUE),
        "dense_4h_to_h", RowParallelLinear(inner, Hidden(c), TRUE), FALSE)

GPTNeoXMLP(c) == NeoXStyleMLP(IntermediateSize, c)
GPTNeoXAttention(c) == FusedAttention(c, "query_key_value", "dense", TRUE, TRUE)

GPTNeoXForCausalLM(c) == LM("embed_in", c.vocab, "final_layer_norm", "embed_out", c.vocab, FALSE, FALSE, c)

GPTNeoXLoad(c, r, P, x, w) ==
    LET shard == IF x[1] = "query_key_value" THEN HeadsFirst(P, x, r, w) ELSE w
    IN CopyWhole(P, x, Weights({"embed_in", "embed_out"}) \cup WeightsAndBiases({"dense_h_to_4h"}),
                 Weights({"dense", "dense_4h_to_h"}), r, shard)

BloomMLP(c) == NeoXStyleMLP(4 * Hidden(c), c)
BloomAttention(c) == FusedAttention(c, "query_key_value", "dense", TRUE, TRUE)

BloomForCausalLM(c) ==
    [LM("word_embeddings", c.vocab, "ln_f", "word_embeddings", c.vocab, FALSE, FALSE, c)
        EXCEPT !.embedNorm = TRUE]

\* An lm_head of the checkpoint is loaded over the tied embedding.
BloomLoad(c, r, P, x, w) ==
    LET key == IF x[1] = "lm_head" THEN <<"word_embeddings", "weight">> ELSE x
        shard == IF x[1] = "query_key_value" THEN HeadsFirst(P, x, r, w) ELSE w
    IN CopyWhole(P, key, Weights({"word_embeddings"}) \cup WeightsAndBiases({"dense_h_to_4h"}),
                 Weights({"dense", "dense_4h_to_h"}), r, shard)

----------------------------------------------------------------------------
(* mpt.py                                                                   *)

\* Exponents in units of 1 / (2 * PowerBelow(heads)); alibi_bias_max is 8.
MPTSlopes(heads) ==
    LET next == Min({p \in {2 ^ k : k \in 0 .. heads} : p >= heads})
        m == [i \in 1 .. next |-> (8 * i * 2 * PowerBelow(heads)) \div next]
        every(second) == [i \in 1 .. next \div 2 |-> m[2 * i - (IF second THEN 0 ELSE 1)]]
    IN IF next = heads THEN m ELSE Slice(every(TRUE) \o every(FALSE), 0, heads)

MPTMLP(c) ==
    MLP("up_proj", ColumnParallelLinear(Hidden(c), IntermediateSize, c.bias),
        "down_proj", RowParallelLinear(IntermediateSize, Hidden(c), c.bias), FALSE)

MPTAttention(c) == FusedAttention(c, "qkv_proj", "out_proj", c.bias, c.bias)

MPTForCausalLM(c) == LM("wte", c.vocab, "norm_f", "wte", c.vocab, FALSE, FALSE, c)

MPTLoad(c, r, P, x, w) ==
    LET key == IF x[1] = "Wqkv" THEN <<"qkv_proj", x[2]>> ELSE x
        shard == IF x[1] = "Wqkv" THEN HeadsOfStacked(c, r, w) ELSE w
    IN CopyWhole(P, key, Weights({"wte"}) \cup WeightsAndBiases({"up_proj"}),
                 Weights({"out_proj", "down_proj"}), r, shard)

----------------------------------------------------------------------------
(* gpt2.py: Conv1D weights come transposed.                                 *)

GPT2MLP(c) ==
    MLP("c_fc", ColumnParallelLinear(Hidden(c), IntermediateSize, TRUE),
        "mlp.c_proj", RowParallelLinear(IntermediateSize, Hidden(c), TRUE), FALSE)

GPT2Attention(c) == FusedAttention(c, "c_attn", "attn.c_proj", TRUE, TRUE)

GPT2LMHeadModel(c) ==
    WithPositions(LM("wte", padded_vocab(c.vocab), "ln_f", "wte", padded_vocab(c.vocab), FALSE, FALSE, c))

GPT2Load(c, r, P, x, loaded) ==
    LET conv1d == {"c_attn", "attn.c_proj", "mlp.c_proj", "c_fc"}
        w == IF x \in Weights(conv1d) THEN Transposed(loaded) ELSE loaded
        load(m) == CopyWhole(P, x, WeightsAndBiases({"c_fc"}),
                             Weights({"attn.c_proj", "mlp.c_proj"}), r, m)
    IN CASE x[1] = "lm_head" -> <<>>
         [] x[1] = "wte" -> CopyPadded(P, x, r, w)
         [] x[1] = "c_attn" -> load(HeadsOfStacked(c, r, w))
         [] OTHER -> load(w)

----------------------------------------------------------------------------
(* gpt_j.py                                                                 *)

GPTJMLP(c) ==
    MLP("fc_in", ColumnParallelLinear(Hidden(c), IntermediateSize, TRUE),
        "fc_out", RowParallelLinear(IntermediateSize, Hidden(c), TRUE), FALSE)

GPTJAttention(c) == FusedAttention(c, "qkv_proj", "out_proj", FALSE, FALSE)

GPTJForCausalLM(c) == LM("wte", c.vocab, "ln_f", "lm_head", c.vocab, TRUE, TRUE, c)

\* The shard size is the parameter's input size, whatever the number of ranks.
GPTJLoad(c, r, P, x, w) ==
    LET qkv == <<"q_proj", "k_proj", "v_proj">>
        key == <<"qkv_proj", x[2]>>
        shard == Len(P[key].cols)
    IN IF x[1] \in Range(qkv) THEN CopyShard(P, key, shard * Stride(qkv, x[1]), shard, r, w)
       ELSE CopyWhole(P, x, Weights({"wte"}) \cup WeightsAndBiases({"fc_in", "lm_head"}),
                      Weights({"out_proj", "fc_out"}), r, w)

----------------------------------------------------------------------------
(* opt.py                                                                   *)

OPTMLP(c) ==
    MLP("fc1", ColumnParallelLinear(Hidden(c), IntermediateSize, c.bias),
        "fc2", RowParallelLinear(IntermediateSize, Hidden(c), c.bias), FALSE)

OPTAttention(c) == FusedAttention(c, "qkv_proj", "out_proj", c.bias, c.bias)

\* The post_norm variant has no final_layer_norm.
OPTForCausalLM(c) ==
    WithPositions(LM("embed_tokens", c.vocab,
                     IF c.variant = "post_norm" THEN "none" ELSE "final_layer_norm",
                     "embed_tokens", c.vocab, FALSE, TRUE, c))

OPTLoad(c, r, P, x, w) ==
    LET qkv == <<"q_proj", "k_proj", "v_proj">>
    IN CASE x[1] = "lm_head" -> <<>>
         [] x[1] \in Range(qkv) -> CopyThird(P, <<"qkv_proj", x[2]>>, Stride(qkv, x[1]), r, w)
         [] OTHER -> CopyWhole(P, x, Weights({"embed_tokens"}) \cup WeightsAndBiases({"fc1"}),
                               Weights({"out_proj", "fc2"}), r, w)

----------------------------------------------------------------------------
(* The registry of model_loader.py.                                         *)

AttentionOf(c) ==
    CASE c.arch = "llama" -> LlamaAttention(c)
      [] c.arch = "mistral" -> MistralAttention(c)
      [] c.arch = "aquila" -> AquilaAttention(c)
      [] c.arch = "internlm" -> InternLMAttention(c)
      [] c.arch = "baichuan" -> BaiChuanAttention(c)
      [] c.arch = "qwen" -> QWenAttention(c)
      [] c.arch = "falcon" -> FalconAttention(c)
      [] c.arch = "gpt_bigcode" -> GPTBigCodeAttention(c)
      [] c.arch = "gpt_neox" -> GPTNeoXAttention(c)
      [] c.arch = "bloom" -> BloomAttention(c)
      [] c.arch = "mpt" -> MPTAttention(c)
      [] c.arch = "gpt2" -> GPT2Attention(c)
      [] c.arch = "gpt_j" -> GPTJAttention(c)
      [] c.arch = "opt" -> OPTAttention(c)

MLPOf(c) ==
    CASE c.arch = "llama" -> LlamaMLP(c)
      [] c.arch = "mistral" -> MistralMLP(c)
      [] c.arch = "aquila" -> AquilaMLP(c)
      [] c.arch = "internlm" -> InternLMMLP(c)
      [] c.arch = "baichuan" -> BaiChuanMLP(c)
      [] c.arch = "qwen" -> QWenMLP(c)
      [] c.arch = "falcon" -> FalconMLP(c)
      [] c.arch = "gpt_bigcode" -> GPTBigMLP(c)
      [] c.arch = "gpt_neox" -> GPTNeoXMLP(c)
      [] c.arch = "bloom" -> BloomMLP(c)
      [] c.arch = "mpt" -> MPTMLP(c)
      [] c.arch = "gpt2" -> GPT2MLP(c)
      [] c.arch = "gpt_j" -> GPTJMLP(c)
      [] c.arch = "opt" -> OPTMLP(c)

LMOf(c) ==
    CASE c.arch = "llama" -> LlamaForCausalLM(c)
      [] c.arch = "mistral" -> MistralForCausalLM(c)
      [] c.arch = "aquila" -> AquilaForCausalLM(c)
      [] c.arch = "internlm" -> InternLMForCausalLM(c)
      [] c.arch = "baichuan" -> BaiChuanForCausalLM(c)
      [] c.arch = "qwen" -> QWenLMHeadModel(c)
      [] c.arch = "falcon" -> FalconForCausalLM(c)
      [] c.arch = "gpt_bigcode" -> GPTBigCodeForCausalLM(c)
      [] c.arch = "gpt_neox" -> GPTNeoXForCausalLM(c)
      [] c.arch = "bloom" -> BloomForCausalLM(c)
      [] c.arch = "mpt" -> MPTForCausalLM(c)
      [] c.arch = "gpt2" -> GPT2LMHeadModel(c)
      [] c.arch = "gpt_j" -> GPTJForCausalLM(c)
      [] c.arch = "opt" -> OPTForCausalLM(c)

\* What rank r copies of the checkpoint's tensor w, named x, into its weights.
load_weights(c, r, P, x, w) ==
    CASE c.arch = "llama" -> LlamaLoad(c, r, P, x, w)
      [] c.arch = "mistral" -> MistralLoad(c, r, P, x, w)
      [] c.arch = "aquila" -> AquilaLoad(c, r, P, x, w)
      [] c.arch = "internlm" -> InternLMLoad(c, r, P, x, w)
      [] c.arch = "baichuan" -> BaiChuanLoad(c, r, P, x, w)
      [] c.arch = "qwen" -> QWenLoad(c, r, P, x, w)
      [] c.arch = "falcon" -> FalconLoad(c, r, P, x, w)
      [] c.arch = "gpt_bigcode" -> GPTBigCodeLoad(c, r, P, x, w)
      [] c.arch = "gpt_neox" -> GPTNeoXLoad(c, r, P, x, w)
      [] c.arch = "bloom" -> BloomLoad(c, r, P, x, w)
      [] c.arch = "mpt" -> MPTLoad(c, r, P, x, w)
      [] c.arch = "gpt2" -> GPT2Load(c, r, P, x, w)
      [] c.arch = "gpt_j" -> GPTJLoad(c, r, P, x, w)
      [] c.arch = "opt" -> OPTLoad(c, r, P, x, w)

LayersOf(c) == AttentionOf(c).layers ++ MLPOf(c).layers ++ LMOf(c).layers

UsesAlibi(c) == c.arch \in {"bloom", "mpt"} \/ c.alibi
AlibiSlopes(c) ==
    IF ~UsesAlibi(c) THEN NoSlopes(c)
    ELSE CASE c.arch = "baichuan" -> SlopesOf(BaiChuanSlopes(c.heads), c)
           [] c.arch = "bloom" -> SlopesOf(BloomSlopes(c.heads), c)
           [] c.arch = "falcon" -> SlopesOf(FalconSlopes(c.heads), c)
           [] c.arch = "mpt" -> SlopesOf(MPTSlopes(c.heads), c)

\* The object get_model constructs: what the modules keep of the configuration.
Model(c) ==
    [config |-> c, attention |-> AttentionOf(c), mlp |-> MLPOf(c), lm |-> LMOf(c),
     layers |-> LayersOf(c), slopes |-> AlibiSlopes(c)]

----------------------------------------------------------------------------
(* The forward pass on every rank: a decoder layer stands for each of them. *)

\* Both read the stream x.
SelfAttention(m, P, x) ==
    LET a == m.attention
        part(r, s) == Slice(Project(P[r], s[1], a.layers[s[1]]), s[2], s[3])
        y == [r \in DOMAIN P |->
                PagedAttention(part(r, a.split.q), part(r, a.split.k), part(r, a.split.v),
                               a.heads, a.kv, m.slopes[r])]
    IN RowForward(P, a.out, a.layers[a.out], y, x, m.config.tp)

FeedForward(m, P, x) ==
    LET f == m.mlp
        y == [r \in DOMAIN P |->
                LET up == Project(P[r], f.in, f.layers[f.in])
                IN IF f.gated THEN SiluAndMul(up) ELSE up]
    IN RowForward(P, f.out, f.layers[f.out], y, x, m.config.tp)

\* x + attention(norm1(x)), then the same with the MLP and norm2.
PreNormLayer(m, P, h, norm1, norm2) ==
    LET x == Plus(h, SelfAttention(m, P, Normed(norm1, h)))
    IN Plus(x, FeedForward(m, P, Normed(norm2, x)))

LlamaDecoderLayer(m, P, h) ==
    PreNormLayer(m, P, h, "input_layernorm", "post_attention_layernorm")

MistralDecoderLayer(m, P, h) ==
    PreNormLayer(m, P, h, "input_layernorm", "post_attention_layernorm")

AquilaDecoderLayer(m, P, h) ==
    PreNormLayer(m, P, h, "input_layernorm", "post_attention_layernorm")

InternLMDecoderLayer(m, P, h) ==
    PreNormLayer(m, P, h, "input_layernorm", "post_attention_layernorm")

BaiChuanDecoderLayer(m, P, h) ==
    PreNormLayer(m, P, h, "input_layernorm", "post_attention_layernorm")

QWenBlock(m, P, h) ==
    PreNormLayer(m, P, h, "ln_1", "ln_2")

\* Without the reductions of its layers, one all-reduce serves both of them
\* and their biases are added after it.
FalconDecoderLayer(m, P, h) ==
    LET c == m.config
        bias(n) == [r \in DOMAIN P |-> BiasTerms(P[r], n, m.layers[n])]
        first == Normed(IF FalconIsNew(c) THEN "ln_attn" ELSE "input_layernorm", h)
        mine == SelfAttention(m, P, first)
        attn == IF FalconReduces(c) THEN Plus(mine, bias("dense")) ELSE mine
        sequential == ~FalconIsNew(c) /\ ~c.parallel
        residual == IF sequential THEN Plus(h, attn) ELSE h
        second == CASE FalconIsNew(c) -> Normed("ln_mlp", h)
                    [] ~FalconIsNew(c) /\ c.parallel -> first
                    [] sequential -> Normed("post_attention_layernorm", residual)
        mlp == FeedForward(m, P, second)
        summed == all_reduce(Plus(mlp, attn), c.tp)
    IN Plus(residual,
            IF FalconReduces(c) THEN Plus(mlp, bias("dense_4h_to_h"))
            ELSE Plus(Plus(summed, bias("dense")), bias("dense_4h_to_h")))

GPTBigCodeBlock(m, P, h) ==
    PreNormLayer(m, P, h, "ln_1", "ln_2")

\* use_parallel_residual is c.parallel.
GPTNeoXLayer(m, P, h) ==
    LET attn == SelfAttention(m, P, Normed("input_layernorm", h))
        mlp(x) == FeedForward(m, P, Normed("post_attention_layernorm", x))
    IN IF m.config.parallel THEN Plus(Plus(mlp(h), attn), h)
       ELSE LET x == Plus(attn, h) IN Plus(mlp(x), x)

\* Variant post_norm: apply_residual_connection_post_layernorm.
BloomBlock(m, P, h) ==
    LET post == m.config.variant = "post_norm"
        y == Normed("input_layernorm", h)
        x == Plus(SelfAttention(m, P, y), IF post THEN y ELSE h)
        z == Normed("post_attention_layernorm", x)
    IN Plus(FeedForward(m, P, z), IF post THEN z ELSE x)

MPTBlock(m, P, h) ==
    PreNormLayer(m, P, h, "norm_1", "norm_2")

GPT2Block(m, P, h) ==
    PreNormLayer(m, P, h, "ln_1", "ln_2")

GPTJBlock(m, P, h) ==
    LET x == Normed("ln_1", h)
    IN Plus(Plus(SelfAttention(m, P, x), FeedForward(m, P, x)), h)

\* Variant post_norm: not do_layer_norm_before.
OPTDecoderLayer(m, P, h) ==
    LET post == m.config.variant = "post_norm"
        before(name, x) == IF post THEN x ELSE Normed(name, x)
        after(name, x) == IF post THEN Normed(name, x) ELSE x
        attn == SelfAttention(m, P, before("self_attn_layer_norm", h))
        x == after("self_attn_layer_norm", Plus(h, attn))
    IN after("final_layer_norm", Plus(x, FeedForward(m, P, before("final_layer_norm", x))))

DecoderLayer(m, P, h) ==
    LET arch == m.config.arch
    IN CASE arch = "llama" -> LlamaDecoderLayer(m, P, h)
         [] arch = "mistral" -> MistralDecoderLayer(m, P, h)
         [] arch = "aquila" -> AquilaDecoderLayer(m, P, h)
         [] arch = "internlm" -> InternLMDecoderLayer(m, P, h)
         [] arch = "baichuan" -> BaiChuanDecoderLayer(m, P, h)
         [] arch = "qwen" -> QWenBlock(m, P, h)
         [] arch = "falcon" -> FalconDecoderLayer(m, P, h)
         [] arch = "gpt_bigcode" -> GPTBigCodeBlock(m, P, h)
         [] arch = "gpt_neox" -> GPTNeoXLayer(m, P, h)
         [] arch = "bloom" -> BloomBlock(m, P, h)
         [] arch = "mpt" -> MPTBlock(m, P, h)
         [] arch = "gpt2" -> GPT2Block(m, P, h)
         [] arch = "gpt_j" -> GPTJBlock(m, P, h)
         [] arch = "opt" -> OPTDecoderLayer(m, P, h)

\* The embedding of a token, with that of its position where there is one.
Embed(m, P, token) ==
    LET lm == m.lm
        x == EmbeddingForward(P, lm.embed, m.config.tp, token)
        y == IF lm.positions THEN [r \in DOMAIN P |-> x[r] (+) SetToBag({<< <<"position">>, "embedding">>})]
             ELSE x
    IN IF lm.embedNorm THEN Normed("word_embeddings_layernorm", y) ELSE y

\* The forward of a model with one layer: what the sampler is given.
ModelForward(m, P, token) ==
    LET h == DecoderLayer(m, P, Embed(m, P, token))
    IN IF m.lm.norm = "none" THEN h ELSE Normed(m.lm.norm, h)

\* Variant: the padding is not cut off.
get_padded_logits(m, P) ==
    LET lm == m.lm
    IN all_gather([r \in DOMAIN P |-> Project(P[r], lm.head, lm.layers[lm.head])], m.config.tp)

\* The logits every rank gathers, without the padding of the vocabulary.
get_logits(m, P) ==
    LET lm == m.lm
        partial == [r \in DOMAIN P |-> Project(P[r], lm.head, lm.layers[lm.head])]
    IN Slice(all_gather(partial, m.config.tp), 0, m.config.vocab)
=============================================================================
