-------------------------- MODULE ModelExecutionMC --------------------------
EXTENDS ModelExecution

Config(arch, tp, heads, kv, vocab) ==
    [arch |-> arch, tp |-> tp, heads |-> heads, kv |-> kv, vocab |-> vocab,
     variant |-> "plain", bias |-> TRUE, parallel |-> FALSE, alibi |-> FALSE]

MultiHead == {"aquila", "internlm", "baichuan", "qwen", "gpt_neox", "bloom", "mpt", "gpt2", "gpt_j", "opt"}

\* Six heads are no power of two; a vocabulary of six needs padding to eight.
MultiHeadConfigs ==
    {Config(arch, tp, heads, heads, 6) : arch \in MultiHead, tp \in 1 .. 4, heads \in {4, 6}}
        \cup {[Config("baichuan", tp, 6, 6, 6) EXCEPT !.alibi = TRUE] : tp \in 1 .. 3}
        \cup {[Config(arch, tp, 4, 4, 8) EXCEPT !.variant = "post_norm", !.bias = FALSE] :
                arch \in {"bloom", "opt"}, tp \in {2, 4}}
        \cup {[Config("gpt_neox", tp, 4, 4, 8) EXCEPT !.parallel = TRUE] : tp \in {2, 4}}

GroupedConfigs ==
    {Config(arch, tp, 4, kv, 6) : arch \in {"llama", "mistral"}, tp \in {1, 2, 4}, kv \in {1, 2, 4}}
        \cup {[Config("llama", tp, 4, kv, 6) EXCEPT !.variant = "awq"] : tp \in {1, 2}, kv \in {2, 4}}

FalconConfigs ==
    {[Config("falcon", tp, 4, CASE v = "new" -> 2 [] v = "mha" -> 4 [] v = "multi_query" -> 1, 6)
        EXCEPT !.variant = v, !.parallel = p, !.alibi = a] :
        tp \in {1, 2}, v \in {"new", "mha", "multi_query"}, p, a \in BOOLEAN}

BigCodeConfigs ==
    {[Config("gpt_bigcode", tp, 4, IF v = "mha" THEN 4 ELSE 1, 6) EXCEPT !.variant = v] :
        tp \in {1, 2, 4}, v \in {"mha", "multi_query"}}

MCConfigs == MultiHeadConfigs \cup GroupedConfigs \cup FalconConfigs \cup BigCodeConfigs

\* Two orders decide who writes last.
MCFileOrders(c) ==
    LET order == FoldSet(LAMBDA x, s : Append(s, x), <<>>, DOMAIN Checkpoint(c))
    IN {order, Reverse(order)}

Request(id, type, onlySwap) == [id |-> id, type |-> type, onlySwap |-> onlySwap]

\* Prompts, generation and swaps, and both sampling types in both orders.
MCBatches ==
    {[waiting |-> <<Request(1, t1, FALSE)>>,
      running |-> <<Request(2, t2, FALSE), Request(3, "greedy", s)>>,
      swapped |-> <<Request(4, "random", FALSE), Request(5, "greedy", FALSE)>>] :
        t1, t2 \in {"greedy", "random"}, s \in BOOLEAN}
=============================================================================
