--------------------------- MODULE TensorParallel ---------------------------
(* Megatron-style tensor parallelism as the layers of the model executor    *)
(* use it (parallel_utils/layers.py, parallel_utils/utils.py,               *)
(* weight_utils.py, layers/attention.py).  A weight is a symbolic matrix:   *)
(* rows and cols hold the label of every output row and input column of the *)
(* unsharded weight that was copied there, so slicing, transposing and      *)
(* copying move labels and a computation is the bag of the terms it sums.    *)
EXTENDS Integers, Sequences, FiniteSets, Bags, FiniteSetsExt, SequencesExt, TLC

CONSTANTS
    HeadDim,      \* size of an attention head
    VocabPad,     \* vocabularies are padded to a multiple of it (64 in the code)
    PackFactor,   \* quantized elements in one stored word (8 in the code)
    GroupSize     \* inputs that share a quantization scale

ASSUME SizeAssumption == {HeadDim, VocabPad, PackFactor, GroupSize} \subseteq Nat \ {0}

----------------------------------------------------------------------------
(* Dictionaries.                                                            *)

\* {x: y}, and f with the entries of g that f has none for.
x := y == [z \in {x} |-> y]
f ++ g == [x \in DOMAIN f \cup DOMAIN g |-> IF x \in DOMAIN f THEN f[x] ELSE g[x]]

----------------------------------------------------------------------------
(* Matrices.  An entry nobody copied is Unset (torch.empty).                *)

Unset == <<<<"unset">>>>
Mat(rows, cols) == [rows |-> rows, cols |-> cols]
Fresh(out, in) == Mat([i \in 1 .. out |-> Unset], [j \in 1 .. in |-> Unset])
Error == Mat(<<>>, <<>>)
Failed(w) == w.rows = <<>>

Shape(w) == <<Len(w.rows), Len(w.cols)>>
Transposed(w) == Mat(w.cols, w.rows)

\* Python's s[from:to], which stops at the end of s.
Slice(s, from, to) == SubSeq(s, from + 1, Min({to, Len(s)}))
RowSlice(w, from, to) == Mat(Slice(w.rows, from, to), w.cols)
ColSlice(w, from, to) == Mat(w.rows, Slice(w.cols, from, to))

\* The consecutive groups of n elements of s.
Grouped(s, n) == [i \in 1 .. Len(s) \div n |-> SubSeq(s, (i - 1) * n + 1, i * n)]

\* Elements of s, n at a time: the ranges first..last-1 of the groups.
Pieces(s, n, first, last) ==
    FlattenSeq([i \in 1 .. last - first |-> SubSeq(s, (first + i - 1) * n + 1, (first + i) * n)])

CopyInto(p, at, w) ==
    Mat(Slice(p.rows, 0, at) \o w.rows
            \o Slice(p.rows, at + Len(w.rows), Len(p.rows)), w.cols)

\* param.data[at:at + n].copy_(w) behind the assertion that the shapes agree.
CopySlice(p, at, n, w) ==
    IF Shape(RowSlice(p, at, at + n)) = Shape(w) THEN CopyInto(p, at, w) ELSE Error

----------------------------------------------------------------------------
(* Layers and the weights one rank allocates for them.                      *)

Layer(kind, in, out, bias) ==
    [kind |-> kind, in |-> in, out |-> out, bias |-> bias,
     quant |-> FALSE, skipBias |-> FALSE, reduce |-> TRUE]

ColumnParallelLinear(in, out, bias) == Layer("column", in, out, bias)
RowParallelLinear(in, out, bias) == Layer("row", in, out, bias)
Linear(in, out, bias) == Layer("replicated", in, out, bias)
VocabParallelEmbedding(vocab, dim) == Layer("column", dim, vocab, FALSE)

\* ParallelLinear picks the quantized class when there is a quantization.
Quantized(layer, quant) == [layer EXCEPT !.quant = quant]

OutPerRank(l, tp) == IF l.kind = "column" THEN l.out \div tp ELSE l.out
InPerRank(l, tp) == IF l.kind = "row" THEN l.in \div tp ELSE l.in

\* The divisions the constructors assert.
Divides(l, tp) ==
    /\ l.kind = "column" => l.out % tp = 0
    /\ l.kind = "row" => l.in % tp = 0
    /\ l.quant => OutPerRank(l, tp) % PackFactor = 0
    /\ ~l.reduce => (l.bias => l.skipBias)

ParamNames(l) ==
    IF l.quant THEN {"qweight", "qzeros", "scales"}
    ELSE {"weight"} \cup (IF l.bias THEN {"bias"} ELSE {})

\* Quantized weights are stored input first, and packed along the output.
CreateWeight(l, suffix, tp) ==
    LET out == OutPerRank(l, tp)
        in == InPerRank(l, tp)
    IN CASE suffix = "weight" -> Fresh(out, in)
         [] suffix = "bias" -> Fresh(out, 1)
         [] suffix = "qweight" -> Fresh(in, out \div PackFactor)
         [] suffix = "qzeros" -> Fresh(in \div GroupSize, out \div PackFactor)
         [] suffix = "scales" -> Fresh(in \div GroupSize, out)

StateDict(layers, tp) ==
    [x \in UNION {{<<n, s>> : s \in ParamNames(layers[n])} : n \in DOMAIN layers} |->
        CreateWeight(layers[x[1]], x[2], tp)]

----------------------------------------------------------------------------
(* Loading.                                                                 *)

padded_vocab(n) == ((n + VocabPad - 1) \div VocabPad) * VocabPad

load_padded_tensor_parallel_vocab(p, w, r) ==
    LET shard == Len(p.rows)
    IN CopyInto(p, 0, RowSlice(w, r * shard, (r + 1) * shard))

\* Names outside both lists are loaded whole.
load_tensor_parallel_weights(p, w, x, column, row, r) ==
    LET shard == IF x \in column THEN RowSlice(w, r * Len(p.rows), (r + 1) * Len(p.rows))
                 ELSE IF x \in row THEN ColSlice(w, r * Len(p.cols), (r + 1) * Len(p.cols))
                 ELSE w
    IN IF Shape(p) = Shape(shard) THEN shard ELSE Error

----------------------------------------------------------------------------
(* Computing with the weights P of a rank.                                  *)

\* The output rows (input columns) a layer multiplies with, as labels: of a
\* quantized layer the words, zero points and scales must be of the same ones.
OutLabels(P, n, quant) ==
    IF ~quant THEN P[<<n, "weight">>].rows
    ELSE LET scales == P[<<n, "scales">>].cols
         IN IF /\ FlattenSeq(P[<<n, "qweight">>].cols) = scales
               /\ FlattenSeq(P[<<n, "qzeros">>].cols) = scales
            THEN scales ELSE [i \in DOMAIN scales |-> <<"mixed">>]

InLabels(P, n, quant) ==
    IF ~quant THEN P[<<n, "weight">>].cols
    ELSE LET words == P[<<n, "qweight">>].rows
         IN IF /\ FlattenSeq(P[<<n, "scales">>].rows) = words
               /\ FlattenSeq(P[<<n, "qzeros">>].rows) = words
            THEN words ELSE [i \in DOMAIN words |-> <<"mixed">>]

\* x A + b of a column-parallel or replicated layer: each row with its bias.
Project(P, n, l) ==
    LET rows == OutLabels(P, n, l.quant)
    IN [j \in DOMAIN rows |->
          <<rows[j], IF l.bias THEN P[<<n, "bias">>].rows[j] ELSE <<"no bias">> >>]

\* What the ranks sum is a bag of terms.
Plus(x, y) == [r \in DOMAIN x |-> x[r] (+) y[r]]
Normed(name, x) == [r \in DOMAIN x |-> SetToBag({<< <<"norm", name>>, x[r]>>})]

all_reduce(x, tp) ==
    IF tp = 1 THEN x
    ELSE LET sum[n \in 0 .. tp] == IF n = 0 THEN EmptyBag ELSE sum[n - 1] (+) x[n - 1]
         IN [r \in DOMAIN x |-> sum[tp]]

all_gather(x, tp) == FlattenSeq([i \in 1 .. tp |-> x[i - 1]])

\* The partial sums of a rank: which input meets which column of A, and the
\* residual stream the input was computed from.
PartialSums(P, n, l, x, read) ==
    LET cols == InLabels(P, n, l.quant)
    IN ToBag([j \in DOMAIN cols |-> <<cols[j], x[j], read>>])

BiasTerms(P, n, l) ==
    IF l.bias THEN SetToBag({<< <<"bias", "added">>, P[<<n, "bias">>].rows>>}) ELSE EmptyBag

\* Variant: every rank adds the bias before the reduction.
RowForwardBiasFirst(P, n, l, x, read, tp) ==
    LET partial == [r \in DOMAIN x |->
            PartialSums(P[r], n, l, x[r], read[r])
                (+) (IF l.skipBias THEN EmptyBag ELSE BiasTerms(P[r], n, l))]
    IN IF l.reduce THEN all_reduce(partial, tp) ELSE partial

\* RowParallelLinear.forward: reduced over the ranks, then the bias, once.
RowForward(P, n, l, x, read, tp) ==
    LET partial == [r \in DOMAIN x |-> PartialSums(P[r], n, l, x[r], read[r])]
        sum == IF l.reduce THEN all_reduce(partial, tp) ELSE partial
    IN [r \in DOMAIN x |-> sum[r] (+) (IF l.skipBias THEN EmptyBag ELSE BiasTerms(P[r], n, l))]

\* silu of the first half times the second half.
SiluAndMul(x) ==
    LET d == Len(x) \div 2 IN [i \in 1 .. d |-> <<x[i], x[d + i]>>]

\* Query head h reads key/value head h \div (heads \div kv); a slope for ALiBi.
PagedAttention(q, k, v, heads, kv, slopes) ==
    LET head(s, h) == SubSeq(s, h * HeadDim + 1, (h + 1) * HeadDim)
        kvHead(h) == h \div (heads \div kv)
    IN FlattenSeq([i \in 1 .. heads |->
         LET h == i - 1
         IN [d \in 1 .. HeadDim |->
               [q |-> head(q, h), k |-> head(k, kvHead(h)),
                v |-> head(v, kvHead(h))[d], slope |-> slopes[i]]]])

\* VocabParallelEmbedding.forward of one token.
EmbeddingForward(P, n, tp, token) ==
    LET rows(r) == P[r][<<n, "weight">>].rows
        first(r) == r * Len(rows(r))
        mine(r) == token >= first(r) /\ token < first(r) + Len(rows(r))
        partial == [r \in DOMAIN P |->
            IF tp > 1 /\ ~mine(r) THEN EmptyBag
            ELSE SetToBag({<<rows(r)[token - first(r) + 1], "embedding">>})]
    IN all_reduce(partial, tp)
=============================================================================
