------------------------- MODULE ModelExecutionProofs -------------------------
(***************************************************************************)
(* Proofs about ModelExecution, for every batch, every vocabulary and      *)
(* every number of ranks.                                                  *)
(***************************************************************************)
EXTENDS ModelExecution, DataLemmas

-----------------------------------------------------------------------------
(* Batches.                                                                *)

\* What the scheduler hands over is a sequence of requests.
LEMMA ScheduledFacts ==
    ASSUME NEW b \in Batches
    PROVE  /\ Scheduled(b) \in Seq(Range(Scheduled(b)))
           /\ Len(Scheduled(b)) \in Nat
           /\ DOMAIN Scheduled(b) = 1..Len(Scheduled(b))
           /\ \A i \in DOMAIN Scheduled(b) : Scheduled(b)[i].type \in {"greedy", "random"}
<1> DEFINE w == b.waiting
           r == b.running
           s == b.swapped
           T == Range(w) \cup Range(r) \cup Range(s)
           all == Scheduled(b)
<1>1. /\ w \in Seq(Range(w)) /\ r \in Seq(Range(r)) /\ s \in Seq(Range(s))
      /\ \A g \in T : g.type \in {"greedy", "random"}
  BY BatchAssumption
<1>2. all = w \o r \o s
  BY DEF Scheduled
<1> HIDE DEF w, r, s, all
<1>3. w \in Seq(T) /\ r \in Seq(T) /\ s \in Seq(T)
  BY <1>1
<1> HIDE DEF T
<1>4. all \in Seq(T)
  BY <1>2, <1>3, ConcatProperties
<1>5. Len(all) \in Nat /\ DOMAIN all = 1..Len(all) /\ \A i \in DOMAIN all : all[i] \in T
  BY <1>4, LenProperties, ElementOfSeq
<1>6. all \in Seq(Range(all))
  <2>1. all = [i \in 1..Len(all) |-> all[i]]
    BY <1>4
  <2>2. \A i \in 1..Len(all) : all[i] \in Range(all)
    BY <1>5 DEF Range
  <2> QED
    BY <1>5, <2>1, <2>2
<1> QED
  BY <1>1, <1>5, <1>6 DEF all

\* The elements of s at some of its places
LEMMA AtFacts ==
    ASSUME NEW S, NEW s \in Seq(S), NEW places \in SUBSET (DOMAIN s)
    PROVE  /\ IsFiniteSet(places)
           /\ places \in SUBSET Int
           /\ At(s, places) \in Seq(S)
           /\ Len(At(s, places)) = Cardinality(places)
           /\ Cardinality(places) \in Nat
           /\ \A k \in 1..Cardinality(places) :
                 Ascending(places)[k] \in places /\ At(s, places)[k] = s[Ascending(places)[k]]
           /\ \A j \in places : \E k \in 1..Cardinality(places) : At(s, places)[k] = s[j]
<1> DEFINE order == Ascending(places)
           a == At(s, places)
           n == Cardinality(places)
<1>1. Len(s) \in Nat /\ DOMAIN s = 1..Len(s) /\ \A i \in DOMAIN s : s[i] \in S
  BY LenProperties, ElementOfSeq
<1>2. places \in SUBSET Int /\ IsFiniteSet(places) /\ n \in Nat
  <2>1. places \in SUBSET (1..Len(s)) /\ IsFiniteSet(1..Len(s))
    BY <1>1, FS_Interval
  <2>2. IsFiniteSet(places)
    BY <2>1, FS_Subset
  <2> QED
    BY <1>1, <2>2, FS_CardinalityType
<1>3. /\ order \in Seq(places) /\ Len(order) = n /\ ToSet(order) = places
  BY <1>2, AscendingFacts
<1>4. a = [k \in DOMAIN order |-> s[order[k]]]
  BY DEF At
<1> HIDE DEF order, a, n
<1>5. DOMAIN order = 1..n /\ \A k \in 1..n : order[k] \in places
  BY <1>3, LenProperties, ElementOfSeq
<1>6. a \in [1..n -> S]
  BY <1>1, <1>4, <1>5
<1>7. a \in Seq(S) /\ Len(a) = n /\ DOMAIN a = 1..n
  BY <1>2, <1>6
<1>8. ASSUME NEW j \in places PROVE \E k \in 1..n : a[k] = s[j]
  <2>1. PICK k \in DOMAIN order : order[k] = j
    BY <1>3 DEF ToSet
  <2> QED
    BY <1>4, <1>5, <1>7, <2>1
<1>9. \A k \in 1..n : order[k] \in places /\ a[k] = s[order[k]]
  BY <1>4, <1>5
<1> QED
  BY <1>2, <1>7, <1>8, <1>9 DEF order, a, n

\* Prompts come first in the order of the scheduler too: _prepare_inputs
\* keeps the order of the requests that run.
LEMMA GroupsInOrder ==
    ASSUME NEW b \in Batches
    PROVE  /\ SeqGroups(b) = At(Scheduled(b), Running(b))
           /\ Running(b) \in SUBSET (DOMAIN Scheduled(b))
<1> DEFINE all == Scheduled(b)
           R == Running(b)
           A == {i \in R : IsPrompt(b, i)}
           B == R \ A
           p == Ascending(A)
           q == Ascending(B)
<1>1. all \in Seq(Range(all)) /\ DOMAIN all = 1..Len(all) /\ Len(all) \in Nat
  BY ScheduledFacts
<1>2. R \in SUBSET (DOMAIN all)
  BY DEF Running
<1>3. A \in SUBSET (DOMAIN all) /\ B \in SUBSET (DOMAIN all) /\ A \cup B = R
  BY <1>2
<1>4. \A i \in A, j \in B : i < j
  <2>1. Len(b.waiting) \in Nat
    BY BatchAssumption, LenProperties
  <2>2. \A i \in A, j \in B : i <= Len(b.waiting) /\ ~(j <= Len(b.waiting)) /\ i \in Int /\ j \in Int
    BY <1>1, <1>3 DEF IsPrompt
  <2> QED
    BY <2>1, <2>2
<1>5. SeqGroups(b) = At(all, A) \o At(all, B)
  BY DEF SeqGroups
<1> HIDE DEF all, R, A, B
<1>6. /\ IsFiniteSet(A) /\ A \in SUBSET Int /\ IsFiniteSet(B) /\ B \in SUBSET Int
  BY <1>1, <1>3, AtFacts
<1>7. Ascending(R) = p \o q
  BY <1>3, <1>4, <1>6, AscendingUnion
<1>8. p \in Seq(A) /\ q \in Seq(B) /\ p \in Seq(R) /\ q \in Seq(R)
  BY <1>3, <1>6, AscendingFacts
<1>9. /\ Len(p) \in Nat /\ DOMAIN p = 1..Len(p) /\ \A k \in 1..Len(p) : p[k] \in DOMAIN all
      /\ Len(q) \in Nat /\ DOMAIN q = 1..Len(q) /\ \A k \in 1..Len(q) : q[k] \in DOMAIN all
  BY <1>2, <1>8, LenProperties, ElementOfSeq
<1> DEFINE fp == [k \in DOMAIN p |-> all[p[k]]]
           fq == [k \in DOMAIN q |-> all[q[k]]]
           pq == p \o q
           f == [k \in DOMAIN pq |-> all[pq[k]]]
<1>10. /\ pq \in Seq(R) /\ Len(pq) = Len(p) + Len(q) /\ DOMAIN pq = 1..(Len(p) + Len(q))
       /\ \A k \in 1..(Len(p) + Len(q)) : pq[k] = IF k <= Len(p) THEN p[k] ELSE q[k - Len(p)]
  <2>1. /\ pq \in Seq(R) /\ Len(pq) = Len(p) + Len(q)
        /\ \A k \in 1..(Len(p) + Len(q)) : pq[k] = IF k <= Len(p) THEN p[k] ELSE q[k - Len(p)]
    BY <1>8, ConcatProperties
  <2> HIDE DEF pq
  <2> QED
    BY <2>1, LenProperties
<1>11. /\ fp \in Seq(Range(all)) /\ Len(fp) = Len(p)
       /\ fq \in Seq(Range(all)) /\ Len(fq) = Len(q)
  <2>1. \A i \in DOMAIN all : all[i] \in Range(all)
    BY DEF Range
  <2>2. fp \in [1..Len(p) -> Range(all)] /\ fq \in [1..Len(q) -> Range(all)]
    BY <1>9, <2>1
  <2> QED
    BY <1>9, <2>2
<1>12. fp \o fq = f
  <2> DEFINE g == fp \o fq
  <2>1. /\ g \in Seq(Range(all)) /\ Len(g) = Len(p) + Len(q)
        /\ \A k \in 1..(Len(p) + Len(q)) : g[k] = IF k <= Len(p) THEN fp[k] ELSE fq[k - Len(p)]
    <3> DEFINE T == Range(all)
    <3>1. fp \in Seq(T) /\ fq \in Seq(T) /\ Len(fp) = Len(p) /\ Len(fq) = Len(q)
      BY <1>11
    <3> HIDE DEF fp, fq, T
    <3>2. g \in Seq(T) /\ Len(g) = Len(fp) + Len(fq)
          /\ \A k \in 1..(Len(fp) + Len(fq)) : g[k] = IF k <= Len(fp) THEN fp[k] ELSE fq[k - Len(fp)]
      BY <3>1, ConcatProperties
    <3> HIDE DEF g
    <3> QED
      BY <3>1, <3>2 DEF T
  <2> HIDE DEF g
  <2>2. DOMAIN g = 1..(Len(p) + Len(q)) /\ g = [k \in 1..(Len(p) + Len(q)) |-> g[k]]
    BY <1>9, <2>1, LenProperties
  <2> HIDE DEF pq
  <2>3. ASSUME NEW k \in 1..(Len(p) + Len(q)) PROVE g[k] = all[pq[k]]
    <3>1. CASE k <= Len(p)
      <4>1. k \in 1..Len(p)
        BY <1>9, <3>1
      <4>2. g[k] = fp[k] /\ pq[k] = p[k]
        BY <1>10, <2>1, <3>1
      <4> QED
        BY <1>9, <4>1, <4>2
    <3>2. CASE Len(p) < k
      <4>1. k - Len(p) \in 1..Len(q) /\ ~(k <= Len(p))
        BY <1>9, <3>2
      <4> QED
        BY <1>9, <1>10, <2>1, <4>1
    <3> QED
      BY <1>9, <3>1, <3>2
  <2>4. g = f
    BY <1>10, <2>2, <2>3
  <2> QED
    BY <2>4 DEF g
<1>13. At(all, A) = fp /\ At(all, B) = fq /\ At(all, R) = f
  BY <1>7 DEF At
<1> QED
  BY <1>2, <1>5, <1>12, <1>13 DEF all, R

\* The sampler answers each group with a sample of its own.
LEMMA SampledFacts ==
    ASSUME NEW S, NEW groups \in Seq(S),
           \A i \in DOMAIN groups : groups[i].type \in {"greedy", "random"}
    PROVE  /\ Sampled(groups) \in Seq(Range(Sampled(groups)))
           /\ Len(Sampled(groups)) = Len(groups)
           /\ \A i \in DOMAIN groups : Sampled(groups)[i].id = groups[i].id
<1> DEFINE D == DOMAIN groups
           G == {i \in D : groups[i].type = SamplingTypes[1]}
           H == {i \in D : groups[i].type = SamplingTypes[2]}
           p == Ascending(G)
           q == Ascending(H)
           order == Categorized(groups)
           s == Sampled(groups)
<1>1. Len(groups) \in Nat /\ D = 1..Len(groups)
  BY LenProperties
<1>2. order = p \o q
  BY DEF Categorized
<1>3. G \cup H = D
  BY DEF SamplingTypes
<1> HIDE DEF G, H, D
<1>4. G \in SUBSET D /\ H \in SUBSET D
  BY <1>3
<1>5. IsFiniteSet(G) /\ G \in SUBSET Int /\ IsFiniteSet(H) /\ H \in SUBSET Int
  <2>1. G \in SUBSET (DOMAIN groups) /\ H \in SUBSET (DOMAIN groups)
    BY <1>4 DEF D
  <2> QED
    BY <2>1, AtFacts
<1>6. /\ p \in Seq(G) /\ ToSet(p) = G /\ q \in Seq(H) /\ ToSet(q) = H
  BY <1>5, AscendingFacts
<1> HIDE DEF p, q
<1>7. p \in Seq(D) /\ q \in Seq(D)
  BY <1>4, <1>6
<1> HIDE DEF order, s
<1>8. /\ Len(p) \in Nat /\ DOMAIN p = 1..Len(p) /\ Len(q) \in Nat /\ DOMAIN q = 1..Len(q)
      /\ DOMAIN order = 1..(Len(p) + Len(q))
      /\ \A k \in 1..(Len(p) + Len(q)) : order[k] = IF k <= Len(p) THEN p[k] ELSE q[k - Len(p)]
  <2>1. order \in Seq(D) /\ Len(order) = Len(p) + Len(q)
    BY <1>2, <1>7, ConcatProperties
  <2>2. \A k \in 1..(Len(p) + Len(q)) : order[k] = IF k <= Len(p) THEN p[k] ELSE q[k - Len(p)]
    BY <1>2, <1>7, ConcatProperties
  <2> QED
    BY <1>7, <2>1, <2>2, LenProperties
<1>9. ASSUME NEW i \in D PROVE \E j \in DOMAIN order : order[j] = i
  <2>1. CASE i \in G
    <3>1. PICK k \in 1..Len(p) : p[k] = i
      BY <1>6, <1>8, <2>1 DEF ToSet
    <3>2. k \in 1..(Len(p) + Len(q)) /\ k <= Len(p)
      BY <1>8
    <3> QED
      BY <1>8, <3>1, <3>2
  <2>2. CASE i \in H
    <3>1. PICK k \in 1..Len(q) : q[k] = i
      BY <1>6, <1>8, <2>2 DEF ToSet
    <3>2. k + Len(p) \in 1..(Len(p) + Len(q)) /\ ~(k + Len(p) <= Len(p))
          /\ (k + Len(p)) - Len(p) = k
      BY <1>8
    <3> QED
      BY <1>8, <3>1, <3>2
  <2> QED
    BY <1>3, <2>1, <2>2
<1> DEFINE place(i) == CHOOSE j \in DOMAIN order : order[j] = i
           sample(j) == [id |-> groups[order[j]].id, type |-> groups[order[j]].type]
<1>10. s = [i \in D |-> sample(place(i))]
  BY DEF s, Sampled, D, order
<1>11. \A i \in D : order[place(i)] = i
  BY <1>9
<1> HIDE DEF place
<1>12. DOMAIN s = 1..Len(groups) /\ \A i \in D : s[i] = sample(place(i))
  BY <1>1, <1>10
<1>13. \A i \in D : s[i].id = groups[i].id
  <2> TAKE i \in D
  <2>1. order[place(i)] = i
    BY <1>11
  <2>2. sample(place(i)).id = groups[i].id
    BY <2>1
  <2> HIDE DEF sample
  <2> QED
    BY <1>12, <2>2
<1>14. s \in [1..Len(groups) -> Range(s)]
  <2>1. \A i \in DOMAIN s : s[i] \in Range(s)
    BY DEF Range
  <2>2. s = [i \in 1..Len(groups) |-> s[i]]
    BY <1>1, <1>10
  <2> QED
    BY <1>12, <2>1, <2>2
<1>15. s \in Seq(Range(s)) /\ Len(s) = Len(groups)
  BY <1>1, <1>14
<1> QED
  BY <1>13, <1>15 DEF s, D

\* One step of the workers and the processing of its outputs
LEMMA ZippedFacts ==
    ASSUME NEW b \in Batches
    PROVE  /\ Len(Zipped(b)) = Cardinality(Running(b))
           /\ {Zipped(b)[i][1] : i \in DOMAIN Zipped(b)} = {Scheduled(b)[j] : j \in Running(b)}
           /\ \A i \in DOMAIN Zipped(b) : Zipped(b)[i][1].id = Zipped(b)[i][2].id
<1> DEFINE all == Scheduled(b)
           R == Running(b)
           n == Cardinality(R)
           w == At(all, R)
           s == Sampled(w)
           z == Zipped(b)
<1>1. /\ all \in Seq(Range(all)) /\ DOMAIN all = 1..Len(all)
      /\ \A i \in DOMAIN all : all[i].type \in {"greedy", "random"}
  BY ScheduledFacts
<1>2. SeqGroups(b) = w /\ R \in SUBSET (DOMAIN all)
  BY GroupsInOrder
<1>3. z = [i \in 1..Min({Len(w), Len(s)}) |-> <<w[i], s[i]>>]
  BY <1>2 DEF Zipped
<1> HIDE DEF all, R, z
<1>4. /\ w \in Seq(Range(all)) /\ Len(w) = n /\ n \in Nat
      /\ \A k \in 1..n : Ascending(R)[k] \in R /\ w[k] = all[Ascending(R)[k]]
      /\ \A j \in R : \E k \in 1..n : w[k] = all[j]
  <2> DEFINE T == Range(all)
  <2>1. all \in Seq(T)
    BY <1>1
  <2> HIDE DEF T
  <2>2. w \in Seq(T) /\ Len(w) = n /\ n \in Nat
    BY <1>2, <2>1, AtFacts
  <2>3. \A k \in 1..n : Ascending(R)[k] \in R /\ w[k] = all[Ascending(R)[k]]
    BY <1>2, <2>1, AtFacts
  <2>4. \A j \in R : \E k \in 1..n : w[k] = all[j]
    BY <1>2, <2>1, AtFacts
  <2> QED
    BY <2>2, <2>3, <2>4 DEF T
<1> HIDE DEF w, s, n
<1>5. DOMAIN w = 1..n
  BY <1>4, LenProperties
<1>6. \A k \in DOMAIN w : w[k].type \in {"greedy", "random"}
  BY <1>1, <1>2, <1>4, <1>5
<1>7. Len(s) = n /\ \A k \in 1..n : s[k].id = w[k].id
  BY <1>4, <1>5, <1>6, SampledFacts DEF s
<1>8. Min({Len(w), Len(s)}) = n
  <2>1. {Len(w), Len(s)} = {n}
    BY <1>4, <1>7
  <2>2. Min({n}) = n
    BY <1>4 DEF Min
  <2> QED
    BY <2>1, <2>2
<1>9. z = [i \in 1..n |-> <<w[i], s[i]>>]
  BY <1>3, <1>8
<1>10. Len(z) = n /\ DOMAIN z = 1..n
  BY <1>4, <1>9
<1>11. \A i \in 1..n : z[i][1] = w[i] /\ z[i][2] = s[i]
  BY <1>9
<1>12. {z[i][1] : i \in DOMAIN z} = {all[j] : j \in R}
  <2>1. \A i \in DOMAIN z : \E j \in R : z[i][1] = all[j]
    BY <1>4, <1>10, <1>11
  <2>2. \A j \in R : \E i \in DOMAIN z : z[i][1] = all[j]
    BY <1>4, <1>10, <1>11
  <2> QED
    BY <2>1, <2>2
<1>13. \A i \in DOMAIN z : z[i][1].id = z[i][2].id
  BY <1>7, <1>10, <1>11
<1> QED
  BY <1>10, <1>12, <1>13 DEF z, all, R, n

\* What the outputs are as long as the model serves
ServedInv == status = "serving" => \E b \in Batches : outputs = Zipped(b)

\* ServedInv is inductive.
LEMMA ServedInvariant == Spec => []ServedInv
<1>1. Init => ServedInv
  BY DEF Init, ServedInv
<1>2. ServedInv /\ [Next]_vars => ServedInv'
  <2> SUFFICES ASSUME ServedInv, [Next]_vars PROVE ServedInv'
    OBVIOUS
  <2>1. CASE \E b \in Batches : Execute(b)
    <3>1. PICK b \in Batches : outputs' = Zipped(b)
      BY <2>1 DEF Execute
    <3> QED
      BY <3>1 DEF ServedInv
  <2>2. CASE UNCHANGED vars
    BY <2>2 DEF vars, ServedInv
  <2>3. CASE BuildModel \/ RefuseModel \/ LoadTensor \/ LoadMismatch \/ Profile
             \/ InitCache \/ NoCache \/ ExecuteTypeError
    <3>1. status' # "serving"
      BY <2>3 DEF BuildModel, RefuseModel, LoadTensor, LoadMismatch, Profile, InitCache,
                  NoCache, ExecuteTypeError, Fail
    <3> QED
      BY <3>1 DEF ServedInv
  <2> QED
    BY <2>1, <2>2, <2>3 DEF Next
<1> QED
  BY <1>1, <1>2, PTL DEF Spec

\* Every scheduled request that runs gets one sample, its own, whatever the
\* batch, its sampling types and the requests in it that only swap.
THEOREM SamplesReachRequests == Spec => []OutputsReachTheirRequest
<1>1. ServedInv => OutputsReachTheirRequest
  <2> SUFFICES ASSUME ServedInv, status = "serving" PROVE OutputsReachTheirRequest
    BY DEF OutputsReachTheirRequest
  <2>1. PICK b \in Batches : outputs = Zipped(b)
    BY DEF ServedInv
  <2> QED
    BY <2>1, ZippedFacts DEF OutputsReachTheirRequest
<1> QED
  BY <1>1, ServedInvariant, PTL
-----------------------------------------------------------------------------
(* The key/value heads of the cache.                                       *)

\* The maximum of two numbers, as llama.py takes it
LEMMA MaxFacts ==
    ASSUME NEW n \in Nat
    PROVE  Max({1, n}) = IF n > 0 THEN n ELSE 1
<1>1. \E x \in {1, n} : \A y \in {1, n} : x >= y
  <2>1. CASE n > 0
    BY <2>1
  <2>2. CASE n = 0
    BY <2>2
  <2> QED
    BY <2>1, <2>2
<1>2. Max({1, n}) \in {1, n} /\ \A y \in {1, n} : Max({1, n}) >= y
  BY <1>1 DEF Max
<1> QED
  BY <1>2

\* What the configuration says of an architecture
LEMMA ConfigFacts ==
    ASSUME NEW c \in Configs
    PROVE  /\ c.tp \in Nat \ {0} /\ c.heads \in Nat \ {0}
           /\ c.kv \in Nat \ {0} /\ c.vocab \in Nat \ {0}
           /\ c.heads \div c.tp \in Nat /\ c.kv \div c.tp \in Nat
<1>1. /\ c.tp \in Nat \ {0} /\ c.heads \in Nat \ {0}
      /\ c.kv \in Nat \ {0} /\ c.vocab \in Nat \ {0}
  BY ConfigAssumption
<1>2. \A m \in Nat, n \in Nat \ {0} : m \div n \in Nat
  OBVIOUS
<1> QED
  BY <1>1, <1>2

\* get_num_kv_heads counts the heads of the model's attention, but for a falcon
\* with as many key/value heads as heads.
LEMMA KvHeadsAgree ==
    ASSUME NEW c \in Configs, get_num_kv_heads(c) > 0,
           ~(c.arch = "falcon" /\ c.variant = "mha")
    PROVE  AttentionOf(c).kv = get_num_kv_heads(c)
<1>1. /\ c.tp \in Nat \ {0} /\ c.heads \in Nat \ {0} /\ c.kv \in Nat \ {0}
      /\ c.heads \div c.tp \in Nat /\ c.kv \div c.tp \in Nat
  BY ConfigFacts
<1>2. CASE c.arch = "llama"
  <2>1. get_num_kv_heads(c) = c.kv \div c.tp
    BY <1>2 DEF get_num_kv_heads
  <2>2. AttentionOf(c) = LlamaAttention(c)
    BY <1>2 DEF AttentionOf
  <2>3. LlamaAttention(c).kv = Max({1, c.kv \div c.tp})
    BY DEF LlamaAttention, Attention
  <2> QED
    BY <1>1, <2>1, <2>2, <2>3, MaxFacts
<1>3. CASE c.arch = "mistral"
  <2>1. get_num_kv_heads(c) = c.kv \div c.tp
    BY <1>3 DEF get_num_kv_heads
  <2>2. AttentionOf(c) = MistralAttention(c)
    BY <1>3 DEF AttentionOf
  <2> QED
    BY <2>1, <2>2 DEF MistralAttention, Attention
<1>4. CASE c.arch \in {"aquila", "internlm", "baichuan", "qwen", "gpt_neox", "bloom", "mpt",
                      "gpt2", "gpt_j", "opt"}
  <2>1. get_num_kv_heads(c) = c.kv \div c.tp /\ c.kv = c.heads
    BY <1>4, ConfigAssumption DEF get_num_kv_heads
  <2>2. AttentionOf(c).kv = HeadsPerRank(c)
    BY <1>4 DEF AttentionOf, AquilaAttention, InternLMAttention, BaiChuanAttention, QWenAttention,
                GPTNeoXAttention, BloomAttention, MPTAttention, GPT2Attention, GPTJAttention,
                OPTAttention, FusedAttention, Attention
  <2> QED
    BY <2>1, <2>2 DEF HeadsPerRank
<1>5. CASE c.arch = "falcon"
  <2>1. AttentionOf(c) = FalconAttention(c)
    BY <1>5 DEF AttentionOf
  <2>2. FalconAttention(c).kv = IF FalconIsMultiQuery(c) THEN 1 ELSE FalconTotalKv(c) \div c.tp
    BY DEF FalconAttention, Attention
  <2>3. c.variant = "new" \/ c.variant = "multi_query"
    BY <1>5, ConfigAssumption
  <2>4. get_num_kv_heads(c) = IF c.variant = "multi_query" THEN 1 ELSE c.kv \div c.tp
    BY <1>5, <2>3 DEF get_num_kv_heads
  <2> QED
    BY <2>1, <2>2, <2>3, <2>4 DEF FalconIsMultiQuery, FalconTotalKv, FalconIsNew
<1>6. CASE c.arch = "gpt_bigcode"
  <2>1. AttentionOf(c) = GPTBigCodeAttention(c)
    BY <1>6 DEF AttentionOf
  <2>2. GPTBigCodeAttention(c).kv = IF c.variant = "multi_query" THEN 1 ELSE HeadsPerRank(c)
    BY DEF GPTBigCodeAttention, Attention
  <2>3. \/ c.variant = "mha" /\ c.kv = c.heads
        \/ c.variant = "multi_query"
    BY <1>6, ConfigAssumption
  <2>4. get_num_kv_heads(c) = IF c.variant = "multi_query" THEN 1 ELSE c.kv \div c.tp
    BY <1>6, <2>3 DEF get_num_kv_heads
  <2> QED
    BY <2>1, <2>2, <2>3, <2>4 DEF HeadsPerRank
<1> QED
  BY <1>2, <1>3, <1>4, <1>5, <1>6, ConfigAssumption DEF Architectures

\* Only four models take the swap maps of the worker.
LEMMA SwapTakers ==
    ASSUME NEW c \in Configs, LMOf(c).takesSwaps
    PROVE  c.arch \in {"llama", "baichuan", "gpt_j", "opt"}
<1>1. SUFFICES ASSUME c.arch \in Architectures \ {"llama", "baichuan", "gpt_j", "opt"} PROVE FALSE
  BY ConfigAssumption
<1>2. CASE c.arch \in {"mistral", "aquila", "internlm", "qwen", "falcon", "gpt_neox", "mpt"}
  BY <1>2 DEF LMOf, LM, MistralForCausalLM, AquilaForCausalLM, InternLMForCausalLM,
              QWenLMHeadModel, FalconForCausalLM, GPTNeoXForCausalLM, MPTForCausalLM
<1>3. CASE c.arch \in {"gpt_bigcode", "gpt2", "bloom"}
  BY <1>3 DEF LMOf, LM, WithPositions, GPTBigCodeForCausalLM, GPT2LMHeadModel, BloomForCausalLM
<1> QED
  BY <1>1, <1>2, <1>3 DEF Architectures

\* The statuses of a model that is built
Built == {"loading", "loaded", "ready", "serving"}

\* What is known of the model object and of the cache
CacheInv ==
    /\ config \in Configs
    /\ status \in Built => model = Model(config)
    /\ status \in {"ready", "serving"} =>
          cacheHeads = get_num_kv_heads(config) /\ get_num_kv_heads(config) > 0
    /\ status = "serving" => model.lm.takesSwaps

\* CacheInv is inductive.
LEMMA CacheInvariant == Spec => []CacheInv
<1>1. Init => CacheInv
  BY DEF Init, CacheInv, Built
<1>2. CacheInv /\ [Next]_vars => CacheInv'
  <2> SUFFICES ASSUME CacheInv, [Next]_vars PROVE CacheInv'
    OBVIOUS
  <2> USE DEF CacheInv, Built
  <2>1. CASE BuildModel
    BY <2>1 DEF BuildModel
  <2>2. CASE RefuseModel \/ LoadMismatch \/ NoCache \/ ExecuteTypeError
    BY <2>2 DEF RefuseModel, LoadMismatch, NoCache, ExecuteTypeError, Fail
  <2>3. CASE LoadTensor
    BY <2>3 DEF LoadTensor
  <2>4. CASE Profile
    BY <2>4 DEF Profile
  <2>5. CASE InitCache
    <3>1. status' = "ready" /\ UNCHANGED <<config, model>> /\ status = "loaded"
          /\ cacheHeads' = get_num_kv_heads(config) /\ get_num_kv_heads(config) > 0
      BY <2>5 DEF InitCache
    <3>2. get_num_kv_heads(config)' = get_num_kv_heads(config)
      BY <3>1 DEF get_num_kv_heads
    <3>3. Model(config)' = Model(config)
      BY <3>1
    <3> QED
      BY <3>1, <3>2, <3>3
  <2>6. ASSUME NEW b \in Batches, Execute(b) PROVE CacheInv'
    BY <2>6 DEF Execute
  <2>7. CASE UNCHANGED vars
    BY <2>7 DEF vars
  <2> QED
    BY <2>1, <2>2, <2>3, <2>4, <2>5, <2>6, <2>7 DEF Next
<1> QED
  BY <1>1, <1>2, PTL DEF Spec

\* The cache has the heads of the attention, whether the model will serve or
\* its forward refuses the swap maps.  RWConfig gives a falcon without n_head_kv
\* one head, where the attention takes them all.
CacheSized ==
    status \in {"ready", "serving"} /\ ~(config.arch = "falcon" /\ config.variant = "mha") =>
        cacheHeads = model.attention.kv

\* The cache of every model but one kind of falcon has the size of its attention
\* as soon as it is allocated (get_num_kv_heads against the models).
THEOREM CacheFitsEveryModel == Spec => []CacheSized
<1>1. CacheInv => CacheSized
  <2> SUFFICES ASSUME CacheInv, status \in {"ready", "serving"},
                      ~(config.arch = "falcon" /\ config.variant = "mha")
               PROVE  cacheHeads = model.attention.kv
    BY DEF CacheSized
  <2>1. /\ config \in Configs /\ model = Model(config)
        /\ cacheHeads = get_num_kv_heads(config) /\ get_num_kv_heads(config) > 0
    BY DEF CacheInv, Built
  <2>2. model.attention = AttentionOf(config)
    BY <2>1 DEF Model
  <2> QED
    BY <2>1, <2>2, KvHeadsAgree
<1> QED
  BY <1>1, CacheInvariant, PTL

\* The blocks of a serving model's cache have room for exactly the key/value
\* heads its attention writes there: that falcon never serves.
THEOREM CacheFits == Spec => []CacheFitsAttention
<1>1. CacheInv /\ CacheSized => CacheFitsAttention
  <2> SUFFICES ASSUME CacheInv, CacheSized, status = "serving"
               PROVE  cacheHeads = model.attention.kv
    BY DEF CacheFitsAttention
  <2>1. /\ config \in Configs /\ model = Model(config) /\ model.lm.takesSwaps
    BY DEF CacheInv, Built
  <2>2. LMOf(config).takesSwaps
    BY <2>1 DEF Model
  <2>3. config.arch # "falcon"
    BY <2>1, <2>2, SwapTakers
  <2> QED
    BY <2>3 DEF CacheSized
<1> QED
  BY <1>1, CacheInvariant, CacheFitsEveryModel, PTL

-----------------------------------------------------------------------------
(* Slices, and pieces of equal size side by side.                          *)

\* The smaller of two numbers
LEMMA MinFacts ==
    ASSUME NEW m \in Int, NEW n \in Int
    PROVE  Min({m, n}) = IF m <= n THEN m ELSE n
<1>1. \E x \in {m, n} : \A y \in {m, n} : x <= y
  <2>1. CASE m <= n
    BY <2>1
  <2>2. CASE ~(m <= n)
    BY <2>2
  <2> QED
    BY <2>1, <2>2
<1>2. Min({m, n}) \in {m, n} /\ \A y \in {m, n} : Min({m, n}) <= y
  BY <1>1 DEF Min
<1> QED
  BY <1>2

\* s[from:to] of Python, for a sequence of length n
SliceLen(n, from, to) == IF to <= n THEN to - from ELSE IF from <= n THEN n - from ELSE 0

\* What a slice holds
LEMMA SliceFacts ==
    ASSUME NEW S, NEW s \in Seq(S), NEW from \in Nat, NEW to \in Nat, from <= to
    PROVE  /\ Slice(s, from, to) \in Seq(S)
           /\ SliceLen(Len(s), from, to) \in Nat
           /\ Len(Slice(s, from, to)) = SliceLen(Len(s), from, to)
           /\ \A i \in 1..SliceLen(Len(s), from, to) : Slice(s, from, to)[i] = s[from + i]
<1> DEFINE n == SliceLen(Len(s), from, to)
           last == Min({to, Len(s)})
           q == SubSeq(s, from + 1, last)
<1>1. Len(s) \in Nat /\ \A i \in 1..Len(s) : s[i] \in S
  BY LenProperties, ElementOfSeq
<1>2. last = IF to <= Len(s) THEN to ELSE Len(s)
  BY <1>1, MinFacts
<1>3. last \in Int /\ last <= Len(s) /\ n \in Nat /\ n = IF from + 1 <= last THEN last - from ELSE 0
  BY <1>1, <1>2 DEF SliceLen
<1> HIDE DEF n, last
<1>4. /\ q \in Seq(S)
      /\ Len(q) = IF from + 1 <= last THEN last - (from + 1) + 1 ELSE 0
      /\ \A i \in 1..(last - (from + 1) + 1) : q[i] = s[from + 1 + i - 1]
  <2>1. \A i \in (from + 1)..last : s[i] \in S
    BY <1>1, <1>3
  <2> QED
    BY <1>3, <2>1, SubSeqProperties
<1>5. Len(q) = n
  BY <1>3, <1>4
<1>6. \A i \in 1..n : q[i] = s[from + i]
  BY <1>3, <1>4
<1>7. Slice(s, from, to) = q
  BY DEF Slice, last
<1> QED
  BY <1>3, <1>4, <1>5, <1>6, <1>7 DEF n

\* A slice as a function
LEMMA SliceIs ==
    ASSUME NEW S, NEW s \in Seq(S), NEW from \in Nat, NEW to \in Nat, from <= to
    PROVE  Slice(s, from, to) = [i \in 1..SliceLen(Len(s), from, to) |-> s[from + i]]
<1> DEFINE q == Slice(s, from, to)
           k == SliceLen(Len(s), from, to)
<1>1. q \in Seq(S) /\ Len(q) = k /\ \A i \in 1..k : q[i] = s[from + i]
  BY SliceFacts
<1> HIDE DEF q, k
<1>2. q = [i \in 1..k |-> q[i]]
  BY <1>1
<1> QED
  BY <1>1, <1>2 DEF q, k

\* A concatenation as a function
LEMMA ConcatIs ==
  ASSUME NEW S, NEW x \in Seq(S), NEW y \in Seq(S)
  PROVE x \o y = [i \in 1..(Len(x)+Len(y)) |-> IF i <= Len(x) THEN x[i] ELSE y[i-Len(x)]]
<1> DEFINE q == x \o y
           k == Len(x) + Len(y)
<1>1. q \in Seq(S) /\ Len(q) = k /\ \A i \in 1..k : q[i] = IF i <= Len(x) THEN x[i] ELSE y[i-Len(x)]
  BY ConcatProperties
<1> HIDE DEF q, k
<1>2. q = [i \in 1..k |-> q[i]]
  BY <1>1
<1> QED
  BY <1>1, <1>2 DEF q, k

\* A set of numbers has a smallest one.
LEMMA SmallestNumber ==
    ASSUME NEW T \in SUBSET Nat, T # {}
    PROVE  \E n \in T : \A m \in T : n <= m
<1>1. PICK n \in T : \A m \in T : ~(<<m, n>> \in OpToRel(<, Nat))
  BY NatLessThanWellFounded, WFMin
<1>2. \A m \in T : ~(m < n)
  BY <1>1 DEF OpToRel
<1> QED
  BY <1>2

\* Pieces of the same size, one after the other, are the sequence they were cut from.
LEMMA FlattenPieces ==
    ASSUME NEW n \in Nat \ {0}, NEW size \in Nat, NEW g, DOMAIN g = 1..(n * size)
    PROVE  FlattenSeq([i \in 1..n |-> [j \in 1..size |-> g[(i - 1) * size + j]]])
              = [k \in 1..(n * size) |-> g[k]]
<1> DEFINE seqs == [i \in 1..n |-> [j \in 1..size |-> g[(i - 1) * size + j]]]
           h == [i \in 1..n |-> [k \in 1..(i * size) |-> g[k]]]
           Rec(f) == f = [i \in 1..n |-> IF i = 1 THEN seqs[i] ELSE f[i - 1] \o seqs[i]]
           f == CHOOSE f : Rec(f)
           T == Range(g)
<1>1. Len(seqs) = n
  OBVIOUS
<1>2. FlattenSeq(seqs) = f[n]
  BY <1>1 DEF FlattenSeq
<1>3. ASSUME NEW i \in 1..n
      PROVE  /\ i * size \in Nat /\ (i - 1) * size \in Nat /\ i * size = (i - 1) * size + size
             /\ i * size <= n * size
  <2>1. i * size \in Nat /\ (i - 1) * size \in Nat /\ i * size = (i - 1) * size + size
    OBVIOUS
  <2>2. (n - i) * size \in Nat /\ n * size = i * size + (n - i) * size
    OBVIOUS
  <2> QED
    BY <2>1, <2>2
<1>4. Rec(h)
  <2>1. ASSUME NEW i \in 1..n, i = 1 PROVE h[i] = seqs[i]
    <3>1. h[i] = [k \in 1..size |-> g[k]]
      BY <2>1
    <3>2. seqs[i] = [j \in 1..size |-> g[j]]
      <4>1. \A j \in 1..size : (i - 1) * size + j = j
        BY <2>1
      <4> QED
        BY <4>1
    <3> QED
      BY <3>1, <3>2
  <2>2. ASSUME NEW i \in 1..n, i # 1 PROVE h[i] = h[i - 1] \o seqs[i]
    <3> DEFINE m == (i - 1) * size
               a == [k \in 1..m |-> g[k]]
               b == [j \in 1..size |-> g[m + j]]
               ab == a \o b
    <3>1. /\ m \in Nat /\ i * size = m + size /\ m + size <= n * size /\ i - 1 \in 1..n
      BY <1>3, <2>2
    <3>2. h[i - 1] = a /\ seqs[i] = b /\ h[i] = [k \in 1..(m + size) |-> g[k]]
      BY <3>1
    <3> HIDE DEF m, h
    <3>3. n * size \in Nat
      OBVIOUS
    <3>4. \A k \in 1..(m + size) : g[k] \in T
      <4>1. \A k \in 1..(m + size) : k \in DOMAIN g
        BY <3>1, <3>3
      <4> QED
        BY <4>1 DEF Range
    <3> HIDE DEF T
    <3>5. a \in [1..m -> T]
      <4>1. \A k \in 1..m : k \in 1..(m + size)
        BY <3>1
      <4>2. \A k \in 1..m : g[k] \in T
        BY <3>4, <4>1
      <4> QED
        BY <4>2
    <3>5b. b \in [1..size -> T]
      <4>1. \A j \in 1..size : m + j \in 1..(m + size)
        BY <3>1
      <4>2. \A j \in 1..size : g[m + j] \in T
        BY <3>4, <4>1
      <4> QED
        BY <3>1, <4>2
    <3>6. a \in Seq(T) /\ Len(a) = m /\ b \in Seq(T) /\ Len(b) = size
      <4>1. a \in Seq(T) /\ Len(a) = m
        BY <3>1, <3>5
      <4>2. b \in Seq(T) /\ Len(b) = size
        BY <3>5b
      <4> HIDE DEF a, b
      <4> QED
        BY <4>1, <4>2
    <3>7. ab \in Seq(T) /\ Len(ab) = m + size
          /\ \A k \in 1..(m + size) : ab[k] = IF k <= m THEN a[k] ELSE b[k - m]
      <4> HIDE DEF a, b
      <4> QED
        BY <3>6, ConcatProperties
    <3>8. \A k \in 1..(m + size) : ab[k] = g[k]
      <4> TAKE k \in 1..(m + size)
      <4>1. CASE k <= m
        <5>1. ab[k] = a[k] /\ k \in 1..m
          BY <3>1, <3>7, <4>1
        <5> QED
          BY <5>1
      <4>2. CASE ~(k <= m)
        <5>1. ab[k] = b[k - m] /\ k - m \in 1..size /\ m + (k - m) = k
          BY <3>1, <3>7, <4>2
        <5> HIDE DEF ab
        <5> QED
          BY <5>1
      <4> QED
        BY <4>1, <4>2
    <3>9. ab = [k \in 1..(m + size) |-> g[k]]
      <4>1. ab = [k \in 1..(m + size) |-> ab[k]]
        <5> HIDE DEF ab
        <5> QED
          BY <3>7
      <4> QED
        BY <3>8, <4>1
    <3> QED
      BY <3>2, <3>9
  <2> HIDE DEF h
  <2>3. \A i \in 1..n : h[i] = IF i = 1 THEN seqs[i] ELSE h[i - 1] \o seqs[i]
    BY <2>1, <2>2
  <2>4. h = [i \in 1..n |-> h[i]]
    BY DEF h
  <2> QED
    BY <2>3, <2>4
<1>5. Rec(f)
  <2> HIDE DEF h, Rec
  <2> QED
    BY <1>4
<1> DEFINE Bad == {i \in 1..n : f[i] # h[i]}
<1>6. Bad = {}
  <2> HIDE DEF h, f
  <2>1. SUFFICES ASSUME Bad # {} PROVE FALSE
    OBVIOUS
  <2>2. PICK i \in Bad : \A j \in Bad : i <= j
    <3>1. Bad \in SUBSET Nat
      OBVIOUS
    <3> HIDE DEF Bad
    <3> QED
      BY <2>1, <3>1, SmallestNumber
  <2>3. i = 1 \/ (i - 1 \in 1..n /\ f[i - 1] = h[i - 1])
    BY <2>2
  <2>4. f[i] = IF i = 1 THEN seqs[i] ELSE f[i - 1] \o seqs[i]
    BY <1>5, <2>2
  <2>5. h[i] = IF i = 1 THEN seqs[i] ELSE h[i - 1] \o seqs[i]
    BY <1>4, <2>2
  <2> QED
    BY <2>2, <2>3, <2>4, <2>5
<1>7. f[n] = h[n]
  <2> HIDE DEF f, h
  <2> QED
    BY <1>6
<1> QED
  BY <1>2, <1>7

\* An all-reduce to which one rank contributes
LEMMA ReduceOne ==
    ASSUME NEW tp \in Nat \ {0}, NEW owner \in 0..(tp - 1), NEW e
    PROVE  all_reduce([r \in 0..(tp - 1) |-> IF r = owner THEN SetToBag({e}) ELSE EmptyBag], tp)
              = [r \in 0..(tp - 1) |-> SetToBag({e})]
<1> DEFINE x == [r \in 0..(tp - 1) |-> IF r = owner THEN SetToBag({e}) ELSE EmptyBag]
           B == SetToBag({e})
           Rec(s) == s = [n \in 0..tp |-> IF n = 0 THEN EmptyBag ELSE s[n - 1] (+) x[n - 1]]
           sum == CHOOSE s : Rec(s)
           h == [n \in 0..tp |-> IF n <= owner THEN EmptyBag ELSE B]
<1>1. /\ EmptyBag (+) EmptyBag = EmptyBag
      /\ EmptyBag (+) B = B /\ B (+) EmptyBag = B
  BY DEF EmptyBag, SetToBag, (+)
<1>2. CASE tp = 1
  <2>1. owner = 0 /\ all_reduce(x, tp) = x
    BY <1>2 DEF all_reduce
  <2> QED
    BY <1>2, <2>1
<1>3. CASE tp # 1
  <2>1. all_reduce(x, tp) = [r \in 0..(tp - 1) |-> sum[tp]]
    BY <1>3 DEF all_reduce
  <2> HIDE DEF B
  <2>2. \A n \in 0..tp : h[n] = IF n = 0 THEN EmptyBag ELSE h[n - 1] (+) x[n - 1]
    <3> TAKE n \in 0..tp
    <3>1. CASE n = 0
      BY <3>1
    <3>2. CASE n # 0
      <4>1. n - 1 \in 0..tp /\ n - 1 \in 0..(tp - 1)
        BY <3>2
      <4>2. x[n - 1] = IF n - 1 = owner THEN B ELSE EmptyBag
        BY <4>1 DEF B
      <4>3. h[n - 1] = IF n - 1 <= owner THEN EmptyBag ELSE B
        BY <4>1
      <4>4. h[n] = IF n <= owner THEN EmptyBag ELSE B
        OBVIOUS
      <4>5. CASE n <= owner
        <5>1. h[n] = EmptyBag /\ h[n - 1] = EmptyBag /\ x[n - 1] = EmptyBag
          BY <4>2, <4>3, <4>4, <4>5
        <5> QED
          BY <1>1, <3>2, <5>1
      <4>6. CASE n = owner + 1
        <5>1. h[n] = B /\ h[n - 1] = EmptyBag /\ x[n - 1] = B
          BY <4>2, <4>3, <4>4, <4>6
        <5> QED
          BY <1>1, <3>2, <5>1
      <4>7. CASE n > owner + 1
        <5>1. h[n] = B /\ h[n - 1] = B /\ x[n - 1] = EmptyBag
          BY <4>2, <4>3, <4>4, <4>7
        <5> QED
          BY <1>1, <3>2, <5>1
      <4> QED
        BY <4>5, <4>6, <4>7
    <3> QED
      BY <3>1, <3>2
  <2>3. h = [n \in 0..tp |-> h[n]]
    OBVIOUS
  <2>4. Rec(h)
    <3> HIDE DEF h
    <3> QED
      BY <2>2, <2>3
  <2>5. Rec(sum)
    <3> HIDE DEF h, Rec
    <3> QED
      BY <2>4
  <2> DEFINE Bad == {n \in 0..tp : sum[n] # h[n]}
  <2>6. Bad = {}
    <3> HIDE DEF h, sum
    <3>1. SUFFICES ASSUME Bad # {} PROVE FALSE
      OBVIOUS
    <3>2. PICK n \in Bad : \A j \in Bad : n <= j
      <4>1. Bad \in SUBSET Nat
        OBVIOUS
      <4> HIDE DEF Bad
      <4> QED
        BY <3>1, <4>1, SmallestNumber
    <3>3. n = 0 \/ (n - 1 \in 0..tp /\ sum[n - 1] = h[n - 1])
      BY <3>2
    <3>4. sum[n] = IF n = 0 THEN EmptyBag ELSE sum[n - 1] (+) x[n - 1]
      BY <2>5, <3>2
    <3>5. h[n] = IF n = 0 THEN EmptyBag ELSE h[n - 1] (+) x[n - 1]
      BY <2>2, <3>2
    <3> QED
      BY <3>2, <3>3, <3>4, <3>5
  <2>7. sum[tp] = h[tp]
    <3>1. tp \in 0..tp
      OBVIOUS
    <3> HIDE DEF h, sum
    <3> QED
      BY <2>6, <3>1
  <2>8. h[tp] = B
    OBVIOUS
  <2> QED
    BY <2>1, <2>7, <2>8 DEF B
<1> QED
  BY <1>2, <1>3

-----------------------------------------------------------------------------
(* The layers and tensors that hold the vocabulary.                        *)

\* Names of layers of the vocabulary
VocabNames == {"embed_tokens", "lm_head", "wte", "word_embeddings", "embed_in", "embed_out"}

\* Names of layers of the attention
AttentionNames ==
    {"qkv_proj", "o_proj", "W_pack", "c_attn", "attn.c_proj", "query", "key_value",
     "query_key_value", "dense", "c_attn_q", "c_attn_kv", "out_proj"}

\* Names of layers of the MLP
MLPNames ==
    {"gate_up_proj", "down_proj", "mlp.c_proj", "dense_h_to_4h", "dense_4h_to_h", "c_fc",
     "up_proj", "fc_in", "fc_out", "fc1", "fc2"}

\* The layers of the attention and of the MLP have names of their own.
LEMMA LayerNames ==
    ASSUME NEW c \in Configs
    PROVE  /\ DOMAIN AttentionOf(c).layers \subseteq AttentionNames
           /\ DOMAIN MLPOf(c).layers \subseteq MLPNames
<1>1. DOMAIN AttentionOf(c).layers \subseteq AttentionNames
  <2>1. CASE c.arch = "llama"
    BY <2>1 DEF AttentionOf, LlamaAttention, Attention, AttentionNames, :=, ++
  <2>2. CASE c.arch \in {"mistral", "aquila"}
    BY <2>2 DEF AttentionOf, MistralAttention, AquilaAttention, Attention, AttentionNames, :=, ++
  <2>3. CASE c.arch \in {"internlm", "baichuan", "qwen", "gpt_neox", "bloom"}
    BY <2>3 DEF AttentionOf, InternLMAttention, BaiChuanAttention, QWenAttention, GPTNeoXAttention,
                BloomAttention, FusedAttention, Attention, AttentionNames, :=, ++
  <2>4. CASE c.arch \in {"mpt", "gpt2", "gpt_j", "opt"}
    BY <2>4 DEF AttentionOf, MPTAttention, GPT2Attention, GPTJAttention, OPTAttention,
                FusedAttention, Attention, AttentionNames, :=, ++
  <2>5. CASE c.arch = "falcon"
    BY <2>5 DEF AttentionOf, FalconAttention, Attention, AttentionNames, :=, ++
  <2>6. CASE c.arch = "gpt_bigcode"
    BY <2>6 DEF AttentionOf, GPTBigCodeAttention, Attention, AttentionNames, :=, ++
  <2> QED
    BY <2>1, <2>2, <2>3, <2>4, <2>5, <2>6, ConfigAssumption DEF Architectures
<1>2. DOMAIN MLPOf(c).layers \subseteq MLPNames
  <2>1. CASE c.arch \in {"llama", "mistral", "aquila", "internlm", "baichuan", "qwen"}
    BY <2>1 DEF MLPOf, LlamaMLP, MistralMLP, AquilaMLP, InternLMMLP, BaiChuanMLP, QWenMLP, MLP,
                MLPNames, :=, ++
  <2>2. CASE c.arch \in {"falcon", "gpt_bigcode", "gpt_neox", "bloom"}
    BY <2>2 DEF MLPOf, FalconMLP, GPTBigMLP, GPTNeoXMLP, BloomMLP, NeoXStyleMLP, MLP, MLPNames, :=, ++
  <2>3. CASE c.arch \in {"mpt", "gpt2", "gpt_j", "opt"}
    BY <2>3 DEF MLPOf, MPTMLP, GPT2MLP, GPTJMLP, OPTMLP, MLP, MLPNames, :=, ++
  <2> QED
    BY <2>1, <2>2, <2>3, ConfigAssumption DEF Architectures
<1> QED
  BY <1>1, <1>2

\* The layers of an LM
LMLayers(c, embed, vin, head, vout) ==
    (embed := VocabParallelEmbedding(vin, Hidden(c)))
        ++ (IF head = embed THEN <<>>
            ELSE head := ColumnParallelLinear(Hidden(c), vout, IF c.arch = "gpt_j" THEN TRUE ELSE FALSE))

\* What the language models have in common
LMLike(c, lm) ==
    /\ lm.embed \in VocabNames /\ lm.head \in VocabNames
    /\ \E vin, vout \in {c.vocab, padded_vocab(c.vocab)} :
          lm.layers = LMLayers(c, lm.embed, vin, lm.head, vout)
    /\ lm.embed = TensorNames(c).embed
    /\ TiedHead(c) => lm.head = lm.embed
    /\ ~TiedHead(c) => lm.head = TensorNames(c).head /\ lm.head # lm.embed
    /\ lm.embedNorm <=> c.arch = "bloom"
    /\ lm.positions <=> c.arch \in {"gpt2", "gpt_bigcode", "opt"}

\* Every language model of the registry is one of those.
LEMMA LMFacts ==
    ASSUME NEW c \in Configs
    PROVE  LMLike(c, LMOf(c))
<1> DEFINE V == c.vocab
           P == padded_vocab(c.vocab)
<1>1. CASE c.arch = "llama"
  <2> DEFINE lm == LM("embed_tokens", P, "norm", "lm_head", P, FALSE, TRUE, c)
  <2>1. LMOf(c) = lm
    BY <1>1 DEF LMOf, LlamaForCausalLM
  <2>2. TensorNames(c).embed = "embed_tokens" /\ TensorNames(c).head = "lm_head"
    BY <1>1 DEF TensorNames, Names
  <2>3. /\ lm.embed = "embed_tokens" /\ lm.head = "lm_head" /\ ~lm.embedNorm /\ ~lm.positions
    BY DEF LM
  <2>4. lm.layers = LMLayers(c, "embed_tokens", P, "lm_head", P)
    BY <1>1 DEF LM, LMLayers
  <2> HIDE DEF lm
  <2> QED
    BY <1>1, <2>1, <2>2, <2>3, <2>4 DEF LMLike, TiedHead, VocabNames
<1>2. CASE c.arch = "mistral"
  <2> DEFINE lm == LM("embed_tokens", P, "norm", "lm_head", P, FALSE, FALSE, c)
  <2>1. LMOf(c) = lm
    BY <1>2 DEF LMOf, MistralForCausalLM
  <2>2. TensorNames(c).embed = "embed_tokens" /\ TensorNames(c).head = "lm_head"
    BY <1>2 DEF TensorNames, Names
  <2>3. /\ lm.embed = "embed_tokens" /\ lm.head = "lm_head" /\ ~lm.embedNorm /\ ~lm.positions
    BY DEF LM
  <2>4. lm.layers = LMLayers(c, "embed_tokens", P, "lm_head", P)
    BY <1>2 DEF LM, LMLayers
  <2> HIDE DEF lm
  <2> QED
    BY <1>2, <2>1, <2>2, <2>3, <2>4 DEF LMLike, TiedHead, VocabNames
<1>3. CASE c.arch = "aquila"
  <2> DEFINE lm == LM("embed_tokens", V, "norm", "lm_head", P, FALSE, FALSE, c)
  <2>1. LMOf(c) = lm
    BY <1>3 DEF LMOf, AquilaForCausalLM
  <2>2. TensorNames(c).embed = "embed_tokens" /\ TensorNames(c).head = "lm_head"
    BY <1>3 DEF TensorNames, Names
  <2>3. /\ lm.embed = "embed_tokens" /\ lm.head = "lm_head" /\ ~lm.embedNorm /\ ~lm.positions
    BY DEF LM
  <2>4. lm.layers = LMLayers(c, "embed_tokens", V, "lm_head", P)
    BY <1>3 DEF LM, LMLayers
  <2> HIDE DEF lm
  <2> QED
    BY <1>3, <2>1, <2>2, <2>3, <2>4 DEF LMLike, TiedHead, VocabNames
<1>4. CASE c.arch = "internlm"
  <2> DEFINE lm == LM("embed_tokens", P, "norm", "lm_head", P, FALSE, FALSE, c)
  <2>1. LMOf(c) = lm
    BY <1>4 DEF LMOf, InternLMForCausalLM
  <2>2. TensorNames(c).embed = "embed_tokens" /\ TensorNames(c).head = "lm_head"
    BY <1>4 DEF TensorNames, Names
  <2>3. /\ lm.embed = "embed_tokens" /\ lm.head = "lm_head" /\ ~lm.embedNorm /\ ~lm.positions
    BY DEF LM
  <2>4. lm.layers = LMLayers(c, "embed_tokens", P, "lm_head", P)
    BY <1>4 DEF LM, LMLayers
  <2> HIDE DEF lm
  <2> QED
    BY <1>4, <2>1, <2>2, <2>3, <2>4 DEF LMLike, TiedHead, VocabNames
<1>5. CASE c.arch = "baichuan"
  <2> DEFINE lm == LM("embed_tokens", V, "norm", "lm_head", V, FALSE, TRUE, c)
  <2>1. LMOf(c) = lm
    BY <1>5 DEF LMOf, BaiChuanForCausalLM
  <2>2. TensorNames(c).embed = "embed_tokens" /\ TensorNames(c).head = "lm_head"
    BY <1>5 DEF TensorNames, Names
  <2>3. /\ lm.embed = "embed_tokens" /\ lm.head = "lm_head" /\ ~lm.embedNorm /\ ~lm.positions
    BY DEF LM
  <2>4. lm.layers = LMLayers(c, "embed_tokens", V, "lm_head", V)
    BY <1>5 DEF LM, LMLayers
  <2> HIDE DEF lm
  <2> QED
    BY <1>5, <2>1, <2>2, <2>3, <2>4 DEF LMLike, TiedHead, VocabNames
<1>6. CASE c.arch = "qwen"
  <2> DEFINE lm == LM("wte", P, "ln_f", "lm_head", P, FALSE, FALSE, c)
  <2>1. LMOf(c) = lm
    BY <1>6 DEF LMOf, QWenLMHeadModel
  <2>2. TensorNames(c).embed = "wte" /\ TensorNames(c).head = "lm_head"
    BY <1>6 DEF TensorNames, Names
  <2>3. /\ lm.embed = "wte" /\ lm.head = "lm_head" /\ ~lm.embedNorm /\ ~lm.positions
    BY DEF LM
  <2>4. lm.layers = LMLayers(c, "wte", P, "lm_head", P)
    BY <1>6 DEF LM, LMLayers
  <2> HIDE DEF lm
  <2> QED
    BY <1>6, <2>1, <2>2, <2>3, <2>4 DEF LMLike, TiedHead, VocabNames
<1>7. CASE c.arch = "falcon"
  <2> DEFINE lm == LM("word_embeddings", V, "ln_f", "lm_head", V, FALSE, FALSE, c)
  <2>1. LMOf(c) = lm
    BY <1>7 DEF LMOf, FalconForCausalLM
  <2>2. TensorNames(c).embed = "word_embeddings" /\ TensorNames(c).head = "lm_head"
    BY <1>7 DEF TensorNames, Names
  <2>3. /\ lm.embed = "word_embeddings" /\ lm.head = "lm_head" /\ ~lm.embedNorm /\ ~lm.positions
    BY DEF LM
  <2>4. lm.layers = LMLayers(c, "word_embeddings", V, "lm_head", V)
    BY <1>7 DEF LM, LMLayers
  <2> HIDE DEF lm
  <2> QED
    BY <1>7, <2>1, <2>2, <2>3, <2>4 DEF LMLike, TiedHead, VocabNames
<1>8. CASE c.arch = "gpt_bigcode"
  <2> DEFINE lm == LM("wte", P, "ln_f", "wte", P, FALSE, FALSE, c)
  <2>1. LMOf(c) = WithPositions(lm)
    BY <1>8 DEF LMOf, GPTBigCodeForCausalLM
  <2>2. TensorNames(c).embed = "wte"
    BY <1>8 DEF TensorNames, Names
  <2>3. /\ lm.embed = "wte" /\ lm.head = "wte" /\ ~lm.embedNorm /\ ~lm.positions
    BY DEF LM
  <2>4. lm.layers = LMLayers(c, "wte", P, "wte", P)
    BY <1>8 DEF LM, LMLayers
  <2>5. /\ LMOf(c).embed = lm.embed /\ LMOf(c).head = lm.head /\ LMOf(c).layers = lm.layers
        /\ ~LMOf(c).embedNorm /\ LMOf(c).positions
    BY <2>1, <2>3 DEF LM, WithPositions
  <2> HIDE DEF lm
  <2> QED
    BY <1>8, <2>1, <2>2, <2>3, <2>4, <2>5 DEF LMLike, TiedHead, VocabNames
<1>9. CASE c.arch = "gpt_neox"
  <2> DEFINE lm == LM("embed_in", V, "final_layer_norm", "embed_out", V, FALSE, FALSE, c)
  <2>1. LMOf(c) = lm
    BY <1>9 DEF LMOf, GPTNeoXForCausalLM
  <2>2. TensorNames(c).embed = "embed_in" /\ TensorNames(c).head = "embed_out"
    BY <1>9 DEF TensorNames, Names
  <2>3. /\ lm.embed = "embed_in" /\ lm.head = "embed_out" /\ ~lm.embedNorm /\ ~lm.positions
    BY DEF LM
  <2>4. lm.layers = LMLayers(c, "embed_in", V, "embed_out", V)
    BY <1>9 DEF LM, LMLayers
  <2> HIDE DEF lm
  <2> QED
    BY <1>9, <2>1, <2>2, <2>3, <2>4 DEF LMLike, TiedHead, VocabNames
<1>10. CASE c.arch = "bloom"
  <2> DEFINE lm == LM("word_embeddings", V, "ln_f", "word_embeddings", V, FALSE, FALSE, c)
  <2>1. LMOf(c) = [lm EXCEPT !.embedNorm = TRUE]
    BY <1>10 DEF LMOf, BloomForCausalLM
  <2>2. TensorNames(c).embed = "word_embeddings"
    BY <1>10 DEF TensorNames, Names
  <2>3. /\ lm.embed = "word_embeddings" /\ lm.head = "word_embeddings" /\ ~lm.embedNorm /\ ~lm.positions
    BY DEF LM
  <2>4. lm.layers = LMLayers(c, "word_embeddings", V, "word_embeddings", V)
    BY <1>10 DEF LM, LMLayers
  <2>5. /\ LMOf(c).embed = lm.embed /\ LMOf(c).head = lm.head /\ LMOf(c).layers = lm.layers
        /\ LMOf(c).embedNorm /\ ~LMOf(c).positions
    BY <2>1, <2>3 DEF LM, WithPositions
  <2> HIDE DEF lm
  <2> QED
    BY <1>10, <2>1, <2>2, <2>3, <2>4, <2>5 DEF LMLike, TiedHead, VocabNames
<1>11. CASE c.arch = "mpt"
  <2> DEFINE lm == LM("wte", V, "norm_f", "wte", V, FALSE, FALSE, c)
  <2>1. LMOf(c) = lm
    BY <1>11 DEF LMOf, MPTForCausalLM
  <2>2. TensorNames(c).embed = "wte"
    BY <1>11 DEF TensorNames, Names
  <2>3. /\ lm.embed = "wte" /\ lm.head = "wte" /\ ~lm.embedNorm /\ ~lm.positions
    BY DEF LM
  <2>4. lm.layers = LMLayers(c, "wte", V, "wte", V)
    BY <1>11 DEF LM, LMLayers
  <2> HIDE DEF lm
  <2> QED
    BY <1>11, <2>1, <2>2, <2>3, <2>4 DEF LMLike, TiedHead, VocabNames
<1>12. CASE c.arch = "gpt2"
  <2> DEFINE lm == LM("wte", P, "ln_f", "wte", P, FALSE, FALSE, c)
  <2>1. LMOf(c) = WithPositions(lm)
    BY <1>12 DEF LMOf, GPT2LMHeadModel
  <2>2. TensorNames(c).embed = "wte"
    BY <1>12 DEF TensorNames, Names
  <2>3. /\ lm.embed = "wte" /\ lm.head = "wte" /\ ~lm.embedNorm /\ ~lm.positions
    BY DEF LM
  <2>4. lm.layers = LMLayers(c, "wte", P, "wte", P)
    BY <1>12 DEF LM, LMLayers
  <2>5. /\ LMOf(c).embed = lm.embed /\ LMOf(c).head = lm.head /\ LMOf(c).layers = lm.layers
        /\ ~LMOf(c).embedNorm /\ LMOf(c).positions
    BY <2>1, <2>3 DEF LM, WithPositions
  <2> HIDE DEF lm
  <2> QED
    BY <1>12, <2>1, <2>2, <2>3, <2>4, <2>5 DEF LMLike, TiedHead, VocabNames
<1>13. CASE c.arch = "gpt_j"
  <2> DEFINE lm == LM("wte", V, "ln_f", "lm_head", V, TRUE, TRUE, c)
  <2>1. LMOf(c) = lm
    BY <1>13 DEF LMOf, GPTJForCausalLM
  <2>2. TensorNames(c).embed = "wte" /\ TensorNames(c).head = "lm_head"
    BY <1>13 DEF TensorNames, Names
  <2>3. /\ lm.embed = "wte" /\ lm.head = "lm_head" /\ ~lm.embedNorm /\ ~lm.positions
    BY DEF LM
  <2>4. lm.layers = LMLayers(c, "wte", V, "lm_head", V)
    BY <1>13 DEF LM, LMLayers
  <2> HIDE DEF lm
  <2> QED
    BY <1>13, <2>1, <2>2, <2>3, <2>4 DEF LMLike, TiedHead, VocabNames
<1>14. CASE c.arch = "opt"
  <2> DEFINE lm == LM("embed_tokens", V,
                      (IF c.variant = "post_norm" THEN "none" ELSE "final_layer_norm"),
                      "embed_tokens", V, FALSE, TRUE, c)
  <2>1. LMOf(c) = WithPositions(lm)
    BY <1>14 DEF LMOf, OPTForCausalLM
  <2>2. TensorNames(c).embed = "embed_tokens"
    BY <1>14 DEF TensorNames, Names
  <2>3. /\ lm.embed = "embed_tokens" /\ lm.head = "embed_tokens" /\ ~lm.embedNorm /\ ~lm.positions
    BY DEF LM
  <2>4. lm.layers = LMLayers(c, "embed_tokens", V, "embed_tokens", V)
    BY <1>14 DEF LM, LMLayers
  <2>5. /\ LMOf(c).embed = lm.embed /\ LMOf(c).head = lm.head /\ LMOf(c).layers = lm.layers
        /\ ~LMOf(c).embedNorm /\ LMOf(c).positions
    BY <2>1, <2>3 DEF LM, WithPositions
  <2> HIDE DEF lm
  <2> QED
    BY <1>14, <2>1, <2>2, <2>3, <2>4, <2>5 DEF LMLike, TiedHead, VocabNames
<1> QED
  BY <1>1, <1>2, <1>3, <1>4, <1>5, <1>6, <1>7, <1>8, <1>9, <1>10, <1>11, <1>12, <1>13, <1>14,
     ConfigAssumption DEF Architectures

\* The embedding and the layer of the logits
VocabLayers(c) == {LMOf(c).embed, LMOf(c).head}

\* The parameters that hold the vocabulary
EmbedKey(c) == <<LMOf(c).embed, "weight">>
HeadKey(c) == <<LMOf(c).head, "weight">>
HeadBiasKey(c) == <<LMOf(c).head, "bias">>
VocabKeys(c) ==
    {EmbedKey(c), HeadKey(c)} \cup (IF c.arch = "gpt_j" THEN {HeadBiasKey(c)} ELSE {})

\* The rows of such a parameter on one rank
ShardRows(c, key) == LayersOf(c)[key[1]].out \div c.tp

\* The layers of the vocabulary are cut by rows, and only one head has biases.
LEMMA VocabLayerFacts ==
    ASSUME NEW c \in Configs, NEW n \in VocabLayers(c)
    PROVE  /\ n \in DOMAIN LayersOf(c)
           /\ LayersOf(c)[n].kind = "column" /\ ~LayersOf(c)[n].quant
           /\ LayersOf(c)[n].out \in {c.vocab, padded_vocab(c.vocab)}
           /\ LayersOf(c)[n].bias <=> (c.arch = "gpt_j" /\ n = LMOf(c).head)
<1> DEFINE A == AttentionOf(c).layers
           M == MLPOf(c).layers
           L == LMOf(c).layers
           embed == LMOf(c).embed
           head == LMOf(c).head
<1>1. PICK vin \in {c.vocab, padded_vocab(c.vocab)}, vout \in {c.vocab, padded_vocab(c.vocab)} :
         L = LMLayers(c, embed, vin, head, vout)
  BY LMFacts DEF LMLike
<1>2. embed \in VocabNames /\ head \in VocabNames /\ (c.arch = "gpt_j" => head # embed)
  BY LMFacts DEF LMLike, TiedHead
<1>3. n \notin DOMAIN A /\ n \notin DOMAIN M
  BY <1>2, LayerNames DEF VocabLayers, VocabNames, AttentionNames, MLPNames
<1>4. n = embed => n \in DOMAIN L /\ L[n] = VocabParallelEmbedding(vin, Hidden(c))
  BY <1>1 DEF LMLayers, ++, :=
<1>5. n # embed => n \in DOMAIN L /\ L[n] = ColumnParallelLinear(Hidden(c), vout, IF c.arch = "gpt_j" THEN TRUE ELSE FALSE)
  <2> SUFFICES ASSUME n # embed
               PROVE n \in DOMAIN L /\ L[n] = ColumnParallelLinear(Hidden(c), vout, IF c.arch = "gpt_j" THEN TRUE ELSE FALSE)
    OBVIOUS
  <2>1. n = head /\ head # embed
    BY DEF VocabLayers
  <2>2. L = (embed := VocabParallelEmbedding(vin, Hidden(c)))
             ++ (head := ColumnParallelLinear(Hidden(c), vout, IF c.arch = "gpt_j" THEN TRUE ELSE FALSE))
    BY <1>1, <2>1 DEF LMLayers
  <2> HIDE DEF L
  <2> QED
    BY <2>1, <2>2 DEF ++, :=
<1>6. n \in DOMAIN LayersOf(c) /\ LayersOf(c)[n] = L[n]
  <2>1. n \in DOMAIN L
    BY <1>4, <1>5
  <2>2. LayersOf(c) = A ++ M ++ L
    BY DEF LayersOf
  <2> HIDE DEF A, M, L
  <2> QED
    BY <1>3, <2>1, <2>2 DEF ++
<1>7. CASE n = embed
  <2>1. LayersOf(c)[n] = VocabParallelEmbedding(vin, Hidden(c))
    BY <1>4, <1>6, <1>7
  <2>2. ~(c.arch = "gpt_j" /\ n = head)
    BY <1>2, <1>7
  <2> QED
    BY <1>6, <2>1, <2>2 DEF VocabParallelEmbedding, Layer
<1>8. CASE n # embed
  <2>1. LayersOf(c)[n] = ColumnParallelLinear(Hidden(c), vout, IF c.arch = "gpt_j" THEN TRUE ELSE FALSE)
    BY <1>5, <1>6, <1>8
  <2>2. n = head
    BY <1>8 DEF VocabLayers
  <2> QED
    BY <1>6, <2>1, <2>2 DEF ColumnParallelLinear, Layer
<1> QED
  BY <1>7, <1>8

\* torch.empty of each of them
LEMMA FreshVocab ==
    ASSUME NEW c \in Configs, NEW K \in VocabKeys(c)
    PROVE  /\ K[1] \in VocabLayers(c)
           /\ K \in DOMAIN StateDict(LayersOf(c), c.tp)
           /\ StateDict(LayersOf(c), c.tp)[K].rows = [i \in 1..ShardRows(c, K) |-> Unset]
<1> DEFINE layers == LayersOf(c)
           n == K[1]
           s == K[2]
           l == layers[n]
           D == UNION {{<<m, t>> : t \in ParamNames(layers[m])} : m \in DOMAIN layers}
<1>1. K = <<n, s>> /\ n \in VocabLayers(c) /\ s \in {"weight", "bias"}
      /\ (s = "bias" => c.arch = "gpt_j" /\ n = LMOf(c).head)
  BY DEF VocabKeys, EmbedKey, HeadKey, HeadBiasKey, VocabLayers
<1>2. /\ n \in DOMAIN layers /\ l.kind = "column" /\ ~l.quant
      /\ l.bias <=> (c.arch = "gpt_j" /\ n = LMOf(c).head)
  BY <1>1, VocabLayerFacts
<1>3. s \in ParamNames(l)
  <2>1. CASE s = "weight"
    BY <1>2, <2>1 DEF ParamNames
  <2>2. CASE s = "bias"
    <3>1. l.bias
      BY <1>1, <1>2, <2>2
    <3> QED
      BY <1>2, <2>2, <3>1 DEF ParamNames
  <2> QED
    BY <1>1, <2>1, <2>2
<1>4. StateDict(layers, c.tp) = [x \in D |-> CreateWeight(layers[x[1]], x[2], c.tp)]
  BY DEF StateDict
<1>5. K \in D
  <2> HIDE DEF layers, n, s
  <2> QED
    BY <1>1, <1>2, <1>3
<1>6. StateDict(layers, c.tp)[K] = CreateWeight(l, s, c.tp)
  <2> HIDE DEF D
  <2> QED
    BY <1>4, <1>5
<1>7. CreateWeight(l, s, c.tp).rows = [i \in 1..(l.out \div c.tp) |-> Unset]
  <2>1. OutPerRank(l, c.tp) = l.out \div c.tp
    BY <1>2 DEF OutPerRank
  <2>2. CreateWeight(l, s, c.tp) \in {Fresh(OutPerRank(l, c.tp), InPerRank(l, c.tp)),
                                     Fresh(OutPerRank(l, c.tp), 1)}
    BY <1>1 DEF CreateWeight
  <2>3. PICK in : CreateWeight(l, s, c.tp) = Fresh(OutPerRank(l, c.tp), in)
    BY <2>2
  <2>4. Fresh(OutPerRank(l, c.tp), in).rows = [i \in 1..OutPerRank(l, c.tp) |-> Unset]
    BY DEF Fresh, Mat
  <2> HIDE DEF l, s
  <2> QED
    BY <2>1, <2>3, <2>4
<1>8. K \in DOMAIN StateDict(layers, c.tp)
  <2> HIDE DEF D
  <2> QED
    BY <1>4, <1>5
<1> QED
  BY <1>1, <1>6, <1>7, <1>8 DEF ShardRows

\* Names of the tensors of a checkpoint that are not of the vocabulary
LayerTensors ==
    {"q_proj", "k_proj", "v_proj", "W_pack", "c_attn", "query_key_value", "Wqkv", "o_proj",
     "attn.c_proj", "dense", "out_proj", "gate_proj", "up_proj", "w2", "w1", "dense_h_to_4h",
     "c_fc", "fc_in", "fc1", "down_proj", "mlp.c_proj", "dense_4h_to_h", "fc_out", "fc2"}

\* Which names a checkpoint uses
LEMMA NameFacts ==
    ASSUME NEW c \in Configs
    PROVE  LET n == TensorNames(c)
           IN  /\ Len(n.qkv) \in {1, 3} /\ Len(n.up) \in {1, 2}
               /\ \A i \in 1..Len(n.qkv) : i \in DOMAIN n.qkv /\ n.qkv[i] \in LayerTensors
               /\ \A i \in 1..Len(n.up) : i \in DOMAIN n.up /\ n.up[i] \in LayerTensors
               /\ n.o \in LayerTensors /\ n.down \in LayerTensors
               /\ n.embed \in VocabNames /\ n.head \in VocabNames
               /\ c.arch = "gpt_j" => n.head # n.embed
<1> USE DEF TensorNames, Names, LayerTensors, VocabNames
<1>1. CASE c.arch \in {"llama", "mistral", "aquila", "internlm"}
  <2> HIDE DEF LayerTensors, VocabNames
  <2>1. TensorNames(c) = Names(<<"q_proj", "k_proj", "v_proj">>, "o_proj", <<"gate_proj", "up_proj">>,
                               "down_proj", "embed_tokens", "lm_head")
    BY <1>1
  <2> HIDE DEF TensorNames
  <2> QED
    BY <1>1, <2>1 DEF LayerTensors, VocabNames
<1>2. CASE c.arch = "baichuan"
  BY <1>2
<1>3. CASE c.arch = "qwen"
  BY <1>3
<1>4. CASE c.arch = "falcon"
  BY <1>4
<1>5. CASE c.arch \in {"gpt_bigcode", "gpt2"}
  BY <1>5
<1>6. CASE c.arch = "gpt_neox"
  BY <1>6
<1>7. CASE c.arch = "bloom"
  BY <1>7
<1>8. CASE c.arch = "mpt"
  BY <1>8
<1>9. CASE c.arch = "gpt_j"
  BY <1>9
<1>10. CASE c.arch = "opt"
  BY <1>10
<1> QED
  BY <1>1, <1>2, <1>3, <1>4, <1>5, <1>6, <1>7, <1>8, <1>9, <1>10, ConfigAssumption DEF Architectures

\* The tensors of a linear layer carry its name.
LEMMA TensorKeys ==
    ASSUME NEW c, NEW name, NEW rows, NEW cols, NEW bias, NEW x \in DOMAIN Tensor(c, name, rows, cols, bias)
    PROVE  \E s : x = <<name, s>>
<1> DEFINE T == Tensor(c, name, rows, cols, bias)
<1>1. CASE c.variant = "awq"
  <2> DEFINE words == Mat(cols, Grouped(rows, PackFactor))
             zeros == Mat(Grouped(cols, GroupSize), Grouped(rows, PackFactor))
             scales == Mat(Grouped(cols, GroupSize), rows)
  <2>1. T = (<<name, "qweight">> := words) ++ (<<name, "qzeros">> := zeros)
               ++ (<<name, "scales">> := scales)
    BY <1>1 DEF Tensor
  <2> HIDE DEF T, words, zeros, scales
  <2>2. DOMAIN T = {<<name, "qweight">>, <<name, "qzeros">>, <<name, "scales">>}
    BY <2>1 DEF ++, :=
  <2> QED
    BY <2>2 DEF T
<1>2. CASE c.variant # "awq"
  <2> DEFINE w == IF c.arch = "gpt2" THEN Mat(cols, rows) ELSE Mat(rows, cols)
             b == Mat(BiasOf(rows), << <<"1">> >>)
  <2>1. CASE bias
    <3>1. T = (<<name, "weight">> := w) ++ (<<name, "bias">> := b)
      BY <1>2, <2>1 DEF Tensor
    <3> HIDE DEF T, w, b
    <3>2. DOMAIN T = {<<name, "weight">>, <<name, "bias">>}
      BY <3>1 DEF ++, :=
    <3> QED
      BY <3>2 DEF T
  <2>2. CASE ~bias
    <3>1. T = (<<name, "weight">> := w) ++ <<>>
      BY <1>2, <2>2 DEF Tensor
    <3> HIDE DEF T, w, b
    <3>2. DOMAIN T = {<<name, "weight">>}
      BY <3>1 DEF ++, :=
    <3> QED
      BY <3>2 DEF T
  <2> QED
    BY <2>1, <2>2
<1> QED
  BY <1>1, <1>2

\* The tensors of the vocabulary in a checkpoint
LEMMA CheckpointFacts ==
    ASSUME NEW c \in Configs
    PROVE  LET n == TensorNames(c)
               D == DOMAIN Checkpoint(c)
           IN  /\ \A x \in D : /\ x = <<x[1], x[2]>>
                               /\ \/ x[1] \in LayerTensors
                                  \/ x = <<n.embed, "weight">> \/ x = <<n.head, "weight">>
                                  \/ c.arch = "gpt_j" /\ x = <<n.head, "bias">>
               /\ /\ <<n.embed, "weight">> \in D
                  /\ Checkpoint(c)[<<n.embed, "weight">>].rows = Units("token", c.vocab)
               /\ n.head # n.embed =>
                     /\ <<n.head, "weight">> \in D
                     /\ Checkpoint(c)[<<n.head, "weight">>].rows
                           = Units(IF TiedHead(c) THEN "token" ELSE "logit", c.vocab)
               /\ c.arch = "gpt_j" =>
                     /\ <<n.head, "bias">> \in D
                     /\ Checkpoint(c)[<<n.head, "bias">>].rows = BiasOf(Units("logit", c.vocab))
<1> DEFINE n == TensorNames(c)
           X == Units("x", Hidden(c))
           kinds == <<"q", "k", "v">>
           rows(i) == IF Len(n.qkv) = 1 THEN FusedRows(c)
                      ELSE HeadRows(kinds[i], IF i = 1 THEN c.heads ELSE c.kv)
           upKinds == <<"up", "gate">>
           up(i) == Units(upKinds[Len(n.up) + 1 - i], Inner(c))
           merge(t, i) == IF i = 1 THEN t[1] ELSE IF i = 2 THEN t[1] ++ t[2] ELSE t[1] ++ t[2] ++ t[3]
           tq == [i \in DOMAIN n.qkv |-> Tensor(c, n.qkv[i], rows(i), X, HasBias(c, "qkv"))]
           tu == [i \in DOMAIN n.up |-> Tensor(c, n.up[i], up(i), X, HasBias(c, "mlp"))]
           Q == merge(tq, Len(n.qkv))
           U == merge(tu, Len(n.up))
           O == Tensor(c, n.o, Units("attn", Hidden(c)), HeadRows("o", c.heads), HasBias(c, "o"))
           W == Tensor(c, n.down, Units("mlp", Hidden(c)), Units("down", Inner(c)), HasBias(c, "mlp"))
           table(name, kind, bias) ==
               (<<name, "weight">> := Mat(Units(kind, c.vocab), X))
                   ++ (IF bias THEN <<name, "bias">> := Mat(BiasOf(Units(kind, c.vocab)), << <<"1">> >>)
                       ELSE <<>>)
           kind == IF TiedHead(c) THEN "token" ELSE "logit"
           E == table(n.embed, "token", FALSE)
           H == table(n.head, kind, c.arch = "gpt_j")
           F == Q ++ U ++ O ++ W
           OfLayer(x) == x = <<x[1], x[2]>> /\ x[1] \in LayerTensors
<1>1. Checkpoint(c) = F ++ E ++ H
  BY DEF Checkpoint
<1>2. /\ Len(n.qkv) \in {1, 3} /\ Len(n.up) \in {1, 2}
      /\ \A i \in 1..Len(n.qkv) : i \in DOMAIN n.qkv /\ n.qkv[i] \in LayerTensors
      /\ \A i \in 1..Len(n.up) : i \in DOMAIN n.up /\ n.up[i] \in LayerTensors
      /\ n.o \in LayerTensors /\ n.down \in LayerTensors
      /\ n.embed \in VocabNames /\ n.head \in VocabNames
      /\ c.arch = "gpt_j" => n.head # n.embed
  BY NameFacts
<1> HIDE DEF n, rows, up, X
<1>3. \A i \in 1..Len(n.qkv) : \A x \in DOMAIN tq[i] : OfLayer(x)
  <2> TAKE i \in 1..Len(n.qkv)
  <2>1. tq[i] = Tensor(c, n.qkv[i], rows(i), X, HasBias(c, "qkv"))
    BY <1>2
  <2> HIDE DEF tq
  <2> TAKE x \in DOMAIN tq[i]
  <2>2. \E s : x = <<n.qkv[i], s>>
    BY <2>1, TensorKeys
  <2> QED
    BY <1>2, <2>2
<1>4. \A i \in 1..Len(n.up) : \A x \in DOMAIN tu[i] : OfLayer(x)
  <2> TAKE i \in 1..Len(n.up)
  <2>1. tu[i] = Tensor(c, n.up[i], up(i), X, HasBias(c, "mlp"))
    BY <1>2
  <2> HIDE DEF tu
  <2> TAKE x \in DOMAIN tu[i]
  <2>2. \E s : x = <<n.up[i], s>>
    BY <2>1, TensorKeys
  <2> QED
    BY <1>2, <2>2
<1>5. \A x \in DOMAIN O : OfLayer(x)
  BY <1>2, TensorKeys
<1>6. \A x \in DOMAIN W : OfLayer(x)
  BY <1>2, TensorKeys
<1> HIDE DEF tq, tu, O, W, E, H
<1>7. \A x \in DOMAIN Q : OfLayer(x)
  <2>1. CASE Len(n.qkv) = 1
    BY <1>3, <2>1
  <2>2. CASE Len(n.qkv) = 3
    BY <1>3, <2>2 DEF ++
  <2> QED
    BY <1>2, <2>1, <2>2
<1>8. \A x \in DOMAIN U : OfLayer(x)
  <2>1. CASE Len(n.up) = 1
    BY <1>4, <2>1
  <2>2. CASE Len(n.up) = 2
    BY <1>4, <2>2 DEF ++
  <2> QED
    BY <1>2, <2>1, <2>2
<1> HIDE DEF Q, U
<1>9. \A x \in DOMAIN F : OfLayer(x)
  BY <1>5, <1>6, <1>7, <1>8 DEF ++
<1> HIDE DEF F
<1>10. /\ DOMAIN E = {<<n.embed, "weight">>}
       /\ E[<<n.embed, "weight">>].rows = Units("token", c.vocab)
  BY DEF E, ++, :=, Mat
<1>11. /\ <<n.head, "weight">> \in DOMAIN H
       /\ H[<<n.head, "weight">>].rows = Units(kind, c.vocab)
       /\ \A x \in DOMAIN H : \/ x = <<n.head, "weight">>
                              \/ c.arch = "gpt_j" /\ x = <<n.head, "bias">>
       /\ c.arch = "gpt_j" => /\ <<n.head, "bias">> \in DOMAIN H
                              /\ H[<<n.head, "bias">>].rows = BiasOf(Units(kind, c.vocab))
  <2>1. CASE c.arch = "gpt_j"
    BY <2>1 DEF H, ++, :=, Mat
  <2>2. CASE c.arch # "gpt_j"
    BY <2>2 DEF H, ++, :=, Mat
  <2> QED
    BY <2>1, <2>2
<1>12. \A s : <<n.embed, s>> \notin DOMAIN F /\ <<n.head, s>> \notin DOMAIN F
  BY <1>2, <1>9 DEF VocabNames, LayerTensors
<1>13. DOMAIN Checkpoint(c) = DOMAIN F \cup DOMAIN E \cup DOMAIN H
  BY <1>1 DEF ++
<1>14. Checkpoint(c)[<<n.embed, "weight">>] = E[<<n.embed, "weight">>]
  BY <1>1, <1>10, <1>12 DEF ++
<1>15. ASSUME n.head # n.embed
       PROVE  Checkpoint(c)[<<n.head, "weight">>] = H[<<n.head, "weight">>]
  BY <1>1, <1>10, <1>11, <1>12, <1>15 DEF ++
<1>16. ASSUME c.arch = "gpt_j"
       PROVE  Checkpoint(c)[<<n.head, "bias">>] = H[<<n.head, "bias">>]
  BY <1>1, <1>10, <1>11, <1>12, <1>16 DEF ++
<1>17. c.arch = "gpt_j" => kind = "logit"
  BY DEF TiedHead
<1>18. \A x \in DOMAIN Checkpoint(c) :
          /\ x = <<x[1], x[2]>>
          /\ \/ x[1] \in LayerTensors
             \/ x = <<n.embed, "weight">> \/ x = <<n.head, "weight">>
             \/ c.arch = "gpt_j" /\ x = <<n.head, "bias">>
  BY <1>9, <1>10, <1>11, <1>13
<1>19. <<n.embed, "weight">> \in DOMAIN Checkpoint(c) /\ <<n.head, "weight">> \in DOMAIN Checkpoint(c)
       /\ (c.arch = "gpt_j" => <<n.head, "bias">> \in DOMAIN Checkpoint(c))
  BY <1>10, <1>11, <1>13
<1> QED
  BY <1>10, <1>11, <1>14, <1>15, <1>16, <1>17, <1>18, <1>19 DEF n

-----------------------------------------------------------------------------
(* What load_weights copies into them.                                     *)

\* K alone is written, by one of the two copies that shard the vocabulary.
Writes(C, K, P, w, r) ==
    /\ DOMAIN C = {K}
    /\ \/ C[K] = load_padded_tensor_parallel_vocab(P[K], w, r)
       \/ \E column, row : /\ K \in column
                           /\ C[K] = load_tensor_parallel_weights(P[K], w, K, column, row, r)

\* Nothing of the vocabulary is written.
SparesVocab(C) == \A y \in DOMAIN C : y[1] \notin VocabNames

\* The two copies write the parameter they are given.
LEMMA CopiesWrite ==
    ASSUME NEW P, NEW K, NEW r, NEW w
    PROVE  /\ Writes(CopyPadded(P, K, r, w), K, P, w, r)
           /\ \A column, row : K \in column => Writes(CopyWhole(P, K, column, row, r, w), K, P, w, r)
<1>1. Writes(CopyPadded(P, K, r, w), K, P, w, r)
  BY DEF CopyPadded, Writes, :=
<1>2. ASSUME NEW column, NEW row, K \in column
      PROVE  Writes(CopyWhole(P, K, column, row, r, w), K, P, w, r)
  BY <1>2 DEF CopyWhole, Writes, :=
<1> QED
  BY <1>1, <1>2

\* What load_weights writes for a tensor x: of a layer, of the vocabulary, or
\* an lm_head beside a tied embedding, which bloom loads over it.
LEMMA LoadsVocab ==
    ASSUME NEW c \in Configs, NEW r, NEW P, VocabKeys(c) \subseteq DOMAIN P,
           NEW x \in DOMAIN Checkpoint(c), NEW w
    PROVE  /\ x \in VocabKeys(c) => Writes(load_weights(c, r, P, x, w), x, P, w, r)
           /\ x \notin VocabKeys(c) =>
                 \/ SparesVocab(load_weights(c, r, P, x, w))
                 \/ /\ c.arch = "bloom" /\ x = <<"lm_head", "weight">>
                    /\ Writes(load_weights(c, r, P, x, w), EmbedKey(c), P, w, r)
<1> DEFINE C == load_weights(c, r, P, x, w)
           n == TensorNames(c)
           Overwritten == /\ c.arch = "bloom" /\ x = <<"lm_head", "weight">>
                          /\ Writes(C, EmbedKey(c), P, w, r)
<1>1. /\ x = <<x[1], x[2]>>
      /\ \/ x[1] \in LayerTensors
         \/ x = <<n.embed, "weight">> \/ x = <<n.head, "weight">>
         \/ c.arch = "gpt_j" /\ x = <<n.head, "bias">>
  BY CheckpointFacts
<1>2. /\ LMOf(c).embed = n.embed
      /\ LMOf(c).head = IF TiedHead(c) THEN n.embed ELSE n.head
      /\ n.embed \in VocabNames /\ n.head \in VocabNames
  BY LMFacts, NameFacts DEF LMLike
<1>3. /\ x[1] \in LayerTensors => x \notin VocabKeys(c)
      /\ x = <<n.embed, "weight">> => x \in VocabKeys(c)
      /\ x = <<n.head, "weight">> /\ ~TiedHead(c) => x \in VocabKeys(c)
      /\ x = <<n.head, "bias">> /\ c.arch = "gpt_j" => x \in VocabKeys(c)
  BY <1>2 DEF VocabKeys, EmbedKey, HeadKey, HeadBiasKey, TiedHead, VocabNames, LayerTensors
<1>0. EmbedKey(c) = <<n.embed, "weight">>
  BY <1>2 DEF EmbedKey
<1>00. ASSUME NEW y \in VocabKeys(c)
       PROVE  \/ y = <<n.embed, "weight">>
              \/ y = <<n.head, "weight">> /\ ~TiedHead(c)
              \/ y = <<n.head, "bias">> /\ ~TiedHead(c) /\ c.arch = "gpt_j"
  <2>1. y = EmbedKey(c) \/ y = HeadKey(c) \/ (c.arch = "gpt_j" /\ y = HeadBiasKey(c))
    BY DEF VocabKeys
  <2>2. c.arch = "gpt_j" => ~TiedHead(c)
    BY DEF TiedHead
  <2> HIDE DEF n
  <2> QED
    BY <1>2, <2>1, <2>2 DEF EmbedKey, HeadKey, HeadBiasKey
<1> SUFFICES /\ x \in VocabKeys(c) => Writes(C, x, P, w, r)
             /\ x \notin VocabKeys(c) => SparesVocab(C) \/ Overwritten
  OBVIOUS
<1>4. CASE c.arch = "llama"
  <2>1. n.embed = "embed_tokens" /\ n.head = "lm_head" /\ ~TiedHead(c)
    BY <1>4 DEF TensorNames, Names, TiedHead
  <2>2. C = LlamaLoad(c, r, P, x, w)
    BY <1>4 DEF load_weights
  <2> HIDE DEF C, n
  <2> DEFINE quant == x[2] # "weight"
             T(m) == IF quant THEN Transposed(m) ELSE m
             PT == [key \in DOMAIN P |-> IF key[2] = x[2] THEN T(P[key]) ELSE P[key]]
             row == {<<m, x[2]>> : m \in {"o_proj", "down_proj"}}
  <2>3. ASSUME x[1] \in LayerTensors PROVE SparesVocab(C)
    <3>1. PICK D : /\ C = [key \in DOMAIN D |-> T(D[key])]
                   /\ DOMAIN D \in {{<<"qkv_proj", x[2]>>}, {<<"gate_up_proj", x[2]>>}, {x}}
      <4> HIDE DEF T, PT, row
      <4>1. CASE x[1] \in {"q_proj", "k_proj", "v_proj"}
        <5>1. \A at, m, shard : DOMAIN CopyShard(PT, <<"qkv_proj", x[2]>>, at, m, shard, T(w))
                                  = {<<"qkv_proj", x[2]>>}
          BY DEF CopyShard, :=
        <5> HIDE DEF PT
        <5>2. \E D : /\ C = [key \in DOMAIN D |-> T(D[key])]
                      /\ DOMAIN D = {<<"qkv_proj", x[2]>>}
          <6> DEFINE size(m) == IF x[2] \in {"qweight", "qzeros"} THEN m \div PackFactor ELSE m
                     q == Hidden(c) \div c.tp
                     kv == HeadDim * Max({1, c.kv \div c.tp})
                     kvShard == r \div Max({1, c.tp \div c.kv})
                     D(at, m, shard) == CopyShard(PT, <<"qkv_proj", x[2]>>, size(at), size(m), shard, T(w))
          <6> HIDE DEF size, q, kv, kvShard
          <6>1. CASE x[1] = "q_proj"
            <7> DEFINE d == D(0, q, r)
            <7>1. C = [key \in DOMAIN d |-> T(d[key])]
              BY <2>2, <6>1 DEF LlamaLoad, T, PT, size, q
            <7>2. DOMAIN d = {<<"qkv_proj", x[2]>>}
              BY <5>1
            <7> HIDE DEF d, T
            <7> QED
              BY <7>1, <7>2
          <6>2. CASE x[1] = "k_proj"
            <7> DEFINE d == D(q, kv, kvShard)
            <7>1. C = [key \in DOMAIN d |-> T(d[key])]
              BY <2>2, <6>2 DEF LlamaLoad, T, PT, size, q, kv, kvShard
            <7>2. DOMAIN d = {<<"qkv_proj", x[2]>>}
              BY <5>1
            <7> HIDE DEF d, T
            <7> QED
              BY <7>1, <7>2
          <6>3. CASE x[1] = "v_proj"
            <7> DEFINE d == D(q + kv, kv, kvShard)
            <7>1. C = [key \in DOMAIN d |-> T(d[key])]
              BY <2>2, <6>3 DEF LlamaLoad, T, PT, size, q, kv, kvShard
            <7>2. DOMAIN d = {<<"qkv_proj", x[2]>>}
              BY <5>1
            <7> HIDE DEF d, T
            <7> QED
              BY <7>1, <7>2
          <6> QED
            BY <4>1, <6>1, <6>2, <6>3
        <5> QED
          BY <5>2
      <4>2. CASE x[1] \in {"gate_proj", "up_proj"}
        <5> DEFINE D == CopyGateUp(PT, <<"gate_up_proj", x[2]>>,
                                   Stride(<<"gate_proj", "up_proj">>, x[1]), r, T(w))
        <5>1. C = [key \in DOMAIN D |-> T(D[key])]
          BY <2>2, <4>2 DEF LlamaLoad, T, PT
        <5>2. DOMAIN D = {<<"gate_up_proj", x[2]>>}
          BY DEF CopyGateUp, CopyShard, :=
        <5> HIDE DEF D
        <5> QED
          BY <5>1, <5>2
      <4>3. CASE x[1] \notin {"q_proj", "k_proj", "v_proj", "gate_proj", "up_proj"}
        <5>1. x[1] \notin {"embed_tokens", "lm_head"}
          BY <2>3 DEF LayerTensors
        <5>2. DOMAIN CopyWhole(PT, x, {}, row, r, T(w)) = {x}
          BY DEF CopyWhole, :=
        <5> QED
          BY <2>2, <4>3, <5>1, <5>2 DEF LlamaLoad, T, PT, row
      <4> QED
        BY <4>1, <4>2, <4>3
    <3>3. x[1] \notin VocabNames
      BY <2>3 DEF LayerTensors, VocabNames
    <3> HIDE DEF T
    <3>4. DOMAIN C = DOMAIN D
      BY <3>1
    <3> QED
      BY <3>1, <3>3, <3>4 DEF SparesVocab, VocabNames
  <2>4. ASSUME x \in VocabKeys(c) PROVE Writes(C, x, P, w, r)
    <3>1. x \in {<<"embed_tokens", "weight">>, <<"lm_head", "weight">>} /\ x \in DOMAIN P
      BY <1>00, <2>1, <2>4, <1>4
    <3>2. x[1] \in {"embed_tokens", "lm_head"} /\ x[2] = "weight"
      BY <3>1
    <3>3. DOMAIN CopyPadded(PT, x, r, w) = {x} /\ PT[x] = P[x]
      BY <3>1, <3>2 DEF CopyPadded, :=
    <3>4. C = [key \in {x} |-> CopyPadded(PT, x, r, w)[key]]
      <4>1. C = [key \in DOMAIN CopyPadded(PT, x, r, w) |-> CopyPadded(PT, x, r, w)[key]]
        BY <2>2, <3>2 DEF LlamaLoad
      <4> QED
        BY <3>3, <4>1
    <3>5. CopyPadded(PT, x, r, w)[x] = load_padded_tensor_parallel_vocab(P[x], w, r)
      BY <3>3 DEF CopyPadded, :=
    <3> HIDE DEF PT
    <3> QED
      BY <3>4, <3>5 DEF Writes
  <2>5. x[1] \in LayerTensors \/ x \in VocabKeys(c)
    BY <1>1, <1>3, <2>1, <1>4 DEF n
  <2> HIDE DEF Overwritten
  <2> QED
    BY <1>3, <2>3, <2>4, <2>5
<1>5. CASE c.arch = "mistral"
  <2>1. n.embed = "embed_tokens" /\ n.head = "lm_head" /\ ~TiedHead(c)
    BY <1>5 DEF TensorNames, Names, TiedHead
  <2>2. C = MistralLoad(c, r, P, x, w)
    BY <1>5 DEF load_weights
  <2> HIDE DEF C, n
  <2>3. ASSUME x[1] \in LayerTensors PROVE SparesVocab(C)
    BY <1>1, <2>2, <2>3 DEF MistralLoad, SparesVocab, CopyShard, CopyGateUp, CopyThird, CopyWhole, :=, ++,
                            LayerTensors, VocabNames
  <2>4. ASSUME x \in VocabKeys(c) PROVE Writes(C, x, P, w, r)
    <3>1. x \in {<<"embed_tokens", "weight">>, <<"lm_head", "weight">>}
      BY <1>00, <2>1, <2>4, <1>5
    <3>2. x[1] \in {"embed_tokens", "lm_head"}
      BY <3>1
    <3>3. C = CopyPadded(P, x, r, w)
      BY <2>2, <3>1, <3>2 DEF MistralLoad
    <3> QED
      BY <3>3, CopiesWrite
  <2>5. x[1] \in LayerTensors \/ x \in VocabKeys(c)
    BY <1>1, <1>3, <2>1, <1>5 DEF n
  <2> HIDE DEF Overwritten
  <2> QED
    BY <1>3, <2>3, <2>4, <2>5
<1>6. CASE c.arch = "aquila"
  <2>1. n.embed = "embed_tokens" /\ n.head = "lm_head" /\ ~TiedHead(c)
    BY <1>6 DEF TensorNames, Names, TiedHead
  <2>2. C = AquilaLoad(c, r, P, x, w)
    BY <1>6 DEF load_weights
  <2> HIDE DEF C, n
  <2>3. ASSUME x[1] \in LayerTensors PROVE SparesVocab(C)
    BY <1>1, <2>2, <2>3 DEF AquilaLoad, SparesVocab, CopyShard, CopyGateUp, CopyThird, CopyWhole, :=, ++,
                            LayerTensors, VocabNames
  <2>4. ASSUME x \in VocabKeys(c) PROVE Writes(C, x, P, w, r)
    <3>1. x \in {<<"embed_tokens", "weight">>, <<"lm_head", "weight">>}
      BY <1>00, <2>1, <2>4, <1>6
    <3>2. x[1] \in {"embed_tokens", "lm_head"}
      BY <3>1
    <3>3. C = CopyPadded(P, x, r, w)
      BY <2>2, <3>1, <3>2 DEF AquilaLoad
    <3> QED
      BY <3>3, CopiesWrite
  <2>5. x[1] \in LayerTensors \/ x \in VocabKeys(c)
    BY <1>1, <1>3, <2>1, <1>6 DEF n
  <2> HIDE DEF Overwritten
  <2> QED
    BY <1>3, <2>3, <2>4, <2>5
<1>7. CASE c.arch = "internlm"
  <2>1. n.embed = "embed_tokens" /\ n.head = "lm_head" /\ ~TiedHead(c)
    BY <1>7 DEF TensorNames, Names, TiedHead
  <2>2. C = InternLMLoad(c, r, P, x, w)
    BY <1>7 DEF load_weights
  <2> HIDE DEF C, n
  <2>3. ASSUME x[1] \in LayerTensors PROVE SparesVocab(C)
    BY <1>1, <2>2, <2>3 DEF InternLMLoad, SparesVocab, CopyShard, CopyGateUp, CopyThird, CopyWhole, :=, ++, Range,
                            LayerTensors, VocabNames
  <2>4. ASSUME x \in VocabKeys(c) PROVE Writes(C, x, P, w, r)
    <3>1. x \in {<<"embed_tokens", "weight">>, <<"lm_head", "weight">>}
      BY <1>00, <2>1, <2>4, <1>7
    <3>2. x[1] \in {"embed_tokens", "lm_head"}
      BY <3>1
    <3>3. C = CopyPadded(P, x, r, w)
      BY <2>2, <3>1, <3>2 DEF InternLMLoad, Range
    <3> QED
      BY <3>3, CopiesWrite
  <2>5. x[1] \in LayerTensors \/ x \in VocabKeys(c)
    BY <1>1, <1>3, <2>1, <1>7 DEF n
  <2> HIDE DEF Overwritten
  <2> QED
    BY <1>3, <2>3, <2>4, <2>5
<1>8. CASE c.arch = "baichuan"
  <2>1. n.embed = "embed_tokens" /\ n.head = "lm_head" /\ ~TiedHead(c)
    BY <1>8 DEF TensorNames, Names, TiedHead
  <2>2. C = BaiChuanLoad(c, r, P, x, w)
    BY <1>8 DEF load_weights
  <2> HIDE DEF C, n
  <2>3. ASSUME x[1] \in LayerTensors PROVE SparesVocab(C)
    BY <1>1, <2>2, <2>3 DEF BaiChuanLoad, SparesVocab, CopyShard, CopyGateUp, CopyThird, CopyWhole, :=, ++,
                            LayerTensors, VocabNames
  <2>4. ASSUME x \in VocabKeys(c) PROVE Writes(C, x, P, w, r)
    <3>1. x \in {<<"embed_tokens", "weight">>, <<"lm_head", "weight">>}
      BY <1>00, <2>1, <2>4, <1>8
    <3>2. x[1] \in {"embed_tokens", "lm_head"}
      BY <3>1
    <3>3. C = CopyPadded(P, x, r, w)
      BY <2>2, <3>1, <3>2 DEF BaiChuanLoad
    <3> QED
      BY <3>3, CopiesWrite
  <2>5. x[1] \in LayerTensors \/ x \in VocabKeys(c)
    BY <1>1, <1>3, <2>1, <1>8 DEF n
  <2> HIDE DEF Overwritten
  <2> QED
    BY <1>3, <2>3, <2>4, <2>5
<1>9. CASE c.arch = "qwen"
  <2>1. n.embed = "wte" /\ n.head = "lm_head" /\ ~TiedHead(c)
    BY <1>9 DEF TensorNames, Names, TiedHead
  <2>2. C = QWenLoad(c, r, P, x, w)
    BY <1>9 DEF load_weights
  <2> HIDE DEF C, n
  <2>3. ASSUME x[1] \in LayerTensors PROVE SparesVocab(C)
    BY <1>1, <2>2, <2>3 DEF QWenLoad, SparesVocab, CopyShard, CopyGateUp, CopyThird, CopyWhole, :=, ++,
                            LayerTensors, VocabNames
  <2>4. ASSUME x \in VocabKeys(c) PROVE Writes(C, x, P, w, r)
    <3>1. x \in {<<"wte", "weight">>, <<"lm_head", "weight">>}
      BY <1>00, <2>1, <2>4, <1>9
    <3>2. x[1] \in {"wte", "lm_head"}
      BY <3>1
    <3>3. C = CopyPadded(P, x, r, w)
      BY <2>2, <3>1, <3>2 DEF QWenLoad
    <3> QED
      BY <3>3, CopiesWrite
  <2>5. x[1] \in LayerTensors \/ x \in VocabKeys(c)
    BY <1>1, <1>3, <2>1, <1>9 DEF n
  <2> HIDE DEF Overwritten
  <2> QED
    BY <1>3, <2>3, <2>4, <2>5
<1>10. CASE c.arch = "falcon"
  <2>1. n.embed = "word_embeddings" /\ n.head = "lm_head" /\ ~TiedHead(c)
    BY <1>10 DEF TensorNames, Names, TiedHead
  <2>2. C = FalconLoad(c, r, P, x, w)
    BY <1>10 DEF load_weights
  <2> HIDE DEF C, n
  <2>3. ASSUME x[1] \in LayerTensors PROVE SparesVocab(C)
    BY <1>1, <2>2, <2>3 DEF FalconLoad, SparesVocab, CopyShard, CopyGateUp, CopyThird, CopyWhole, :=, ++,
                            LayerTensors, VocabNames
  <2>4. ASSUME x \in VocabKeys(c) PROVE Writes(C, x, P, w, r)
    <3>1. x \in {<<"word_embeddings", "weight">>, <<"lm_head", "weight">>}
      BY <1>00, <2>1, <2>4, <1>10
    <3>2. x[1] \in {"word_embeddings", "lm_head"}
      BY <3>1
    <3> DEFINE column == Weights({"word_embeddings", "lm_head"}) \cup WeightsAndBiases({"dense_h_to_4h"})
               row == Weights({"dense", "dense_4h_to_h"})
    <3>3. C = CopyWhole(P, x, column, row, r, w)
      BY <2>2, <3>1, <3>2 DEF FalconLoad
    <3>4. x \in column
      BY <3>1 DEF Weights, WeightsAndBiases
    <3> QED
      BY <3>3, <3>4, CopiesWrite
  <2>5. x[1] \in LayerTensors \/ x \in VocabKeys(c)
    BY <1>1, <1>3, <2>1, <1>10 DEF n
  <2> HIDE DEF Overwritten
  <2> QED
    BY <1>3, <2>3, <2>4, <2>5
<1>11. CASE c.arch = "gpt_bigcode"
  <2>1. n.embed = "wte" /\ n.head = "lm_head" /\ TiedHead(c)
    BY <1>11 DEF TensorNames, Names, TiedHead
  <2>2. C = GPTBigCodeLoad(c, r, P, x, w)
    BY <1>11 DEF load_weights
  <2> HIDE DEF C, n
  <2>3. ASSUME x[1] \in LayerTensors PROVE SparesVocab(C)
    BY <1>1, <2>2, <2>3 DEF GPTBigCodeLoad, SparesVocab, CopyShard, CopyGateUp, CopyThird, CopyWhole, :=, ++,
                            LayerTensors, VocabNames
  <2>4. ASSUME x \in VocabKeys(c) PROVE Writes(C, x, P, w, r)
    <3>1. x = <<"wte", "weight">>
      BY <1>00, <2>1, <2>4, <1>11
    <3>2. x[1] = "wte"
      BY <3>1
    <3>3. C = CopyPadded(P, x, r, w)
      BY <2>2, <3>1, <3>2 DEF GPTBigCodeLoad
    <3> QED
      BY <3>3, CopiesWrite
  <2>5. ASSUME x[1] \notin LayerTensors, x \notin VocabKeys(c)
        PROVE  SparesVocab(C)
    <3>1. x = <<"lm_head", "weight">>
      BY <1>1, <1>3, <2>1, <2>5, <1>11 DEF n
    <3>2. C = <<>>
      BY <2>2, <3>1 DEF GPTBigCodeLoad
    <3> QED
      BY <3>2 DEF SparesVocab
  <2> HIDE DEF Overwritten
  <2> QED
    BY <1>3, <2>3, <2>4, <2>5
<1>12. CASE c.arch = "gpt_neox"
  <2>1. n.embed = "embed_in" /\ n.head = "embed_out" /\ ~TiedHead(c)
    BY <1>12 DEF TensorNames, Names, TiedHead
  <2>2. C = GPTNeoXLoad(c, r, P, x, w)
    BY <1>12 DEF load_weights
  <2> HIDE DEF C, n
  <2>3. ASSUME x[1] \in LayerTensors PROVE SparesVocab(C)
    BY <1>1, <2>2, <2>3 DEF GPTNeoXLoad, SparesVocab, CopyShard, CopyGateUp, CopyThird, CopyWhole, :=, ++,
                            LayerTensors, VocabNames
  <2>4. ASSUME x \in VocabKeys(c) PROVE Writes(C, x, P, w, r)
    <3>1. x \in {<<"embed_in", "weight">>, <<"embed_out", "weight">>}
      BY <1>00, <2>1, <2>4, <1>12
    <3>2. x[1] \in {"embed_in", "embed_out"}
      BY <3>1
    <3> DEFINE column == Weights({"embed_in", "embed_out"}) \cup WeightsAndBiases({"dense_h_to_4h"})
               row == Weights({"dense", "dense_4h_to_h"})
    <3>3. C = CopyWhole(P, x, column, row, r, w)
      BY <2>2, <3>1, <3>2 DEF GPTNeoXLoad
    <3>4. x \in column
      BY <3>1 DEF Weights, WeightsAndBiases
    <3> QED
      BY <3>3, <3>4, CopiesWrite
  <2>5. x[1] \in LayerTensors \/ x \in VocabKeys(c)
    BY <1>1, <1>3, <2>1, <1>12 DEF n
  <2> HIDE DEF Overwritten
  <2> QED
    BY <1>3, <2>3, <2>4, <2>5
<1>13. CASE c.arch = "bloom"
  <2>1. n.embed = "word_embeddings" /\ n.head = "lm_head" /\ TiedHead(c)
    BY <1>13 DEF TensorNames, Names, TiedHead
  <2>2. C = BloomLoad(c, r, P, x, w)
    BY <1>13 DEF load_weights
  <2> HIDE DEF C, n
  <2>3. ASSUME x[1] \in LayerTensors PROVE SparesVocab(C)
    BY <1>1, <2>2, <2>3 DEF BloomLoad, SparesVocab, CopyShard, CopyGateUp, CopyThird, CopyWhole, :=, ++,
                            LayerTensors, VocabNames
  <2>4. ASSUME x \in VocabKeys(c) PROVE Writes(C, x, P, w, r)
    <3>1. x = <<"word_embeddings", "weight">>
      BY <1>00, <2>1, <2>4, <1>13
    <3>2. x[1] = "word_embeddings"
      BY <3>1
    <3> DEFINE column == Weights({"word_embeddings"}) \cup WeightsAndBiases({"dense_h_to_4h"})
               row == Weights({"dense", "dense_4h_to_h"})
    <3>3. C = CopyWhole(P, x, column, row, r, w)
      BY <2>2, <3>1, <3>2 DEF BloomLoad
    <3>4. x \in column
      BY <3>1 DEF Weights, WeightsAndBiases
    <3> QED
      BY <3>3, <3>4, CopiesWrite
  <2>5. ASSUME x[1] \notin LayerTensors, x \notin VocabKeys(c)
        PROVE  Overwritten
    <3>1. x = <<"lm_head", "weight">>
      BY <1>1, <1>3, <2>1, <2>5, <1>13 DEF n
    <3>2. EmbedKey(c) = <<"word_embeddings", "weight">>
      BY <1>0, <2>1
    <3> DEFINE column == Weights({"word_embeddings"}) \cup WeightsAndBiases({"dense_h_to_4h"})
               row == Weights({"dense", "dense_4h_to_h"})
    <3>3. C = CopyWhole(P, EmbedKey(c), column, row, r, w)
      BY <2>2, <3>1, <3>2 DEF BloomLoad
    <3>4. EmbedKey(c) \in column
      BY <3>2 DEF Weights, WeightsAndBiases
    <3>5. Writes(C, EmbedKey(c), P, w, r)
      BY <3>3, <3>4, CopiesWrite
    <3> QED
      BY <1>13, <3>1, <3>5
  <2> HIDE DEF Overwritten
  <2> QED
    BY <1>3, <2>3, <2>4, <2>5
<1>14. CASE c.arch = "mpt"
  <2>1. n.embed = "wte" /\ n.head = "wte" /\ TiedHead(c)
    BY <1>14 DEF TensorNames, Names, TiedHead
  <2>2. C = MPTLoad(c, r, P, x, w)
    BY <1>14 DEF load_weights
  <2> HIDE DEF C, n
  <2>3. ASSUME x[1] \in LayerTensors PROVE SparesVocab(C)
    BY <1>1, <2>2, <2>3 DEF MPTLoad, SparesVocab, CopyShard, CopyGateUp, CopyThird, CopyWhole, :=, ++,
                            LayerTensors, VocabNames
  <2>4. ASSUME x \in VocabKeys(c) PROVE Writes(C, x, P, w, r)
    <3>1. x = <<"wte", "weight">>
      BY <1>00, <2>1, <2>4, <1>14
    <3>2. x[1] = "wte"
      BY <3>1
    <3> DEFINE column == Weights({"wte"}) \cup WeightsAndBiases({"up_proj"})
               row == Weights({"out_proj", "down_proj"})
    <3>3. C = CopyWhole(P, x, column, row, r, w)
      BY <2>2, <3>1, <3>2 DEF MPTLoad
    <3>4. x \in column
      BY <3>1 DEF Weights, WeightsAndBiases
    <3> QED
      BY <3>3, <3>4, CopiesWrite
  <2>5. x[1] \in LayerTensors \/ x \in VocabKeys(c)
    BY <1>1, <1>3, <2>1, <1>14 DEF n
  <2> HIDE DEF Overwritten
  <2> QED
    BY <1>3, <2>3, <2>4, <2>5
<1>15. CASE c.arch = "gpt2"
  <2>1. n.embed = "wte" /\ n.head = "lm_head" /\ TiedHead(c)
    BY <1>15 DEF TensorNames, Names, TiedHead
  <2>2. C = GPT2Load(c, r, P, x, w)
    BY <1>15 DEF load_weights
  <2> HIDE DEF C, n
  <2>3. ASSUME x[1] \in LayerTensors PROVE SparesVocab(C)
    BY <1>1, <2>2, <2>3 DEF GPT2Load, SparesVocab, CopyShard, CopyGateUp, CopyThird, CopyWhole, :=, ++,
                            LayerTensors, VocabNames
  <2>4. ASSUME x \in VocabKeys(c) PROVE Writes(C, x, P, w, r)
    <3>1. x = <<"wte", "weight">>
      BY <1>00, <2>1, <2>4, <1>15
    <3>2. x[1] = "wte"
      BY <3>1
    <3>3. C = CopyPadded(P, x, r, w)
      BY <2>2, <3>1, <3>2 DEF GPT2Load, Weights
    <3> QED
      BY <3>3, CopiesWrite
  <2>5. ASSUME x[1] \notin LayerTensors, x \notin VocabKeys(c)
        PROVE  SparesVocab(C)
    <3>1. x = <<"lm_head", "weight">>
      BY <1>1, <1>3, <2>1, <2>5, <1>15 DEF n
    <3>2. C = <<>>
      BY <2>2, <3>1 DEF GPT2Load
    <3> QED
      BY <3>2 DEF SparesVocab
  <2> HIDE DEF Overwritten
  <2> QED
    BY <1>3, <2>3, <2>4, <2>5
<1>16. CASE c.arch = "gpt_j"
  <2>1. n.embed = "wte" /\ n.head = "lm_head" /\ ~TiedHead(c)
    BY <1>16 DEF TensorNames, Names, TiedHead
  <2>2. C = GPTJLoad(c, r, P, x, w)
    BY <1>16 DEF load_weights
  <2> HIDE DEF C, n
  <2>3. ASSUME x[1] \in LayerTensors PROVE SparesVocab(C)
    BY <1>1, <2>2, <2>3 DEF GPTJLoad, SparesVocab, CopyShard, CopyGateUp, CopyThird, CopyWhole, :=, ++, Range,
                            LayerTensors, VocabNames
  <2>4. ASSUME x \in VocabKeys(c) PROVE Writes(C, x, P, w, r)
    <3>1. x \in {<<"wte", "weight">>, <<"lm_head", "weight">>, <<"lm_head", "bias">>}
      BY <1>00, <2>1, <2>4, <1>16
    <3>2. x[1] \in {"wte", "lm_head"}
      BY <3>1
    <3> DEFINE column == Weights({"wte"}) \cup WeightsAndBiases({"fc_in", "lm_head"})
               row == Weights({"out_proj", "fc_out"})
    <3>3. C = CopyWhole(P, x, column, row, r, w)
      BY <2>2, <3>1, <3>2 DEF GPTJLoad, Range
    <3>4. x \in column
      BY <3>1 DEF Weights, WeightsAndBiases
    <3> QED
      BY <3>3, <3>4, CopiesWrite
  <2>5. x[1] \in LayerTensors \/ x \in VocabKeys(c)
    BY <1>1, <1>3, <2>1, <1>16 DEF n
  <2> HIDE DEF Overwritten
  <2> QED
    BY <1>3, <2>3, <2>4, <2>5
<1>17. CASE c.arch = "opt"
  <2>1. n.embed = "embed_tokens" /\ n.head = "lm_head" /\ TiedHead(c)
    BY <1>17 DEF TensorNames, Names, TiedHead
  <2>2. C = OPTLoad(c, r, P, x, w)
    BY <1>17 DEF load_weights
  <2> HIDE DEF C, n
  <2>3. ASSUME x[1] \in LayerTensors PROVE SparesVocab(C)
    BY <1>1, <2>2, <2>3 DEF OPTLoad, SparesVocab, CopyShard, CopyGateUp, CopyThird, CopyWhole, :=, ++, Range,
                            LayerTensors, VocabNames
  <2>4. ASSUME x \in VocabKeys(c) PROVE Writes(C, x, P, w, r)
    <3>1. x = <<"embed_tokens", "weight">>
      BY <1>00, <2>1, <2>4, <1>17
    <3>2. x[1] = "embed_tokens"
      BY <3>1
    <3> DEFINE column == Weights({"embed_tokens"}) \cup WeightsAndBiases({"fc1"})
               row == Weights({"out_proj", "fc2"})
    <3>3. C = CopyWhole(P, x, column, row, r, w)
      BY <2>2, <3>1, <3>2 DEF OPTLoad, Range
    <3>4. x \in column
      BY <3>1 DEF Weights, WeightsAndBiases
    <3> QED
      BY <3>3, <3>4, CopiesWrite
  <2>5. ASSUME x[1] \notin LayerTensors, x \notin VocabKeys(c)
        PROVE  SparesVocab(C)
    <3>1. x = <<"lm_head", "weight">>
      BY <1>1, <1>3, <2>1, <2>5, <1>17 DEF n
    <3>2. C = <<>>
      BY <2>2, <3>1 DEF OPTLoad, Range
    <3> QED
      BY <3>2 DEF SparesVocab
  <2> HIDE DEF Overwritten
  <2> QED
    BY <1>3, <2>3, <2>4, <2>5
<1> QED
  BY <1>4, <1>5, <1>6, <1>7, <1>8, <1>9, <1>10, <1>11, <1>12, <1>13, <1>14, <1>15, <1>16, <1>17,
     ConfigAssumption DEF Architectures

\* Shard r of a table, of the given number of rows
ShardOf(table, size, r) ==
    [i \in 1..size |-> IF r * size + i <= Len(table) THEN table[r * size + i] ELSE Unset]

\* The rows nobody wrote
Untouched(size) == [i \in 1..size |-> Unset]

\* A sequence whose first elements are those of another
LEMMA Overwritten ==
    ASSUME NEW T, NEW s \in Seq(T), NEW m \in Seq(T), Len(m) <= Len(s)
    PROVE  Slice(s, 0, 0) \o m \o Slice(s, 0 + Len(m), Len(s))
              = [i \in 1..Len(s) |-> IF i <= Len(m) THEN m[i] ELSE s[i]]
<1> DEFINE n == Len(m)
           v == Len(s)
           a == Slice(s, 0, 0)
           z == Slice(s, n, v)
           am == a \o m
           q == am \o z
<1>1. n \in Nat /\ v \in Nat /\ n <= v /\ 0 + n = n /\ v - n \in Nat /\ n + (v - n) = v
  BY LenProperties
<1>2. a = <<>>
  <2>1. SliceLen(v, 0, 0) = 0
    BY <1>1 DEF SliceLen
  <2>2. a = [i \in 1..SliceLen(v, 0, 0) |-> s[0 + i]]
    BY SliceIs
  <2> QED
    BY <2>1, <2>2
<1>3. am = m
  BY <1>2, ConcatEmptySeq
<1>4. z = [i \in 1..(v - n) |-> s[n + i]]
  <2>1. SliceLen(v, n, v) = v - n
    BY <1>1 DEF SliceLen
  <2>2. z = [i \in 1..SliceLen(v, n, v) |-> s[n + i]]
    <3> HIDE DEF n
    <3> QED
      BY <1>1, SliceIs
  <2> QED
    BY <2>1, <2>2
<1>5. z \in Seq(T) /\ Len(z) = v - n
  <2>1. \A i \in 1..(v - n) : s[n + i] \in T
    <3> TAKE i \in 1..(v - n)
    <3>1. n + i \in 1..v
      BY <1>1
    <3> QED
      BY <3>1, ElementOfSeq
  <2>2. z \in [1..(v - n) -> T]
    <3> HIDE DEF z, n, v
    <3> QED
      BY <1>4, <2>1
  <2>3. Len(z) = v - n
    BY <1>1, <1>4
  <2> DEFINE k == v - n
  <2>4. k \in Nat /\ z \in [1..k -> T]
    BY <1>1, <2>2
  <2> HIDE DEF z, k
  <2>5. z \in Seq(T)
    BY <2>4
  <2> QED
    BY <2>3, <2>5
<1>6. q = [i \in 1..v |-> IF i <= n THEN m[i] ELSE z[i - n]]
  <2>1. m \o z = [i \in 1..(n + Len(z)) |-> IF i <= n THEN m[i] ELSE z[i - n]]
    <3> HIDE DEF z
    <3> QED
      BY <1>5, ConcatIs
  <2> HIDE DEF z, am, n, v
  <2> QED
    BY <1>1, <1>3, <1>5, <2>1
<1> HIDE DEF q, n, v
<1>7. \A i \in 1..v : q[i] = IF i <= n THEN m[i] ELSE s[i]
  <2> TAKE i \in 1..v
  <2>1. CASE i <= n
    BY <1>6, <2>1
  <2>2. CASE ~(i <= n)
    <3>1. i - n \in 1..(v - n) /\ n + (i - n) = i
      BY <1>1, <2>2
    <3>2. z[i - n] = s[i]
      BY <1>4, <3>1
    <3> HIDE DEF z
    <3> QED
      BY <1>6, <2>2, <3>2
  <2> QED
    BY <2>1, <2>2
<1>8. q = [i \in 1..v |-> q[i]]
  BY <1>6
<1>9. q = [i \in 1..v |-> IF i <= n THEN m[i] ELSE s[i]]
  BY <1>7, <1>8
<1> QED
  BY <1>1, <1>9 DEF q, am, a, z, n, v

\* Shard r of a table: the rows it has, then padding
LEMMA RowsOfShard ==
    ASSUME NEW T, NEW table \in Seq(T), NEW size \in Nat, NEW f \in Nat
    PROVE  /\ SliceLen(Len(table), f, f + size) \in 0..size
           /\ Slice(table, f, f + size) = [i \in 1..SliceLen(Len(table), f, f + size) |-> table[f + i]]
           /\ \A i \in 1..size : f + i <= Len(table) <=> i <= SliceLen(Len(table), f, f + size)
<1> DEFINE k == SliceLen(Len(table), f, f + size)
<1>1. f + size \in Nat /\ f <= f + size /\ Len(table) \in Nat
  BY LenProperties
<1>2. Slice(table, f, f + size) = [i \in 1..k |-> table[f + i]]
  <2> DEFINE to == f + size
  <2>1. to \in Nat /\ f <= to
    BY <1>1
  <2> HIDE DEF to
  <2>2. Slice(table, f, to) = [i \in 1..SliceLen(Len(table), f, to) |-> table[f + i]]
    BY <2>1, SliceIs
  <2> QED
    BY <2>2 DEF to
<1>3. k \in 0..size
  BY <1>1 DEF SliceLen
<1>4. \A i \in 1..size : f + i <= Len(table) <=> i <= k
  BY <1>1 DEF SliceLen
<1> QED
  BY <1>2, <1>3, <1>4

\* A parameter that nobody wrote or that holds its shard already gets its shard
\* from the copy that pads and from the copy that demands equal shapes.
LEMMA ShardIsCopied ==
    ASSUME NEW T, Unset \in T, NEW table \in Seq(T), NEW v \in Nat, Len(table) = v,
           NEW size \in Nat, NEW r \in Nat, NEW w, w.rows = table,
           NEW p, p.rows \in {Untouched(size), ShardOf(table, size, r)}
    PROVE  /\ load_padded_tensor_parallel_vocab(p, w, r).rows = ShardOf(table, size, r)
           /\ \A K, column, row : K \in column =>
                 LET m == load_tensor_parallel_weights(p, w, K, column, row, r)
                 IN Failed(m) \/ m.rows = ShardOf(table, size, r)
<1> DEFINE f == r * size
           m == Slice(table, f, (r + 1) * size)
           n == Len(m)
           whole == ShardOf(table, size, r)
<1>1. f \in Nat /\ (r + 1) * size = f + size
  OBVIOUS
<1>2. m = Slice(table, f, f + size)
  BY <1>1
<1>3. whole = [i \in 1..size |-> IF f + i <= v THEN table[f + i] ELSE Unset]
  BY DEF ShardOf
<1> HIDE DEF f, m, whole
<1>4. f \in Nat
  BY <1>1
<1> DEFINE k == SliceLen(Len(table), f, f + size)
<1>5. /\ k \in 0..size
       /\ Slice(table, f, f + size) = [i \in 1..k |-> table[f + i]]
       /\ \A i \in 1..size : f + i <= v <=> i <= k
  <2>1. k \in 0..size
    BY <1>4, RowsOfShard
  <2>2. Slice(table, f, f + size) = [i \in 1..k |-> table[f + i]]
    BY <1>4, RowsOfShard
  <2>3. \A i \in 1..size : f + i <= Len(table) <=> i <= k
    BY <1>4, RowsOfShard
  <2> HIDE DEF k
  <2> QED
    BY <2>1, <2>2, <2>3
<1> HIDE DEF k
<1>6. m = [i \in 1..k |-> table[f + i]]
  BY <1>2, <1>5
<1>7. n \in 0..size /\ n = k
  BY <1>5, <1>6
<1>8. \A i \in 1..size : f + i <= v <=> i <= n
  BY <1>7, <1>5
<1>9. \A i \in 1..size : i <= n => m[i] = table[f + i]
  BY <1>7, <1>6
<1>10. m \in Seq(T)
  <2>1. \A i \in 1..k : table[f + i] \in T
    <3> TAKE i \in 1..k
    <3>1. i \in 1..size /\ i <= k
      BY <1>5
    <3>2. f + i <= v
      BY <1>5, <3>1
    <3>3. f + i \in 1..v
      BY <1>4, <3>1, <3>2
    <3> QED
      BY <3>3, ElementOfSeq
  <2>2. m \in [1..k -> T] /\ k \in Nat
    BY <1>5, <1>6, <2>1
  <2> HIDE DEF n
  <2> QED
    BY <2>2
<1>11. p.rows \in Seq(T) /\ Len(p.rows) = size
  <2>1. \A i \in 1..size : whole[i] \in T
    <3> TAKE i \in 1..size
    <3>1. f + i <= v => f + i \in 1..v
      BY <1>4
    <3> QED
      BY <1>3, <3>1, ElementOfSeq
  <2>2. whole \in [1..size -> T]
    BY <1>3, <2>1
  <2>3. Untouched(size) \in [1..size -> T]
    BY DEF Untouched
  <2>4. p.rows \in [1..size -> T]
    BY <2>2, <2>3 DEF whole
  <2> QED
    BY <2>4
<1>12. \A i \in 1..size : whole[i] = IF i <= n THEN m[i] ELSE p.rows[i]
  <2> HIDE DEF n
  <2> TAKE i \in 1..size
  <2>1. CASE i <= n
    BY <1>3, <1>8, <1>9, <2>1
  <2>2. CASE ~(i <= n)
    <3>1. whole[i] = Unset
      BY <1>3, <1>8, <2>2
    <3>2. p.rows[i] = Unset
      BY <3>1 DEF whole, Untouched
    <3> QED
      BY <2>2, <3>1, <3>2
  <2> QED
    BY <2>1, <2>2
<1>13. whole = [i \in 1..size |-> whole[i]]
  BY <1>3
<1>14. load_padded_tensor_parallel_vocab(p, w, r).rows = whole
  <2> DEFINE W == RowSlice(w, r * size, (r + 1) * size)
             written == Slice(p.rows, 0, 0) \o m \o Slice(p.rows, 0 + n, Len(p.rows))
  <2>1. load_padded_tensor_parallel_vocab(p, w, r) = CopyInto(p, 0, W)
    BY <1>11 DEF load_padded_tensor_parallel_vocab
  <2>2. W.rows = m
    BY DEF RowSlice, Mat, m, f
  <2>3. CopyInto(p, 0, W).rows = Slice(p.rows, 0, 0) \o W.rows \o Slice(p.rows, 0 + Len(W.rows), Len(p.rows))
    BY DEF CopyInto, Mat
  <2> HIDE DEF W
  <2>4. CopyInto(p, 0, W).rows = written
    BY <2>2, <2>3
  <2> HIDE DEF written
  <2>5. Len(m) <= Len(p.rows)
    BY <1>7, <1>11
  <2>6. written = [i \in 1..Len(p.rows) |-> IF i <= Len(m) THEN m[i] ELSE p.rows[i]]
    <3> DEFINE s == p.rows
    <3>1. s \in Seq(T) /\ Len(m) <= Len(s)
      BY <1>11, <2>5
    <3> HIDE DEF s, n
    <3>2. Slice(s, 0, 0) \o m \o Slice(s, 0 + Len(m), Len(s)) = [i \in 1..Len(s) |-> IF i <= Len(m) THEN m[i] ELSE s[i]]
      BY <1>10, <3>1, Overwritten
    <3> QED
      BY <3>2 DEF written, s, n
  <2> QED
    BY <1>11, <1>12, <1>13, <2>1, <2>4, <2>6
<1>15. ASSUME NEW K, NEW column, NEW row, K \in column
       PROVE  LET x == load_tensor_parallel_weights(p, w, K, column, row, r)
              IN Failed(x) \/ x.rows = whole
  <2> DEFINE x == load_tensor_parallel_weights(p, w, K, column, row, r)
             shard == RowSlice(w, r * size, (r + 1) * size)
  <2>1. x = IF Shape(p) = Shape(shard) THEN shard ELSE Error
    BY <1>11, <1>15 DEF load_tensor_parallel_weights
  <2>2. shard.rows = m
    BY DEF RowSlice, Mat, m, f
  <2>3. CASE Shape(p) = Shape(shard)
    <3>1. n = size
      BY <1>11, <2>2, <2>3 DEF Shape
    <3>2. m = [i \in 1..size |-> m[i]]
      BY <1>10, <3>1
    <3>3. \A i \in 1..size : whole[i] = m[i]
      BY <1>12, <3>1
    <3>4. x.rows = whole
      BY <1>13, <2>1, <2>2, <2>3, <3>2, <3>3
    <3> QED
      BY <3>4
  <2>4. CASE Shape(p) # Shape(shard)
    BY <2>1, <2>4 DEF Failed, Error, Mat
  <2> QED
    BY <2>3, <2>4
<1> QED
  BY <1>14, <1>15 DEF whole

\* The vocabulary of a checkpoint in one of the parameters
VocabRows(c, K) ==
    IF K = EmbedKey(c) THEN Units("token", c.vocab)
    ELSE IF K = HeadKey(c) THEN Units("logit", c.vocab)
    ELSE BiasOf(Units("logit", c.vocab))

\* The shard of rank r
VocabShard(c, K, r) == ShardOf(VocabRows(c, K), ShardRows(c, K), r)

\* The checkpoint holds these rows, and bloom's lm_head those of its embedding.
LEMMA VocabRowFacts ==
    ASSUME NEW c \in Configs, NEW K \in VocabKeys(c)
    PROVE  /\ VocabRows(c, K) = [i \in 1..c.vocab |-> VocabRows(c, K)[i]]
           /\ K \in DOMAIN Checkpoint(c)
           /\ Checkpoint(c)[K].rows = VocabRows(c, K)
           /\ c.arch = "bloom" =>
                 /\ K = EmbedKey(c)
                 /\ Checkpoint(c)[<<"lm_head", "weight">>].rows = VocabRows(c, K)
<1> DEFINE n == TensorNames(c)
<1>1. /\ LMOf(c).embed = n.embed
      /\ LMOf(c).head = IF TiedHead(c) THEN n.embed ELSE n.head
      /\ ~TiedHead(c) => n.head # n.embed
  BY LMFacts DEF LMLike
<1>2. /\ <<n.embed, "weight">> \in DOMAIN Checkpoint(c)
      /\ Checkpoint(c)[<<n.embed, "weight">>].rows = Units("token", c.vocab)
      /\ n.head # n.embed => /\ <<n.head, "weight">> \in DOMAIN Checkpoint(c)
                             /\ Checkpoint(c)[<<n.head, "weight">>].rows
                                  = Units(IF TiedHead(c) THEN "token" ELSE "logit", c.vocab)
      /\ c.arch = "gpt_j" => /\ <<n.head, "bias">> \in DOMAIN Checkpoint(c)
                             /\ Checkpoint(c)[<<n.head, "bias">>].rows = BiasOf(Units("logit", c.vocab))
  BY CheckpointFacts
<1>3. Units("token", c.vocab) = [i \in 1..c.vocab |-> Units("token", c.vocab)[i]]
  BY DEF Units
<1>4. /\ Units("logit", c.vocab) = [i \in 1..c.vocab |-> Units("logit", c.vocab)[i]]
      /\ BiasOf(Units("logit", c.vocab)) = [i \in 1..c.vocab |-> BiasOf(Units("logit", c.vocab))[i]]
  BY DEF Units, BiasOf
<1>5. c.arch = "gpt_j" => ~TiedHead(c)
  BY DEF TiedHead
<1>6. c.arch = "bloom" => TiedHead(c) /\ n.head = "lm_head" /\ n.embed = "word_embeddings"
  BY DEF TiedHead, TensorNames, Names
<1> HIDE DEF n
<1>7. /\ EmbedKey(c) = <<n.embed, "weight">>
      /\ HeadKey(c) = <<IF TiedHead(c) THEN n.embed ELSE n.head, "weight">>
      /\ HeadBiasKey(c) = <<IF TiedHead(c) THEN n.embed ELSE n.head, "bias">>
  BY <1>1 DEF EmbedKey, HeadKey, HeadBiasKey
<1>8. CASE K = EmbedKey(c)
  <2>1. VocabRows(c, K) = Units("token", c.vocab)
    BY <1>8 DEF VocabRows
  <2> QED
    BY <1>2, <1>3, <1>6, <1>7, <1>8, <2>1
<1>9. CASE K = HeadKey(c) /\ K # EmbedKey(c)
  <2>1. ~TiedHead(c)
    BY <1>7, <1>9
  <2>2. VocabRows(c, K) = Units("logit", c.vocab)
    BY <1>9 DEF VocabRows
  <2> QED
    BY <1>1, <1>2, <1>4, <1>6, <1>7, <1>9, <2>1, <2>2
<1>10. CASE c.arch = "gpt_j" /\ K = HeadBiasKey(c)
  <2>1. ~TiedHead(c) /\ K # HeadKey(c) /\ K # EmbedKey(c)
    BY <1>5, <1>7, <1>10
  <2>2. VocabRows(c, K) = BiasOf(Units("logit", c.vocab))
    BY <2>1 DEF VocabRows
  <2> QED
    BY <1>1, <1>2, <1>4, <1>7, <1>10, <2>1, <2>2
<1> QED
  BY <1>8, <1>9, <1>10 DEF VocabKeys

-----------------------------------------------------------------------------
(* The embedding and the logits of a loaded vocabulary.                    *)

\* A vocabulary fits in its padded size.
LEMMA PaddedVocab ==
    ASSUME NEW n \in Nat
    PROVE  padded_vocab(n) \in Nat /\ n <= padded_vocab(n)
<1> DEFINE q == (n + VocabPad - 1) \div VocabPad
<1>1. VocabPad \in Nat \ {0}
  BY SizeAssumption
<1>2. q \in Nat /\ n + VocabPad - 1 = VocabPad * q + ((n + VocabPad - 1) % VocabPad)
      /\ (n + VocabPad - 1) % VocabPad \in 0..(VocabPad - 1)
  <2>1. n + VocabPad - 1 \in Nat
    BY <1>1
  <2> QED
    BY <1>1, <2>1
<1> HIDE DEF q
<1>3. q * VocabPad = VocabPad * q /\ q * VocabPad \in Nat
  BY <1>1, <1>2
<1>4. padded_vocab(n) = q * VocabPad
  BY DEF padded_vocab, q
<1> QED
  BY <1>1, <1>2, <1>3, <1>4

\* The shards of the vocabulary that the ranks hold cover it.
LEMMA ShardsCover ==
    ASSUME NEW c \in Configs, Buildable(c), NEW K \in VocabKeys(c)
    PROVE  /\ ShardRows(c, K) \in Nat \ {0}
           /\ c.tp * ShardRows(c, K) \in Nat /\ c.vocab <= c.tp * ShardRows(c, K)
<1> DEFINE l == LayersOf(c)[K[1]]
           out == l.out
           tp == c.tp
           rows == ShardRows(c, K)
<1>1. K[1] \in VocabLayers(c)
  BY FreshVocab
<1>2. K[1] \in DOMAIN LayersOf(c) /\ l.kind = "column" /\ out \in {c.vocab, padded_vocab(c.vocab)}
  BY <1>1, VocabLayerFacts
<1>3. tp \in Nat \ {0} /\ c.vocab \in Nat \ {0}
  BY ConfigAssumption
<1>4. out \in Nat /\ c.vocab <= out
  BY <1>2, <1>3, PaddedVocab
<1>5. out % tp = 0
  BY <1>2 DEF Buildable, Divides
<1>6. rows = out \div tp
  BY DEF ShardRows
<1> HIDE DEF out, tp, rows
<1>7. out = tp * rows /\ rows \in Nat
  <2>1. out = tp * (out \div tp) + (out % tp) /\ out \div tp \in Nat
    BY <1>3, <1>4
  <2> QED
    BY <1>3, <1>5, <1>6, <2>1
<1>8. rows # 0
  BY <1>3, <1>4, <1>7
<1> QED
  BY <1>4, <1>7, <1>8 DEF tp, rows

\* Exactly one rank holds a given row.
LEMMA OneOwner ==
    ASSUME NEW tp \in Nat \ {0}, NEW rows \in Nat \ {0}, NEW t \in Nat, t < tp * rows
    PROVE  \E owner \in 0..(tp - 1) :
              /\ t - owner * rows \in 0..(rows - 1)
              /\ \A r \in 0..(tp - 1) : (t >= r * rows /\ t < r * rows + rows) <=> r = owner
<1> DEFINE owner == t \div rows
<1>1. owner \in Nat /\ t = rows * owner + (t % rows) /\ t % rows \in 0..(rows - 1)
  OBVIOUS
<1> HIDE DEF owner
<1>2. owner * rows = rows * owner /\ owner * rows \in Nat
  BY <1>1
<1>3. t - owner * rows \in 0..(rows - 1)
  BY <1>1, <1>2
<1>4. owner < tp
  <2>1. SUFFICES ASSUME owner >= tp PROVE FALSE
    BY <1>1
  <2>2. (owner - tp) * rows \in Nat /\ owner * rows = (owner - tp) * rows + tp * rows /\ tp * rows \in Nat
    BY <1>1, <2>1
  <2> QED
    BY <1>2, <1>3, <2>2
<1>5. ASSUME NEW r \in 0..(tp - 1)
      PROVE  (t >= r * rows /\ t < r * rows + rows) <=> r = owner
  <2>1. r * rows \in Nat
    OBVIOUS
  <2>2. CASE r = owner
    BY <1>2, <1>3, <2>2
  <2>3. CASE r < owner
    <3>1. (owner - r - 1) * rows \in Nat /\ owner * rows = (owner - r - 1) * rows + r * rows + rows
      BY <1>1, <2>3
    <3> QED
      BY <1>2, <1>3, <2>1, <2>3, <3>1
  <2>4. CASE r > owner
    <3>1. (r - owner - 1) * rows \in Nat /\ r * rows = (r - owner - 1) * rows + owner * rows + rows
      BY <1>1, <2>4
    <3> QED
      BY <1>2, <1>3, <2>1, <2>4, <3>1
  <2> QED
    BY <1>1, <2>2, <2>3, <2>4
<1>6. owner \in 0..(tp - 1)
  BY <1>1, <1>4
<1> QED
  BY <1>3, <1>5, <1>6

\* Every rank holds its shard of a table in a parameter.
HoldsShards(P, key, table, size, tp) ==
    /\ DOMAIN P = 0..(tp - 1)
    /\ \A r \in 0..(tp - 1) : P[r][key].rows = ShardOf(table, size, r)

\* Every rank gets the same row for a token.
EmbeddedAs(P, n, tp, t, row) ==
    EmbeddingForward(P, n, tp, t) = [r \in 0..(tp - 1) |-> SetToBag({<<row, "embedding">>})]

\* VocabParallelEmbedding.forward gives every rank the row of the token.
LEMMA EmbeddingIsUnsharded ==
    ASSUME NEW tp \in Nat \ {0}, NEW vocab \in Nat, NEW rows \in Nat \ {0}, vocab <= tp * rows,
           NEW table, Len(table) = vocab, NEW P, NEW n, HoldsShards(P, <<n, "weight">>, table, rows, tp),
           NEW t \in 0..(vocab - 1)
    PROVE  EmbeddedAs(P, n, tp, t, table[t + 1])
<1> USE DEF HoldsShards
<1> DEFINE shard(r) == P[r][<<n, "weight">>].rows
           first(r) == r * Len(shard(r))
           mine(r) == t >= first(r) /\ t < first(r) + Len(shard(r))
           partial == [r \in DOMAIN P |->
                          IF tp > 1 /\ ~mine(r) THEN EmptyBag
                          ELSE SetToBag({<<shard(r)[t - first(r) + 1], "embedding">>})]
           e == <<table[t + 1], "embedding">>
<1>1. EmbeddingForward(P, n, tp, t) = all_reduce(partial, tp)
  BY DEF EmbeddingForward
<1>2. \A r \in 0..(tp - 1) : shard(r) = ShardOf(table, rows, r) /\ Len(shard(r)) = rows
  <2>1. \A r : Len(ShardOf(table, rows, r)) = rows
    BY DEF ShardOf
  <2> QED
    BY <2>1
<1>3. tp * rows \in Nat /\ t < tp * rows /\ t \in Nat
  OBVIOUS
<1>4. PICK owner \in 0..(tp - 1) :
              /\ t - owner * rows \in 0..(rows - 1)
              /\ \A r \in 0..(tp - 1) : (t >= r * rows /\ t < r * rows + rows) <=> r = owner
  BY <1>3, OneOwner
<1>5. shard(owner)[t - first(owner) + 1] = table[t + 1]
  <2> DEFINE k == t - owner * rows + 1
  <2>1. k \in 1..rows /\ owner * rows + k = t + 1
    BY <1>3, <1>4
  <2>2. Len(table) = vocab
    OBVIOUS
  <2>3. ShardOf(table, rows, owner)[k] = table[t + 1]
    <3> HIDE DEF k
    <3> QED
      BY <2>1, <2>2 DEF ShardOf
  <2> QED
    BY <1>2, <2>3
<1>6. \A r \in 0..(tp - 1) : mine(r) <=> r = owner
  BY <1>2, <1>4
<1>7. ASSUME NEW r \in 0..(tp - 1)
      PROVE  (tp > 1 /\ ~mine(r)) <=> r # owner
  <2>1. CASE tp = 1
    <3>1. r = owner
      BY <2>1
    <3> QED
      BY <2>1, <3>1
  <2>2. CASE tp > 1
    BY <1>6, <2>2
  <2> QED
    BY <2>1, <2>2
<1>8. partial = [r \in 0..(tp - 1) |-> IF r = owner THEN SetToBag({e}) ELSE EmptyBag]
  <2> HIDE DEF mine, shard, first
  <2>1. \A r \in 0..(tp - 1) :
           (IF tp > 1 /\ ~mine(r) THEN EmptyBag
            ELSE SetToBag({<<shard(r)[t - first(r) + 1], "embedding">>}))
           = IF r = owner THEN SetToBag({e}) ELSE EmptyBag
    <3> TAKE r \in 0..(tp - 1)
    <3>1. CASE r = owner
      BY <1>5, <1>7, <3>1
    <3>2. CASE r # owner
      BY <1>7, <3>2
    <3> QED
      BY <3>1, <3>2
  <2> QED
    BY <2>1
<1> HIDE DEF partial, e
<1>9. all_reduce(partial, tp) = [r \in 0..(tp - 1) |-> SetToBag({e})]
  <2>1. owner \in 0..(tp - 1)
    BY <1>4
  <2>2. \A x : all_reduce([r \in 0..(tp - 1) |-> IF r = owner THEN SetToBag({x}) ELSE EmptyBag], tp)
                 = [r \in 0..(tp - 1) |-> SetToBag({x})]
    BY <2>1, ReduceOne
  <2> QED
    BY <1>8, <2>2
<1> QED
  BY <1>1, <1>9 DEF e, EmbeddedAs

\* The first elements of a sequence
LEMMA FirstSlice ==
    ASSUME NEW S, NEW s \in Seq(S), NEW n \in Nat, n <= Len(s)
    PROVE  Slice(s, 0, n) = [i \in 1..n |-> s[i]]
<1>1. Slice(s, 0, n) = [i \in 1..SliceLen(Len(s), 0, n) |-> s[0 + i]]
  BY SliceIs
<1>2. SliceLen(Len(s), 0, n) = n
  BY DEF SliceLen
<1>3. \A i \in 1..n : 0 + i = i
  OBVIOUS
<1> QED
  BY <1>1, <1>2, <1>3

\* Where row j of shard r is
LEMMA ShardPlace ==
    ASSUME NEW tp \in Nat \ {0}, NEW size \in Nat, NEW r \in 0..(tp - 1), NEW j \in 1..size
    PROVE  r * size + j \in 1..(tp * size)
<1>1. r * size \in Nat /\ (tp - 1 - r) * size \in Nat
      /\ tp * size = r * size + size + (tp - 1 - r) * size
  OBVIOUS
<1> QED
  BY <1>1

\* What a row of the vocabulary gives: a row and its bias, or padding
Logit(table, biases, biased, k) ==
    <<IF k <= Len(table) THEN table[k] ELSE Unset,
      IF ~biased THEN <<"no bias">> ELSE IF k <= Len(biases) THEN biases[k] ELSE Unset>>

\* The layer of the logits
LEMMA HeadLayer ==
    ASSUME NEW c \in Configs
    PROVE  LET l == LMOf(c).layers[LMOf(c).head]
           IN ~l.quant /\ (l.bias <=> c.arch = "gpt_j")
<1> DEFINE L == LMOf(c).layers
           embed == LMOf(c).embed
           head == LMOf(c).head
<1>1. PICK vin \in {c.vocab, padded_vocab(c.vocab)}, vout \in {c.vocab, padded_vocab(c.vocab)} :
         L = LMLayers(c, embed, vin, head, vout)
  BY LMFacts DEF LMLike
<1>2. c.arch = "gpt_j" => head # embed
  BY LMFacts DEF LMLike, TiedHead
<1>3. CASE head = embed
  <2>1. L[head] = VocabParallelEmbedding(vin, Hidden(c))
    BY <1>1, <1>3 DEF LMLayers, ++, :=
  <2> QED
    BY <1>2, <1>3, <2>1 DEF VocabParallelEmbedding, Layer
<1>4. CASE head # embed
  <2>1. L = (embed := VocabParallelEmbedding(vin, Hidden(c)))
             ++ (head := ColumnParallelLinear(Hidden(c), vout, IF c.arch = "gpt_j" THEN TRUE ELSE FALSE))
    BY <1>1, <1>4 DEF LMLayers
  <2>2. L[head] = ColumnParallelLinear(Hidden(c), vout, IF c.arch = "gpt_j" THEN TRUE ELSE FALSE)
    <3> HIDE DEF L
    <3> QED
      BY <1>4, <2>1 DEF ++, :=
  <2> QED
    BY <2>2 DEF ColumnParallelLinear, Layer
<1> QED
  BY <1>3, <1>4

\* The logits of a table, each with its bias if there are biases
LogitsAre(P, n, l, tp, vocab, table, biases) ==
    Slice(all_gather([r \in DOMAIN P |-> Project(P[r], n, l)], tp), 0, vocab)
       = [t \in 1..vocab |-> <<table[t], IF l.bias THEN biases[t] ELSE <<"no bias">> >>]

\* _get_logits: the logits that the ranks gather are those of the vocabulary.
LEMMA LogitsAreUnsharded ==
    ASSUME NEW tp \in Nat \ {0}, NEW vocab \in Nat, NEW size \in Nat \ {0}, vocab <= tp * size,
           NEW table, Len(table) = vocab, NEW biases, NEW l, ~l.quant, l.bias => Len(biases) = vocab,
           NEW P, NEW n, HoldsShards(P, <<n, "weight">>, table, size, tp),
           l.bias => HoldsShards(P, <<n, "bias">>, biases, size, tp)
    PROVE  LogitsAre(P, n, l, tp, vocab, table, biases)
<1> USE DEF HoldsShards
<1> DEFINE N == tp * size
           G == [k \in 1..N |-> Logit(table, biases, l.bias, k)]
           partial == [r \in DOMAIN P |-> Project(P[r], n, l)]
           all == all_gather(partial, tp)
<1>1. N \in Nat /\ Len(table) = vocab /\ (l.bias => Len(biases) = vocab)
  OBVIOUS
<1>2. ASSUME NEW r \in 0..(tp - 1)
      PROVE  partial[r] = [j \in 1..size |-> G[r * size + j]]
  <2> DEFINE weight == P[r][<<n, "weight">>].rows
             bias == P[r][<<n, "bias">>].rows
  <2>1. weight = ShardOf(table, size, r) /\ (l.bias => bias = ShardOf(biases, size, r))
    OBVIOUS
  <2>2. DOMAIN weight = 1..size
    BY <2>1 DEF ShardOf
  <2>3. partial[r] = [j \in DOMAIN weight |-> <<weight[j], IF l.bias THEN bias[j] ELSE <<"no bias">> >>]
    BY DEF Project, OutLabels
  <2>4. ASSUME NEW j \in 1..size
        PROVE  <<weight[j], IF l.bias THEN bias[j] ELSE <<"no bias">> >> = G[r * size + j]
    <3> DEFINE k == r * size + j
    <3>1. k \in 1..N
      BY ShardPlace
    <3>2. weight[j] = IF k <= Len(table) THEN table[k] ELSE Unset
      BY <2>1 DEF ShardOf
    <3>3. l.bias => bias[j] = IF k <= Len(biases) THEN biases[k] ELSE Unset
      BY <2>1 DEF ShardOf
    <3>4. G[k] = Logit(table, biases, l.bias, k)
      BY <3>1
    <3> HIDE DEF k, weight, bias, G
    <3>5. G[k] = <<weight[j], IF l.bias THEN bias[j] ELSE <<"no bias">> >>
      <4>1. CASE l.bias
        BY <3>2, <3>3, <3>4, <4>1 DEF Logit
      <4>2. CASE ~l.bias
        BY <3>2, <3>4, <4>2 DEF Logit
      <4> QED
        BY <4>1, <4>2
    <3> QED
      BY <3>5 DEF k
  <2> HIDE DEF weight, bias, partial, G
  <2> QED
    BY <2>2, <2>3, <2>4
<1>3. all = FlattenSeq([i \in 1..tp |-> [j \in 1..size |-> G[(i - 1) * size + j]]])
  <2>1. \A i \in 1..tp : partial[i - 1] = [j \in 1..size |-> G[(i - 1) * size + j]]
    <3> HIDE DEF partial, G
    <3> TAKE i \in 1..tp
    <3>1. i - 1 \in 0..(tp - 1)
      OBVIOUS
    <3> QED
      BY <1>2, <3>1
  <2>2. all = FlattenSeq([i \in 1..tp |-> partial[i - 1]])
    BY DEF all_gather
  <2> HIDE DEF partial, G, all
  <2> QED
    BY <2>1, <2>2
<1>4. all = [k \in 1..N |-> G[k]]
  <2>1. DOMAIN G = 1..(tp * size)
    OBVIOUS
  <2> HIDE DEF partial, G, all
  <2>2. FlattenSeq([i \in 1..tp |-> [j \in 1..size |-> G[(i - 1) * size + j]]])
           = [k \in 1..(tp * size) |-> G[k]]
    <3>1. size \in Nat
      OBVIOUS
    <3>2. \A g : DOMAIN g = 1..(tp * size) =>
             FlattenSeq([i \in 1..tp |-> [j \in 1..size |-> g[(i - 1) * size + j]]])
                = [k \in 1..(tp * size) |-> g[k]]
      BY <3>1, FlattenPieces, Zenon
    <3> QED
      BY <2>1, <3>2, Zenon
  <2> QED
    BY <1>3, <2>2
<1>5. Slice(all, 0, vocab) = [i \in 1..vocab |-> G[i]]
  <2> DEFINE S == {G[k] : k \in 1..N}
  <2> HIDE DEF all, G, N
  <2>1. all \in Seq(S) /\ Len(all) = N
    <3>1. all \in [1..N -> S]
      BY <1>4
    <3> HIDE DEF S
    <3>2. N \in Nat
      BY <1>1
    <3> QED
      BY <3>1, <3>2
  <2> HIDE DEF S
  <2>2. vocab <= Len(all)
    BY <2>1 DEF N
  <2>3. Slice(all, 0, vocab) = [i \in 1..vocab |-> all[i]]
    BY <2>1, <2>2, FirstSlice
  <2>4. \A i \in 1..vocab : all[i] = G[i]
    <3> TAKE i \in 1..vocab
    <3>1. i \in 1..N
      BY <1>1 DEF N
    <3> QED
      BY <1>4, <3>1
  <2> QED
    BY <2>3, <2>4
<1>6. ASSUME NEW i \in 1..vocab
      PROVE  G[i] = <<table[i], IF l.bias THEN biases[i] ELSE <<"no bias">> >>
  <2>1. i \in 1..N
    BY <1>1
  <2>2. G[i] = Logit(table, biases, l.bias, i)
    BY <2>1
  <2> HIDE DEF G
  <2> QED
    <3>1. CASE l.bias
      BY <1>1, <2>2, <3>1 DEF Logit
    <3>2. CASE ~l.bias
      <4>1. Logit(table, biases, l.bias, i) = <<IF i <= Len(table) THEN table[i] ELSE Unset, <<"no bias">> >>
        BY <3>2 DEF Logit
      <4>2. i <= Len(table)
        BY <1>1
      <4> QED
        BY <2>2, <3>2, <4>1, <4>2
    <3> QED
      BY <3>1, <3>2
<1> HIDE DEF G, all
<1>7. Slice(all, 0, vocab) = [t \in 1..vocab |-> <<table[t], IF l.bias THEN biases[t] ELSE <<"no bias">> >>]
  BY <1>5, <1>6
<1> QED
  BY <1>7 DEF all, LogitsAre

-----------------------------------------------------------------------------
(* Loading.                                                                *)

\* Nothing or all of its shard is in a parameter of the vocabulary.
VocabState(c, P, K, r) ==
    /\ K \in DOMAIN P
    /\ P[K].rows \in {Untouched(ShardRows(c, K)), VocabShard(c, K, r)}

\* A copy that does not fail puts the whole shard there.
LEMMA WritesShard ==
    \A c \in Configs : Buildable(c) => \A K \in VocabKeys(c), r \in Nat : \A w, P, C :
        w.rows = VocabRows(c, K) /\ VocabState(c, P, K, r) /\ Writes(C, K, P, w, r) /\ ~Failed(C[K])
           => C[K].rows = VocabShard(c, K, r)
<1> SUFFICES ASSUME NEW c \in Configs, Buildable(c), NEW K \in VocabKeys(c), NEW r \in Nat,
                    NEW w, NEW P, NEW C, w.rows = VocabRows(c, K), VocabState(c, P, K, r),
                    Writes(C, K, P, w, r), ~Failed(C[K])
             PROVE  C[K].rows = VocabShard(c, K, r)
  OBVIOUS
<1> DEFINE table == VocabRows(c, K)
           size == ShardRows(c, K)
           T == {table[i] : i \in 1..c.vocab} \cup {Unset}
           p == P[K]
<1>1. c.vocab \in Nat
  BY ConfigAssumption
<1>2. size \in Nat
  BY ShardsCover
<1>3. table = [i \in 1..c.vocab |-> table[i]]
  BY VocabRowFacts
<1> HIDE DEF table, size
<1>4. table \in [1..c.vocab -> T]
  BY <1>3
<1>5. Unset \in T
  OBVIOUS
<1> HIDE DEF T
<1>6. table \in Seq(T) /\ Len(table) = c.vocab
  BY <1>1, <1>4
<1>7. p.rows \in {Untouched(size), ShardOf(table, size, r)} /\ w.rows = table
  BY DEF VocabState, VocabShard, table, size
<1> HIDE DEF p
<1>8. /\ load_padded_tensor_parallel_vocab(p, w, r).rows = ShardOf(table, size, r)
      /\ \A column, row : K \in column =>
            LET m == load_tensor_parallel_weights(p, w, K, column, row, r)
            IN Failed(m) \/ m.rows = ShardOf(table, size, r)
  BY <1>1, <1>2, <1>5, <1>6, <1>7, ShardIsCopied
<1>9. DOMAIN C = {K} /\ C[K].rows = ShardOf(table, size, r)
  BY <1>8 DEF Writes, p
<1> QED
  BY <1>9 DEF VocabShard, table, size

\* One turn of the loop over the tensors, on one rank: the vocabulary's
\* parameters stay untouched or complete, and that of the tensor is complete.
LEMMA LoadKeepsVocab ==
    ASSUME NEW c \in Configs, Buildable(c), NEW r \in Nat, NEW P,
           \A K \in VocabKeys(c) : VocabState(c, P, K, r),
           NEW x \in DOMAIN Checkpoint(c), NEW C,
           C = load_weights(c, r, P, x, Checkpoint(c)[x]),
           \A K \in DOMAIN C : ~Failed(C[K]),
           NEW K \in VocabKeys(c)
    PROVE  /\ VocabState(c, C ++ P, K, r)
           /\ x = K \/ P[K].rows = VocabShard(c, K, r) => (C ++ P)[K].rows = VocabShard(c, K, r)
<1> DEFINE w == Checkpoint(c)[x]
           shard == VocabShard(c, K, r)
<1>1. VocabKeys(c) \subseteq DOMAIN P
  BY DEF VocabState
<1>2. x \in VocabKeys(c) => Writes(C, x, P, w, r)
  BY <1>1, LoadsVocab
<1>3. x \notin VocabKeys(c) =>
         \/ SparesVocab(C)
         \/ c.arch = "bloom" /\ x = <<"lm_head", "weight">> /\ Writes(C, EmbedKey(c), P, w, r)
  BY <1>1, LoadsVocab
<1>4. K[1] \in VocabNames
  <2>1. K[1] \in VocabLayers(c)
    BY FreshVocab
  <2> QED
    BY <2>1, LMFacts DEF VocabLayers, LMLike
<1>5. x = K => w.rows = VocabRows(c, K)
  BY VocabRowFacts
<1>6. c.arch = "bloom" /\ x = <<"lm_head", "weight">> => w.rows = VocabRows(c, K)
  BY VocabRowFacts
<1>7. (C ++ P)[K] = IF K \in DOMAIN C THEN C[K] ELSE P[K]
  BY <1>1 DEF ++
<1>8. K \in DOMAIN (C ++ P)
  BY <1>1 DEF ++
<1>9. CASE K \in DOMAIN C
  <2>1. Writes(C, K, P, w, r) /\ w.rows = VocabRows(c, K)
    <3>1. CASE x \in VocabKeys(c)
      <4>1. x = K
        BY <1>2, <1>9, <3>1 DEF Writes
      <4> QED
        BY <1>2, <1>5, <3>1, <4>1
    <3>2. CASE x \notin VocabKeys(c)
      <4>1. ~SparesVocab(C)
        BY <1>4, <1>9 DEF SparesVocab
      <4>2. K = EmbedKey(c)
        BY <1>3, <1>9, <3>2, <4>1 DEF Writes
      <4> QED
        BY <1>3, <1>6, <3>2, <4>1, <4>2
    <3> QED
      BY <3>1, <3>2
  <2>2. ~Failed(C[K]) /\ VocabState(c, P, K, r)
    BY <1>9
  <2> HIDE DEF w
  <2>3. C[K].rows = VocabShard(c, K, r)
    <3>1. \A v : v.rows = VocabRows(c, K) /\ Writes(C, K, P, v, r) => C[K].rows = VocabShard(c, K, r)
      BY <2>2, WritesShard
    <3> QED
      BY <2>1, <3>1
  <2> QED
    BY <1>7, <1>8, <1>9, <2>3 DEF VocabState
<1>10. CASE K \notin DOMAIN C
  <2>1. x # K
    BY <1>2, <1>10 DEF Writes
  <2> QED
    BY <1>7, <1>8, <1>10, <2>1 DEF VocabState
<1> QED
  BY <1>9, <1>10

\* The weights as get_model allocates them
LEMMA BuiltVocab ==
    ASSUME NEW c \in Configs, NEW K \in VocabKeys(c), NEW r
    PROVE  VocabState(c, StateDict(LayersOf(c), c.tp), K, r)
BY FreshVocab DEF VocabState, Untouched

-----------------------------------------------------------------------------
(* Serving.                                                                *)

\* Every rank holds its shards of the vocabulary.
VocabComplete(c, P) ==
    /\ DOMAIN P = Ranks(c)
    /\ \A r \in Ranks(c), K \in VocabKeys(c) : P[r][K].rows = VocabShard(c, K, r)

\* A token and its position are two terms.
LEMMA TwoTerms ==
    ASSUME NEW a, NEW b, a # b
    PROVE  SetToBag({a}) (+) SetToBag({b}) = SetToBag({a} \cup {b})
<1> DEFINE A == SetToBag({a})
           B == SetToBag({b})
           AB == SetToBag({a} \cup {b})
<1>1. A = [x \in {a} |-> 1] /\ B = [x \in {b} |-> 1] /\ AB = [x \in {a} \cup {b} |-> 1]
  BY DEF SetToBag
<1> HIDE DEF A, B, AB
<1>2. A (+) B = [x \in DOMAIN A \cup DOMAIN B |->
                   (IF x \in DOMAIN A THEN A[x] ELSE 0) + (IF x \in DOMAIN B THEN B[x] ELSE 0)]
  BY DEF (+)
<1>3. DOMAIN A = {a} /\ DOMAIN B = {b} /\ A[a] = 1 /\ B[b] = 1
  BY <1>1
<1>4. A (+) B = AB
  BY <1>1, <1>2, <1>3
<1> QED
  BY <1>4 DEF A, B, AB

\* Every rank gets the embedding of the token in the unsharded table.
LEMMA EmbedsToken ==
    \A c \in Configs : \A P : Buildable(c) /\ VocabComplete(c, P) =>
        \A t \in 0..(c.vocab - 1) : \A r \in Ranks(c) :
            Embed(Model(c), P, t)[r] = UnshardedEmbedding(c, t)
<1> SUFFICES ASSUME NEW c \in Configs, NEW P, Buildable(c), VocabComplete(c, P),
                    NEW t \in 0..(c.vocab - 1), NEW r \in Ranks(c)
             PROVE  Embed(Model(c), P, t)[r] = UnshardedEmbedding(c, t)
  OBVIOUS
<1> DEFINE K == EmbedKey(c)
           lm == LMOf(c)
           table == VocabRows(c, K)
           size == ShardRows(c, K)
           e == << <<"token", t + 1>>, "embedding">>
           pos == << <<"position">>, "embedding">>
           x == EmbeddingForward(P, lm.embed, c.tp, t)
           y == IF lm.positions THEN [i \in DOMAIN P |-> x[i] (+) SetToBag({pos})] ELSE x
           terms == {e} \cup (IF c.arch \in {"gpt2", "gpt_bigcode", "opt"} THEN {pos} ELSE {})
<1>1. c.tp \in Nat \ {0} /\ c.vocab \in Nat
  BY ConfigAssumption
<1>2. K \in VocabKeys(c) /\ K = <<lm.embed, "weight">>
  BY DEF VocabKeys, EmbedKey
<1>3. size \in Nat \ {0} /\ c.vocab <= c.tp * size
  BY <1>2, ShardsCover
<1>4. table = Units("token", c.vocab)
  BY DEF VocabRows
<1>5. Len(table) = c.vocab /\ table[t + 1] = <<"token", t + 1>>
  <2>1. t + 1 \in 1..c.vocab
    BY <1>1
  <2>2. table = [i \in 1..c.vocab |-> <<"token", i>>]
    BY <1>4 DEF Units
  <2> HIDE DEF table
  <2>3. table[t + 1] = <<"token", t + 1>>
    BY <2>1, <2>2
  <2>4. Len(table) = c.vocab
    BY <1>1, <2>2
  <2> QED
    BY <2>3, <2>4
<1>6. HoldsShards(P, <<lm.embed, "weight">>, table, size, c.tp)
  BY <1>2 DEF VocabComplete, Ranks, VocabShard, HoldsShards
<1>7. x = [i \in 0..(c.tp - 1) |-> SetToBag({e})]
  <2> HIDE DEF table, size, x
  <2>1. EmbeddedAs(P, lm.embed, c.tp, t, table[t + 1])
    BY <1>1, <1>3, <1>5, <1>6, EmbeddingIsUnsharded, Zenon
  <2> QED
    BY <1>5, <2>1 DEF x, EmbeddedAs
<1>8. lm.positions <=> c.arch \in {"gpt2", "gpt_bigcode", "opt"}
  BY LMFacts DEF LMLike
<1>9. lm.embedNorm <=> c.arch = "bloom"
  BY LMFacts DEF LMLike
<1>10. y[r] = SetToBag(terms) /\ DOMAIN y = DOMAIN P
  <2>1. x[r] = SetToBag({e}) /\ DOMAIN x = DOMAIN P
    BY <1>7 DEF Ranks, VocabComplete
  <2>2. e # pos
    OBVIOUS
  <2> HIDE DEF x, e, pos
  <2>3. CASE lm.positions
    <3>1. y[r] = x[r] (+) SetToBag({pos}) /\ DOMAIN y = DOMAIN P
      BY <2>3 DEF VocabComplete
    <3>2. terms = {e} \cup {pos}
      BY <1>8, <2>3
    <3> QED
      BY <2>1, <2>2, <3>1, <3>2, TwoTerms
  <2>4. CASE ~lm.positions
    <3>1. terms = {e}
      BY <1>8, <2>4
    <3> QED
      BY <2>1, <2>4, <3>1
  <2> QED
    BY <2>3, <2>4
<1>11. UnshardedEmbedding(c, t) =
         IF c.arch = "bloom" THEN SetToBag({<< <<"norm", "word_embeddings_layernorm">>, SetToBag(terms)>>})
         ELSE SetToBag(terms)
  BY DEF UnshardedEmbedding
<1>12. Embed(Model(c), P, t) = IF lm.embedNorm THEN Normed("word_embeddings_layernorm", y) ELSE y
  <2>1. Model(c).lm = lm /\ Model(c).config = c
    BY DEF Model
  <2> QED
    BY <2>1 DEF Embed
<1> HIDE DEF y, terms, lm, x
<1>13. CASE c.arch = "bloom"
  <2>1. Embed(Model(c), P, t)[r] = Normed("word_embeddings_layernorm", y)[r]
    BY <1>9, <1>12, <1>13
  <2>2. Normed("word_embeddings_layernorm", y)[r]
           = SetToBag({<< <<"norm", "word_embeddings_layernorm">>, y[r]>>})
    BY <1>10 DEF Normed, VocabComplete
  <2> QED
    BY <1>10, <1>11, <1>13, <2>1, <2>2
<1>14. CASE c.arch # "bloom"
  BY <1>9, <1>10, <1>11, <1>12, <1>14
<1> QED
  BY <1>13, <1>14

\* The logits of a vocabulary: its rows in order, with their biases.
UnshardedLogits(c) ==
    [t \in 1..c.vocab |->
        LET label == <<IF TiedHead(c) THEN "token" ELSE "logit", t>>
        IN <<label, IF c.arch = "gpt_j" THEN <<"b", label>> ELSE <<"no bias">> >>]

\* The ranks gather the logits of the unsharded model.
LEMMA GathersLogits ==
    \A c \in Configs : \A P : Buildable(c) /\ VocabComplete(c, P) =>
        get_logits(Model(c), P) = UnshardedLogits(c)
<1> SUFFICES ASSUME NEW c \in Configs, NEW P, Buildable(c), VocabComplete(c, P)
             PROVE  get_logits(Model(c), P) = UnshardedLogits(c)
  OBVIOUS
<1> DEFINE K == HeadKey(c)
           J == HeadBiasKey(c)
           lm == LMOf(c)
           l == lm.layers[lm.head]
           table == VocabRows(c, K)
           biases == VocabRows(c, J)
           size == ShardRows(c, K)
           kind == IF TiedHead(c) THEN "token" ELSE "logit"
<1>1. c.tp \in Nat \ {0} /\ c.vocab \in Nat
  BY ConfigAssumption
<1>2. /\ K \in VocabKeys(c) /\ K = <<lm.head, "weight">>
      /\ c.arch = "gpt_j" => J \in VocabKeys(c)
      /\ J = <<lm.head, "bias">>
  BY DEF VocabKeys, HeadKey, HeadBiasKey
<1>3. size \in Nat \ {0} /\ c.vocab <= c.tp * size
  BY <1>2, ShardsCover
<1>4. ~l.quant /\ (l.bias <=> c.arch = "gpt_j")
  BY HeadLayer
<1>5. TiedHead(c) <=> lm.head = lm.embed
  BY LMFacts DEF LMLike
<1>6. table = [i \in 1..c.vocab |-> <<kind, i>>]
  <2>1. K = EmbedKey(c) <=> lm.head = lm.embed
    BY <1>2 DEF EmbedKey
  <2>2. table = Units(kind, c.vocab)
    BY <1>5, <2>1 DEF VocabRows
  <2> QED
    BY <2>2 DEF Units
<1>7. c.arch = "gpt_j" => biases = [i \in 1..c.vocab |-> <<"b", <<"logit", i>> >>]
  <2>1. J # K /\ J # EmbedKey(c)
    BY <1>2 DEF EmbedKey
  <2>2. biases = BiasOf(Units("logit", c.vocab))
    BY <2>1 DEF VocabRows
  <2> QED
    BY <2>2 DEF BiasOf, Units
<1>8. c.arch = "gpt_j" => ~TiedHead(c)
  BY DEF TiedHead
<1>9. ShardRows(c, J) = size
  BY <1>2 DEF ShardRows
<1>10. HoldsShards(P, <<lm.head, "weight">>, table, size, c.tp)
  BY <1>2 DEF VocabComplete, Ranks, VocabShard, HoldsShards
<1>11. l.bias => HoldsShards(P, <<lm.head, "bias">>, biases, size, c.tp)
  BY <1>2, <1>4, <1>9 DEF VocabComplete, Ranks, VocabShard, HoldsShards
<1>12. get_logits(Model(c), P) = Slice(all_gather([r \in DOMAIN P |-> Project(P[r], lm.head, l)], c.tp), 0, c.vocab)
  <2>1. Model(c).lm = lm /\ Model(c).config = c
    BY DEF Model
  <2> QED
    BY <2>1 DEF get_logits
<1> HIDE DEF table, biases, size, l, lm
<1>13. Len(table) = c.vocab /\ (l.bias => Len(biases) = c.vocab)
  BY <1>1, <1>4, <1>6, <1>7
<1>14. LogitsAre(P, lm.head, l, c.tp, c.vocab, table, biases)
  BY <1>1, <1>3, <1>4, <1>10, <1>11, <1>13, LogitsAreUnsharded, Zenon
<1>15. ASSUME NEW t \in 1..c.vocab
       PROVE  <<table[t], IF l.bias THEN biases[t] ELSE <<"no bias">> >> = UnshardedLogits(c)[t]
  <2>1. UnshardedLogits(c)[t] = << <<kind, t>>, IF c.arch = "gpt_j" THEN <<"b", <<kind, t>> >> ELSE <<"no bias">> >>
    BY DEF UnshardedLogits
  <2>2. table[t] = <<kind, t>>
    BY <1>6
  <2>3. CASE c.arch = "gpt_j"
    <3>1. l.bias /\ biases[t] = <<"b", <<"logit", t>> >> /\ kind = "logit"
      BY <1>4, <1>7, <1>8, <2>3
    <3> QED
      BY <2>1, <2>2, <2>3, <3>1
  <2>4. CASE c.arch # "gpt_j"
    <3>1. ~l.bias
      BY <1>4, <2>4
    <3> QED
      BY <2>1, <2>2, <2>4, <3>1
  <2> QED
    BY <2>3, <2>4
<1>16. UnshardedLogits(c) = [t \in 1..c.vocab |-> UnshardedLogits(c)[t]]
  BY DEF UnshardedLogits
<1> QED
  BY <1>12, <1>14, <1>15, <1>16 DEF LogitsAre

\* While a model is loading, each of its parameters that hold the vocabulary
\* is untouched or complete on every rank, and complete once its tensor has
\* left the files.
LoadInv ==
    /\ config \in Configs
    /\ status = "loading" =>
          /\ Buildable(config) /\ model = Model(config)
          /\ files \in Seq(DOMAIN Checkpoint(config))
          /\ DOMAIN params = Ranks(config)
          /\ \A r \in Ranks(config), K \in VocabKeys(config) :
                /\ VocabState(config, params[r], K, r)
                /\ K \in Range(files) \/ params[r][K].rows = VocabShard(config, K, r)

\* What is left after the first element
LEMMA RangeOfTail ==
    ASSUME NEW S, NEW s \in Seq(S), s # <<>>
    PROVE  /\ Head(s) \in S /\ Tail(s) \in Seq(S)
           /\ \A x \in Range(s) : x = Head(s) \/ x \in Range(Tail(s))
<1>1. Head(s) \in S /\ Tail(s) \in Seq(S)
  BY HeadTailProperties
<1>2. /\ Len(s) \in Nat \ {0} /\ Head(s) = s[1] /\ Len(Tail(s)) = Len(s) - 1
      /\ \A i \in 1..Len(Tail(s)) : Tail(s)[i] = s[i + 1]
  BY HeadTailProperties, EmptySeq, LenProperties
<1>3. ASSUME NEW i \in 1..Len(s), i # 1
      PROVE  s[i] \in Range(Tail(s))
  <2>1. i - 1 \in 1..Len(Tail(s)) /\ i - 1 + 1 = i
    BY <1>2, <1>3
  <2>2. Tail(s)[i - 1] = s[i]
    BY <1>2, <2>1
  <2>3. i - 1 \in DOMAIN Tail(s)
    BY <1>1, <2>1
  <2> QED
    BY <2>2, <2>3 DEF Range
<1>4. DOMAIN s = 1..Len(s)
  BY LenProperties
<1> QED
  BY <1>1, <1>2, <1>3, <1>4 DEF Range

\* LoadInv is inductive.
LEMMA LoadInvariant == Spec => []LoadInv
<1>1. Init => LoadInv
  BY DEF Init, LoadInv
<1>2. LoadInv /\ [Next]_vars => LoadInv'
  <2> SUFFICES ASSUME LoadInv, [Next]_vars PROVE LoadInv'
    OBVIOUS
  <2>1. CASE BuildModel
    <3> DEFINE c == config
               D == DOMAIN Checkpoint(c)
    <3>1. /\ c \in Configs /\ config' = config /\ status' = "loading"
          /\ Buildable(c) /\ model' = Model(c) /\ files' \in FileOrders(c)
          /\ params' = [r \in Ranks(c) |-> StateDict(model'.layers, c.tp)]
      BY <2>1 DEF BuildModel, LoadInv
    <3>2. files' \in Seq(D) /\ Range(files') = D
      <4>1. files' \in Seq(Range(files')) /\ Range(files') = D
        BY <3>1, FilesAssumption
      <4> QED
        BY <4>1
    <3>3. model'.layers = LayersOf(c)
      BY <3>1 DEF Model
    <3>4. DOMAIN params' = Ranks(c) /\ \A r \in Ranks(c) : params'[r] = StateDict(LayersOf(c), c.tp)
      BY <3>1, <3>3
    <3>5. \A r \in Ranks(c), K \in VocabKeys(c) :
             VocabState(c, params'[r], K, r) /\ K \in Range(files')
      BY <3>1, <3>2, <3>4, BuiltVocab, VocabRowFacts
    <3> QED
      BY <3>1, <3>2, <3>4, <3>5 DEF LoadInv
  <2>2. CASE RefuseModel \/ LoadMismatch \/ NoCache \/ ExecuteTypeError
    BY <2>2 DEF RefuseModel, LoadMismatch, NoCache, ExecuteTypeError, Fail, LoadInv
  <2>3. CASE LoadTensor
    <3> DEFINE c == config
               D == DOMAIN Checkpoint(c)
               x == Head(files)
               C(r) == load_weights(c, r, params[r], x, Checkpoint(c)[x])
    <3>1. /\ c \in Configs /\ Buildable(c) /\ model = Model(c) /\ files \in Seq(D) /\ files # <<>>
          /\ DOMAIN params = Ranks(c)
      BY <2>3 DEF LoadTensor, LoadInv
    <3>2. \A r \in Ranks(c), K \in VocabKeys(c) :
             /\ VocabState(c, params[r], K, r)
             /\ K \in Range(files) \/ params[r][K].rows = VocabShard(c, K, r)
      BY <2>3 DEF LoadTensor, LoadInv
    <3>3. /\ config' = config /\ status' = status /\ model' = model /\ files' = Tail(files)
          /\ ~AnyFailed(Copied(x)) /\ params' = [r \in Ranks(c) |-> Copied(x)[r] ++ params[r]]
      BY <2>3 DEF LoadTensor
    <3>4. \A r \in Ranks(c) : Copied(x)[r] = C(r)
      BY DEF Copied
    <3>5. \A r \in Ranks(c) : \A K \in DOMAIN C(r) : ~Failed(C(r)[K])
      BY <3>3, <3>4 DEF AnyFailed
    <3>6. x \in D /\ Tail(files) \in Seq(D) /\ \A K \in Range(files) : K = x \/ K \in Range(Tail(files))
      BY <3>1, RangeOfTail
    <3>7. \A r \in Ranks(c) : r \in Nat
      BY <3>1, ConfigAssumption DEF Ranks
    <3>8. DOMAIN params' = Ranks(c) /\ \A r \in Ranks(c) : params'[r] = C(r) ++ params[r]
      BY <3>3, <3>4
    <3>9. ASSUME NEW r \in Ranks(c), NEW K \in VocabKeys(c)
          PROVE  /\ VocabState(c, params'[r], K, r)
                 /\ K \in Range(files') \/ params'[r][K].rows = VocabShard(c, K, r)
      <4> DEFINE P == params[r]
                 E == C(r)
      <4>1. \A J \in VocabKeys(c) : VocabState(c, P, J, r)
        BY <3>2
      <4>2. E = load_weights(c, r, P, x, Checkpoint(c)[x]) /\ \A J \in DOMAIN E : ~Failed(E[J])
        BY <3>5
      <4>3. r \in Nat
        BY <3>7
      <4> HIDE DEF P, E, x
      <4>4. /\ VocabState(c, E ++ P, K, r)
            /\ x = K \/ P[K].rows = VocabShard(c, K, r) => (E ++ P)[K].rows = VocabShard(c, K, r)
        BY <3>1, <3>6, <4>1, <4>2, <4>3, LoadKeepsVocab
      <4>5. params'[r] = E ++ P
        BY <3>8 DEF E, P, x
      <4>6. K = x \/ K \in Range(files') \/ P[K].rows = VocabShard(c, K, r)
        BY <3>2, <3>3, <3>6 DEF P
      <4> QED
        BY <4>4, <4>5, <4>6
    <3> HIDE DEF C, x
    <3> QED
      BY <3>1, <3>3, <3>6, <3>8, <3>9 DEF LoadInv
  <2>4. CASE Profile
    BY <2>4 DEF Profile, LoadInv
  <2>5. CASE InitCache
    BY <2>5 DEF InitCache, LoadInv
  <2>6. ASSUME NEW b \in Batches, Execute(b) PROVE LoadInv'
    BY <2>6 DEF Execute, LoadInv
  <2>7. CASE UNCHANGED vars
    BY <2>7 DEF vars, LoadInv
  <2> QED
    BY <2>1, <2>2, <2>3, <2>4, <2>5, <2>6, <2>7 DEF Next
<1> QED
  BY <1>1, <1>2, PTL DEF Spec

\* Every token is embedded by one rank with its own row, and the logits of all
\* ranks side by side are those of the vocabulary, in its order and without
\* the padding, for every architecture, number of ranks, size of the
\* vocabulary and order of the tensors in the files (VocabParallelEmbedding,
\* _get_logits and the load_weights of the models).
THEOREM VocabularyServed == Spec => []VocabularyIsUnsharded
<1>1. Init => VocabularyIsUnsharded
  BY DEF Init, VocabularyIsUnsharded
<1>2. LoadInv /\ VocabularyIsUnsharded /\ [Next]_vars => VocabularyIsUnsharded'
  <2> SUFFICES ASSUME LoadInv, VocabularyIsUnsharded, [Next]_vars PROVE VocabularyIsUnsharded'
    OBVIOUS
  <2>1. CASE Profile
    <3> DEFINE c == config
    <3>1. /\ c \in Configs /\ Buildable(c) /\ model = Model(c) /\ files = <<>>
          /\ config' = config /\ forward' = Forward(model, params)
          /\ DOMAIN params = Ranks(c)
      BY <2>1 DEF Profile, LoadInv
    <3>2. \A r \in Ranks(c), K \in VocabKeys(c) :
             K \in Range(files) \/ params[r][K].rows = VocabShard(c, K, r)
      BY <2>1 DEF Profile, LoadInv
    <3>3. Range(files) = {}
      BY <3>1 DEF Range
    <3>4. VocabComplete(c, params)
      BY <3>1, <3>2, <3>3 DEF VocabComplete
    <3>5. \A t \in 0..(c.vocab - 1) : \A r \in Ranks(c) :
             Embed(Model(c), params, t)[r] = UnshardedEmbedding(c, t)
      BY <3>1, <3>4, EmbedsToken
    <3>6. get_logits(Model(c), params) = UnshardedLogits(c)
      BY <3>1, <3>4, GathersLogits
    <3>7. Model(c).config = c
      BY DEF Model
    <3>8. forward'.logits = UnshardedLogits(c)
      BY <3>1, <3>6 DEF Forward
    <3>9. forward'.embedded = [t \in 0..(c.vocab - 1) |-> Embed(Model(c), params, t)]
      BY <3>1, <3>7 DEF Forward
    <3>10. \A t \in 0..(c.vocab - 1), r \in Ranks(c) : forward'.embedded[t][r] = UnshardedEmbedding(c, t)
      BY <3>5, <3>9
    <3> QED
      BY <3>1, <3>8, <3>10 DEF VocabularyIsUnsharded, UnshardedLogits
  <2>2. CASE UNCHANGED <<config, forward>>
    BY <2>2 DEF VocabularyIsUnsharded
  <2>3. Profile \/ UNCHANGED <<config, forward>>
    BY DEF Next, vars, BuildModel, RefuseModel, LoadTensor, LoadMismatch, InitCache, NoCache, Execute,
           ExecuteTypeError, Fail
  <2> QED
    BY <2>1, <2>2, <2>3
<1> QED
  BY <1>1, <1>2, LoadInvariant, PTL DEF Spec
=============================================================================
