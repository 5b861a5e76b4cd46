----------------------------- MODULE DataLemmas -----------------------------
(***************************************************************************)
(* Lemmas about the data of the models: the queues that are lists without  *)
(* repetition, and the sums over a finite set.                             *)
(***************************************************************************)
EXTENDS Queues, SequencesExt, SequenceTheorems, FiniteSetTheorems,
        FunctionTheorems, TLAPS

-----------------------------------------------------------------------------
(* Lists without repetition.                                               *)

\* No element is in q twice.
Once(q) == \A i, j \in DOMAIN q : q[i] = q[j] => i = j

\* append
LEMMA OnceAppend ==
    ASSUME NEW S, NEW q \in Seq(S), NEW r \in S
    PROVE  /\ Append(q, r) \in Seq(S)
           /\ ToSet(Append(q, r)) = ToSet(q) \cup {r}
           /\ Once(q) /\ r \notin ToSet(q) => Once(Append(q, r))
<1> DEFINE a == Append(q, r)
<1>1. /\ a \in Seq(S) /\ Len(a) = Len(q) + 1 /\ Len(q) \in Nat
      /\ DOMAIN a = 1..Len(a) /\ DOMAIN q = 1..Len(q)
      /\ \A i \in 1..Len(q) : a[i] = q[i]
      /\ a[Len(q) + 1] = r
  BY AppendProperties, LenProperties
<1> HIDE DEF a
<1>2. ToSet(a) = ToSet(q) \cup {r}
  BY <1>1 DEF ToSet
<1>3. Once(q) /\ r \notin ToSet(q) => Once(a)
  BY <1>1 DEF Once, ToSet
<1> QED
  BY <1>1, <1>2, <1>3 DEF a

\* pop(0) and popleft
LEMMA OnceTail ==
    ASSUME NEW S, NEW q \in Seq(S), q # <<>>
    PROVE  /\ Tail(q) \in Seq(S)
           /\ ToSet(q) = ToSet(Tail(q)) \cup {Head(q)} /\ Head(q) \in S
           /\ Once(q) => Once(Tail(q)) /\ Head(q) \notin ToSet(Tail(q))
<1> DEFINE a == Tail(q)
<1>1. /\ a \in Seq(S) /\ Len(a) = Len(q) - 1 /\ Len(q) \in Nat \ {0}
      /\ DOMAIN a = 1..Len(a) /\ DOMAIN q = 1..Len(q)
      /\ \A i \in 1..Len(a) : a[i] = q[i + 1]
      /\ Head(q) = q[1] /\ Head(q) \in S
  BY HeadTailProperties, LenProperties, EmptySeq
<1> HIDE DEF a
<1>2. ToSet(q) = ToSet(a) \cup {q[1]}
  <2>1. ASSUME NEW i \in DOMAIN q PROVE q[i] \in ToSet(a) \cup {q[1]}
    <3>1. i = 1 \/ (i - 1 \in DOMAIN a /\ q[i] = a[i - 1])
      BY <1>1
    <3> QED
      BY <3>1 DEF ToSet
  <2>2. ASSUME NEW i \in DOMAIN a PROVE a[i] \in ToSet(q)
    BY <1>1 DEF ToSet
  <2>3. q[1] \in ToSet(q)
    BY <1>1 DEF ToSet
  <2> QED
    BY <2>1, <2>2, <2>3 DEF ToSet
<1>3. ASSUME Once(q) PROVE Once(a) /\ q[1] \notin ToSet(a)
  <2>1. \A i \in DOMAIN a : i + 1 \in DOMAIN q /\ a[i] = q[i + 1] /\ i + 1 # 1
    BY <1>1
  <2>2. 1 \in DOMAIN q
    BY <1>1
  <2>3. q[1] \notin ToSet(a)
    BY <1>3, <2>1, <2>2 DEF Once, ToSet
  <2>4. Once(a)
    BY <1>1, <1>3, <2>1 DEF Once
  <2> QED
    BY <2>3, <2>4
<1> QED
  BY <1>1, <1>2, <1>3 DEF a

\* pop()
LEMMA OnceFront ==
    ASSUME NEW S, NEW q \in Seq(S), q # <<>>
    PROVE  /\ Front(q) \in Seq(S)
           /\ ToSet(q) = ToSet(Front(q)) \cup {Last(q)} /\ Last(q) \in S
           /\ Once(q) => Once(Front(q)) /\ Last(q) \notin ToSet(Front(q))
<1> DEFINE a == Front(q)
           n == Len(q)
<1>1. n \in Nat \ {0} /\ DOMAIN q = 1..n /\ \A i \in 1..n : q[i] \in S
  BY LenProperties, EmptySeq
<1>2. a \in Seq(S) /\ Len(a) = n - 1 /\ \A i \in 1..(n - 1) : a[i] = q[i]
  <2>1. \A i \in 1..(n - 1) : q[i] \in S
    BY <1>1
  <2>2. /\ SubSeq(q, 1, n - 1) \in Seq(S)
        /\ Len(SubSeq(q, 1, n - 1)) = IF 1 <= n - 1 THEN (n - 1) - 1 + 1 ELSE 0
        /\ \A i \in 1..((n - 1) - 1 + 1) : SubSeq(q, 1, n - 1)[i] = q[1 + i - 1]
    <3> HIDE DEF n
    <3> QED BY <1>1, <2>1, SubSeqProperties
  <2> QED
    BY <1>1, <2>2 DEF Front
<1>3. DOMAIN a = 1..(n - 1)
  BY <1>2, LenProperties
<1> HIDE DEF a, n
<1>4. ToSet(q) = ToSet(a) \cup {q[n]}
  <2>1. \A i \in 1..n : i = n \/ i \in 1..(n - 1)
    BY <1>1
  <2> QED
    BY <1>1, <1>2, <1>3, <2>1 DEF ToSet
<1>5. ASSUME Once(q) PROVE Once(a) /\ q[n] \notin ToSet(a)
  BY <1>1, <1>2, <1>3, <1>5 DEF Once, ToSet
<1> QED
  BY <1>1, <1>2, <1>4, <1>5 DEF a, n, Last

\* p + q
LEMMA OnceConcat ==
    ASSUME NEW S, NEW p \in Seq(S), NEW q \in Seq(S)
    PROVE  /\ p \o q \in Seq(S)
           /\ ToSet(p \o q) = ToSet(p) \cup ToSet(q)
           /\ Once(p) /\ Once(q) /\ ToSet(p) \cap ToSet(q) = {} => Once(p \o q)
<1> DEFINE a == p \o q
           m == Len(p)
           n == Len(q)
<1>1. /\ m \in Nat /\ DOMAIN p = 1..m /\ n \in Nat /\ DOMAIN q = 1..n
      /\ a \in Seq(S) /\ Len(a) = m + n /\ DOMAIN a = 1..(m + n)
      /\ \A i \in 1..(m + n) : a[i] = IF i <= m THEN p[i] ELSE q[i - m]
  BY LenProperties, ConcatProperties
<1> HIDE DEF a, m, n
<1>2. \A i \in DOMAIN a : \/ i \in DOMAIN p /\ a[i] = p[i]
                          \/ i - m \in DOMAIN q /\ a[i] = q[i - m]
  BY <1>1
<1>3. \A i \in DOMAIN p : i \in DOMAIN a /\ a[i] = p[i]
  BY <1>1
<1>4. \A i \in DOMAIN q : i + m \in DOMAIN a /\ a[i + m] = q[i]
  BY <1>1
<1>5. ToSet(a) = ToSet(p) \cup ToSet(q)
  BY <1>2, <1>3, <1>4 DEF ToSet
<1>6. ASSUME Once(p), Once(q), ToSet(p) \cap ToSet(q) = {} PROVE Once(a)
  <2>1. SUFFICES ASSUME NEW i \in DOMAIN a, NEW j \in DOMAIN a, a[i] = a[j] PROVE i = j
    BY DEF Once
  <2>2. \/ i \in DOMAIN p /\ j \in DOMAIN p /\ p[i] = p[j]
        \/ i - m \in DOMAIN q /\ j - m \in DOMAIN q /\ q[i - m] = q[j - m]
    BY <1>2, <1>6, <2>1 DEF ToSet
  <2> QED
    BY <1>1, <1>6, <2>2 DEF Once
<1> QED
  BY <1>1, <1>5, <1>6 DEF a

\* A list without repetition is as long as its set is large.
LEMMA OnceLen ==
    ASSUME NEW S, NEW q \in Seq(S)
    PROVE  /\ IsFiniteSet(ToSet(q))
           /\ Once(q) => Len(q) = Cardinality(ToSet(q))
<1>1. Len(q) \in Nat /\ q \in [1..Len(q) -> S] /\ DOMAIN q = 1..Len(q)
  BY LenProperties
<1>2. q \in [1..Len(q) -> ToSet(q)]
  BY <1>1 DEF ToSet
<1>3. q \in Surjection(1..Len(q), ToSet(q))
  BY <1>1, <1>2, Fun_IsSurj DEF ToSet
<1>4. IsFiniteSet(1..Len(q)) /\ Cardinality(1..Len(q)) = Len(q)
  BY <1>1, FS_Interval
<1>5. Once(q) => q \in Injection(1..Len(q), ToSet(q))
  BY <1>1, <1>2, Fun_IsInj DEF Once
<1> QED
  BY <1>3, <1>4, <1>5, FS_Surjection

-----------------------------------------------------------------------------
(* Sorting and filtering (Queues).                                         *)

\* The number of smaller elements tells those of S apart, and takes every
\* value below the size of S.
LEMMA CountedElement ==
    ASSUME NEW S \in SUBSET Int, IsFiniteSet(S)
    PROVE  /\ Cardinality(S) \in Nat
           /\ \A n \in S : Cardinality({m \in S : m < n}) \in 0..(Cardinality(S) - 1)
           /\ \A k, n \in S : k < n => Cardinality({m \in S : m < k})
                                    < Cardinality({m \in S : m < n})
           /\ \A i \in 1..Cardinality(S) :
                 \E n \in S : Cardinality({m \in S : m < n}) = i - 1
<1> DEFINE Below(n) == {m \in S : m < n}
           card == Cardinality(S)
           place == [n \in S |-> Cardinality(Below(n)) + 1]
<1>1. card \in Nat /\ \A n \in S : n \in Int
  BY FS_CardinalityType
<1>2. \A n \in S : IsFiniteSet(Below(n)) /\ Cardinality(Below(n)) \in Nat
  <2>1. ASSUME NEW n \in S PROVE IsFiniteSet(Below(n))
    <3>1. Below(n) \in SUBSET S
      OBVIOUS
    <3> HIDE DEF Below
    <3> QED BY <3>1, FS_Subset
  <2> HIDE DEF Below
  <2> QED BY <2>1, FS_CardinalityType
<1>3. ASSUME NEW n \in S PROVE Cardinality(Below(n)) \in 0..(card - 1)
  <2>1. Below(n) \in SUBSET S /\ n \notin Below(n)
    OBVIOUS
  <2> HIDE DEF Below
  <2>2. Cardinality(Below(n)) <= card /\ Cardinality(Below(n)) # card
    BY <2>1, FS_Subset
  <2> QED
    BY <1>1, <1>2, <2>2
<1>4. ASSUME NEW k \in S, NEW n \in S, k < n
      PROVE  Cardinality(Below(k)) < Cardinality(Below(n))
  <2>1. Below(k) \in SUBSET Below(n)
    <3>1. \A m \in S : m < k => m < n
      BY <1>1, <1>4
    <3> QED
      BY <3>1
  <2>2. k \in Below(n) /\ k \notin Below(k)
    BY <1>4
  <2> HIDE DEF Below
  <2>3. Cardinality(Below(k)) <= Cardinality(Below(n))
        /\ Cardinality(Below(k)) # Cardinality(Below(n))
    BY <1>2, <2>1, <2>2, FS_Subset
  <2> QED
    BY <1>2, <2>3
<1> HIDE DEF Below, card
<1>5. place \in Injection(S, 1..card)
  <2>1. place \in [S -> 1..card]
    BY <1>1, <1>3
  <2>2. ASSUME NEW a \in S, NEW b \in S, place[a] = place[b] PROVE a = b
    <3>1. Cardinality(Below(a)) = Cardinality(Below(b))
      BY <1>2, <2>2
    <3>2. ~(a < b) /\ ~(b < a)
      BY <1>2, <1>4, <3>1
    <3> QED
      BY <3>2
  <2> HIDE DEF place
  <2> QED
    BY <2>1, <2>2, Fun_IsInj
<1>6. place \in Surjection(S, 1..card)
  <2>1. IsFiniteSet(1..card) /\ Cardinality(1..card) = card
    BY <1>1, FS_Interval
  <2> HIDE DEF place
  <2> QED
    BY <1>5, <2>1, FS_Injection DEF card
<1>7. ASSUME NEW i \in 1..card PROVE \E n \in S : Cardinality(Below(n)) = i - 1
  <2>1. \E n \in S : place[n] = i
    <3> HIDE DEF place
    <3> QED BY <1>6 DEF Surjection
  <2>2. PICK n \in S : place[n] = i
    BY <2>1
  <2>3. Cardinality(Below(n)) + 1 = i
    BY <2>2
  <2> QED
    BY <1>2, <2>3
<1> QED
  BY <1>1, <1>3, <1>4, <1>7 DEF Below, card

\* sorted(): all elements, each once, the smaller before the larger
LEMMA AscendingFacts ==
    ASSUME NEW S \in SUBSET Int, IsFiniteSet(S)
    PROVE  /\ Ascending(S) \in Seq(S) /\ Len(Ascending(S)) = Cardinality(S)
           /\ ToSet(Ascending(S)) = S /\ Once(Ascending(S))
           /\ \A i, j \in DOMAIN Ascending(S) : i < j => Ascending(S)[i] < Ascending(S)[j]
<1> DEFINE rank(n) == Cardinality({m \in S : m < n})
           card == Cardinality(S)
           q == [i \in 1..card |-> CHOOSE n \in S : rank(n) = i - 1]
<1>1. /\ card \in Nat
      /\ \A n \in S : rank(n) \in 0..(card - 1)
      /\ \A k, n \in S : k < n => rank(k) < rank(n)
      /\ \A i \in 1..card : \E n \in S : rank(n) = i - 1
      /\ \A n \in S : n \in Int
  BY CountedElement
<1> HIDE DEF rank, card
<1>2. DOMAIN q = 1..card /\ \A i \in 1..card : q[i] \in S /\ rank(q[i]) = i - 1
  BY <1>1
<1>3. q = Ascending(S)
  BY DEF Ascending, rank, card
<1> HIDE DEF q
<1>4. q \in Seq(S) /\ Len(q) = card
  <2>1. \A i \in 1..card : q[i] \in S
    BY <1>2
  <2>2. q \in [1..card -> S]
    BY <2>1 DEF q
  <2> QED
    BY <1>1, <2>2
<1>5. ASSUME NEW i \in DOMAIN q, NEW j \in DOMAIN q, q[i] = q[j] PROVE i = j
  <2>1. i - 1 = j - 1
    BY <1>2, <1>5
  <2> QED
    BY <1>1, <1>2, <2>1
<1>6. ASSUME NEW n \in S PROVE \E i \in DOMAIN q : q[i] = n
  <2> DEFINE i == rank(n) + 1
  <2>1. i \in 1..card
    BY <1>1
  <2>2. q[i] \in S /\ rank(q[i]) = rank(n) /\ rank(n) \in Int
    BY <1>1, <1>2, <2>1
  <2>3. ~(q[i] < n) /\ ~(n < q[i]) /\ q[i] \in Int /\ n \in Int
    <3>1. q[i] < n => rank(q[i]) < rank(n)
      BY <1>1, <2>2
    <3>2. n < q[i] => rank(n) < rank(q[i])
      BY <1>1, <2>2
    <3>3. q[i] \in Int /\ n \in Int
      BY <1>1, <2>2
    <3> QED
      BY <2>2, <3>1, <3>2, <3>3
  <2>4. q[i] = n
    BY <2>3
  <2> QED
    BY <1>2, <2>1, <2>4
<1>7. ASSUME NEW i \in DOMAIN q, NEW j \in DOMAIN q, i < j PROVE q[i] < q[j]
  <2>1. i - 1 < j - 1
    BY <1>1, <1>2, <1>7
  <2>2. /\ q[i] \in S /\ q[j] \in S /\ q[i] \in Int /\ q[j] \in Int
        /\ rank(q[i]) \in Int /\ rank(q[j]) \in Int /\ rank(q[i]) < rank(q[j])
    <3>1. q[i] \in S /\ q[j] \in S
      BY <1>2
    <3>2. rank(q[i]) = i - 1 /\ rank(q[j]) = j - 1 /\ i \in Int /\ j \in Int
      BY <1>1, <1>2
    <3>3. q[i] \in Int /\ q[j] \in Int
      BY <1>1, <3>1
    <3> QED
      BY <2>1, <3>1, <3>2, <3>3
  <2>3. ~(q[j] < q[i])
    BY <1>1, <2>2
  <2>4. q[i] # q[j]
    BY <2>2
  <2> QED
    BY <2>2, <2>3, <2>4
<1>8. ToSet(q) = S
  <2>1. ToSet(q) \subseteq S
    BY <1>2 DEF ToSet
  <2>2. S \subseteq ToSet(q)
    BY <1>6 DEF ToSet
  <2> QED
    BY <2>1, <2>2
<1>9. Once(q)
  BY <1>5 DEF Once
<1> QED
  BY <1>3, <1>4, <1>7, <1>8, <1>9 DEF card

\* There is only one ascending list of the elements of S.
LEMMA AscendingUnique ==
    ASSUME NEW S \in SUBSET Int, NEW q \in Seq(S), ToSet(q) = S,
           \A i, j \in DOMAIN q : i < j => q[i] < q[j]
    PROVE  IsFiniteSet(S) /\ q = Ascending(S)
<1> DEFINE rank(n) == Cardinality({m \in S : m < n})
<1>1. Len(q) \in Nat /\ DOMAIN q = 1..Len(q)
      /\ \A i \in DOMAIN q : q[i] \in S /\ q[i] \in Int
  BY LenProperties, ElementOfSeq
<1>2. \A i, j \in DOMAIN q : q[i] < q[j] => i < j
  <2>1. ASSUME NEW i \in DOMAIN q, NEW j \in DOMAIN q, q[i] < q[j], ~(i < j) PROVE FALSE
    <3>1. i = j \/ j < i
      BY <1>1, <2>1
    <3>2. q[j] <= q[i]
      BY <1>1, <3>1
    <3> QED
      BY <1>1, <2>1, <3>2
  <2> QED
    BY <2>1
<1>3. Once(q)
  <2>1. ASSUME NEW i \in DOMAIN q, NEW j \in DOMAIN q, q[i] = q[j] PROVE i = j
    <3>1. ~(i < j) /\ ~(j < i)
      BY <1>1, <2>1
    <3> QED
      BY <1>1, <3>1
  <2> QED
    BY <2>1 DEF Once
<1>4. IsFiniteSet(S) /\ Cardinality(S) = Len(q)
  BY <1>3, OnceLen
<1>5. ASSUME NEW i \in DOMAIN q PROVE rank(q[i]) = i - 1
  <2> DEFINE Below == {m \in S : m < q[i]}
             f == [j \in 1..(i - 1) |-> q[j]]
  <2>1. i \in Nat /\ i >= 1 /\ 1..(i - 1) \subseteq DOMAIN q
    BY <1>1
  <2>2. \A j \in 1..(i - 1) : q[j] \in Below
    BY <1>1, <2>1
  <2>3. \A m \in Below : \E j \in 1..(i - 1) : q[j] = m
    <3>1. ASSUME NEW m \in Below PROVE \E j \in 1..(i - 1) : q[j] = m
      <4>1. PICK j \in DOMAIN q : q[j] = m
        BY DEF ToSet
      <4>2. j < i
        BY <1>2, <4>1
      <4> QED
        BY <1>1, <2>1, <4>1, <4>2
    <3> QED
      BY <3>1
  <2> HIDE DEF Below
  <2>4. f \in [1..(i - 1) -> Below]
    BY <2>2
  <2>5. f \in Surjection(1..(i - 1), Below)
    BY <2>3, <2>4 DEF Surjection
  <2>6. f \in Injection(1..(i - 1), Below)
    <3>1. ASSUME NEW j \in 1..(i - 1), NEW k \in 1..(i - 1), f[j] = f[k] PROVE j = k
      BY <1>3, <2>1, <3>1 DEF Once
    <3> HIDE DEF f
    <3> QED
      BY <2>4, <3>1, Fun_IsInj
  <2>7. f \in Bijection(1..(i - 1), Below)
    BY <2>5, <2>6 DEF Bijection
  <2>8. IsFiniteSet(1..(i - 1)) /\ Cardinality(1..(i - 1)) = i - 1
    <3>1. 1 \in Int /\ i - 1 \in Int
      BY <2>1
    <3>2. Cardinality(1..(i - 1)) = IF 1 > i - 1 THEN 0 ELSE (i - 1) - 1 + 1
      BY <3>1, FS_Interval
    <3> QED
      BY <2>1, <3>1, <3>2, FS_Interval
  <2>9. Cardinality(Below) = i - 1
    <3> HIDE DEF f
    <3> QED BY <2>7, <2>8, FS_Bijection DEF ExistsBijection
  <2> QED
    BY <2>9 DEF Below
<1>6. \A k, n \in S : k < n => rank(k) < rank(n)
  BY <1>4, CountedElement
<1>7. \A n \in S : rank(n) \in Nat
  BY <1>4, CountedElement
<1>8. ASSUME NEW i \in DOMAIN q PROVE q[i] = CHOOSE n \in S : rank(n) = i - 1
  <2> DEFINE c == CHOOSE n \in S : rank(n) = i - 1
  <2>1. q[i] \in S /\ rank(q[i]) = i - 1
    BY <1>1, <1>5
  <2>2. c \in S /\ rank(c) = i - 1
    <3> HIDE DEF rank
    <3> QED BY <2>1
  <2> HIDE DEF c, rank
  <2>3. ~(c < q[i]) /\ ~(q[i] < c)
    <3>1. rank(q[i]) \in Nat /\ rank(c) = rank(q[i])
      BY <1>7, <2>1, <2>2
    <3>2. c < q[i] => rank(c) < rank(q[i])
      BY <1>6, <2>1, <2>2
    <3>3. q[i] < c => rank(q[i]) < rank(c)
      BY <1>6, <2>1, <2>2
    <3> QED
      BY <3>1, <3>2, <3>3
  <2>4. c \in Int /\ q[i] \in Int
    BY <1>1, <2>2
  <2>5. c = q[i]
    BY <2>3, <2>4
  <2> QED
    BY <2>5 DEF c
<1>9. q = [i \in 1..Len(q) |-> CHOOSE n \in S : rank(n) = i - 1]
  <2> HIDE DEF rank
  <2>1. q = [i \in 1..Len(q) |-> q[i]]
    BY <1>1
  <2> QED
    BY <1>1, <1>8, <2>1
<1> QED
  BY <1>4, <1>9 DEF Ascending

\* Sorting two sets, the one before the other
LEMMA AscendingUnion ==
    ASSUME NEW A \in SUBSET Int, IsFiniteSet(A), NEW B \in SUBSET Int, IsFiniteSet(B),
           \A a \in A, b \in B : a < b
    PROVE  Ascending(A \cup B) = Ascending(A) \o Ascending(B)
<1> DEFINE p == Ascending(A)
           q == Ascending(B)
           r == p \o q
           m == Len(p)
           n == Len(q)
<1>1. /\ p \in Seq(A) /\ ToSet(p) = A /\ \A i, j \in DOMAIN p : i < j => p[i] < p[j]
      /\ q \in Seq(B) /\ ToSet(q) = B /\ \A i, j \in DOMAIN q : i < j => q[i] < q[j]
  BY AscendingFacts
<1> HIDE DEF p, q
<1>2. /\ m \in Nat /\ DOMAIN p = 1..m /\ \A i \in 1..m : p[i] \in A
      /\ n \in Nat /\ DOMAIN q = 1..n /\ \A i \in 1..n : q[i] \in B
  BY <1>1, LenProperties, ElementOfSeq
<1>3. p \in Seq(A \cup B) /\ q \in Seq(A \cup B)
  BY <1>1
<1>4. /\ r \in Seq(A \cup B) /\ DOMAIN r = 1..(m + n)
      /\ \A i \in 1..(m + n) : r[i] = IF i <= m THEN p[i] ELSE q[i - m]
  <2>1. r \in Seq(A \cup B) /\ Len(r) = m + n
        /\ \A i \in 1..(m + n) : r[i] = IF i <= m THEN p[i] ELSE q[i - m]
    BY <1>3, ConcatProperties
  <2> HIDE DEF r
  <2> QED
    BY <2>1, LenProperties
<1> HIDE DEF r, m, n
<1>5. ToSet(r) = A \cup B
  <2>1. ASSUME NEW x \in A PROVE \E i \in DOMAIN r : r[i] = x
    <3>1. PICK i \in 1..m : p[i] = x
      BY <1>1, <1>2 DEF ToSet
    <3> QED
      BY <1>2, <1>4, <3>1
  <2>2. ASSUME NEW x \in B PROVE \E i \in DOMAIN r : r[i] = x
    <3>1. PICK i \in 1..n : q[i] = x
      BY <1>1, <1>2 DEF ToSet
    <3>2. i + m \in 1..(m + n) /\ ~(i + m <= m) /\ (i + m) - m = i
      BY <1>2
    <3> QED
      BY <1>4, <3>1, <3>2
  <2>3. \A i \in DOMAIN r : r[i] \in A \cup B
    <3>1. ASSUME NEW i \in DOMAIN r PROVE r[i] \in A \cup B
      <4>1. CASE i <= m
        BY <1>2, <1>4, <4>1
      <4>2. CASE m < i
        <5>1. i - m \in 1..n /\ r[i] = q[i - m]
          BY <1>2, <1>4, <4>2
        <5> QED
          BY <1>2, <5>1
      <4> QED
        BY <1>2, <1>4, <4>1, <4>2
    <3> QED
      BY <3>1
  <2> QED
    BY <2>1, <2>2, <2>3 DEF ToSet
<1>6. ASSUME NEW i \in DOMAIN r, NEW j \in DOMAIN r, i < j PROVE r[i] < r[j]
  <2>1. CASE j <= m
    BY <1>1, <1>2, <1>4, <1>6, <2>1
  <2>2. CASE i <= m /\ m < j
    <3>1. i \in 1..m /\ j - m \in 1..n
      BY <1>2, <1>4, <2>2
    <3>2. p[i] < q[j - m]
      BY <1>2, <3>1
    <3>3. r[i] = p[i] /\ r[j] = q[j - m]
      BY <1>2, <1>4, <2>2
    <3> QED
      BY <3>2, <3>3
  <2>3. CASE m < i
    <3>1. i - m \in 1..n /\ j - m \in 1..n /\ i - m < j - m
      BY <1>2, <1>4, <1>6, <2>3
    <3> QED
      BY <1>1, <1>2, <1>4, <1>6, <2>3, <3>1
  <2> QED
    BY <1>2, <1>4, <1>6, <2>1, <2>2, <2>3
<1>7. A \cup B \in SUBSET Int
  OBVIOUS
<1>8. r = Ascending(A \cup B)
  <2> DEFINE U == A \cup B
  <2> HIDE DEF U
  <2>1. U \in SUBSET Int /\ r \in Seq(U) /\ ToSet(r) = U
    BY <1>4, <1>5, <1>7 DEF U
  <2>2. r = Ascending(U)
    BY <2>1, <1>6, AscendingUnique
  <2> QED
    BY <2>2 DEF U
<1> QED
  BY <1>8 DEF p, q, r

\* A filtered list has the elements that pass, each as often as before.
LEMMA OnlyOfFacts ==
    ASSUME NEW U, NEW q \in Seq(U), NEW S
    PROVE  /\ OnlyOf(q, S) \in Seq(U)
           /\ ToSet(OnlyOf(q, S)) = ToSet(q) \cap S
           /\ Once(q) => Once(OnlyOf(q, S))
<1> DEFINE places == {i \in DOMAIN q : q[i] \in S}
           kept == Ascending(places)
           f == OnlyOf(q, S)
<1>1. Len(q) \in Nat /\ DOMAIN q = 1..Len(q) /\ \A i \in DOMAIN q : q[i] \in U
  BY LenProperties, ElementOfSeq
<1>2. places \in SUBSET Int /\ IsFiniteSet(places)
  <2>1. places \in SUBSET (1..Len(q)) /\ IsFiniteSet(1..Len(q))
    BY <1>1, FS_Interval
  <2>2. 1..Len(q) \subseteq Int
    BY <1>1
  <2> HIDE DEF places
  <2> QED
    BY <2>1, <2>2, FS_Subset
<1>3. /\ kept \in Seq(places) /\ ToSet(kept) = places /\ Once(kept)
  <2> HIDE DEF places
  <2> QED BY <1>2, AscendingFacts
<1>4. f = [k \in DOMAIN kept |-> q[kept[k]]]
  BY DEF OnlyOf
<1> HIDE DEF f, kept
<1>5. Len(kept) \in Nat /\ DOMAIN kept = 1..Len(kept)
      /\ \A k \in DOMAIN kept : kept[k] \in places
  <2> HIDE DEF places
  <2> QED BY <1>3, LenProperties, ElementOfSeq
<1>6. f \in Seq(U) /\ DOMAIN f = DOMAIN kept
  <2>1. f \in [1..Len(kept) -> U]
    BY <1>1, <1>4, <1>5
  <2> QED
    BY <1>4, <1>5, <2>1
<1>7. ToSet(f) = ToSet(q) \cap S
  <2>1. \A x \in ToSet(f) : x \in ToSet(q) \cap S
    BY <1>4, <1>5 DEF ToSet
  <2>2. ASSUME NEW i \in DOMAIN q, q[i] \in S PROVE q[i] \in ToSet(f)
    <3>1. PICK k \in DOMAIN kept : kept[k] = i
      BY <1>3, <2>2 DEF ToSet
    <3> QED
      BY <1>4, <1>6, <3>1 DEF ToSet
  <2> QED
    BY <2>1, <2>2 DEF ToSet
<1>8. ASSUME Once(q) PROVE Once(f)
  BY <1>3, <1>4, <1>5, <1>8 DEF Once
<1> QED
  BY <1>6, <1>7, <1>8 DEF f

\* remove(x)
LEMMA WithoutFacts ==
    ASSUME NEW U, NEW q \in Seq(U), NEW x
    PROVE  /\ Without(q, x) \in Seq(U)
           /\ ToSet(Without(q, x)) = ToSet(q) \ {x}
           /\ Once(q) => Once(Without(q, x))
<1>1. {q[i] : i \in DOMAIN q} = ToSet(q)
  BY DEF ToSet
<1> QED
  BY <1>1, OnlyOfFacts DEF Without

-----------------------------------------------------------------------------
(* Sums over a finite set.                                                 *)

\* The element of s that the fold takes
Taken(s) == CHOOSE x \in s : TRUE

\* The equation of the fold, for the subsets of S
IsFold(t, g, S) ==
    t = [s \in SUBSET S |-> IF s = {} THEN 0
                            ELSE g[Taken(s)] + t[s \ {Taken(s)}]]

Fold(g, S) == CHOOSE t : IsFold(t, g, S)

Total(g, S) == MapThenSumSet(LAMBDA r : g[r], S)

\* A sum is the last value of its fold over the subsets.
LEMMA TotalIsFold ==
    ASSUME NEW g, NEW S
    PROVE  Total(g, S) = Fold(g, S)[S]
BY DEF Total, Fold, IsFold, Taken, MapThenSumSet, MapThenFoldSet

\* What is taken next from a nonempty set is one of its members.
LEMMA TakenFacts ==
    ASSUME NEW s, s # {}
    PROVE  Taken(s) \in s
BY DEF Taken

\* A set of subsets of a finite set has a minimal element
LEMMA MinimalSubset ==
    ASSUME NEW S, IsFiniteSet(S), NEW T \in SUBSET SUBSET S, T # {}
    PROVE  \E u \in T : \A v \in T : ~(v \subseteq u /\ v # u)
<1>1. IsWellFoundedOn(StrictSubsetOrdering(S), SUBSET S)
  BY FS_StrictSubsetOrderingWellFounded, FS_FiniteSubsetsOfFinite
<1>2. PICK u \in T : \A v \in T : ~(<<v, u>> \in StrictSubsetOrdering(S))
  BY <1>1, WFMin
<1> QED
  BY <1>2 DEF StrictSubsetOrdering

\* Two folds of the same function agree wherever both are defined.
LEMMA FoldsAgree ==
    ASSUME NEW g, NEW A, IsFiniteSet(A), NEW B, NEW a, NEW b,
           IsFold(a, g, A), IsFold(b, g, B)
    PROVE  \A u \in (SUBSET A) \cap (SUBSET B) : a[u] = b[u]
<1> DEFINE Bad == {u \in (SUBSET A) \cap (SUBSET B) : a[u] # b[u]}
<1>1. SUFFICES ASSUME Bad # {} PROVE FALSE
  OBVIOUS
<1>2. Bad \in SUBSET SUBSET A
  OBVIOUS
<1>3. PICK u \in Bad : \A v \in Bad : ~(v \subseteq u /\ v # u)
  <2> HIDE DEF Bad
  <2> QED
    BY <1>1, <1>2, MinimalSubset
<1>4. CASE u = {}
  <2>1. a[u] = 0 /\ b[u] = 0
    BY <1>3, <1>4 DEF IsFold
  <2> QED
    BY <1>3, <2>1
<1>5. CASE u # {}
  <2> DEFINE x == Taken(u)
             v == u \ {x}
  <2>1. x \in u
    BY <1>5, TakenFacts
  <2>2. v \in (SUBSET A) \cap (SUBSET B) /\ v \subseteq u /\ v # u
    BY <1>3, <2>1
  <2>3. a[v] = b[v]
    BY <1>3, <2>2
  <2>4. a[u] = g[x] + a[v] /\ b[u] = g[x] + b[v]
    BY <1>3, <1>5 DEF IsFold
  <2> QED
    BY <1>3, <2>3, <2>4
<1> QED
  BY <1>4, <1>5

\* The fold over the subsets of a finite set exists.
LEMMA FoldExists ==
    ASSUME NEW g, NEW S, IsFiniteSet(S)
    PROVE  IsFold(Fold(g, S), g, S)
<1> DEFINE Bad == {T \in SUBSET S : ~IsFold(Fold(g, T), g, T)}
<1>1. SUFFICES ASSUME Bad # {} PROVE FALSE
  OBVIOUS
<1>2. Bad \in SUBSET SUBSET S
  OBVIOUS
<1>3. PICK T \in Bad : \A v \in Bad : ~(v \subseteq T /\ v # T)
  <2> HIDE DEF Bad
  <2> QED
    BY <1>1, <1>2, MinimalSubset
<1>4. \A v \in SUBSET T : v # T => IsFold(Fold(g, v), g, v)
  BY <1>3
<1> DEFINE t == [s \in SUBSET T |->
                   IF s = {} THEN 0
                   ELSE g[Taken(s)] + Fold(g, s \ {Taken(s)})[s \ {Taken(s)}]]
<1>5. IsFold(t, g, T)
  <2>1. ASSUME NEW s \in SUBSET T, s # {}
        PROVE  t[s \ {Taken(s)}] = Fold(g, s \ {Taken(s)})[s \ {Taken(s)}]
    <3> DEFINE u == s \ {Taken(s)}
               v == u \ {Taken(u)}
    <3>1. Taken(s) \in s
      BY <2>1, TakenFacts
    <3>2. u \in SUBSET T /\ u # T
      BY <3>1
    <3>3. IsFold(Fold(g, u), g, u)
      BY <3>2, <1>4
    <3>4. CASE u = {}
      BY <3>2, <3>3, <3>4 DEF IsFold
    <3>5. CASE u # {}
      <4>1. Taken(u) \in u
        BY <3>5, TakenFacts
      <4>2. v \in SUBSET T /\ v # T
        BY <3>2, <4>1
      <4>3. IsFold(Fold(g, v), g, v)
        BY <4>2, <1>4
      <4>4. IsFiniteSet(v)
        BY <4>2, FS_Subset
      <4>5. v \in (SUBSET v) \cap (SUBSET u)
        OBVIOUS
      <4>6. Fold(g, v)[v] = Fold(g, u)[v]
        BY <4>3, <4>4, <4>5, <3>3, FoldsAgree
      <4>7. Fold(g, u)[u] = g[Taken(u)] + Fold(g, u)[v]
        BY <3>3, <3>5 DEF IsFold
      <4>8. t[u] = g[Taken(u)] + Fold(g, v)[v]
        BY <3>2, <3>5
      <4> QED
        BY <4>6, <4>7, <4>8
    <3> QED
      BY <3>4, <3>5
  <2>2. t = [s \in SUBSET T |-> IF s = {} THEN 0
                               ELSE g[Taken(s)] + t[s \ {Taken(s)}]]
    BY <2>1
  <2> QED
    BY <2>2 DEF IsFold
<1>6. IsFold(Fold(g, T), g, T)
  BY <1>5 DEF Fold
<1> QED
  BY <1>3, <1>6

\* The sum of integers is an integer, and changes with one term.
LEMMA TotalType ==
    ASSUME NEW S, IsFiniteSet(S), NEW g \in [S -> Int]
    PROVE  Total(g, S) \in Int
<1> DEFINE t == Fold(g, S)
           Bad == {T \in SUBSET S : t[T] \notin Int}
<1>1. IsFold(t, g, S)
  BY FoldExists
<1> HIDE DEF t
<1>2. SUFFICES ASSUME Bad # {} PROVE FALSE
  BY TotalIsFold DEF t
<1>3. PICK T \in Bad : \A v \in Bad : ~(v \subseteq T /\ v # T)
  <2>1. Bad \in SUBSET SUBSET S
    OBVIOUS
  <2> HIDE DEF Bad
  <2> QED
    BY <1>2, <2>1, MinimalSubset
<1>4. T # {}
  BY <1>1, <1>3 DEF IsFold
<1>5. Taken(T) \in T
  BY <1>4, TakenFacts
<1>6. t[T \ {Taken(T)}] \in Int
  BY <1>3, <1>5
<1>7. t[T] = g[Taken(T)] + t[T \ {Taken(T)}]
  BY <1>1, <1>3, <1>4 DEF IsFold
<1> QED
  BY <1>3, <1>5, <1>6, <1>7

\* When one value changes, the sum changes by the difference.
LEMMA TotalUpdate ==
    ASSUME NEW S, IsFiniteSet(S), NEW g \in [S -> Int], NEW h \in [S -> Int],
           NEW r \in S, \A s \in S \ {r} : h[s] = g[s]
    PROVE  Total(h, S) = Total(g, S) + h[r] - g[r]
<1> DEFINE t == Fold(g, S)
           w == Fold(h, S)
           d(T) == IF r \in T THEN h[r] - g[r] ELSE 0
           Bad == {T \in SUBSET S : ~(t[T] \in Int /\ w[T] = t[T] + d(T))}
<1>1. IsFold(t, g, S) /\ IsFold(w, h, S)
  BY FoldExists
<1> HIDE DEF t, w
<1>2. SUFFICES ASSUME Bad # {} PROVE FALSE
  BY TotalIsFold DEF t, w
<1>3. PICK T \in Bad : \A v \in Bad : ~(v \subseteq T /\ v # T)
  <2>1. Bad \in SUBSET SUBSET S
    OBVIOUS
  <2> HIDE DEF Bad
  <2> QED
    BY <1>2, <2>1, MinimalSubset
<1>4. T # {}
  <2>1. ASSUME T = {} PROVE t[T] = 0 /\ w[T] = 0 /\ d(T) = 0
    BY <1>1, <1>3, <2>1 DEF IsFold
  <2> QED
    BY <1>3, <2>1
<1> DEFINE x == Taken(T)
           v == T \ {x}
<1>5. x \in T /\ x \in S
  BY <1>3, <1>4, TakenFacts
<1> HIDE DEF x
<1>6. t[v] \in Int /\ w[v] = t[v] + d(v)
  BY <1>3, <1>5
<1>7. t[T] = g[x] + t[v] /\ w[T] = h[x] + w[v]
  BY <1>1, <1>3, <1>4 DEF IsFold, x
<1>8. CASE x = r
  <2>1. d(v) = 0 /\ d(T) = h[r] - g[r]
    BY <1>5, <1>8
  <2>2. w[T] = t[T] + d(T) /\ t[T] \in Int
    BY <1>5, <1>6, <1>7, <1>8, <2>1
  <2> QED
    BY <1>3, <2>2
<1>9. CASE x # r
  <2>1. d(v) = d(T) /\ d(T) \in Int /\ h[x] = g[x]
    BY <1>5, <1>9
  <2>2. w[T] = t[T] + d(T) /\ t[T] \in Int
    <3> HIDE DEF d, v
    <3> QED BY <1>5, <1>6, <1>7, <2>1
  <2> QED
    BY <1>3, <2>2
<1> QED
  BY <1>8, <1>9

\* A sum of zeros is zero.
LEMMA TotalZero ==
    ASSUME NEW S, IsFiniteSet(S), NEW g, \A r \in S : g[r] = 0
    PROVE  Total(g, S) = 0
<1> DEFINE t == Fold(g, S)
           Bad == {T \in SUBSET S : t[T] # 0}
<1>1. IsFold(t, g, S)
  BY FoldExists
<1> HIDE DEF t
<1>2. SUFFICES ASSUME Bad # {} PROVE FALSE
  BY TotalIsFold DEF t
<1>3. PICK T \in Bad : \A v \in Bad : ~(v \subseteq T /\ v # T)
  <2>1. Bad \in SUBSET SUBSET S
    OBVIOUS
  <2> HIDE DEF Bad
  <2> QED
    BY <1>2, <2>1, MinimalSubset
<1>4. T # {}
  BY <1>1, <1>3 DEF IsFold
<1>5. Taken(T) \in T
  BY <1>4, TakenFacts
<1>6. t[T \ {Taken(T)}] = 0
  BY <1>3, <1>5
<1>7. t[T] = g[Taken(T)] + t[T \ {Taken(T)}]
  BY <1>1, <1>3, <1>4 DEF IsFold
<1> QED
  BY <1>3, <1>5, <1>6, <1>7

=============================================================================
