------------------------------- MODULE Queues -------------------------------
(***************************************************************************)
(* The list operations of the schedulers: a queue is sorted by arrival,    *)
(* filtered, or loses one element.                                         *)
(***************************************************************************)
EXTENDS Integers, Sequences, FiniteSets

\* sort_by_priority of the policy "fcfs": at place i is the number of S that
\* has i - 1 smaller ones.
Ascending(S) ==
    [i \in 1..Cardinality(S) |-> CHOOSE n \in S : Cardinality({m \in S : m < n}) = i - 1]

\* [x for x in q if x in S]
OnlyOf(q, S) ==
    LET kept == Ascending({i \in DOMAIN q : q[i] \in S})
    IN  [k \in DOMAIN kept |-> q[kept[k]]]

\* q.remove(x), where x is in q at most once
Without(q, x) == OnlyOf(q, {q[i] : i \in DOMAIN q} \ {x})
=============================================================================
