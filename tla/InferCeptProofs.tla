-------------------------- MODULE InferCeptProofs ---------------------------
(***************************************************************************)
(* Proofs about InferCept, for every set of requests, every number of      *)
(* blocks on the two devices and every limit of a step: the one queue of a *)
(* request, the blocks of a victim, the block table that is split between  *)
(* the devices, and what a scheduled request keeps.                        *)
(***************************************************************************)
EXTENDS InferCept, DataLemmas

-----------------------------------------------------------------------------
(* The queues.  A pass pops its targets one by one; those that are popped  *)
(* and not scheduled are in `delayed`, but for the one of the preemption   *)
(* loop, cur.                                                              *)

Statuses == {"none", "WAITING", "RUNNING", "SWAPPED", "PAUSED_API"} \cup Finished
Afters == {"after1", "after2", "after3"}

Popped == ToSet(delayed) \cup ({cur} \ {0})

\* The status of the targets of the pass
TargetStatus == CASE pc \in {"pass1", "after1"} -> "RUNNING"
                  [] pc \in {"pass2", "after2"} -> "SWAPPED"
                  [] OTHER -> "WAITING"

QueueTypes ==
    /\ waiting \in Seq(Seqs) /\ running \in Seq(Seqs) /\ swapped \in Seq(Seqs)
    /\ delayed \in Seq(Seqs)
    /\ mode \in [Seqs -> {"none", "PRESERVE", "SWAP", "RECOMPUTE"}]
    /\ status \in [Seqs -> Statuses]
    /\ cur \in Seqs \cup {0} /\ need \in Nat
    /\ victims \subseteq Seqs /\ demoted \subseteq Seqs
    /\ scheduled \subseteq Seqs /\ sampled \subseteq Seqs
    /\ discards \in [queue : Seq(Seqs), paused : SUBSET Seqs]
    /\ pc \in {"idle", "pause", "execute", "process"} \cup Passes \cup Afters

\* No list names a request twice.
NoRepetition ==
    /\ Once(waiting) /\ Once(running) /\ Once(swapped) /\ Once(delayed)
    /\ Once(discards.queue)

\* The status says where a request is.
StatusInv == \A r \in Seqs :
    /\ mode[r] # "none" <=> status[r] = "PAUSED_API"
    /\ r \in ToSet(waiting) => status[r] = "WAITING"
    /\ r \in ToSet(swapped) => status[r] = "SWAPPED"
    /\ r \in ToSet(running)
         => \/ status[r] = "RUNNING"
            \/ /\ pc = "process" /\ r \notin sampled
               /\ status[r] \in {"PAUSED_API"} \cup Finished
    /\ r \in scheduled => status[r] = "RUNNING"
    /\ r \in sampled => status[r] = "RUNNING" /\ r \in ToSet(running)
    /\ r \in Popped => status[r] = TargetStatus
    /\ status[r] = "WAITING" => r \in ToSet(waiting) \cup Popped
    /\ status[r] = "SWAPPED" => r \in ToSet(swapped) \cup Popped
    /\ status[r] = "RUNNING" => r \in ToSet(running) \cup Popped \cup scheduled

\* What is popped or scheduled is in no queue until the pass ends.
PassInv ==
    /\ cur # 0 => pc \in Passes
    /\ cur \notin ToSet(delayed)
    /\ pc \notin Passes \cup Afters => delayed = <<>>
    /\ Popped \cap (ToSet(waiting) \cup ToSet(running) \cup ToSet(swapped)
                    \cup scheduled) = {}
    /\ pc \in {"pass1", "after1"} => ToSet(running) \cap scheduled = {}
    /\ pc \in {"idle", "pause", "process"} => scheduled = {}
    /\ pc # "process" => sampled = {}
    /\ pc = "execute" => scheduled \subseteq ToSet(running)

\* The victims of the paused are on the GPU until they are evicted.
VictimInv ==
    /\ pc \in {"idle", "execute", "process"} => victims = {}
    /\ demoted # {} => pc = "pause"
    /\ victims \cap demoted = {}
    /\ \A r \in victims \cup demoted : mode[r] = "PRESERVE"

\* While victims are swapped out, their group is not empty, and those that
\* may lose their CPU blocks are still swapped.
EvictInv ==
    need > 0 =>
      /\ cur # 0
      /\ group = "paused" \/ pc = "pass1"
      /\ group \in {"paused", "delayed", "targets", "self"}
      /\ group = "delayed" => delayed # <<>>
      /\ group = "targets" => running # <<>>
      /\ ToSet(discards.queue) \subseteq ToSet(swapped)
      /\ \A r \in discards.paused : mode[r] = "SWAP"

QueueInv == QueueTypes /\ NoRepetition /\ StatusInv /\ PassInv /\ VictimInv /\ EvictInv

\* No request is numbered 0, which stands for none.
LEMMA SeqsFacts == Seqs \subseteq Nat /\ 0 \notin Seqs
BY RequestsAssumption

\* The empty list
LEMMA EmptyFacts == <<>> \in Seq(Seqs) /\ ToSet(<<>>) = {} /\ Once(<<>>)
BY DEF ToSet, Once

\* The elements of a list of requests, and the list sorted by arrival
LEMMA ListFacts ==
    ASSUME NEW q \in Seq(Seqs)
    PROVE  /\ ToSet(q) \in SUBSET Seqs /\ IsFiniteSet(ToSet(q))
           /\ ToSet(q) = {} <=> q = <<>>
           /\ 0 \notin ToSet(q)
<1>1. ToSet(q) \in SUBSET Seqs /\ IsFiniteSet(ToSet(q))
  <2>1. Len(q) \in Nat /\ DOMAIN q = 1..Len(q) /\ \A i \in DOMAIN q : q[i] \in Seqs
    BY LenProperties, ElementOfSeq
  <2> QED
    BY <2>1, OnceLen DEF ToSet
<1>2. ToSet(q) = {} <=> q = <<>>
  <2>1. q # <<>> => Head(q) \in ToSet(q)
    BY OnceTail
  <2> QED
    BY <2>1, EmptyFacts
<1> QED
  BY <1>1, <1>2, SeqsFacts

\* sort_by_priority
LEMMA SortedFacts ==
    ASSUME NEW S \in SUBSET Seqs, IsFiniteSet(S)
    PROVE  /\ ByArrival(S) \in Seq(Seqs) /\ Once(ByArrival(S))
           /\ ToSet(ByArrival(S)) = S
<1>1. S \in SUBSET Int
  <2>1. Nat \subseteq Int
    OBVIOUS
  <2> QED
    BY <2>1, SeqsFacts
<1>2. /\ ByArrival(S) \in Seq(S) /\ Once(ByArrival(S)) /\ ToSet(ByArrival(S)) = S
  BY <1>1, AscendingFacts DEF ByArrival
<1> QED
  BY <1>2, SeqMonotonic

\* No request has arrived.
LEMMA QueueInit == Init => QueueInv
<1> SUFFICES ASSUME Init PROVE QueueInv
  OBVIOUS
<1> QED
  BY EmptyFacts, SeqsFacts
     DEF Init, QueueInv, QueueTypes, NoRepetition, StatusInv, PassInv, VictimInv,
         EvictInv, Statuses, Finished, Afters, Passes, Popped, NoDiscards

\* Between two steps of the engine nothing is popped and nobody is evicted.
LEMMA RestFacts ==
    ASSUME QueueInv, pc \notin Passes \cup Afters
    PROVE  cur = 0 /\ need = 0 /\ delayed = <<>> /\ ToSet(delayed) = {} /\ Popped = {}
BY EmptyFacts DEF QueueInv, QueueTypes, PassInv, EvictInv, Popped

\* A request arrives.
LEMMA QueueAdd ==
    ASSUME QueueInv, NEW r \in Seqs, AddRequest(r)
    PROVE  QueueInv'
<1>1. /\ pc = "idle" /\ pc' = "idle" /\ status[r] = "none"
      /\ status' = [status EXCEPT ![r] = "WAITING"]
      /\ waiting' = Append(waiting, r)
      /\ UNCHANGED <<running, swapped, mode, delayed, scheduled, sampled, cur, need,
                     group, victims, demoted, discards>>
  BY DEF AddRequest, choice, loop
<1>2. cur = 0 /\ need = 0 /\ delayed = <<>> /\ Popped = {} /\ Popped' = {}
  BY <1>1, RestFacts DEF Passes, Afters, Popped
<1>3. r \notin ToSet(waiting)
  BY <1>1 DEF QueueInv, StatusInv
<1>4. /\ waiting' \in Seq(Seqs) /\ Once(waiting')
      /\ ToSet(waiting') = ToSet(waiting) \cup {r}
  BY <1>1, <1>3, OnceAppend DEF QueueInv, QueueTypes, NoRepetition
<1>5. StatusInv'
  BY <1>1, <1>2, <1>4 DEF QueueInv, QueueTypes, StatusInv
<1> QED
  BY <1>1, <1>2, <1>4, <1>5 DEF QueueInv, QueueTypes, NoRepetition, PassInv, VictimInv,
                                EvictInv, Statuses

\* A request of any queue leaves.
LEMMA QueueAbort ==
    ASSUME QueueInv, NEW r \in Seqs, AbortRequest(r)
    PROVE  QueueInv'
<1>1. /\ pc = "idle" /\ pc' = "idle"
      /\ r \in ToSet(waiting \o running \o swapped)
      /\ status' = [status EXCEPT ![r] = "FINISHED_ABORTED"]
      /\ waiting' = Without(waiting, r)
      /\ running' = Without(running, r)
      /\ swapped' = Without(swapped, r)
      /\ UNCHANGED <<mode, delayed, scheduled, sampled, cur, need,
                     group, victims, demoted, discards>>
  BY DEF AbortRequest, choice, loop
<1>2. /\ waiting' \in Seq(Seqs) /\ Once(waiting') /\ ToSet(waiting') = ToSet(waiting) \ {r}
      /\ running' \in Seq(Seqs) /\ Once(running') /\ ToSet(running') = ToSet(running) \ {r}
      /\ swapped' \in Seq(Seqs) /\ Once(swapped') /\ ToSet(swapped') = ToSet(swapped) \ {r}
  BY <1>1, WithoutFacts DEF QueueInv, QueueTypes, NoRepetition
<1>3. r \in ToSet(waiting) \cup ToSet(running) \cup ToSet(swapped)
  <2>1. /\ waiting \o running \in Seq(Seqs)
        /\ ToSet(waiting \o running) = ToSet(waiting) \cup ToSet(running)
    BY OnceConcat DEF QueueInv, QueueTypes
  <2>2. \A a, b \in Seq(Seqs) : ToSet(a \o b) = ToSet(a) \cup ToSet(b)
    BY OnceConcat
  <2>3. ToSet((waiting \o running) \o swapped)
          = ToSet(waiting \o running) \cup ToSet(swapped)
    BY <2>1, <2>2 DEF QueueInv, QueueTypes
  <2> QED
    BY <1>1, <2>1, <2>3
<1>4. /\ cur = 0 /\ need = 0 /\ delayed = <<>> /\ Popped = {} /\ Popped' = {}
      /\ scheduled = {} /\ sampled = {}
  BY <1>1, RestFacts DEF Passes, Afters, Popped, QueueInv, PassInv
<1>5. mode[r] = "none"
  BY <1>1, <1>3 DEF QueueInv, StatusInv
<1>6. StatusInv'
  BY <1>1, <1>2, <1>4, <1>5 DEF QueueInv, QueueTypes, StatusInv, Finished
<1> QED
  BY <1>1, <1>2, <1>4, <1>6 DEF QueueInv, QueueTypes, NoRepetition, PassInv, VictimInv,
                                EvictInv, Statuses, Finished

\* A paused request returns to the queue of its mode.
LEMMA QueueResume ==
    ASSUME QueueInv, NEW r \in Seqs, NEW n, NEW single, ResumeRequest(r, n, single)
    PROVE  QueueInv'
<1>1. /\ pc \in {"idle", "execute"} /\ pc' = pc /\ mode[r] # "none"
      /\ mode' = [mode EXCEPT ![r] = "none"]
      /\ UNCHANGED <<delayed, scheduled, sampled, cur, need, group, victims, demoted,
                     discards>>
  BY DEF ResumeRequest, choice, loop
<1>2. status[r] = "PAUSED_API"
  BY <1>1 DEF QueueInv, StatusInv
<1>3. /\ cur = 0 /\ need = 0 /\ delayed = <<>> /\ Popped = {} /\ Popped' = {}
      /\ sampled = {} /\ victims = {} /\ demoted = {}
  BY <1>1, RestFacts DEF Passes, Afters, Popped, QueueInv, PassInv, VictimInv
<1>4. r \notin ToSet(waiting) \cup ToSet(running) \cup ToSet(swapped) \cup scheduled
  BY <1>1, <1>2 DEF QueueInv, StatusInv
<1>5. CASE /\ running' = Append(running, r) /\ UNCHANGED <<waiting, swapped>>
           /\ status' = [status EXCEPT ![r] = "RUNNING"]
  <2>1. /\ running' \in Seq(Seqs) /\ Once(running')
        /\ ToSet(running') = ToSet(running) \cup {r}
    BY <1>4, <1>5, OnceAppend DEF QueueInv, QueueTypes, NoRepetition
  <2>2. StatusInv'
    BY <1>1, <1>2, <1>3, <1>4, <1>5, <2>1 DEF QueueInv, QueueTypes, StatusInv
  <2> QED
    BY <1>1, <1>3, <1>5, <2>1, <2>2
       DEF QueueInv, QueueTypes, NoRepetition, PassInv, VictimInv, EvictInv, Statuses
<1>6. CASE /\ swapped' = Append(swapped, r) /\ UNCHANGED <<waiting, running>>
           /\ status' = [status EXCEPT ![r] = "SWAPPED"]
  <2>1. /\ swapped' \in Seq(Seqs) /\ Once(swapped')
        /\ ToSet(swapped') = ToSet(swapped) \cup {r}
    BY <1>4, <1>6, OnceAppend DEF QueueInv, QueueTypes, NoRepetition
  <2>2. StatusInv'
    BY <1>1, <1>2, <1>3, <1>4, <1>6, <2>1 DEF QueueInv, QueueTypes, StatusInv
  <2> QED
    BY <1>1, <1>3, <1>6, <2>1, <2>2
       DEF QueueInv, QueueTypes, NoRepetition, PassInv, VictimInv, EvictInv, Statuses
<1>7. CASE /\ waiting' = <<r>> \o waiting /\ UNCHANGED <<running, swapped>>
           /\ status' = [status EXCEPT ![r] = "WAITING"]
  <2>1. /\ waiting' \in Seq(Seqs) /\ Once(waiting')
        /\ ToSet(waiting') = ToSet(waiting) \cup {r}
    <3> DEFINE one == <<r>>
    <3>1. one \in Seq(Seqs) /\ ToSet(one) = {r} /\ Once(one)
      BY DEF ToSet, Once
    <3>2. waiting' = one \o waiting
      BY <1>7
    <3> HIDE DEF one
    <3> QED
      BY <1>4, <3>1, <3>2, OnceConcat DEF QueueInv, QueueTypes, NoRepetition
  <2>2. StatusInv'
    BY <1>1, <1>2, <1>3, <1>4, <1>7, <2>1 DEF QueueInv, QueueTypes, StatusInv
  <2> QED
    BY <1>1, <1>3, <1>7, <2>1, <2>2
       DEF QueueInv, QueueTypes, NoRepetition, PassInv, VictimInv, EvictInv, Statuses
<1> QED
  BY <1>5, <1>6, <1>7 DEF ResumeRequest

\* schedule() begins, and may discard the oldest of the swapped.
LEMMA QueueStart ==
    ASSUME QueueInv, StartSchedule
    PROVE  QueueInv'
<1>1. /\ pc = "idle" /\ pc' = "pause"
      /\ victims' \subseteq PausedOnGpu /\ demoted' \subseteq PausedOnGpu \ victims'
      /\ UNCHANGED <<running, mode, delayed, scheduled, sampled, cur, need, group, discards>>
  BY DEF StartSchedule, ActiveDiscard, PreemptByRecompute, loop
<1>2. /\ cur = 0 /\ need = 0 /\ delayed = <<>> /\ Popped = {} /\ Popped' = {}
      /\ sampled = {} /\ scheduled = {}
  BY <1>1, RestFacts DEF Passes, Afters, Popped, QueueInv, PassInv
<1>3. CASE UNCHANGED <<waiting, swapped, status>>
  <2>1. StatusInv'
    BY <1>1, <1>2, <1>3 DEF QueueInv, StatusInv
  <2> QED
    BY <1>1, <1>2, <1>3, <2>1 DEF QueueInv, QueueTypes, NoRepetition, PassInv, VictimInv,
                                  EvictInv, PausedOnGpu
<1>4. CASE ~UNCHANGED <<waiting, swapped, status>>
  <2> DEFINE order == ByArrival(ToSet(swapped))
             r == Head(order)
  <2>1. /\ swapped # <<>>
        /\ swapped' = Tail(order)
        /\ status' = [status EXCEPT ![r] = "WAITING"]
        /\ waiting' = Append(waiting, r)
    BY <1>4 DEF StartSchedule, ActiveDiscard, PreemptByRecompute
  <2>2. /\ order \in Seq(Seqs) /\ Once(order) /\ ToSet(order) = ToSet(swapped)
        /\ order # <<>>
    <3>1. ToSet(swapped) \in SUBSET Seqs /\ IsFiniteSet(ToSet(swapped))
          /\ ToSet(swapped) # {}
      BY <2>1, ListFacts DEF QueueInv, QueueTypes
    <3> QED
      BY <3>1, SortedFacts, EmptyFacts
  <2> HIDE DEF order
  <2>3. /\ r \in Seqs /\ swapped' \in Seq(Seqs) /\ Once(swapped')
        /\ ToSet(swapped) = ToSet(swapped') \cup {r} /\ r \notin ToSet(swapped')
    BY <2>1, <2>2, OnceTail
  <2> HIDE DEF r
  <2>4. status[r] = "SWAPPED" /\ r \notin ToSet(waiting) /\ mode[r] = "none"
    BY <2>3 DEF QueueInv, StatusInv
  <2>5. /\ waiting' \in Seq(Seqs) /\ Once(waiting')
        /\ ToSet(waiting') = ToSet(waiting) \cup {r}
    BY <2>1, <2>3, <2>4, OnceAppend DEF QueueInv, QueueTypes, NoRepetition
  <2>6. StatusInv'
    BY <1>1, <1>2, <2>1, <2>3, <2>4, <2>5 DEF QueueInv, QueueTypes, StatusInv
  <2> QED
    BY <1>1, <1>2, <2>1, <2>3, <2>5, <2>6
       DEF QueueInv, QueueTypes, NoRepetition, PassInv, VictimInv, EvictInv, PausedOnGpu,
           Statuses
<1> QED
  BY <1>3, <1>4

\* The paused that are not worth preserving start over.
LEMMA QueueDemote ==
    ASSUME QueueInv, NEW r \in Seqs, Demote(r)
    PROVE  QueueInv'
<1>1. /\ pc = "pause" /\ pc' = pc /\ r \in demoted /\ demoted' = demoted \ {r}
      /\ mode' = [mode EXCEPT ![r] = "RECOMPUTE"]
      /\ UNCHANGED <<waiting, running, swapped, status, delayed, scheduled, sampled, cur,
                     need, group, victims, discards>>
  BY DEF Demote, PauseByRecompute, loop
<1>2. mode[r] = "PRESERVE" /\ r \notin victims
  BY <1>1 DEF QueueInv, VictimInv
<1>3. need = 0 /\ Popped' = Popped
  BY <1>1, RestFacts DEF Passes, Afters, Popped
<1>4. StatusInv'
  BY <1>1, <1>2, <1>3 DEF QueueInv, QueueTypes, StatusInv, TargetStatus
<1> QED
  BY <1>1, <1>2, <1>3, <1>4
     DEF QueueInv, QueueTypes, NoRepetition, PassInv, VictimInv, EvictInv

\* The first pass begins.
LEMMA QueueStartPass1 ==
    ASSUME QueueInv, StartPass1
    PROVE  QueueInv'
<1>1. /\ pc = "pause" /\ pc' = "pass1" /\ demoted = {}
      /\ running' = ByArrival(ToSet(running))
      /\ UNCHANGED <<waiting, swapped, mode, status, delayed, scheduled, sampled, cur,
                     need, group, victims, demoted, discards>>
  BY DEF StartPass1, choice, loop
<1>2. /\ cur = 0 /\ need = 0 /\ Popped = {} /\ Popped' = {} /\ scheduled = {}
      /\ sampled = {} /\ delayed = <<>>
  BY <1>1, RestFacts DEF Passes, Afters, Popped, QueueInv, PassInv
<1>3. running' \in Seq(Seqs) /\ Once(running') /\ ToSet(running') = ToSet(running)
  BY <1>1, ListFacts, SortedFacts DEF QueueInv, QueueTypes
<1>4. StatusInv'
  BY <1>1, <1>2, <1>3 DEF QueueInv, StatusInv
<1> QED
  BY <1>1, <1>2, <1>3, <1>4
     DEF QueueInv, QueueTypes, NoRepetition, PassInv, VictimInv, EvictInv, Passes

-----------------------------------------------------------------------------
(* The targets of a pass.                                                  *)

\* pop(0): of the three queues only that of the pass has r, which is then in
\* none of them.
LEMMA TargetPopped ==
    ASSUME QueueInv, NEW r \in Seqs, IsNext(r), SetTargets(Tail(Targets))
    PROVE  /\ waiting' \in Seq(Seqs) /\ Once(waiting')
           /\ ToSet(waiting') = ToSet(waiting) \ {r}
           /\ running' \in Seq(Seqs) /\ Once(running')
           /\ ToSet(running') = ToSet(running) \ {r}
           /\ swapped' \in Seq(Seqs) /\ Once(swapped')
           /\ ToSet(swapped') = ToSet(swapped) \ {r}
           /\ pc \in Passes /\ cur = 0 /\ need = 0 /\ cur # r
           /\ status[r] = TargetStatus /\ mode[r] = "none"
           /\ r \notin scheduled /\ r \notin ToSet(delayed) /\ r \notin Popped
<1>1. pc \in Passes /\ cur = 0 /\ Targets # <<>> /\ r = Head(Targets)
  BY DEF IsNext
<1>2. need = 0 /\ cur # r
  BY <1>1, SeqsFacts DEF QueueInv, QueueTypes, EvictInv
<1>3. Targets \in Seq(Seqs) /\ Once(Targets)
  BY DEF Targets, QueueInv, QueueTypes, NoRepetition
<1> DEFINE rest == Tail(Targets)
<1>4. /\ rest \in Seq(Seqs) /\ Once(rest)
      /\ ToSet(Targets) = ToSet(rest) \cup {r} /\ r \notin ToSet(rest)
  BY <1>1, <1>3, OnceTail
<1>5. SetTargets(rest)
  OBVIOUS
<1> HIDE DEF rest
<1>6. CASE pc = "pass1"
  <2>1. /\ running' = rest /\ waiting' = waiting /\ swapped' = swapped
        /\ Targets = running
    BY <1>5, <1>6 DEF SetTargets, Targets
  <2>2. status[r] = "RUNNING" /\ r \notin Popped /\ r \notin scheduled
    BY <1>4, <1>6, <2>1 DEF QueueInv, StatusInv, PassInv
  <2> QED
    BY <1>1, <1>2, <1>4, <1>6, <2>1, <2>2
       DEF QueueInv, QueueTypes, NoRepetition, StatusInv, TargetStatus, Popped
<1>7. CASE pc = "pass2"
  <2>1. /\ swapped' = rest /\ waiting' = waiting /\ running' = running
        /\ Targets = swapped
    BY <1>5, <1>7 DEF SetTargets, Targets
  <2>2. status[r] = "SWAPPED" /\ r \notin Popped /\ r \notin scheduled
    BY <1>4, <1>7, <2>1 DEF QueueInv, StatusInv, PassInv
  <2>3. r \notin ToSet(running)
    BY <1>7, <2>2 DEF QueueInv, StatusInv
  <2> QED
    BY <1>1, <1>2, <1>4, <1>7, <2>1, <2>2, <2>3
       DEF QueueInv, QueueTypes, NoRepetition, StatusInv, TargetStatus, Popped
<1>8. CASE pc = "pass3"
  <2>1. /\ waiting' = rest /\ swapped' = swapped /\ running' = running
        /\ Targets = waiting
    BY <1>5, <1>8 DEF SetTargets, Targets
  <2>2. status[r] = "WAITING" /\ r \notin Popped /\ r \notin scheduled
    BY <1>4, <1>8, <2>1 DEF QueueInv, StatusInv, PassInv
  <2>3. r \notin ToSet(running)
    BY <1>8, <2>2 DEF QueueInv, StatusInv
  <2> QED
    BY <1>1, <1>2, <1>4, <1>8, <2>1, <2>2, <2>3
       DEF QueueInv, QueueTypes, NoRepetition, StatusInv, TargetStatus, Popped
<1> QED
  BY <1>1, <1>6, <1>7, <1>8 DEF Passes

\* A target that is too long is ignored.
LEMMA QueueIgnore ==
    ASSUME QueueInv, NEW r \in Seqs, Ignore(r)
    PROVE  QueueInv'
<1>1. /\ IsNext(r) /\ SetTargets(Tail(Targets)) /\ pc' = pc
      /\ status' = [status EXCEPT ![r] = "FINISHED_IGNORED"]
      /\ UNCHANGED <<mode, delayed, scheduled, sampled, cur, need, group, victims,
                     demoted, discards>>
  BY DEF Ignore, choice, loop
<1>2. /\ waiting' \in Seq(Seqs) /\ Once(waiting') /\ ToSet(waiting') = ToSet(waiting) \ {r}
      /\ running' \in Seq(Seqs) /\ Once(running') /\ ToSet(running') = ToSet(running) \ {r}
      /\ swapped' \in Seq(Seqs) /\ Once(swapped') /\ ToSet(swapped') = ToSet(swapped) \ {r}
      /\ pc \in Passes /\ cur = 0 /\ need = 0
      /\ status[r] = TargetStatus /\ mode[r] = "none"
      /\ r \notin scheduled /\ r \notin ToSet(delayed) /\ r \notin Popped
  BY <1>1, TargetPopped
<1>3. Popped' = Popped /\ TargetStatus' = TargetStatus
  BY <1>1 DEF Popped, TargetStatus
<1>4. StatusInv'
  <2>1. r \notin sampled
    BY <1>2 DEF QueueInv, PassInv, Passes
  <2> QED
    BY <1>1, <1>2, <1>3, <2>1 DEF QueueInv, QueueTypes, StatusInv, Finished
<1> QED
  BY <1>1, <1>2, <1>3, <1>4
     DEF QueueInv, QueueTypes, NoRepetition, PassInv, VictimInv, EvictInv, Statuses, Finished

\* A target that is not scheduled joins the delayed.
LEMMA QueueDelay ==
    ASSUME QueueInv, NEW r \in Seqs, SequenceLimit(r) \/ BatchLimit(r) \/ GiveUp(r)
    PROVE  QueueInv'
<1>1. /\ IsNext(r) /\ SetTargets(Tail(Targets)) /\ delayed' = Append(delayed, r)
      /\ pc' = pc \/ Stop
      /\ UNCHANGED <<mode, status, scheduled, sampled, cur, need, group, victims,
                     demoted, discards>>
  BY DEF SequenceLimit, BatchLimit, GiveUp, Eligible, Delay, choice, loop
<1>2. /\ waiting' \in Seq(Seqs) /\ Once(waiting') /\ ToSet(waiting') = ToSet(waiting) \ {r}
      /\ running' \in Seq(Seqs) /\ Once(running') /\ ToSet(running') = ToSet(running) \ {r}
      /\ swapped' \in Seq(Seqs) /\ Once(swapped') /\ ToSet(swapped') = ToSet(swapped) \ {r}
      /\ pc \in Passes /\ cur = 0 /\ need = 0 /\ cur # r
      /\ status[r] = TargetStatus /\ mode[r] = "none"
      /\ r \notin scheduled /\ r \notin ToSet(delayed) /\ r \notin Popped
  BY <1>1, TargetPopped
<1>3. /\ delayed' \in Seq(Seqs) /\ Once(delayed')
      /\ ToSet(delayed') = ToSet(delayed) \cup {r}
  BY <1>1, <1>2, OnceAppend DEF QueueInv, QueueTypes, NoRepetition
<1>4. /\ Popped' = Popped \cup {r} /\ TargetStatus' = TargetStatus
      /\ pc' \in Passes \cup Afters
      /\ pc' \in {"pass1", "after1"} <=> pc = "pass1"
  BY <1>1, <1>2, <1>3 DEF Popped, TargetStatus, Stop, Passes, Afters
<1>5. pc' # "pause" /\ pc' \notin {"idle", "execute", "process"} /\ pc # "pause"
      /\ pc # "process"
  BY <1>2, <1>4 DEF Passes, Afters
<1>6. sampled = {}
  BY <1>5 DEF QueueInv, PassInv
<1>7. StatusInv'
  BY <1>1, <1>2, <1>3, <1>4, <1>5, <1>6 DEF QueueInv, QueueTypes, StatusInv
<1>8. PassInv'
  BY <1>1, <1>2, <1>3, <1>4, <1>5 DEF QueueInv, PassInv
<1>9. QueueTypes' /\ NoRepetition'
  BY <1>1, <1>2, <1>3, <1>4 DEF QueueInv, QueueTypes, NoRepetition
<1> QED
  BY <1>1, <1>2, <1>5, <1>7, <1>8, <1>9 DEF QueueInv, VictimInv, EvictInv

\* A target is scheduled.
LEMMA QueueSchedule ==
    ASSUME QueueInv, NEW r \in Seqs, Schedule(r)
    PROVE  QueueInv'
<1>1. /\ IsNext(r) /\ SetTargets(Tail(Targets)) /\ pc' = pc
      /\ status' = [status EXCEPT ![r] = "RUNNING"]
      /\ scheduled' = scheduled \cup {r}
      /\ UNCHANGED <<mode, delayed, sampled, cur, need, group, victims, demoted, discards>>
  BY DEF Schedule, Eligible, Admit, choice, loop
<1>2. /\ waiting' \in Seq(Seqs) /\ Once(waiting') /\ ToSet(waiting') = ToSet(waiting) \ {r}
      /\ running' \in Seq(Seqs) /\ Once(running') /\ ToSet(running') = ToSet(running) \ {r}
      /\ swapped' \in Seq(Seqs) /\ Once(swapped') /\ ToSet(swapped') = ToSet(swapped) \ {r}
      /\ pc \in Passes /\ cur = 0 /\ need = 0
      /\ status[r] = TargetStatus /\ mode[r] = "none"
      /\ r \notin scheduled /\ r \notin ToSet(delayed) /\ r \notin Popped
  BY <1>1, TargetPopped
<1>3. /\ Popped' = Popped /\ TargetStatus' = TargetStatus
      /\ pc \notin {"idle", "pause", "execute", "process"}
  BY <1>1, <1>2 DEF Popped, TargetStatus, Passes
<1>4. sampled = {}
  BY <1>3 DEF QueueInv, PassInv
<1>5. StatusInv'
  BY <1>1, <1>2, <1>3, <1>4 DEF QueueInv, QueueTypes, StatusInv
<1>6. PassInv'
  BY <1>1, <1>2, <1>3 DEF QueueInv, PassInv
<1>7. QueueTypes' /\ NoRepetition'
  BY <1>1, <1>2 DEF QueueInv, QueueTypes, NoRepetition, Statuses
<1> QED
  BY <1>1, <1>2, <1>3, <1>5, <1>6, <1>7 DEF QueueInv, VictimInv, EvictInv

\* The preemption loop begins with a target, and may end without room for it.
LEMMA QueueCur ==
    ASSUME QueueInv,
           (\E r \in Seqs : StartEviction(r)) \/ DelayCur \/ ScheduleCur
    PROVE  QueueInv'
<1>1. CASE \E r \in Seqs : StartEviction(r)
  <2>1. PICK r \in Seqs : StartEviction(r)
    BY <1>1
  <2>2. /\ IsNext(r) /\ SetTargets(Tail(Targets)) /\ pc' = pc /\ cur' = r
        /\ UNCHANGED <<mode, status, delayed, scheduled, sampled, need, group, victims,
                       demoted, discards>>
    BY <2>1 DEF StartEviction, Eligible, choice
  <2>3. /\ waiting' \in Seq(Seqs) /\ Once(waiting') /\ ToSet(waiting') = ToSet(waiting) \ {r}
        /\ running' \in Seq(Seqs) /\ Once(running') /\ ToSet(running') = ToSet(running) \ {r}
        /\ swapped' \in Seq(Seqs) /\ Once(swapped') /\ ToSet(swapped') = ToSet(swapped) \ {r}
        /\ pc \in Passes /\ cur = 0 /\ need = 0
        /\ status[r] = TargetStatus /\ mode[r] = "none"
        /\ r \notin scheduled /\ r \notin ToSet(delayed) /\ r \notin Popped
    BY <2>2, TargetPopped
  <2>4. Popped' = Popped \cup {r} /\ TargetStatus' = TargetStatus /\ pc # "process"
    BY <2>2, <2>3, SeqsFacts DEF Popped, TargetStatus, Passes
  <2>5. sampled = {}
    BY <2>4 DEF QueueInv, PassInv
  <2>6. StatusInv'
    BY <2>2, <2>3, <2>4, <2>5 DEF QueueInv, QueueTypes, StatusInv
  <2>7. PassInv'
    BY <2>2, <2>3, <2>4 DEF QueueInv, PassInv
  <2>8. QueueTypes' /\ NoRepetition'
    BY <2>2, <2>3 DEF QueueInv, QueueTypes, NoRepetition
  <2> QED
    BY <2>2, <2>3, <2>6, <2>7, <2>8 DEF QueueInv, VictimInv, EvictInv
<1>2. CASE DelayCur
  <2>1. /\ pc \in Passes /\ pc' = pc /\ cur # 0 /\ cur' = 0 /\ need = 0
        /\ delayed' = Append(delayed, cur)
        /\ UNCHANGED <<waiting, running, swapped, mode, status, scheduled, sampled, need,
                       group, victims, demoted, discards>>
    BY <1>2 DEF DelayCur, TryPreempt, InLoop, queues, choice
  <2>2. /\ cur \in Seqs /\ delayed' \in Seq(Seqs) /\ Once(delayed')
        /\ ToSet(delayed') = ToSet(delayed) \cup {cur}
    BY <2>1, OnceAppend DEF QueueInv, QueueTypes, NoRepetition, PassInv
  <2>3. Popped' = Popped /\ TargetStatus' = TargetStatus /\ cur' \notin ToSet(delayed')
    BY <2>1, <2>2, ListFacts DEF Popped, TargetStatus
  <2>4. StatusInv'
    BY <2>1, <2>3 DEF QueueInv, StatusInv
  <2> QED
    BY <2>1, <2>2, <2>3, <2>4
       DEF QueueInv, QueueTypes, NoRepetition, PassInv, VictimInv, EvictInv
<1>3. CASE ScheduleCur
  <2>1. /\ pc \in Passes /\ pc' = pc /\ cur # 0 /\ cur' = 0 /\ need = 0
        /\ status' = [status EXCEPT ![cur] = "RUNNING"]
        /\ scheduled' = scheduled \cup {cur}
        /\ UNCHANGED <<waiting, running, swapped, mode, delayed, sampled, need,
                       group, victims, demoted, discards>>
    BY <1>3 DEF ScheduleCur, Admit, InLoop, choice
  <2>2. /\ cur \in Seqs /\ cur \in Popped /\ status[cur] = TargetStatus
        /\ mode[cur] = "none"
    <3>1. cur \in Seqs /\ cur \in Popped
      BY <2>1 DEF QueueInv, QueueTypes, Popped
    <3>2. TargetStatus # "PAUSED_API"
      BY DEF TargetStatus
    <3> QED
      BY <3>1, <3>2 DEF QueueInv, StatusInv
  <2>3. /\ Popped' = Popped \ {cur} /\ TargetStatus' = TargetStatus
        /\ cur' \notin ToSet(delayed)
        /\ pc \notin {"idle", "pause", "execute", "process"}
    BY <2>1, ListFacts DEF Popped, TargetStatus, Passes, QueueInv, QueueTypes, PassInv
  <2>4. cur \notin ToSet(waiting) \cup ToSet(running) \cup ToSet(swapped)
    BY <2>2 DEF QueueInv, PassInv
  <2>5. StatusInv'
    <3> QED
      BY <2>1, <2>2, <2>3, <2>4 DEF QueueInv, QueueTypes, StatusInv
  <2> QED
    BY <2>1, <2>2, <2>3, <2>4, <2>5
       DEF QueueInv, QueueTypes, NoRepetition, PassInv, VictimInv, EvictInv, Statuses
<1> QED
  BY <1>1, <1>2, <1>3

-----------------------------------------------------------------------------
(* The victims of passive_discard.                                         *)

\* What the block tables say of the victims: the counts of blocks are
\* numbers, a target of the first pass is on the GPU, and one that is its own
\* victim gives up all it has there.
VictimCounts ==
    /\ Missing \in Int
    /\ \A r \in Seqs : GpuCount(r) \in Nat
    /\ cur # 0 /\ pc = "pass1" => GpuCount(cur) > 0
    /\ need > 0 /\ group = "self" => need = GpuCount(cur)

\* A call of passive_discard begins.
LEMMA QueueStartDiscard ==
    ASSUME QueueInv, VictimCounts, StartDiscard
    PROVE  QueueInv'
<1>1. /\ pc \in Passes /\ cur # 0 /\ need = 0 /\ Missing > 0
      /\ victims # {} \/ pc = "pass1"
      /\ UNCHANGED <<waiting, running, swapped, mode, status, pc, delayed, scheduled,
                     sampled, victims, demoted>>
  BY DEF StartDiscard, TryPreempt, InLoop, SelfPreempt, queues, choice
<1> DEFINE of == CASE victims # {}                 -> "paused"
                   [] victims = {} /\ delayed # <<>> -> "delayed"
                   [] /\ victims = {} /\ delayed = <<>>
                      /\ Targets # <<>>              -> "targets"
                   [] OTHER                         -> "self"
           n == IF of = "self" THEN GpuCount(cur) ELSE Missing
<1>2. n \in Nat /\ n # 0
  <2>1. cur \in Seqs
    BY <1>1 DEF QueueInv, QueueTypes
  <2>2. of = "self" => pc = "pass1"
    BY <1>1
  <2> HIDE DEF of
  <2> QED
    BY <1>1, <2>1, <2>2 DEF VictimCounts
<1>3. /\ need' = n /\ group' = of /\ cur' = cur
      /\ discards' = [queue |-> swapped, paused |-> {r \in Seqs : mode[r] = "SWAP"}]
  BY <1>2 DEF StartDiscard
<1>4. /\ of \in {"paused", "delayed", "targets", "self"}
      /\ of = "paused" \/ pc = "pass1"
      /\ of = "delayed" => delayed # <<>>
      /\ of = "targets" => running # <<>>
  <2>1. pc = "pass1" => Targets = running
    BY DEF Targets
  <2>2. of = "targets" => Targets # <<>> /\ victims = {}
    OBVIOUS
  <2>3. of # "paused" => victims = {}
    OBVIOUS
  <2>4. of = "delayed" => delayed # <<>>
    OBVIOUS
  <2>5. of \in {"paused", "delayed", "targets", "self"}
    OBVIOUS
  <2> HIDE DEF of
  <2> QED
    BY <1>1, <2>1, <2>2, <2>3, <2>4, <2>5
<1> HIDE DEF of, n
<1>5. EvictInv'
  BY <1>1, <1>3, <1>4 DEF EvictInv
<1>6. QueueTypes' /\ NoRepetition'
  BY <1>1, <1>2, <1>3 DEF QueueInv, QueueTypes, NoRepetition
<1>7. StatusInv' /\ PassInv' /\ VictimInv'
  BY <1>1, <1>3 DEF QueueInv, StatusInv, PassInv, VictimInv, Popped, TargetStatus
<1> QED
  BY <1>5, <1>6, <1>7 DEF QueueInv

\* Where a victim is
LEMMA VictimFacts ==
    ASSUME QueueInv, NEW v \in Seqs, IsVictim(v)
    PROVE  /\ pc \in Passes /\ cur \in Seqs /\ need > 0 /\ need \in Nat
           /\ group \in {"paused", "delayed", "targets", "self"}
           /\ group = "paused" => /\ v \in victims /\ mode[v] = "PRESERVE"
                                  /\ status[v] = "PAUSED_API" /\ v \notin Popped
           /\ group # "paused" => /\ pc = "pass1" /\ status[v] = "RUNNING"
                                  /\ mode[v] = "none" /\ v \notin victims
           /\ group = "delayed" <=> v \in ToSet(delayed)
           /\ group = "targets" <=> v \in ToSet(running)
           /\ group = "self" <=> v = cur
           /\ group = "delayed" => delayed # <<>> /\ v = Last(delayed)
           /\ group = "targets" => running # <<>> /\ v = Last(running)
           /\ v \notin ToSet(waiting) \cup ToSet(swapped) \cup scheduled
<1>1. /\ pc \in Passes /\ cur \in Seqs /\ cur # 0 /\ need > 0 /\ need \in Nat
      /\ group \in {"paused", "delayed", "targets", "self"}
      /\ group = "paused" \/ pc = "pass1"
      /\ cur \notin ToSet(delayed) /\ cur \in Popped
  BY DEF IsVictim, InLoop, QueueInv, QueueTypes, EvictInv, PassInv, Popped
<1>2. \A r \in Popped : r \notin ToSet(waiting) \cup ToSet(running) \cup ToSet(swapped)
                                 \cup scheduled
  BY DEF QueueInv, PassInv
<1>3. \A r \in ToSet(delayed) : r \in Popped
  BY <1>1, ListFacts DEF Popped, QueueInv, QueueTypes
<1>4. CASE group = "paused"
  <2>1. v \in victims /\ mode[v] = "PRESERVE" /\ status[v] = "PAUSED_API"
    BY <1>4 DEF IsVictim, QueueInv, VictimInv, StatusInv
  <2>2. v \notin Popped /\ pc # "process"
    BY <1>1, <2>1 DEF QueueInv, StatusInv, TargetStatus, Passes
  <2> QED
    BY <1>1, <1>3, <1>4, <2>1, <2>2 DEF QueueInv, StatusInv
<1>5. CASE group = "delayed"
  <2>1. delayed # <<>> /\ v = Last(delayed) /\ v \in ToSet(delayed)
    BY <1>1, <1>5, OnceFront DEF IsVictim, QueueInv, QueueTypes, EvictInv
  <2>2. status[v] = "RUNNING"
    BY <1>1, <1>3, <1>5, <2>1 DEF QueueInv, StatusInv, TargetStatus
  <2>3. mode[v] = "none" /\ v \notin victims
    BY <2>2 DEF QueueInv, StatusInv, VictimInv
  <2> QED
    BY <1>1, <1>2, <1>3, <1>5, <2>1, <2>2, <2>3
<1>6. CASE group = "targets"
  <2>1. running # <<>> /\ v = Last(running) /\ v \in ToSet(running)
    BY <1>1, <1>6, OnceFront DEF IsVictim, Targets, QueueInv, QueueTypes, EvictInv
  <2>2. status[v] = "RUNNING"
    BY <1>1, <1>6, <2>1 DEF QueueInv, StatusInv
  <2>3. mode[v] = "none" /\ v \notin victims
    BY <2>2 DEF QueueInv, StatusInv, VictimInv
  <2>4. v \notin scheduled /\ v \notin ToSet(waiting) \cup ToSet(swapped)
    BY <1>1, <1>6, <2>1, <2>2 DEF QueueInv, PassInv, StatusInv
  <2> QED
    BY <1>1, <1>2, <1>3, <1>6, <2>1, <2>2, <2>3, <2>4
<1>7. CASE group = "self"
  <2>1. v = cur
    BY <1>7 DEF IsVictim
  <2>2. status[v] = "RUNNING"
    BY <1>1, <1>7, <2>1 DEF QueueInv, StatusInv, TargetStatus
  <2>3. mode[v] = "none" /\ v \notin victims
    BY <2>2 DEF QueueInv, StatusInv, VictimInv
  <2> QED
    BY <1>1, <1>2, <1>3, <1>7, <2>1, <2>2, <2>3
<1> QED
  BY <1>1, <1>4, <1>5, <1>6, <1>7

\* A victim that gave up all it had leaves its group, and what is popped.
LEMMA VictimLeaves ==
    ASSUME QueueInv, NEW v \in Seqs, IsVictim(v), LeaveGroup(v),
           running' = IF group = "targets" THEN Front(running) ELSE running,
           NEW n \in Nat, Continued(n, GroupEmpty(v))
    PROVE  /\ running' \in Seq(Seqs) /\ Once(running')
           /\ ToSet(running') = ToSet(running) \ {v}
           /\ delayed' \in Seq(Seqs) /\ Once(delayed')
           /\ ToSet(delayed') = ToSet(delayed) \ {v}
           /\ victims' = victims \ {v}
           /\ cur' \in Seqs \cup {0} /\ Popped' = Popped \ {v}
           /\ cur' \notin ToSet(delayed')
           /\ need' \in Nat
           /\ need' > 0 => /\ need > 0 /\ cur' # 0 /\ group' = group /\ group # "self"
                           /\ discards' = discards
                           /\ group = "delayed" => delayed' # <<>>
                           /\ group = "targets" => running' # <<>>
           /\ discards' = discards \/ discards' = NoDiscards
<1>1. /\ cur \in Seqs /\ need \in Nat /\ need > 0
      /\ group \in {"paused", "delayed", "targets", "self"}
      /\ group = "paused" => v \notin Popped
      /\ group # "paused" => pc = "pass1"
      /\ group = "delayed" <=> v \in ToSet(delayed)
      /\ group = "targets" <=> v \in ToSet(running)
      /\ group = "self" <=> v = cur
      /\ group = "delayed" => delayed # <<>> /\ v = Last(delayed)
      /\ group = "targets" => running # <<>> /\ v = Last(running)
  BY VictimFacts
<1>2. /\ running' \in Seq(Seqs) /\ Once(running') /\ ToSet(running') = ToSet(running) \ {v}
      /\ group = "targets" /\ Len(running) # 1 => running' # <<>>
  <2>1. CASE group = "targets"
    <3>1. /\ Front(running) \in Seq(Seqs) /\ Once(Front(running))
          /\ ToSet(running) = ToSet(Front(running)) \cup {v}
          /\ v \notin ToSet(Front(running))
      BY <1>1, <2>1, OnceFront DEF QueueInv, QueueTypes, NoRepetition
    <3>2. Len(running) # 1 => Front(running) # <<>>
      <4>1. Once(running) /\ running \in Seq(Seqs)
        BY DEF QueueInv, QueueTypes, NoRepetition
      <4>2. ASSUME Front(running) = <<>> PROVE Len(running) = 1
        <5>1. ToSet(running) = {v}
          BY <3>1, <4>2, EmptyFacts
        <5> QED
          BY <4>1, <5>1, OnceLen, FS_Singleton
      <4> QED
        BY <4>2
    <3> QED
      BY <2>1, <3>1, <3>2
  <2>2. CASE group # "targets"
    BY <1>1, <2>2 DEF QueueInv, QueueTypes, NoRepetition
  <2> QED
    BY <2>1, <2>2
<1>3. /\ delayed' \in Seq(Seqs) /\ Once(delayed') /\ ToSet(delayed') = ToSet(delayed) \ {v}
      /\ group = "delayed" /\ Len(delayed) # 1 => delayed' # <<>>
  <2>1. CASE group = "delayed"
    <3>1. /\ Front(delayed) \in Seq(Seqs) /\ Once(Front(delayed))
          /\ ToSet(delayed) = ToSet(Front(delayed)) \cup {v}
          /\ v \notin ToSet(Front(delayed))
      BY <1>1, <2>1, OnceFront DEF QueueInv, QueueTypes, NoRepetition
    <3>2. Len(delayed) # 1 => Front(delayed) # <<>>
      <4>1. Once(delayed) /\ delayed \in Seq(Seqs)
        BY DEF QueueInv, QueueTypes, NoRepetition
      <4>2. ASSUME Front(delayed) = <<>> PROVE Len(delayed) = 1
        <5>1. ToSet(delayed) = {v}
          BY <3>1, <4>2, EmptyFacts
        <5> QED
          BY <4>1, <5>1, OnceLen, FS_Singleton
      <4> QED
        BY <4>2
    <3> QED
      BY <2>1, <3>1, <3>2 DEF LeaveGroup
  <2>2. CASE group # "delayed"
    BY <1>1, <2>2 DEF LeaveGroup, QueueInv, QueueTypes, NoRepetition
  <2> QED
    BY <2>1, <2>2
<1> DEFINE left == IF GroupEmpty(v) THEN 0 ELSE Larger(0, need - n)
<1>a. /\ need' = left
      /\ group' = IF left = 0 THEN "none" ELSE group
      /\ discards' = IF left = 0 THEN NoDiscards ELSE discards
      /\ cur' = IF left = 0 /\ group = "self" THEN 0 ELSE cur
  BY DEF Continued
<1>b. GroupEmpty(v) => left = 0
  OBVIOUS
<1>c. left \in Nat
  BY <1>1 DEF Larger
<1> HIDE DEF left
<1>4. /\ need' = left
      /\ need' > 0 => group' = group /\ discards' = discards
      /\ discards' = discards \/ discards' = NoDiscards
      /\ cur' = IF need' = 0 /\ group = "self" THEN 0 ELSE cur
  BY <1>a, <1>c
<1>5. need' \in Nat /\ (group = "self" => need' = 0)
  <2>1. group = "self" => GroupEmpty(v)
    BY DEF GroupEmpty
  <2> QED
    BY <1>4, <1>b, <1>c, <2>1
<1>6. need' > 0 => ~GroupEmpty(v)
  BY <1>4, <1>b
<1>7. need' > 0 => /\ group = "delayed" => Len(delayed) # 1
                   /\ group = "targets" => Len(running) # 1
  BY <1>1, <1>6 DEF GroupEmpty, Targets
<1>8. cur' = IF v = cur THEN 0 ELSE cur
  BY <1>1, <1>4, <1>5
<1>9. Popped' = Popped \ {v}
  BY <1>1, <1>3, <1>8, SeqsFacts DEF Popped
<1>10. cur \notin ToSet(delayed) /\ 0 \notin ToSet(delayed) /\ cur # 0
  BY <1>1, ListFacts, SeqsFacts DEF QueueInv, PassInv, QueueTypes
<1>11. victims' = victims \ {v}
  BY DEF LeaveGroup
<1> QED
  BY <1>1, <1>2, <1>3, <1>4, <1>5, <1>7, <1>8, <1>9, <1>10, <1>11

\* A victim starts over.
LEMMA QueueRecompute ==
    ASSUME QueueInv, NEW v \in Seqs, RecomputeVictim(v), VictimCounts
    PROVE  QueueInv'
<1>1. /\ IsVictim(v) /\ LeaveGroup(v) /\ Continued(GpuCount(v), GroupEmpty(v))
      /\ discards = NoDiscards
      /\ running' = (IF group = "targets" THEN Front(running) ELSE running)
      /\ mode' = [mode EXCEPT ![v] = IF group = "paused" THEN "RECOMPUTE" ELSE @]
      /\ status' = [status EXCEPT ![v] = IF group = "paused" THEN @ ELSE "WAITING"]
      /\ waiting' = IF group = "paused" THEN waiting ELSE Append(waiting, v)
      /\ UNCHANGED <<swapped, demoted, scheduled, sampled, pc>>
      /\ GpuCount(v) \in Nat
  BY DEF RecomputeVictim, VictimCounts
<1>2. /\ running' \in Seq(Seqs) /\ Once(running')
      /\ ToSet(running') = ToSet(running) \ {v}
      /\ delayed' \in Seq(Seqs) /\ Once(delayed')
      /\ ToSet(delayed') = ToSet(delayed) \ {v}
      /\ victims' = victims \ {v}
      /\ cur' \in Seqs \cup {0} /\ Popped' = Popped \ {v}
      /\ cur' \notin ToSet(delayed')
      /\ need' \in Nat
      /\ need' > 0 => /\ need > 0 /\ cur' # 0 /\ group' = group /\ group # "self"
                      /\ discards' = discards
                      /\ group = "delayed" => delayed' # <<>>
                      /\ group = "targets" => running' # <<>>
      /\ discards' = discards \/ discards' = NoDiscards
  BY <1>1, VictimLeaves
<1>3. /\ pc \in Passes
      /\ group = "paused" => /\ mode[v] = "PRESERVE" /\ status[v] = "PAUSED_API"
                             /\ v \in victims
      /\ group # "paused" => /\ pc = "pass1" /\ status[v] = "RUNNING" /\ mode[v] = "none"
      /\ v \notin ToSet(waiting) \cup ToSet(swapped) \cup scheduled
  BY <1>1, VictimFacts
<1>4. /\ TargetStatus' = TargetStatus /\ pc \notin {"idle", "pause", "execute", "process"}
      /\ sampled = {} /\ demoted = {}
  BY <1>1, <1>3 DEF TargetStatus, Passes, QueueInv, PassInv, VictimInv
<1>5. discards'.queue = <<>> /\ discards'.paused = {} /\ discards' = NoDiscards
  BY <1>1, <1>2 DEF NoDiscards
<1>6. PassInv'
  <2>1. ToSet(waiting') \subseteq ToSet(waiting) \cup {v}
    BY <1>1, OnceAppend DEF QueueInv, QueueTypes
  <2>2. cur' # 0 => pc' \in Passes
    BY <1>1, <1>3
  <2> QED
    BY <1>1, <1>2, <1>3, <1>4, <2>1, <2>2 DEF QueueInv, PassInv
<1>7. EvictInv'
  BY <1>1, <1>2, <1>5, EmptyFacts DEF QueueInv, EvictInv
<1>8. CASE group = "paused"
  <2>1. /\ mode' = [mode EXCEPT ![v] = "RECOMPUTE"] /\ status' = status
        /\ waiting' = waiting
    BY <1>1, <1>8 DEF QueueInv, QueueTypes
  <2>2. StatusInv'
    BY <1>1, <1>2, <1>3, <1>4, <1>8, <2>1 DEF QueueInv, QueueTypes, StatusInv
  <2>3. VictimInv'
    BY <1>1, <1>2, <1>4, <2>1 DEF QueueInv, QueueTypes, VictimInv
  <2>4. QueueTypes' /\ NoRepetition'
    BY <1>1, <1>2, <1>5, <2>1, EmptyFacts
       DEF QueueInv, QueueTypes, NoRepetition, NoDiscards
  <2> QED
    BY <1>6, <1>7, <2>2, <2>3, <2>4 DEF QueueInv
<1>9. CASE group # "paused"
  <2>1. /\ mode' = mode /\ status' = [status EXCEPT ![v] = "WAITING"]
        /\ waiting' = Append(waiting, v)
    BY <1>1, <1>9 DEF QueueInv, QueueTypes
  <2>2. /\ waiting' \in Seq(Seqs) /\ Once(waiting')
        /\ ToSet(waiting') = ToSet(waiting) \cup {v}
    BY <1>3, <2>1, OnceAppend DEF QueueInv, QueueTypes, NoRepetition
  <2>3. StatusInv'
    BY <1>1, <1>2, <1>3, <1>4, <1>9, <2>1, <2>2 DEF QueueInv, QueueTypes, StatusInv
  <2>4. VictimInv'
    BY <1>1, <1>2, <1>4, <2>1 DEF QueueInv, QueueTypes, VictimInv
  <2>5. QueueTypes' /\ NoRepetition'
    BY <1>1, <1>2, <1>5, <2>1, <2>2, EmptyFacts
       DEF QueueInv, QueueTypes, NoRepetition, NoDiscards, Statuses
  <2> QED
    BY <1>6, <1>7, <2>3, <2>4, <2>5 DEF QueueInv
<1> QED
  BY <1>8, <1>9

\* A part of a victim, or all of it, is swapped out.
LEMMA QueueSwapOut ==
    ASSUME QueueInv, NEW v \in Seqs, SwapVictimPart(v) \/ SwapVictim(v), VictimCounts
    PROVE  QueueInv'
<1>1. CASE SwapVictimPart(v)
  <2>1. /\ IsVictim(v) /\ GpuCount(v) > need /\ Continued(need, FALSE)
        /\ UNCHANGED <<waiting, running, swapped, mode, status, victims, demoted, delayed,
                       scheduled, sampled, pc>>
    BY <1>1 DEF SwapVictimPart, queues, choice
  <2>2. need \in Nat /\ need > 0 /\ group # "self"
    <3>1. need \in Nat /\ need > 0 /\ (group = "self" => v = cur)
      BY <2>1, VictimFacts
    <3> QED
      BY <2>1, <3>1 DEF VictimCounts
  <2>3. need' = 0 /\ cur' = cur /\ discards' = NoDiscards
    BY <2>1, <2>2 DEF Continued, Larger
  <2>4. Popped' = Popped /\ TargetStatus' = TargetStatus
    BY <2>1, <2>3 DEF Popped, TargetStatus
  <2>5. StatusInv'
    BY <2>1, <2>4 DEF QueueInv, StatusInv
  <2> QED
    BY <2>1, <2>3, <2>4, <2>5, EmptyFacts
       DEF QueueInv, QueueTypes, NoRepetition, PassInv, VictimInv, EvictInv, NoDiscards
<1>2. CASE SwapVictim(v)
  <2>1. /\ IsVictim(v) /\ LeaveGroup(v) /\ Continued(GpuCount(v), GroupEmpty(v))
        /\ running' = (IF group = "targets" THEN Front(running) ELSE running)
        /\ mode' = [mode EXCEPT ![v] = IF group = "paused" THEN "SWAP" ELSE @]
        /\ status' = [status EXCEPT ![v] = IF group = "paused" THEN @ ELSE "SWAPPED"]
        /\ swapped' = IF group = "paused" THEN swapped ELSE Append(swapped, v)
        /\ UNCHANGED <<waiting, demoted, scheduled, sampled, pc>>
        /\ GpuCount(v) \in Nat
    BY <1>2 DEF SwapVictim, VictimCounts
  <2>2. /\ running' \in Seq(Seqs) /\ Once(running')
        /\ ToSet(running') = ToSet(running) \ {v}
        /\ delayed' \in Seq(Seqs) /\ Once(delayed')
        /\ ToSet(delayed') = ToSet(delayed) \ {v}
        /\ victims' = victims \ {v}
        /\ cur' \in Seqs \cup {0} /\ Popped' = Popped \ {v}
        /\ cur' \notin ToSet(delayed')
        /\ need' \in Nat
        /\ need' > 0 => /\ need > 0 /\ cur' # 0 /\ group' = group /\ group # "self"
                        /\ discards' = discards
                        /\ group = "delayed" => delayed' # <<>>
                        /\ group = "targets" => running' # <<>>
        /\ discards' = discards \/ discards' = NoDiscards
    BY <2>1, VictimLeaves
  <2>3. /\ pc \in Passes
        /\ group = "paused" => mode[v] = "PRESERVE" /\ status[v] = "PAUSED_API"
        /\ group # "paused" => /\ pc = "pass1" /\ status[v] = "RUNNING" /\ mode[v] = "none"
        /\ v \notin ToSet(waiting) \cup ToSet(swapped) \cup scheduled
    BY <2>1, VictimFacts
  <2>4. /\ TargetStatus' = TargetStatus /\ pc \notin {"idle", "pause", "execute", "process"}
        /\ sampled = {} /\ demoted = {}
    BY <2>1, <2>3 DEF TargetStatus, Passes, QueueInv, PassInv, VictimInv
  <2>5. PassInv'
    <3>1. ToSet(swapped') \subseteq ToSet(swapped) \cup {v}
      BY <2>1, OnceAppend DEF QueueInv, QueueTypes
    <3>2. cur' # 0 => pc' \in Passes
      BY <2>1, <2>3
    <3> QED
      BY <2>1, <2>2, <2>3, <2>4, <3>1, <3>2 DEF QueueInv, PassInv
  <2>6. discards' \in [queue : Seq(Seqs), paused : SUBSET Seqs] /\ Once(discards'.queue)
    <3>1. /\ NoDiscards \in [queue : Seq(Seqs), paused : SUBSET Seqs]
          /\ Once(NoDiscards.queue)
      BY EmptyFacts DEF NoDiscards
    <3>2. /\ discards \in [queue : Seq(Seqs), paused : SUBSET Seqs]
          /\ Once(discards.queue)
      BY DEF QueueInv, QueueTypes, NoRepetition
    <3> QED
      BY <2>2, <3>1, <3>2
  <2>7. CASE group = "paused"
    <3>1. /\ mode' = [mode EXCEPT ![v] = "SWAP"] /\ status' = status
          /\ swapped' = swapped
      BY <2>1, <2>7 DEF QueueInv, QueueTypes
    <3>2. StatusInv'
      BY <2>1, <2>2, <2>3, <2>4, <2>7, <3>1 DEF QueueInv, QueueTypes, StatusInv
    <3>3. VictimInv'
      BY <2>1, <2>2, <2>4, <3>1 DEF QueueInv, QueueTypes, VictimInv
    <3>4. EvictInv'
      BY <2>1, <2>2, <3>1 DEF QueueInv, QueueTypes, EvictInv
    <3>5. QueueTypes' /\ NoRepetition'
      BY <2>1, <2>2, <2>6, <3>1 DEF QueueInv, QueueTypes, NoRepetition
    <3> QED
      BY <2>5, <3>2, <3>3, <3>4, <3>5 DEF QueueInv
  <2>8. CASE group # "paused"
    <3>1. /\ mode' = mode /\ status' = [status EXCEPT ![v] = "SWAPPED"]
          /\ swapped' = Append(swapped, v)
      BY <2>1, <2>8 DEF QueueInv, QueueTypes
    <3>2. /\ swapped' \in Seq(Seqs) /\ Once(swapped')
          /\ ToSet(swapped') = ToSet(swapped) \cup {v}
      BY <2>3, <3>1, OnceAppend DEF QueueInv, QueueTypes, NoRepetition
    <3>3. StatusInv'
      BY <2>1, <2>2, <2>3, <2>4, <2>8, <3>1, <3>2 DEF QueueInv, QueueTypes, StatusInv
    <3>4. VictimInv'
      BY <2>1, <2>2, <2>4, <3>1 DEF QueueInv, QueueTypes, VictimInv
    <3>5. EvictInv'
      BY <2>1, <2>2, <3>1, <3>2 DEF QueueInv, QueueTypes, EvictInv
    <3>6. QueueTypes' /\ NoRepetition'
      BY <2>1, <2>2, <2>6, <3>1, <3>2 DEF QueueInv, QueueTypes, NoRepetition, Statuses
    <3> QED
      BY <2>5, <3>3, <3>4, <3>5, <3>6 DEF QueueInv
  <2> QED
    BY <2>7, <2>8
<1> QED
  BY <1>1, <1>2

\* What was swapped out before this call may lose its blocks on the CPU.
LEMMA QueueDiscard ==
    ASSUME QueueInv, NEW v \in Seqs, NEW d \in Seqs, DiscardSwapped(v, d)
    PROVE  QueueInv'
<1>1. /\ IsVictim(v) /\ IsDiscarded(d) /\ DiscardVictim(d)
      /\ swapped' = Without(swapped, d)
      /\ discards' = IF discards.paused # {}
                     THEN [discards EXCEPT !.paused = @ \ {d}]
                     ELSE [discards EXCEPT !.queue = Front(@)]
      /\ UNCHANGED <<running, victims, demoted, cur, need, group, delayed, scheduled,
                     sampled, pc>>
  BY DEF DiscardSwapped, choice
<1>2. /\ pc \in Passes /\ need > 0 /\ cur \in Seqs
      /\ Popped' = Popped /\ TargetStatus' = TargetStatus
  BY <1>1, VictimFacts DEF Popped, TargetStatus
<1>3. /\ pc \notin {"idle", "pause", "execute", "process"} /\ sampled = {} /\ demoted = {}
  BY <1>2 DEF Passes, QueueInv, PassInv, VictimInv
<1>4. swapped' \in Seq(Seqs) /\ Once(swapped') /\ ToSet(swapped') = ToSet(swapped) \ {d}
  BY <1>1, WithoutFacts DEF QueueInv, QueueTypes, NoRepetition
<1>5. /\ discards.queue \in Seq(Seqs) /\ Once(discards.queue)
      /\ discards.paused \in SUBSET Seqs
      /\ ToSet(discards.queue) \subseteq ToSet(swapped)
      /\ \A r \in discards.paused : mode[r] = "SWAP"
  BY <1>2 DEF QueueInv, QueueTypes, NoRepetition, EvictInv
<1>6. CASE discards.paused # {}
  <2>1. d \in discards.paused /\ mode[d] = "SWAP" /\ status[d] = "PAUSED_API"
        /\ d \notin ToSet(swapped)
    BY <1>1, <1>5, <1>6 DEF IsDiscarded, QueueInv, StatusInv
  <2>2. /\ mode' = [mode EXCEPT ![d] = "RECOMPUTE"]
        /\ UNCHANGED <<waiting, status>>
    BY <1>1, <2>1 DEF DiscardVictim, PauseByRecompute
  <2>3. /\ discards' \in [queue : Seq(Seqs), paused : SUBSET Seqs]
        /\ discards'.queue = discards.queue
        /\ discards'.paused = discards.paused \ {d}
    BY <1>1, <1>6 DEF QueueInv, QueueTypes
  <2>4. StatusInv'
    BY <1>1, <1>2, <1>4, <2>1, <2>2 DEF QueueInv, QueueTypes, StatusInv
  <2>5. VictimInv' /\ EvictInv'
    BY <1>1, <1>3, <1>4, <1>5, <2>1, <2>2, <2>3
       DEF QueueInv, QueueTypes, VictimInv, EvictInv
  <2>6. PassInv'
    BY <1>1, <1>2, <1>4, <2>2 DEF QueueInv, PassInv
  <2> QED
    BY <1>1, <1>4, <1>5, <2>2, <2>3, <2>4, <2>5, <2>6
       DEF QueueInv, QueueTypes, NoRepetition
<1>7. CASE discards.paused = {}
  <2>1. discards.queue # <<>> /\ d = Last(discards.queue)
    BY <1>1, <1>7 DEF IsDiscarded
  <2>2. /\ Front(discards.queue) \in Seq(Seqs)
        /\ ToSet(discards.queue) = ToSet(Front(discards.queue)) \cup {d}
        /\ Once(Front(discards.queue)) /\ d \notin ToSet(Front(discards.queue))
    BY <1>5, <2>1, OnceFront
  <2>3. d \in ToSet(swapped) /\ status[d] = "SWAPPED" /\ mode[d] = "none"
        /\ d \notin ToSet(waiting) /\ d \notin scheduled /\ d \notin Popped
    BY <1>5, <2>2 DEF QueueInv, StatusInv, PassInv
  <2>4. /\ waiting' = Append(waiting, d) /\ mode' = mode
        /\ status' = [status EXCEPT ![d] = "WAITING"]
    BY <1>1, <2>3 DEF DiscardVictim, PreemptByRecompute
  <2>5. /\ waiting' \in Seq(Seqs) /\ Once(waiting')
        /\ ToSet(waiting') = ToSet(waiting) \cup {d}
    BY <2>3, <2>4, OnceAppend DEF QueueInv, QueueTypes, NoRepetition
  <2>6. /\ discards' \in [queue : Seq(Seqs), paused : SUBSET Seqs]
        /\ discards'.queue = Front(discards.queue)
        /\ discards'.paused = discards.paused
    BY <1>1, <1>7, <2>2 DEF QueueInv, QueueTypes
  <2>7. StatusInv'
    BY <1>1, <1>2, <1>3, <1>4, <2>3, <2>4, <2>5 DEF QueueInv, QueueTypes, StatusInv
  <2>8. VictimInv' /\ EvictInv'
    BY <1>1, <1>3, <1>4, <1>5, <2>2, <2>4, <2>6
       DEF QueueInv, QueueTypes, VictimInv, EvictInv
  <2>9. PassInv'
    BY <1>1, <1>2, <1>4, <2>3, <2>5 DEF QueueInv, PassInv
  <2>10. QueueTypes' /\ NoRepetition'
    BY <1>1, <1>4, <2>2, <2>4, <2>5, <2>6
       DEF QueueInv, QueueTypes, NoRepetition, Statuses
  <2> QED
    BY <2>7, <2>8, <2>9, <2>10 DEF QueueInv
<1> QED
  BY <1>6, <1>7

-----------------------------------------------------------------------------
(* The ends of the passes, and the outputs.                                *)

\* The sets of requests the ends of the passes sort are finite.
LEMMA FiniteLists ==
    ASSUME QueueTypes
    PROVE  /\ ToSet(waiting) \in SUBSET Seqs /\ IsFiniteSet(ToSet(waiting))
           /\ ToSet(running) \in SUBSET Seqs /\ IsFiniteSet(ToSet(running))
           /\ ToSet(swapped) \in SUBSET Seqs /\ IsFiniteSet(ToSet(swapped))
           /\ ToSet(delayed) \in SUBSET Seqs /\ IsFiniteSet(ToSet(delayed))
BY ListFacts DEF QueueTypes

\* The delayed of a pass are put back, and its batch is running.
LEMMA QueueFinish ==
    ASSUME QueueInv, IsFiniteSet(scheduled), FinishPass1 \/ FinishPass2 \/ FinishPass3
    PROVE  QueueInv'
<1>1. /\ delayed' = <<>>
      /\ UNCHANGED <<mode, status, cur, need, group, discards, scheduled, sampled, demoted>>
  BY DEF FinishPass1, FinishPass2, FinishPass3, choice, loop
<1>2. cur = 0 /\ need = 0 /\ Popped = ToSet(delayed) /\ Popped' = {}
      /\ pc \in Passes \cup Afters
  <2>1. cur = 0 /\ pc \in Passes \cup Afters
    BY DEF FinishPass1, FinishPass2, FinishPass3, PassOver, QueueInv, QueueTypes, PassInv,
           Passes, Afters
  <2> QED
    BY <1>1, <2>1, EmptyFacts DEF QueueInv, QueueTypes, PassInv, EvictInv, Popped
<1>3. /\ delayed' \in Seq(Seqs) /\ Once(delayed') /\ ToSet(delayed') = {}
  BY <1>1, EmptyFacts
<1>4. sampled = {} /\ demoted = {} /\ pc # "process"
  BY <1>2 DEF QueueInv, PassInv, VictimInv, Passes, Afters
<1>5. /\ ToSet(waiting) \in SUBSET Seqs /\ IsFiniteSet(ToSet(waiting))
      /\ ToSet(running) \in SUBSET Seqs /\ IsFiniteSet(ToSet(running))
      /\ ToSet(swapped) \in SUBSET Seqs /\ IsFiniteSet(ToSet(swapped))
      /\ ToSet(delayed) \in SUBSET Seqs /\ IsFiniteSet(ToSet(delayed))
      /\ scheduled \in SUBSET Seqs
  BY FiniteLists DEF QueueInv, QueueTypes
<1>6. ToSet(running) \cup scheduled \in SUBSET Seqs
      /\ IsFiniteSet(ToSet(running) \cup scheduled)
  BY <1>5, FS_Union
<1>7. CASE FinishPass1
  <2>1. /\ pc \in {"pass1", "after1"} /\ pc' = "pass2"
        /\ running' = ByArrival(ToSet(running) \cup ToSet(delayed) \cup scheduled)
        /\ swapped' = ByArrival(ToSet(swapped))
        /\ UNCHANGED <<waiting, victims>>
    BY <1>7 DEF FinishPass1, PassOver, choice
  <2>2. LET all == ToSet(running) \cup ToSet(delayed) \cup scheduled
        IN  all \in SUBSET Seqs /\ IsFiniteSet(all)
    BY <1>5, FS_Union
  <2>3. /\ running' \in Seq(Seqs) /\ Once(running')
        /\ ToSet(running') = ToSet(running) \cup ToSet(delayed) \cup scheduled
        /\ swapped' \in Seq(Seqs) /\ Once(swapped') /\ ToSet(swapped') = ToSet(swapped)
    BY <1>5, <2>1, <2>2, SortedFacts
  <2>4. TargetStatus = "RUNNING"
    BY <2>1 DEF TargetStatus
  <2>5. StatusInv'
    BY <1>1, <1>2, <1>4, <2>1, <2>3, <2>4 DEF QueueInv, StatusInv
  <2> QED
    BY <1>1, <1>2, <1>3, <1>4, <2>1, <2>3, <2>5
       DEF QueueInv, QueueTypes, NoRepetition, PassInv, VictimInv, EvictInv, Passes, Afters
<1>8. CASE FinishPass2
  <2>1. /\ pc \in {"pass2", "after2"} /\ pc' = "pass3"
        /\ running' = ByArrival(ToSet(running) \cup scheduled)
        /\ swapped' = swapped \o delayed
        /\ waiting' = ByArrival(ToSet(waiting))
        /\ UNCHANGED victims
    BY <1>8 DEF FinishPass2, PassOver, choice
  <2>2. /\ running' \in Seq(Seqs) /\ Once(running')
        /\ ToSet(running') = ToSet(running) \cup scheduled
        /\ waiting' \in Seq(Seqs) /\ Once(waiting') /\ ToSet(waiting') = ToSet(waiting)
    BY <1>5, <1>6, <2>1, SortedFacts
  <2>3. /\ swapped' \in Seq(Seqs) /\ Once(swapped')
        /\ ToSet(swapped') = ToSet(swapped) \cup ToSet(delayed)
    BY <1>2, <2>1, OnceConcat DEF QueueInv, QueueTypes, NoRepetition, PassInv
  <2>4. TargetStatus = "SWAPPED"
    BY <2>1 DEF TargetStatus
  <2>5. StatusInv'
    BY <1>1, <1>2, <1>4, <2>1, <2>2, <2>3, <2>4 DEF QueueInv, StatusInv
  <2> QED
    BY <1>1, <1>2, <1>3, <1>4, <2>1, <2>2, <2>3, <2>5
       DEF QueueInv, QueueTypes, NoRepetition, PassInv, VictimInv, EvictInv, Passes, Afters
<1>9. CASE FinishPass3
  <2>1. /\ pc \in {"pass3", "after3"}
        /\ pc' = "execute" \/ (pc' = "idle" /\ scheduled = {})
        /\ running' = ByArrival(ToSet(running) \cup scheduled)
        /\ waiting' = delayed \o waiting
        /\ victims' = {} /\ UNCHANGED swapped
    BY <1>9 DEF FinishPass3, PassOver
  <2>2. /\ running' \in Seq(Seqs) /\ Once(running')
        /\ ToSet(running') = ToSet(running) \cup scheduled
    BY <1>6, <2>1, SortedFacts
  <2>3. /\ waiting' \in Seq(Seqs) /\ Once(waiting')
        /\ ToSet(waiting') = ToSet(delayed) \cup ToSet(waiting)
    BY <1>2, <2>1, OnceConcat DEF QueueInv, QueueTypes, NoRepetition, PassInv
  <2>4. TargetStatus = "WAITING"
    BY <2>1 DEF TargetStatus
  <2>5. StatusInv'
    BY <1>1, <1>2, <1>4, <2>1, <2>2, <2>3, <2>4 DEF QueueInv, StatusInv
  <2> QED
    BY <1>1, <1>2, <1>3, <1>4, <2>1, <2>2, <2>3, <2>5
       DEF QueueInv, QueueTypes, NoRepetition, PassInv, VictimInv, EvictInv, Passes, Afters
<1> QED
  BY <1>7, <1>8, <1>9

\* The batch is executed.
LEMMA QueueForward ==
    ASSUME QueueInv, PostForward
    PROVE  QueueInv'
<1>1. /\ pc = "execute" /\ pc' = "process" /\ scheduled' = {}
      /\ sampled' \subseteq scheduled
      /\ UNCHANGED <<waiting, running, swapped, mode, status, cur, need, group, discards,
                     victims, demoted, delayed>>
  BY DEF PostForward, queues, choice, loop
<1>2. /\ cur = 0 /\ need = 0 /\ Popped = {} /\ Popped' = {} /\ delayed = <<>>
      /\ scheduled \subseteq ToSet(running) /\ victims = {} /\ demoted = {}
  BY <1>1, RestFacts DEF Passes, Afters, Popped, QueueInv, PassInv, VictimInv
<1>3. StatusInv'
  BY <1>1, <1>2 DEF QueueInv, StatusInv
<1> QED
  BY <1>1, <1>2, <1>3
     DEF QueueInv, QueueTypes, NoRepetition, PassInv, VictimInv, EvictInv, Passes, Afters

\* A request that got its token pauses, stops or goes on.
LEMMA QueueOutput ==
    ASSUME QueueInv, NEW r \in Seqs,
           (\E m \in PauseModes : CallApi(r, m)) \/ StopRequest(r) \/ Continue(r)
    PROVE  QueueInv'
<1>1. /\ pc = "process" /\ pc' = pc /\ r \in sampled /\ sampled' = sampled \ {r}
      /\ UNCHANGED <<waiting, running, swapped, cur, need, group, discards, victims,
                     demoted, delayed, scheduled>>
  BY DEF CallApi, StopRequest, Continue, AppendToken, choice, loop
<1>2. /\ cur = 0 /\ need = 0 /\ Popped = {} /\ Popped' = {} /\ delayed = <<>>
      /\ scheduled = {} /\ victims = {} /\ demoted = {}
  BY <1>1, RestFacts DEF Passes, Afters, Popped, QueueInv, PassInv, VictimInv
<1>3. /\ status[r] = "RUNNING" /\ mode[r] = "none"
      /\ r \in ToSet(running) /\ r \notin ToSet(waiting) \cup ToSet(swapped)
  BY <1>1 DEF QueueInv, StatusInv
<1>4. \/ UNCHANGED <<status, mode>>
      \/ status' = [status EXCEPT ![r] = "FINISHED_STOPPED"] /\ mode' = mode
      \/ /\ status' = [status EXCEPT ![r] = "PAUSED_API"]
         /\ \E m \in {"PRESERVE", "SWAP", "RECOMPUTE"} : mode' = [mode EXCEPT ![r] = m]
  BY DEF CallApi, StopRequest, Continue
<1>5. StatusInv'
  BY <1>1, <1>2, <1>3, <1>4 DEF QueueInv, QueueTypes, StatusInv, Finished
<1>6. VictimInv'
  BY <1>1, <1>2 DEF VictimInv
<1>7. QueueTypes'
  BY <1>1, <1>4 DEF QueueInv, QueueTypes, Statuses, Finished
<1> QED
  BY <1>1, <1>2, <1>5, <1>6, <1>7 DEF QueueInv, NoRepetition, PassInv, EvictInv

\* What is finished or paused leaves self.running.
LEMMA QueueFinishStep ==
    ASSUME QueueInv, FinishStep
    PROVE  QueueInv'
<1> DEFINE kept == {r \in Seqs : status[r] \notin Finished \cup {"PAUSED_API"}}
<1>1. /\ pc = "process" /\ pc' = "idle" /\ sampled = {}
      /\ running' = OnlyOf(running, kept)
      /\ UNCHANGED <<waiting, swapped, mode, status, cur, need, group, discards, victims,
                     demoted, delayed, scheduled, sampled>>
  BY DEF FinishStep, choice, loop
<1>2. /\ cur = 0 /\ need = 0 /\ Popped = {} /\ Popped' = {} /\ delayed = <<>>
      /\ scheduled = {} /\ victims = {} /\ demoted = {}
  BY <1>1, RestFacts DEF Passes, Afters, Popped, QueueInv, PassInv, VictimInv
<1>3. /\ running' \in Seq(Seqs) /\ Once(running')
      /\ ToSet(running') = ToSet(running) \cap kept
  <2> HIDE DEF kept
  <2> QED
    BY <1>1, OnlyOfFacts DEF QueueInv, QueueTypes, NoRepetition
<1>4. ToSet(running) \cap {r \in Seqs : status[r] = "RUNNING"} \subseteq kept
  BY DEF Finished
<1>5. StatusInv'
  BY <1>1, <1>2, <1>3, <1>4 DEF QueueInv, StatusInv
<1> QED
  BY <1>1, <1>2, <1>3, <1>5
     DEF QueueInv, QueueTypes, NoRepetition, PassInv, VictimInv, EvictInv, Passes, Afters

\* Every step keeps the invariant of the queues.
LEMMA QueueNext ==
    ASSUME QueueInv, VictimCounts, IsFiniteSet(scheduled), [Next]_vars
    PROVE  QueueInv'
<1>1. CASE UNCHANGED vars
  BY <1>1 DEF vars, queues, choice, loop, QueueInv, QueueTypes, NoRepetition, StatusInv,
              PassInv, VictimInv, EvictInv, Popped, TargetStatus
<1>2. CASE Client
  BY <1>2, QueueAdd, QueueAbort, QueueResume DEF Client
<1>3. CASE PausePhase
  BY <1>3, QueueStart, QueueDemote, QueueStartPass1 DEF PausePhase
<1>4. CASE PassPhase
  BY <1>4, QueueIgnore, QueueDelay, QueueSchedule, QueueCur, QueueStartDiscard,
     QueueRecompute, QueueSwapOut, QueueDiscard, QueueFinish DEF PassPhase
<1>5. CASE PostForward
  BY <1>5, QueueForward
<1>6. CASE OutputPhase
  BY <1>6, QueueOutput, QueueFinishStep DEF OutputPhase
<1> QED
  BY <1>1, <1>2, <1>3, <1>4, <1>5, <1>6 DEF Next, Step

\* The lists and the statuses agree between two calls of schedule().
LEMMA QueueMeaning == QueueInv => OneQueue
<1> SUFFICES ASSUME QueueInv, pc \in {"idle", "pause", "execute"}
             PROVE  /\ ToSet(waiting) = {r \in Seqs : status[r] = "WAITING"}
                    /\ ToSet(running) = {r \in Seqs : status[r] = "RUNNING"}
                    /\ ToSet(swapped) = {r \in Seqs : status[r] = "SWAPPED"}
                    /\ Paused = {r \in Seqs : status[r] = "PAUSED_API"}
                    /\ Len(InQueues) = Cardinality(ToSet(InQueues))
  BY DEF OneQueue
<1> DEFINE first == waiting \o running
<1>1. /\ ToSet(waiting) \in SUBSET Seqs /\ ToSet(running) \in SUBSET Seqs
      /\ ToSet(swapped) \in SUBSET Seqs
  BY FiniteLists DEF QueueInv
<1>2. Popped = {} /\ scheduled \subseteq ToSet(running)
  BY RestFacts DEF Passes, Afters, QueueInv, PassInv
<1>3. /\ ToSet(waiting) = {r \in Seqs : status[r] = "WAITING"}
      /\ ToSet(running) = {r \in Seqs : status[r] = "RUNNING"}
      /\ ToSet(swapped) = {r \in Seqs : status[r] = "SWAPPED"}
      /\ Paused = {r \in Seqs : status[r] = "PAUSED_API"}
  BY <1>1, <1>2 DEF QueueInv, StatusInv, Paused
<1>4. first \in Seq(Seqs) /\ Once(first) /\ ToSet(first) = ToSet(waiting) \cup ToSet(running)
  BY <1>3, OnceConcat DEF QueueInv, QueueTypes, NoRepetition
<1>5. InQueues = first \o swapped
  BY DEF InQueues
<1> HIDE DEF first
<1>6. InQueues \in Seq(Seqs) /\ Once(InQueues)
  BY <1>3, <1>4, <1>5, OnceConcat DEF QueueInv, QueueTypes, NoRepetition
<1>7. Len(InQueues) = Cardinality(ToSet(InQueues))
  BY <1>6, OnceLen
<1> QED
  BY <1>3, <1>7

-----------------------------------------------------------------------------
(* The block tables.  A table holds the blocks of n tokens, and the last   *)
(* `out` of them are on the CPU.                                           *)

Shape(table, n, out) ==
    /\ Len(table) = Token2Block(n)
    /\ out \in 0..Len(table)
    /\ \A i \in 1..(Len(table) - out) : table[i] \in GpuBlocks
    /\ \A i \in (Len(table) - out + 1)..Len(table) : table[i] \in CpuBlocks

\* Only no tokens have no block, and more tokens have no fewer blocks.
LEMMA Token2BlockFacts ==
    ASSUME NEW m \in Nat, NEW n \in Nat
    PROVE  /\ Token2Block(m) \in Nat
           /\ m <= n => Token2Block(m) <= Token2Block(n)
           /\ Token2Block(0) = 0
           /\ Token2Block(m) = 0 => m = 0
BY BlocksAssumption, SMTT(30) DEF Token2Block

\* A block is on one device.
LEMMA DevicesApart == \A b : b \in GpuBlocks => b \notin CpuBlocks
BY BlocksAssumption

\* The table of a request that gave up its blocks
LEMMA ShapeEmpty == Shape(<<>>, 0, 0)
BY Token2BlockFacts DEF Shape

\* The blocks by device
LEMMA ShapeFacts ==
    ASSUME NEW r \in Seqs, tables[r] \in Seq(Blocks), NEW n, NEW out,
           Shape(tables[r], n, out)
    PROVE  /\ Len(tables[r]) \in Nat /\ DOMAIN tables[r] = 1..Len(tables[r])
           /\ out \in Nat /\ out <= Len(tables[r])
           /\ OnGpu(r) = 1..(Len(tables[r]) - out)
           /\ GpuCount(r) = Len(tables[r]) - out
           /\ OnCpu(r) = (Len(tables[r]) - out + 1)..Len(tables[r])
           /\ Cardinality(OnCpu(r)) = out
<1> DEFINE size == Len(tables[r])
<1>1. size \in Nat /\ DOMAIN tables[r] = 1..size
  BY LenProperties
<1> HIDE DEF size
<1>2. /\ out \in Nat /\ out <= size /\ size - out \in Int /\ size - out + 1 \in Int
      /\ \A i \in 1..(size - out) : tables[r][i] \in GpuBlocks
      /\ \A i \in (size - out + 1)..size : tables[r][i] \in CpuBlocks
  BY <1>1 DEF Shape, size
<1>3. \A i \in 1..size : i \in 1..(size - out) \/ i \in (size - out + 1)..size
  BY <1>1, <1>2
<1>4. \A i \in 1..(size - out) : i \in 1..size
  BY <1>1, <1>2
<1>5. \A i \in (size - out + 1)..size : i \in 1..size
  BY <1>1, <1>2
<1>6. OnGpu(r) = 1..(size - out)
  BY <1>1, <1>2, <1>3, <1>4, DevicesApart DEF OnGpu
<1>7. OnCpu(r) = (size - out + 1)..size
  BY <1>1, <1>2, <1>3, <1>5, DevicesApart DEF OnCpu
<1>8. GpuCount(r) = size - out
  <2>1. Cardinality(1..(size - out)) = IF 1 > size - out THEN 0 ELSE (size - out) - 1 + 1
    BY <1>2, FS_Interval
  <2> QED
    BY <1>1, <1>2, <1>6, <2>1 DEF GpuCount
<1>9. Cardinality(OnCpu(r)) = out
  <2>1. Cardinality((size - out + 1)..size)
          = IF size - out + 1 > size THEN 0 ELSE size - (size - out + 1) + 1
    BY <1>1, <1>2, FS_Interval
  <2> QED
    BY <1>1, <1>2, <1>7, <2>1
<1> QED
  BY <1>1, <1>2, <1>6, <1>7, <1>8, <1>9 DEF size

\* The first n of the indices from a + 1 to b
LEMMA FirstOfInterval ==
    ASSUME NEW a \in Nat, NEW b \in Nat, NEW n \in Nat, a + n <= b
    PROVE  FirstOf((a + 1)..b, n) = (a + 1)..(a + n)
<1> DEFINE S == (a + 1)..b
<1>1. ASSUME NEW i \in S
      PROVE  Cardinality({j \in S : j < i}) < n <=> i <= a + n
  <2> DEFINE D == {j \in S : j < i}
  <2>1. D = (a + 1)..(i - 1)
    BY <1>1
  <2>2. i \in Int /\ a + 1 \in Int /\ i - 1 \in Int /\ i >= a + 1
    BY <1>1
  <2>3. Cardinality((a + 1)..(i - 1)) = IF a + 1 > i - 1 THEN 0 ELSE (i - 1) - (a + 1) + 1
    BY <2>2, FS_Interval
  <2> HIDE DEF D
  <2>4. Cardinality(D) = i - 1 - a
    BY <2>1, <2>2, <2>3
  <2>5. Cardinality(D) < n <=> i <= a + n
    BY <2>2, <2>4
  <2> QED
    BY <2>5 DEF D
<1>2. \A i \in S : i <= a + n <=> i \in (a + 1)..(a + n)
  OBVIOUS
<1>3. \A i \in (a + 1)..(a + n) : i \in S
  OBVIOUS
<1> HIDE DEF S
<1>4. FirstOf(S, n) = (a + 1)..(a + n)
  BY <1>1, <1>2, <1>3 DEF FirstOf
<1> QED
  BY <1>4 DEF S

\* The last n of the first g indices
LEMMA LastOfInterval ==
    ASSUME NEW g \in Nat, NEW n \in Nat, n <= g
    PROVE  LastOf(1..g, n) = (g - n + 1)..g
<1> DEFINE S == 1..g
<1>1. ASSUME NEW i \in S
      PROVE  Cardinality({j \in S : j > i}) < n <=> i >= g - n + 1
  <2> DEFINE D == {j \in S : j > i}
  <2>1. D = (i + 1)..g
    BY <1>1
  <2>2. i \in Int /\ i + 1 \in Int /\ g \in Int /\ i <= g
    BY <1>1
  <2>3. Cardinality((i + 1)..g) = IF i + 1 > g THEN 0 ELSE g - (i + 1) + 1
    BY <2>2, FS_Interval
  <2> HIDE DEF D
  <2>4. Cardinality(D) = g - i
    BY <2>1, <2>2, <2>3
  <2>5. Cardinality(D) < n <=> i >= g - n + 1
    BY <2>2, <2>4
  <2> QED
    BY <2>5 DEF D
<1>2. \A i \in S : i >= g - n + 1 <=> i \in (g - n + 1)..g
  OBVIOUS
<1>3. \A i \in (g - n + 1)..g : i \in S
  OBVIOUS
<1> HIDE DEF S
<1>4. LastOf(S, n) = (g - n + 1)..g
  BY <1>1, <1>2, <1>3 DEF LastOf
<1> QED
  BY <1>4 DEF S

\* What the free lists and the tables hold
BlockTypes ==
    /\ tables \in [Seqs -> Seq(Blocks)]
    /\ freeGpu \subseteq GpuBlocks /\ freeCpu \subseteq CpuBlocks

\* A table of n elements
LEMMA TableOf ==
    ASSUME NEW S, NEW size \in Nat, NEW f, DOMAIN f = 1..size, f = [i \in 1..size |-> f[i]],
           \A i \in 1..size : f[i] \in S
    PROVE  f \in Seq(S) /\ Len(f) = size
<1>1. f \in [1..size -> S]
  OBVIOUS
<1> QED
  BY <1>1

\* allocate: the first `in` blocks on the CPU and all that are appended are on
\* the GPU now.
LEMMA AllocateShape ==
    ASSUME BlockTypes, NEW r \in Seqs, NEW n, NEW out \in Nat, Shape(tables[r], n, out),
           NEW in \in Nat, in <= out, NEW new \in Nat, new > 0 => in = out,
           Allocate(r, in, new)
    PROVE  /\ BlockTypes'
           /\ \A m : Token2Block(m) = Len(tables[r]) + new => Shape(tables'[r], m, out - in)
           /\ \A s \in Seqs \ {r} : tables'[s] = tables[s]
<1> DEFINE old   == FirstOf(OnCpu(r), in)
           length == Len(tables[r])
           size  == length + new
           fresh == (length + 1)..size
<1>1. PICK to \in Handouts(old \cup fresh, freeGpu) :
         /\ tables' = [tables EXCEPT ![r] =
               [i \in 1..size |-> IF i \in DOMAIN to THEN to[i] ELSE @[i]]]
         /\ freeGpu' = freeGpu \ Chosen(to)
         /\ freeCpu' = freeCpu \cup {tables[r][i] : i \in old}
  BY DEF Allocate
<1>2. /\ length \in Nat /\ DOMAIN tables[r] = 1..length /\ out <= length
      /\ OnCpu(r) = (length - out + 1)..length
      /\ tables[r] \in Seq(Blocks)
  BY ShapeFacts DEF BlockTypes
<1> HIDE DEF length
<1>3. old = (length - out + 1)..(length - out + in)
  <2>1. length - out \in Nat /\ (length - out) + in <= length
    BY <1>2
  <2> DEFINE a == length - out
  <2>2. a \in Nat /\ a + in <= length
    BY <2>1
  <2> HIDE DEF a
  <2>3. FirstOf((a + 1)..length, in) = (a + 1)..(a + in)
    BY <1>2, <2>2, FirstOfInterval
  <2> QED
    BY <1>2, <2>3 DEF a
<1>4. /\ DOMAIN to = old \cup fresh
      /\ \A i \in old \cup fresh : to[i] \in GpuBlocks
  BY <1>1 DEF Handouts, BlockTypes
<1> DEFINE table == [i \in 1..size |-> IF i \in DOMAIN to THEN to[i] ELSE tables[r][i]]
<1>5. tables' = [tables EXCEPT ![r] = table]
  BY <1>1 DEF BlockTypes
<1>6. /\ \A i \in 1..(length - out) : tables[r][i] \in GpuBlocks
      /\ \A i \in (length - out + 1)..length : tables[r][i] \in CpuBlocks
  BY DEF Shape, length
<1>7. ASSUME NEW i \in 1..(size - (out - in))
      PROVE  i \in 1..size /\ table[i] \in GpuBlocks
  <2>1. i \in 1..size
    BY <1>2
  <2>2. \/ i \in 1..(length - out) /\ i \notin old \cup fresh
        \/ i \in old \cup fresh
    BY <1>2, <1>3
  <2> QED
    BY <1>4, <1>6, <2>1, <2>2
<1>8. ASSUME NEW i \in (size - (out - in) + 1)..size
      PROVE  i \in 1..size /\ table[i] \in CpuBlocks
  <2>1. /\ i \in 1..size /\ i \in (length - out + 1)..length /\ i \notin old \cup fresh
    <3>1. in # out
      BY <1>2
    <3>2. new = 0 /\ size = length
      BY <1>2, <3>1
    <3>3. fresh = {}
      BY <1>2, <3>2
    <3> HIDE DEF fresh
    <3>4. i \notin old
      BY <1>2, <1>3, <3>2
    <3> QED
      BY <1>2, <3>2, <3>3, <3>4
  <2> QED
    BY <1>4, <1>6, <2>1
<1>9. table \in Seq(Blocks) /\ Len(table) = size
  <2>1. \A i \in 1..size : table[i] \in Blocks
    <3>1. \A i \in 1..size : \/ i \in 1..(size - (out - in))
                             \/ i \in (size - (out - in) + 1)..size
      BY <1>2
    <3> QED
      BY <1>7, <1>8, <3>1 DEF Blocks
  <2>2. size \in Nat /\ DOMAIN table = 1..size /\ table = [i \in 1..size |-> table[i]]
    BY <1>2
  <2> HIDE DEF table, size
  <2> QED
    BY <2>1, <2>2, TableOf
<1>10. \A i \in old : tables[r][i] \in CpuBlocks
  BY <1>2, <1>3, <1>6
<1>11. /\ tables'[r] = table /\ \A s \in Seqs \ {r} : tables'[s] = tables[s]
  BY <1>5 DEF BlockTypes
<1>12. BlockTypes'
  BY <1>1, <1>5, <1>9, <1>10 DEF BlockTypes
<1>13. ASSUME NEW m, Token2Block(m) = size PROVE Shape(table, m, out - in)
  <2>1. out - in \in 0..size
    BY <1>2
  <2> HIDE DEF table, size
  <2> QED
    BY <1>7, <1>8, <1>9, <1>13, <2>1 DEF Shape
<1> QED
  BY <1>9, <1>11, <1>12, <1>13 DEF length

\* The last k blocks on the GPU go to the CPU.
LEMMA SwapOutShape ==
    ASSUME BlockTypes, NEW r \in Seqs, NEW n, NEW out \in Nat, Shape(tables[r], n, out),
           NEW k \in Nat, k <= GpuCount(r), SwapOutFromBack(r, k)
    PROVE  /\ BlockTypes' /\ Shape(tables'[r], n, out + k)
           /\ Len(tables'[r]) = Len(tables[r])
           /\ \A s \in Seqs \ {r} : tables'[s] = tables[s]
<1> DEFINE I == LastOf(OnGpu(r), k)
           length == Len(tables[r])
<1>1. PICK to \in Handouts(I, freeCpu) :
         /\ tables' = [tables EXCEPT ![r] =
               [i \in DOMAIN @ |-> IF i \in I THEN to[i] ELSE @[i]]]
         /\ freeCpu' = freeCpu \ Chosen(to)
         /\ freeGpu' = freeGpu \cup {tables[r][i] : i \in I}
  BY DEF SwapOutFromBack, SwapOutBlocks
<1>2. /\ length \in Nat /\ DOMAIN tables[r] = 1..length /\ out <= length
      /\ OnGpu(r) = 1..(length - out) /\ k <= length - out
      /\ tables[r] \in Seq(Blocks)
  BY ShapeFacts DEF BlockTypes
<1>3. Token2Block(n) = length
  BY DEF Shape
<1>4. /\ \A i \in 1..(length - out) : tables[r][i] \in GpuBlocks
      /\ \A i \in (length - out + 1)..length : tables[r][i] \in CpuBlocks
  BY DEF Shape
<1>a. Len(tables[r]) = length
  OBVIOUS
<1> HIDE DEF length
<1>5. I = (length - out - k + 1)..(length - out)
  BY <1>2, LastOfInterval
<1>6. DOMAIN to = I /\ \A i \in I : to[i] \in CpuBlocks
  BY <1>1 DEF Handouts, BlockTypes
<1> DEFINE table == [i \in 1..length |-> IF i \in I THEN to[i] ELSE tables[r][i]]
<1>7. tables' = [tables EXCEPT ![r] = table]
  BY <1>1, <1>2 DEF BlockTypes
<1>8. ASSUME NEW i \in 1..(length - (out + k))
      PROVE  i \in 1..length /\ table[i] \in GpuBlocks
  <2>1. i \in 1..length /\ i \in 1..(length - out) /\ i \notin I
    BY <1>2, <1>5
  <2> QED
    BY <1>4, <2>1
<1>9. ASSUME NEW i \in (length - (out + k) + 1)..length
      PROVE  i \in 1..length /\ table[i] \in CpuBlocks
  <2>1. i \in 1..length
    BY <1>2
  <2>2. i \in I \/ (i \notin I /\ i \in (length - out + 1)..length)
    BY <1>2, <1>5
  <2> QED
    BY <1>4, <1>6, <2>1, <2>2
<1>10. table \in Seq(Blocks) /\ Len(table) = length
  <2>1. \A i \in 1..length : table[i] \in Blocks
    <3>1. \A i \in 1..length : \/ i \in 1..(length - (out + k))
                               \/ i \in (length - (out + k) + 1)..length
      BY <1>2
    <3> QED
      BY <1>8, <1>9, <3>1 DEF Blocks
  <2>2. length \in Nat /\ DOMAIN table = 1..length /\ table = [i \in 1..length |-> table[i]]
    BY <1>2
  <2> HIDE DEF table
  <2> QED
    BY <2>1, <2>2, TableOf
<1>11. \A i \in I : tables[r][i] \in GpuBlocks
  BY <1>2, <1>4, <1>5
<1>12. tables'[r] = table /\ \A s \in Seqs \ {r} : tables'[s] = tables[s]
  BY <1>7 DEF BlockTypes
<1>13. BlockTypes'
  BY <1>1, <1>7, <1>10, <1>11 DEF BlockTypes
<1>14. Shape(table, n, out + k)
  <2>1. out + k \in 0..length
    BY <1>2
  <2> HIDE DEF table
  <2> QED
    BY <1>3, <1>8, <1>9, <1>10, <2>1 DEF Shape
<1> QED
  BY <1>a, <1>10, <1>12, <1>13, <1>14

\* free
LEMMA FreeShape ==
    ASSUME BlockTypes, NEW r \in Seqs, Free(r)
    PROVE  /\ BlockTypes' /\ tables'[r] = <<>>
           /\ \A s \in Seqs \ {r} : tables'[s] = tables[s]
<1>1. <<>> \in Seq(Blocks)
  OBVIOUS
<1> QED
  BY <1>1 DEF BlockTypes, Free, OnGpu, OnCpu

-----------------------------------------------------------------------------
(* The data.  Of a scheduled request the table is already what its data    *)
(* will say when the step has been executed.                               *)

Part == [r \in Seqs |-> IF r \in scheduled THEN work[r] ELSE NoWork]

DataTypes ==
    /\ BlockTypes
    /\ len \in [Seqs -> Nat] /\ inflight \in [Seqs -> Nat]
    /\ swapLen \in [Seqs -> Nat] /\ swapStart \in [Seqs -> Int]
    /\ work \in [Seqs -> [swap : Nat, tokens : Nat]]
    /\ batchLeft \in Nat /\ inLimit \in Nat /\ newBlocks \in Int
    /\ IsFiniteSet(scheduled)

\* The requests whose table is what their data say: those that run or are
\* preserved have blocks on the GPU, and tokens are forwarded only when
\* nothing is swapped any more.
Sound == {r \in Seqs :
    /\ len[r] >= 1 /\ inflight[r] <= len[r]
    /\ status[r] \notin Finished =>
         /\ Shape(tables[r], len[r] - inflight[r] + Part[r].tokens,
                  swapLen[r] - Part[r].swap)
         /\ Part[r].tokens <= inflight[r] /\ Part[r].swap <= swapLen[r]
         /\ Part[r].tokens > 0 => Part[r].swap = swapLen[r]
         /\ swapLen[r] > 0 /\ Part[r].tokens = 0
              => swapStart[r] + swapLen[r] = Len(tables[r])
         /\ r \in sampled => inflight[r] = 0 /\ swapLen[r] = 0
         /\ status[r] = "RUNNING" \/ mode[r] = "PRESERVE"
              => Len(tables[r]) > swapLen[r] - Part[r].swap}

\* The workload of the request of the preemption loop stays within its data
\* and the limits.
CurInv == cur # 0 =>
    /\ work[cur].swap <= swapLen[cur] /\ work[cur].tokens <= inflight[cur]
    /\ work[cur].tokens > 0 => work[cur].swap = swapLen[cur]
    /\ work[cur].tokens <= batchLeft /\ work[cur].swap <= inLimit
    /\ work[cur] # NoWork
    /\ need > 0 /\ group = "self" => need = Len(tables[cur]) - swapLen[cur]

DataInv == DataTypes /\ (\A r \in Seqs : r \in Sound) /\ CurInv

\* A prompt has at least one token, and nothing of it is computed.
LEMMA DataInit == Init => DataInv
<1> SUFFICES ASSUME Init PROVE DataInv
  OBVIOUS
<1>1. Prompt \in [Seqs -> Nat] /\ \A r \in Seqs : Prompt[r] >= 1
  BY RequestsAssumption
<1>2. NoWork \in [swap : Nat, tokens : Nat] /\ NoWork.tokens = 0 /\ NoWork.swap = 0
  BY DEF NoWork
<1>3. IsFiniteSet({}) /\ <<>> \in Seq(Blocks)
  BY FS_EmptySet
<1>4. DataTypes
  BY <1>1, <1>2, <1>3 DEF Init, InitBlocks, DataTypes, BlockTypes
<1>5. ASSUME NEW r \in Seqs PROVE r \in Sound
  <2>1. /\ tables[r] = <<>> /\ len[r] = inflight[r] /\ len[r] \in Nat /\ len[r] >= 1
        /\ swapLen[r] = 0 /\ status[r] = "none" /\ mode[r] = "none"
        /\ sampled = {} /\ Part[r] = NoWork
    BY <1>1, SeqsFacts DEF Init, InitBlocks, Part
  <2>2. len[r] - inflight[r] + 0 = 0 /\ swapLen[r] - 0 = 0
    BY <2>1
  <2> QED
    BY <1>2, <2>1, <2>2, ShapeEmpty DEF Sound
<1> QED
  BY <1>4, <1>5 DEF DataInv, CurInv, Init

\* A request that nothing happens to
LEMMA SoundKept ==
    ASSUME NEW r \in Seqs, r \in Sound, tables'[r] = tables[r], len'[r] = len[r],
           inflight'[r] = inflight[r], swapLen'[r] = swapLen[r],
           swapStart'[r] = swapStart[r], Part'[r] = Part[r],
           r \in sampled' => r \in sampled,
           status'[r] \notin Finished => status[r] \notin Finished,
           status'[r] = "RUNNING" => status[r] = "RUNNING",
           mode'[r] = "PRESERVE" => mode[r] = "PRESERVE"
    PROVE  r \in Sound'
BY DEF Sound

\* What a request has on the devices
LEMMA SoundFacts ==
    ASSUME QueueInv, DataInv, NEW r \in Seqs, status[r] \notin Finished
    PROVE  /\ len[r] \in Nat /\ inflight[r] \in Nat /\ Computed(r) \in Nat
           /\ swapLen[r] \in Nat /\ swapStart[r] \in Int
           /\ work[r] \in [swap : Nat, tokens : Nat]
           /\ Len(tables[r]) \in Nat
           /\ OnGpu(r) = 1..GpuCount(r)
           /\ GpuCount(r) = Len(tables[r]) - (swapLen[r] - Part[r].swap)
           /\ Cardinality(OnCpu(r)) = swapLen[r] - Part[r].swap
           /\ Part[r].swap \in Nat /\ Part[r].tokens \in Nat
           /\ r \notin scheduled =>
                /\ Part[r] = NoWork /\ Part[r].swap = 0 /\ Part[r].tokens = 0
                /\ Shape(tables[r], Computed(r), swapLen[r])
                /\ Len(tables[r]) = Token2Block(Computed(r))
                /\ GpuCount(r) = Len(tables[r]) - swapLen[r]
                /\ status[r] = "RUNNING" \/ mode[r] = "PRESERVE" => GpuCount(r) > 0
<1>1. /\ len[r] \in Nat /\ inflight[r] \in Nat /\ swapLen[r] \in Nat
      /\ swapStart[r] \in Int /\ work[r] \in [swap : Nat, tokens : Nat]
      /\ tables[r] \in Seq(Blocks)
  BY DEF DataInv, DataTypes, BlockTypes
<1>2. r \in Sound
  BY DEF DataInv
<1>3. Computed(r) = len[r] - inflight[r] /\ Computed(r) \in Nat
  BY <1>1, <1>2 DEF Computed, Sound
<1>4. Shape(tables[r], Computed(r) + Part[r].tokens, swapLen[r] - Part[r].swap)
  BY <1>2, <1>3 DEF Sound
<1>5. /\ Len(tables[r]) \in Nat
      /\ OnGpu(r) = 1..GpuCount(r)
      /\ GpuCount(r) = Len(tables[r]) - (swapLen[r] - Part[r].swap)
      /\ Cardinality(OnCpu(r)) = swapLen[r] - Part[r].swap
  <2> DEFINE n == Computed(r) + Part[r].tokens
             out == swapLen[r] - Part[r].swap
  <2>1. Shape(tables[r], n, out)
    BY <1>4
  <2> HIDE DEF n, out
  <2>2. /\ Len(tables[r]) \in Nat /\ OnGpu(r) = 1..(Len(tables[r]) - out)
        /\ GpuCount(r) = Len(tables[r]) - out /\ Cardinality(OnCpu(r)) = out
    BY <1>1, <2>1, ShapeFacts
  <2> QED
    BY <2>2 DEF out
<1>6. Part[r].swap \in Nat /\ Part[r].tokens \in Nat
  BY <1>1 DEF Part, NoWork
<1>7. ASSUME r \notin scheduled
      PROVE  /\ Part[r] = NoWork /\ Part[r].swap = 0 /\ Part[r].tokens = 0
             /\ Shape(tables[r], Computed(r), swapLen[r])
             /\ Len(tables[r]) = Token2Block(Computed(r))
             /\ GpuCount(r) = Len(tables[r]) - swapLen[r]
             /\ status[r] = "RUNNING" \/ mode[r] = "PRESERVE" => GpuCount(r) > 0
  <2>1. Part[r] = NoWork /\ Part[r].swap = 0 /\ Part[r].tokens = 0
    BY <1>7 DEF Part, NoWork
  <2>2. Computed(r) + Part[r].tokens = Computed(r) /\ swapLen[r] - Part[r].swap = swapLen[r]
    BY <1>1, <1>3, <2>1
  <2>3. Shape(tables[r], Computed(r), swapLen[r])
    BY <1>4, <2>2
  <2>4. Len(tables[r]) = Token2Block(Computed(r))
    BY <2>3 DEF Shape
  <2>5. status[r] = "RUNNING" \/ mode[r] = "PRESERVE" => Len(tables[r]) > swapLen[r]
    BY <1>2, <2>2 DEF Sound
  <2> QED
    BY <1>1, <1>5, <2>1, <2>2, <2>3, <2>4, <2>5
<1> QED
  BY <1>1, <1>3, <1>5, <1>6, <1>7

\* The number of free blocks is a number.
LEMMA FreeFacts ==
    ASSUME BlockTypes
    PROVE  /\ FreeGpu \in Nat /\ FreeCpu \in Nat
           /\ \A r \in Seqs : GpuCount(r) \in Nat
<1>1. IsFiniteSet(freeGpu) /\ IsFiniteSet(freeCpu)
  BY BlocksAssumption, FS_Subset DEF BlockTypes
<1>2. ASSUME NEW r \in Seqs PROVE GpuCount(r) \in Nat
  <2>1. /\ Len(tables[r]) \in Nat /\ DOMAIN tables[r] = 1..Len(tables[r])
    BY LenProperties DEF BlockTypes
  <2>2. IsFiniteSet(DOMAIN tables[r])
    BY <2>1, FS_Interval
  <2>3. OnGpu(r) \in SUBSET DOMAIN tables[r]
    BY DEF OnGpu
  <2> QED
    BY <2>2, <2>3, FS_Subset, FS_CardinalityType DEF GpuCount
<1> QED
  BY <1>1, <1>2, FS_CardinalityType DEF FreeGpu, FreeCpu

\* The request of the loop is live and not scheduled.
LEMMA CurFacts ==
    ASSUME QueueInv, cur # 0
    PROVE  /\ cur \in Seqs /\ cur \in Popped /\ cur \notin scheduled
           /\ status[cur] = TargetStatus /\ status[cur] \notin Finished
           /\ status[cur] \in {"RUNNING", "SWAPPED", "WAITING"} /\ mode[cur] = "none"
           /\ pc \in Passes
<1>1. cur \in Seqs /\ cur \in Popped /\ pc \in Passes
  BY DEF QueueInv, QueueTypes, Popped, PassInv
<1>2. status[cur] = TargetStatus /\ cur \notin scheduled
  BY <1>1 DEF QueueInv, StatusInv, PassInv
<1>3. TargetStatus \in {"RUNNING", "SWAPPED", "WAITING"}
  BY DEF TargetStatus
<1>4. mode[cur] = "none"
  BY <1>1, <1>2, <1>3 DEF QueueInv, StatusInv
<1> QED
  BY <1>1, <1>2, <1>3, <1>4 DEF Finished

\* What the queues need to know of the tables
LEMMA CountFacts ==
    ASSUME QueueInv, DataInv
    PROVE  VictimCounts /\ IsFiniteSet(scheduled)
<1>1. BlockTypes /\ newBlocks \in Int /\ IsFiniteSet(scheduled)
  BY DEF DataInv, DataTypes
<1>2. Missing \in Int /\ \A r \in Seqs : GpuCount(r) \in Nat
  BY <1>1, FreeFacts DEF Missing
<1>3. ASSUME cur # 0
      PROVE  /\ pc = "pass1" => GpuCount(cur) > 0
             /\ need > 0 /\ group = "self" => need = GpuCount(cur)
  <2>1. /\ cur \in Seqs /\ cur \notin scheduled /\ status[cur] \notin Finished
        /\ status[cur] = TargetStatus
    BY <1>3, CurFacts
  <2>2. /\ GpuCount(cur) = Len(tables[cur]) - swapLen[cur]
        /\ status[cur] = "RUNNING" => GpuCount(cur) > 0
    BY <2>1, SoundFacts
  <2> QED
    BY <1>3, <2>1, <2>2 DEF DataInv, CurInv, TargetStatus
<1>4. need > 0 => cur # 0
  BY DEF QueueInv, EvictInv
<1> QED
  BY <1>1, <1>2, <1>3, <1>4 DEF VictimCounts

\* The workload of a target is within its data and the limits.
LEMMA WorkloadFacts ==
    ASSUME QueueInv, DataInv, NEW r \in Seqs, status[r] \notin Finished
    PROVE  /\ Workload(r) \in [swap : Nat, tokens : Nat]
           /\ Workload(r).swap <= swapLen[r] /\ Workload(r).tokens <= inflight[r]
           /\ Workload(r).tokens > 0 => Workload(r).swap = swapLen[r]
           /\ Workload(r).tokens <= batchLeft /\ Workload(r).swap <= inLimit
           /\ MemoryRequirement(r, Workload(r)) \in Int
<1>1. /\ inflight[r] \in Nat /\ swapLen[r] \in Nat /\ Computed(r) \in Nat
      /\ inLimit \in Nat /\ batchLeft \in Nat
  BY SoundFacts DEF DataInv, DataTypes
<1> DEFINE in == Smaller(inLimit, swapLen[r])
           out == IF in = swapLen[r] THEN Smaller(batchLeft, inflight[r]) ELSE 0
<1>2. /\ in \in Nat /\ in <= inLimit /\ in <= swapLen[r]
      /\ out \in Nat /\ out <= batchLeft /\ out <= inflight[r]
      /\ out > 0 => in = swapLen[r]
  BY <1>1 DEF Smaller
<1>3. Workload(r) = [swap |-> in, tokens |-> out]
  BY DEF Workload
<1> HIDE DEF in, out
<1>4. MemoryRequirement(r, Workload(r)) \in Int
  <2>1. /\ Token2Block(Computed(r) + out) \in Nat /\ Token2Block(Computed(r)) \in Nat
    <3>1. Computed(r) + out \in Nat
      BY <1>1, <1>2
    <3> QED
      BY <1>1, <3>1, Token2BlockFacts
  <2>2. MemoryRequirement(r, Workload(r))
          = in + (Token2Block(Computed(r) + out) - Token2Block(Computed(r)))
    BY <1>3 DEF MemoryRequirement, InflightBlocks
  <2> QED
    BY <1>2, <2>1, <2>2
<1> QED
  BY <1>2, <1>3, <1>4

-----------------------------------------------------------------------------
(* The steps on the data.                                                  *)

\* Steps that touch no table, and no data but the workload of a request that
\* is not scheduled
LEMMA DataQuiet ==
    ASSUME QueueInv, DataInv,
           UNCHANGED <<tables, freeGpu, freeCpu, len, inflight, swapLen, swapStart,
                       scheduled, sampled, mode>>,
           \/ status' = status
           \/ \E r \in Seqs : status[r] = "none" /\ status' = [status EXCEPT ![r] = "WAITING"]
           \/ \E r \in Seqs : status' = [status EXCEPT ![r] = "FINISHED_IGNORED"],
           \/ work' = work
           \/ \E r \in Seqs \ scheduled, w \in [swap : Nat, tokens : Nat] :
                 work' = [work EXCEPT ![r] = w],
           batchLeft' \in Nat, inLimit' \in Nat, newBlocks' \in Int
    PROVE  DataTypes' /\ \A r \in Seqs : r \in Sound'
<1>1. DataTypes'
  BY DEF DataInv, DataTypes, BlockTypes
<1>2. ASSUME NEW r \in Seqs PROVE Part'[r] = Part[r]
  BY DEF Part, DataInv, DataTypes
<1>3. ASSUME NEW r \in Seqs
      PROVE  /\ status'[r] \notin Finished => status[r] \notin Finished
             /\ status'[r] = "RUNNING" => status[r] = "RUNNING"
  BY DEF Finished, QueueInv, QueueTypes
<1>4. ASSUME NEW r \in Seqs PROVE r \in Sound'
  BY <1>2, <1>3, SoundKept DEF DataInv
<1> QED
  BY <1>1, <1>4

\* Arrivals, what is not scheduled, and the ends of the passes
LEMMA DataPasses ==
    ASSUME QueueInv, DataInv,
           \/ UNCHANGED vars \/ StartPass1 \/ FinishPass1 \/ FinishPass2 \/ FinishPass3
           \/ FinishStep
           \/ \E r \in Seqs : \/ AddRequest(r) \/ Ignore(r) \/ SequenceLimit(r)
                              \/ BatchLimit(r) \/ GiveUp(r)
    PROVE  DataInv'
<1> USE DEF blockVars, data, texts, limits, choice, loop, queues
<1>1. batchLeft \in Nat /\ inLimit \in Nat /\ newBlocks \in Int
  BY DEF DataInv, DataTypes
<1>2. /\ UNCHANGED <<tables, freeGpu, freeCpu, len, inflight, swapLen, swapStart, work,
                     scheduled, sampled, mode, cur, need, group, newBlocks>>
      /\ \/ status' = status
         \/ \E r \in Seqs : status[r] = "none" /\ status' = [status EXCEPT ![r] = "WAITING"]
         \/ \E r \in Seqs : status' = [status EXCEPT ![r] = "FINISHED_IGNORED"]
      /\ \/ batchLeft' = batchLeft /\ inLimit' = inLimit
         \/ FinishPass3 /\ batchLeft' = 0 /\ inLimit' = 0
  <2>1. CASE UNCHANGED vars
    BY <2>1 DEF vars
  <2>2. CASE StartPass1 \/ FinishPass1 \/ FinishPass2 \/ FinishPass3 \/ FinishStep
    BY <2>2 DEF StartPass1, FinishPass1, FinishPass2, FinishPass3, FinishStep
  <2>3. CASE \E r \in Seqs : AddRequest(r) \/ Ignore(r)
    BY <2>3 DEF AddRequest, Ignore
  <2>4. CASE \E r \in Seqs : SequenceLimit(r) \/ BatchLimit(r) \/ GiveUp(r)
    BY <2>4 DEF SequenceLimit, BatchLimit, GiveUp, Eligible, Delay
  <2> QED
    BY <2>1, <2>2, <2>3, <2>4
<1>3. DataTypes' /\ \A r \in Seqs : r \in Sound'
  BY <1>1, <1>2, DataQuiet
<1>4. FinishPass3 => cur = 0
  BY DEF FinishPass3, PassOver, QueueInv, PassInv, Passes
<1>5. CurInv'
  BY <1>2, <1>4 DEF DataInv, CurInv
<1> QED
  BY <1>3, <1>5 DEF DataInv

\* Who is next is not finished.
LEMMA NextFacts ==
    ASSUME QueueInv, NEW r \in Seqs, IsNext(r)
    PROVE  /\ status[r] \in {"WAITING", "RUNNING", "SWAPPED"} /\ status[r] \notin Finished
           /\ r \notin scheduled /\ pc # "process" /\ cur = 0
<1>1. pc \in Passes /\ cur = 0 /\ Targets # <<>> /\ r = Head(Targets)
  BY DEF IsNext
<1>2. Targets \in Seq(Seqs)
  BY DEF Targets, QueueInv, QueueTypes
<1>3. r \in ToSet(Targets)
  BY <1>1, <1>2, OnceTail
<1>4. CASE pc = "pass1"
  <2>1. r \in ToSet(running)
    BY <1>3, <1>4 DEF Targets
  <2>2. status[r] = "RUNNING" /\ r \notin scheduled
    BY <1>4, <2>1 DEF QueueInv, StatusInv, PassInv
  <2> QED
    BY <1>1, <1>4, <2>2 DEF Finished
<1>5. CASE pc = "pass2"
  <2>1. r \in ToSet(swapped)
    BY <1>3, <1>5 DEF Targets
  <2>2. status[r] = "SWAPPED" /\ r \notin scheduled
    BY <2>1 DEF QueueInv, StatusInv
  <2> QED
    BY <1>1, <1>5, <2>2 DEF Finished
<1>6. CASE pc = "pass3"
  <2>1. r \in ToSet(waiting)
    BY <1>3, <1>6 DEF Targets
  <2>2. status[r] = "WAITING" /\ r \notin scheduled
    BY <2>1 DEF QueueInv, StatusInv
  <2> QED
    BY <1>1, <1>6, <2>2 DEF Finished
<1> QED
  BY <1>1, <1>4, <1>5, <1>6 DEF Passes

\* The preemption loop and its calls of passive_discard begin and end.
LEMMA DataLoop ==
    ASSUME QueueInv, DataInv,
           (\E r \in Seqs : StartEviction(r)) \/ DelayCur \/ StartDiscard
    PROVE  DataInv'
<1> USE DEF blockVars, data, texts, limits, choice, queues
<1>1. batchLeft \in Nat /\ inLimit \in Nat /\ newBlocks \in Int
  BY DEF DataInv, DataTypes
<1>2. ASSUME NEW r \in Seqs, StartEviction(r) PROVE DataInv'
  <2>1. /\ IsNext(r) /\ cur' = r /\ Workload(r) # NoWork
        /\ work' = [work EXCEPT ![r] = Workload(r)]
        /\ newBlocks' = MemoryRequirement(r, Workload(r))
        /\ UNCHANGED <<tables, freeGpu, freeCpu, len, inflight, swapLen, swapStart,
                       scheduled, sampled, mode, status, batchLeft, inLimit, need, group>>
    BY <1>2 DEF StartEviction, Eligible
  <2>2. status[r] \notin Finished /\ r \notin scheduled /\ cur = 0
    BY <2>1, NextFacts
  <2>3. /\ Workload(r) \in [swap : Nat, tokens : Nat]
        /\ Workload(r).swap <= swapLen[r] /\ Workload(r).tokens <= inflight[r]
        /\ Workload(r).tokens > 0 => Workload(r).swap = swapLen[r]
        /\ Workload(r).tokens <= batchLeft /\ Workload(r).swap <= inLimit
        /\ MemoryRequirement(r, Workload(r)) \in Int
    BY <2>2, WorkloadFacts
  <2>4. DataTypes' /\ \A w \in Seqs : w \in Sound'
    BY <1>1, <2>1, <2>2, <2>3, DataQuiet
  <2>5. work'[r] = Workload(r)
    BY <2>1 DEF DataInv, DataTypes
  <2>6. ~(need > 0)
    BY <2>2 DEF QueueInv, EvictInv
  <2>7. CurInv'
    BY <2>1, <2>3, <2>5, <2>6 DEF CurInv
  <2> QED
    BY <2>4, <2>7 DEF DataInv
<1>3. CASE DelayCur
  <2>1. /\ cur # 0 /\ cur' = 0 /\ newBlocks' = 0
        /\ work' = [work EXCEPT ![cur] = NoWork]
        /\ UNCHANGED <<tables, freeGpu, freeCpu, len, inflight, swapLen, swapStart,
                       scheduled, sampled, mode, status, batchLeft, inLimit>>
    BY <1>3 DEF DelayCur, TryPreempt, InLoop
  <2>2. cur \in Seqs \ scheduled /\ NoWork \in [swap : Nat, tokens : Nat]
    BY <2>1, CurFacts DEF NoWork
  <2>3. \E r \in Seqs \ scheduled, w \in [swap : Nat, tokens : Nat] :
           work' = [work EXCEPT ![r] = w]
    BY <2>1, <2>2
  <2>4. newBlocks' \in Int /\ batchLeft' \in Nat /\ inLimit' \in Nat
    BY <1>1, <2>1
  <2>5. DataTypes' /\ \A s \in Seqs : s \in Sound'
    BY <2>1, <2>3, <2>4, DataQuiet
  <2> QED
    BY <2>1, <2>5 DEF DataInv, CurInv
<1>4. CASE StartDiscard
  <2>1. /\ cur # 0 /\ need = 0
        /\ newBlocks' \in {newBlocks, 0} /\ cur' \in {cur, 0}
        /\ cur' = cur /\ need' > 0 /\ group' = "self" => need' = GpuCount(cur)
        /\ UNCHANGED <<tables, freeGpu, freeCpu, len, inflight, swapLen, swapStart,
                       scheduled, sampled, mode, status, work, batchLeft, inLimit>>
    <3> DEFINE of == CASE victims # {}                 -> "paused"
                       [] victims = {} /\ delayed # <<>> -> "delayed"
                       [] /\ victims = {} /\ delayed = <<>>
                          /\ Targets # <<>>              -> "targets"
                       [] OTHER                         -> "self"
               n == IF of = "self" THEN GpuCount(cur) ELSE Missing
    <3>1. /\ need' = n /\ group' = (IF n = 0 THEN "none" ELSE of)
          /\ cur' = (IF n = 0 THEN 0 ELSE cur)
          /\ newBlocks' = (IF n = 0 THEN 0 ELSE newBlocks)
          /\ cur # 0 /\ need = 0
          /\ UNCHANGED <<tables, freeGpu, freeCpu, len, inflight, swapLen, swapStart,
                         scheduled, sampled, mode, status, work, batchLeft, inLimit>>
      BY <1>4 DEF StartDiscard, TryPreempt, InLoop
    <3>2. of = "self" => n = GpuCount(cur)
      OBVIOUS
    <3> HIDE DEF of, n
    <3> QED
      BY <3>1, <3>2
  <2>2. newBlocks' \in Int
    BY <1>1, <2>1
  <2>3. DataTypes' /\ \A w \in Seqs : w \in Sound'
    BY <1>1, <2>1, <2>2, DataQuiet
  <2>4. /\ cur \in Seqs /\ cur \notin scheduled /\ status[cur] \notin Finished
    BY <2>1, CurFacts
  <2>5. GpuCount(cur) = Len(tables[cur]) - swapLen[cur]
    BY <2>4, SoundFacts
  <2>6. CurInv'
    BY <2>1, <2>5 DEF DataInv, CurInv
  <2> QED
    BY <2>3, <2>6 DEF DataInv
<1> QED
  BY <1>2, <1>3, <1>4

\* A request joins the batch with its workload.
LEMMA DataAdmit ==
    ASSUME QueueInv, DataInv, NEW r \in Seqs, status[r] \notin Finished,
           r \notin scheduled, pc # "process", NEW w \in [swap : Nat, tokens : Nat],
           w.swap <= swapLen[r], w.tokens <= inflight[r],
           w.tokens > 0 => w.swap = swapLen[r],
           w.tokens <= batchLeft, w.swap <= inLimit, w # NoWork, Admit(r, w),
           newBlocks' \in Int
    PROVE  DataTypes' /\ \A s \in Seqs : s \in Sound'
<1>1. /\ Allocate(r, w.swap, InflightBlocks(r, w.tokens))
      /\ work' = [work EXCEPT ![r] = w]
      /\ status' = [status EXCEPT ![r] = "RUNNING"]
      /\ scheduled' = scheduled \cup {r}
      /\ batchLeft' = batchLeft - w.tokens /\ inLimit' = inLimit - w.swap
      /\ UNCHANGED <<mode, inflight, swapLen, swapStart, len, sampled>>
  BY DEF Admit, texts
<1>2. /\ len[r] \in Nat /\ inflight[r] \in Nat /\ Computed(r) \in Nat
      /\ Computed(r) = len[r] - inflight[r]
      /\ swapLen[r] \in Nat /\ swapStart[r] \in Int
      /\ Shape(tables[r], Computed(r), swapLen[r])
      /\ Len(tables[r]) \in Nat /\ Len(tables[r]) = Token2Block(Computed(r))
      /\ swapLen[r] <= Len(tables[r])
      /\ len[r] >= 1 /\ inflight[r] <= len[r]
  <2>1. r \in Sound
    BY DEF DataInv
  <2> QED
    BY <2>1, SoundFacts DEF Sound, Computed, Shape
<1>3. w.swap \in Nat /\ w.tokens \in Nat /\ (w.swap > 0 \/ w.tokens > 0)
  <2>1. w = [swap |-> w.swap, tokens |-> w.tokens]
    OBVIOUS
  <2>2. w.swap \in Nat /\ w.tokens \in Nat
    OBVIOUS
  <2> QED
    BY <2>1, <2>2 DEF NoWork
<1> DEFINE m == Computed(r) + w.tokens
           new == InflightBlocks(r, w.tokens)
<1>4. m \in Nat /\ Token2Block(m) \in Nat /\ Token2Block(Computed(r)) <= Token2Block(m)
  <2>1. m \in Nat /\ Computed(r) <= m
    BY <1>2, <1>3
  <2> HIDE DEF m
  <2> QED
    BY <1>2, <2>1, Token2BlockFacts
<1>5. new = Token2Block(m) - Token2Block(Computed(r))
  BY DEF InflightBlocks
<1>6. new \in Nat /\ Token2Block(m) = Len(tables[r]) + new
  <2>1. Len(tables[r]) \in Nat /\ Len(tables[r]) = Token2Block(Computed(r))
    BY <1>2
  <2> HIDE DEF m, new
  <2> QED
    BY <1>4, <1>5, <2>1
<1>7. new > 0 => w.swap = swapLen[r]
  <2>1. w.tokens = 0 => m = Computed(r)
    BY <1>2
  <2> HIDE DEF m, new
  <2>2. w.tokens = 0 => new = 0
    BY <1>2, <1>4, <1>5, <2>1
  <2> QED
    BY <1>3, <1>6, <2>2
<1>a. m = len[r] - inflight[r] + w.tokens
  BY <1>2
<1>b. m > 0 => Token2Block(m) > 0
  <2> HIDE DEF m
  <2> QED
    BY <1>4, Token2BlockFacts
<1>c. w.tokens > 0 => m > 0
  BY <1>2, <1>3
<1> HIDE DEF m, new
<1>8. /\ BlockTypes' /\ Shape(tables'[r], m, swapLen[r] - w.swap)
      /\ Len(tables'[r]) = Len(tables[r]) + new
      /\ \A s \in Seqs \ {r} : tables'[s] = tables[s]
  <2> DEFINE in  == w.swap
             out == swapLen[r]
             n   == Computed(r)
  <2>1. Allocate(r, in, new) /\ BlockTypes
    BY <1>1 DEF new, DataInv, DataTypes
  <2>2. in \in Nat /\ out \in Nat /\ in <= out /\ Shape(tables[r], n, out)
    BY <1>2, <1>3
  <2>3. new \in Nat /\ (new > 0 => in = out)
    BY <1>6, <1>7
  <2> HIDE DEF in, out, n
  <2>4. /\ BlockTypes' /\ \A s \in Seqs \ {r} : tables'[s] = tables[s]
        /\ \A l : Token2Block(l) = Len(tables[r]) + new => Shape(tables'[r], l, out - in)
    <3>1. BlockTypes' /\ \A s \in Seqs \ {r} : tables'[s] = tables[s]
      BY <2>1, <2>2, <2>3, AllocateShape
    <3>2. \A l : Token2Block(l) = Len(tables[r]) + new => Shape(tables'[r], l, out - in)
      BY <2>1, <2>2, <2>3, AllocateShape
    <3> QED
      BY <3>1, <3>2
  <2>5. Shape(tables'[r], m, out - in) /\ Len(tables'[r]) = Len(tables[r]) + new
    BY <1>6, <2>4 DEF Shape
  <2> QED
    BY <2>4, <2>5 DEF in, out
<1>9. /\ Part'[r] = w /\ \A s \in Seqs \ {r} : Part'[s] = Part[s]
  BY <1>1 DEF Part, DataInv, DataTypes
<1>10. sampled = {}
  BY DEF QueueInv, PassInv
<1>11. r \in Sound'
  <2>1. Len(tables'[r]) > swapLen[r] - w.swap
    <3>1. CASE w.swap > 0
      BY <1>2, <1>3, <1>6, <1>8, <3>1
    <3>2. CASE w.tokens > 0
      <4>1. Len(tables'[r]) = Token2Block(m) /\ w.swap = swapLen[r]
        BY <1>6, <1>8, <3>2
      <4> QED
        BY <1>2, <1>3, <1>4, <1>b, <1>c, <3>2, <4>1
    <3> QED
      BY <1>3, <3>1, <3>2
  <2>2. swapLen[r] > 0 /\ w.tokens = 0 => swapStart[r] + swapLen[r] = Len(tables'[r])
    <3>1. ASSUME w.tokens = 0 PROVE new = 0
      BY <1>2, <1>4, <1>5, <3>1 DEF m
    <3>2. r \in Sound /\ Part[r].tokens = 0
      BY SoundFacts DEF DataInv
    <3>3. swapLen[r] > 0 => swapStart[r] + swapLen[r] = Len(tables[r])
      BY <3>2 DEF Sound
    <3> QED
      BY <1>2, <1>8, <3>1, <3>3
  <2> QED
    BY <1>1, <1>2, <1>8, <1>9, <1>10, <1>a, <2>1, <2>2 DEF Sound
<1>12. ASSUME NEW s \in Seqs \ {r} PROVE s \in Sound'
  <2>1. status'[s] = status[s] /\ s \in Sound
    BY <1>1 DEF QueueInv, QueueTypes, DataInv
  <2> QED
    BY <1>1, <1>8, <1>9, <2>1, SoundKept
<1>13. DataTypes'
  <2>1. batchLeft' \in Nat /\ inLimit' \in Nat
    BY <1>1, <1>3 DEF DataInv, DataTypes
  <2>2. IsFiniteSet(scheduled')
    BY <1>1, FS_AddElement DEF DataInv, DataTypes
  <2> QED
    BY <1>1, <1>8, <2>1, <2>2 DEF DataInv, DataTypes
<1> QED
  BY <1>11, <1>12, <1>13

\* The target is scheduled at once, or after others made room.
LEMMA DataSchedule ==
    ASSUME QueueInv, DataInv, (\E r \in Seqs : Schedule(r)) \/ ScheduleCur
    PROVE  DataInv'
<1>1. newBlocks \in Int
  BY DEF DataInv, DataTypes
<1>2. ASSUME NEW r \in Seqs, Schedule(r) PROVE DataInv'
  <2>1. /\ IsNext(r) /\ Workload(r) # NoWork /\ Admit(r, Workload(r))
        /\ cur' = cur /\ newBlocks' = newBlocks
    BY <1>2 DEF Schedule, Eligible, loop
  <2>2. status[r] \notin Finished /\ r \notin scheduled /\ pc # "process" /\ cur = 0
    BY <2>1, NextFacts
  <2> DEFINE w == Workload(r)
  <2>3. /\ w \in [swap : Nat, tokens : Nat] /\ w # NoWork /\ Admit(r, w)
        /\ w.swap <= swapLen[r] /\ w.tokens <= inflight[r]
        /\ w.tokens > 0 => w.swap = swapLen[r]
        /\ w.tokens <= batchLeft /\ w.swap <= inLimit
    BY <2>1, <2>2, WorkloadFacts
  <2> HIDE DEF w
  <2>4. newBlocks' \in Int
    BY <1>1, <2>1
  <2>5. DataTypes' /\ \A s \in Seqs : s \in Sound'
    BY <2>2, <2>3, <2>4, DataAdmit
  <2> QED
    BY <2>1, <2>2, <2>5 DEF DataInv, CurInv
<1>3. CASE ScheduleCur
  <2>1. /\ cur # 0 /\ pc \in Passes /\ Admit(cur, work[cur]) /\ cur' = 0 /\ newBlocks' = 0
    BY <1>3 DEF ScheduleCur, InLoop
  <2>2. cur \in Seqs /\ status[cur] \notin Finished /\ cur \notin scheduled /\ pc # "process"
    BY <2>1, CurFacts DEF Passes
  <2> DEFINE w == work[cur]
             r == cur
  <2>3. /\ w \in [swap : Nat, tokens : Nat] /\ w # NoWork /\ Admit(r, w)
        /\ w.swap <= swapLen[r] /\ w.tokens <= inflight[r]
        /\ w.tokens > 0 => w.swap = swapLen[r]
        /\ w.tokens <= batchLeft /\ w.swap <= inLimit
    BY <2>1, <2>2 DEF DataInv, DataTypes, CurInv
  <2>4. r \in Seqs /\ status[r] \notin Finished /\ r \notin scheduled
    BY <2>2
  <2>5. newBlocks' \in Int
    BY <2>1
  <2> HIDE DEF w, r
  <2>6. DataTypes' /\ \A s \in Seqs : s \in Sound'
    BY <2>2, <2>3, <2>4, <2>5, DataAdmit
  <2> QED
    BY <2>1, <2>6 DEF DataInv, CurInv
<1> QED
  BY <1>2, <1>3

\* All but one request, which is not scheduled, keep what they have.
LEMMA OthersKept ==
    ASSUME DataInv, NEW r \in Seqs, r \notin scheduled, scheduled' = scheduled,
           sampled' \subseteq sampled,
           \A s \in Seqs \ {r} : /\ tables'[s] = tables[s] /\ len'[s] = len[s]
                                 /\ inflight'[s] = inflight[s] /\ swapLen'[s] = swapLen[s]
                                 /\ swapStart'[s] = swapStart[s] /\ work'[s] = work[s]
                                 /\ status'[s] = status[s] /\ mode'[s] = mode[s],
           r \in Sound'
    PROVE  \A s \in Seqs : s \in Sound'
<1>1. ASSUME NEW s \in Seqs \ {r} PROVE s \in Sound'
  <2>1. s \in Sound /\ Part'[s] = Part[s]
    BY DEF DataInv, Part
  <2> QED
    BY <2>1, SoundKept
<1> QED
  BY <1>1

\* The request of the loop, if it is still there, keeps its workload.
LEMMA CurKept ==
    ASSUME DataInv, cur' \in {0, cur}, batchLeft' = batchLeft, inLimit' = inLimit,
           cur' # 0 => /\ work'[cur] = work[cur] /\ swapLen'[cur] = swapLen[cur]
                       /\ inflight'[cur] = inflight[cur] /\ tables'[cur] = tables[cur],
           need' > 0 /\ group' = "self" => need > 0 /\ group = "self" /\ need' = need
    PROVE  CurInv'
BY DEF DataInv, CurInv

\* Nothing of an empty table is computed.
LEMMA DataDiscard ==
    ASSUME QueueInv, DataInv, NEW r \in Seqs, r \notin scheduled, pc # "process", Discard(r),
           UNCHANGED <<len, scheduled, sampled>>,
           batchLeft' \in Nat, inLimit' \in Nat, newBlocks' \in Int,
           status'[r] # "RUNNING", mode'[r] # "PRESERVE",
           \A s \in Seqs \ {r} : status'[s] = status[s] /\ mode'[s] = mode[s]
    PROVE  /\ DataTypes' /\ \A s \in Seqs : s \in Sound'
           /\ \A s \in Seqs \ {r} : /\ tables'[s] = tables[s] /\ work'[s] = work[s]
                                    /\ inflight'[s] = inflight[s] /\ swapLen'[s] = swapLen[s]
<1>1. /\ inflight' = [inflight EXCEPT ![r] = len[r]]
      /\ swapLen' = [swapLen EXCEPT ![r] = 0] /\ swapStart' = [swapStart EXCEPT ![r] = 0]
      /\ work' = [work EXCEPT ![r] = NoWork] /\ Free(r)
  BY DEF Discard
<1>2. BlockTypes' /\ tables'[r] = <<>> /\ \A s \in Seqs \ {r} : tables'[s] = tables[s]
  BY <1>1, FreeShape DEF DataInv, DataTypes
<1>3. NoWork \in [swap : Nat, tokens : Nat] /\ NoWork.swap = 0 /\ NoWork.tokens = 0
  BY DEF NoWork
<1>4. len[r] \in Nat /\ len[r] >= 1
  BY DEF DataInv, DataTypes, Sound
<1>5. DataTypes'
  BY <1>1, <1>2, <1>3, <1>4 DEF DataInv, DataTypes
<1>6. sampled = {}
  BY DEF QueueInv, PassInv
<1>7. r \in Sound'
  <2>1. /\ Part'[r] = NoWork /\ len'[r] = len[r] /\ inflight'[r] = len[r] /\ swapLen'[r] = 0
    BY <1>1 DEF Part, DataInv, DataTypes
  <2>2. len[r] - len[r] + 0 = 0 /\ 0 - 0 = 0 /\ len[r] <= len[r]
    BY <1>4
  <2>3. Shape(tables'[r], len'[r] - inflight'[r] + Part'[r].tokens, swapLen'[r] - Part'[r].swap)
    BY <1>2, <1>3, <2>1, <2>2, ShapeEmpty
  <2> QED
    BY <1>3, <1>4, <1>6, <2>1, <2>2, <2>3 DEF Sound
<1>8. \A s \in Seqs \ {r} : /\ work'[s] = work[s] /\ inflight'[s] = inflight[s]
                            /\ swapLen'[s] = swapLen[s] /\ swapStart'[s] = swapStart[s]
  BY <1>1 DEF DataInv, DataTypes
<1>9. \A s \in Seqs : s \in Sound'
  BY <1>2, <1>7, <1>8, OthersKept
<1> QED
  BY <1>2, <1>5, <1>8, <1>9

\* schedule() begins, and the paused that are not worth preserving go.
LEMMA DataPause ==
    ASSUME QueueInv, DataInv, StartSchedule \/ (\E r \in Seqs : Demote(r))
    PROVE  DataInv'
<1>1. batchLeft \in Nat /\ inLimit \in Nat /\ newBlocks \in Int /\ BatchMax \in Nat
      /\ InLimits \subseteq Nat
  BY RequestsAssumption DEF DataInv, DataTypes
<1>2. CASE StartSchedule
  <2>1. /\ pc = "idle" /\ inLimit' \in Nat /\ batchLeft' \in Nat /\ ActiveDiscard
        /\ UNCHANGED <<len, newBlocks, cur, scheduled, sampled>>
    BY <1>1, <1>2 DEF StartSchedule, texts, loop
  <2>2. cur = 0 /\ scheduled = {}
    BY <2>1, RestFacts DEF QueueInv, PassInv, Passes, Afters
  <2>3. CASE ~(waiting = <<>> /\ swapped # <<>>)
    <3>1. UNCHANGED <<tables, freeGpu, freeCpu, inflight, swapLen, swapStart, work,
                      mode, status>>
      BY <2>1, <2>3 DEF ActiveDiscard, blockVars, data
    <3>2. newBlocks' \in Int
      BY <1>1, <2>1
    <3>3. DataTypes' /\ \A s \in Seqs : s \in Sound'
      BY <2>1, <3>1, <3>2, DataQuiet
    <3> QED
      BY <2>1, <2>2, <3>3 DEF DataInv, CurInv
  <2>4. CASE swapped # <<>> /\ waiting = <<>>
    <3> DEFINE r == Head(ByArrival(ToSet(swapped)))
    <3>1. PreemptByRecompute(r)
      BY <2>1, <2>4 DEF ActiveDiscard
    <3>2. r \in ToSet(swapped) /\ r \in Seqs
      <4>1. ToSet(swapped) \in SUBSET Seqs /\ IsFiniteSet(ToSet(swapped)) /\ ToSet(swapped) # {}
        BY <2>4, ListFacts DEF QueueInv, QueueTypes
      <4>2. /\ ByArrival(ToSet(swapped)) \in Seq(Seqs)
            /\ ToSet(ByArrival(ToSet(swapped))) = ToSet(swapped)
        BY <4>1, SortedFacts
      <4>3. ByArrival(ToSet(swapped)) # <<>>
        BY <4>1, <4>2, EmptyFacts
      <4> QED
        BY <4>1, <4>2, <4>3, OnceTail
    <3> HIDE DEF r
    <3>3. status[r] = "SWAPPED" /\ mode[r] = "none"
      BY <3>2 DEF QueueInv, StatusInv
    <3>4. /\ Discard(r) /\ status' = [status EXCEPT ![r] = "WAITING"] /\ mode' = mode
      BY <3>1 DEF PreemptByRecompute
    <3>5. /\ status'[r] = "WAITING"
          /\ \A s \in Seqs \ {r} : status'[s] = status[s] /\ mode'[s] = mode[s]
      BY <3>2, <3>4 DEF QueueInv, QueueTypes
    <3>6. newBlocks' \in Int
      BY <1>1, <2>1
    <3>7. DataTypes' /\ \A s \in Seqs : s \in Sound'
      BY <2>1, <2>2, <3>2, <3>3, <3>4, <3>5, <3>6, DataDiscard
    <3> QED
      BY <2>1, <2>2, <3>7 DEF DataInv, CurInv
  <2> QED
    BY <2>3, <2>4
<1>3. ASSUME NEW r \in Seqs, Demote(r) PROVE DataInv'
  <2>1. /\ pc = "pause" /\ r \in demoted /\ Discard(r) /\ status' = status
        /\ mode' = [mode EXCEPT ![r] = "RECOMPUTE"]
        /\ UNCHANGED <<len, newBlocks, cur, scheduled, sampled, batchLeft, inLimit>>
    BY <1>3 DEF Demote, PauseByRecompute, texts, loop, limits
  <2>2. cur = 0 /\ scheduled = {}
    BY <2>1, RestFacts DEF QueueInv, PassInv, Passes, Afters
  <2>3. status[r] = "PAUSED_API"
    BY <2>1 DEF QueueInv, VictimInv, StatusInv
  <2>4. /\ mode'[r] = "RECOMPUTE"
        /\ \A s \in Seqs \ {r} : status'[s] = status[s] /\ mode'[s] = mode[s]
    BY <2>1 DEF QueueInv, QueueTypes
  <2>5. newBlocks' \in Int /\ batchLeft' \in Nat /\ inLimit' \in Nat
    BY <1>1, <2>1
  <2>6. DataTypes' /\ \A s \in Seqs : s \in Sound'
    BY <2>1, <2>2, <2>3, <2>4, <2>5, DataDiscard
  <2> QED
    BY <2>1, <2>2, <2>6 DEF DataInv, CurInv
<1> QED
  BY <1>2, <1>3

\* A victim is neither scheduled nor finished, and if it is the request of the
\* loop, the call of passive_discard is about that one.
LEMMA VictimData ==
    ASSUME QueueInv, DataInv, NEW v \in Seqs, IsVictim(v)
    PROVE  /\ v \notin scheduled /\ pc # "process" /\ status[v] \notin Finished
           /\ GpuCount(v) > 0 /\ need \in Nat /\ need > 0
           /\ group = "self" <=> v = cur
           /\ group = "self" => need = GpuCount(v)
<1>1. /\ pc \in Passes /\ need > 0 /\ need \in Nat /\ v \notin scheduled
      /\ (mode[v] = "PRESERVE" /\ status[v] = "PAUSED_API") \/ status[v] = "RUNNING"
      /\ group = "self" <=> v = cur
  BY VictimFacts
<1>2. pc # "process" /\ status[v] \notin Finished
  BY <1>1 DEF Passes, Finished
<1>3. GpuCount(v) > 0
  BY <1>1, <1>2, SoundFacts
<1>4. group = "self" => need = GpuCount(v)
  BY <1>1, CountFacts DEF VictimCounts
<1> QED
  BY <1>1, <1>2, <1>3, <1>4

\* What may lose its blocks on the CPU is swapped out or paused.
LEMMA DiscardedData ==
    ASSUME QueueInv, NEW v \in Seqs, IsVictim(v), NEW d \in Seqs, IsDiscarded(d)
    PROVE  /\ d \notin scheduled /\ d # cur
           /\ mode[d] = "none" \/ status[d] = "PAUSED_API"
<1>1. /\ cur \in Seqs /\ cur # 0 /\ need > 0 /\ mode[cur] = "none" /\ cur \in Popped
  BY VictimFacts, CurFacts, SeqsFacts
<1>2. /\ ToSet(discards.queue) \subseteq ToSet(swapped) /\ discards.queue \in Seq(Seqs)
      /\ \A r \in discards.paused : mode[r] = "SWAP"
  BY <1>1 DEF QueueInv, QueueTypes, EvictInv
<1>3. CASE discards.paused # {}
  <2>1. mode[d] = "SWAP"
    BY <1>2, <1>3 DEF IsDiscarded
  <2> QED
    BY <1>1, <2>1 DEF QueueInv, StatusInv
<1>4. CASE discards.paused = {}
  <2>1. d \in ToSet(swapped)
    BY <1>2, <1>4, OnceFront DEF IsDiscarded
  <2>2. status[d] = "SWAPPED" /\ d \notin Popped
    BY <2>1 DEF QueueInv, StatusInv, PassInv
  <2> QED
    BY <1>1, <2>2 DEF QueueInv, StatusInv
<1> QED
  BY <1>3, <1>4

\* The swapped are discarded, or the victim itself when there are none.
LEMMA DataGiveUp ==
    ASSUME QueueInv, DataInv, NEW v \in Seqs,
           RecomputeVictim(v) \/ (\E d \in Seqs : DiscardSwapped(v, d))
    PROVE  DataInv'
<1>1. batchLeft \in Nat /\ inLimit \in Nat /\ newBlocks \in Int
  BY DEF DataInv, DataTypes
<1>2. CASE RecomputeVictim(v)
  <2>1. /\ IsVictim(v) /\ Discard(v) /\ Continued(GpuCount(v), GroupEmpty(v))
        /\ mode' = [mode EXCEPT ![v] = IF group = "paused" THEN "RECOMPUTE" ELSE @]
        /\ status' = [status EXCEPT ![v] = IF group = "paused" THEN @ ELSE "WAITING"]
        /\ UNCHANGED <<len, scheduled, sampled, batchLeft, inLimit>>
    BY <1>2 DEF RecomputeVictim, texts, limits
  <2>2. /\ v \notin scheduled /\ pc # "process"
        /\ group = "self" <=> v = cur
    BY <2>1, VictimData
  <2>3. /\ cur' \in {0, cur} /\ newBlocks' \in {0, newBlocks}
        /\ group = "self" => need' = 0 /\ cur' = 0
        /\ group' = "self" => group = "self"
    BY <2>1 DEF Continued, GroupEmpty
  <2>4. /\ status'[v] # "RUNNING" /\ mode'[v] # "PRESERVE"
        /\ \A s \in Seqs \ {v} : status'[s] = status[s] /\ mode'[s] = mode[s]
    <3>1. group = "paused" => status[v] = "PAUSED_API"
      BY <2>1, VictimFacts
    <3>2. group # "paused" => mode[v] = "none"
      BY <2>1, VictimFacts
    <3> QED
      BY <2>1, <3>1, <3>2 DEF QueueInv, QueueTypes
  <2>5. newBlocks' \in Int /\ batchLeft' \in Nat /\ inLimit' \in Nat
    BY <1>1, <2>1, <2>3
  <2>6. /\ DataTypes' /\ \A s \in Seqs : s \in Sound'
        /\ \A s \in Seqs \ {v} : /\ tables'[s] = tables[s] /\ work'[s] = work[s]
                                 /\ inflight'[s] = inflight[s] /\ swapLen'[s] = swapLen[s]
    BY <2>1, <2>2, <2>4, <2>5, DataDiscard
  <2>7. cur' # 0 => cur \in Seqs \ {v}
    <3>1. cur \in Seqs \cup {0}
      BY DEF QueueInv, QueueTypes
    <3> QED
      BY <2>2, <2>3, <3>1
  <2>8. CurInv'
    BY <2>1, <2>3, <2>6, <2>7, CurKept
  <2> QED
    BY <2>6, <2>8 DEF DataInv
<1>3. ASSUME NEW d \in Seqs, DiscardSwapped(v, d) PROVE DataInv'
  <2>1. /\ IsVictim(v) /\ IsDiscarded(d) /\ DiscardVictim(d)
        /\ UNCHANGED <<len, scheduled, sampled, batchLeft, inLimit, newBlocks, cur, need, group>>
    BY <1>3 DEF DiscardSwapped, texts, limits
  <2>2. /\ d \notin scheduled /\ d # cur /\ pc # "process"
        /\ mode[d] = "none" \/ status[d] = "PAUSED_API"
    BY <2>1, VictimData, DiscardedData
  <2>3. /\ Discard(d) /\ status'[d] # "RUNNING" /\ mode'[d] # "PRESERVE"
        /\ \A s \in Seqs \ {d} : status'[s] = status[s] /\ mode'[s] = mode[s]
    BY <2>1, <2>2
       DEF DiscardVictim, PauseByRecompute, PreemptByRecompute, QueueInv, QueueTypes
  <2>4. newBlocks' \in Int /\ batchLeft' \in Nat /\ inLimit' \in Nat
    BY <1>1, <2>1
  <2>5. /\ DataTypes' /\ \A s \in Seqs : s \in Sound'
        /\ \A s \in Seqs \ {d} : /\ tables'[s] = tables[s] /\ work'[s] = work[s]
                                 /\ inflight'[s] = inflight[s] /\ swapLen'[s] = swapLen[s]
    BY <2>1, <2>2, <2>3, <2>4, DataDiscard
  <2>6. cur' # 0 => cur \in Seqs \ {d}
    BY <2>1, <2>2 DEF QueueInv, QueueTypes
  <2>7. cur' \in {0, cur} /\ batchLeft' = batchLeft /\ inLimit' = inLimit
    BY <2>1
  <2>8. need' > 0 /\ group' = "self" => need > 0 /\ group = "self" /\ need' = need
    BY <2>1
  <2>9. CurInv'
    BY <2>5, <2>6, <2>7, <2>8, CurKept
  <2> QED
    BY <2>5, <2>9 DEF DataInv
<1> QED
  BY <1>2, <1>3

\* The tail of the table that is on the CPU grows to the front.
LEMMA DataSwapOut ==
    ASSUME QueueInv, DataInv, NEW v \in Seqs, v \notin scheduled, pc # "process",
           status[v] \notin Finished, need \in Nat, SwapOutPart(v),
           UNCHANGED <<len, inflight, scheduled, sampled, batchLeft, inLimit>>,
           work' = work \/ work' = [work EXCEPT ![v] = NoWork],
           newBlocks' \in Int, status'[v] \notin Finished,
           status'[v] = "RUNNING" \/ mode'[v] = "PRESERVE" => GpuCount(v) > OutCount(v),
           \A s \in Seqs \ {v} : status'[s] = status[s] /\ mode'[s] = mode[s]
    PROVE  /\ DataTypes' /\ \A s \in Seqs : s \in Sound'
           /\ \A s \in Seqs \ {v} : /\ tables'[s] = tables[s] /\ work'[s] = work[s]
                                    /\ swapLen'[s] = swapLen[s]
<1> DEFINE k == OutCount(v)
           out == swapLen[v]
           n == Computed(v)
<1>1. /\ SwapOutFromBack(v, k) /\ swapLen' = [swapLen EXCEPT ![v] = @ + k]
      /\ swapStart' = [swapStart EXCEPT ![v] =
            IF swapLen[v] = 0 THEN Token2Block(n) - k ELSE @ - k]
  BY DEF SwapOutPart
<1>2. /\ len[v] \in Nat /\ inflight[v] \in Nat /\ n = len[v] - inflight[v] /\ n \in Nat
      /\ out \in Nat /\ swapStart[v] \in Int /\ Part[v] = NoWork /\ Part[v].tokens = 0
      /\ Shape(tables[v], n, out) /\ Len(tables[v]) \in Nat
      /\ Len(tables[v]) = Token2Block(n) /\ GpuCount(v) = Len(tables[v]) - out
  BY SoundFacts DEF Computed
<1>3. k \in Nat /\ k <= GpuCount(v)
  <2>1. GpuCount(v) \in Nat
    BY FreeFacts DEF DataInv, DataTypes
  <2> QED
    BY <2>1 DEF OutCount, Smaller
<1>4. /\ len[v] >= 1 /\ inflight[v] <= len[v]
      /\ out > 0 => swapStart[v] + out = Len(tables[v])
  BY <1>2 DEF DataInv, Sound
<1>5. NoWork \in [swap : Nat, tokens : Nat] /\ NoWork.swap = 0 /\ NoWork.tokens = 0
  BY DEF NoWork
<1>6. sampled = {}
  BY DEF QueueInv, PassInv
<1>7. /\ swapLen'[v] = out + k
      /\ swapStart'[v] = IF out = 0 THEN Token2Block(n) - k ELSE swapStart[v] - k
      /\ \A s \in Seqs \ {v} : /\ swapLen'[s] = swapLen[s] /\ swapStart'[s] = swapStart[s]
                               /\ work'[s] = work[s]
      /\ Part'[v] = NoWork
  BY <1>1 DEF DataInv, DataTypes, Part
<1>s. status'[v] = "RUNNING" \/ mode'[v] = "PRESERVE" => GpuCount(v) > k
  OBVIOUS
<1> HIDE DEF k, out, n
<1>8. /\ BlockTypes' /\ Shape(tables'[v], n, out + k) /\ Len(tables'[v]) = Len(tables[v])
      /\ \A s \in Seqs \ {v} : tables'[s] = tables[s]
  <2>1. BlockTypes
    BY DEF DataInv, DataTypes
  <2> QED
    BY <1>1, <1>2, <1>3, <2>1, SwapOutShape
<1>9. v \in Sound'
  <2>1. /\ len'[v] = len[v] /\ inflight'[v] = inflight[v] /\ sampled' = {}
    BY <1>6
  <2>2. /\ len'[v] - inflight'[v] + Part'[v].tokens = n
        /\ swapLen'[v] - Part'[v].swap = out + k
    BY <1>2, <1>3, <1>5, <1>7, <2>1
  <2>3. swapStart'[v] + swapLen'[v] = Len(tables'[v])
    BY <1>2, <1>3, <1>4, <1>7, <1>8
  <2>4. status'[v] = "RUNNING" \/ mode'[v] = "PRESERVE" => Len(tables'[v]) > out + k
    BY <1>2, <1>3, <1>8, <1>s
  <2>5. /\ Part'[v].tokens <= inflight'[v] /\ Part'[v].swap <= swapLen'[v]
        /\ ~(Part'[v].tokens > 0)
    BY <1>2, <1>3, <1>5, <1>7, <2>1
  <2> QED
    BY <1>4, <1>8, <2>1, <2>2, <2>3, <2>4, <2>5 DEF Sound
<1>10. \A s \in Seqs : s \in Sound'
  BY <1>7, <1>8, <1>9, OthersKept
<1>11. DataTypes'
  <2>1. out + k \in Nat /\ swapStart'[v] \in Int
    BY <1>2, <1>3, <1>7
  <2>2. swapLen' \in [Seqs -> Nat] /\ swapStart' \in [Seqs -> Int]
    BY <1>1, <1>7, <2>1 DEF DataInv, DataTypes
  <2>3. work' \in [Seqs -> [swap : Nat, tokens : Nat]]
    BY <1>5 DEF DataInv, DataTypes
  <2> QED
    BY <1>8, <2>2, <2>3 DEF DataInv, DataTypes
<1> QED
  BY <1>7, <1>8, <1>10, <1>11

\* A part of a victim, or all of it, is swapped out.
LEMMA DataSwapVictim ==
    ASSUME QueueInv, DataInv, NEW v \in Seqs, SwapVictimPart(v) \/ SwapVictim(v)
    PROVE  DataInv'
<1>1. newBlocks \in Int
  BY DEF DataInv, DataTypes
<1>2. IsVictim(v) /\ SwapOutPart(v) /\ UNCHANGED <<len, inflight, scheduled, sampled,
                                                   batchLeft, inLimit>>
  BY DEF SwapVictimPart, SwapVictim, texts
<1>3. /\ v \notin scheduled /\ pc # "process" /\ status[v] \notin Finished
      /\ GpuCount(v) > 0 /\ need \in Nat /\ need > 0
      /\ group = "self" <=> v = cur
      /\ group = "self" => need = GpuCount(v)
  BY <1>2, VictimData
<1>4. CASE SwapVictimPart(v)
  <2>1. /\ GpuCount(v) > need /\ Continued(need, FALSE)
        /\ UNCHANGED <<status, mode, work>>
    BY <1>4 DEF SwapVictimPart, queues
  <2>2. v # cur /\ group # "self"
    BY <1>3, <2>1
  <2>3. /\ newBlocks' = newBlocks /\ cur' = cur /\ group' # "self"
    BY <2>1, <2>2 DEF Continued
  <2>4. GpuCount(v) > OutCount(v)
    <3>1. GpuCount(v) \in Nat
      BY FreeFacts DEF DataInv, DataTypes
    <3> QED
      BY <1>3, <2>1, <3>1 DEF OutCount, Smaller
  <2>5. newBlocks' \in Int /\ status'[v] \notin Finished
    BY <1>1, <1>3, <2>1, <2>3
  <2>6. /\ DataTypes' /\ \A s \in Seqs : s \in Sound'
        /\ \A s \in Seqs \ {v} : /\ tables'[s] = tables[s] /\ work'[s] = work[s]
                                 /\ swapLen'[s] = swapLen[s]
    BY <1>2, <1>3, <2>1, <2>4, <2>5, DataSwapOut
  <2>7. cur' # 0 => cur \in Seqs \ {v}
    BY <2>2, <2>3 DEF QueueInv, QueueTypes
  <2>8. CurInv'
    BY <1>2, <2>3, <2>6, <2>7, CurKept
  <2> QED
    BY <2>6, <2>8 DEF DataInv
<1>5. CASE SwapVictim(v)
  <2>1. /\ Continued(GpuCount(v), GroupEmpty(v))
        /\ work' = [work EXCEPT ![v] = NoWork]
        /\ mode' = [mode EXCEPT ![v] = IF group = "paused" THEN "SWAP" ELSE @]
        /\ status' = [status EXCEPT ![v] = IF group = "paused" THEN @ ELSE "SWAPPED"]
    BY <1>5 DEF SwapVictim
  <2>2. /\ status'[v] # "RUNNING" /\ mode'[v] # "PRESERVE" /\ status'[v] \notin Finished
        /\ \A s \in Seqs \ {v} : status'[s] = status[s] /\ mode'[s] = mode[s]
    <3>1. group = "paused" => status[v] = "PAUSED_API"
      BY <1>2, VictimFacts
    <3>2. group # "paused" => mode[v] = "none"
      BY <1>2, VictimFacts
    <3> QED
      BY <2>1, <3>1, <3>2 DEF QueueInv, QueueTypes, Finished
  <2>3. /\ cur' \in {0, cur} /\ newBlocks' \in {0, newBlocks}
        /\ group = "self" => need' = 0 /\ cur' = 0
        /\ group' = "self" => group = "self"
    BY <2>1 DEF Continued, GroupEmpty
  <2>4. newBlocks' \in Int
    BY <1>1, <2>3
  <2>5. /\ DataTypes' /\ \A s \in Seqs : s \in Sound'
        /\ \A s \in Seqs \ {v} : /\ tables'[s] = tables[s] /\ work'[s] = work[s]
                                 /\ swapLen'[s] = swapLen[s]
    BY <1>2, <1>3, <2>1, <2>2, <2>4, DataSwapOut
  <2>6. cur' # 0 => cur \in Seqs \ {v}
    <3>1. cur \in Seqs \cup {0}
      BY DEF QueueInv, QueueTypes
    <3> QED
      BY <1>3, <2>3, <3>1
  <2>7. CurInv'
    BY <1>2, <2>3, <2>5, <2>6, CurKept
  <2> QED
    BY <2>5, <2>7 DEF DataInv
<1> QED
  BY <1>4, <1>5

\* A client goes away, and with it all blocks of its request.
LEMMA DataAbort ==
    ASSUME QueueInv, DataInv, NEW r \in Seqs, AbortRequest(r)
    PROVE  DataInv'
<1>1. /\ pc = "idle" /\ status' = [status EXCEPT ![r] = "FINISHED_ABORTED"] /\ Free(r)
      /\ UNCHANGED <<mode, len, inflight, swapLen, swapStart, work, scheduled, sampled, cur,
                     batchLeft, inLimit, newBlocks>>
  BY DEF AbortRequest, data, texts, limits, loop
<1>2. cur = 0 /\ scheduled = {}
  BY <1>1, RestFacts DEF QueueInv, PassInv, Passes, Afters
<1>3. BlockTypes' /\ \A s \in Seqs \ {r} : tables'[s] = tables[s]
  BY <1>1, FreeShape DEF DataInv, DataTypes
<1>4. status'[r] \in Finished /\ \A s \in Seqs \ {r} : status'[s] = status[s]
  BY <1>1 DEF QueueInv, QueueTypes, Finished
<1>5. r \in Sound'
  BY <1>1, <1>4 DEF DataInv, Sound
<1>6. scheduled' = scheduled /\ sampled' \subseteq sampled /\ r \notin scheduled
  BY <1>1, <1>2
<1>7. \A s \in Seqs \ {r} : /\ tables'[s] = tables[s] /\ len'[s] = len[s]
                            /\ inflight'[s] = inflight[s] /\ swapLen'[s] = swapLen[s]
                            /\ swapStart'[s] = swapStart[s] /\ work'[s] = work[s]
                            /\ status'[s] = status[s] /\ mode'[s] = mode[s]
  BY <1>1, <1>3, <1>4
<1>8. \A s \in Seqs : s \in Sound'
  BY <1>5, <1>6, <1>7, OthersKept
<1>9. DataTypes'
  BY <1>1, <1>3 DEF DataInv, DataTypes
<1> QED
  BY <1>1, <1>2, <1>8, <1>9 DEF DataInv, CurInv

\* What an API call returns is cut to what the request may still hold, and is
\* never negative.
LEMMA ApiTokensFacts ==
    ASSUME NEW r \in Seqs, len[r] \in Nat, NEW n \in ApiRets, NEW single \in BOOLEAN
    PROVE  ApiTokens(r, n, single) \in Nat
<1>1. /\ n \in Nat /\ MaxModelLen \in Nat /\ MaxTokens \in Nat /\ Prompt[r] \in Nat
  BY RequestsAssumption
<1> DEFINE first  == MaxModelLen - len[r]
           second == MaxTokens - (IF single THEN 1 ELSE 0) - (len[r] - Prompt[r])
           most   == Smaller(first, second)
           k      == Smaller(n, most)
<1>2. first \in Int /\ second \in Int
  BY <1>1
<1>3. ApiTokens(r, n, single) = IF k >= 0 THEN k ELSE Larger(0, n + k)
  BY DEF ApiTokens
<1> HIDE DEF first, second
<1>4. most \in Int
  BY <1>2 DEF Smaller
<1> HIDE DEF most
<1>5. k \in Int
  BY <1>1, <1>4 DEF Smaller
<1> HIDE DEF k
<1> QED
  BY <1>1, <1>3, <1>5 DEF Larger

\* A paused request goes on with what the API call returned.
LEMMA DataResume ==
    ASSUME QueueInv, DataInv, NEW r \in Seqs, NEW n \in ApiRets, NEW single \in BOOLEAN,
           ResumeRequest(r, n, single)
    PROVE  DataInv'
<1> DEFINE k == ApiTokens(r, n, single)
<1>1. /\ pc \in {"idle", "execute"} /\ mode[r] # "none"
      /\ len' = [len EXCEPT ![r] = @ + k] /\ inflight' = [inflight EXCEPT ![r] = @ + k]
      /\ mode' = [mode EXCEPT ![r] = "none"]
      /\ \E to \in {"RUNNING", "SWAPPED", "WAITING"} :
            /\ status' = [status EXCEPT ![r] = to]
            /\ to = "RUNNING" => mode[r] = "PRESERVE"
      /\ UNCHANGED <<tables, freeGpu, freeCpu, swapLen, swapStart, work, scheduled, sampled,
                     cur, batchLeft, inLimit, newBlocks>>
  BY DEF ResumeRequest, blockVars, limits, loop
<1>2. k \in Nat
  BY ApiTokensFacts DEF DataInv, DataTypes
<1> HIDE DEF k
<1>3. cur = 0 /\ sampled = {}
  BY <1>1, RestFacts DEF QueueInv, PassInv, Passes, Afters
<1>4. status[r] = "PAUSED_API" /\ r \notin scheduled /\ status[r] \notin Finished
  BY <1>1 DEF QueueInv, StatusInv, Finished
<1>5. /\ status'[r] # "RUNNING" \/ mode[r] = "PRESERVE"
      /\ mode'[r] = "none" /\ status'[r] \notin Finished
      /\ \A s \in Seqs \ {r} : status'[s] = status[s] /\ mode'[s] = mode[s]
  BY <1>1 DEF QueueInv, QueueTypes, Finished
<1>6. /\ len'[r] = len[r] + k /\ inflight'[r] = inflight[r] + k
      /\ len[r] \in Nat /\ inflight[r] \in Nat
      /\ \A s \in Seqs \ {r} : len'[s] = len[s] /\ inflight'[s] = inflight[s]
  BY <1>1 DEF DataInv, DataTypes
<1>7. r \in Sound'
  <2>1. Part'[r] = NoWork /\ Part[r] = NoWork /\ NoWork.tokens = 0 /\ NoWork.swap = 0
    BY <1>1, <1>4 DEF Part, NoWork
  <2>2. len'[r] - inflight'[r] + 0 = len[r] - inflight[r] + 0
    BY <1>2, <1>6
  <2>3. r \in Sound
    BY DEF DataInv
  <2>4. swapLen[r] \in Nat
    BY DEF DataInv, DataTypes
  <2>5. /\ len[r] >= 1 /\ inflight[r] <= len[r]
        /\ Shape(tables[r], len[r] - inflight[r] + 0, swapLen[r] - 0)
        /\ swapLen[r] > 0 => swapStart[r] + swapLen[r] = Len(tables[r])
        /\ mode[r] = "PRESERVE" => Len(tables[r]) > swapLen[r] - 0
    BY <1>4, <2>1, <2>3 DEF Sound
  <2>6. /\ len'[r] >= 1 /\ inflight'[r] <= len'[r] /\ 0 <= inflight'[r] /\ 0 <= swapLen[r]
    BY <1>2, <1>6, <2>4, <2>5
  <2>7. Shape(tables'[r], len'[r] - inflight'[r] + 0, swapLen'[r] - 0)
    BY <1>1, <2>2, <2>5
  <2> QED
    BY <1>1, <1>3, <1>5, <2>1, <2>5, <2>6, <2>7 DEF Sound
<1>8. scheduled' = scheduled /\ sampled' \subseteq sampled
  BY <1>1
<1>9. \A s \in Seqs \ {r} : /\ tables'[s] = tables[s] /\ len'[s] = len[s]
                            /\ inflight'[s] = inflight[s] /\ swapLen'[s] = swapLen[s]
                            /\ swapStart'[s] = swapStart[s] /\ work'[s] = work[s]
                            /\ status'[s] = status[s] /\ mode'[s] = mode[s]
  BY <1>1, <1>5, <1>6
<1>10. \A s \in Seqs : s \in Sound'
  BY <1>4, <1>7, <1>8, <1>9, OthersKept
<1>11. DataTypes'
  <2>1. len' \in [Seqs -> Nat] /\ inflight' \in [Seqs -> Nat]
    <3>1. len[r] + k \in Nat /\ inflight[r] + k \in Nat
      BY <1>2, <1>6
    <3> QED
      BY <1>1, <3>1 DEF DataInv, DataTypes
  <2>2. BlockTypes'
    BY <1>1 DEF DataInv, DataTypes, BlockTypes
  <2> QED
    BY <1>1, <2>1, <2>2 DEF DataInv, DataTypes
<1> QED
  BY <1>1, <1>3, <1>10, <1>11 DEF DataInv, CurInv

\* The batch is executed: the data catch up with the tables.
LEMMA DataForward ==
    ASSUME QueueInv, DataInv, PostForward
    PROVE  DataInv'
<1>1. /\ pc = "execute" /\ scheduled' = {}
      /\ inflight' = [r \in Seqs |-> inflight[r] - Tokens[r]]
      /\ swapLen' = [r \in Seqs |-> swapLen[r] - (IF r \in scheduled THEN work[r].swap ELSE 0)]
      /\ swapStart' = [r \in Seqs |-> swapStart[r] + (IF r \in scheduled THEN work[r].swap ELSE 0)]
      /\ work' = [r \in Seqs |-> NoWork]
      /\ sampled' = {r \in scheduled : Tokens[r] > 0 /\ Tokens[r] = inflight[r]}
      /\ UNCHANGED <<tables, freeGpu, freeCpu, status, mode, len, cur, batchLeft, inLimit,
                     newBlocks>>
  BY DEF PostForward, queues, texts, limits, loop
<1>2. cur = 0
  BY <1>1, RestFacts DEF Passes, Afters
<1>3. NoWork \in [swap : Nat, tokens : Nat] /\ NoWork.swap = 0 /\ NoWork.tokens = 0
  BY DEF NoWork
<1>4. ASSUME NEW r \in Seqs
      PROVE  r \in Sound' /\ inflight'[r] \in Nat /\ swapLen'[r] \in Nat /\ swapStart'[r] \in Int
  <2> DEFINE t == Part[r].tokens
             b == Part[r].swap
  <2>1. /\ inflight'[r] = inflight[r] - t /\ swapLen'[r] = swapLen[r] - b
        /\ swapStart'[r] = swapStart[r] + b
        /\ r \in sampled' => r \in scheduled /\ t > 0 /\ t = inflight[r]
        /\ r \notin scheduled => t = 0 /\ b = 0
    BY <1>1, <1>3 DEF Part, Tokens
  <2>2. /\ t \in Nat /\ b \in Nat /\ inflight[r] \in Nat /\ swapLen[r] \in Nat
        /\ swapStart[r] \in Int /\ len[r] \in Nat
    BY <1>3 DEF Part, DataInv, DataTypes
  <2>3. Part'[r] = NoWork
    BY <1>1 DEF Part
  <2>4. r \in scheduled => status[r] \notin Finished
    BY DEF QueueInv, StatusInv, Finished
  <2>5. /\ len[r] >= 1 /\ inflight[r] <= len[r]
        /\ status[r] \notin Finished =>
             /\ Shape(tables[r], len[r] - inflight[r] + t, swapLen[r] - b)
             /\ t <= inflight[r] /\ b <= swapLen[r]
             /\ t > 0 => b = swapLen[r]
             /\ swapLen[r] > 0 /\ t = 0 => swapStart[r] + swapLen[r] = Len(tables[r])
             /\ status[r] = "RUNNING" \/ mode[r] = "PRESERVE" => Len(tables[r]) > swapLen[r] - b
    BY DEF DataInv, Sound
  <2> HIDE DEF t, b
  <2>6. inflight'[r] \in Nat /\ swapLen'[r] \in Nat /\ swapStart'[r] \in Int
    BY <2>1, <2>2, <2>4, <2>5
  <2>7. CASE status[r] \in Finished
    <3>1. inflight'[r] <= len[r]
      BY <2>1, <2>2, <2>5
    <3> QED
      BY <1>1, <2>5, <2>6, <2>7, <3>1 DEF Sound
  <2>8. CASE status[r] \notin Finished
    <3>1. len[r] - inflight'[r] + 0 = len[r] - inflight[r] + t /\ swapLen'[r] - 0 = swapLen[r] - b
      BY <2>1, <2>2
    <3>2. Shape(tables'[r], len'[r] - inflight'[r] + Part'[r].tokens, swapLen'[r] - Part'[r].swap)
      BY <1>1, <1>3, <2>3, <2>5, <2>8, <3>1
    <3>3. /\ inflight'[r] <= len[r]
          /\ swapLen'[r] > 0 => swapStart'[r] + swapLen'[r] = Len(tables[r])
          /\ r \in sampled' => inflight'[r] = 0 /\ swapLen'[r] = 0
      <4>1. inflight'[r] <= len[r]
        BY <2>1, <2>2, <2>5
      <4>2. CASE t = 0
        <5>1. swapLen'[r] > 0 => swapLen[r] > 0
          BY <2>1, <2>2
        <5>2. swapStart'[r] + swapLen'[r] = swapStart[r] + swapLen[r]
          BY <2>1, <2>2
        <5>3. r \notin sampled'
          BY <2>1, <4>2
        <5> QED
          BY <2>5, <2>8, <4>1, <4>2, <5>1, <5>2, <5>3
      <4>3. CASE t > 0
        <5>1. swapLen'[r] = 0
          BY <2>1, <2>2, <2>5, <2>8, <4>3
        <5>2. r \in sampled' => inflight'[r] = 0
          BY <2>1, <2>2
        <5> QED
          BY <4>1, <5>1, <5>2
      <4> QED
        BY <2>2, <4>2, <4>3
    <3>4. status[r] = "RUNNING" \/ mode[r] = "PRESERVE" => Len(tables[r]) > swapLen'[r] - 0
      BY <2>5, <2>8, <3>1
    <3>5. Part'[r].tokens <= inflight'[r] /\ Part'[r].swap <= swapLen'[r] /\ ~(Part'[r].tokens > 0)
      BY <1>3, <2>3, <2>6
    <3> QED
      BY <1>1, <1>3, <2>3, <2>5, <2>6, <3>2, <3>3, <3>4, <3>5 DEF Sound
  <2> QED
    BY <2>6, <2>7, <2>8
<1>5. DataTypes'
  <2>1. inflight' \in [Seqs -> Nat] /\ swapLen' \in [Seqs -> Nat] /\ swapStart' \in [Seqs -> Int]
    <3>1. /\ DOMAIN inflight' = Seqs /\ inflight' = [r \in Seqs |-> inflight'[r]]
          /\ DOMAIN swapLen' = Seqs /\ swapLen' = [r \in Seqs |-> swapLen'[r]]
          /\ DOMAIN swapStart' = Seqs /\ swapStart' = [r \in Seqs |-> swapStart'[r]]
      BY <1>1
    <3> QED
      BY <1>4, <3>1
  <2>2. IsFiniteSet(scheduled')
    BY <1>1, FS_EmptySet
  <2> QED
    BY <1>1, <1>3, <2>1, <2>2 DEF DataInv, DataTypes, BlockTypes
<1> QED
  BY <1>1, <1>2, <1>4, <1>5 DEF DataInv, CurInv

\* swap_out of all that is on the GPU
LEMMA SwapOutAll ==
    ASSUME BlockTypes, NEW r \in Seqs, NEW n, Shape(tables[r], n, 0), SwapOut(r)
    PROVE  /\ BlockTypes' /\ Shape(tables'[r], n, Len(tables[r]))
           /\ Len(tables'[r]) = Len(tables[r])
           /\ \A s \in Seqs \ {r} : tables'[s] = tables[s]
<1> DEFINE g == GpuCount(r)
<1>1. /\ Len(tables[r]) \in Nat /\ g = Len(tables[r]) /\ OnGpu(r) = 1..g
  <2>1. tables[r] \in Seq(Blocks) /\ Len(tables[r]) \in Nat
    BY LenProperties DEF BlockTypes
  <2>2. OnGpu(r) = 1..(Len(tables[r]) - 0) /\ GpuCount(r) = Len(tables[r]) - 0
    BY <2>1, ShapeFacts
  <2> QED
    BY <2>1, <2>2
<1> HIDE DEF g
<1>2. LastOf(OnGpu(r), g) = OnGpu(r)
  <2>1. g \in Nat /\ g <= g /\ g - g + 1 = 1
    BY <1>1
  <2> QED
    BY <1>1, <2>1, LastOfInterval
<1>3. SwapOutFromBack(r, g)
  BY <1>2 DEF SwapOut, SwapOutFromBack
<1>4. g \in Nat /\ g <= GpuCount(r) /\ 0 \in Nat
  BY <1>1 DEF g
<1>5. /\ BlockTypes' /\ Shape(tables'[r], n, 0 + g)
      /\ Len(tables'[r]) = Len(tables[r])
      /\ \A s \in Seqs \ {r} : tables'[s] = tables[s]
  BY <1>3, <1>4, SwapOutShape
<1> QED
  BY <1>1, <1>5

\* A token is appended; the request calls the API, stops or goes on.
LEMMA DataOutput ==
    ASSUME QueueInv, DataInv, NEW r \in Seqs,
           (\E m \in PauseModes : CallApi(r, m)) \/ StopRequest(r) \/ Continue(r)
    PROVE  DataInv'
<1>1. /\ pc = "process" /\ r \in sampled /\ sampled' = sampled \ {r}
      /\ len' = [len EXCEPT ![r] = @ + 1]
      /\ UNCHANGED <<work, scheduled, cur, batchLeft, inLimit, newBlocks>>
  BY DEF CallApi, StopRequest, Continue, AppendToken, limits, loop
<1>2. cur = 0 /\ scheduled = {}
  BY <1>1, RestFacts DEF QueueInv, PassInv, Passes, Afters
<1>3. status[r] = "RUNNING" /\ mode[r] = "none" /\ status[r] \notin Finished
  BY <1>1 DEF QueueInv, StatusInv, Finished
<1> DEFINE n == Computed(r)
<1>4. /\ len[r] \in Nat /\ len[r] >= 1 /\ inflight[r] = 0 /\ swapLen[r] = 0
      /\ n = len[r] /\ Shape(tables[r], n, 0)
      /\ Len(tables[r]) \in Nat /\ Len(tables[r]) > 0
      /\ tables[r] \in Seq(Blocks)
  <2>1. /\ len[r] \in Nat /\ inflight[r] \in Nat /\ Len(tables[r]) \in Nat
        /\ Shape(tables[r], n, swapLen[r]) /\ GpuCount(r) = Len(tables[r]) - swapLen[r]
        /\ GpuCount(r) > 0
    BY <1>2, <1>3, SoundFacts
  <2>2. /\ len[r] >= 1 /\ inflight[r] = 0 /\ swapLen[r] = 0
    BY <1>1, <1>3 DEF DataInv, Sound
  <2> QED
    BY <2>1, <2>2 DEF Computed, DataInv, DataTypes, BlockTypes
<1> HIDE DEF n
<1>5. /\ len'[r] = len[r] + 1 /\ len' \in [Seqs -> Nat]
      /\ \A s \in Seqs \ {r} : len'[s] = len[s] /\ work'[s] = work[s]
  BY <1>1, <1>4 DEF DataInv, DataTypes
<1>6. BlockTypes
  BY DEF DataInv, DataTypes
<1> DEFINE After ==
          /\ BlockTypes' /\ \A s \in Seqs \ {r} : tables'[s] = tables[s]
          /\ inflight' \in [Seqs -> Nat] /\ swapLen' \in [Seqs -> Nat]
          /\ swapStart' \in [Seqs -> Int]
          /\ inflight'[r] <= len[r] + 1
          /\ status'[r] \notin Finished =>
                /\ Shape(tables'[r], len[r] + 1 - inflight'[r], swapLen'[r])
                /\ swapLen'[r] > 0 => swapStart'[r] + swapLen'[r] = Len(tables'[r])
                /\ status'[r] = "RUNNING" \/ mode'[r] = "PRESERVE"
                     => Len(tables'[r]) > swapLen'[r]
          /\ \A s \in Seqs \ {r} : /\ inflight'[s] = inflight[s] /\ swapLen'[s] = swapLen[s]
                                   /\ swapStart'[s] = swapStart[s]
                                   /\ status'[s] = status[s] /\ mode'[s] = mode[s]
<1>7. After
  <2>1. ASSUME NEW m \in PauseModes, CallApi(r, m), m = "RECOMPUTE", Free(r),
               mode' = [mode EXCEPT ![r] = "RECOMPUTE"], UNCHANGED <<swapLen, swapStart>>
        PROVE  After
    <3>1. /\ inflight' = [inflight EXCEPT ![r] = len[r] + 1]
          /\ status' = [status EXCEPT ![r] = "PAUSED_API"]
      BY <1>5, <2>1 DEF CallApi
    <3>2. BlockTypes' /\ tables'[r] = <<>> /\ \A s \in Seqs \ {r} : tables'[s] = tables[s]
      BY <1>6, <2>1, FreeShape
    <3>3. /\ inflight'[r] = len[r] + 1 /\ inflight' \in [Seqs -> Nat]
          /\ len[r] + 1 - inflight'[r] = 0
          /\ \A s \in Seqs \ {r} : inflight'[s] = inflight[s]
      BY <1>4, <3>1 DEF DataInv, DataTypes
    <3>4. /\ status'[r] = "PAUSED_API" /\ mode'[r] = "RECOMPUTE"
          /\ \A s \in Seqs \ {r} : status'[s] = status[s] /\ mode'[s] = mode[s]
      BY <2>1, <3>1 DEF QueueInv, QueueTypes
    <3>5. /\ swapLen'[r] = 0 /\ swapLen' \in [Seqs -> Nat] /\ swapStart' \in [Seqs -> Int]
          /\ \A s \in Seqs \ {r} : swapLen'[s] = swapLen[s] /\ swapStart'[s] = swapStart[s]
      BY <1>4, <2>1 DEF DataInv, DataTypes
    <3>6. Shape(tables'[r], len[r] + 1 - inflight'[r], swapLen'[r])
      BY <3>2, <3>3, <3>5, ShapeEmpty
    <3>7. inflight'[r] <= len[r] + 1
      BY <1>4, <3>3
    <3> QED
      BY <3>2, <3>3, <3>4, <3>5, <3>6, <3>7
  <2> DEFINE Plus == /\ inflight' = [inflight EXCEPT ![r] = @ + 1]
  <2>2. ASSUME Plus
        PROVE  /\ inflight'[r] = 1 /\ inflight' \in [Seqs -> Nat]
               /\ len[r] + 1 - inflight'[r] = n /\ inflight'[r] <= len[r] + 1
               /\ \A s \in Seqs \ {r} : inflight'[s] = inflight[s]
    BY <1>4, <2>2 DEF DataInv, DataTypes
  <2>3. ASSUME NEW m \in PauseModes, CallApi(r, m), m = "SWAP", SwapOut(r),
               mode' = [mode EXCEPT ![r] = "SWAP"],
               swapLen' = [swapLen EXCEPT ![r] = Len(tables[r])],
               swapStart' = [swapStart EXCEPT ![r] = 0]
        PROVE  After
    <3>1. Plus /\ status' = [status EXCEPT ![r] = "PAUSED_API"]
      BY <2>3 DEF CallApi
    <3>2. /\ BlockTypes' /\ Shape(tables'[r], n, Len(tables[r]))
          /\ Len(tables'[r]) = Len(tables[r])
          /\ \A s \in Seqs \ {r} : tables'[s] = tables[s]
      BY <1>4, <1>6, <2>3, SwapOutAll
    <3>3. /\ status'[r] = "PAUSED_API" /\ mode'[r] = "SWAP"
          /\ \A s \in Seqs \ {r} : status'[s] = status[s] /\ mode'[s] = mode[s]
      BY <2>3, <3>1 DEF QueueInv, QueueTypes
    <3>4. /\ swapLen'[r] = Len(tables[r]) /\ swapStart'[r] = 0
          /\ swapLen' \in [Seqs -> Nat] /\ swapStart' \in [Seqs -> Int]
          /\ \A s \in Seqs \ {r} : swapLen'[s] = swapLen[s] /\ swapStart'[s] = swapStart[s]
      BY <1>4, <2>3 DEF DataInv, DataTypes
    <3>5. swapStart'[r] + swapLen'[r] = Len(tables'[r])
      BY <1>4, <3>2, <3>4
    <3> QED
      BY <2>2, <3>1, <3>2, <3>3, <3>4, <3>5
  <2>4. ASSUME Plus, UNCHANGED <<tables, freeGpu, freeCpu, swapLen, swapStart>>,
               \/ mode' = mode /\ status' = status
               \/ /\ status' = [status EXCEPT ![r] = "PAUSED_API"]
                  /\ mode' = [mode EXCEPT ![r] = "PRESERVE"]
        PROVE  After
    <3>1. BlockTypes'
      BY <1>6, <2>4 DEF BlockTypes
    <3>2. \A s \in Seqs \ {r} : status'[s] = status[s] /\ mode'[s] = mode[s]
      BY <2>4 DEF QueueInv, QueueTypes
    <3>3. swapLen' \in [Seqs -> Nat] /\ swapStart' \in [Seqs -> Int]
      BY <2>4 DEF DataInv, DataTypes
    <3>4. swapLen'[r] = 0 /\ ~(swapLen'[r] > 0)
      BY <1>4, <2>4
    <3>5. Shape(tables'[r], len[r] + 1 - inflight'[r], swapLen'[r])
      BY <1>4, <2>2, <2>4, <3>4
    <3>6. Len(tables'[r]) > swapLen'[r]
      BY <1>4, <2>4, <3>4
    <3> QED
      BY <2>2, <2>4, <3>1, <3>2, <3>3, <3>4, <3>5, <3>6
  <2>5. CASE StopRequest(r)
    <3>1. /\ Plus /\ Free(r) /\ status' = [status EXCEPT ![r] = "FINISHED_STOPPED"]
          /\ UNCHANGED <<mode, swapLen, swapStart>>
      BY <2>5 DEF StopRequest
    <3>2. BlockTypes' /\ \A s \in Seqs \ {r} : tables'[s] = tables[s]
      BY <1>6, <3>1, FreeShape
    <3>3. /\ status'[r] \in Finished
          /\ \A s \in Seqs \ {r} : status'[s] = status[s] /\ mode'[s] = mode[s]
      BY <3>1 DEF QueueInv, QueueTypes, Finished
    <3>4. /\ swapLen' \in [Seqs -> Nat] /\ swapStart' \in [Seqs -> Int]
          /\ \A s \in Seqs \ {r} : swapLen'[s] = swapLen[s] /\ swapStart'[s] = swapStart[s]
      BY <3>1 DEF DataInv, DataTypes
    <3> QED
      BY <2>2, <3>1, <3>2, <3>3, <3>4
  <2>6. CASE Continue(r)
    <3>1. Plus /\ UNCHANGED <<tables, freeGpu, freeCpu, status, mode, swapLen, swapStart>>
      BY <2>6 DEF Continue, blockVars
    <3> QED
      BY <2>4, <3>1
  <2>7. ASSUME NEW m \in PauseModes, CallApi(r, m) PROVE After
    <3>1. /\ status' = [status EXCEPT ![r] = "PAUSED_API"]
          /\ \/ /\ m = "RECOMPUTE" /\ Free(r)
                /\ mode' = [mode EXCEPT ![r] = "RECOMPUTE"]
                /\ UNCHANGED <<swapLen, swapStart>>
             \/ /\ m = "SWAP" /\ SwapOut(r)
                /\ mode' = [mode EXCEPT ![r] = "SWAP"]
                /\ swapLen' = [swapLen EXCEPT ![r] = Len(tables[r])]
                /\ swapStart' = [swapStart EXCEPT ![r] = 0]
             \/ /\ m # "RECOMPUTE"
                /\ mode' = [mode EXCEPT ![r] = "PRESERVE"]
                /\ UNCHANGED <<tables, freeGpu, freeCpu, swapLen, swapStart>>
          /\ m # "RECOMPUTE" => Plus
      BY <2>7 DEF CallApi, blockVars
    <3> HIDE DEF Plus
    <3> QED
      BY <2>1, <2>3, <2>4, <2>7, <3>1
  <2> QED
    BY <2>5, <2>6, <2>7
<1>8. r \in Sound'
  <2>1. Part'[r] = NoWork /\ NoWork.tokens = 0 /\ NoWork.swap = 0
    BY <1>1, <1>2 DEF Part, NoWork
  <2>2. /\ len'[r] - inflight'[r] + 0 = len[r] + 1 - inflight'[r] /\ swapLen'[r] - 0 = swapLen'[r]
        /\ len'[r] >= 1 /\ inflight'[r] <= len'[r] /\ 0 <= inflight'[r] /\ 0 <= swapLen'[r]
    <3>1. inflight'[r] \in Nat /\ swapLen'[r] \in Nat
      BY <1>7
    <3> QED
      BY <1>4, <1>5, <1>7, <3>1
  <2>3. r \notin sampled'
    BY <1>1
  <2>4. status'[r] \notin Finished =>
            /\ Shape(tables'[r], len'[r] - inflight'[r] + 0, swapLen'[r] - 0)
            /\ swapLen'[r] > 0 => swapStart'[r] + swapLen'[r] = Len(tables'[r])
            /\ status'[r] = "RUNNING" \/ mode'[r] = "PRESERVE"
                 => Len(tables'[r]) > swapLen'[r] - 0
    BY <1>7, <2>2
  <2> QED
    BY <2>1, <2>2, <2>3, <2>4 DEF Sound
<1>9. \A s \in Seqs : s \in Sound'
  <2>1. r \notin scheduled /\ scheduled' = scheduled /\ sampled' \subseteq sampled
    BY <1>1, <1>2
  <2> QED
    BY <1>5, <1>7, <1>8, <2>1, OthersKept
<1>10. DataTypes'
  BY <1>1, <1>5, <1>7 DEF DataInv, DataTypes
<1> QED
  BY <1>1, <1>2, <1>9, <1>10 DEF DataInv, CurInv

\* Every step keeps the invariant of the data.
LEMMA DataNext ==
    ASSUME QueueInv, DataInv, [Next]_vars
    PROVE  DataInv'
<1>1. CASE UNCHANGED vars
  BY <1>1, DataPasses
<1>2. CASE Client
  BY <1>2, DataPasses, DataAbort, DataResume DEF Client
<1>3. CASE PausePhase
  BY <1>3, DataPause, DataPasses DEF PausePhase
<1>4. CASE PassPhase
  BY <1>4, DataPasses, DataSchedule, DataLoop, DataGiveUp, DataSwapVictim DEF PassPhase
<1>5. CASE PostForward
  BY <1>5, DataForward
<1>6. CASE OutputPhase
  BY <1>6, DataOutput, DataPasses DEF OutputPhase
<1> QED
  BY <1>1, <1>2, <1>3, <1>4, <1>5, <1>6 DEF Next, Step

\* The queues and the data hold each other up: who is a victim follows from
\* the blocks, and whose blocks a step touches from the queues.
InferCeptInv == QueueInv /\ DataInv

\* The invariant holds in every state.
THEOREM InferCeptSafe == Spec => []InferCeptInv
<1>1. Init => InferCeptInv
  BY QueueInit, DataInit DEF InferCeptInv
<1>2. InferCeptInv /\ [Next]_vars => InferCeptInv'
  BY CountFacts, QueueNext, DataNext DEF InferCeptInv
<1> QED
  BY <1>1, <1>2, PTL DEF Spec

-----------------------------------------------------------------------------
(* What follows.                                                           *)

\* The block table says what the data say.
LEMMA TableMeaning == InferCeptInv => TableMatchesData
<1> SUFFICES ASSUME InferCeptInv, NEW r \in Seqs, Live(r)
             PROVE  LET w == IF r \in scheduled THEN work[r] ELSE NoWork
                    IN  /\ Len(tables[r]) = Token2Block(Computed(r) + w.tokens)
                        /\ Cardinality(OnCpu(r)) = swapLen[r] - w.swap
                        /\ OnGpu(r) = 1..GpuCount(r)
                        /\ swapLen[r] > 0 /\ w.tokens = 0 => swapStart[r] + w.swap = GpuCount(r)
  BY DEF TableMatchesData
<1> DEFINE w == IF r \in scheduled THEN work[r] ELSE NoWork
<1>1. w = Part[r]
  BY DEF Part
<1> HIDE DEF w
<1>2. QueueInv /\ DataInv /\ status[r] \notin Finished
  BY DEF InferCeptInv, Live
<1>3. /\ swapLen[r] \in Nat /\ swapStart[r] \in Int /\ Len(tables[r]) \in Nat
      /\ OnGpu(r) = 1..GpuCount(r) /\ w.swap \in Nat
      /\ GpuCount(r) = Len(tables[r]) - (swapLen[r] - w.swap)
      /\ Cardinality(OnCpu(r)) = swapLen[r] - w.swap
  BY <1>1, <1>2, SoundFacts
<1>4. /\ Shape(tables[r], len[r] - inflight[r] + w.tokens, swapLen[r] - w.swap)
      /\ swapLen[r] > 0 /\ w.tokens = 0 => swapStart[r] + swapLen[r] = Len(tables[r])
  BY <1>1, <1>2 DEF DataInv, Sound
<1>5. Len(tables[r]) = Token2Block(Computed(r) + w.tokens)
  BY <1>4 DEF Shape, Computed
<1>6. swapLen[r] > 0 /\ w.tokens = 0 => swapStart[r] + w.swap = GpuCount(r)
  BY <1>3, <1>4
<1> QED
  BY <1>3, <1>5, <1>6 DEF w

\* Only the execution of the batch ends what schedule() promised.
LEMMA ScheduledStep ==
    ASSUME InferCeptInv, [Next]_vars, NEW r \in scheduled, pc # "execute"
    PROVE  r \in scheduled' /\ tables'[r] = tables[r]
<1>1. QueueInv /\ DataInv
  BY DEF InferCeptInv
<1>2. /\ r \in Seqs /\ status[r] = "RUNNING" /\ mode[r] = "none"
      /\ pc \notin {"idle", "pause", "process"}
  BY <1>1 DEF QueueInv, QueueTypes, StatusInv, PassInv
<1>3. CASE UNCHANGED vars
  BY <1>3 DEF vars, blockVars
<1>4. CASE Client
  BY <1>2, <1>4 DEF Client, AddRequest, AbortRequest, ResumeRequest
<1>5. CASE PausePhase
  BY <1>2, <1>5 DEF PausePhase, StartSchedule, Demote, StartPass1
<1>6. CASE PassPhase
  <2>1. CASE \/ \E s \in Seqs : \/ Ignore(s) \/ SequenceLimit(s) \/ BatchLimit(s)
                                \/ GiveUp(s) \/ StartEviction(s)
             \/ DelayCur \/ StartDiscard \/ FinishPass1 \/ FinishPass2 \/ FinishPass3
    BY <2>1 DEF Ignore, SequenceLimit, BatchLimit, GiveUp, StartEviction, Delay, DelayCur,
                StartDiscard, FinishPass1, FinishPass2, FinishPass3, blockVars
  <2>2. ASSUME NEW s \in Seqs, s \notin scheduled, NEW w, Admit(s, w)
        PROVE  r \in scheduled' /\ tables'[r] = tables[r]
    <3>1. /\ Allocate(s, w.swap, InflightBlocks(s, w.tokens))
          /\ scheduled' = scheduled \cup {s}
      BY <2>2 DEF Admit
    <3>2. \A t \in Seqs \ {s} : tables'[t] = tables[t]
      BY <1>1, <3>1 DEF DataInv, DataTypes, BlockTypes, Allocate
    <3> QED
      BY <1>2, <2>2, <3>1, <3>2
  <2>3. ASSUME NEW s \in Seqs, Schedule(s) PROVE r \in scheduled' /\ tables'[r] = tables[r]
    BY <1>1, <2>2, <2>3, NextFacts DEF Schedule, Eligible
  <2>4. CASE ScheduleCur
    BY <1>1, <2>2, <2>4, CurFacts DEF ScheduleCur, InLoop
  <2>5. ASSUME NEW s \in Seqs, s \notin scheduled, scheduled' = scheduled, Free(s)
        PROVE  r \in scheduled' /\ tables'[r] = tables[r]
    BY <1>1, <1>2, <2>5, FreeShape DEF DataInv, DataTypes
  <2>6. ASSUME NEW v \in Seqs, RecomputeVictim(v)
        PROVE  r \in scheduled' /\ tables'[r] = tables[r]
    BY <1>1, <2>5, <2>6, VictimData DEF RecomputeVictim, Discard
  <2>7. ASSUME NEW v \in Seqs, NEW d \in Seqs, DiscardSwapped(v, d)
        PROVE  r \in scheduled' /\ tables'[r] = tables[r]
    <3>1. Free(d) /\ scheduled' = scheduled /\ IsVictim(v) /\ IsDiscarded(d)
      BY <2>7 DEF DiscardSwapped, DiscardVictim, PauseByRecompute, PreemptByRecompute, Discard
    <3> QED
      BY <1>1, <2>5, <3>1, DiscardedData
  <2>8. ASSUME NEW v \in Seqs, SwapVictimPart(v) \/ SwapVictim(v)
        PROVE  r \in scheduled' /\ tables'[r] = tables[r]
    <3>1. IsVictim(v) /\ SwapOutPart(v) /\ scheduled' = scheduled
      BY <2>8 DEF SwapVictimPart, SwapVictim
    <3>2. SwapOutBlocks(v, LastOf(OnGpu(v), OutCount(v)))
      BY <3>1 DEF SwapOutPart, SwapOutFromBack
    <3>3. \A t \in Seqs \ {v} : tables'[t] = tables[t]
      BY <1>1, <3>2 DEF DataInv, DataTypes, BlockTypes, SwapOutBlocks
    <3>4. v \notin scheduled
      BY <1>1, <3>1, VictimData
    <3> QED
      BY <1>2, <3>1, <3>3, <3>4
  <2> QED
    BY <1>6, <2>1, <2>3, <2>4, <2>6, <2>7, <2>8 DEF PassPhase
<1>7. CASE PostForward
  BY <1>7 DEF PostForward
<1>8. CASE OutputPhase
  BY <1>2, <1>8 DEF OutputPhase, CallApi, StopRequest, Continue, AppendToken, FinishStep
<1> QED
  BY <1>3, <1>4, <1>5, <1>6, <1>7, <1>8 DEF Next, Step

\* Between two calls of schedule() every unfinished request is once in the
\* queue that its status names, or paused.
THEOREM InferCeptOneQueue == Spec => []OneQueue
<1>1. InferCeptInv => OneQueue
  BY QueueMeaning DEF InferCeptInv
<1> QED
  BY <1>1, InferCeptSafe, PTL

\* Through every partial swap the table of an unfinished request holds the
\* computed tokens, split between the devices as swap_length and
\* swap_start_idx say.
THEOREM InferCeptTables == Spec => []TableMatchesData
BY TableMeaning, InferCeptSafe, PTL

\* passive_discard_by_order never meets a victim without blocks.
THEOREM InferCeptVictims == Spec => []VictimsHoldBlocks
<1>1. InferCeptInv => VictimsHoldBlocks
  BY VictimData DEF InferCeptInv, VictimsHoldBlocks
<1> QED
  BY <1>1, InferCeptSafe, PTL

\* What is scheduled stays scheduled, with its blocks, until it is executed.
THEOREM InferCeptScheduled == Spec => ScheduledKeepBlocks
<1> DEFINE Kept == \A r \in scheduled :
                      pc # "execute" => r \in scheduled' /\ tables'[r] = tables[r]
<1>1. InferCeptInv /\ [Next]_vars => [Kept]_vars
  BY ScheduledStep
<1> QED
  BY <1>1, InferCeptSafe, PTL DEF Spec, ScheduledKeepBlocks

=============================================================================
