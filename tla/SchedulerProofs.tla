-------------------------- MODULE SchedulerProofs ---------------------------
(***************************************************************************)
(* Proofs about Scheduler, for every set of requests, every number of      *)
(* blocks on the two devices and every limit: the one queue of a request,  *)
(* the block table that matches its data, the cache that serves it, and    *)
(* what it means that a step has nothing to run.                           *)
(***************************************************************************)
EXTENDS Scheduler, DataLemmas

-----------------------------------------------------------------------------
(* The queues.  A pass empties self.running, and hands its requests over   *)
(* to the batch, to delayed_running and to the waiting: the invariant says *)
(* where each one is while it lasts.                                       *)

Statuses == {"none", "WAITING", "RUNNING", "SWAPPED", "PAUSED_API"} \cup Finished

QueueTypes ==
    /\ waiting \in Seq(Seqs) /\ running \in Seq(Seqs) /\ swapped \in Seq(Seqs)
    /\ delayed \in Seq(Seqs) /\ batch \in Seq(Seqs)
    /\ mode \in [Seqs -> {"none", "PRESERVE", "SWAP", "RECOMPUTE"}]
    /\ status \in [Seqs -> Statuses]
    /\ cur \in Seqs \cup {0}
    /\ pc \in {"idle", "prompts", "running", "swapped", "execute", "process"}

\* No list names a request twice.
NoRepetition ==
    Once(waiting) /\ Once(running) /\ Once(swapped) /\ Once(delayed) /\ Once(batch)

\* The status says in which list a request is.
StatusInv == \A r \in Seqs :
    /\ r \in ToSet(waiting) <=> status[r] = "WAITING"
    /\ r \in ToSet(swapped) <=> status[r] = "SWAPPED"
    /\ mode[r] # "none" <=> status[r] = "PAUSED_API"
    /\ r \in ToSet(delayed) \cup ToSet(batch) \cup {cur} => status[r] = "RUNNING"
    /\ status[r] = "RUNNING"
         => r \in ToSet(running) \cup ToSet(delayed) \cup ToSet(batch) \cup {cur}
    /\ r \in ToSet(running)
         => \/ status[r] = "RUNNING"
            \/ pc = "process" /\ status[r] \in {"PAUSED_API"} \cup Finished

\* A running request is delayed, taken, scheduled or none of it; those that
\* are scheduled are in self.running again when the pass is over.
PhaseInv ==
    /\ ToSet(running) \cap ToSet(delayed) = {}
    /\ cur # 0 => pc = "running"
    /\ pc = "idle" => batch = <<>>
    /\ IF pc = "running"
       THEN /\ ToSet(batch) \cap (ToSet(running) \cup ToSet(delayed)) = {}
            /\ cur \notin ToSet(batch) \cup ToSet(running) \cup ToSet(delayed)
       ELSE ToSet(batch) \subseteq ToSet(running)

QueueInv == QueueTypes /\ NoRepetition /\ StatusInv /\ PhaseInv

\* No request is numbered 0, which stands for none.
LEMMA SeqsFacts == Seqs \subseteq Nat /\ 0 \notin Seqs
BY ConfigAssumption

\* No request has arrived.
LEMMA QueueInit == Init => QueueInv
<1> SUFFICES ASSUME Init PROVE QueueInv
  OBVIOUS
<1>1. <<>> \in Seq(Seqs) /\ ToSet(<<>>) = {} /\ Once(<<>>)
  BY DEF ToSet, Once
<1> QED
  BY <1>1, SeqsFacts DEF Init, QueueInv, QueueTypes, NoRepetition, StatusInv, PhaseInv,
                         Statuses, Finished

\* A request arrives.
LEMMA QueueAdd ==
    ASSUME QueueInv, NEW r \in Seqs, AddRequest(r)
    PROVE  QueueInv'
<1>1. /\ pc = "idle" /\ pc' = "idle" /\ status[r] = "none"
      /\ status' = [status EXCEPT ![r] = "WAITING"]
      /\ waiting' = Append(waiting, r)
      /\ UNCHANGED <<running, swapped, delayed, batch, mode, cur>>
  BY DEF AddRequest, step
<1>2. r \notin ToSet(waiting)
  BY <1>1 DEF QueueInv, StatusInv
<1>3. /\ waiting' \in Seq(Seqs) /\ Once(waiting')
      /\ ToSet(waiting') = ToSet(waiting) \cup {r}
  BY <1>1, <1>2, OnceAppend DEF QueueInv, QueueTypes, NoRepetition
<1>4. StatusInv'
  BY <1>1, <1>3 DEF QueueInv, QueueTypes, StatusInv
<1> QED
  BY <1>1, <1>3, <1>4 DEF QueueInv, QueueTypes, NoRepetition, PhaseInv, Statuses

\* A request of any queue leaves.
LEMMA QueueAbort ==
    ASSUME QueueInv, NEW r \in Seqs, AbortRequest(r)
    PROVE  QueueInv'
<1>1. /\ pc = "idle" /\ pc' = "idle"
      /\ r \in ToSet(waiting \o running \o swapped)
      /\ status' = [status EXCEPT ![r] = "FINISHED_ABORTED"]
      /\ waiting' = Without(waiting, r)
      /\ running' = Without(running, r)
      /\ swapped' = Without(swapped, r)
      /\ UNCHANGED <<delayed, batch, mode, cur>>
  BY DEF AbortRequest, step
<1>2. /\ waiting' \in Seq(Seqs) /\ Once(waiting') /\ ToSet(waiting') = ToSet(waiting) \ {r}
      /\ running' \in Seq(Seqs) /\ Once(running') /\ ToSet(running') = ToSet(running) \ {r}
      /\ swapped' \in Seq(Seqs) /\ Once(swapped') /\ ToSet(swapped') = ToSet(swapped) \ {r}
  BY <1>1, WithoutFacts DEF QueueInv, QueueTypes, NoRepetition
<1>3. r \in ToSet(waiting) \cup ToSet(running) \cup ToSet(swapped)
  <2>1. /\ waiting \o running \in Seq(Seqs)
        /\ ToSet(waiting \o running) = ToSet(waiting) \cup ToSet(running)
    BY OnceConcat DEF QueueInv, QueueTypes
  <2>2. \A a, b \in Seq(Seqs) : ToSet(a \o b) = ToSet(a) \cup ToSet(b)
    BY OnceConcat
  <2>3. ToSet((waiting \o running) \o swapped)
          = ToSet(waiting \o running) \cup ToSet(swapped)
    BY <2>1, <2>2 DEF QueueInv, QueueTypes
  <2> QED
    BY <1>1, <2>1, <2>3
<1>4. r \notin ToSet(delayed) /\ mode[r] = "none" /\ r # cur
  BY <1>1, <1>3, SeqsFacts DEF QueueInv, StatusInv, PhaseInv
<1>5. ToSet(batch) = {}
  BY <1>1 DEF QueueInv, PhaseInv, ToSet
<1>6. StatusInv'
  BY <1>1, <1>2, <1>4, <1>5 DEF QueueInv, QueueTypes, StatusInv
<1> QED
  BY <1>1, <1>2, <1>4, <1>5, <1>6 DEF QueueInv, QueueTypes, NoRepetition, PhaseInv,
                                      Statuses, Finished

\* A paused request returns to the queue of its mode.
LEMMA QueueResume ==
    ASSUME QueueInv, NEW r \in Seqs, NEW n, NEW single, ResumeRequest(r, n, single)
    PROVE  QueueInv'
<1>1. /\ pc \in {"idle", "execute"} /\ pc' = pc /\ mode[r] # "none"
      /\ mode' = [mode EXCEPT ![r] = "none"]
      /\ UNCHANGED <<delayed, batch, cur>>
  BY DEF ResumeRequest, step
<1>2. status[r] = "PAUSED_API"
  BY <1>1 DEF QueueInv, StatusInv
<1>3. /\ r \notin ToSet(waiting) \cup ToSet(running) \cup ToSet(swapped)
      /\ r \notin ToSet(delayed) \cup ToSet(batch)
  BY <1>1, <1>2 DEF QueueInv, StatusInv
<1>4. CASE /\ running' = Append(running, r) /\ UNCHANGED <<waiting, swapped>>
           /\ status' = [status EXCEPT ![r] = "RUNNING"]
  <2>1. /\ running' \in Seq(Seqs) /\ Once(running')
        /\ ToSet(running') = ToSet(running) \cup {r}
    BY <1>3, <1>4, OnceAppend DEF QueueInv, QueueTypes, NoRepetition
  <2>2. StatusInv'
    BY <1>1, <1>2, <1>3, <1>4, <2>1 DEF QueueInv, QueueTypes, StatusInv
  <2> QED
    BY <1>1, <1>3, <1>4, <2>1, <2>2
       DEF QueueInv, QueueTypes, NoRepetition, PhaseInv, Statuses
<1>5. CASE /\ swapped' = Append(swapped, r) /\ UNCHANGED <<waiting, running>>
           /\ status' = [status EXCEPT ![r] = "SWAPPED"]
  <2>1. /\ swapped' \in Seq(Seqs) /\ Once(swapped')
        /\ ToSet(swapped') = ToSet(swapped) \cup {r}
    BY <1>3, <1>5, OnceAppend DEF QueueInv, QueueTypes, NoRepetition
  <2>2. StatusInv'
    BY <1>1, <1>2, <1>3, <1>5, <2>1 DEF QueueInv, QueueTypes, StatusInv
  <2> QED
    BY <1>1, <1>3, <1>5, <2>1, <2>2
       DEF QueueInv, QueueTypes, NoRepetition, PhaseInv, Statuses
<1>6. CASE /\ waiting' = Append(waiting, r) /\ UNCHANGED <<running, swapped>>
           /\ status' = [status EXCEPT ![r] = "WAITING"]
  <2>1. /\ waiting' \in Seq(Seqs) /\ Once(waiting')
        /\ ToSet(waiting') = ToSet(waiting) \cup {r}
    BY <1>3, <1>6, OnceAppend DEF QueueInv, QueueTypes, NoRepetition
  <2>2. StatusInv'
    BY <1>1, <1>2, <1>3, <1>6, <2>1 DEF QueueInv, QueueTypes, StatusInv
  <2> QED
    BY <1>1, <1>3, <1>6, <2>1, <2>2
       DEF QueueInv, QueueTypes, NoRepetition, PhaseInv, Statuses
<1> QED
  BY <1>4, <1>5, <1>6 DEF ResumeRequest

\* The places of the lists are finite sets of requests.
LEMMA ListFacts ==
    ASSUME NEW q \in Seq(Seqs)
    PROVE  /\ ToSet(q) \in SUBSET Seqs /\ IsFiniteSet(ToSet(q))
           /\ ToSet(q) = {} <=> q = <<>>
           /\ ByArrival(q) \in Seq(Seqs) /\ Once(ByArrival(q))
           /\ ToSet(ByArrival(q)) = ToSet(q)
<1>1. ToSet(q) \in SUBSET Seqs /\ IsFiniteSet(ToSet(q))
  <2>1. Len(q) \in Nat /\ DOMAIN q = 1..Len(q) /\ \A i \in DOMAIN q : q[i] \in Seqs
    BY LenProperties, ElementOfSeq
  <2> QED
    BY <2>1, OnceLen DEF ToSet
<1>2. ToSet(q) = {} <=> q = <<>>
  <2>1. q # <<>> => Head(q) \in ToSet(q)
    BY OnceTail
  <2>2. ToSet(<<>>) = {}
    BY DEF ToSet
  <2> QED
    BY <2>1, <2>2
<1>3. ToSet(q) \in SUBSET Int
  <2>1. Nat \subseteq Int
    OBVIOUS
  <2> QED
    BY <2>1, <1>1, SeqsFacts
<1>4. /\ ByArrival(q) \in Seq(ToSet(q)) /\ Once(ByArrival(q))
      /\ ToSet(ByArrival(q)) = ToSet(q)
  BY <1>1, <1>3, AscendingFacts DEF ByArrival
<1>5. ByArrival(q) \in Seq(Seqs)
  BY <1>1, <1>4, SeqMonotonic
<1> QED
  BY <1>1, <1>2, <1>4, <1>5

\* schedule() puts the delayed requests back.
LEMMA QueueStart ==
    ASSUME QueueInv, StartSchedule
    PROVE  QueueInv'
<1>1. /\ pc = "idle" /\ pc' \in {"prompts", "running"} /\ delayed' = <<>>
      /\ \/ running' = running \o delayed
         \/ running' = ByArrival(running \o delayed)
      /\ UNCHANGED <<waiting, swapped, batch, mode, status, cur>>
  BY DEF StartSchedule
<1>2. batch = <<>> /\ cur = 0 /\ ToSet(batch) = {} /\ ToSet(delayed') = {}
      /\ delayed' \in Seq(Seqs) /\ Once(delayed')
  BY <1>1 DEF QueueInv, PhaseInv, ToSet, Once
<1>3. LET all == running \o delayed
      IN  /\ all \in Seq(Seqs) /\ Once(all)
          /\ ToSet(all) = ToSet(running) \cup ToSet(delayed)
  BY OnceConcat DEF QueueInv, QueueTypes, NoRepetition, PhaseInv
<1>4. /\ running' \in Seq(Seqs) /\ Once(running')
      /\ ToSet(running') = ToSet(running) \cup ToSet(delayed)
  BY <1>1, <1>3, ListFacts
<1>5. StatusInv'
  BY <1>1, <1>2, <1>4 DEF QueueInv, StatusInv
<1>6. cur \notin ToSet(running')
  BY <1>2, <1>4, SeqsFacts, ListFacts
<1> QED
  BY <1>1, <1>2, <1>4, <1>5, <1>6 DEF QueueInv, QueueTypes, NoRepetition, PhaseInv

\* The prompts: the first of the waiting is ignored or admitted.
LEMMA QueuePrompts ==
    ASSUME QueueInv, NEW r \in Seqs, IgnorePrompt(r) \/ AdmitPrompt(r)
    PROVE  QueueInv'
<1>1. /\ pc = "prompts" /\ pc' = pc /\ waiting # <<>> /\ r = Head(waiting)
      /\ waiting' = Tail(waiting)
      /\ UNCHANGED <<swapped, delayed, mode, cur>>
  BY DEF IgnorePrompt, AdmitPrompt, NextPrompt, Admit
<1>2. /\ waiting' \in Seq(Seqs) /\ Once(waiting')
      /\ ToSet(waiting) = ToSet(waiting') \cup {r} /\ r \notin ToSet(waiting')
  BY <1>1, OnceTail DEF QueueInv, QueueTypes, NoRepetition
<1>3. /\ status[r] = "WAITING" /\ cur # r
      /\ r \notin ToSet(running) \cup ToSet(delayed) \cup ToSet(batch)
  BY <1>1, <1>2 DEF QueueInv, StatusInv
<1>4. CASE IgnorePrompt(r)
  <2>1. /\ status' = [status EXCEPT ![r] = "FINISHED_IGNORED"]
        /\ UNCHANGED <<running, batch>>
    BY <1>4 DEF IgnorePrompt
  <2>2. StatusInv'
    BY <1>1, <1>2, <1>3, <2>1 DEF QueueInv, QueueTypes, StatusInv
  <2> QED
    BY <1>1, <1>2, <2>1, <2>2
       DEF QueueInv, QueueTypes, NoRepetition, PhaseInv, Statuses, Finished
<1>5. CASE AdmitPrompt(r)
  <2>1. /\ status' = [status EXCEPT ![r] = "RUNNING"]
        /\ running' = Append(running, r) /\ batch' = Append(batch, r)
    BY <1>5 DEF AdmitPrompt, Admit
  <2>2. /\ running' \in Seq(Seqs) /\ Once(running')
        /\ ToSet(running') = ToSet(running) \cup {r}
        /\ batch' \in Seq(Seqs) /\ Once(batch')
        /\ ToSet(batch') = ToSet(batch) \cup {r}
    BY <1>3, <2>1, OnceAppend DEF QueueInv, QueueTypes, NoRepetition
  <2>3. StatusInv'
    BY <1>1, <1>2, <1>3, <2>1, <2>2 DEF QueueInv, QueueTypes, StatusInv
  <2> QED
    BY <1>1, <1>2, <1>3, <2>1, <2>2, <2>3
       DEF QueueInv, QueueTypes, NoRepetition, PhaseInv, Statuses
<1> QED
  BY <1>4, <1>5

\* The ends of the passes, and the forward pass
LEMMA QueuePasses ==
    ASSUME QueueInv, FinishPrompts \/ FinishSwapped \/ PostForward
    PROVE  QueueInv'
<1>1. /\ pc \in {"prompts", "swapped", "execute"}
      /\ pc' \in {"idle", "running", "execute", "process"}
      /\ pc' \in {"idle", "running"} => batch = <<>>
      /\ running' = running \/ running' = ByArrival(running)
      /\ UNCHANGED <<waiting, swapped, delayed, batch, mode, status, cur>>
  BY DEF FinishPrompts, FinishSwapped, PostForward, FinishSchedule, queues, step
<1>2. /\ running' \in Seq(Seqs) /\ Once(running') /\ ToSet(running') = ToSet(running)
  BY <1>1, ListFacts DEF QueueInv, QueueTypes, NoRepetition
<1>3. cur = 0 /\ cur \notin ToSet(running) \cup ToSet(delayed)
  BY <1>1, ListFacts, SeqsFacts DEF QueueInv, QueueTypes, PhaseInv
<1>4. batch = <<>> => ToSet(batch) = {}
  BY DEF ToSet
<1>5. StatusInv'
  BY <1>1, <1>2 DEF QueueInv, StatusInv
<1> QED
  BY <1>1, <1>2, <1>3, <1>4, <1>5 DEF QueueInv, QueueTypes, NoRepetition, PhaseInv

\* The first of the running is delayed or taken.
LEMMA QueueTake ==
    ASSUME QueueInv, NEW r \in Seqs, Delay(r) \/ TakeRunning(r)
    PROVE  QueueInv'
<1>1. /\ pc = "running" /\ pc' = pc /\ cur = 0 /\ running # <<>> /\ r = Head(running)
      /\ running' = Tail(running)
      /\ \/ delayed' = Append(delayed, r) /\ cur' = cur
         \/ delayed' = delayed /\ cur' = r
      /\ UNCHANGED <<waiting, swapped, batch, mode, status>>
  BY DEF Delay, TakeRunning, NextRunning, step
<1>2. /\ running' \in Seq(Seqs) /\ Once(running')
      /\ ToSet(running) = ToSet(running') \cup {r} /\ r \notin ToSet(running')
  BY <1>1, OnceTail DEF QueueInv, QueueTypes, NoRepetition
<1>3. /\ status[r] = "RUNNING" /\ r \notin ToSet(delayed) \cup ToSet(batch)
  BY <1>1, <1>2 DEF QueueInv, StatusInv, PhaseInv
<1>4. CASE delayed' = Append(delayed, r) /\ cur' = cur
  <2>1. /\ delayed' \in Seq(Seqs) /\ Once(delayed')
        /\ ToSet(delayed') = ToSet(delayed) \cup {r}
    BY <1>3, <1>4, OnceAppend DEF QueueInv, QueueTypes, NoRepetition
  <2>2. StatusInv'
    BY <1>1, <1>2, <1>3, <1>4, <2>1 DEF QueueInv, StatusInv
  <2>3. cur # r
    BY <1>1, SeqsFacts
  <2> QED
    BY <1>1, <1>2, <1>3, <1>4, <2>1, <2>2, <2>3
       DEF QueueInv, QueueTypes, NoRepetition, PhaseInv
<1>5. CASE delayed' = delayed /\ cur' = r
  <2>1. StatusInv'
    BY <1>1, <1>2, <1>3, <1>5, SeqsFacts DEF QueueInv, StatusInv
  <2> QED
    BY <1>1, <1>2, <1>3, <1>5, <2>1 DEF QueueInv, QueueTypes, NoRepetition, PhaseInv
<1> QED
  BY <1>1, <1>4, <1>5

\* The one that was taken is scheduled.
LEMMA QueueSchedule ==
    ASSUME QueueInv, ScheduleCur
    PROVE  QueueInv'
<1>1. /\ cur # 0 /\ cur' = 0 /\ batch' = Append(batch, cur)
      /\ status' = [status EXCEPT ![cur] = "RUNNING"]
      /\ UNCHANGED <<waiting, running, swapped, delayed, mode, pc>>
  BY DEF ScheduleCur, Admit
<1>2. cur \in Seqs /\ pc = "running" /\ status[cur] = "RUNNING"
  BY <1>1 DEF QueueInv, QueueTypes, StatusInv, PhaseInv
<1>3. status' = status
  BY <1>1, <1>2 DEF QueueInv, QueueTypes
<1>4. /\ batch' \in Seq(Seqs) /\ Once(batch') /\ ToSet(batch') = ToSet(batch) \cup {cur}
  BY <1>1, <1>2, OnceAppend DEF QueueInv, QueueTypes, NoRepetition, PhaseInv
<1>5. cur' \notin ToSet(batch') \cup ToSet(running) \cup ToSet(delayed)
  BY <1>1, <1>4, ListFacts, SeqsFacts DEF QueueInv, QueueTypes
<1>6. StatusInv'
  BY <1>1, <1>3, <1>4, SeqsFacts DEF QueueInv, StatusInv
<1> QED
  BY <1>1, <1>2, <1>3, <1>4, <1>5, <1>6
     DEF QueueInv, QueueTypes, NoRepetition, PhaseInv

\* A victim goes to the front of the waiting.
LEMMA QueuePreempt ==
    ASSUME QueueInv, PreemptDelayed \/ PreemptRunning \/ PreemptCur
    PROVE  QueueInv'
<1>1. PICK r \in Seqs :
         /\ Preempt(r)
         /\ \/ /\ delayed # <<>> /\ r = Last(delayed) /\ delayed' = Front(delayed)
               /\ UNCHANGED <<running, cur>>
            \/ /\ running # <<>> /\ r = Last(running) /\ running' = Front(running)
               /\ UNCHANGED <<delayed, cur>>
            \/ r = cur /\ cur' = 0 /\ UNCHANGED <<running, delayed>>
  <2>1. delayed # <<>> => Last(delayed) \in Seqs
    BY OnceFront DEF QueueInv, QueueTypes
  <2>2. running # <<>> => Last(running) \in Seqs
    BY OnceFront DEF QueueInv, QueueTypes
  <2>3. MustPreempt => cur \in Seqs
    BY DEF MustPreempt, QueueInv, QueueTypes
  <2> QED
    BY <2>1, <2>2, <2>3 DEF PreemptDelayed, PreemptRunning, PreemptCur
<1>2. /\ status' = [status EXCEPT ![r] = "WAITING"] /\ waiting' = <<r>> \o waiting
      /\ UNCHANGED <<swapped, mode, batch, pc>>
  BY <1>1 DEF Preempt
<1>3. cur # 0 /\ pc = "running" /\ cur \in Seqs
  BY DEF PreemptDelayed, PreemptRunning, PreemptCur, MustPreempt, QueueInv, PhaseInv,
         QueueTypes
<1>4. /\ running' \in Seq(Seqs) /\ Once(running') /\ delayed' \in Seq(Seqs) /\ Once(delayed')
      /\ ToSet(running') = ToSet(running) \ {r} /\ ToSet(delayed') = ToSet(delayed) \ {r}
      /\ cur' = (IF r = cur THEN 0 ELSE cur)
      /\ r \in ToSet(running) \cup ToSet(delayed) \cup {cur}
  <2>1. CASE /\ delayed # <<>> /\ r = Last(delayed) /\ delayed' = Front(delayed)
             /\ UNCHANGED <<running, cur>>
    <3>1. /\ delayed' \in Seq(Seqs) /\ Once(delayed')
          /\ ToSet(delayed) = ToSet(delayed') \cup {r} /\ r \notin ToSet(delayed')
      BY <2>1, OnceFront DEF QueueInv, QueueTypes, NoRepetition
    <3> QED
      BY <1>3, <2>1, <3>1 DEF QueueInv, QueueTypes, NoRepetition, PhaseInv
  <2>2. CASE /\ running # <<>> /\ r = Last(running) /\ running' = Front(running)
             /\ UNCHANGED <<delayed, cur>>
    <3>1. /\ running' \in Seq(Seqs) /\ Once(running')
          /\ ToSet(running) = ToSet(running') \cup {r} /\ r \notin ToSet(running')
      BY <2>2, OnceFront DEF QueueInv, QueueTypes, NoRepetition
    <3> QED
      BY <1>3, <2>2, <3>1 DEF QueueInv, QueueTypes, NoRepetition, PhaseInv
  <2>3. CASE r = cur /\ cur' = 0 /\ UNCHANGED <<running, delayed>>
    BY <1>3, <2>3 DEF QueueInv, QueueTypes, NoRepetition, PhaseInv
  <2> QED
    BY <1>1, <2>1, <2>2, <2>3
<1>5. status[r] = "RUNNING" /\ r \notin ToSet(waiting) \cup ToSet(batch)
  BY <1>3, <1>4 DEF QueueInv, StatusInv, PhaseInv
<1>6. /\ waiting' \in Seq(Seqs) /\ Once(waiting') /\ ToSet(waiting') = ToSet(waiting) \cup {r}
  <2> DEFINE one == <<r>>
  <2>1. one \in Seq(Seqs) /\ ToSet(one) = {r} /\ Once(one)
    BY DEF ToSet, Once
  <2>2. waiting' = one \o waiting
    BY <1>2
  <2>3. waiting \in Seq(Seqs) /\ Once(waiting)
    BY DEF QueueInv, QueueTypes, NoRepetition
  <2> HIDE DEF one
  <2> QED
    BY <1>5, <2>1, <2>2, <2>3, OnceConcat
<1>7. 0 \notin ToSet(batch) \cup ToSet(running') \cup ToSet(delayed')
  BY <1>4, ListFacts, SeqsFacts DEF QueueInv, QueueTypes
<1>8. StatusInv'
  BY <1>2, <1>3, <1>4, <1>5, <1>6, SeqsFacts DEF QueueInv, QueueTypes, StatusInv
<1> QED
  BY <1>2, <1>3, <1>4, <1>5, <1>6, <1>7, <1>8
     DEF QueueInv, QueueTypes, NoRepetition, PhaseInv, Statuses

\* self.running becomes the batch.
LEMMA QueueFinishRunning ==
    ASSUME QueueInv, FinishRunning
    PROVE  QueueInv'
<1>1. /\ pc = "running" /\ cur = 0 /\ running = <<>> /\ running' = batch
      /\ swapped' = ByArrival(swapped)
      /\ pc' \in {"idle", "execute", "swapped"} /\ (pc' = "idle" => batch = <<>>)
      /\ UNCHANGED <<waiting, delayed, batch, mode, status, cur>>
  BY DEF FinishRunning, FinishSchedule, step
<1>2. /\ swapped' \in Seq(Seqs) /\ Once(swapped') /\ ToSet(swapped') = ToSet(swapped)
  BY <1>1, ListFacts DEF QueueInv, QueueTypes
<1>3. ToSet(running) = {}
  BY <1>1 DEF ToSet
<1>4. StatusInv'
  BY <1>1, <1>2, <1>3 DEF QueueInv, StatusInv
<1> QED
  BY <1>1, <1>2, <1>3, <1>4 DEF QueueInv, QueueTypes, NoRepetition, PhaseInv

\* The first of the swapped runs again.
LEMMA QueueAdmitSwapped ==
    ASSUME QueueInv, NEW r \in Seqs, AdmitSwapped(r)
    PROVE  QueueInv'
<1>1. /\ pc = "swapped" /\ pc' = pc /\ swapped # <<>> /\ r = Head(swapped)
      /\ swapped' = Tail(swapped)
      /\ status' = [status EXCEPT ![r] = "RUNNING"]
      /\ running' = Append(running, r) /\ batch' = Append(batch, r)
      /\ UNCHANGED <<waiting, delayed, mode, cur>>
  BY DEF AdmitSwapped, NextSwapped, Admit
<1>2. /\ swapped' \in Seq(Seqs) /\ Once(swapped')
      /\ ToSet(swapped) = ToSet(swapped') \cup {r} /\ r \notin ToSet(swapped')
  BY <1>1, OnceTail DEF QueueInv, QueueTypes, NoRepetition
<1>3. /\ status[r] = "SWAPPED" /\ cur # r
      /\ r \notin ToSet(running) \cup ToSet(delayed) \cup ToSet(batch)
  BY <1>1, <1>2 DEF QueueInv, StatusInv
<1>4. /\ running' \in Seq(Seqs) /\ Once(running')
      /\ ToSet(running') = ToSet(running) \cup {r}
      /\ batch' \in Seq(Seqs) /\ Once(batch')
      /\ ToSet(batch') = ToSet(batch) \cup {r}
  BY <1>1, <1>3, OnceAppend DEF QueueInv, QueueTypes, NoRepetition
<1>5. StatusInv'
  BY <1>1, <1>2, <1>3, <1>4 DEF QueueInv, QueueTypes, StatusInv
<1> QED
  BY <1>1, <1>2, <1>3, <1>4, <1>5
     DEF QueueInv, QueueTypes, NoRepetition, PhaseInv, Statuses

\* A result is handled: the request goes on, stops or calls an API.
LEMMA QueueOutput ==
    ASSUME QueueInv, NEW r \in Seqs,
           Continue(r) \/ StopRequest(r) \/ \E m \in PauseModes : CallApi(r, m)
    PROVE  QueueInv'
<1>1. /\ pc = "process" /\ pc' = pc /\ batch # <<>> /\ r = Head(batch)
      /\ batch' = Tail(batch)
      /\ UNCHANGED <<waiting, running, swapped, delayed, cur>>
  BY DEF Continue, StopRequest, CallApi, AppendToken
<1>2. /\ batch' \in Seq(Seqs) /\ Once(batch')
      /\ ToSet(batch) = ToSet(batch') \cup {r} /\ r \notin ToSet(batch')
  BY <1>1, OnceTail DEF QueueInv, QueueTypes, NoRepetition
<1>3. /\ status[r] = "RUNNING" /\ r \in ToSet(running) /\ r \notin ToSet(delayed)
      /\ cur # r
  BY <1>1, <1>2, SeqsFacts DEF QueueInv, StatusInv, PhaseInv
<1>4. \/ UNCHANGED <<status, mode>>
      \/ status' = [status EXCEPT ![r] = "FINISHED_STOPPED"] /\ mode' = mode
      \/ /\ status' = [status EXCEPT ![r] = "PAUSED_API"]
         /\ \E m \in {"PRESERVE", "SWAP", "RECOMPUTE"} : mode' = [mode EXCEPT ![r] = m]
  <2>1. ASSUME NEW m \in PauseModes, CallApi(r, m)
        PROVE  /\ status' = [status EXCEPT ![r] = "PAUSED_API"]
               /\ \E n \in {"PRESERVE", "SWAP", "RECOMPUTE"} :
                     mode' = [mode EXCEPT ![r] = n]
    BY <2>1, ConfigAssumption DEF CallApi
  <2> QED
    BY <2>1 DEF Continue, StopRequest
<1>5. /\ status' \in [Seqs -> Statuses]
      /\ mode' \in [Seqs -> {"none", "PRESERVE", "SWAP", "RECOMPUTE"}]
      /\ \A q \in Seqs \ {r} : status'[q] = status[q] /\ mode'[q] = mode[q]
      /\ \/ status'[r] \in {"RUNNING"} \cup Finished /\ mode'[r] = "none"
         \/ status'[r] = "PAUSED_API" /\ mode'[r] # "none"
  <2>1. /\ status \in [Seqs -> Statuses] /\ mode[r] = "none"
        /\ mode \in [Seqs -> {"none", "PRESERVE", "SWAP", "RECOMPUTE"}]
    BY <1>3 DEF QueueInv, QueueTypes, StatusInv
  <2>2. CASE UNCHANGED <<status, mode>>
    BY <1>3, <2>1, <2>2
  <2>3. CASE status' = [status EXCEPT ![r] = "FINISHED_STOPPED"] /\ mode' = mode
    BY <2>1, <2>3 DEF Statuses, Finished
  <2>4. ASSUME status' = [status EXCEPT ![r] = "PAUSED_API"],
               NEW m \in {"PRESERVE", "SWAP", "RECOMPUTE"}, mode' = [mode EXCEPT ![r] = m]
        PROVE  <1>5!1 /\ <1>5!2 /\ <1>5!3 /\ status'[r] = "PAUSED_API" /\ mode'[r] # "none"
    BY <2>1, <2>4 DEF Statuses
  <2> QED
    BY <1>4, <2>2, <2>3, <2>4
<1>6. StatusInv'
  BY <1>1, <1>2, <1>3, <1>5 DEF QueueInv, StatusInv, Finished
<1> QED
  BY <1>1, <1>2, <1>5, <1>6 DEF QueueInv, QueueTypes, NoRepetition, PhaseInv

\* Those that do not run any more leave self.running.
LEMMA QueueFinishStep ==
    ASSUME QueueInv, FinishStep
    PROVE  QueueInv'
<1> DEFINE keep == {r \in Seqs : status[r] \notin Finished \cup {"PAUSED_API"}}
<1>1. /\ pc = "process" /\ pc' = "idle" /\ batch = <<>>
      /\ running' = OnlyOf(running, keep)
      /\ UNCHANGED <<waiting, swapped, delayed, batch, mode, status, cur>>
  BY DEF FinishStep, step
<1>2. /\ running' \in Seq(Seqs) /\ Once(running')
      /\ ToSet(running') = ToSet(running) \cap keep
  BY <1>1, OnlyOfFacts DEF QueueInv, QueueTypes, NoRepetition
<1>3. ToSet(batch) = {}
  BY <1>1 DEF ToSet
<1>4. StatusInv'
  BY <1>1, <1>2, <1>3 DEF QueueInv, StatusInv, Finished
<1> QED
  BY <1>1, <1>2, <1>3, <1>4 DEF QueueInv, QueueTypes, NoRepetition, PhaseInv

\* Every step keeps the lists and the statuses together.
LEMMA QueueNext ==
    ASSUME QueueInv, [Next]_vars
    PROVE  QueueInv'
<1>1. CASE UNCHANGED vars
  BY <1>1 DEF vars, queues, step, QueueInv, QueueTypes, NoRepetition, StatusInv, PhaseInv
<1>2. CASE Client
  BY <1>2, QueueAdd, QueueAbort, QueueResume DEF Client
<1>3. CASE Schedule
  BY <1>3, QueueStart, QueuePrompts, QueueTake, QueueAdmitSwapped, QueueSchedule,
     QueuePreempt, QueuePasses, QueueFinishRunning DEF Schedule
<1>4. CASE Outputs
  BY <1>4, QueuePasses, QueueFinishStep, QueueOutput DEF Outputs
<1> QED
  BY <1>1, <1>2, <1>3, <1>4 DEF Next

\* The lists and the statuses agree between two calls of schedule().
LEMMA QueueMeaning == QueueInv => OneQueue
<1> SUFFICES ASSUME QueueInv, pc \in {"idle", "execute"}
             PROVE  LET all == waiting \o running \o swapped \o delayed
                    IN  /\ ToSet(waiting) = {r \in Seqs : status[r] = "WAITING"}
                        /\ ToSet(running \o delayed) = {r \in Seqs : status[r] = "RUNNING"}
                        /\ ToSet(swapped) = {r \in Seqs : status[r] = "SWAPPED"}
                        /\ {r \in Seqs : mode[r] # "none"}
                             = {r \in Seqs : status[r] = "PAUSED_API"}
                        /\ Len(all) = Cardinality(ToSet(all))
  BY DEF OneQueue
<1> DEFINE w == waiting \o running
           u == w \o swapped
           all == u \o delayed
<1>1. /\ ToSet(waiting) \in SUBSET Seqs /\ ToSet(running) \in SUBSET Seqs
      /\ ToSet(swapped) \in SUBSET Seqs /\ ToSet(delayed) \in SUBSET Seqs
  BY ListFacts DEF QueueInv, QueueTypes
<1>2. cur = 0 /\ ToSet(batch) \subseteq ToSet(running)
  BY DEF QueueInv, PhaseInv
<1>3. /\ ToSet(waiting) = {r \in Seqs : status[r] = "WAITING"}
      /\ ToSet(running) \cup ToSet(delayed) = {r \in Seqs : status[r] = "RUNNING"}
      /\ ToSet(swapped) = {r \in Seqs : status[r] = "SWAPPED"}
      /\ {r \in Seqs : mode[r] # "none"} = {r \in Seqs : status[r] = "PAUSED_API"}
  BY <1>1, <1>2, SeqsFacts DEF QueueInv, StatusInv
<1>4. ToSet(running \o delayed) = ToSet(running) \cup ToSet(delayed)
  BY OnceConcat DEF QueueInv, QueueTypes
<1>5. w \in Seq(Seqs) /\ Once(w) /\ ToSet(w) = ToSet(waiting) \cup ToSet(running)
  BY <1>3, OnceConcat DEF QueueInv, QueueTypes, NoRepetition
<1> HIDE DEF w
<1>6. u \in Seq(Seqs) /\ Once(u) /\ ToSet(u) = ToSet(w) \cup ToSet(swapped)
  <2>1. swapped \in Seq(Seqs) /\ Once(swapped) /\ ToSet(w) \cap ToSet(swapped) = {}
    BY <1>3, <1>5 DEF QueueInv, QueueTypes, NoRepetition
  <2> QED
    BY <1>5, <2>1, OnceConcat
<1> HIDE DEF u
<1>7. all \in Seq(Seqs) /\ Once(all)
  <2>1. delayed \in Seq(Seqs) /\ Once(delayed) /\ ToSet(u) \cap ToSet(delayed) = {}
    BY <1>3, <1>5, <1>6 DEF QueueInv, QueueTypes, NoRepetition, PhaseInv
  <2> QED
    BY <1>6, <2>1, OnceConcat
<1> HIDE DEF all
<1>8. Len(all) = Cardinality(ToSet(all))
  BY <1>7, OnceLen
<1> QED
  BY <1>3, <1>4, <1>8 DEF all, u, w

\* Between two calls of schedule() every unfinished request is in the one list
\* of its status or paused, whatever the passes moved, delayed and preempted
\* from the lists they consume: OneQueue, which VanillaServe checks.
THEOREM OneQueueKept == Spec => []OneQueue
<1>1. QueueInv /\ [Next]_vars => QueueInv'
  BY QueueNext
<1> QED
  BY <1>1, QueueInit, QueueMeaning, PTL DEF Spec

-----------------------------------------------------------------------------
(* The lengths.  What a batch forwards is all that its requests have not   *)
(* computed, and until a result is handled its request has computed all.   *)

Processed(r) == pc = "process" /\ r \in ToSet(batch)

DataTypes ==
    /\ len \in [Seqs -> Nat] /\ inflight \in [Seqs -> Nat]
    /\ swapLen \in [Seqs -> Nat] /\ forward \in [Seqs -> Nat]

LengthInv == \A r \in Seqs :
    /\ len[r] >= 1 /\ inflight[r] <= len[r]
    /\ ~Processed(r) => inflight[r] >= 1
    /\ Processed(r) => inflight[r] = 0 /\ swapLen[r] = 0
    /\ r \in ToSet(batch) /\ pc # "process" => forward[r] = inflight[r]
    /\ r \notin ToSet(batch) \/ pc = "process" => forward[r] = 0

DataInv == DataTypes /\ LengthInv

\* A prompt has at least one token, and nothing of it is computed.
LEMMA DataInit == Init => DataInv
<1> SUFFICES ASSUME Init PROVE DataInv
  OBVIOUS
<1>1. Prompt \in [Seqs -> Nat] /\ \A r \in Seqs : Prompt[r] >= 1
  BY ConfigAssumption
<1>2. ToSet(batch) = {} /\ pc = "idle"
  BY DEF Init, ToSet
<1> QED
  BY <1>1, <1>2 DEF Init, DataInv, DataTypes, LengthInv, Processed, NoForward

\* Steps that leave the data and the batch alone; the last result is handled
\* when the processing ends.
LEMMA DataKept ==
    ASSUME DataInv, UNCHANGED <<len, inflight, swapLen, forward, batch>>,
           (pc = "process" <=> pc' = "process") \/ batch = <<>>
    PROVE  DataInv'
<1>1. CASE batch = <<>>
  <2>1. ToSet(batch) = {} /\ ToSet(batch') = {}
    BY <1>1 DEF ToSet
  <2> QED
    BY <2>1 DEF DataInv, DataTypes, LengthInv, Processed
<1>2. CASE pc = "process" <=> pc' = "process"
  BY <1>2 DEF DataInv, DataTypes, LengthInv, Processed
<1> QED
  BY <1>1, <1>2

\* An admitted request forwards all it has not computed.
LEMMA DataAdmit ==
    ASSUME QueueInv, DataInv, NEW r \in Seqs, Admit(r), r \notin ToSet(batch),
           pc # "process"
    PROVE  DataInv'
<1>1. /\ batch' = Append(batch, r) /\ pc' = pc
      /\ forward' = [forward EXCEPT ![r] = inflight[r]]
      /\ UNCHANGED <<len, inflight, swapLen>>
  BY DEF Admit, texts, data
<1>2. ToSet(batch') = ToSet(batch) \cup {r}
  BY <1>1, OnceAppend DEF QueueInv, QueueTypes
<1> QED
  BY <1>1, <1>2 DEF DataInv, DataTypes, LengthInv, Processed

\* A victim computes everything again.
LEMMA DataPreempt ==
    ASSUME DataInv, NEW r \in Seqs, Preempt(r), r \notin ToSet(batch)
    PROVE  DataInv'
<1>1. /\ inflight' = [inflight EXCEPT ![r] = len[r]]
      /\ swapLen' = [swapLen EXCEPT ![r] = 0]
      /\ UNCHANGED <<len, forward, batch, pc>>
  BY DEF Preempt, Recompute, texts
<1> QED
  BY <1>1 DEF DataInv, DataTypes, LengthInv, Processed

\* Of what an API returns a number of tokens is taken that is not negative.
LEMMA ApiTokensType ==
    ASSUME DataInv, NEW r \in Seqs, NEW n \in ApiRets, NEW single \in BOOLEAN
    PROVE  ApiTokens(r, n, single) \in Nat
<1>1. ASSUME NEW a \in Int, NEW b \in Int
      PROVE  Min({a, b}) \in {a, b} /\ Max({a, b}) \in {a, b}
             /\ Max({a, b}) >= a
  <2>1. \E x \in {a, b} : \A y \in {a, b} : x =< y
    OBVIOUS
  <2>2. \E x \in {a, b} : \A y \in {a, b} : x >= y
    OBVIOUS
  <2> QED
    BY <2>1, <2>2 DEF Min, Max
<1>2. /\ n \in Int /\ len[r] \in Int /\ Prompt[r] \in Int /\ MaxModelLen \in Int
      /\ MaxTokens \in Int
  BY ConfigAssumption DEF DataInv, DataTypes
<1> DEFINE left == MaxTokens - (IF single THEN 1 ELSE 0) - (len[r] - Prompt[r])
           room == Min({MaxModelLen - len[r], left})
           k    == Min({n, room})
<1>3. left \in Int /\ MaxModelLen - len[r] \in Int
  BY <1>2
<1> HIDE DEF left
<1>4. room \in Int
  BY <1>1, <1>3
<1> HIDE DEF room
<1>5. k \in Int
  BY <1>1, <1>2, <1>4
<1> HIDE DEF k
<1>6. ApiTokens(r, n, single) = IF k >= 0 THEN k ELSE Max({0, n + k})
  BY DEF ApiTokens, k, room, left
<1>7. n + k \in Int
  BY <1>2, <1>5
<1>8. Max({0, n + k}) \in Int /\ Max({0, n + k}) >= 0
  BY <1>1, <1>7
<1> QED
  BY <1>5, <1>6, <1>8

\* What the API returned is added to the tokens that are not computed.
LEMMA DataResume ==
    ASSUME QueueInv, DataInv, NEW r \in Seqs, NEW n \in ApiRets, NEW single \in BOOLEAN,
           ResumeRequest(r, n, single)
    PROVE  DataInv'
<1> DEFINE k == ApiTokens(r, n, single)
<1>1. k \in Nat
  BY ApiTokensType
<1>2. /\ len' = [len EXCEPT ![r] = @ + k] /\ inflight' = [inflight EXCEPT ![r] = @ + k]
      /\ pc' = pc /\ pc # "process" /\ mode[r] # "none"
      /\ UNCHANGED <<swapLen, forward, batch>>
  BY DEF ResumeRequest, step
<1> HIDE DEF k
<1>3. r \notin ToSet(batch)
  BY <1>2 DEF QueueInv, StatusInv
<1> QED
  BY <1>1, <1>2, <1>3 DEF DataInv, DataTypes, LengthInv, Processed

\* The batch has computed all it had to.
LEMMA DataForward ==
    ASSUME DataInv, PostForward
    PROVE  DataInv'
<1>1. /\ pc = "execute" /\ pc' = "process"
      /\ inflight' = [r \in Seqs |-> inflight[r] - forward[r]]
      /\ swapLen' = [r \in Seqs |-> IF r \in ToSet(batch) THEN 0 ELSE swapLen[r]]
      /\ forward' = [r \in Seqs |-> 0]
      /\ UNCHANGED <<len, batch>>
  BY DEF PostForward, texts, NoForward
<1>2. \A r \in Seqs : inflight[r] - forward[r] \in Nat
  BY <1>1 DEF DataInv, DataTypes, LengthInv
<1>3. DataTypes'
  BY <1>1, <1>2 DEF DataInv, DataTypes
<1> QED
  BY <1>1, <1>3 DEF DataInv, DataTypes, LengthInv, Processed

\* The token of a handled result is not computed yet.
LEMMA DataOutput ==
    ASSUME QueueInv, DataInv, tables \in [Seqs -> Seq(Blocks)], NEW r \in Seqs,
           Continue(r) \/ StopRequest(r) \/ \E m \in PauseModes : CallApi(r, m)
    PROVE  DataInv'
<1>1. /\ pc = "process" /\ pc' = pc /\ batch # <<>> /\ r = Head(batch)
      /\ batch' = Tail(batch) /\ len' = [len EXCEPT ![r] = @ + 1]
      /\ forward' = forward
  BY DEF Continue, StopRequest, CallApi, AppendToken
<1>2. /\ ToSet(batch) = ToSet(batch') \cup {r} /\ r \notin ToSet(batch')
  BY <1>1, OnceTail DEF QueueInv, QueueTypes, NoRepetition
<1>3. /\ len[r] \in Nat /\ len'[r] = len[r] + 1 /\ inflight[r] = 0
  BY <1>1, <1>2 DEF DataInv, DataTypes, LengthInv, Processed
<1>4. /\ inflight' \in [Seqs -> Nat] /\ swapLen' \in [Seqs -> Nat]
      /\ inflight'[r] \in {1, len'[r]}
      /\ \A q \in Seqs \ {r} : inflight'[q] = inflight[q] /\ swapLen'[q] = swapLen[q]
  <2>1. Len(tables[r]) \in Nat
    OBVIOUS
  <2>2. \/ inflight' = [inflight EXCEPT ![r] = @ + 1]
        \/ inflight' = [inflight EXCEPT ![r] = len'[r]]
    BY DEF Continue, StopRequest, CallApi
  <2>3. \E n \in Nat : swapLen' = [swapLen EXCEPT ![r] = n]
    <3>1. swapLen' = swapLen => swapLen' = [swapLen EXCEPT ![r] = swapLen[r]]
      BY DEF DataInv, DataTypes
    <3>2. swapLen[r] \in Nat
      BY DEF DataInv, DataTypes
    <3> QED
      BY <2>1, <3>1, <3>2 DEF Continue, StopRequest, CallApi
  <2>4. \E n \in {1, len'[r]} : inflight' = [inflight EXCEPT ![r] = n]
    BY <1>3, <2>2
  <2>5. len'[r] \in Nat
    BY <1>3
  <2>6. inflight \in [Seqs -> Nat] /\ swapLen \in [Seqs -> Nat]
    BY DEF DataInv, DataTypes
  <2> QED
    BY <2>3, <2>4, <2>5, <2>6
<1>5. len'[r] \in Nat /\ len'[r] >= 1 /\ len' \in [Seqs -> Nat]
  BY <1>1, <1>3 DEF DataInv, DataTypes
<1>6. ASSUME NEW q \in Seqs
      PROVE  LengthInv!(q)'
  <2>1. LengthInv!(q)
    BY DEF DataInv, LengthInv
  <2>2. CASE q = r
    <3>1. swapLen'[r] \in Nat /\ ~Processed(r)' /\ forward'[r] = 0
      BY <1>1, <1>2, <1>4, <2>1, <2>2 DEF Processed
    <3> QED
      BY <1>1, <1>2, <1>4, <1>5, <2>2, <3>1
  <2>3. CASE q # r
    BY <1>1, <1>2, <1>4, <2>1, <2>3 DEF DataInv, DataTypes, Processed
  <2> QED
    BY <2>2, <2>3
<1> QED
  BY <1>1, <1>4, <1>5, <1>6 DEF DataInv, DataTypes, LengthInv

\* Who is admitted to the batch: a request that is not in it and fits
LEMMA Admitted ==
    ASSUME QueueInv,
           ScheduleCur \/ \E r \in Seqs : AdmitPrompt(r) \/ AdmitSwapped(r)
    PROVE  \E r \in Seqs : /\ Admit(r) /\ Fits(r) /\ r \notin ToSet(batch)
                           /\ pc # "process"
                           /\ status[r] \in {"WAITING", "RUNNING", "SWAPPED"}
<1>1. CASE ScheduleCur
  <2>1. /\ cur # 0 /\ cur \in Seqs /\ Admit(cur) /\ Fits(cur)
    BY <1>1 DEF ScheduleCur, QueueInv, QueueTypes
  <2>2. pc = "running" /\ cur \notin ToSet(batch) /\ status[cur] = "RUNNING"
    BY <2>1 DEF QueueInv, PhaseInv, StatusInv
  <2> QED
    BY <2>1, <2>2
<1>2. ASSUME NEW r \in Seqs, AdmitPrompt(r)
      PROVE  /\ Admit(r) /\ Fits(r) /\ r \notin ToSet(batch) /\ pc # "process"
             /\ status[r] = "WAITING"
  <2>1. Head(waiting) \in ToSet(waiting) /\ r = Head(waiting)
    BY <1>2, OnceTail DEF AdmitPrompt, NextPrompt, QueueInv, QueueTypes
  <2> QED
    BY <1>2, <2>1 DEF AdmitPrompt, NextPrompt, HasRoom, QueueInv, StatusInv
<1>3. ASSUME NEW r \in Seqs, AdmitSwapped(r)
      PROVE  /\ Admit(r) /\ Fits(r) /\ r \notin ToSet(batch) /\ pc # "process"
             /\ status[r] = "SWAPPED"
  <2>1. Head(swapped) \in ToSet(swapped) /\ r = Head(swapped)
    BY <1>3, OnceTail DEF AdmitSwapped, NextSwapped, QueueInv, QueueTypes
  <2> QED
    BY <1>3, <2>1 DEF AdmitSwapped, NextSwapped, HasRoomSwapped, QueueInv, StatusInv
<1> QED
  BY <1>1, <1>2, <1>3

\* Who is preempted: a running request that is not in the batch
LEMMA Preempted ==
    ASSUME QueueInv, PreemptDelayed \/ PreemptRunning \/ PreemptCur
    PROVE  \E r \in Seqs : /\ Preempt(r) /\ r \notin ToSet(batch)
                           /\ pc = "running" /\ status[r] = "RUNNING"
<1>1. ASSUME NEW w \in Seq(Seqs), w # <<>>
      PROVE  Last(w) \in ToSet(w) /\ Last(w) \in Seqs
  <2>1. ToSet(w) = ToSet(Front(w)) \cup {Last(w)} /\ Last(w) \in Seqs
    BY <1>1, OnceFront
  <2> QED
    BY <2>1
<1>2. cur # 0 /\ pc = "running" /\ cur \in Seqs
  BY DEF PreemptDelayed, PreemptRunning, PreemptCur, MustPreempt, QueueInv, PhaseInv,
         QueueTypes
<1>3. PICK r \in Seqs : /\ Preempt(r)
                        /\ r \in ToSet(running) \cup ToSet(delayed) \cup {cur}
  BY <1>1, <1>2 DEF PreemptDelayed, PreemptRunning, PreemptCur, QueueInv, QueueTypes
<1>4. status[r] = "RUNNING" /\ r \notin ToSet(batch)
  BY <1>2, <1>3 DEF QueueInv, StatusInv, PhaseInv
<1> QED
  BY <1>2, <1>3, <1>4

\* Steps that touch neither blocks nor data, nor the batch
Quiet ==
    /\ UNCHANGED <<tables, freeGpu, freeCpu, swapIn, swapOut, kv>>
    /\ UNCHANGED <<len, inflight, swapLen, forward, batch>>
    /\ \/ reads' = reads /\ (pc = "process" <=> pc' = "process")
       \/ FinishStep
    /\ \/ UNCHANGED status
       \/ \E r \in Seqs : /\ status[r] \in {"none", "WAITING"}
                          /\ status' = [status EXCEPT ![r] = "WAITING"]
                             \/ status' = [status EXCEPT ![r] = "FINISHED_IGNORED"]

\* The steps that are quiet
LEMMA QuietSteps ==
    ASSUME QueueInv,
           \/ UNCHANGED vars \/ StartSchedule \/ FinishPrompts \/ FinishRunning
           \/ FinishSwapped \/ FinishStep
           \/ \E r \in Seqs : AddRequest(r) \/ IgnorePrompt(r) \/ Delay(r) \/ TakeRunning(r)
    PROVE  Quiet
<1> USE DEF blockVars, workerVars, queues, texts, data, step, FinishSchedule
<1>1. CASE UNCHANGED vars
  BY <1>1 DEF vars, Quiet
<1>2. CASE StartSchedule \/ FinishPrompts \/ FinishRunning \/ FinishSwapped \/ FinishStep
  BY <1>2 DEF StartSchedule, FinishPrompts, FinishRunning, FinishSwapped, FinishStep, Quiet
<1>3. ASSUME NEW r \in Seqs, AddRequest(r) \/ Delay(r) \/ TakeRunning(r)
      PROVE  Quiet
  BY <1>3 DEF AddRequest, Delay, TakeRunning, NextRunning, Quiet
<1>4. ASSUME NEW r \in Seqs, IgnorePrompt(r)
      PROVE  Quiet
  <2>1. status[r] = "WAITING"
    BY <1>4, OnceTail DEF IgnorePrompt, NextPrompt, QueueInv, QueueTypes, StatusInv
  <2> QED
    BY <1>4, <2>1 DEF IgnorePrompt, NextPrompt, Quiet
<1> QED
  BY <1>1, <1>2, <1>3, <1>4

\* Every step keeps the lengths.
LEMMA DataNext ==
    ASSUME QueueInv, DataInv, tables \in [Seqs -> Seq(Blocks)], [Next]_vars
    PROVE  DataInv'
<1>1. CASE Quiet
  BY <1>1, DataKept DEF Quiet, FinishStep
<1>2. ASSUME NEW r \in Seqs, AbortRequest(r)
      PROVE  DataInv'
  BY <1>2, DataKept DEF AbortRequest, texts, data, step
<1>3. ASSUME NEW r \in Seqs, \E n \in ApiRets, single \in BOOLEAN : ResumeRequest(r, n, single)
      PROVE  DataInv'
  BY <1>3, DataResume
<1>4. CASE ScheduleCur \/ \E r \in Seqs : AdmitPrompt(r) \/ AdmitSwapped(r)
  BY <1>4, Admitted, DataAdmit
<1>5. CASE PreemptDelayed \/ PreemptRunning \/ PreemptCur
  BY <1>5, Preempted, DataPreempt
<1>6. CASE PostForward
  BY <1>6, DataForward
<1>7. ASSUME NEW r \in Seqs,
             Continue(r) \/ StopRequest(r) \/ \E m \in PauseModes : CallApi(r, m)
      PROVE  DataInv'
  BY <1>7, DataOutput
<1> QED
  BY <1>1, <1>2, <1>3, <1>4, <1>5, <1>6, <1>7, QuietSteps
     DEF Next, Client, Schedule, Outputs

-----------------------------------------------------------------------------
(* The blocks.  The scheduler makes the steps of KVCache: it preempts and  *)
(* allocates in the passes and pauses while the outputs are processed.     *)

Cache == INSTANCE KVCacheProofs
    WITH Lengths <- Nat, AfterStep <- {"evict"}, computed <- cached,
         scheduled <- IF pc = "process" THEN {} ELSE ToSet(batch),
         phase <- IF pc = "process" THEN "evict" ELSE "fill"

\* The blocks of an unfinished request are on one device, and swap_length
\* counts those on the CPU until they are in the batch.
DeviceInv == \A r \in Seqs : status[r] \notin Finished =>
    /\ Cardinality(OnCpu(r)) = IF r \in ToSet(batch) THEN 0 ELSE swapLen[r]
    /\ OnCpu(r) = {} \/ OnGpu(r) = {}

\* The assumptions of KVCache
LEMMA CacheBlocks == Cache!BlocksAssumption
BY BlocksAssumption DEF Cache!BlocksAssumption, IsFiniteSet, Cache!IsFiniteSet

\* (a request may have any length)
LEMMA CacheLengths == Cache!LengthAssumption
BY DEF Cache!LengthAssumption

\* (the outputs are processed in the phase of the pauses)
LEMMA CachePhases == Cache!PhaseAssumption
BY DEF Cache!PhaseAssumption

\* Only what was freed has no tokens in the cache.
LEMMA CachedValue ==
    ASSUME NEW r \in Seqs
    PROVE  cached[r] = IF status[r] \in {"FINISHED_STOPPED", "FINISHED_ABORTED"}
                       THEN 0 ELSE len[r] - inflight[r]
BY DEF cached, Computed

\* Only the empty sequence has no block.
LEMMA TokensHaveBlocks ==
    ASSUME NEW n \in Nat, Cache!Token2Block(n) = 0
    PROVE  n = 0
<1>1. ASSUME 0 < n
      PROVE  (0 \div BlockSize) + 1 \in 1..Cache!Token2Block(n)
  BY <1>1, CacheBlocks, Cache!PositionInTable
<1> QED
  BY <1>1

\* Both start with empty tables and before a pass.
LEMMA CacheInit == Init => Cache!Init
<1> SUFFICES ASSUME Init PROVE Cache!Init
  OBVIOUS
<1>1. cached = [r \in Seqs |-> 0]
  BY ConfigAssumption DEF Init, cached, Computed
<1>2. ToSet(batch) = {} /\ pc = "idle"
  BY DEF Init, ToSet
<1> QED
  BY <1>1, <1>2 DEF Init, InitBlocks, InitWorker, Unread, NoForward, Cache!Init,
     Cache!InitBlocks, Cache!InitWorker, Cache!Unread, Cache!NoBatch, Cache!Offsets,
     Offsets, Blocks, Cache!Blocks

\* A request that is not in the batch leaves the cache, or has no block.
LEMMA CacheDrops ==
    ASSUME QueueInv, DataInv, Cache!BlockInv, NEW r \in Seqs, Free(r),
           \/ pc # "process" /\ r \notin ToSet(batch)
           \/ pc = "process" /\ OnCpu(r) = {},
           UNCHANGED <<kv, reads, forward>>,
           cached' = [cached EXCEPT ![r] = 0],
           pc' = pc, pc # "process" => batch' = batch
    PROVE  [Cache!Next]_(Cache!vars)
<1>1. CASE tables[r] # <<>>
  <2>1. Cache!Discard(r)
    BY <1>1 DEF Free, OnGpu, OnCpu, Cache!Discard, Cache!Free, Cache!OnGpu, Cache!OnCpu,
       Cache!workerVars, Cache!batchVars
  <2> QED
    BY <2>1 DEF Cache!Next
<1>2. CASE tables[r] = <<>>
  <2>1. tables \in [Seqs -> Seq(Blocks)] /\ cached \in [Seqs -> Nat]
    BY DEF Cache!BlockInv, Cache!TypeOK, Cache!TypeOKBlocks, Cache!Blocks, Blocks
  <2>2. UNCHANGED <<tables, freeGpu, freeCpu, swapIn, swapOut>>
    BY <1>2, <2>1 DEF Free, OnGpu, OnCpu
  <2>3. cached[r] = 0
    <3>1. 0 = Cache!Token2Block(cached[r] + forward[r])
      BY <1>2 DEF Cache!BlockInv, Cache!SizeInv
    <3>2. cached[r] \in Nat /\ forward[r] \in Nat
      BY <2>1 DEF DataInv, DataTypes
    <3> QED
      BY <3>1, <3>2, TokensHaveBlocks
  <2>4. cached' = cached
    BY <2>1, <2>3
  <2> QED
    BY <2>2, <2>4 DEF Cache!vars, Cache!blockVars, Cache!workerVars, Cache!batchVars
<1> QED
  BY <1>1, <1>2

\* The operators of the two modules are the same.
LEMMA SameCardinality == \A S : Cache!Cardinality(S) = Cardinality(S)
BY DEF Cardinality, Cache!Cardinality

\* (allocate)
LEMMA SameAllocate ==
    ASSUME NEW r, NEW in, NEW new, Allocate(r, in, new)
    PROVE  Cache!Allocate(r, in, new)
<1> DEFINE old   == FirstOf(OnCpu(r), in)
           same  == Cache!FirstOf(Cache!OnCpu(r), in)
           size  == Len(tables[r]) + new
           fresh == (Len(tables[r]) + 1)..size
           Given(S, to) ==
              /\ to \in Handouts(S \cup fresh, freeGpu)
              /\ tables' = [tables EXCEPT ![r] =
                    [i \in 1..size |-> IF i \in DOMAIN to THEN to[i] ELSE @[i]]]
              /\ freeGpu' = freeGpu \ Chosen(to)
              /\ freeCpu' = freeCpu \cup {tables[r][i] : i \in S}
              /\ swapIn' = Update(swapIn, Mapping(r, S, to))
              /\ UNCHANGED swapOut
<1>1. old = same
  BY SameCardinality DEF FirstOf, Cache!FirstOf, OnCpu, Cache!OnCpu
<1>2. \E to : Given(old, to)
  BY DEF Allocate
<1>3. \E to : Given(same, to)
  <2> HIDE DEF old, same, Given
  <2> QED
    BY <1>1, <1>2
<1> QED
  BY <1>3 DEF Handouts, Chosen, Update, Mapping, Cache!Allocate, Cache!Handouts,
     Cache!Chosen, Cache!Update, Cache!Mapping

\* (swap_out)
LEMMA SameSwapOut ==
    ASSUME NEW r, SwapOut(r)
    PROVE  Cache!SwapOut(r)
BY DEF SwapOut, SwapOutBlocks, Handouts, Chosen, Update, Mapping, OnGpu, Cache!SwapOut,
   Cache!SwapOutBlocks, Cache!Handouts, Cache!Chosen, Cache!Update, Cache!Mapping, Cache!OnGpu

\* What is admitted to the batch gets its blocks back, and those of its tokens.
LEMMA CacheAdmit ==
    ASSUME QueueInv, DataInv, DeviceInv, Cache!BlockInv, NEW r \in Seqs,
           Admit(r), Fits(r), r \notin ToSet(batch), pc # "process",
           status[r] \in {"WAITING", "RUNNING", "SWAPPED"}
    PROVE  Cache!Next
<1>1. /\ Allocate(r, swapLen[r], NewBlocks(r))
      /\ status' = [status EXCEPT ![r] = "RUNNING"]
      /\ forward' = [forward EXCEPT ![r] = inflight[r]]
      /\ batch' = Append(batch, r) /\ pc' = pc
      /\ UNCHANGED <<kv, reads, len, inflight, swapLen>>
  BY DEF Admit, workerVars, texts, data
<1>2. inflight[r] \in Nat /\ inflight[r] > 0 /\ len[r] \in Nat
  BY DEF DataInv, DataTypes, LengthInv, Processed
<1>3. cached' = cached
  BY <1>1 DEF cached, Computed, QueueInv, QueueTypes
<1>4. cached[r] = len[r] - inflight[r]
  BY CachedValue
<1>5. cached[r] + inflight[r] = len[r]
  BY <1>2, <1>4
<1>6. swapLen[r] = Cache!Cardinality(Cache!OnCpu(r))
  BY SameCardinality DEF DeviceInv, Finished, OnCpu, Cache!OnCpu
<1>7. NewBlocks(r) = Cache!NewBlocks(r, inflight[r])
  BY <1>4, <1>5 DEF NewBlocks, Computed, Cache!NewBlocks, Token2Block, Cache!Token2Block
<1>8. Cache!Allocate(r, Cache!Cardinality(Cache!OnCpu(r)), Cache!NewBlocks(r, inflight[r]))
  BY <1>1, <1>6, <1>7, SameAllocate
<1>9. Cache!Cardinality(Cache!OnCpu(r)) + Cache!NewBlocks(r, inflight[r])
        <= Cache!Cardinality(freeGpu)
  BY <1>6, <1>7, SameCardinality DEF Fits, MemoryRequirement, FreeGpu
<1>10. ToSet(batch') = ToSet(batch) \cup {r}
  BY <1>1, OnceAppend DEF QueueInv, QueueTypes
<1>11. Cache!Schedule(r, inflight[r])
  BY <1>1, <1>2, <1>3, <1>5, <1>8, <1>9, <1>10 DEF Cache!Schedule, Cache!workerVars
<1> QED
  BY <1>2, <1>11 DEF Cache!Next

\* What is written and read depends on the lengths of those that forward only.
LEMMA SameExecute ==
    ASSUME NEW a \in [Seqs -> Int], NEW c \in [Seqs -> Int], NEW f \in [Seqs -> Nat],
           \A s \in Seqs : f[s] > 0 => a[s] = c[s],
           Execute(a, f)
    PROVE  Cache!Execute(c, f)
<1> DEFINE Tokens(start) == UNION {{s} \X (start[s]..(start[s] + f[s] - 1)) : s \in Seqs}
           At(T, b, o) == {t \in T : BlockOf(t[1], t[2]) = b /\ OffsetOf(t[2]) = o}
           With(k, T) == [b \in Blocks |-> [o \in Offsets |->
              IF At(T, b, o) # {} THEN CHOOSE t \in At(T, b, o) : TRUE ELSE k[b][o]]]
<1>1. Tokens(a) = Tokens(c)
  <2>1. \A s \in Seqs : a[s]..(a[s] + f[s] - 1) = c[s]..(c[s] + f[s] - 1)
    OBVIOUS
  <2> QED
    BY <2>1
<1>2. ASSUME NEW k
      PROVE  /\ Written(k, a, f) = With(k, Tokens(a))
             /\ Cache!Written(k, c, f) = With(k, Tokens(c))
  BY DEF Written, Cache!Written, BlockOf, OffsetOf, Offsets, Blocks, Cache!BlockOf,
     Cache!OffsetOf, Cache!Offsets, Cache!Blocks
<1> HIDE DEF Tokens, With
<1>3. ASSUME NEW k
      PROVE  Cache!Written(k, c, f) = Written(k, a, f)
  BY <1>1, <1>2
<1>4. ASSUME NEW k
      PROVE  [s \in Seqs |-> IF f[s] > 0 THEN Cache!Context(k, s, c[s] + f[s]) ELSE <<>>]
           = [s \in Seqs |-> IF f[s] > 0 THEN Context(k, s, a[s] + f[s]) ELSE <<>>]
  BY DEF Context, Cache!Context, BlockOf, OffsetOf, Cache!BlockOf, Cache!OffsetOf
<1>5. ASSUME NEW k, NEW dict
      PROVE  Cache!Copies(k, dict) = Copies(k, dict) /\ Cache!Forget(k) = Forget(k)
  BY DEF Copies, Cache!Copies, Blocks, Cache!Blocks, Forget, Cache!Forget, Held, Cache!Held,
     Offsets, Cache!Offsets
<1>6. PICK k1 \in Copies(kv, swapOut) : \E k2 \in Copies(k1, swapIn) :
        /\ kv' = Forget(Written(k2, a, f))
        /\ reads' = [s \in Seqs |-> IF f[s] > 0 THEN Context(Written(k2, a, f), s, a[s] + f[s])
                                                ELSE <<>>]
  BY DEF Execute
<1>7. PICK k2 \in Copies(k1, swapIn) :
        /\ kv' = Forget(Written(k2, a, f))
        /\ reads' = [s \in Seqs |-> IF f[s] > 0 THEN Context(Written(k2, a, f), s, a[s] + f[s])
                                                ELSE <<>>]
  BY <1>6
<1>8. /\ k1 \in Cache!Copies(kv, swapOut) /\ k2 \in Cache!Copies(k1, swapIn)
      /\ kv' = Cache!Forget(Cache!Written(k2, c, f))
      /\ reads' = [s \in Seqs |-> IF f[s] > 0
                      THEN Cache!Context(Cache!Written(k2, c, f), s, c[s] + f[s]) ELSE <<>>]
  BY <1>3, <1>4, <1>5, <1>6, <1>7
<1>9. swapIn' = {} /\ swapOut' = {} /\ UNCHANGED <<tables, freeGpu, freeCpu>>
  BY DEF Execute
<1> QED
  BY <1>8, <1>9 DEF Cache!Execute

\* The worker executes the step, of which the freed requests have no part.
LEMMA CacheForward ==
    ASSUME QueueInv, DataInv, PostForward
    PROVE  Cache!Next
<1>1. /\ pc = "execute" /\ pc' = "process" /\ forward' = [r \in Seqs |-> 0]
      /\ inflight' = [r \in Seqs |-> inflight[r] - forward[r]]
      /\ Execute([r \in Seqs |-> Computed(r)], forward)
      /\ UNCHANGED <<len, status>>
  BY DEF PostForward, NoForward, texts, queues
<1>2. \A r \in Seqs : status[r] \in {"FINISHED_STOPPED", "FINISHED_ABORTED"} => forward[r] = 0
  BY <1>1 DEF QueueInv, StatusInv, DataInv, LengthInv
<1>3. /\ \A r \in Seqs : len[r] \in Nat /\ inflight[r] \in Nat /\ forward[r] \in Nat
  BY DEF DataInv, DataTypes
<1>4. cached' = [r \in Seqs |-> cached[r] + forward[r]]
  <2>1. ASSUME NEW r \in Seqs
        PROVE  cached'[r] = cached[r] + forward[r]
    BY <1>1, <1>2, <1>3, <2>1 DEF cached, Computed
  <2> QED
    BY <2>1 DEF cached
<1>5. \A r \in Seqs : forward[r] > 0 => Computed(r) = cached[r]
  BY <1>2, <1>3 DEF cached
<1>6. Cache!Execute(cached, forward)
  <2>1. [r \in Seqs |-> Computed(r)] \in [Seqs -> Int] /\ cached \in [Seqs -> Int]
    BY <1>3 DEF cached, Computed
  <2>2. forward \in [Seqs -> Nat]
    BY DEF DataInv, DataTypes
  <2> QED
    BY <1>1, <1>5, <2>1, <2>2, SameExecute
<1> QED
  BY <1>1, <1>4, <1>6 DEF Cache!Finish, Cache!Next, Cache!NoBatch

\* The calls to the block manager when an API is called: the blocks are given
\* up, go to the CPU or stay.
LEMMA ApiCases ==
    ASSUME NEW r \in Seqs, NEW m \in PauseModes, CallApi(r, m)
    PROVE  \/ /\ Free(r)
              /\ inflight' = [inflight EXCEPT ![r] = len'[r]]
              /\ swapLen' = [swapLen EXCEPT ![r] = 0]
           \/ /\ CanSwapOut(r) /\ SwapOut(r)
              /\ inflight' = [inflight EXCEPT ![r] = @ + 1]
              /\ swapLen' = [swapLen EXCEPT ![r] = Len(tables[r])]
           \/ /\ UNCHANGED blockVars
              /\ inflight' = [inflight EXCEPT ![r] = @ + 1]
              /\ swapLen' = [swapLen EXCEPT ![r] = 0]
<1> DEFINE swaps == m = "SWAP" /\ CanSwapOut(r)
           now   == IF m = "SWAP" /\ ~swaps THEN "RECOMPUTE" ELSE m
<1>1. /\ inflight' = [inflight EXCEPT ![r] = IF now = "RECOMPUTE" THEN len'[r] ELSE @ + 1]
      /\ swapLen' = [swapLen EXCEPT ![r] = IF swaps THEN Len(tables[r]) ELSE 0]
      /\ \/ now = "RECOMPUTE" /\ Free(r)
         \/ now = "SWAP" /\ SwapOut(r)
         \/ now = "PRESERVE" /\ UNCHANGED blockVars
  BY DEF CallApi
<1>2. CASE now = "RECOMPUTE"
  <2>1. ~swaps
    BY <1>2
  <2> QED
    BY <1>1, <1>2, <2>1
<1>3. CASE now = "SWAP"
  <2>1. swaps
    BY <1>3
  <2> QED
    BY <1>1, <1>3, <2>1
<1>4. CASE now = "PRESERVE"
  <2>1. ~swaps
    BY <1>4
  <2> QED
    BY <1>1, <1>4, <2>1
<1> QED
  BY <1>1, <1>2, <1>3, <1>4

\* What is known of the request whose result is handled
LEMMA OutputFacts ==
    ASSUME QueueInv, DataInv, DeviceInv, Cache!BlockInv, NEW r \in Seqs,
           Continue(r) \/ StopRequest(r) \/ \E m \in PauseModes : CallApi(r, m)
    PROVE  /\ pc = "process" /\ pc' = pc /\ batch # <<>>
           /\ ToSet(batch) = ToSet(batch') \cup {r} /\ r \notin ToSet(batch')
           /\ len' = [len EXCEPT ![r] = @ + 1]
           /\ UNCHANGED <<kv, reads, forward>>
           /\ status[r] = "RUNNING" /\ inflight[r] = 0 /\ swapLen[r] = 0
           /\ len[r] \in Nat \ {0}
           /\ OnCpu(r) = {} /\ tables[r] # <<>>
<1>1. /\ pc = "process" /\ pc' = pc /\ batch # <<>> /\ r = Head(batch)
      /\ batch' = Tail(batch) /\ len' = [len EXCEPT ![r] = @ + 1]
      /\ UNCHANGED <<kv, reads, forward>>
  BY DEF Continue, StopRequest, CallApi, AppendToken, workerVars
<1>2. /\ ToSet(batch) = ToSet(batch') \cup {r} /\ r \notin ToSet(batch')
  BY <1>1, OnceTail DEF QueueInv, QueueTypes, NoRepetition
<1>3. status[r] = "RUNNING"
  BY <1>2 DEF QueueInv, StatusInv
<1>4. inflight[r] = 0 /\ swapLen[r] = 0 /\ len[r] \in Nat \ {0} /\ forward[r] = 0
  BY <1>1, <1>2 DEF DataInv, DataTypes, LengthInv, Processed
<1>5. /\ Cache!IsFiniteSet(Cache!OnCpu(r)) /\ Cache!Cardinality(Cache!OnCpu(r)) = 0
  <2>1. Cache!IsFiniteSet(Cache!OnCpu(r))
    BY CacheBlocks, Cache!OnDevicesFacts DEF Cache!BlockInv
  <2> QED
    BY <1>2, <1>3, <2>1, SameCardinality DEF DeviceInv, Finished, OnCpu, Cache!OnCpu
<1>6. OnCpu(r) = {}
  <2>1. IsFiniteSet(OnCpu(r)) /\ Cardinality(OnCpu(r)) = 0
    BY <1>5, SameCardinality DEF OnCpu, Cache!OnCpu, IsFiniteSet, Cache!IsFiniteSet
  <2> QED
    BY <2>1, FS_EmptySet
<1>7. tables[r] # <<>>
  <2>1. cached[r] = len[r]
    BY <1>3, <1>4, CachedValue
  <2>2. Len(tables[r]) = Cache!Token2Block(len[r])
    BY <1>4, <2>1 DEF Cache!BlockInv, Cache!SizeInv
  <2> QED
    BY <1>4, <2>2, TokensHaveBlocks
<1> QED
  BY <1>1, <1>2, <1>3, <1>4, <1>6, <1>7

\* Pauses and stops give blocks up or swap them out, before the next passes.
LEMMA CacheOutput ==
    ASSUME QueueInv, DataInv, DeviceInv, Cache!BlockInv, NEW r \in Seqs,
           Continue(r) \/ StopRequest(r) \/ \E m \in PauseModes : CallApi(r, m)
    PROVE  [Cache!Next]_(Cache!vars)
<1>1. /\ pc = "process" /\ pc' = pc
      /\ len' = [len EXCEPT ![r] = @ + 1]
      /\ UNCHANGED <<kv, reads, forward>>
      /\ status[r] = "RUNNING" /\ inflight[r] = 0
      /\ len[r] \in Nat \ {0}
      /\ OnCpu(r) = {} /\ tables[r] # <<>>
  BY OutputFacts
<1>2. /\ len \in [Seqs -> Nat] /\ inflight \in [Seqs -> Nat]
      /\ status \in [Seqs -> Statuses]
  BY DEF DataInv, DataTypes, QueueInv, QueueTypes
<1>3. CASE Free(r) /\ cached' = [cached EXCEPT ![r] = 0]
  BY <1>1, <1>3, CacheDrops
<1>4. CASE UNCHANGED blockVars /\ cached' = cached
  BY <1>1, <1>4 DEF Cache!vars, blockVars, Cache!blockVars, Cache!workerVars, Cache!batchVars
<1>5. CASE CanSwapOut(r) /\ SwapOut(r) /\ cached' = cached
  <2>1. OnGpu(r) # {}
    <3>1. OnGpu(r) \cup OnCpu(r) = DOMAIN tables[r] /\ DOMAIN tables[r] = 1..Len(tables[r])
      BY CacheBlocks, Cache!OnDevicesFacts
         DEF Cache!BlockInv, OnGpu, OnCpu, Cache!OnGpu, Cache!OnCpu
    <3>2. tables[r] \in Seq(Blocks)
      BY DEF Cache!BlockInv, Cache!TypeOK, Cache!TypeOKBlocks, Cache!Blocks, Blocks
    <3>3. Len(tables[r]) \in Nat /\ Len(tables[r]) # 0
      BY <1>1, <3>2, EmptySeq, LenProperties
    <3>4. 1 \in 1..Len(tables[r])
      BY <3>3
    <3> QED
      BY <1>1, <3>1, <3>4
  <2>2. Cache!SwapOut(r) /\ Cache!CanSwapOut(r)
    BY <1>5, SameSwapOut, SameCardinality DEF CanSwapOut, Cache!CanSwapOut, OnGpu, Cache!OnGpu
  <2>3. Cache!SwapOutPaused(r)
    BY <1>1, <1>5, <2>1, <2>2 DEF Cache!SwapOutPaused, Cache!workerVars, Cache!batchVars,
       OnGpu, OnCpu, Cache!OnGpu, Cache!OnCpu
  <2> QED
    BY <2>3 DEF Cache!Next
<1>6. CASE Continue(r)
  <2>1. UNCHANGED blockVars /\ UNCHANGED status /\ inflight' = [inflight EXCEPT ![r] = @ + 1]
    BY <1>6 DEF Continue
  <2>2. cached' = cached
    BY <1>1, <1>2, <2>1 DEF cached, Computed
  <2> QED
    BY <1>4, <2>1, <2>2
<1>7. CASE StopRequest(r)
  <2>1. /\ Free(r) /\ status' = [status EXCEPT ![r] = "FINISHED_STOPPED"]
        /\ inflight' = [inflight EXCEPT ![r] = @ + 1]
    BY <1>7 DEF StopRequest
  <2>2. cached' = [cached EXCEPT ![r] = 0]
    BY <1>1, <1>2, <2>1 DEF cached, Computed
  <2> QED
    BY <1>3, <2>1, <2>2
<1>8. ASSUME NEW m \in PauseModes, CallApi(r, m)
      PROVE  [Cache!Next]_(Cache!vars)
  <2>1. status' = [status EXCEPT ![r] = "PAUSED_API"]
    BY <1>8 DEF CallApi
  <2>2. inflight' = [inflight EXCEPT ![r] = @ + 1] => cached' = cached
    BY <1>1, <1>2, <2>1 DEF cached, Computed
  <2>3. ASSUME inflight' = [inflight EXCEPT ![r] = len'[r]]
        PROVE  cached' = [cached EXCEPT ![r] = 0]
    <3>1. len'[r] - inflight'[r] = 0
      BY <1>1, <1>2, <2>3
    <3>2. \A q \in Seqs \ {r} : /\ len'[q] = len[q] /\ inflight'[q] = inflight[q]
                                /\ status'[q] = status[q]
      BY <1>1, <1>2, <2>1, <2>3
    <3> QED
      BY <1>2, <2>1, <3>1, <3>2 DEF cached, Computed
  <2> QED
    BY <1>3, <1>4, <1>5, <1>8, <2>2, <2>3, ApiCases
<1> QED
  BY <1>6, <1>7, <1>8

\* The steps that touch no block; the end of the processing starts the passes.
LEMMA CacheQuiet ==
    ASSUME QueueInv, Quiet
    PROVE  [Cache!Next]_(Cache!vars)
<1>1. cached' = cached
  <2>1. ASSUME NEW r \in Seqs
        PROVE  cached'[r] = cached[r]
    BY <2>1 DEF Quiet, cached, Computed, QueueInv, QueueTypes
  <2> QED
    BY <2>1 DEF cached
<1>2. CASE FinishStep
  <2>1. ToSet(batch) = {}
    BY <1>2 DEF FinishStep, ToSet
  <2>2. Cache!StartPasses
    BY <1>1, <1>2, <2>1 DEF Quiet, FinishStep, Unread, Cache!StartPasses, Cache!blockVars,
       Cache!batchVars, Cache!Unread
  <2> QED
    BY <2>2 DEF Cache!Next
<1>3. CASE reads' = reads /\ (pc = "process" <=> pc' = "process")
  BY <1>1, <1>3 DEF Quiet, Cache!vars, Cache!blockVars, Cache!workerVars, Cache!batchVars
<1> QED
  BY <1>2, <1>3 DEF Quiet

\* Every step of the scheduler, the engine and the worker is one of the cache.
LEMMA CacheNext ==
    ASSUME QueueInv, DataInv, DeviceInv, Cache!BlockInv, [Next]_vars
    PROVE  [Cache!Next]_(Cache!vars)
<1>1. CASE Quiet
  BY <1>1, CacheQuiet
<1>2. ASSUME NEW r \in Seqs, AbortRequest(r)
      PROVE  [Cache!Next]_(Cache!vars)
  <2>1. /\ pc = "idle" /\ pc' = pc /\ Free(r)
        /\ status' = [status EXCEPT ![r] = "FINISHED_ABORTED"]
        /\ UNCHANGED <<kv, reads, forward, batch, len, inflight>>
    BY <1>2 DEF AbortRequest, workerVars, texts, data, step
  <2>2. r \notin ToSet(batch)
    BY <2>1 DEF QueueInv, PhaseInv, ToSet
  <2>3. cached' = [cached EXCEPT ![r] = 0]
    BY <2>1 DEF cached, Computed, QueueInv, QueueTypes
  <2> QED
    BY <2>1, <2>2, <2>3, CacheDrops
<1>3. ASSUME NEW r \in Seqs, NEW n \in ApiRets, NEW single \in BOOLEAN,
             ResumeRequest(r, n, single)
      PROVE  [Cache!Next]_(Cache!vars)
  <2> DEFINE k == ApiTokens(r, n, single)
  <2>1. k \in Nat
    BY ApiTokensType
  <2>2. /\ len' = [len EXCEPT ![r] = @ + k] /\ inflight' = [inflight EXCEPT ![r] = @ + k]
        /\ mode[r] # "none"
        /\ \E s \in {"RUNNING", "SWAPPED", "WAITING"} : status' = [status EXCEPT ![r] = s]
        /\ UNCHANGED <<blockVars, workerVars, forward, batch, pc>>
    BY <1>3 DEF ResumeRequest, step
  <2> HIDE DEF k
  <2>3. status[r] = "PAUSED_API"
    BY <2>2 DEF QueueInv, StatusInv
  <2>4. ASSUME NEW s \in Seqs
        PROVE  cached'[s] = cached[s]
    <3>1. /\ len \in [Seqs -> Nat] /\ inflight \in [Seqs -> Nat]
          /\ status \in [Seqs -> Statuses]
      BY DEF QueueInv, QueueTypes, DataInv, DataTypes
    <3>2. CASE s = r
      <4>1. /\ len'[r] - inflight'[r] = len[r] - inflight[r]
            /\ status'[r] \in {"RUNNING", "SWAPPED", "WAITING"}
        BY <2>1, <2>2, <3>1
      <4> QED
        BY <2>3, <3>2, <4>1 DEF cached, Computed
    <3>3. CASE s # r
      BY <2>2, <3>1, <3>3 DEF cached, Computed
    <3> QED
      BY <3>2, <3>3
  <2>5. cached' = cached
    BY <2>4 DEF cached
  <2> QED
    BY <2>2, <2>5 DEF blockVars, workerVars, Cache!vars, Cache!blockVars,
       Cache!workerVars, Cache!batchVars
<1>4. CASE ScheduleCur \/ \E r \in Seqs : AdmitPrompt(r) \/ AdmitSwapped(r)
  BY <1>4, Admitted, CacheAdmit
<1>5. CASE PreemptDelayed \/ PreemptRunning \/ PreemptCur
  <2>1. PICK r \in Seqs : /\ Preempt(r) /\ r \notin ToSet(batch)
                          /\ pc = "running" /\ status[r] = "RUNNING"
    BY <1>5, Preempted
  <2>2. /\ Free(r) /\ inflight' = [inflight EXCEPT ![r] = len[r]]
        /\ status' = [status EXCEPT ![r] = "WAITING"]
        /\ UNCHANGED <<kv, reads, forward, batch, len, pc>>
    BY <2>1 DEF Preempt, Recompute, workerVars, texts
  <2>3. len[r] - len[r] = 0
    BY DEF DataInv, DataTypes
  <2>4. cached' = [cached EXCEPT ![r] = 0]
    BY <2>1, <2>2, <2>3 DEF cached, Computed, QueueInv, QueueTypes, DataInv, DataTypes
  <2> QED
    BY <2>1, <2>2, <2>4, CacheDrops
<1>6. CASE PostForward
  BY <1>6, CacheForward
<1>7. ASSUME NEW r \in Seqs,
             Continue(r) \/ StopRequest(r) \/ \E m \in PauseModes : CallApi(r, m)
      PROVE  [Cache!Next]_(Cache!vars)
  BY <1>7, CacheOutput
<1> QED
  BY <1>1, <1>2, <1>3, <1>4, <1>5, <1>6, <1>7, QuietSteps
     DEF Next, Client, Schedule, Outputs

\* No block is on the CPU.
LEMMA NoneOnCpu == Cardinality({}) = 0
BY FS_EmptySet

\* No request has a block.
LEMMA DeviceInit == Init => DeviceInv
<1> SUFFICES ASSUME Init PROVE DeviceInv
  OBVIOUS
<1>1. \A r \in Seqs : OnCpu(r) = {}
  BY DEF Init, InitBlocks, OnCpu
<1>2. ToSet(batch) = {} /\ \A r \in Seqs : swapLen[r] = 0
  BY DEF Init, ToSet
<1> QED
  BY <1>1, <1>2, NoneOnCpu DEF DeviceInv

\* A step that concerns one request
LEMMA DeviceUpdate ==
    ASSUME DeviceInv, NEW r \in Seqs,
           \A q \in Seqs \ {r} : /\ tables'[q] = tables[q] /\ swapLen'[q] = swapLen[q]
                                 /\ status'[q] = status[q]
                                 /\ q \in ToSet(batch') <=> q \in ToSet(batch),
           status'[r] \notin Finished =>
              /\ Cardinality(OnCpu(r)') = IF r \in ToSet(batch') THEN 0 ELSE swapLen'[r]
              /\ OnCpu(r)' = {} \/ OnGpu(r)' = {}
    PROVE  DeviceInv'
BY DEF DeviceInv, OnCpu, OnGpu

\* Every step keeps the blocks of a request on one device.
LEMMA DeviceNext ==
    ASSUME QueueInv, DataInv, DeviceInv, Cache!BlockInv, Cache!BlockInv', [Next]_vars
    PROVE  DeviceInv'
<1>0. tables \in [Seqs -> Seq(Blocks)] /\ status \in [Seqs -> Statuses]
      /\ swapLen \in [Seqs -> Nat]
  BY DEF Cache!BlockInv, Cache!TypeOK, Cache!TypeOKBlocks, Cache!Blocks, Blocks,
         QueueInv, QueueTypes, DataInv, DataTypes
<1>1. CASE Quiet
  <2>1. ASSUME NEW r \in Seqs, status'[r] \notin Finished
        PROVE  status[r] \notin Finished
    BY <1>0, <1>1, <2>1 DEF Quiet, Finished
  <2> QED
    BY <1>1, <2>1 DEF Quiet, DeviceInv, OnCpu, OnGpu
<1>2. ASSUME NEW r \in Seqs, AbortRequest(r)
      PROVE  DeviceInv'
  <2>1. /\ Free(r) /\ status' = [status EXCEPT ![r] = "FINISHED_ABORTED"]
        /\ UNCHANGED <<batch, swapLen>>
    BY <1>2 DEF AbortRequest, data, step
  <2> QED
    BY <1>0, <2>1, DeviceUpdate DEF Free, Finished
<1>3. ASSUME NEW r \in Seqs, NEW n \in ApiRets, NEW single \in BOOLEAN,
             ResumeRequest(r, n, single)
      PROVE  DeviceInv'
  <2>1. /\ mode[r] # "none" /\ UNCHANGED <<tables, batch, swapLen>>
        /\ \E s \in {"RUNNING", "SWAPPED", "WAITING"} : status' = [status EXCEPT ![r] = s]
    BY <1>3 DEF ResumeRequest, step, blockVars
  <2>2. status[r] = "PAUSED_API"
    BY <2>1 DEF QueueInv, StatusInv
  <2> QED
    BY <1>0, <2>1, <2>2, DeviceUpdate DEF DeviceInv, Finished, OnCpu, OnGpu
<1>4. CASE ScheduleCur \/ \E r \in Seqs : AdmitPrompt(r) \/ AdmitSwapped(r)
  <2>1. PICK r \in Seqs : Admit(r) /\ r \notin ToSet(batch) /\ pc # "process"
    BY <1>4, Admitted
  <2>2. /\ \A q \in Seqs \ {r} : tables'[q] = tables[q] /\ status'[q] = status[q]
        /\ batch' = Append(batch, r) /\ pc' = pc /\ swapLen' = swapLen
    BY <1>0, <2>1 DEF Admit, Allocate, data
  <2>3. ToSet(batch') = ToSet(batch) \cup {r}
    BY <2>2, OnceAppend DEF QueueInv, QueueTypes
  <2>4. \A i \in DOMAIN tables'[r] : tables'[r][i] \in GpuBlocks
    BY <2>1, <2>2, <2>3 DEF Cache!BlockInv, Cache!ScheduledOnGpu
  <2>5. OnCpu(r)' = {}
    BY <2>4, BlocksAssumption DEF OnCpu
  <2> QED
    BY <2>2, <2>3, <2>5, NoneOnCpu, DeviceUpdate
<1>5. CASE PreemptDelayed \/ PreemptRunning \/ PreemptCur
  <2>1. PICK r \in Seqs : Preempt(r) /\ r \notin ToSet(batch)
    BY <1>5, Preempted
  <2>2. /\ tables' = [tables EXCEPT ![r] = <<>>] /\ swapLen' = [swapLen EXCEPT ![r] = 0]
        /\ status' = [status EXCEPT ![r] = "WAITING"] /\ batch' = batch
    BY <2>1 DEF Preempt, Recompute, Free
  <2>3. OnCpu(r)' = {}
    BY <1>0, <2>2 DEF OnCpu
  <2> QED
    BY <1>0, <2>1, <2>2, <2>3, NoneOnCpu, DeviceUpdate
<1>6. CASE PostForward
  <2>1. /\ UNCHANGED <<tables, batch, status>>
        /\ swapLen' = [r \in Seqs |-> IF r \in ToSet(batch) THEN 0 ELSE swapLen[r]]
    BY <1>6 DEF PostForward, Execute, queues
  <2> QED
    BY <2>1 DEF DeviceInv, OnCpu, OnGpu
<1>7. ASSUME NEW r \in Seqs,
             Continue(r) \/ StopRequest(r) \/ \E m \in PauseModes : CallApi(r, m)
      PROVE  DeviceInv'
  <2>1. /\ ToSet(batch) = ToSet(batch') \cup {r} /\ r \notin ToSet(batch')
        /\ swapLen[r] = 0 /\ OnCpu(r) = {}
    BY <1>7, OutputFacts
  <2>2. CASE Continue(r)
    <3>1. UNCHANGED <<tables, swapLen, status>>
      BY <2>2 DEF Continue, blockVars
    <3> QED
      BY <2>1, <3>1, NoneOnCpu, DeviceUpdate DEF OnCpu
  <2>3. CASE StopRequest(r)
    <3>1. /\ Free(r) /\ status' = [status EXCEPT ![r] = "FINISHED_STOPPED"]
          /\ swapLen' = swapLen
      BY <2>3 DEF StopRequest
    <3> QED
      BY <1>0, <2>1, <3>1, DeviceUpdate DEF Free, Finished
  <2>4. ASSUME NEW m \in PauseModes, CallApi(r, m)
        PROVE  DeviceInv'
    <3>1. status' = [status EXCEPT ![r] = "PAUSED_API"]
      BY <2>4 DEF CallApi
    <3>2. CASE Free(r) /\ swapLen' = [swapLen EXCEPT ![r] = 0]
      <4>1. OnCpu(r)' = {}
        BY <1>0, <3>2 DEF Free, OnCpu
      <4> QED
        BY <1>0, <2>1, <3>1, <3>2, <4>1, NoneOnCpu, DeviceUpdate DEF Free
    <3>3. CASE UNCHANGED blockVars /\ swapLen' = [swapLen EXCEPT ![r] = 0]
      <4>1. OnCpu(r)' = {} /\ tables' = tables
        BY <2>1, <3>3 DEF blockVars, OnCpu
      <4> QED
        BY <1>0, <2>1, <3>1, <3>3, <4>1, NoneOnCpu, DeviceUpdate
    <3>4. CASE SwapOut(r) /\ swapLen' = [swapLen EXCEPT ![r] = Len(tables[r])]
      <4>1. /\ DOMAIN tables[r] = 1..Len(tables[r]) /\ Len(tables[r]) \in Nat
            /\ OnGpu(r) = DOMAIN tables[r]
        <5>1. /\ DOMAIN tables[r] = 1..Len(tables[r]) /\ Len(tables[r]) \in Nat
              /\ OnGpu(r) \cup OnCpu(r) = DOMAIN tables[r]
          BY CacheBlocks, Cache!OnDevicesFacts
             DEF Cache!BlockInv, OnGpu, OnCpu, Cache!OnGpu, Cache!OnCpu
        <5> QED
          BY <2>1, <5>1
      <4>2. PICK to \in Handouts(OnGpu(r), freeCpu) :
               tables' = [tables EXCEPT ![r] =
                  [i \in DOMAIN @ |-> IF i \in OnGpu(r) THEN to[i] ELSE @[i]]]
        BY <3>4 DEF SwapOut, SwapOutBlocks
      <4>3. /\ tables'[r] = [i \in 1..Len(tables[r]) |-> to[i]]
            /\ \A q \in Seqs \ {r} : tables'[q] = tables[q]
        BY <1>0, <4>1, <4>2
      <4>4. \A i \in 1..Len(tables[r]) : to[i] \in CpuBlocks
        BY <4>1, <4>2 DEF Handouts, Cache!BlockInv, Cache!TypeOK, Cache!TypeOKBlocks
      <4>5. OnCpu(r)' = 1..Len(tables[r]) /\ OnGpu(r)' = {}
        BY <4>3, <4>4, BlocksAssumption DEF OnCpu, OnGpu
      <4>6. Cardinality(1..Len(tables[r])) = Len(tables[r])
        BY <4>1, FS_Interval
      <4> QED
        BY <1>0, <2>1, <3>1, <3>4, <4>3, <4>5, <4>6, DeviceUpdate
    <3> QED
      BY <2>4, <3>2, <3>3, <3>4, ApiCases
  <2> QED
    BY <1>7, <2>2, <2>3, <2>4
<1> QED
  BY <1>1, <1>2, <1>3, <1>4, <1>5, <1>6, <1>7, QuietSteps
     DEF Next, Client, Schedule, Outputs

-----------------------------------------------------------------------------
(* The theorems about the blocks.                                          *)

SchedulerInv ==
    QueueInv /\ DataInv /\ DeviceInv /\ Cache!BlockInv /\ Cache!CacheIntact

\* The inductive invariant of the whole: lists, lengths, devices and cache
LEMMA SchedulerInvariant == Spec => []SchedulerInv
<1>1. Init => SchedulerInv
  BY QueueInit, DataInit, DeviceInit, CacheInit, CacheBlocks, CacheLengths, CachePhases,
     Cache!InitHolds DEF SchedulerInv
<1>2. ASSUME SchedulerInv, [Next]_vars
      PROVE  SchedulerInv'
  <2>1. tables \in [Seqs -> Seq(Blocks)]
    BY <1>2 DEF SchedulerInv, Cache!BlockInv, Cache!TypeOK, Cache!TypeOKBlocks, Cache!Blocks,
       Blocks
  <2>2. QueueInv' /\ DataInv'
    BY <1>2, <2>1, QueueNext, DataNext DEF SchedulerInv
  <2>3. [Cache!Next]_(Cache!vars)
    BY <1>2, CacheNext DEF SchedulerInv
  <2>4. Cache!BlockInv' /\ Cache!CacheIntact'
    BY <1>2, <2>3, CacheBlocks, CacheLengths, CachePhases, Cache!StepHolds DEF SchedulerInv
  <2> QED
    BY <1>2, <2>2, <2>4, DeviceNext DEF SchedulerInv
<1> QED
  BY <1>1, <1>2, PTL DEF Spec

\* The block table of every unfinished request has the blocks of its computed
\* tokens and of those it forwards, on one device, and swap_length says on which
\* (seq_data, BlockSpaceManagerV1): TableMatchesData, which VanillaServe checks.
THEOREM TableMatchesDataKept == Spec => []TableMatchesData
<1>1. SchedulerInv => TableMatchesData
  <2> SUFFICES ASSUME SchedulerInv, NEW r \in Seqs, Live(r)
               PROVE  /\ Len(tables[r]) = Token2Block(Computed(r) + forward[r])
                      /\ Cardinality(OnCpu(r)) = IF r \in ToSet(batch) THEN 0 ELSE swapLen[r]
                      /\ OnCpu(r) = {} \/ OnGpu(r) = {}
    BY DEF TableMatchesData
  <2>1. cached[r] = Computed(r)
    BY DEF cached, Live, Finished
  <2>2. Len(tables[r]) = Cache!Token2Block(cached[r] + forward[r])
    BY DEF SchedulerInv, Cache!BlockInv, Cache!SizeInv
  <2>3. status[r] \notin Finished
    BY DEF Live
  <2> QED
    BY <2>1, <2>2, <2>3 DEF SchedulerInv, DeviceInv, Token2Block, Cache!Token2Block
<1> QED
  BY <1>1, SchedulerInvariant, PTL

\* The scheduler without chunked prefill is a user of KVCache, and so has what is
\* proved of it: no block is lost or held twice, no pending copy is made obsolete.
THEOREM KeepsCache == Spec => Cache!Spec
<1>1. SchedulerInv /\ [Next]_vars => [Cache!Next]_(Cache!vars)
  BY CacheNext DEF SchedulerInv
<1> QED
  BY <1>1, CacheInit, SchedulerInvariant, PTL DEF Spec, Cache!Spec

\* The attention of every forward pass reads all tokens of its requests and no
\* other, through preemptions, swaps, pauses and aborts: ServesTokens.
THEOREM TokensServed == Spec => ServesTokens
<1>1. Cache!Spec => Cache!ServesTokens
  BY CacheBlocks, CacheLengths, CachePhases, Cache!CacheServesTokens, PTL
<1>2. Cache!Store!Init => Store!Init
  BY DEF Cache!Store!Init, Store!Init
<1>3. [Cache!Store!Next]_<<cached, reads>> => [Store!Next]_<<cached, reads>>
  BY DEF Cache!Store!Next, Store!Next, Cache!Store!Forward, Store!Forward, Cache!Store!Rest,
     Store!Rest, Cache!Store!Drop, Store!Drop, Cache!Store!Tokens, Store!Tokens
<1> QED
  BY <1>1, <1>2, <1>3, KeepsCache, PTL
     DEF Cache!ServesTokens, ServesTokens, Cache!Store!Spec, Store!Spec

-----------------------------------------------------------------------------
(* A step with nothing to run.  As long as a pass has scheduled nobody, and *)
(* no paused request keeps its blocks, only the request that the pass looks *)
(* at can have blocks on the GPU; so it has room, and the batch is empty    *)
(* only if the queues are.                                                  *)

Preserved == \E r \in Seqs : mode[r] = "PRESERVE"

\* Only what runs, or is paused there, has blocks on the GPU.
GpuInv == \A r \in Seqs :
    OnGpu(r) # {} => status[r] = "RUNNING" \/ mode[r] = "PRESERVE"

IdleInv ==
    /\ tookDelayed => cur # 0
    /\ pc = "prompts" => ~preempted
    /\ pc \in {"prompts", "running", "swapped"} /\ batch = <<>> /\ ~Preserved =>
         /\ delayed = <<>>
         /\ pc = "running" =>
              /\ ~tookDelayed
              /\ preempted => cur # 0
              /\ waiting # <<>> => cur # 0 \/ running # <<>> \/ swapped # <<>>
         /\ pc = "swapped" => /\ running = <<>>
                              /\ waiting # <<>> => swapped # <<>>

\* What the engine would have to check of its limits: a step may run a
\* request, and the GPU has the blocks of the longest one.
LimitsServe ==
    /\ IsFiniteSet(Seqs) /\ MaxNumSeqs >= 1
    /\ Token2Block(MaxModelLen) <= Cardinality(GpuBlocks)

\* No API return has made a request too long that then runs or is swapped in.
\* (One that waits again is ignored.)
WithinLimit ==
    \A r \in Seqs : status[r] \in {"RUNNING", "SWAPPED"} => len[r] <= MaxModelLen

\* A batch of nobody has no tokens.
LEMMA NothingBatched ==
    ASSUME IsFiniteSet(Seqs), DataInv, batch = <<>>
    PROVE  Batched = 0
<1>1. forward \in [Seqs -> Nat] /\ \A r \in Seqs : forward[r] = 0
  <2>1. ToSet(batch) = {}
    BY DEF ToSet
  <2> QED
    BY <2>1 DEF DataInv, DataTypes, LengthInv
<1>2. DOMAIN forward = Seqs
  BY <1>1
<1>3. Batched = Fold(forward, Seqs)[Seqs]
  BY <1>2 DEF Batched, FoldFunction, FoldFunctionOnSet, MapThenFoldSet, Fold, IsFold, Taken
<1>4. Total(forward, Seqs) = 0
  BY <1>1, TotalZero
<1> QED
  BY <1>3, <1>4, TotalIsFold

\* If only one request has blocks on the GPU, the others of the GPU are free.
LEMMA RestIsFree ==
    ASSUME Cache!BlockInv, NEW c \in Seqs, \A q \in Seqs \ {c} : OnGpu(q) = {}
    PROVE  /\ FreeGpu \in Nat /\ Cardinality(OnGpu(c)) \in Nat
           /\ Cardinality(OnCpu(c)) \in Nat
           /\ Cardinality(GpuBlocks) = FreeGpu + Cardinality(OnGpu(c))
           /\ Len(tables[c]) = Cardinality(OnGpu(c)) + Cardinality(OnCpu(c))
<1> DEFINE held == {tables[c][i] : i \in OnGpu(c)}
           block == [i \in OnGpu(c) |-> tables[c][i]]
<1>1. /\ tables[c] \in Seq(Blocks) /\ freeGpu \subseteq GpuBlocks
      /\ DOMAIN tables[c] = 1..Len(tables[c]) /\ Len(tables[c]) \in Nat
      /\ freeCpu \subseteq CpuBlocks
  BY DEF Cache!BlockInv, Cache!TypeOK, Cache!TypeOKBlocks, Cache!Blocks, Blocks
<1>2. /\ OnGpu(c) \cup OnCpu(c) = DOMAIN tables[c] /\ OnGpu(c) \cap OnCpu(c) = {}
  BY <1>1, BlocksAssumption DEF OnGpu, OnCpu, Blocks
<1>3. /\ IsFiniteSet(OnGpu(c)) /\ IsFiniteSet(OnCpu(c))
      /\ Cardinality(1..Len(tables[c])) = Len(tables[c])
  <2>1. IsFiniteSet(1..Len(tables[c])) /\ Cardinality(1..Len(tables[c])) = Len(tables[c])
    BY <1>1, FS_Interval
  <2> QED
    BY <1>1, <1>2, <2>1, FS_Subset
<1>4. /\ Cardinality(OnGpu(c)) \in Nat /\ Cardinality(OnCpu(c)) \in Nat
      /\ Len(tables[c]) = Cardinality(OnGpu(c)) + Cardinality(OnCpu(c))
  <2>1. Cardinality(OnGpu(c)) \in Nat /\ Cardinality(OnCpu(c)) \in Nat
    BY <1>3, FS_CardinalityType
  <2>2. Cardinality(OnGpu(c) \cup OnCpu(c))
          = Cardinality(OnGpu(c)) + Cardinality(OnCpu(c)) - Cardinality(OnGpu(c) \cap OnCpu(c))
    BY <1>3, FS_Union
  <2>3. Cardinality(OnGpu(c) \cap OnCpu(c)) = 0
    BY <1>2, FS_EmptySet
  <2>4. Cardinality(OnGpu(c) \cup OnCpu(c)) = Len(tables[c])
    BY <1>1, <1>2, <1>3
  <2> QED
    BY <2>1, <2>2, <2>3, <2>4
<1>5. IsFiniteSet(freeGpu) /\ FreeGpu \in Nat
  BY <1>1, BlocksAssumption, FS_Subset, FS_CardinalityType DEF FreeGpu
<1>6. IsFiniteSet(held) /\ Cardinality(held) = Cardinality(OnGpu(c))
  <2>1. block \in Surjection(OnGpu(c), held)
    BY DEF Surjection
  <2>2. block \in Injection(OnGpu(c), held)
    BY DEF Injection, IsInjective, OnGpu, Cache!BlockInv, Cache!BlocksExclusive
  <2> HIDE DEF held, block
  <2> QED
    BY <1>3, <2>1, <2>2, FS_Surjection
<1>7. held \cup freeGpu = GpuBlocks /\ held \cap freeGpu = {}
  <2>1. held \subseteq GpuBlocks /\ held \cap freeGpu = {}
    BY <1>1 DEF OnGpu, Cache!BlockInv, Cache!BlocksExclusive
  <2>2. ASSUME NEW b \in GpuBlocks, b \notin freeGpu
        PROVE  b \in held
    <3>1. b \notin freeCpu
      BY <1>1, BlocksAssumption
    <3>2. PICK s \in Seqs : \E i \in DOMAIN tables[s] : tables[s][i] = b
      BY <2>2, <3>1 DEF Cache!BlockInv, Cache!BlocksExclusive, Cache!Blocks
    <3>3. PICK i \in DOMAIN tables[s] : tables[s][i] = b
      BY <3>2
    <3>4. i \in OnGpu(s)
      BY <3>3 DEF OnGpu
    <3> QED
      BY <3>3, <3>4
  <2> QED
    BY <1>1, <2>1, <2>2
<1> HIDE DEF held
<1>8. Cardinality(GpuBlocks) = Cardinality(held) + FreeGpu
  <2>1. Cardinality(held \cup freeGpu)
          = Cardinality(held) + Cardinality(freeGpu) - Cardinality(held \cap freeGpu)
    BY <1>5, <1>6, FS_Union
  <2>2. Cardinality(held \cap freeGpu) = 0
    BY <1>7, FS_EmptySet
  <2>3. Cardinality(held \cup freeGpu) = Cardinality(GpuBlocks)
    BY <1>7
  <2>4. Cardinality(held) \in Nat /\ Cardinality(freeGpu) \in Nat
    BY <1>4, <1>5, <1>6 DEF FreeGpu
  <2> QED
    BY <2>1, <2>2, <2>3, <2>4 DEF FreeGpu
<1> QED
  BY <1>4, <1>5, <1>6, <1>8

\* A request with nobody else on the GPU fits.
LEMMA FitsAlone ==
    ASSUME LimitsServe, QueueInv, DataInv, DeviceInv, Cache!BlockInv, GpuInv, ~Preserved,
           NEW c \in Seqs, status[c] \in {"WAITING", "RUNNING", "SWAPPED"},
           c \notin ToSet(batch), len[c] <= MaxModelLen,
           \A q \in Seqs \ {c} : status[q] # "RUNNING"
    PROVE  Fits(c)
<1>1. \A q \in Seqs \ {c} : OnGpu(q) = {}
  BY DEF GpuInv, Preserved
<1>2. Cardinality(OnCpu(c)) = swapLen[c]
  BY DEF DeviceInv, Finished
<1>3. len[c] \in Nat /\ inflight[c] \in Nat /\ forward[c] = 0 /\ Computed(c) \in Nat
      /\ swapLen[c] \in Nat
  BY DEF DataInv, DataTypes, LengthInv, Computed
<1>4. Len(tables[c]) = Token2Block(Computed(c))
  <2>1. cached[c] = Computed(c)
    BY DEF cached
  <2>2. Len(tables[c]) = Cache!Token2Block(cached[c] + forward[c])
    BY DEF Cache!BlockInv, Cache!SizeInv
  <2> QED
    BY <1>3, <2>1, <2>2 DEF Token2Block, Cache!Token2Block
<1>5. Token2Block(len[c]) <= Token2Block(MaxModelLen) /\ Token2Block(len[c]) \in Nat
      /\ Token2Block(MaxModelLen) \in Nat
  BY <1>3, ConfigAssumption, CacheBlocks, Cache!Token2BlockFacts
     DEF Token2Block, Cache!Token2Block
<1>6. Token2Block(len[c]) <= Cardinality(GpuBlocks) /\ Cardinality(GpuBlocks) \in Nat
  BY <1>5, BlocksAssumption, FS_CardinalityType DEF LimitsServe
<1>7. MemoryRequirement(c) = swapLen[c] + (Token2Block(len[c]) - Len(tables[c]))
  BY <1>4 DEF MemoryRequirement, NewBlocks
<1>8. /\ FreeGpu \in Nat /\ Cardinality(OnGpu(c)) \in Nat
      /\ Cardinality(GpuBlocks) = FreeGpu + Cardinality(OnGpu(c))
      /\ Len(tables[c]) = Cardinality(OnGpu(c)) + swapLen[c]
  BY <1>1, <1>2, RestIsFree
<1> DEFINE held == Cardinality(OnGpu(c))
           size == Cardinality(GpuBlocks)
           full == Token2Block(len[c])
<1>9. /\ held \in Nat /\ size \in Nat /\ full \in Nat /\ full <= size
      /\ size = FreeGpu + held /\ Len(tables[c]) = held + swapLen[c]
      /\ MemoryRequirement(c) = swapLen[c] + (full - Len(tables[c]))
  BY <1>5, <1>6, <1>7, <1>8
<1> HIDE DEF held, size, full
<1>10. MemoryRequirement(c) = full - held /\ FreeGpu = size - held
  BY <1>3, <1>8, <1>9
<1> QED
  BY <1>9, <1>10 DEF Fits

\* A step that concerns one request
LEMMA GpuUpdate ==
    ASSUME GpuInv, NEW r \in Seqs,
           \A q \in Seqs \ {r} : /\ tables'[q] = tables[q] /\ status'[q] = status[q]
                                 /\ mode'[q] = mode[q],
           OnGpu(r)' # {} => status'[r] = "RUNNING" \/ mode'[r] = "PRESERVE"
    PROVE  GpuInv'
BY DEF GpuInv, OnGpu

\* No step leaves blocks on the GPU to a request that neither runs nor is
\* paused there.
LEMMA GpuNext ==
    ASSUME QueueInv, DataInv, DeviceInv, DeviceInv', Cache!BlockInv, GpuInv, [Next]_vars
    PROVE  GpuInv'
<1>0. /\ tables \in [Seqs -> Seq(Blocks)] /\ status \in [Seqs -> Statuses]
      /\ mode \in [Seqs -> {"none", "PRESERVE", "SWAP", "RECOMPUTE"}]
  BY DEF Cache!BlockInv, Cache!TypeOK, Cache!TypeOKBlocks, Cache!Blocks, Blocks,
         QueueInv, QueueTypes
<1>1. CASE \/ UNCHANGED vars \/ StartSchedule \/ FinishPrompts \/ FinishRunning
           \/ FinishSwapped \/ FinishStep
           \/ \E r \in Seqs : AddRequest(r) \/ IgnorePrompt(r) \/ Delay(r) \/ TakeRunning(r)
  <2>1. Quiet
    BY <1>1, QuietSteps
  <2>2. mode' = mode
    BY <1>1 DEF vars, queues, StartSchedule, FinishPrompts, FinishRunning, FinishSwapped,
       FinishStep, AddRequest, IgnorePrompt, Delay, TakeRunning
  <2>3. CASE UNCHANGED status
    BY <2>1, <2>2, <2>3 DEF Quiet, GpuInv, OnGpu
  <2>4. ASSUME NEW r \in Seqs, status[r] \in {"none", "WAITING"},
               \E s \in {"WAITING", "FINISHED_IGNORED"} : status' = [status EXCEPT ![r] = s]
        PROVE  GpuInv'
    <3>1. OnGpu(r) = {}
      BY <2>4 DEF GpuInv, QueueInv, StatusInv
    <3> QED
      BY <1>0, <2>1, <2>2, <2>4, <3>1, GpuUpdate DEF Quiet, OnGpu
  <2> QED
    BY <2>1, <2>3, <2>4 DEF Quiet
<1>2. ASSUME NEW r \in Seqs, Free(r),
             \A q \in Seqs \ {r} : status'[q] = status[q] /\ mode'[q] = mode[q]
      PROVE  GpuInv'
  <2>1. /\ tables'[r] = <<>> /\ \A q \in Seqs \ {r} : tables'[q] = tables[q]
    BY <1>0, <1>2 DEF Free
  <2>2. OnGpu(r)' = {}
    BY <2>1 DEF OnGpu
  <2> QED
    BY <1>2, <2>1, <2>2, GpuUpdate
<1>3. ASSUME NEW r \in Seqs, AbortRequest(r)
      PROVE  GpuInv'
  BY <1>2, <1>3 DEF AbortRequest
<1>4. ASSUME NEW r \in Seqs, NEW n \in ApiRets, NEW single \in BOOLEAN,
             ResumeRequest(r, n, single)
      PROVE  GpuInv'
  <2>1. /\ mode[r] # "none" /\ mode' = [mode EXCEPT ![r] = "none"] /\ tables' = tables
        /\ \E s \in {"RUNNING", "SWAPPED", "WAITING"} : status' = [status EXCEPT ![r] = s]
        /\ mode[r] = "PRESERVE" => status' = [status EXCEPT ![r] = "RUNNING"]
    BY <1>4 DEF ResumeRequest, blockVars
  <2>2. status[r] = "PAUSED_API"
    BY <2>1 DEF QueueInv, StatusInv
  <2>3. OnGpu(r)' # {} => status'[r] = "RUNNING"
    BY <1>0, <2>1, <2>2 DEF GpuInv, OnGpu
  <2> QED
    BY <1>0, <2>1, <2>3, GpuUpdate
<1>5. CASE ScheduleCur \/ \E r \in Seqs : AdmitPrompt(r) \/ AdmitSwapped(r)
  <2>1. PICK r \in Seqs : Admit(r)
    BY <1>5, Admitted
  <2>2. /\ \A q \in Seqs \ {r} : tables'[q] = tables[q] /\ status'[q] = status[q]
        /\ status'[r] = "RUNNING" /\ mode' = mode
    BY <1>0, <2>1 DEF Admit, Allocate
  <2> QED
    BY <2>2, GpuUpdate
<1>6. CASE PreemptDelayed \/ PreemptRunning \/ PreemptCur
  <2>1. PICK r \in Seqs : Preempt(r)
    BY <1>6, Preempted
  <2>2. Free(r) /\ status' = [status EXCEPT ![r] = "WAITING"] /\ mode' = mode
    BY <2>1 DEF Preempt, Recompute
  <2> QED
    BY <1>0, <1>2, <2>2
<1>7. CASE PostForward
  BY <1>7 DEF PostForward, Execute, queues, GpuInv, OnGpu
<1>8. ASSUME NEW r \in Seqs, Continue(r)
      PROVE  GpuInv'
  BY <1>8 DEF Continue, blockVars, GpuInv, OnGpu
<1>9. ASSUME NEW r \in Seqs, StopRequest(r)
      PROVE  GpuInv'
  BY <1>0, <1>2, <1>9 DEF StopRequest
<1>10. ASSUME NEW r \in Seqs, NEW m \in PauseModes, CallApi(r, m)
       PROVE  GpuInv'
  <2>1. /\ status' = [status EXCEPT ![r] = "PAUSED_API"]
        /\ \E n \in {"PRESERVE", "SWAP", "RECOMPUTE"} : mode' = [mode EXCEPT ![r] = n]
    BY <1>10, ConfigAssumption DEF CallApi
  <2>2. \A q \in Seqs \ {r} : status'[q] = status[q] /\ mode'[q] = mode[q]
    BY <1>0, <2>1
  <2>3. CASE Free(r)
    BY <1>2, <2>2, <2>3
  <2>4. CASE mode' = [mode EXCEPT ![r] = "PRESERVE"] /\ UNCHANGED blockVars
    BY <1>0, <2>2, <2>4, GpuUpdate DEF blockVars
  <2>5. CASE SwapOut(r) /\ swapLen' = [swapLen EXCEPT ![r] = Len(tables[r])]
    <3>1. tables[r] # <<>> /\ r \notin ToSet(batch')
      BY <1>10, OutputFacts
    <3>2. Len(tables[r]) # 0 /\ \A q \in Seqs \ {r} : tables'[q] = tables[q]
      BY <1>0, <2>5, <3>1, EmptySeq DEF SwapOut, SwapOutBlocks
    <3>3. Cardinality(OnCpu(r)') = Len(tables[r]) /\ (OnCpu(r)' = {} \/ OnGpu(r)' = {})
      BY <1>0, <2>1, <2>5, <3>1 DEF DeviceInv, DataInv, DataTypes, Finished
    <3>4. OnGpu(r)' = {}
      BY <3>2, <3>3, NoneOnCpu
    <3> QED
      BY <2>2, <3>2, <3>4, GpuUpdate
  <2> QED
    BY <1>10, <2>3, <2>4, <2>5 DEF CallApi
<1> QED
  BY <1>1, <1>3, <1>4, <1>5, <1>6, <1>7, <1>8, <1>9, <1>10
     DEF Next, Client, Schedule, Outputs

\* While nobody is scheduled, the first that the pass looks at has room.
LEMMA AloneInPass ==
    ASSUME QueueInv, NEW c \in Seqs, batch = <<>>, delayed = <<>>, running = <<>>,
           cur \in {0, c}
    PROVE  \A q \in Seqs \ {c} : status[q] # "RUNNING"
<1>1. ToSet(batch) = {} /\ ToSet(delayed) = {} /\ ToSet(running) = {}
  BY DEF ToSet
<1> QED
  BY <1>1, SeqsFacts DEF QueueInv, StatusInv

\* Nothing is delayed, given up or passed over for nothing.
LEMMA IdleNext ==
    ASSUME LimitsServe, WithinLimit, QueueInv, DataInv, DeviceInv, Cache!BlockInv, GpuInv,
           IdleInv, [Next]_vars
    PROVE  IdleInv'
<1> DEFINE empty == batch = <<>> /\ ~Preserved
<1>0. /\ cur \in Seqs \cup {0} /\ (cur # 0 => pc = "running")
      /\ 0 \notin Seqs /\ 0 \in Nat
      /\ waiting \in Seq(Seqs) /\ running \in Seq(Seqs) /\ swapped \in Seq(Seqs)
      /\ batch \in Seq(Seqs)
  BY SeqsFacts DEF QueueInv, QueueTypes, PhaseInv
<1>1. CASE UNCHANGED vars
  BY <1>1 DEF vars, queues, step, IdleInv, Preserved
<1>2. CASE Client
  <2>1. pc' = pc /\ pc \in {"idle", "execute"} /\ UNCHANGED <<cur, tookDelayed>>
    BY <1>2 DEF Client, AddRequest, AbortRequest, ResumeRequest, step
  <2> QED
    BY <2>1 DEF IdleInv
<1>3. CASE Outputs
  <2>1. pc' \in {"idle", "process"} /\ UNCHANGED <<cur, tookDelayed>>
    BY <1>3 DEF Outputs, PostForward, FinishStep, CallApi, StopRequest, Continue,
       AppendToken, step
  <2> QED
    BY <2>1 DEF IdleInv
<1>4. CASE StartSchedule
  BY <1>0, <1>4 DEF StartSchedule, IdleInv
<1>5. ASSUME NEW r \in Seqs, IgnorePrompt(r)
      PROVE  IdleInv'
  BY <1>5 DEF IgnorePrompt, NextPrompt, IdleInv, Preserved
<1>6. CASE ScheduleCur \/ \E r \in Seqs : AdmitPrompt(r) \/ AdmitSwapped(r)
  <2>1. PICK r \in Seqs : Admit(r)
    BY <1>6, Admitted
  <2>2. batch' # <<>>
    <3>1. batch' = Append(batch, r)
      BY <2>1 DEF Admit
    <3>2. ToSet(batch') = ToSet(batch) \cup {r}
      BY <1>0, <3>1, OnceAppend
    <3>3. ToSet(<<>>) = {}
      BY DEF ToSet
    <3> QED
      BY <3>2, <3>3
  <2>3. /\ pc' = pc /\ (tookDelayed' => cur' # 0)
        /\ preempted' = preempted
    BY <1>6 DEF ScheduleCur, AdmitPrompt, AdmitSwapped, Admit, IdleInv
  <2> QED
    BY <2>2, <2>3 DEF IdleInv
<1>7. ASSUME NEW r \in Seqs, Delay(r)
      PROVE  IdleInv'
  <2>1. /\ pc = "running" /\ pc' = pc /\ running # <<>> /\ r = Head(running)
        /\ Batched + inflight[r] > MaxBatched
        /\ UNCHANGED <<batch, mode, cur, tookDelayed, preempted>>
    BY <1>7 DEF Delay, NextRunning, step
  <2>2. ~empty
    <3>1. SUFFICES ASSUME empty PROVE FALSE
      OBVIOUS
    <3>2. Batched = 0
      BY <3>1, NothingBatched DEF LimitsServe
    <3>3. r \in ToSet(running)
      BY <1>0, <2>1, OnceTail
    <3>4. status[r] = "RUNNING"
      BY <2>1, <3>3 DEF QueueInv, StatusInv
    <3>5. /\ inflight[r] \in Nat /\ len[r] \in Nat /\ inflight[r] <= len[r]
          /\ len[r] <= MaxModelLen
      BY <3>4 DEF DataInv, DataTypes, LengthInv, WithinLimit
    <3> QED
      BY <2>1, <3>2, <3>5, ConfigAssumption
  <2> QED
    BY <2>1, <2>2 DEF IdleInv, Preserved
<1>8. ASSUME NEW r \in Seqs, TakeRunning(r)
      PROVE  IdleInv'
  BY <1>0, <1>8 DEF TakeRunning, NextRunning, IdleInv, Preserved
<1>9. CASE PreemptDelayed \/ PreemptRunning \/ PreemptCur
  <2>1. cur # 0 /\ pc = "running" /\ cur \in Seqs
    BY <1>0, <1>9 DEF PreemptDelayed, PreemptRunning, PreemptCur, MustPreempt
  <2>2. /\ pc' = pc /\ UNCHANGED <<batch, mode>>
    BY <1>9 DEF PreemptDelayed, PreemptRunning, PreemptCur, Preempt
  <2>3. ASSUME empty
        PROVE  delayed = <<>> /\ ~tookDelayed
    BY <2>1, <2>3 DEF IdleInv
  <2>4. CASE PreemptDelayed
    BY <2>1, <2>2, <2>3, <2>4 DEF PreemptDelayed, IdleInv, Preserved
  <2>5. CASE PreemptRunning
    BY <2>1, <2>2, <2>3, <2>5 DEF PreemptRunning, IdleInv, Preserved
  <2>6. CASE PreemptCur
    <3>1. ~empty
      <4>1. SUFFICES ASSUME empty PROVE FALSE
        OBVIOUS
      <4>2. running = <<>> /\ ~Fits(cur)
        BY <2>3, <2>6, <4>1 DEF PreemptCur, MustPreempt
      <4>3. status[cur] = "RUNNING" /\ cur \notin ToSet(batch)
        BY <2>1 DEF QueueInv, StatusInv, PhaseInv
      <4>4. len[cur] <= MaxModelLen
        BY <2>1, <4>3 DEF WithinLimit
      <4>5. \A q \in Seqs \ {cur} : status[q] # "RUNNING"
        BY <2>1, <2>3, <4>1, <4>2, AloneInPass
      <4> QED
        BY <2>1, <4>1, <4>2, <4>3, <4>4, <4>5, FitsAlone
    <3> QED
      BY <2>1, <2>2, <2>6, <3>1 DEF PreemptCur, IdleInv, Preserved
  <2> QED
    BY <1>9, <2>4, <2>5, <2>6
<1>10. CASE FinishPrompts
  <2>1. /\ pc = "prompts" /\ UNCHANGED <<cur, tookDelayed, preempted, batch, waiting,
                                        delayed, mode>>
        /\ \/ pc' \in {"idle", "execute"}
           \/ pc' = "running" /\ running' = ByArrival(running)
    BY <1>10 DEF FinishPrompts, FinishSchedule, step
  <2>2. cur = 0 /\ ~tookDelayed /\ ~preempted
    BY <1>0, <2>1 DEF IdleInv
  <2>3. ASSUME empty, waiting # <<>>
        PROVE  running # <<>>
    <3>1. SUFFICES ASSUME running = <<>> PROVE FALSE
      OBVIOUS
    <3> DEFINE h == Head(waiting)
    <3>2. h \in Seqs /\ h \in ToSet(waiting)
      BY <1>0, <2>3, OnceTail
    <3>3. ~TooLong(h) /\ ~HasRoom(h)
      BY <1>10, <2>1, <2>3, <3>2 DEF FinishPrompts, NextPrompt
    <3> HIDE DEF h
    <3>4. status[h] = "WAITING" /\ h \notin ToSet(batch)
      BY <3>2 DEF QueueInv, StatusInv
    <3>5. len[h] <= MaxModelLen /\ len[h] \in Nat
      BY <3>2, <3>3, ConfigAssumption DEF TooLong, DataInv, DataTypes
    <3>6. delayed = <<>>
      BY <2>1, <2>3 DEF IdleInv
    <3>7. \A q \in Seqs \ {h} : status[q] # "RUNNING"
      BY <2>2, <2>3, <3>1, <3>2, <3>6, AloneInPass
    <3>8. Fits(h)
      BY <2>3, <3>2, <3>4, <3>5, <3>7, FitsAlone
    <3>9. Batched = 0 /\ Len(running) = 0
      BY <2>3, <3>1, NothingBatched DEF LimitsServe
    <3> QED
      BY <3>3, <3>5, <3>8, <3>9, ConfigAssumption DEF HasRoom, LimitsServe
  <2>4. pc' = "running" => (running = <<>> <=> running' = <<>>)
    BY <1>0, <2>1, ListFacts
  <2> QED
    BY <2>1, <2>2, <2>3, <2>4 DEF IdleInv, Preserved
<1>11. CASE FinishRunning
  <2>1. /\ pc = "running" /\ cur = 0 /\ running = <<>> /\ running' = batch
        /\ UNCHANGED <<cur, tookDelayed, preempted, batch, waiting, delayed, mode>>
        /\ swapped' = ByArrival(swapped) /\ pc' \in {"idle", "execute", "swapped"}
    BY <1>11 DEF FinishRunning, FinishSchedule, step
  <2>2. swapped = <<>> <=> swapped' = <<>>
    BY <1>0, <2>1, ListFacts
  <2> QED
    BY <2>1, <2>2 DEF IdleInv, Preserved
<1>12. CASE FinishSwapped
  BY <1>0, <1>12 DEF FinishSwapped, FinishSchedule, step, IdleInv
<1> QED
  BY <1>1, <1>2, <1>3, <1>4, <1>5, <1>6, <1>7, <1>8, <1>9, <1>10, <1>11, <1>12
     DEF Next, Schedule

\* An empty batch means that nobody is left to serve, or that a paused request
\* keeps its blocks.
LEMMA IdleStep ==
    ASSUME LimitsServe, WithinLimit, QueueInv, DataInv, DeviceInv, Cache!BlockInv, GpuInv,
           IdleInv, [Next]_vars,
           pc \notin {"idle", "execute", "process"}, pc' \in {"idle", "execute"},
           batch' = <<>>, ~ignored, ~Preserved, NEW r \in Seqs
    PROVE  ~Live(r) \/ mode[r] # "none"
<1>0. /\ waiting \in Seq(Seqs) /\ swapped \in Seq(Seqs) /\ status[r] \in Statuses
  BY DEF QueueInv, QueueTypes
<1>1. FinishPrompts \/ FinishRunning \/ FinishSwapped
  <2>1. ~UNCHANGED vars /\ ~Client
    BY DEF vars, Client, AddRequest, AbortRequest, ResumeRequest
  <2>2. ~Outputs
    BY DEF Outputs, PostForward, FinishStep, CallApi, StopRequest, Continue, AppendToken
  <2>3. /\ ~StartSchedule
        /\ \A s \in Seqs : ~(IgnorePrompt(s) \/ Delay(s) \/ TakeRunning(s))
    BY DEF StartSchedule, IgnorePrompt, NextPrompt, Delay, NextRunning, TakeRunning, step
  <2>4. ~(ScheduleCur \/ \E s \in Seqs : AdmitPrompt(s) \/ AdmitSwapped(s))
    BY DEF ScheduleCur, AdmitPrompt, AdmitSwapped, Admit
  <2>5. ~(PreemptDelayed \/ PreemptRunning \/ PreemptCur)
    BY DEF PreemptDelayed, PreemptRunning, PreemptCur, Preempt
  <2> QED
    BY <2>1, <2>2, <2>3, <2>4, <2>5 DEF Next, Schedule
<1>2. FinishSwapped /\ batch = <<>> /\ pc = "swapped"
  <2>1. batch = <<>>
    BY <1>1 DEF FinishPrompts, FinishRunning, FinishSwapped, step
  <2>2. ~FinishPrompts
    BY <2>1 DEF FinishPrompts
  <2>3. ~FinishRunning
    BY <2>1 DEF FinishRunning, IdleInv
  <2> QED
    BY <1>1, <2>1, <2>2, <2>3 DEF FinishSwapped
<1>3. /\ delayed = <<>> /\ running = <<>> /\ (waiting # <<>> => swapped # <<>>) /\ cur = 0
  BY <1>2 DEF IdleInv, QueueInv, PhaseInv
<1>4. swapped = <<>>
  <2>1. SUFFICES ASSUME swapped # <<>> PROVE FALSE
    OBVIOUS
  <2> DEFINE h == Head(swapped)
  <2>2. h \in Seqs /\ h \in ToSet(swapped)
    BY <1>0, <2>1, OnceTail
  <2>3. ~HasRoomSwapped(h)
    BY <1>2, <2>1, <2>2 DEF FinishSwapped, NextSwapped
  <2>4. status[h] = "SWAPPED" /\ h \notin ToSet(batch)
    BY <2>2 DEF QueueInv, StatusInv
  <2>5. /\ len[h] \in Nat /\ inflight[h] \in Nat /\ inflight[h] <= len[h]
        /\ len[h] <= MaxModelLen
    BY <2>2, <2>4 DEF WithinLimit, DataInv, DataTypes, LengthInv
  <2> HIDE DEF h
  <2>6. \A q \in Seqs \ {h} : status[q] # "RUNNING"
    BY <1>2, <1>3, <2>2, AloneInPass
  <2>7. Fits(h)
    BY <2>2, <2>4, <2>5, <2>6, FitsAlone
  <2>8. Batched = 0 /\ Len(running) = 0
    BY <1>2, <1>3, NothingBatched DEF LimitsServe
  <2> QED
    BY <2>3, <2>5, <2>7, <2>8, ConfigAssumption DEF HasRoomSwapped, LimitsServe
<1>5. /\ ToSet(waiting) = {} /\ ToSet(swapped) = {} /\ ToSet(running) = {}
      /\ ToSet(delayed) = {} /\ ToSet(batch) = {}
  BY <1>2, <1>3, <1>4 DEF ToSet
<1> QED
  BY <1>0, <1>3, <1>5, SeqsFacts DEF QueueInv, StatusInv, Statuses, Live

\* schedule() has nothing to run only when nobody is left to serve or a paused
\* request keeps its blocks: EmptyOnlyBehindPaused, which VanillaServe checks.
\* The GPU must hold a request of max_model_len, which the engine does not
\* check when it starts, and no API return may make a request outgrow it.
THEOREM IdleOnlyBehindPaused ==
    ASSUME LimitsServe
    PROVE  Spec /\ []WithinLimit => EmptyOnlyBehindPaused
<1> DEFINE IdleStepHolds ==
        (/\ pc \notin {"idle", "execute", "process"} /\ pc' \in {"idle", "execute"}
         /\ batch' = <<>> /\ ~ignored) =>
            \/ \A r \in Seqs : ~Live(r) \/ mode[r] # "none"
            \/ \E r \in Seqs : mode[r] = "PRESERVE"
<1>1. Init => GpuInv /\ IdleInv
  BY DEF Init, InitBlocks, GpuInv, IdleInv, OnGpu
<1>2. SchedulerInv /\ SchedulerInv' /\ GpuInv /\ [Next]_vars => GpuInv'
  BY GpuNext DEF SchedulerInv
<1>3. SchedulerInv /\ WithinLimit /\ GpuInv /\ IdleInv /\ [Next]_vars => IdleInv'
  BY IdleNext DEF SchedulerInv
<1>4. SchedulerInv /\ WithinLimit /\ GpuInv /\ IdleInv /\ [Next]_vars
        => [IdleStepHolds]_vars
  BY IdleStep DEF SchedulerInv, Preserved
<1> QED
  BY <1>1, <1>2, <1>3, <1>4, SchedulerInvariant, PTL DEF Spec, EmptyOnlyBehindPaused
=============================================================================
