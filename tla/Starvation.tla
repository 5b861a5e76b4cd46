----------------------------- MODULE Starvation -----------------------------
(***************************************************************************)
(* Starvation avoidance of SchedulerV2: the order in which the second pass *)
(* of a step serves the waiting and swapped requests, and the counters of  *)
(* src/vllm/sequence.py that lift a waiting request over the policy.       *)
(*                                                                         *)
(* SchedulerV2 leaves this order open.  Here every request needs one slot  *)
(* of the GPU, which it gives up when it is paused (by recomputation or a  *)
(* swap), so that who runs depends on the order alone.  A request that has *)
(* finished may arrive again: requests never stop coming.                  *)
(***************************************************************************)
EXTENDS Naturals, FiniteSets

CONSTANTS
    Reqs,
    Slots,      \* requests the GPU has room for
    Score,      \* what V2.get_priority computes, the smaller the earlier
    Threshold,  \* starvation_threshold
    Quantum,    \* starvation_quantum
    MaxRun,     \* bound on the steps a request runs before it stops
    Callers,    \* requests that call APIs
    Growing     \* requests that may be preempted by the running ones

ASSUME StarvationAssumption ==
    /\ Slots \in Nat /\ Threshold \in Nat /\ Quantum \in Nat /\ MaxRun \in Nat
    /\ Score \in [Reqs -> Nat]
    /\ Callers \subseteq Reqs /\ Growing \subseteq Reqs

VARIABLES
    status,
    seen,       \* time_before_processing > 0: has been scheduled before
    credit,     \* starvation_counter and starvation_quantum
    ran,        \* steps since the request was admitted
    pc,
    sampled,    \* scheduled requests whose output is not yet processed
    passed      \* calls of schedule() that passed over a request seen before
                \* since it had priority or ran; only observed

vars == <<status, seen, credit, ran, pc, sampled, passed>>

NoCredit == [counter |-> 0, quantum |-> 0]

Init ==
    /\ status = [r \in Reqs |-> "none"] /\ seen = [r \in Reqs |-> FALSE]
    /\ credit = [r \in Reqs |-> NoCredit]
    /\ ran = [r \in Reqs |-> 0] /\ passed = [r \in Reqs |-> 0]
    /\ pc = "idle" /\ sampled = {}

In(s) == {r \in Reqs : status[r] = s}

Arrive(r) ==
    /\ pc = "idle" /\ status[r] = "none"
    /\ status' = [status EXCEPT ![r] = "WAITING"]
    /\ UNCHANGED <<seen, credit, ran, pc, sampled, passed>>

\* resume_seq_group: a recomputed request waits, a swapped one is swapped.
Resume(r, queue) ==
    /\ status[r] = "PAUSED_API"
    /\ status' = [status EXCEPT ![r] = queue]
    /\ UNCHANGED <<seen, credit, ran, pc, sampled, passed>>

-----------------------------------------------------------------------------
(* The methods of Sequence.                                                *)

HasPriority(c) == c.quantum > 0

\* check_starvation_high_priority: uses up the quantum, or grants it for the
\* steps to come.
CheckStarvation(c) ==
    CASE HasPriority(c) -> [c EXCEPT !.quantum = @ - 1]
      [] ~HasPriority(c) /\ c.counter >= Threshold ->
              [counter |-> 0, quantum |-> Quantum]
      [] OTHER -> c

IncrementStarvation(c) == IF c.quantum = 0 THEN [c EXCEPT !.counter = @ + 1] ELSE c

CheckResetScheduled(c) ==
    IF c.quantum > 0 THEN [c EXCEPT !.quantum = @ - 1] ELSE [c EXCEPT !.counter = 0]

-----------------------------------------------------------------------------
(* schedule()                                                              *)

\* _active_discard: with nobody waiting a swapped request starts over.
ActiveDiscard ==
    IF In("WAITING") = {} /\ In("SWAPPED") # {}
    THEN {[status EXCEPT ![d] = "WAITING"] : d \in In("SWAPPED")}
    ELSE {status}

\* Variant: the order of the policy alone.
ByScore(a, b, high) == Score[a] <= Score[b]

\* The requests with priority come first, then the policy decides.
Before(a, b, high) ==
    \/ a \in high /\ b \notin high
    \/ (a \in high <=> b \in high) /\ Score[a] <= Score[b]

\* The targets that find room when they are taken in this order
Admissions(targets, high, room) ==
    {A \in SUBSET targets :
        /\ Cardinality(A) <= room
        /\ A # targets => Cardinality(A) = room
        /\ \A a \in A, b \in targets \ A : Before(a, b, high)}

\* Variant: the condition is the wrong way round.
CountFresh(waiting) == {r \in waiting : ~seen[r]}

\* Those whose waiting is counted: time_before_processing > 0
Counted(waiting) == {r \in waiting : seen[r]}

\* The second pass finds the requests s says, with those the first has
\* preempted (out).
Waiting(s, out)  == {r \in Reqs : s[r] = "WAITING"} \cup out
Targets(s, out)  == Waiting(s, out) \cup {r \in Reqs : s[r] = "SWAPPED"}
Priority(s, out) == {r \in Waiting(s, out) : HasPriority(credit[r])}

\* The counters of r once the second pass has looked at it
Checked(r, s, out) ==
    IF r \in Waiting(s, out) THEN CheckStarvation(credit[r]) ELSE credit[r]

\* The second pass admits A, and the counters are brought up to date.
Serve(s, out, A) ==
    LET runs  == (In("RUNNING") \ out) \cup A
        waits == Waiting(s, out) \ A
    IN  /\ status' = [r \in Reqs |-> IF r \in runs THEN "RUNNING"
                                     ELSE IF r \in waits THEN "WAITING" ELSE s[r]]
        /\ credit' = [r \in Reqs |->
              IF r \in runs THEN CheckResetScheduled(Checked(r, s, out))
              ELSE IF r \in Counted(waits)
                   THEN IncrementStarvation(Checked(r, s, out))
                   ELSE Checked(r, s, out)]
        /\ seen' = [r \in Reqs |-> seen[r] \/ r \in runs]
        /\ ran' = [r \in Reqs |-> IF r \in runs THEN ran[r] + 1 ELSE 0]
        /\ passed' = [r \in Reqs |->
              IF r \in waits \ Priority(s, out) /\ seen[r] THEN passed[r] + 1 ELSE 0]
        /\ sampled' = runs

\* The running requests go on, except those that are preempted and leave
\* their room to the others; the rest of it is for the second pass.
Schedule ==
    /\ pc = "idle" /\ pc' = "outputs"
    /\ \E s \in ActiveDiscard, out \in SUBSET (In("RUNNING") \cap Growing) :
       \E A \in Admissions(Targets(s, out), Priority(s, out),
                           Slots - Cardinality(In("RUNNING"))) : Serve(s, out, A)

-----------------------------------------------------------------------------
(* _process_model_outputs                                                  *)

Output(r, s) ==
    /\ pc = "outputs" /\ r \in sampled
    /\ sampled' = sampled \ {r}
    /\ status' = [status EXCEPT ![r] = s]
    /\ UNCHANGED <<pc, passed>>

Continue(r) ==
    /\ Output(r, "RUNNING") /\ ran[r] < MaxRun
    /\ UNCHANGED <<seen, credit, ran>>

\* reset_starvation_paused
CallApi(r) ==
    /\ Output(r, "PAUSED_API") /\ r \in Callers
    /\ credit' = [credit EXCEPT ![r] = NoCredit]
    /\ ran' = [ran EXCEPT ![r] = 0]
    /\ UNCHANGED seen

\* The request leaves; the next of that name is a new one.
Finish(r) ==
    /\ Output(r, "none")
    /\ seen' = [seen EXCEPT ![r] = FALSE]
    /\ credit' = [credit EXCEPT ![r] = NoCredit]
    /\ ran' = [ran EXCEPT ![r] = 0]

FinishStep ==
    /\ pc = "outputs" /\ sampled = {} /\ pc' = "idle"
    /\ UNCHANGED <<status, seen, credit, ran, sampled, passed>>

-----------------------------------------------------------------------------
Client == \E r \in Reqs : Arrive(r) \/ \E q \in {"WAITING", "SWAPPED"} : Resume(r, q)

Step == \/ Schedule \/ FinishStep
        \/ \E r \in Reqs : Continue(r) \/ CallApi(r) \/ Finish(r)

Next == Client \/ Step

Spec == Init /\ [][Next]_vars

\* run_engine_loop steps while there are requests, and every API returns.
Fairness ==
    /\ WF_vars(Step)
    /\ \A r \in Reqs : WF_vars(\E q \in {"WAITING", "SWAPPED"} : Resume(r, q))

FairSpec == Spec /\ Fairness

-----------------------------------------------------------------------------
\* With a threshold of 0 the step after a quantum still counts.
CounterMax == IF Threshold = 0 THEN 1 ELSE Threshold

\* The type invariant; the counter stops at the threshold.
TypeOK ==
    /\ status \in [Reqs -> {"none", "WAITING", "RUNNING", "SWAPPED", "PAUSED_API"}]
    /\ seen \in [Reqs -> BOOLEAN]
    /\ credit \in [Reqs -> [counter : 0..CounterMax, quantum : 0..Quantum]]
    /\ ran \in [Reqs -> Nat] /\ passed \in [Reqs -> Nat]
    /\ pc \in {"idle", "outputs"} /\ sampled \subseteq Reqs

\* A request that has been scheduled before is passed over without priority
\* in at most Threshold + 1 calls of schedule() in a row, whatever it went
\* through: priority it did not get to use, preemptions, pauses and restarts
\* by _active_discard.
PriorityInTime ==
    Quantum > 0 => \A r \in Reqs :
        status[r] = "WAITING" /\ seen[r] => passed[r] <= Threshold + 1

\* While one request with priority is left waiting, nobody is admitted who
\* has none ("requests with high priority (for starvation avoidance) are put
\* at the front"), among preemptions, swaps and restarts of the same step.
PriorityServedFirst ==
    [][ \A w, a \in Reqs :
          /\ status[w] = "WAITING" /\ HasPriority(credit[w]) /\ status'[w] = "WAITING"
          /\ status[a] \in {"WAITING", "SWAPPED"} /\ status'[a] = "RUNNING"
          => status[a] = "WAITING" /\ HasPriority(credit[a]) ]_vars

\* With a quantum that outlasts every run of a request, one that has been
\* scheduled before runs again, although better ones keep arriving.
ResumedServed ==
    \A r \in Callers : (status[r] = "WAITING" /\ seen[r]) ~> (status[r] = "RUNNING")

=============================================================================
