-------------------------- MODULE StarvationProofs --------------------------
(***************************************************************************)
(* A request that has run before is never passed over for long, for every  *)
(* number of requests and slots, every threshold and every quantum.        *)
(*                                                                         *)
(* The argument: while a waiting request has no quantum, its counter is at *)
(* least the number of times it was passed over.  At the threshold the     *)
(* counter is turned into a quantum, which gives priority in the very next *)
(* call; so that number exceeds the threshold by at most one.              *)
(***************************************************************************)
EXTENDS Starvation, TLAPS

\* A request with quantum left is not counted.
Credits == {c \in [counter : 0..CounterMax, quantum : 0..Quantum] :
                c.quantum > 0 => c.counter = 0}

\* What the number of times r was passed over owes to its counters
PassedCounted(r) ==
    /\ status[r] # "WAITING" \/ ~seen[r] => passed[r] = 0
    /\ credit[r].quantum = 0 => passed[r] <= credit[r].counter /\ passed[r] <= Threshold
    /\ passed[r] <= Threshold + 1

Inv == /\ TypeOK
       /\ \A r \in sampled : status[r] = "RUNNING"
       /\ \A r \in Reqs : credit[r] \in Credits
       /\ Quantum > 0 => \A r \in Reqs : PassedCounted(r)

-----------------------------------------------------------------------------
(* The methods of Sequence keep the counters in their bounds.              *)

\* check_starvation_high_priority stays within the bounds.
LEMMA CheckTyped == ASSUME NEW c \in Credits PROVE CheckStarvation(c) \in Credits
  BY StarvationAssumption DEF Credits, CheckStarvation, HasPriority, CounterMax

\* The counter is increased only below the threshold, or from 0.
LEMMA IncrementTyped ==
    ASSUME NEW c \in Credits
    PROVE  IncrementStarvation(CheckStarvation(c)) \in Credits
  BY StarvationAssumption
  DEF Credits, IncrementStarvation, CheckStarvation, HasPriority, CounterMax

\* check_reset_scheduled spends a quantum or resets the counter.
LEMMA ResetTyped == ASSUME NEW c \in Credits PROVE CheckResetScheduled(c) \in Credits
  BY StarvationAssumption DEF Credits, CheckResetScheduled, CounterMax

\* A request that was never passed over has a well-typed credit.
LEMMA NoCreditTyped == NoCredit \in Credits
  BY StarvationAssumption DEF Credits, NoCredit, CounterMax

\* Being passed over once more is paid for by the counter or by a quantum.
LEMMA PassedOver ==
    ASSUME NEW c \in Credits, NEW n \in Nat, Quantum > 0,
           ~HasPriority(c), n <= c.counter, n <= Threshold
    PROVE  LET d == IncrementStarvation(CheckStarvation(c))
           IN  /\ d.quantum = 0 => n + 1 <= d.counter /\ n + 1 <= Threshold
               /\ n + 1 <= Threshold + 1
  BY StarvationAssumption
  DEF Credits, IncrementStarvation, CheckStarvation, HasPriority, CounterMax

-----------------------------------------------------------------------------
\* No request has arrived.
LEMMA InitInv == Init => Inv
  BY StarvationAssumption, NoCreditTyped
  DEF Init, Inv, TypeOK, PassedCounted, Credits, NoCredit

\* The first pass and _active_discard leave every request in one place.
LEMMA ServeShape ==
    ASSUME TypeOK, NEW s \in ActiveDiscard,
           NEW out \in SUBSET (In("RUNNING") \cap Growing),
           NEW A \in Admissions(Targets(s, out), Priority(s, out),
                               Slots - Cardinality(In("RUNNING")))
    PROVE  /\ A \subseteq Reqs /\ Waiting(s, out) \subseteq Reqs
           /\ ((In("RUNNING") \ out) \cup A) \cap (Waiting(s, out) \ A) = {}
           /\ s \in [Reqs -> {"none", "WAITING", "RUNNING", "SWAPPED", "PAUSED_API"}]
  <1>1. A \subseteq Targets(s, out) BY Zenon DEF Admissions
  <1>2. out \subseteq In("RUNNING") /\ In("RUNNING") \subseteq Reqs BY DEF In
  <1>3. In("RUNNING") \cap Waiting(s, out) \subseteq out
    BY DEF ActiveDiscard, In, TypeOK, Waiting
  <1>4. s \in [Reqs -> {"none", "WAITING", "RUNNING", "SWAPPED", "PAUSED_API"}]
    BY DEF ActiveDiscard, In, TypeOK
  <1> QED BY <1>1, <1>2, <1>3, <1>4 DEF Targets, Waiting

\* One call of schedule(): a request is passed over, or it starts anew.
LEMMA ScheduleInv == ASSUME Inv, Schedule PROVE Inv'
  <1>1. PICK s \in ActiveDiscard, out \in SUBSET (In("RUNNING") \cap Growing) :
          \E A \in Admissions(Targets(s, out), Priority(s, out),
                              Slots - Cardinality(In("RUNNING"))) : Serve(s, out, A)
    BY Zenon DEF Schedule
  <1>2. PICK A \in Admissions(Targets(s, out), Priority(s, out),
                             Slots - Cardinality(In("RUNNING"))) : Serve(s, out, A)
    BY <1>1, Zenon
  <1> DEFINE runs  == (In("RUNNING") \ out) \cup A
             waits == Waiting(s, out) \ A
             checked(r) == Checked(r, s, out)
  <1>3. /\ status' = [r \in Reqs |-> IF r \in runs THEN "RUNNING"
                                     ELSE IF r \in waits THEN "WAITING" ELSE s[r]]
        /\ credit' = [r \in Reqs |->
              IF r \in runs THEN CheckResetScheduled(checked(r))
              ELSE IF r \in Counted(waits) THEN IncrementStarvation(checked(r))
                   ELSE checked(r)]
        /\ seen' = [r \in Reqs |-> seen[r] \/ r \in runs]
        /\ ran' = [r \in Reqs |-> IF r \in runs THEN ran[r] + 1 ELSE 0]
        /\ passed' = [r \in Reqs |->
              IF r \in waits \ Priority(s, out) /\ seen[r] THEN passed[r] + 1 ELSE 0]
        /\ sampled' = runs
    BY <1>2, Zenon DEF Serve
  <1>4. /\ A \subseteq Reqs /\ waits \subseteq Reqs /\ runs \subseteq Reqs
        /\ runs \cap waits = {}
        /\ s \in [Reqs -> {"none", "WAITING", "RUNNING", "SWAPPED", "PAUSED_API"}]
    BY ServeShape DEF Inv, In
  <1>6. \A r \in Reqs : credit[r] \in Credits BY DEF Inv
  <1>7. \A r \in Reqs : checked(r) \in Credits BY <1>6, CheckTyped DEF Checked
  <1>8. \A r \in waits : checked(r) = CheckStarvation(credit[r]) BY DEF Checked
  <1> HIDE DEF runs, waits, checked
  <1>9. ASSUME NEW r \in Reqs PROVE credit'[r] \in Credits
    <2>1. CASE r \in runs
      <3>1. r \notin Counted(waits) BY <1>4, <2>1 DEF Counted
      <3>2. credit'[r] = CheckResetScheduled(checked(r)) BY <1>3, <2>1, <3>1
      <3> QED BY <1>7, <3>2, ResetTyped
    <2>2. CASE r \notin runs /\ r \in Counted(waits)
      <3>1. r \in waits BY <2>2 DEF Counted
      <3>2. credit'[r] = IncrementStarvation(CheckStarvation(credit[r]))
        BY <1>3, <1>8, <2>2, <3>1
      <3> QED BY <1>6, <3>2, IncrementTyped
    <2>3. CASE r \notin runs /\ r \notin Counted(waits)
      BY <1>3, <1>7, <2>3
    <2> QED BY <2>1, <2>2, <2>3
  <1>10. TypeOK'
    <2>1. status' \in [Reqs -> {"none", "WAITING", "RUNNING", "SWAPPED", "PAUSED_API"}]
      BY <1>3, <1>4
    <2>2. seen' \in [Reqs -> BOOLEAN] BY <1>3 DEF Inv, TypeOK
    <2>3. credit' \in [Reqs -> [counter : 0..CounterMax, quantum : 0..Quantum]]
      BY <1>3, <1>9 DEF Credits
    <2>4. ran' \in [Reqs -> Nat] /\ passed' \in [Reqs -> Nat] BY <1>3 DEF Inv, TypeOK
    <2>5. pc' = "outputs" /\ sampled' \subseteq Reqs BY <1>3, <1>4 DEF Schedule
    <2> QED BY <2>1, <2>2, <2>3, <2>4, <2>5 DEF TypeOK
  <1>11. ASSUME Quantum > 0, NEW r \in Reqs PROVE PassedCounted(r)'
    <2>1. CASE r \in waits \ Priority(s, out) /\ seen[r]
      <3>1. r \in Counted(waits) /\ r \notin runs BY <1>4, <2>1 DEF Counted
      <3>2. ~HasPriority(credit[r]) BY <2>1 DEF waits, Priority
      <3>3. passed[r] <= credit[r].counter /\ passed[r] <= Threshold
        BY <1>6, <1>11, <3>2 DEF Inv, PassedCounted, HasPriority, Credits
      <3>4. /\ credit'[r] = IncrementStarvation(CheckStarvation(credit[r]))
            /\ passed'[r] = passed[r] + 1 /\ status'[r] = "WAITING"
            /\ seen'[r]
        BY <1>3, <1>8, <2>1, <3>1
      <3>5. passed[r] \in Nat BY DEF Inv, TypeOK
      <3> QED BY <1>6, <1>11, <3>2, <3>3, <3>4, <3>5, PassedOver DEF PassedCounted
    <2>2. CASE ~(r \in waits \ Priority(s, out) /\ seen[r])
      <3>1. passed'[r] = 0 BY <1>3, <2>2
      <3> QED BY <1>9, <3>1, StarvationAssumption DEF PassedCounted, Credits
    <2> QED BY <2>1, <2>2
  <1>12. \A r \in sampled' : status'[r] = "RUNNING" BY <1>3, <1>4
  <1> QED BY <1>9, <1>10, <1>11, <1>12 DEF Inv

\* The order of the second pass: whoever is admitted comes before whoever is
\* left waiting.
LEMMA ScheduleOrder ==
    ASSUME Inv, Schedule, NEW w \in Reqs, NEW a \in Reqs,
           status[w] = "WAITING", HasPriority(credit[w]), status'[w] = "WAITING",
           status[a] \in {"WAITING", "SWAPPED"}, status'[a] = "RUNNING"
    PROVE  status[a] = "WAITING" /\ HasPriority(credit[a])
  <1>1. PICK s \in ActiveDiscard, out \in SUBSET (In("RUNNING") \cap Growing) :
          \E A \in Admissions(Targets(s, out), Priority(s, out),
                              Slots - Cardinality(In("RUNNING"))) : Serve(s, out, A)
    BY Zenon DEF Schedule
  <1>2. PICK A \in Admissions(Targets(s, out), Priority(s, out),
                             Slots - Cardinality(In("RUNNING"))) : Serve(s, out, A)
    BY <1>1, Zenon
  <1>3. s = status BY DEF ActiveDiscard, In
  <1>4. status' = [r \in Reqs |->
            IF r \in (In("RUNNING") \ out) \cup A THEN "RUNNING"
            ELSE IF r \in Waiting(s, out) \ A THEN "WAITING" ELSE s[r]]
    BY <1>2, Zenon DEF Serve
  <1>5. a \in A BY <1>3, <1>4 DEF In
  <1>6. w \in Targets(s, out) \ A /\ w \in Priority(s, out)
    BY <1>3, <1>4 DEF Targets, Waiting, Priority
  <1>7. Before(a, w, Priority(s, out)) BY <1>5, <1>6, Zenon DEF Admissions
  <1>8. a \in Priority(s, out) BY <1>6, <1>7 DEF Before
  <1> QED BY <1>3, <1>8 DEF Priority, Waiting, In

\* Every step keeps the types and pays for each time a request is passed
\* over.
LEMMA StepInv == Inv /\ [Next]_vars => Inv'
  <1> SUFFICES ASSUME Inv, [Next]_vars PROVE Inv' OBVIOUS
  <1> USE StarvationAssumption
  <1>1. ASSUME NEW r \in Reqs, Arrive(r) PROVE Inv'
    BY <1>1 DEF Inv, TypeOK, PassedCounted, Arrive
  <1>2. ASSUME NEW r \in Reqs, NEW q \in {"WAITING", "SWAPPED"}, Resume(r, q) PROVE Inv'
    BY <1>2 DEF Inv, TypeOK, PassedCounted, Resume
  <1>3. CASE Schedule BY <1>3, ScheduleInv
  <1>4. CASE FinishStep
    BY <1>4 DEF Inv, TypeOK, PassedCounted, FinishStep
  <1>5. ASSUME NEW r \in Reqs, Continue(r) PROVE Inv'
    BY <1>5 DEF Inv, TypeOK, PassedCounted, Continue, Output
  <1>6. ASSUME NEW r \in Reqs, CallApi(r) PROVE Inv'
    BY <1>6, NoCreditTyped DEF Inv, TypeOK, PassedCounted, CallApi, Output, NoCredit, Credits
  <1>7. ASSUME NEW r \in Reqs, Finish(r) PROVE Inv'
    BY <1>7, NoCreditTyped DEF Inv, TypeOK, PassedCounted, Finish, Output, NoCredit, Credits
  <1>8. CASE UNCHANGED vars
    BY <1>8 DEF Inv, TypeOK, PassedCounted, vars
  <1> QED BY <1>1, <1>2, <1>3, <1>4, <1>5, <1>6, <1>7, <1>8 DEF Next, Client, Step

\* Every counter stays within its bound.
THEOREM StarvationTyped == Spec => []TypeOK
  <1>1. Inv => TypeOK BY DEF Inv
  <1> QED BY <1>1, InitInv, StepInv, PTL DEF Spec

\* A request that was scheduled before is passed over at most Threshold + 1
\* times in a row before it has priority.
THEOREM PriorityIsInTime == Spec => []PriorityInTime
  <1>1. Inv => PriorityInTime BY DEF Inv, PassedCounted, PriorityInTime
  <1> QED BY <1>1, InitInv, StepInv, PTL DEF Spec

\* The requests with priority are served first, whatever else happens in the
\* step.
THEOREM PriorityIsServedFirst == Spec => PriorityServedFirst
  <1>1. ASSUME Inv, [Next]_vars, NEW w \in Reqs, NEW a \in Reqs,
               status[w] = "WAITING", HasPriority(credit[w]), status'[w] = "WAITING",
               status[a] \in {"WAITING", "SWAPPED"}, status'[a] = "RUNNING"
        PROVE  status[a] = "WAITING" /\ HasPriority(credit[a])
    <2>1. CASE Schedule BY <1>1, <2>1, ScheduleOrder
    <2>2. CASE ~Schedule
      BY <1>1, <2>2
      DEF Next, Client, Step, Arrive, Resume, Continue, CallApi, Finish, Output,
          FinishStep, vars, Inv, TypeOK
    <2> QED BY <2>1, <2>2
  <1>2. Inv /\ [Next]_vars =>
          [ \A w, a \in Reqs :
              /\ status[w] = "WAITING" /\ HasPriority(credit[w]) /\ status'[w] = "WAITING"
              /\ status[a] \in {"WAITING", "SWAPPED"} /\ status'[a] = "RUNNING"
              => status[a] = "WAITING" /\ HasPriority(credit[a]) ]_vars
    BY <1>1
  <1> QED BY <1>2, InitInv, StepInv, PTL DEF Spec, PriorityServedFirst
=============================================================================
