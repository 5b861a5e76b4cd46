--------------------------- MODULE CacheProtocol ----------------------------
(***************************************************************************)
(* The order in which a scheduler may call the block manager within one    *)
(* step, with the number of blocks each request has on the two devices.    *)
(* The worker copies the blocks only at the end of the step, all that go   *)
(* out before all that come in; the order of the calls is what makes that  *)
(* right:                                                                  *)
(*   - whatever goes out does so before anything is allocated, and no      *)
(*     block on the CPU is given back while blocks go out;                 *)
(*   - a request that was scheduled keeps its blocks, all on the GPU,      *)
(*     until the step has been executed.                                   *)
(***************************************************************************)
EXTENDS Integers

CONSTANT Seqs

VARIABLES
    phase,       \* "idle", "evict" or "fill"
    gpu, cpu,    \* blocks of each request on the two devices
    scheduled    \* the batch under construction

protocolVars == <<phase, gpu, cpu, scheduled>>

Init ==
    /\ phase = "idle" /\ scheduled = {}
    /\ gpu = [s \in Seqs |-> 0] /\ cpu = [s \in Seqs |-> 0]

Released(s) == gpu' = [gpu EXCEPT ![s] = 0] /\ cpu' = [cpu EXCEPT ![s] = 0]

\* A request finishes or is aborted between two steps.
Release(s) == phase = "idle" /\ Released(s) /\ UNCHANGED <<phase, scheduled>>

\* schedule() begins, and may discard one request.
Begin ==
    /\ phase = "idle" /\ phase' = "evict"
    /\ UNCHANGED <<gpu, cpu>> \/ \E s \in Seqs : Released(s)
    /\ UNCHANGED scheduled

SwapOut(s) ==
    /\ phase = "evict" /\ gpu[s] > 0 /\ cpu[s] = 0
    /\ gpu' = [gpu EXCEPT ![s] = 0]
    /\ cpu' = [cpu EXCEPT ![s] = gpu[s]]
    /\ UNCHANGED <<phase, scheduled>>

Discard(s) ==
    /\ \/ phase = "evict" /\ cpu[s] = 0
       \/ phase = "fill" /\ s \notin scheduled
    /\ Released(s)
    /\ UNCHANGED <<phase, scheduled>>

StartPasses == phase = "evict" /\ phase' = "fill" /\ UNCHANGED <<gpu, cpu, scheduled>>

\* All blocks come back to the GPU, and some may be appended.
Schedule(s) ==
    /\ phase = "fill" /\ s \notin scheduled
    /\ scheduled' = scheduled \cup {s}
    /\ gpu'[s] >= gpu[s] + cpu[s]
    /\ gpu' = [gpu EXCEPT ![s] = gpu'[s]]
    /\ cpu' = [cpu EXCEPT ![s] = 0]
    /\ UNCHANGED phase

Execute ==
    /\ phase = "fill" /\ phase' = "idle"
    /\ scheduled' = {}
    /\ UNCHANGED <<gpu, cpu>>

Next ==
    \/ \E s \in Seqs : Release(s) \/ SwapOut(s) \/ Discard(s) \/ Schedule(s)
    \/ Begin \/ StartPasses \/ Execute

Spec == Init /\ [][Next]_protocolVars
=============================================================================
