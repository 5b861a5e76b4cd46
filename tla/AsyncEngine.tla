---------------------------- MODULE AsyncEngine ----------------------------
(***************************************************************************)
(* The asynchronous front of the engine                                    *)
(* (src/vllm/engine/async_llm_engine.py): the tracker that gives every     *)
(* request a stream of outputs, the background loop that steps the engine, *)
(* and the coroutines of the clients that read the streams.                *)
(*                                                                         *)
(* asyncio is cooperative: a coroutine runs until it awaits something that *)
(* is not ready.  The loop awaits in three places, and only there a client *)
(* can run: the new-request event, the sleep(0) after each step, and, if   *)
(* the workers are Ray actors, the answer of the workers.                  *)
(*                                                                         *)
(* The engine itself is reduced to what SchedulerV2 shows of it: a step    *)
(* takes a batch of the requests that are neither paused nor finished, and *)
(* after it each of them goes on, calls its API or is finished.            *)
(***************************************************************************)
EXTENDS Naturals, Sequences, FiniteSets

CONSTANTS
    Calls,         \* requests that clients make, one stream each
    Ids,
    IdOf,          \* the request id the client gives to a call
    TooLong,       \* calls that may be found to exceed the scheduler's limit
    MayLeave,      \* calls whose client may disconnect or not come back
    MayRefuse,     \* calls for which the engine's add_request may raise: their
                   \* id is no number (int(request_id)), nothing to tokenize
    MayRaise,      \* what else of the engine's step may raise: "schedule",
                   \* where SchedulerV2 is "crashed", and "workers"
    WorkerUseRay,  \* parallel_config.worker_use_ray
    MaxForwards,   \* bounds on the steps in which each request merely goes on
    MaxApiCalls    \* bound on the API calls of one request

ASSUME CallsAssumption ==
    /\ IdOf \in [Calls -> Ids]
    /\ TooLong \subseteq Calls /\ MayLeave \subseteq Calls
    /\ MayRefuse \subseteq Calls /\ MayRaise \subseteq {"schedule", "workers"}
    /\ WorkerUseRay \in BOOLEAN
    /\ MaxForwards \in [Calls -> Nat] /\ MaxApiCalls \in Nat

VARIABLES
    newRequests,       \* _new_requests
    finishedRequests,  \* _finished_requests: ids to abort in the engine
    streams,           \* _request_streams: the calls whose stream is registered
    event,             \* new_requests_event
    box,               \* what is in the queue of each stream
    client,            \* where the client of each call is
    lastOutput,        \* the output it saw last
    group,             \* the sequence group of each call in the engine, "done"
                       \* once it is in none of the scheduler's queues
    abortsLost,        \* history: the requests whose abort was taken from the
                       \* tracker and never reached the engine
    pool,              \* history: "leaky" once a request that is in no queue
                       \* may keep its blocks for good
    forwards, apiCalls,
    pc,                \* run_engine_loop
    batch,             \* scheduled_seq_groups of the step in progress
    ignored,           \* ignored_seq_groups of the step in progress
    outputs,           \* outputs of the step not yet put into streams
    outputsAgain       \* those that step_async returns a second time

tracker == <<newRequests, finishedRequests, streams, event>>
clients == <<client, lastOutput>>
engine  == <<group, abortsLost, pool, forwards, apiCalls>>
step    == <<batch, ignored, outputs, outputsAgain>>
vars == <<tracker, box, clients, engine, pc, step>>

Init ==
    /\ newRequests = {} /\ finishedRequests = {} /\ streams = {}
    /\ event = FALSE
    /\ box = [c \in Calls |-> <<>>]
    /\ client = [c \in Calls |-> "idle"]
    /\ lastOutput = [c \in Calls |-> "none"]
    /\ group = [c \in Calls |-> "none"]
    /\ abortsLost = {} /\ pool = "sound"
    /\ forwards = [c \in Calls |-> 0]
    /\ apiCalls = [c \in Calls |-> 0]
    /\ pc = "off"
    /\ batch = {} /\ ignored = {} /\ outputs = {} /\ outputsAgain = {}

-----------------------------------------------------------------------------
(* The tracker.                                                            *)

Registered(id) == {c \in streams : IdOf[c] = id}

Queued == {c \in Calls : group[c] = "queued"}
Paused == {c \in Calls : group[c] = "paused"}

\* Variant: the stream stays registered.
AbortKeepingStream(id) ==
    /\ finishedRequests' = finishedRequests \cup {id}
    /\ box' = [c \in Calls |-> IF c \in Registered(id)
                               THEN Append(box[c], "stop") ELSE box[c]]
    /\ UNCHANGED streams

\* Variant: the engine is not told.
AbortStreamOnly(id) ==
    /\ streams' = streams \ Registered(id)
    /\ box' = [c \in Calls |-> IF c \in Registered(id)
                               THEN Append(box[c], "stop") ELSE box[c]]
    /\ UNCHANGED finishedRequests

\* abort_request.  It leaves the event alone.
AbortRequest(id) ==
    /\ finishedRequests' = finishedRequests \cup {id}
    /\ streams' = streams \ Registered(id)
    /\ box' = [c \in Calls |-> IF c \in Registered(id)
                               THEN Append(box[c], "stop") ELSE box[c]]

-----------------------------------------------------------------------------
(* The clients.                                                            *)

\* Variant: clients run while the workers do.
ClientsAlwaysRun == pc # "delivering"

\* Where a coroutine of a client may run.
ClientsRun == pc \in {"off", "waiting", "yielding"}
                 \/ (WorkerUseRay /\ pc = "executing")

\* A client uses an id for one request at a time.
IdInUse(id) ==
    \E c \in Calls : IdOf[c] = id /\ client[c] \in {"reading", "calling", "left"}

\* generate up to its first wait: starts the loop if it is not running, with
\* a new event, and add_request sets it.
Generate(c) ==
    /\ ClientsRun
    /\ client[c] = "idle"
    /\ ~IdInUse(IdOf[c])
    /\ pc' = IF pc = "off" THEN "waiting" ELSE pc
    /\ newRequests' = newRequests \cup {c}
    /\ event' = TRUE
    /\ client' = [client EXCEPT ![c] = "reading"]
    /\ UNCHANGED <<finishedRequests, streams, box, lastOutput, engine, step>>

\* __anext__: one item of the stream.  StopIteration ends the iteration: the
\* client of a paused request goes on to call its API.
Receive(c) ==
    /\ ClientsRun
    /\ client[c] = "reading"
    /\ box[c] # <<>>
    /\ \/ /\ Head(box[c]) \in {"partial", "paused", "final"}
          /\ lastOutput' = [lastOutput EXCEPT ![c] = Head(box[c])]
          /\ UNCHANGED client
       \/ /\ Head(box[c]) = "stop"
          /\ client' = [client EXCEPT ![c] = IF lastOutput[c] = "paused"
                                             THEN "calling" ELSE "done"]
          /\ UNCHANGED lastOutput
    /\ box' = [box EXCEPT ![c] = Tail(@)]
    /\ UNCHANGED <<tracker, engine, pc, step>>

\* The exception of a dead loop: generate aborts the request and raises it.
ReceiveError(c) ==
    /\ ClientsRun
    /\ client[c] = "reading"
    /\ box[c] # <<>> /\ Head(box[c]) = "error"
    /\ client' = [client EXCEPT ![c] = "failed"]
    /\ AbortRequest(IdOf[c])
    /\ UNCHANGED <<newRequests, event, lastOutput, engine, pc, step>>

\* The client disconnects while it reads: generate or resume_request is
\* cancelled, or the server calls abort.
Cancel(c) ==
    /\ ClientsRun /\ c \in MayLeave
    /\ client[c] = "reading"
    /\ client' = [client EXCEPT ![c] = "gone"]
    /\ AbortRequest(IdOf[c])
    /\ UNCHANGED <<newRequests, event, lastOutput, engine, pc, step>>

\* The client never comes back from its API call: nobody tells the engine.
Leave(c) ==
    /\ ClientsRun /\ c \in MayLeave
    /\ client[c] = "calling"
    /\ client' = [client EXCEPT ![c] = "left"]
    /\ UNCHANGED <<tracker, box, lastOutput, engine, pc, step>>

\* Variant: the loop is not woken.
ResumeSilently(c) ==
    /\ ClientsRun
    /\ client[c] = "calling"
    /\ group' = [group EXCEPT ![c] = "queued"]
    /\ client' = [client EXCEPT ![c] = "reading"]
    /\ lastOutput' = [lastOutput EXCEPT ![c] = "none"]
    /\ UNCHANGED <<tracker, box, abortsLost, pool, forwards, apiCalls, pc, step>>

\* resume_request and resume_request_single: the engine is called at once,
\* then the loop is woken and the same stream is read again.
ResumeRequest(c) ==
    /\ ClientsRun
    /\ client[c] = "calling"
    /\ group' = [group EXCEPT ![c] = "queued"]
    /\ event' = TRUE
    /\ client' = [client EXCEPT ![c] = "reading"]
    /\ lastOutput' = [lastOutput EXCEPT ![c] = "none"]
    /\ UNCHANGED <<newRequests, finishedRequests, streams, box, abortsLost, pool,
                   forwards, apiCalls, pc, step>>

-----------------------------------------------------------------------------
(* The background loop.                                                    *)

\* The new requests that the engine gets: those whose id is not about to be
\* aborted.
Accepted == {c \in newRequests : IdOf[c] \notin finishedRequests}

\* Variant: _engine_abort is not called.
GroupsNotAborted ==
    [c \in Calls |-> IF c \in Accepted THEN "queued" ELSE group[c]]

\* add_request for the accepted, then abort_request, which finds no paused
\* group.
GroupsAfterIntake ==
    [c \in Calls |->
        IF c \in Accepted THEN "queued"
        ELSE IF group[c] = "queued" /\ IdOf[c] \in finishedRequests THEN "done"
        ELSE group[c]]

\* The requests that schedule() finds in its three queues.
Ready == {c \in Calls : GroupsAfterIntake[c] = "queued"}

\* get_new_and_finished_requests, at the start of every engine_step
TakeRequests ==
    /\ pc = "yielding" \/ (pc = "waiting" /\ event)
    /\ streams' = {c \in streams : IdOf[c] \notin finishedRequests} \cup Accepted
    /\ newRequests' = {} /\ finishedRequests' = {} /\ event' = FALSE

\* A new request that is aborted already gets a stream that has ended.
BoxAfterIntake ==
    [c \in Calls |-> IF c \in newRequests \ Accepted THEN Append(box[c], "stop")
                                                     ELSE box[c]]

\* engine_step as far as the workers, if nothing raises: the calls of the
\* engine that the tracker asks for, and schedule().  An empty batch is
\* returned only with nobody to serve or behind a paused request
\* (SchedulerV2!EmptyOnlyBehindPaused), or where blocks have leaked: a request
\* that has run and is ignored keeps its own.  In the last two cases the
\* workers may be called only to copy swapped blocks (copies).
StartStep(b, i, copies) ==
    /\ TakeRequests
    /\ box' = BoxAfterIntake
    /\ b \cap i = {}
    /\ pool' = IF \E c \in i : forwards[c] + apiCalls[c] > 0 THEN "leaky" ELSE pool
    /\ b = {} => (Ready = i /\ ~copies) \/ Paused # {} \/ pool' = "leaky"
    /\ group' = [c \in Calls |-> IF c \in i THEN "done" ELSE GroupsAfterIntake[c]]
    /\ batch' = b
    /\ LET empty == b = {} /\ ~copies      \* is_empty()
       IN  /\ ignored' = IF empty THEN {} ELSE i
           /\ outputs' = IF empty THEN i ELSE {}
           /\ pc' = IF ~empty THEN "executing"
                    ELSE IF i # {} THEN "delivering" ELSE "waiting"
    /\ UNCHANGED <<clients, abortsLost, forwards, apiCalls, outputsAgain>>

\* What is in the queues b when the loop has ended with an exception:
\* _raise_exception_on_finish puts it into each of the registered streams s.
WithException(b, s) ==
    [c \in Calls |-> IF c \in s THEN Append(b[c], "error") ELSE b[c]]

\* add_request of the engine raises for one of the new requests.  Some have
\* been added before it; the others have a stream and no group, and the aborts
\* that were taken from the tracker are not made.
AddRequestRaises(refused, added) ==
    /\ TakeRequests
    /\ refused \in Accepted \cap MayRefuse
    /\ added \subseteq Accepted \ {refused}
    /\ group' = [c \in Calls |-> IF c \in added THEN "queued" ELSE group[c]]
    /\ abortsLost' = abortsLost \cup {c \in Queued : IdOf[c] \in finishedRequests}
    /\ box' = WithException(BoxAfterIntake, streams')
    /\ pc' = "off"
    /\ UNCHANGED <<clients, pool, forwards, apiCalls, step>>

\* schedule() raises.  Its first pass pops the requests from self.running, and
\* those it has not put back are lost, with their blocks.  The next loop finds
\* the scheduler as it was left.
ScheduleRaises(lost) ==
    /\ TakeRequests
    /\ "schedule" \in MayRaise
    /\ Ready # {} /\ lost \subseteq Ready
    /\ group' = [c \in Calls |-> IF c \in lost THEN "done" ELSE GroupsAfterIntake[c]]
    /\ pool' = "leaky"
    /\ box' = WithException(BoxAfterIntake, streams')
    /\ pc' = "off"
    /\ UNCHANGED <<clients, abortsLost, forwards, apiCalls, step>>

\* execute_model raises: the batch stays in the queues of the scheduler.
WorkersRaise ==
    /\ pc = "executing"
    /\ "workers" \in MayRaise
    /\ box' = WithException(box, streams)
    /\ batch' = {} /\ ignored' = {}
    /\ pc' = "off"
    /\ UNCHANGED <<tracker, clients, engine, outputs, outputsAgain>>

\* _process_model_outputs: each request of the batch goes on, calls its API
\* or is finished.  Its result holds the ignored groups, and step_async adds
\* them again.  After a step without outputs the loop sleeps.
FinishWorkers(going, calling) ==
    /\ pc = "executing"
    /\ going \subseteq {c \in batch : forwards[c] < MaxForwards[c]}
    /\ calling \subseteq {c \in batch \ going : apiCalls[c] < MaxApiCalls}
    /\ group' = [c \in Calls |->
                    IF c \in calling THEN "paused"
                    ELSE IF c \in batch \ going THEN "done" ELSE group[c]]
    /\ forwards' = [c \in Calls |-> IF c \in going THEN forwards[c] + 1
                                    ELSE forwards[c]]
    /\ apiCalls' = [c \in Calls |-> IF c \in calling THEN apiCalls[c] + 1
                                    ELSE apiCalls[c]]
    /\ outputs' = batch \cup ignored
    /\ outputsAgain' = ignored
    /\ batch' = {} /\ ignored' = {}
    /\ pc' = IF batch \cup ignored = {} THEN "waiting" ELSE "delivering"
    /\ UNCHANGED <<tracker, box, clients, abortsLost, pool>>

\* Variant: a stream is stopped before it gets the output.
ItemsStopFirst(c) ==
    IF group[c] = "done" THEN <<"stop", "final">> ELSE <<"paused", "stop">>

\* Variant: the stream of a paused request is not stopped.
ItemsWithoutPause(c) ==
    IF group[c] = "done" THEN <<"final", "stop">> ELSE <<"paused">>

\* What process_request_output puts into the stream of a request that is
\* finished or paused.
LastItems(c) ==
    IF group[c] = "done" THEN <<"final", "stop">> ELSE <<"paused", "stop">>

\* process_request_output for a registered stream s: put, then abort_request
\* if the output is finished or pause if it is paused.
PutOutput(c, s) ==
    /\ box' = [box EXCEPT ![s] = @ \o IF group[c] = "queued" THEN <<"partial">>
                                                         ELSE LastItems(c)]
    /\ streams' = IF group[c] = "done" THEN streams \ {s} ELSE streams
    /\ finishedRequests' = IF group[c] = "done"
                           THEN finishedRequests \cup {IdOf[c]} ELSE finishedRequests
    /\ UNCHANGED <<newRequests, event>>

\* The next output of the step; outputsAgain come last.
IsNextOutput(c) ==
    /\ pc = "delivering"
    /\ c \in outputs \/ (outputs = {} /\ c \in outputsAgain)

\* Variant: the loop goes on after the outputs of the batch.
LastOfBatch(c) == outputs = {c}

IsLastOutput(c) == IF outputs = {} THEN outputsAgain = {c}
                                   ELSE outputs = {c} /\ outputsAgain = {}

Deliver(c) ==
    /\ IsNextOutput(c)
    /\ \E s \in Registered(IdOf[c]) : PutOutput(c, s)
    /\ outputs' = outputs \ {c}
    /\ outputsAgain' = IF outputs = {} THEN outputsAgain \ {c} ELSE outputsAgain
    /\ pc' = IF IsLastOutput(c) THEN "yielding" ELSE pc
    /\ UNCHANGED <<clients, engine, batch, ignored>>

\* KeyError: no stream is registered for the output, and the loop ends.
Die(c) ==
    /\ IsNextOutput(c)
    /\ Registered(IdOf[c]) = {}
    /\ box' = WithException(box, streams)
    /\ outputs' = {} /\ outputsAgain' = {}
    /\ pc' = "off"
    /\ UNCHANGED <<tracker, clients, engine, batch, ignored>>

-----------------------------------------------------------------------------
Client(c) == Generate(c) \/ Receive(c) \/ ReceiveError(c) \/ Cancel(c)
                \/ Leave(c) \/ ResumeRequest(c)

Loop ==
    \/ \E b \in SUBSET Ready, i \in SUBSET (Ready \cap TooLong), copies \in BOOLEAN :
          StartStep(b, i, copies)
    \/ \E refused \in Accepted, added \in SUBSET Accepted : AddRequestRaises(refused, added)
    \/ \E lost \in SUBSET Ready : ScheduleRaises(lost)
    \/ WorkersRaise
    \/ \E going, calling \in SUBSET batch : FinishWorkers(going, calling)
    \/ \E c \in Calls : Deliver(c) \/ Die(c)

Next == Loop \/ \E c \in Calls : Client(c)

Spec == Init /\ [][Next]_vars

\* The loop goes on and the clients read on: asyncio runs what is ready at
\* every suspension, and the loop suspends after every step.  No request is
\* left out of the batches forever (SchedulerV2!EveryRequestFinishes), and a
\* client that neither leaves nor disconnects resumes.
Fairness ==
    /\ WF_vars(Loop)
    /\ \A c \in Calls :
          /\ SF_vars(Receive(c))
          /\ SF_vars(ReceiveError(c))
          /\ SF_vars(ResumeRequest(c))
          /\ SF_vars(\E b \in SUBSET Ready, i \in SUBSET (Ready \cap TooLong),
                        copies \in BOOLEAN :
                      c \in b \cup i /\ StartStep(b, i, copies))

FairSpec == Spec /\ Fairness

-----------------------------------------------------------------------------
Items == {"partial", "paused", "final", "stop", "error"}

\* The type invariant; outputs are pending exactly while they are delivered.
TypeOK ==
    /\ newRequests \subseteq Calls
    /\ finishedRequests \subseteq Ids
    /\ streams \subseteq Calls
    /\ event \in BOOLEAN
    /\ box \in [Calls -> Seq(Items)]
    /\ client \in [Calls -> {"idle", "reading", "calling", "done", "failed",
                             "gone", "left"}]
    /\ lastOutput \in [Calls -> {"none", "partial", "paused", "final"}]
    /\ group \in [Calls -> {"none", "queued", "paused", "done"}]
    /\ abortsLost \subseteq Calls /\ pool \in {"sound", "leaky"}
    /\ forwards \in [Calls -> Nat] /\ apiCalls \in [Calls -> Nat]
    /\ pc \in {"off", "waiting", "yielding", "executing", "delivering"}
    /\ batch \subseteq Calls /\ ignored \subseteq Calls
    /\ outputs \subseteq Calls /\ outputsAgain \subseteq Calls
    /\ pc = "delivering" <=> outputs \cup outputsAgain # {}

\* "Task finished unexpectedly. This should never happen!"
\* (_raise_exception_on_finish): the loop, once started, does not end.
LoopNeverDies == [][pc # "off" => pc' # "off"]_vars

\* Where the engine itself may raise, and so end the loop of everybody: for a
\* new request, in schedule(), or in the workers.
EngineMayRaise ==
    \/ pc \in {"waiting", "yielding"} /\ Accepted \cap MayRefuse # {}
    \/ pc \in {"waiting", "yielding"} /\ Ready # {} /\ "schedule" \in MayRaise
    \/ pc = "executing" /\ "workers" \in MayRaise

\* Where the engine does not raise, the loop dies of three things only: the
\* output of a request that was aborted while the workers ran (the step began
\* with no abort outstanding), that of a request whose abort an earlier
\* exception swallowed, and the second output of an ignored request.
DeathExplained ==
    [][(pc # "off" /\ pc' = "off") =>
          \/ EngineMayRaise
          \/ \E c \in outputs : IdOf[c] \in finishedRequests \/ c \in abortsLost
          \/ outputs = {} /\ outputsAgain # {}]_vars

\* A stream that ends without an exception has given an output that is
\* finished or paused: the servers assert that final_output is not None.
AnsweredInFull == \A c \in Calls : client[c] = "done" => lastOutput[c] = "final"

\* Nobody waits on a stream that nothing will write to, a client that is
\* calling its API finds its stream when it resumes, and an id whose client
\* has seen the end can be used again (add_request raises KeyError for a
\* registered id).
StreamsMatchClients ==
    \A c \in Calls :
        /\ client[c] = "reading" => c \in streams \cup newRequests \/ box[c] # <<>>
        /\ client[c] = "calling" => c \in streams /\ group[c] = "paused"
        /\ client[c] \in {"idle", "done", "failed", "gone"} => c \notin streams

\* The engine generates only for requests whose outputs somebody can receive,
\* or that it is told to abort before the next schedule(): an abort is lost
\* only when add_request raises in the step that takes it.
NoOrphanInEngine ==
    \A c \in Queued : c \in streams \/ IdOf[c] \in finishedRequests \/ c \in abortsLost

\* The loop never sleeps on work: while it waits for an event that is not
\* set, there is no new request, and a request of the engine is left only
\* behind one that is paused or behind blocks that have leaked.
NoLostWakeup ==
    pc = "waiting" /\ ~event =>
        newRequests = {} /\ (Queued = {} \/ Paused # {} \/ pool = "leaky")

\* A request whose client went away while it was paused.
Abandoned == \E c \in Paused : client[c] \in {"gone", "left", "failed"}

\* Every client that reads gets to the end of its stream, unless memory is
\* kept for good, because a paused request was abandoned or blocks have leaked,
\* or the loop is dead and nobody starts it again.
EveryClientAnswered ==
    \A c \in Calls : client[c] = "reading" ~>
        client[c] # "reading" \/ Abandoned \/ pool = "leaky" \/ pc = "off"
=============================================================================
