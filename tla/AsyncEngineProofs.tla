------------------------- MODULE AsyncEngineProofs -------------------------
(* Proofs about AsyncEngine, for any number of calls and either kind of    *)
(* worker, when no two calls have the same id.                             *)
EXTENDS AsyncEngine, TLAPS

UniqueIds == \A c, d \in Calls : IdOf[c] = IdOf[d] => c = d

-----------------------------------------------------------------------------
(* The inductive invariant.                                                *)

\* The id of c waits to be aborted in the engine.
Pending(c) == IdOf[c] \in finishedRequests

Holds(c, item) == \E i \in 1 .. Len(box[c]) : box[c][i] = item

\* The client of c has seen, or will see, that it is paused.
PauseSent(c) == lastOutput[c] = "paused" \/ Holds(c, "paused")

\* The item of c before the i-th, where the first follows the last one read.
Before(c, i) == IF i = 1 THEN lastOutput[c] ELSE box[c][i - 1]

\* What is new has touched nothing yet.
FreshInv ==
    /\ \A c \in newRequests :
          /\ group[c] = "none" /\ box[c] = <<>> /\ c \notin streams
          /\ client[c] = "reading" \/ (client[c] = "gone" /\ Pending(c))
    /\ \A c \in Calls : client[c] = "idle" =>
          /\ group[c] = "none" /\ box[c] = <<>> /\ lastOutput[c] = "none"
          /\ c \notin streams

\* Streams, clients and groups agree.
StreamInv ==
    /\ NoOrphanInEngine
    /\ \A c \in Calls :
          /\ Pending(c) => /\ c \notin streams
                           /\ group[c] = "done" \/ client[c] \in {"gone", "failed"}
          /\ group[c] = "paused" /\ client[c] \in {"reading", "calling"}
                => c \in streams
          /\ client[c] = "calling" => group[c] = "paused"
          /\ client[c] \in {"done", "failed", "gone"} => c \notin streams
    /\ \A c \in abortsLost : client[c] \in {"gone", "failed"}

\* What c writes to is there, or its client has gone.
HasStream(c) == c \in streams \/ Pending(c) \/ c \in abortsLost

\* Every output of the step has a stream, or its request was aborted since.
OutputInv ==
    /\ pc = "executing" =>
          /\ \A c \in batch : group[c] = "queued"
          /\ \A c \in ignored : group[c] = "done" /\ HasStream(c)
    /\ \A c \in outputs :
          /\ HasStream(c)
          /\ group[c] # "none" /\ client[c] # "calling"
          /\ client[c] = "reading" /\ group[c] = "paused" => ~PauseSent(c)
    /\ \A c \in outputsAgain : group[c] = "done"

\* What a client will read: every stop comes after the output it belongs to,
\* and after the stop of a pause nothing but exceptions until the resume.
BoxOf(c) ==
    /\ client[c] = "reading" =>
          /\ PauseSent(c) => group[c] = "paused"
          /\ lastOutput[c] = "final" \/ Holds(c, "final")
                => c \notin streams /\ group[c] = "done"
          /\ \A i \in 1 .. Len(box[c]) : box[c][i] = "stop" =>
                /\ Before(c, i) \in {"paused", "final"}
                /\ Before(c, i) = "paused" =>
                      \A j \in i + 1 .. Len(box[c]) : box[c][j] = "error"
          /\ c \notin streams \cup newRequests =>
                Holds(c, "stop") \/ Holds(c, "error")
    /\ client[c] = "calling" =>
          \A i \in 1 .. Len(box[c]) : box[c][i] = "error"

BoxInv == \A c \in Calls : BoxOf(c)

Inv == TypeOK /\ FreshInv /\ StreamInv /\ OutputInv /\ BoxInv /\ AnsweredInFull

-----
(* Sequences.                                                              *)

\* Taking the first item off a stream.
LEMMA TailFacts ==
    ASSUME NEW s \in Seq(Items), s # <<>>
    PROVE  /\ Tail(s) \in Seq(Items)
           /\ Len(s) \in Nat /\ Len(s) >= 1
           /\ Len(Tail(s)) = Len(s) - 1
           /\ Head(s) = s[1]
           /\ \A i \in 1 .. Len(s) - 1 : Tail(s)[i] = s[i + 1]
  OBVIOUS

\* Putting one item.
LEMMA AppendFacts ==
    ASSUME NEW s \in Seq(Items), NEW x \in Items
    PROVE  /\ Append(s, x) \in Seq(Items)
           /\ Append(s, x) # <<>>
           /\ Len(s) \in Nat
           /\ Len(Append(s, x)) = Len(s) + 1
           /\ Append(s, x)[Len(s) + 1] = x
           /\ \A i \in 1 .. Len(s) : Append(s, x)[i] = s[i]
  OBVIOUS

\* Putting an output and a stop.
LEMMA PairFacts ==
    ASSUME NEW s \in Seq(Items), NEW x \in Items, NEW y \in Items
    PROVE  /\ s \o <<x, y>> \in Seq(Items)
           /\ Len(s) \in Nat
           /\ Len(s \o <<x, y>>) = Len(s) + 2
           /\ (s \o <<x, y>>)[Len(s) + 1] = x
           /\ (s \o <<x, y>>)[Len(s) + 2] = y
           /\ \A i \in 1 .. Len(s) : (s \o <<x, y>>)[i] = s[i]
  OBVIOUS

\* Putting one output.
LEMMA SingleFacts ==
    ASSUME NEW s \in Seq(Items), NEW x \in Items
    PROVE  /\ s \o <<x>> \in Seq(Items)
           /\ Len(s) \in Nat
           /\ Len(s \o <<x>>) = Len(s) + 1
           /\ (s \o <<x>>)[Len(s) + 1] = x
           /\ \A i \in 1 .. Len(s) : (s \o <<x>>)[i] = s[i]
  OBVIOUS

-----------------------------------------------------------------------------
(* Every step preserves the invariant.                                     *)

\* No client has called and the loop is not started.
LEMMA InitInv == ASSUME Init PROVE Inv
  <1>1. TypeOK
    <2>1. box \in [Calls -> Seq(Items)]
      BY DEF Init
    <2>2. event \in BOOLEAN
      BY DEF Init
    <2> QED BY <2>1, <2>2 DEF Init, TypeOK
  <1>2. FreshInv
    BY DEF Init, FreshInv
  <1>3. StreamInv
    BY DEF Init, StreamInv, NoOrphanInEngine, Queued, Pending
  <1>4. OutputInv
    BY DEF Init, OutputInv
  <1>5. BoxInv /\ AnsweredInFull
    BY DEF Init, BoxInv, BoxOf, AnsweredInFull
  <1> QED BY <1>1, <1>2, <1>3, <1>4, <1>5 DEF Inv

\* A new request: everything about it is still empty.
LEMMA GenerateInv ==
    ASSUME Inv, NEW c \in Calls, Generate(c)
    PROVE  Inv'
  <1>1. TypeOK'
    <2>1. box' \in [Calls -> Seq(Items)] /\ event' \in BOOLEAN
      BY DEF Inv, TypeOK, Generate
    <2>2. client' \in [Calls -> {"idle", "reading", "calling", "done", "failed",
                                "gone", "left"}]
      BY DEF Inv, TypeOK, Generate
    <2> QED BY <2>1, <2>2 DEF Inv, TypeOK, Generate, ClientsRun, engine, step
  <1>2. /\ client[c] = "idle" /\ client'[c] = "reading"
        /\ \A d \in Calls \ {c} : client'[d] = client[d]
        /\ newRequests' = newRequests \cup {c}
        /\ pc' = "executing" <=> pc = "executing"
        /\ outputs = {} /\ outputsAgain = {}
    BY DEF Inv, TypeOK, Generate, ClientsRun
  <1>3. UNCHANGED <<finishedRequests, streams, box, lastOutput, group, abortsLost,
                    pool, batch, ignored, outputs, outputsAgain>>
    BY DEF Generate, engine, step
  <1>4. FreshInv'
    BY <1>2, <1>3 DEF Inv, TypeOK, FreshInv, Pending
  <1>5. StreamInv'
    BY <1>2, <1>3
       DEF Inv, TypeOK, FreshInv, StreamInv, NoOrphanInEngine, Queued, Pending
  <1>6. OutputInv'
    BY <1>2, <1>3 DEF Inv, OutputInv, HasStream, Pending
  <1>7. BoxInv'
    BY <1>2, <1>3 DEF Inv, FreshInv, BoxInv, BoxOf, PauseSent, Holds, Before
  <1>8. AnsweredInFull'
    BY <1>2, <1>3 DEF Inv, AnsweredInFull
  <1> QED BY <1>1, <1>4, <1>5, <1>6, <1>7, <1>8 DEF Inv

\* abort_request touches one stream when ids are unique.
LEMMA AbortFacts ==
    ASSUME Inv, UniqueIds, NEW c \in Calls, AbortRequest(IdOf[c])
    PROVE  /\ streams' = streams \ {c}
           /\ finishedRequests' \subseteq Ids
           /\ \A d \in Calls : Pending(d)' <=> (d = c \/ Pending(d))
           /\ box' \in [Calls -> Seq(Items)]
           /\ \A d \in Calls \ {c} : box'[d] = box[d]
           /\ c \notin streams => box'[c] = box[c]
  <1>1. Registered(IdOf[c]) = streams \cap {c}
    BY DEF Inv, TypeOK, Registered, UniqueIds
  <1>2. \A d \in Calls : Append(box[d], "stop") \in Seq(Items)
    BY DEF Inv, TypeOK, Items
  <1>3. box' \in [Calls -> Seq(Items)]
    BY <1>1, <1>2 DEF Inv, TypeOK, AbortRequest
  <1>4. finishedRequests' \subseteq Ids
    BY CallsAssumption DEF Inv, TypeOK, AbortRequest
  <1>5. \A d \in Calls : Pending(d)' <=> (d = c \/ Pending(d))
    BY CallsAssumption DEF AbortRequest, Pending, UniqueIds
  <1> QED BY <1>1, <1>3, <1>4, <1>5 DEF AbortRequest

\* A client goes away, of its own will or with an exception: its request
\* loses its stream and waits to be aborted.
LEMMA GoneInv ==
    ASSUME Inv, UniqueIds, NEW c \in Calls, NEW end \in {"gone", "failed"},
           client[c] = "reading", end = "failed" => box[c] # <<>>,
           pc # "delivering",
           client' = [client EXCEPT ![c] = end], AbortRequest(IdOf[c]),
           UNCHANGED <<newRequests, event, lastOutput, engine, pc, step>>
    PROVE  Inv'
  <1>1. /\ client' \in [Calls -> {"idle", "reading", "calling", "done", "failed",
                                  "gone", "left"}]
        /\ client'[c] = end
        /\ \A d \in Calls \ {c} : client'[d] = client[d]
    BY DEF Inv, TypeOK
  <1>2. /\ streams' = streams \ {c}
        /\ finishedRequests' \subseteq Ids
        /\ \A d \in Calls : Pending(d)' <=> (d = c \/ Pending(d))
        /\ box' \in [Calls -> Seq(Items)]
        /\ \A d \in Calls \ {c} : box'[d] = box[d]
        /\ c \notin streams => box'[c] = box[c]
    BY AbortFacts
  <1>3. UNCHANGED <<newRequests, event, lastOutput, group, abortsLost, pool,
                    forwards, apiCalls, pc, batch, ignored, outputs, outputsAgain>>
    BY DEF engine, step
  <1>4. outputs = {} /\ outputsAgain = {}
    BY DEF Inv, TypeOK
  <1>5. TypeOK'
    <2>1. event' \in BOOLEAN
      BY <1>3 DEF Inv, TypeOK
    <2> QED BY <1>1, <1>2, <1>3, <2>1 DEF Inv, TypeOK
  <1>6. FreshInv'
    BY <1>1, <1>2, <1>3 DEF Inv, TypeOK, FreshInv
  <1>7. StreamInv'
    <2>1. \A d \in Calls : group'[d] = "queued" => HasStream(d)'
      BY <1>1, <1>2, <1>3 DEF Inv, StreamInv, NoOrphanInEngine, Queued, HasStream, Pending
    <2> QED BY <1>1, <1>2, <1>3, <2>1
            DEF Inv, TypeOK, StreamInv, NoOrphanInEngine, Queued, HasStream, Pending
  <1>8. OutputInv'
    BY <1>1, <1>2, <1>3, <1>4 DEF Inv, TypeOK, OutputInv, HasStream
  <1>9. BoxInv'
    <2> SUFFICES ASSUME NEW d \in Calls \ {c}
                 PROVE  (BoxOf(d))'
      BY <1>1 DEF BoxInv, BoxOf
    <2>1. box'[d] = box[d] /\ client'[d] = client[d] /\ lastOutput'[d] = lastOutput[d]
      BY <1>1, <1>2, <1>3
    <2>2. d \in streams' <=> d \in streams
      BY <1>2
    <2>3. BoxOf(d)
      BY DEF Inv, BoxInv
    <2> QED BY <1>3, <2>1, <2>2, <2>3 DEF BoxOf, PauseSent, Holds, Before
  <1>10. AnsweredInFull'
    BY <1>1, <1>3 DEF Inv, AnsweredInFull
  <1> QED BY <1>5, <1>6, <1>7, <1>8, <1>9, <1>10 DEF Inv

\* A client that goes away takes its stream and its group with it.
LEMMA CancelInv ==
    ASSUME Inv, UniqueIds, NEW c \in Calls, Cancel(c)
    PROVE  Inv'
  <1>1. pc # "delivering"
    BY DEF Cancel, ClientsRun
  <1> QED BY <1>1, GoneInv DEF Cancel

\* A client that receives the exception of its stream is done.
LEMMA ReceiveErrorInv ==
    ASSUME Inv, UniqueIds, NEW c \in Calls, ReceiveError(c)
    PROVE  Inv'
  <1>1. pc # "delivering"
    BY DEF ReceiveError, ClientsRun
  <1> QED BY <1>1, GoneInv DEF ReceiveError

\* A client stays away: nothing that was promised to it is promised still.
LEMMA LeaveInv ==
    ASSUME Inv, NEW c \in Calls, Leave(c)
    PROVE  Inv'
  <1>1. /\ client' \in [Calls -> {"idle", "reading", "calling", "done", "failed",
                                  "gone", "left"}]
        /\ client[c] = "calling" /\ client'[c] = "left"
        /\ \A d \in Calls \ {c} : client'[d] = client[d]
    BY DEF Inv, TypeOK, Leave
  <1>2. UNCHANGED <<newRequests, finishedRequests, streams, event, box, lastOutput,
                    group, abortsLost, pool, forwards, apiCalls, pc, batch, ignored,
                    outputs, outputsAgain>>
    BY DEF Leave, tracker, engine, step
  <1>3. TypeOK'
    <2>1. event' \in BOOLEAN
      BY <1>2 DEF Inv, TypeOK
    <2> QED BY <1>1, <1>2, <2>1 DEF Inv, TypeOK
  <1>4. FreshInv'
    BY <1>1, <1>2 DEF Inv, TypeOK, FreshInv, Pending
  <1>5. StreamInv'
    BY <1>1, <1>2 DEF Inv, TypeOK, StreamInv, NoOrphanInEngine, Queued, Pending
  <1>6. OutputInv'
    <2>1. \A d \in Calls : PauseSent(d)' <=> PauseSent(d)
      BY <1>2 DEF PauseSent, Holds
    <2>2. \A d \in Calls : client'[d] \in {"reading", "calling"}
                               => client'[d] = client[d]
      BY <1>1
    <2>3. outputs \subseteq Calls
      BY DEF Inv, TypeOK
    <2> QED BY <1>2, <2>1, <2>2, <2>3 DEF Inv, OutputInv, HasStream, Pending
  <1>7. BoxInv'
    BY <1>1, <1>2 DEF Inv, BoxInv, BoxOf, PauseSent, Holds, Before
  <1>8. AnsweredInFull'
    BY <1>1, <1>2 DEF Inv, AnsweredInFull
  <1> QED BY <1>3, <1>4, <1>5, <1>6, <1>7, <1>8 DEF Inv

\* A client takes the first item.  A stop sends it to its API call if the item
\* before it was a pause, and then only exceptions can be left.
LEMMA ReceiveInv ==
    ASSUME Inv, NEW c \in Calls, Receive(c)
    PROVE  Inv'
  <1> DEFINE x == Head(box[c])
             n == Len(box[c])
  <1>1. /\ box[c] \in Seq(Items) /\ box[c] # <<>>
        /\ client[c] = "reading"
        /\ pc # "delivering"
    BY DEF Inv, TypeOK, Receive, ClientsRun
  <1>2. /\ Tail(box[c]) \in Seq(Items)
        /\ n \in Nat /\ n >= 1 /\ Len(Tail(box[c])) = n - 1
        /\ x = box[c][1]
        /\ \A i \in 1 .. n - 1 : Tail(box[c])[i] = box[c][i + 1]
    BY <1>1, TailFacts
  <1>3. /\ box' \in [Calls -> Seq(Items)]
        /\ box'[c] = Tail(box[c])
        /\ \A d \in Calls \ {c} : box'[d] = box[d]
    BY <1>2 DEF Inv, TypeOK, Receive
  <1>4. UNCHANGED <<newRequests, finishedRequests, streams, event, group, abortsLost,
                    pool, forwards, apiCalls, pc, batch, ignored, outputs, outputsAgain>>
    BY DEF Receive, tracker, engine, step
  <1>5. outputs = {} /\ outputsAgain = {}
    BY <1>1 DEF Inv, TypeOK
  <1>6. \/ /\ x \in {"partial", "paused", "final"}
           /\ lastOutput' = [lastOutput EXCEPT ![c] = x]
           /\ client' = client
        \/ /\ x = "stop" /\ lastOutput[c] = "paused"
           /\ client' = [client EXCEPT ![c] = "calling"]
           /\ lastOutput' = lastOutput
        \/ /\ x = "stop" /\ lastOutput[c] # "paused"
           /\ client' = [client EXCEPT ![c] = "done"]
           /\ lastOutput' = lastOutput
    BY DEF Receive
  <1>7. /\ lastOutput' \in [Calls -> {"none", "partial", "paused", "final"}]
        /\ client' \in [Calls -> {"idle", "reading", "calling", "done", "failed",
                                  "gone", "left"}]
        /\ \A d \in Calls \ {c} : /\ client'[d] = client[d]
                                  /\ lastOutput'[d] = lastOutput[d]
    BY <1>6 DEF Inv, TypeOK
  <1>8. TypeOK'
    <2>1. event' \in BOOLEAN
      BY <1>4 DEF Inv, TypeOK
    <2> QED BY <1>3, <1>4, <1>7, <2>1 DEF Inv, TypeOK
  <1>9. BoxOf(c)
    BY DEF Inv, BoxInv
  <1>10. x = "stop" => /\ lastOutput[c] \in {"paused", "final"}
                       /\ lastOutput[c] = "paused" =>
                            /\ group[c] = "paused"
                            /\ \A j \in 2 .. n : box[c][j] = "error"
                       /\ lastOutput[c] = "final" => c \notin streams
    <2> SUFFICES ASSUME x = "stop"
                 PROVE  /\ lastOutput[c] \in {"paused", "final"}
                        /\ lastOutput[c] = "paused" =>
                            /\ group[c] = "paused"
                            /\ \A j \in 2 .. n : box[c][j] = "error"
                        /\ lastOutput[c] = "final" => c \notin streams
      OBVIOUS
    <2>1. 1 \in 1 .. n /\ box[c][1] = "stop" /\ Before(c, 1) = lastOutput[c]
      BY <1>2 DEF Before
    <2> QED BY <1>1, <1>9, <2>1 DEF BoxOf, PauseSent
  <1>11. FreshInv'
    BY <1>1, <1>3, <1>4, <1>6, <1>7 DEF Inv, TypeOK, FreshInv, Pending
  <1>12. StreamInv'
    <2>1. client'[c] \in {"reading", "calling", "done"}
      BY <1>1, <1>6, <1>7 DEF Inv, TypeOK
    <2>2. client'[c] = "calling" => group[c] = "paused"
      BY <1>1, <1>6, <1>7, <1>10 DEF Inv, TypeOK
    <2>3. client'[c] = "done" => c \notin streams
      BY <1>1, <1>6, <1>7, <1>10 DEF Inv, TypeOK
    <2>4. \A d \in Calls : (Pending(d))' <=> Pending(d)
      BY <1>4 DEF Pending
    <2>6. abortsLost \subseteq Calls \ {c}
      BY <1>1 DEF Inv, TypeOK, StreamInv
    <2>7. ~Pending(c) \/ group[c] = "done"
      BY <1>1 DEF Inv, StreamInv
    <2>8. NoOrphanInEngine'
      BY <1>4 DEF Inv, StreamInv, NoOrphanInEngine, Queued
    <2>9. \A d \in abortsLost' : client'[d] \in {"gone", "failed"}
      BY <1>4, <1>7, <2>6 DEF Inv, StreamInv
    <2>10. \A d \in Calls \ {c} :
              /\ Pending(d) => /\ d \notin streams
                               /\ group[d] = "done" \/ client'[d] \in {"gone", "failed"}
              /\ group[d] = "paused" /\ client'[d] \in {"reading", "calling"}
                    => d \in streams
              /\ client'[d] = "calling" => group[d] = "paused"
              /\ client'[d] \in {"done", "failed", "gone"} => d \notin streams
      BY <1>7 DEF Inv, StreamInv
    <2>11. /\ Pending(c) => c \notin streams /\ group[c] = "done"
           /\ group[c] = "paused" => c \in streams
      BY <1>1, <2>7 DEF Inv, StreamInv
    <2> QED BY <1>4, <2>1, <2>2, <2>3, <2>4, <2>8, <2>9, <2>10, <2>11 DEF StreamInv
  <1>13. OutputInv'
    BY <1>4, <1>5, <1>1 DEF Inv, OutputInv, HasStream, Pending
  <1>14. BoxInv'
    <2> SUFFICES ASSUME NEW d \in Calls
                 PROVE  (BoxOf(d))'
      BY DEF BoxInv
    <2>1. CASE d # c
      <3>1. /\ box'[d] = box[d] /\ client'[d] = client[d]
            /\ lastOutput'[d] = lastOutput[d]
        BY <1>3, <1>7, <2>1
      <3>2. BoxOf(d)
        BY DEF Inv, BoxInv
      <3>3. UNCHANGED <<streams, newRequests, group>>
        BY <1>4
      <3> QED BY <3>1, <3>2, <3>3 DEF BoxOf, PauseSent, Holds, Before
    <2>2. CASE d = c /\ x # "stop"
      <3>1. /\ x \in {"partial", "paused", "final"}
            /\ lastOutput'[c] = x /\ client'[c] = "reading"
        BY <1>1, <1>6, <2>2 DEF Inv, TypeOK
      <3>2. Len(box'[c]) = n - 1 /\ \A i \in 1 .. n - 1 : box'[c][i] = box[c][i + 1]
        BY <1>2, <1>3
      <3>3. \A i \in 1 .. n - 1 : i + 1 \in 1 .. n
        BY <1>2
      <3>4. ASSUME NEW y \in Items, Holds(c, y)'
            PROVE  Holds(c, y)
        BY <3>2, <3>3, <3>4 DEF Holds
      <3>5. ASSUME NEW y \in {"paused", "final"}, lastOutput'[c] = y
            PROVE  Holds(c, y)
        BY <1>2, <3>1, <3>5 DEF Holds
      <3>6. ASSUME NEW y \in {"stop", "error"}, Holds(c, y)
            PROVE  Holds(c, y)'
        <4>1. PICK i \in 1 .. n : box[c][i] = y
          BY <3>6 DEF Holds
        <4>2. i # 1
          BY <1>2, <3>1, <4>1
        <4>3. i - 1 \in 1 .. n - 1 /\ (i - 1) + 1 = i
          BY <1>2, <4>2
        <4> QED BY <3>2, <4>1, <4>3 DEF Holds
      <3>7. ASSUME NEW i \in 1 .. n - 1
            PROVE  Before(c, i)' = Before(c, i + 1)
        <4>1. CASE i = 1
          BY <1>2, <3>1, <4>1 DEF Before
        <4>2. CASE i # 1
          <5>1. i - 1 \in 1 .. n - 1 /\ (i - 1) + 1 = i /\ i + 1 # 1 /\ (i + 1) - 1 = i
            BY <1>2, <4>2
          <5> QED BY <3>2, <4>2, <5>1 DEF Before
        <4> QED BY <4>1, <4>2
      <3>8. (PauseSent(c))' => group'[c] = "paused"
        BY <1>1, <1>4, <1>9, <3>4, <3>5 DEF BoxOf, PauseSent, Items
      <3>9. (lastOutput[c] = "final" \/ Holds(c, "final"))'
               => c \notin streams' /\ group'[c] = "done"
        BY <1>1, <1>4, <1>9, <3>4, <3>5 DEF BoxOf, Items
      <3>10. ASSUME NEW i \in 1 .. n - 1, box'[c][i] = "stop"
             PROVE  /\ Before(c, i)' \in {"paused", "final"}
                    /\ Before(c, i)' = "paused" =>
                         \A j \in i + 1 .. n - 1 : box'[c][j] = "error"
        <4>1. i + 1 \in 1 .. n /\ box[c][i + 1] = "stop"
          BY <3>2, <3>3, <3>10
        <4>2. /\ Before(c, i + 1) \in {"paused", "final"}
              /\ Before(c, i + 1) = "paused" =>
                   \A j \in (i + 1) + 1 .. n : box[c][j] = "error"
          BY <1>1, <1>9, <4>1 DEF BoxOf
        <4>3. \A j \in i + 1 .. n - 1 : /\ j \in 1 .. n - 1
                                        /\ j + 1 \in (i + 1) + 1 .. n
          BY <1>2
        <4> QED BY <3>2, <3>7, <4>2, <4>3
      <3>11. c \notin streams' \cup newRequests' => (Holds(c, "stop") \/ Holds(c, "error"))'
        BY <1>1, <1>4, <1>9, <3>6 DEF BoxOf
      <3> QED BY <2>2, <3>1, <3>2, <3>8, <3>9, <3>10, <3>11 DEF BoxOf
    <2>3. CASE d = c /\ x = "stop"
      <3>1. CASE lastOutput[c] = "paused"
        <4>1. client'[c] = "calling"
          BY <1>6, <2>3, <3>1 DEF Inv, TypeOK
        <4>2. \A i \in 1 .. n - 1 : box'[c][i] = "error"
          <5>1. \A i \in 1 .. n - 1 : i + 1 \in 2 .. n
            BY <1>2
          <5> QED BY <1>2, <1>3, <1>10, <2>3, <3>1, <5>1
        <4> QED BY <1>2, <1>3, <2>3, <4>1, <4>2 DEF BoxOf
      <3>2. CASE lastOutput[c] # "paused"
        <4>1. client'[c] = "done"
          BY <1>6, <2>3, <3>2 DEF Inv, TypeOK
        <4> QED BY <2>3, <4>1 DEF BoxOf
      <3> QED BY <3>1, <3>2
    <2> QED BY <2>1, <2>2, <2>3
  <1>15. AnsweredInFull'
    <2>1. client'[c] = "done" => lastOutput'[c] = "final"
      BY <1>1, <1>6, <1>10 DEF Inv, TypeOK
    <2> QED BY <1>7, <2>1 DEF Inv, AnsweredInFull
  <1> QED BY <1>8, <1>11, <1>12, <1>13, <1>14, <1>15 DEF Inv

\* A resume: the request is queued again, and the stream starts anew.
LEMMA ResumeRequestInv ==
    ASSUME Inv, NEW c \in Calls, ResumeRequest(c)
    PROVE  Inv'
  <1>1. /\ client[c] = "calling" /\ pc # "delivering"
        /\ client' \in [Calls -> {"idle", "reading", "calling", "done", "failed",
                                  "gone", "left"}]
        /\ lastOutput' \in [Calls -> {"none", "partial", "paused", "final"}]
        /\ group' \in [Calls -> {"none", "queued", "paused", "done"}]
        /\ client'[c] = "reading" /\ lastOutput'[c] = "none" /\ group'[c] = "queued"
        /\ \A d \in Calls \ {c} : /\ client'[d] = client[d]
                                  /\ lastOutput'[d] = lastOutput[d]
                                  /\ group'[d] = group[d]
    BY DEF Inv, TypeOK, ResumeRequest, ClientsRun
  <1>2. UNCHANGED <<newRequests, finishedRequests, streams, box, abortsLost, pool,
                    forwards, apiCalls, pc, batch, ignored, outputs, outputsAgain>>
    BY DEF ResumeRequest, step
  <1>3. outputs = {} /\ outputsAgain = {}
    BY <1>1 DEF Inv, TypeOK
  <1>4. TypeOK'
    <2>1. event' \in BOOLEAN /\ box' \in [Calls -> Seq(Items)]
      BY <1>2 DEF Inv, TypeOK, ResumeRequest
    <2> QED BY <1>1, <1>2, <2>1 DEF Inv, TypeOK
  <1>5. group[c] = "paused" /\ c \in streams /\ ~Pending(c)
    BY <1>1 DEF Inv, StreamInv
  <1>6. FreshInv'
    BY <1>1, <1>2 DEF Inv, TypeOK, FreshInv, Pending
  <1>7. StreamInv'
    BY <1>1, <1>2, <1>5 DEF Inv, TypeOK, StreamInv, NoOrphanInEngine, Queued, Pending
  <1>8. OutputInv'
    <2>1. pc = "executing" => c \notin ignored
      BY <1>5 DEF Inv, OutputInv
    <2> QED BY <1>1, <1>2, <1>3, <2>1 DEF Inv, TypeOK, OutputInv, HasStream, Pending
  <1>9. BoxInv'
    <2> SUFFICES ASSUME NEW d \in Calls
                 PROVE  (BoxOf(d))'
      BY DEF BoxInv
    <2>1. BoxOf(d)
      BY DEF Inv, BoxInv
    <2>2. CASE d # c
      BY <1>1, <1>2, <2>1, <2>2 DEF BoxOf, PauseSent, Holds, Before
    <2>3. CASE d = c
      <3>1. \A i \in 1 .. Len(box[c]) : box'[c][i] = "error"
        BY <1>1, <1>2, <2>1, <2>3 DEF BoxOf
      <3> QED BY <1>1, <1>2, <1>5, <2>3, <3>1 DEF BoxOf, PauseSent, Holds, Before
    <2> QED BY <2>2, <2>3
  <1>10. AnsweredInFull'
    BY <1>1, <1>2 DEF Inv, AnsweredInFull
  <1> QED BY <1>4, <1>6, <1>7, <1>8, <1>9, <1>10 DEF Inv

\* A step begins: the accepted requests get their streams, and nobody is left
\* to abort.
LEMMA StartStepInv ==
    ASSUME Inv, NEW b \in SUBSET Ready, NEW i \in SUBSET (Ready \cap TooLong),
           NEW copies \in BOOLEAN, StartStep(b, i, copies)
    PROVE  Inv'
  <1>1. /\ outputs = {} /\ outputsAgain = {} /\ outputsAgain' = {}
        /\ b \subseteq Calls /\ i \subseteq Calls /\ b \cap i = {}
    BY DEF Inv, TypeOK, StartStep, TakeRequests, Ready
  <1>2. /\ streams' = {c \in streams : ~Pending(c)} \cup Accepted
        /\ newRequests' = {} /\ finishedRequests' = {} /\ event' = FALSE
        /\ batch' = b /\ ignored' \in {{}, i}
        /\ pool' \in {"sound", "leaky"}
        /\ UNCHANGED <<client, lastOutput, abortsLost, forwards, apiCalls>>
    BY DEF Inv, TypeOK, StartStep, TakeRequests, Pending, clients
  <1>3. Accepted = {c \in newRequests : ~Pending(c)}
    BY DEF Accepted, Pending
  <1>4. /\ group' \in [Calls -> {"none", "queued", "paused", "done"}]
        /\ \A c \in i : group'[c] = "done"
        /\ \A c \in Accepted \ i : group'[c] = "queued"
        /\ \A c \in Calls \ (i \cup Accepted) :
              group'[c] = IF group[c] = "queued" /\ Pending(c) THEN "done" ELSE group[c]
    <2>1. group' = [c \in Calls |->
                       IF c \in i THEN "done" ELSE GroupsAfterIntake[c]]
      BY DEF StartStep
    <2>2. \A c \in Calls : GroupsAfterIntake[c] =
             IF c \in Accepted THEN "queued"
             ELSE IF group[c] = "queued" /\ Pending(c) THEN "done" ELSE group[c]
      BY DEF GroupsAfterIntake, Pending
    <2>3. i \subseteq Calls /\ Accepted \subseteq Calls
      BY <1>1, <1>3 DEF Inv, TypeOK
    <2>4. \A c \in Calls : group[c] \in {"none", "queued", "paused", "done"}
      BY DEF Inv, TypeOK
    <2> HIDE DEF Accepted, Pending, GroupsAfterIntake
    <2> QED BY <2>1, <2>2, <2>3, <2>4
  <1>5. \A c \in Ready : c \in Accepted \/ (group[c] = "queued" /\ ~Pending(c))
    BY DEF Ready, GroupsAfterIntake, Pending
  <1>6. \A c \in newRequests : /\ c \in Calls /\ group[c] = "none" /\ c \notin streams
                               /\ Pending(c) => client[c] = "gone"
                               /\ ~Pending(c) => client[c] = "reading"
    BY DEF Inv, TypeOK, FreshInv, StreamInv
  <1>7. /\ box' \in [Calls -> Seq(Items)]
        /\ \A c \in Calls : client[c] # "gone" => box'[c] = box[c]
    <2>1. \A c \in Calls : Append(box[c], "stop") \in Seq(Items)
      BY DEF Inv, TypeOK, Items
    <2>2. box' \in [Calls -> Seq(Items)]
      BY <2>1 DEF Inv, TypeOK, StartStep, BoxAfterIntake
    <2> QED BY <1>3, <1>6, <2>2 DEF StartStep, BoxAfterIntake
  <1>8. \A c \in Ready : /\ c \in streams' \/ c \in abortsLost'
                         /\ client[c] # "calling" /\ client[c] # "idle"
    BY <1>2, <1>3, <1>5, <1>6
       DEF Inv, StreamInv, FreshInv, NoOrphanInEngine, Queued, Pending, Ready
  <1>9. TypeOK'
    <2>1. pc' \in {"off", "waiting", "yielding", "executing", "delivering"}
             /\ outputs' \subseteq Calls
             /\ (pc' = "delivering" <=> outputs' \cup outputsAgain' # {})
      BY <1>1 DEF StartStep
    <2>2. streams' \subseteq Calls
      BY <1>2, <1>3 DEF Inv, TypeOK
    <2>3. event' \in BOOLEAN
      BY <1>2
    <2> QED BY <1>1, <1>2, <1>4, <1>7, <2>1, <2>2, <2>3 DEF Inv, TypeOK
  <1>10. FreshInv'
    <2> SUFFICES ASSUME NEW c \in Calls, client[c] = "idle"
                 PROVE  /\ group'[c] = "none" /\ box'[c] = <<>>
                        /\ lastOutput'[c] = "none" /\ c \notin streams'
      BY <1>2 DEF FreshInv
    <2>1. c \notin newRequests /\ c \notin i
      BY <1>6, <1>8
    <2> QED BY <1>2, <1>3, <1>4, <1>7, <2>1 DEF Inv, FreshInv
  <1>11. StreamInv'
    <2>1. \A c \in Calls : group'[c] = "queued" => c \in streams' \/ c \in abortsLost'
      BY <1>2, <1>3, <1>4 DEF Inv, StreamInv, NoOrphanInEngine, Queued, Pending
    <2>2. \A c \in Calls : ~Pending(c)'
      BY <1>2 DEF Pending
    <2>3. \A c \in Calls : group'[c] = "paused" <=> group[c] = "paused"
      BY <1>3, <1>4, <1>5, <1>6
    <2>4. \A c \in Calls : group'[c] = "paused" /\ client'[c] \in {"reading", "calling"}
                             => c \in streams'
      BY <1>2, <2>3 DEF Inv, StreamInv
    <2>5. \A c \in Calls : client'[c] = "calling" => group'[c] = "paused"
      BY <1>2, <2>3 DEF Inv, StreamInv
    <2>6. \A c \in Calls : client'[c] \in {"done", "failed", "gone"} => c \notin streams'
      BY <1>2, <1>3, <1>6 DEF Inv, StreamInv
    <2>7. \A c \in abortsLost' : client'[c] \in {"gone", "failed"}
      BY <1>2 DEF Inv, StreamInv
    <2> QED BY <2>1, <2>2, <2>4, <2>5, <2>6, <2>7
            DEF StreamInv, NoOrphanInEngine, Queued, Pending
  <1>12. OutputInv'
    <2>1. \A c \in b : group'[c] = "queued"
      BY <1>1, <1>4, <1>5
    <2>2. \A c \in i : group'[c] = "done" /\ HasStream(c)' /\ client'[c] # "calling"
      BY <1>2, <1>4, <1>8 DEF HasStream
    <2>3. outputs' \subseteq i
      BY DEF StartStep
    <2> QED BY <1>1, <1>2, <2>1, <2>2, <2>3 DEF OutputInv
  <1>13. BoxInv'
    <2> SUFFICES ASSUME NEW d \in Calls, client[d] \in {"reading", "calling"}
                 PROVE  (BoxOf(d))'
      BY <1>2 DEF BoxInv, BoxOf
    <2>1. box'[d] = box[d] /\ client'[d] = client[d] /\ lastOutput'[d] = lastOutput[d]
      BY <1>2, <1>7
    <2>2. BoxOf(d)
      BY DEF Inv, BoxInv
    <2>3. group[d] \in {"paused", "done"} => group'[d] = group[d] /\ d \notin Accepted
      BY <1>3, <1>4, <1>5, <1>6
    <2>4. d \in streams \cup newRequests => d \in streams' \/ client[d] = "calling"
      BY <1>2, <1>3, <1>6 DEF Inv, StreamInv
    <2>5. d \in streams' => d \in streams \/ d \in Accepted
      BY <1>2
    <2> QED BY <1>2, <2>1, <2>2, <2>3, <2>4, <2>5 DEF BoxOf, PauseSent, Holds, Before
  <1>14. AnsweredInFull'
    BY <1>2 DEF Inv, AnsweredInFull
  <1> QED BY <1>9, <1>10, <1>11, <1>12, <1>13, <1>14 DEF Inv

\* The workers answer.
LEMMA FinishWorkersInv ==
    ASSUME Inv, NEW going \in SUBSET batch, NEW calling \in SUBSET batch,
           FinishWorkers(going, calling)
    PROVE  Inv'
  <1>1. /\ pc = "executing"
        /\ pc' \in {"waiting", "delivering"}
        /\ pc' = "delivering" <=> outputs' # {}
        /\ outputs' = batch \cup ignored /\ outputsAgain' = ignored
        /\ batch' = {} /\ ignored' = {}
        /\ UNCHANGED <<newRequests, finishedRequests, streams, event, box, client,
                       lastOutput, abortsLost, pool>>
    BY DEF FinishWorkers, tracker, clients
  <1>2. /\ batch \subseteq Calls /\ ignored \subseteq Calls
        /\ \A c \in batch : group[c] = "queued"
        /\ \A c \in ignored : group[c] = "done" /\ HasStream(c)
    BY <1>1 DEF Inv, TypeOK, OutputInv
  <1>3. /\ group' \in [Calls -> {"none", "queued", "paused", "done"}]
        /\ forwards' \in [Calls -> Nat] /\ apiCalls' \in [Calls -> Nat]
    BY DEF Inv, TypeOK, FinishWorkers
  <1>4. /\ \A c \in batch : group'[c] \in {"queued", "paused", "done"}
        /\ \A c \in Calls \ batch : group'[c] = group[c]
    BY <1>2 DEF Inv, TypeOK, FinishWorkers
  <1>5. TypeOK'
    <2>1. event' \in BOOLEAN /\ box' \in [Calls -> Seq(Items)]
      BY <1>1 DEF Inv, TypeOK
    <2> QED BY <1>1, <1>2, <1>3, <2>1 DEF Inv, TypeOK
  <1>6. FreshInv'
    BY <1>1, <1>2, <1>4 DEF Inv, TypeOK, FreshInv, Pending
  <1>7. StreamInv'
    BY <1>1, <1>2, <1>4 DEF Inv, StreamInv, NoOrphanInEngine, Queued, Pending
  <1>8. OutputInv'
    <2>1. \A c \in batch : /\ HasStream(c)
                           /\ client[c] # "calling"
                           /\ client[c] = "reading" => ~PauseSent(c)
      BY <1>2 DEF Inv, StreamInv, NoOrphanInEngine, Queued, Pending, BoxInv, BoxOf,
                  HasStream
    <2>2. \A c \in ignored : /\ group'[c] = "done" /\ client[c] # "calling"
      BY <1>2, <1>4 DEF Inv, StreamInv
    <2>3. \A c \in batch \cup ignored :
             /\ HasStream(c)'
             /\ group'[c] # "none" /\ client'[c] # "calling"
             /\ client'[c] = "reading" /\ group'[c] = "paused" => ~PauseSent(c)'
      BY <1>1, <1>2, <1>4, <2>1, <2>2 DEF HasStream, Pending, PauseSent, Holds
    <2> QED BY <1>1, <2>2, <2>3 DEF OutputInv
  <1>9. BoxInv'
    <2> SUFFICES ASSUME NEW d \in Calls
                 PROVE  (BoxOf(d))'
      BY DEF BoxInv
    <2>1. BoxOf(d)
      BY DEF Inv, BoxInv
    <2>2. group[d] \in {"paused", "done"} => group'[d] = group[d]
      BY <1>2, <1>4
    <2> QED BY <1>1, <2>1, <2>2 DEF BoxOf, PauseSent, Holds, Before
  <1>10. AnsweredInFull'
    BY <1>1 DEF Inv, AnsweredInFull
  <1> QED BY <1>5, <1>6, <1>7, <1>8, <1>9, <1>10 DEF Inv

\* An exception at the end of a stream changes nothing for the items before
\* it, and is an end for who has none.
LEMMA ErrorKeepsBox ==
    ASSUME NEW d \in Calls, BoxOf(d), box[d] \in Seq(Items),
           box'[d] \in {box[d], Append(box[d], "error")},
           client'[d] = client[d], lastOutput'[d] = lastOutput[d],
           group[d] \in {"paused", "done"} => group'[d] = group[d],
           d \in streams' => d \in streams \/ group[d] = "none",
           client[d] = "reading" /\ d \in streams \cup newRequests
               => d \in streams' \cup newRequests'
    PROVE  (BoxOf(d))'
  <1> DEFINE n == Len(box[d])
             m == Len(box'[d])
  <1>1. /\ n \in Nat /\ m \in {n, n + 1}
        /\ \A i \in 1 .. n : i \in 1 .. m /\ box'[d][i] = box[d][i]
        /\ \A i \in 1 .. m : i \in 1 .. n \/ (i = n + 1 /\ box'[d][i] = "error")
    <2>1. /\ Len(Append(box[d], "error")) = n + 1 /\ n \in Nat
          /\ Append(box[d], "error")[n + 1] = "error"
          /\ \A i \in 1 .. n : Append(box[d], "error")[i] = box[d][i]
      <3>1. "error" \in Items
        BY DEF Items
      <3> QED BY <3>1, AppendFacts
    <2> QED BY <2>1
  <1> HIDE DEF m
  <1>2. ASSUME NEW y \in {"paused", "final"}
        PROVE  Holds(d, y)' => Holds(d, y)
    BY <1>1 DEF Holds, m
  <1>3. ASSUME NEW y \in {"stop", "error"}
        PROVE  Holds(d, y) => Holds(d, y)'
    BY <1>1 DEF Holds, m
  <1>4. ASSUME NEW i \in 1 .. n
        PROVE  Before(d, i)' = Before(d, i)
    <2>1. i = 1 \/ i - 1 \in 1 .. n
      BY <1>1
    <2> QED BY <1>1, <2>1 DEF Before
  <1>5. ASSUME client[d] = "reading", NEW i \in 1 .. m, box'[d][i] = "stop"
        PROVE  /\ Before(d, i)' \in {"paused", "final"}
               /\ Before(d, i)' = "paused" =>
                    \A j \in i + 1 .. m : box'[d][j] = "error"
    <2>1. i \in 1 .. n /\ box[d][i] = "stop"
      BY <1>1, <1>5
    <2>2. /\ Before(d, i) \in {"paused", "final"}
          /\ Before(d, i) = "paused" => \A j \in i + 1 .. n : box[d][j] = "error"
      BY <1>5, <2>1 DEF BoxOf
    <2>3. \A j \in i + 1 .. m : /\ j \in 1 .. m
                                /\ j \in 1 .. n => j \in i + 1 .. n
      BY <1>1, <2>1
    <2> QED BY <1>1, <1>4, <2>1, <2>2, <2>3
  <1>6. (PauseSent(d))' => PauseSent(d)
    BY <1>2 DEF PauseSent
  <1>7. client[d] = "calling" => \A i \in 1 .. m : box'[d][i] = "error"
    BY <1>1 DEF BoxOf
  <1>8. client[d] = "reading" =>
          /\ (PauseSent(d))' => group'[d] = "paused"
          /\ (lastOutput[d] = "final" \/ Holds(d, "final"))'
                => d \notin streams' /\ group'[d] = "done"
          /\ d \notin streams' \cup newRequests' =>
                (Holds(d, "stop") \/ Holds(d, "error"))'
    BY <1>2, <1>3, <1>6 DEF BoxOf
  <1> QED BY <1>5, <1>7, <1>8 DEF BoxOf, m

\* The exception is put into the streams, and nowhere else.
LEMMA ExceptionFacts ==
    ASSUME NEW b \in [Calls -> Seq(Items)], NEW s
    PROVE  /\ WithException(b, s) \in [Calls -> Seq(Items)]
           /\ \A d \in Calls : WithException(b, s)[d] \in {b[d], Append(b[d], "error")}
  <1>1. \A d \in Calls : b[d] \in Seq(Items) /\ Append(b[d], "error") \in Seq(Items)
    BY DEF Items
  <1> QED BY <1>1 DEF WithException

\* The loop ends while the step is in progress.
LEMMA EndInv ==
    ASSUME Inv, box' = WithException(box, streams), pc' = "off",
           outputs' = {}, outputsAgain' = {}, batch' \in {batch, {}}, ignored' \in {ignored, {}},
           UNCHANGED <<tracker, clients, engine>>
    PROVE  Inv'
  <1>1. UNCHANGED <<newRequests, finishedRequests, streams, event, client, lastOutput,
                    group, abortsLost, pool, forwards, apiCalls>>
    BY DEF tracker, clients, engine
  <1>2. /\ box' \in [Calls -> Seq(Items)]
        /\ \A d \in Calls : box'[d] \in {box[d], Append(box[d], "error")}
        /\ \A d \in Calls \ streams : box'[d] = box[d]
    <2>1. box \in [Calls -> Seq(Items)]
      BY DEF Inv, TypeOK
    <2>2. \A d \in Calls \ streams : box'[d] = box[d]
      BY DEF WithException
    <2> QED BY <2>1, <2>2, ExceptionFacts
  <1>3. TypeOK'
    <2>1. event' \in BOOLEAN
      BY <1>1 DEF Inv, TypeOK
    <2> QED BY <1>1, <1>2, <2>1 DEF Inv, TypeOK
  <1>4. FreshInv'
    BY <1>1, <1>2 DEF Inv, TypeOK, FreshInv, Pending
  <1>5. StreamInv'
    BY <1>1 DEF Inv, StreamInv, NoOrphanInEngine, Queued, Pending
  <1>6. OutputInv'
    BY DEF OutputInv
  <1>7. BoxInv'
    <2> SUFFICES ASSUME NEW d \in Calls
                 PROVE  (BoxOf(d))'
      BY DEF BoxInv
    <2>1. BoxOf(d) /\ box[d] \in Seq(Items)
      BY DEF Inv, TypeOK, BoxInv
    <2> QED BY <1>1, <1>2, <2>1, ErrorKeepsBox
  <1>8. AnsweredInFull'
    BY <1>1 DEF Inv, AnsweredInFull
  <1> QED BY <1>3, <1>4, <1>5, <1>6, <1>7, <1>8 DEF Inv

\* An output without a stream ends the loop.
LEMMA DieInv ==
    ASSUME Inv, NEW c \in Calls, Die(c)
    PROVE  Inv'
  BY EndInv DEF Die

\* The exception of a worker ends the loop.
LEMMA WorkersRaiseInv ==
    ASSUME Inv, WorkersRaise
    PROVE  Inv'
  <1>1. outputs = {} /\ outputsAgain = {}
    BY DEF Inv, TypeOK, WorkersRaise
  <1> QED BY <1>1, EndInv DEF WorkersRaise

\* The loop ends before the workers start.  The intake is done as far as the
\* streams go: the accepted requests have theirs, and the exception in it.
LEMMA RaiseInv ==
    ASSUME Inv, TakeRequests, box' = WithException(BoxAfterIntake, streams'),
           pc' = "off", UNCHANGED <<clients, forwards, apiCalls, step>>,
           group' \in [Calls -> {"none", "queued", "paused", "done"}],
           abortsLost' \subseteq Calls, pool' \in {"sound", "leaky"},
           \A c \in abortsLost' : client[c] \in {"gone", "failed"},
           \A c \in Calls :
              /\ group'[c] = "queued" => c \in streams' \/ c \in abortsLost'
              /\ group[c] \in {"paused", "done"} => group'[c] = group[c]
              /\ group'[c] = "paused" => group[c] = "paused"
              /\ client[c] = "idle" => group'[c] = "none"
    PROVE  Inv'
  <1>1. /\ streams' = {c \in streams : ~Pending(c)} \cup Accepted
        /\ Accepted = {c \in newRequests : ~Pending(c)}
        /\ newRequests' = {} /\ finishedRequests' = {} /\ event' = FALSE
        /\ UNCHANGED <<client, lastOutput, forwards, apiCalls, batch, ignored,
                       outputs, outputsAgain>>
    BY DEF TakeRequests, Accepted, Pending, clients, step
  <1>2. outputs = {} /\ outputsAgain = {}
    BY DEF Inv, TypeOK, TakeRequests
  <1>3. \A c \in newRequests : /\ c \in Calls /\ group[c] = "none"
                               /\ Pending(c) => client[c] = "gone"
                               /\ ~Pending(c) => client[c] = "reading"
    BY DEF Inv, TypeOK, FreshInv, StreamInv
  <1>4. /\ BoxAfterIntake \in [Calls -> Seq(Items)]
        /\ \A c \in Calls : client[c] # "gone" => BoxAfterIntake[c] = box[c]
    <2>1. \A c \in Calls : Append(box[c], "stop") \in Seq(Items)
      BY DEF Inv, TypeOK, Items
    <2>2. BoxAfterIntake \in [Calls -> Seq(Items)]
      BY <2>1 DEF Inv, TypeOK, BoxAfterIntake
    <2> QED BY <1>1, <1>3, <2>2 DEF BoxAfterIntake
  <1>5. /\ box' \in [Calls -> Seq(Items)]
        /\ \A c \in Calls : client[c] # "gone"
              => box'[c] \in {box[c], Append(box[c], "error")}
        /\ \A c \in Calls \ streams' : client[c] # "gone" => box'[c] = box[c]
    <2>1. \A c \in Calls \ streams' : box'[c] = BoxAfterIntake[c]
      BY DEF WithException
    <2> QED BY <1>4, <2>1, ExceptionFacts
  <1>6. \A c \in streams : ~Pending(c)
    BY DEF Inv, TypeOK, StreamInv
  <1>7. TypeOK'
    <2>1. streams' \subseteq Calls /\ event' \in BOOLEAN
      BY <1>1, <1>3 DEF Inv, TypeOK
    <2> QED BY <1>1, <1>2, <1>5, <2>1 DEF Inv, TypeOK
  <1>8. FreshInv'
    <2> SUFFICES ASSUME NEW c \in Calls, client[c] = "idle"
                 PROVE  /\ group'[c] = "none" /\ box'[c] = <<>>
                        /\ lastOutput'[c] = "none" /\ c \notin streams'
      BY <1>1 DEF FreshInv
    <2>1. c \notin streams'
      BY <1>1, <1>3 DEF Inv, FreshInv
    <2> QED BY <1>1, <1>5, <2>1 DEF Inv, FreshInv
  <1>9. StreamInv'
    <2>1. NoOrphanInEngine' /\ \A c \in Calls : ~(Pending(c))'
      BY <1>1 DEF NoOrphanInEngine, Queued, Pending
    <2>2. \A c \in Calls : /\ group'[c] = "paused" /\ client'[c] \in {"reading", "calling"}
                                => c \in streams'
                           /\ client'[c] = "calling" => group'[c] = "paused"
      BY <1>1, <1>6 DEF Inv, StreamInv
    <2>3. \A c \in Calls : client'[c] \in {"done", "failed", "gone"} => c \notin streams'
      BY <1>1, <1>3 DEF Inv, StreamInv
    <2>4. \A c \in abortsLost' : client'[c] \in {"gone", "failed"}
      BY <1>1
    <2> QED BY <2>1, <2>2, <2>3, <2>4 DEF StreamInv
  <1>10. OutputInv'
    BY <1>1, <1>2 DEF OutputInv
  <1>11. BoxInv'
    <2> SUFFICES ASSUME NEW d \in Calls, client[d] # "gone"
                 PROVE  (BoxOf(d))'
      BY <1>1 DEF BoxInv, BoxOf
    <2>1. BoxOf(d) /\ box[d] \in Seq(Items)
      BY DEF Inv, TypeOK, BoxInv
    <2>2. d \in streams' => d \in streams \/ group[d] = "none"
      BY <1>1, <1>3
    <2>3. client[d] = "reading" /\ d \in streams \cup newRequests
              => d \in streams' \cup newRequests'
      BY <1>1, <1>3, <1>6
    <2> QED BY <1>1, <1>5, <2>1, <2>2, <2>3, ErrorKeepsBox
  <1>12. AnsweredInFull'
    BY <1>1 DEF Inv, AnsweredInFull
  <1> QED BY <1>7, <1>8, <1>9, <1>10, <1>11, <1>12 DEF Inv

\* add_request raises: the aborts of this intake are lost, and they were for
\* clients that have gone.
LEMMA AddRequestRaisesInv ==
    ASSUME Inv, NEW refused \in Accepted, NEW added \in SUBSET Accepted,
           AddRequestRaises(refused, added)
    PROVE  Inv'
  <1>1. /\ group' = [c \in Calls |-> IF c \in added THEN "queued" ELSE group[c]]
        /\ abortsLost' = abortsLost \cup {c \in Queued : Pending(c)}
        /\ streams' = {c \in streams : ~Pending(c)} \cup Accepted
    BY DEF AddRequestRaises, TakeRequests, Pending
  <1>2. group' \in [Calls -> {"none", "queued", "paused", "done"}]
    BY <1>1 DEF Inv, TypeOK
  <1>3. abortsLost' \subseteq Calls /\ pool' \in {"sound", "leaky"}
    BY <1>1 DEF Inv, TypeOK, Queued, AddRequestRaises
  <1>4. \A c \in abortsLost' : client[c] \in {"gone", "failed"}
    BY <1>1 DEF Inv, StreamInv, Queued
  <1>5. \A c \in added : group[c] = "none" /\ client[c] # "idle"
    BY DEF Inv, TypeOK, FreshInv, Accepted
  <1>6. \A c \in Calls : group'[c] = "queued" => c \in streams' \/ c \in abortsLost'
    BY <1>1 DEF Inv, StreamInv, NoOrphanInEngine, Queued, Pending
  <1>7. \A c \in Calls :
           /\ group[c] \in {"paused", "done"} => group'[c] = group[c]
           /\ group'[c] = "paused" => group[c] = "paused"
           /\ client[c] = "idle" => group'[c] = "none"
    BY <1>1, <1>5 DEF Inv, FreshInv
  <1> QED BY <1>2, <1>3, <1>4, <1>6, <1>7, RaiseInv DEF AddRequestRaises

\* schedule() raises: the intake is complete, some groups are in no queue.
LEMMA ScheduleRaisesInv ==
    ASSUME Inv, NEW lost \in SUBSET Ready, ScheduleRaises(lost)
    PROVE  Inv'
  <1>1. /\ streams' = {c \in streams : ~Pending(c)} \cup Accepted
        /\ abortsLost' = abortsLost /\ pool' = "leaky"
        /\ Accepted = {c \in newRequests : ~Pending(c)}
    BY DEF ScheduleRaises, TakeRequests, Accepted, Pending
  <1>2. \A c \in Calls :
           group'[c] = IF c \in lost THEN "done"
                       ELSE IF c \in Accepted THEN "queued"
                       ELSE IF group[c] = "queued" /\ Pending(c) THEN "done"
                       ELSE group[c]
    BY DEF ScheduleRaises, GroupsAfterIntake, Pending
  <1>3. group' \in [Calls -> {"none", "queued", "paused", "done"}]
    <2>1. group' = [c \in Calls |-> group'[c]]
      BY DEF ScheduleRaises
    <2>2. \A c \in Calls : group[c] \in {"none", "queued", "paused", "done"}
      BY DEF Inv, TypeOK
    <2>3. \A c \in Calls : group'[c] \in {"none", "queued", "paused", "done"}
      BY <1>2, <2>2
    <2> QED BY <2>1, <2>3
  <1>4. \A c \in Accepted : group[c] = "none" /\ client[c] # "idle"
    BY <1>1 DEF Inv, TypeOK, FreshInv
  <1>5. \A c \in lost : c \in Accepted \/ group[c] = "queued"
    BY DEF Ready, GroupsAfterIntake
  <1>6. \A c \in abortsLost' : c \in Calls /\ client[c] \in {"gone", "failed"}
    BY <1>1 DEF Inv, TypeOK, StreamInv
  <1>7. \A c \in Calls : group'[c] = "queued" => c \in streams' \/ c \in abortsLost'
    BY <1>1, <1>2 DEF Inv, StreamInv, NoOrphanInEngine, Queued, Pending
  <1>8. \A c \in Calls :
           /\ group[c] \in {"paused", "done"} => group'[c] = group[c]
           /\ group'[c] = "paused" => group[c] = "paused"
           /\ client[c] = "idle" => group'[c] = "none"
    BY <1>2, <1>4, <1>5 DEF Inv, FreshInv
  <1> QED BY <1>1, <1>3, <1>6, <1>7, <1>8, RaiseInv DEF ScheduleRaises

\* What every output has in common: only its own stream is written to, and
\* the step goes on with the outputs that are left.
LEMMA DeliverFacts ==
    ASSUME Inv, UniqueIds, NEW c \in Calls, Deliver(c)
    PROVE  /\ c \in streams /\ PutOutput(c, c)
           /\ UNCHANGED <<newRequests, event, client, lastOutput, group, abortsLost,
                          pool, forwards, apiCalls, batch, ignored>>
           /\ outputs' = outputs \ {c} /\ outputsAgain' \subseteq outputsAgain
           /\ c \in outputs \/ c \in outputsAgain
           /\ group[c] \in {"queued", "paused", "done"}
           /\ group[c] # "done" => c \in outputs
           /\ pc' \in {"yielding", "delivering"}
           /\ pc' = "delivering" <=> outputs' \cup outputsAgain' # {}
  <1>1. c \in streams /\ PutOutput(c, c)
    BY DEF Inv, TypeOK, UniqueIds, Deliver, Registered
  <1>2. c \in outputs \/ (outputs = {} /\ c \in outputsAgain)
    BY DEF Deliver, IsNextOutput
  <1>3. /\ group[c] \in {"queued", "paused", "done"}
        /\ group[c] # "done" => c \in outputs
    BY <1>2 DEF Inv, TypeOK, OutputInv
  <1>4. /\ outputs' = outputs \ {c}
        /\ outputsAgain' = IF outputs = {} THEN outputsAgain \ {c} ELSE outputsAgain
        /\ pc' = IF IsLastOutput(c) THEN "yielding" ELSE pc
        /\ pc = "delivering"
        /\ UNCHANGED <<client, lastOutput, group, abortsLost, pool, forwards, apiCalls,
                       batch, ignored>>
    BY DEF Deliver, IsNextOutput, clients, engine
  <1>5. pc' = "delivering" <=> outputs' \cup outputsAgain' # {}
    BY <1>2, <1>4 DEF IsLastOutput
  <1> QED BY <1>1, <1>2, <1>3, <1>4, <1>5 DEF PutOutput

\* The box of a stream after an output.
LEMMA PutFacts ==
    ASSUME Inv, NEW c \in Calls, PutOutput(c, c)
    PROVE  /\ box' \in [Calls -> Seq(Items)]
           /\ \A d \in Calls \ {c} : box'[d] = box[d]
           /\ Len(box[c]) \in Nat
           /\ \A i \in 1 .. Len(box[c]) : box'[c][i] = box[c][i]
           /\ group[c] = "queued" =>
                 /\ Len(box'[c]) = Len(box[c]) + 1
                 /\ box'[c][Len(box[c]) + 1] = "partial"
           /\ group[c] # "queued" =>
                 /\ Len(box'[c]) = Len(box[c]) + 2
                 /\ box'[c][Len(box[c]) + 1] =
                       IF group[c] = "done" THEN "final" ELSE "paused"
                 /\ box'[c][Len(box[c]) + 2] = "stop"
  <1>1. box[c] \in Seq(Items) /\ box \in [Calls -> Seq(Items)]
    BY DEF Inv, TypeOK
  <1>2. /\ box[c] \o <<"partial">> \in Seq(Items)
        /\ Len(box[c] \o <<"partial">>) = Len(box[c]) + 1
        /\ (box[c] \o <<"partial">>)[Len(box[c]) + 1] = "partial"
        /\ \A i \in 1 .. Len(box[c]) : (box[c] \o <<"partial">>)[i] = box[c][i]
        /\ Len(box[c]) \in Nat
    <2>1. "partial" \in Items
      BY DEF Items
    <2> QED BY <1>1, <2>1, SingleFacts
  <1>3. ASSUME NEW x \in {"final", "paused"}
        PROVE  /\ box[c] \o <<x, "stop">> \in Seq(Items)
               /\ Len(box[c] \o <<x, "stop">>) = Len(box[c]) + 2
               /\ (box[c] \o <<x, "stop">>)[Len(box[c]) + 1] = x
               /\ (box[c] \o <<x, "stop">>)[Len(box[c]) + 2] = "stop"
               /\ \A i \in 1 .. Len(box[c]) :
                     (box[c] \o <<x, "stop">>)[i] = box[c][i]
    <2>1. x \in Items /\ "stop" \in Items
      BY DEF Items
    <2> QED BY <1>1, <2>1, PairFacts
  <1>4. CASE group[c] = "queued"
    <2>1. box' = [box EXCEPT ![c] = box[c] \o <<"partial">>]
      BY <1>4 DEF PutOutput
    <2>2. box'[c] = box[c] \o <<"partial">> /\ box' \in [Calls -> Seq(Items)]
             /\ \A d \in Calls \ {c} : box'[d] = box[d]
      BY <1>1, <1>2, <2>1
    <2> QED BY <1>2, <1>4, <2>2
  <1>5. CASE group[c] # "queued"
    <2> DEFINE x == IF group[c] = "done" THEN "final" ELSE "paused"
    <2>1. box' = [box EXCEPT ![c] = box[c] \o <<x, "stop">>]
      BY <1>5 DEF PutOutput, LastItems
    <2>2. x \in {"final", "paused"}
      OBVIOUS
    <2>3. box'[c] = box[c] \o <<x, "stop">> /\ box' \in [Calls -> Seq(Items)]
             /\ \A d \in Calls \ {c} : box'[d] = box[d]
      BY <1>1, <1>3, <2>1, <2>2
    <2> HIDE DEF x
    <2>4. box'[c][Len(box[c]) + 1] = x /\ box'[c][Len(box[c]) + 2] = "stop"
             /\ Len(box'[c]) = Len(box[c]) + 2
             /\ \A i \in 1 .. Len(box[c]) : box'[c][i] = box[c][i]
      BY <1>3, <2>2, <2>3
    <2> QED BY <1>2, <1>5, <2>3, <2>4 DEF x
  <1> QED BY <1>4, <1>5

\* An output reaches its stream: the pause of a request that was not paused
\* before, or the end, or more of the same.
LEMMA DeliverInv ==
    ASSUME Inv, UniqueIds, NEW c \in Calls, Deliver(c)
    PROVE  Inv'
  <1>1. /\ c \in streams /\ PutOutput(c, c)
        /\ UNCHANGED <<newRequests, event, client, lastOutput, group, abortsLost,
                       pool, forwards, apiCalls, batch, ignored>>
        /\ outputs' = outputs \ {c} /\ outputsAgain' \subseteq outputsAgain
        /\ c \in outputs \/ c \in outputsAgain
        /\ group[c] \in {"queued", "paused", "done"}
        /\ group[c] # "done" => c \in outputs
        /\ pc' \in {"yielding", "delivering"}
        /\ pc' = "delivering" <=> outputs' \cup outputsAgain' # {}
    BY DeliverFacts
  <1> DEFINE n == Len(box[c])
  <1>2. /\ box' \in [Calls -> Seq(Items)]
        /\ \A d \in Calls \ {c} : box'[d] = box[d]
        /\ n \in Nat
        /\ \A i \in 1 .. n : box'[c][i] = box[c][i]
        /\ group[c] = "queued" =>
              Len(box'[c]) = n + 1 /\ box'[c][n + 1] = "partial"
        /\ group[c] # "queued" =>
              /\ Len(box'[c]) = n + 2
              /\ box'[c][n + 1] = IF group[c] = "done" THEN "final" ELSE "paused"
              /\ box'[c][n + 2] = "stop"
    BY <1>1, PutFacts
  <1>3. /\ group[c] = "done" => streams' = streams \ {c}
        /\ group[c] # "done" => streams' = streams
        /\ streams' \subseteq streams /\ streams \ {c} \subseteq streams'
        /\ finishedRequests' \subseteq Ids
        /\ \A d \in Calls : Pending(d)' <=> Pending(d) \/ (d = c /\ group[c] = "done")
    <2>1. IdOf[c] \in Ids
      BY CallsAssumption
    <2>2. \A d \in Calls : Pending(d)' <=> Pending(d) \/ (d = c /\ group[c] = "done")
      BY <1>1 DEF Pending, PutOutput, UniqueIds
    <2> QED BY <1>1, <2>1, <2>2 DEF Inv, TypeOK, PutOutput
  <1>4. TypeOK'
    <2>1. event' \in BOOLEAN
      BY <1>1 DEF Inv, TypeOK
    <2>2. outputs' \subseteq Calls /\ outputsAgain' \subseteq Calls /\ streams' \subseteq Calls
      BY <1>1, <1>3 DEF Inv, TypeOK
    <2> QED BY <1>1, <1>2, <1>3, <2>1, <2>2 DEF Inv, TypeOK
  <1>5. FreshInv'
    BY <1>1, <1>2, <1>3 DEF Inv, TypeOK, FreshInv
  <1>6. StreamInv'
    BY <1>1, <1>3 DEF Inv, StreamInv, NoOrphanInEngine, Queued, Pending
  <1>7. OutputInv'
    <2>1. \A d \in outputs' : d \in Calls \ {c} /\ (PauseSent(d)' <=> PauseSent(d))
      <3>1. outputs' \subseteq Calls \ {c}
        BY <1>1 DEF Inv, TypeOK
      <3> QED BY <1>1, <1>2, <3>1 DEF PauseSent, Holds
    <2>2. \A d \in outputs' : HasStream(d)'
      BY <1>1, <1>3, <2>1 DEF Inv, OutputInv, HasStream
    <2> QED BY <1>1, <2>1, <2>2 DEF Inv, OutputInv
  <1>8. ASSUME client[c] = "reading"
        PROVE  /\ group[c] # "paused" => ~PauseSent(c)
               /\ group[c] = "paused" => ~PauseSent(c)
               /\ lastOutput[c] # "final" /\ ~Holds(c, "final")
    <2>1. BoxOf(c)
      BY DEF Inv, BoxInv
    <2>2. group[c] = "paused" => ~PauseSent(c)
      BY <1>1, <1>8 DEF Inv, OutputInv
    <2> QED BY <1>1, <1>8, <2>1, <2>2 DEF BoxOf
  <1>9. BoxInv'
    <2> SUFFICES ASSUME NEW d \in Calls
                 PROVE  (BoxOf(d))'
      BY DEF BoxInv
    <2>1. BoxOf(d)
      BY DEF Inv, BoxInv
    <2>2. CASE d # c
      <3>1. box'[d] = box[d] /\ (d \in streams' <=> d \in streams)
        BY <1>2, <1>3, <2>2
      <3> QED BY <1>1, <2>1, <3>1 DEF BoxOf, PauseSent, Holds, Before
    <2>3. CASE d = c /\ client[c] = "calling"
      <3>1. FALSE
        BY <1>1, <2>3 DEF Inv, StreamInv, OutputInv
      <3> QED BY <3>1
    <2>4. CASE d = c /\ client[c] = "reading"
      <3>1. \A i \in 1 .. n : /\ box'[c][i] = box[c][i]
                              /\ box[c][i] # "paused" /\ box[c][i] # "final"
                              /\ box[c][i] # "stop"
        <4>1. \A i \in 1 .. n : box[c][i] # "paused" /\ box[c][i] # "final"
          BY <1>1, <1>8, <2>4 DEF PauseSent, Holds
        <4>2. ASSUME NEW i \in 1 .. n, box[c][i] = "stop" PROVE FALSE
          <5>1. Before(c, i) \in {"paused", "final"}
            BY <2>1, <2>4, <4>2 DEF BoxOf
          <5>2. i = 1 \/ i - 1 \in 1 .. n
            BY <1>2
          <5> QED BY <1>8, <2>4, <4>1, <5>1, <5>2 DEF Before, PauseSent
        <4> QED BY <1>2, <4>1, <4>2
      <3>2. lastOutput[c] # "paused" /\ lastOutput[c] # "final"
        BY <1>8, <2>4 DEF PauseSent
      <3>3. CASE group[c] = "queued"
        <4>1. \A i \in 1 .. n + 1 : i \in 1 .. n \/ i = n + 1
          BY <1>2
        <4>2. \A i \in 1 .. Len(box'[c]) : box'[c][i] \notin {"paused", "final", "stop"}
          BY <1>2, <3>1, <3>3, <4>1
        <4>3. ~PauseSent(c)' /\ ~Holds(c, "final")'
          BY <1>1, <3>2, <4>2 DEF PauseSent, Holds
        <4>4. c \in streams'
          BY <1>1, <1>3, <3>3
        <4> QED BY <1>1, <2>4, <3>2, <4>2, <4>3, <4>4 DEF BoxOf
      <3>4. CASE group[c] # "queued"
        <4>1. \A i \in 1 .. n + 2 : i \in 1 .. n \/ i = n + 1 \/ i = n + 2
          BY <1>2
        <4>2. /\ n + 1 \in 1 .. n + 2 /\ n + 2 \in 1 .. n + 2
              /\ n + 2 # 1 /\ (n + 2) - 1 = n + 1
              /\ (n + 2) + 1 .. n + 2 = {}
          BY <1>2
        <4>3. \A i \in 1 .. Len(box'[c]) : box'[c][i] = "stop" => i = n + 2
          BY <1>2, <3>1, <3>4, <4>1
        <4>4. ASSUME NEW i \in Nat, i = n + 2
              PROVE  Before(c, i)' = IF group[c] = "done" THEN "final" ELSE "paused"
          BY <1>2, <3>4, <4>2, <4>4 DEF Before
        <4>5. Holds(c, "stop")'
          BY <1>2, <3>4, <4>2 DEF Holds
        <4>6. PauseSent(c)' => group[c] = "paused"
          BY <1>1, <1>2, <3>1, <3>2, <3>4, <4>1 DEF PauseSent, Holds
        <4>7. Holds(c, "final")' => group[c] = "done"
          BY <1>1, <1>2, <3>1, <3>4, <4>1 DEF Holds
        <4>8. group[c] = "done" => c \notin streams'
          BY <1>3
        <4>9. ASSUME NEW i \in 1 .. Len(box'[c]), box'[c][i] = "stop"
              PROVE  /\ Before(c, i)' \in {"paused", "final"}
                     /\ \A j \in i + 1 .. Len(box'[c]) : box'[c][j] = "error"
          <5>1. i = n + 2 /\ Len(box'[c]) = n + 2
            BY <1>2, <3>4, <4>3, <4>9
          <5>2. i \in Nat
            BY <1>2, <5>1
          <5>3. Before(c, i)' \in {"paused", "final"}
            BY <4>4, <5>1, <5>2
          <5> QED BY <4>2, <5>1, <5>3
        <4> QED BY <1>1, <2>4, <3>2, <4>5, <4>6, <4>7, <4>8, <4>9 DEF BoxOf
      <3> QED BY <3>3, <3>4
    <2>5. CASE d = c /\ client[c] \notin {"reading", "calling"}
      BY <1>1, <2>5 DEF BoxOf
    <2> QED BY <2>2, <2>3, <2>4, <2>5
  <1>10. AnsweredInFull'
    BY <1>1 DEF Inv, AnsweredInFull
  <1> QED BY <1>4, <1>5, <1>6, <1>7, <1>9, <1>10 DEF Inv

\* The invariant speaks of nothing but the variables.
LEMMA StutterInv ==
    ASSUME Inv, UNCHANGED vars
    PROVE  Inv'
  <1>1. UNCHANGED <<newRequests, finishedRequests, streams, event, box, client,
                    lastOutput, group, abortsLost, pool, forwards, apiCalls, pc,
                    batch, ignored, outputs, outputsAgain>>
    BY DEF vars, tracker, clients, engine, step
  <1>2. TypeOK'
    <2>1. event' \in BOOLEAN
      BY <1>1 DEF Inv, TypeOK
    <2> QED BY <1>1, <2>1 DEF Inv, TypeOK
  <1>3. FreshInv' /\ StreamInv'
    BY <1>1 DEF Inv, FreshInv, StreamInv, NoOrphanInEngine, Queued, Pending
  <1>4. OutputInv' /\ AnsweredInFull'
    BY <1>1 DEF Inv, OutputInv, AnsweredInFull, HasStream, Pending, PauseSent, Holds
  <1>5. BoxInv'
    BY <1>1 DEF Inv, BoxInv, BoxOf, PauseSent, Holds, Before
  <1> QED BY <1>2, <1>3, <1>4, <1>5 DEF Inv

\* Every handler of the clients and every step of the loop keeps the
\* invariant.
LEMMA NextInv ==
    ASSUME UniqueIds, Inv, [Next]_vars
    PROVE  Inv'
  <1>1. CASE UNCHANGED vars
    BY <1>1, StutterInv
  <1>2. ASSUME NEW b \in SUBSET Ready, NEW i \in SUBSET (Ready \cap TooLong),
               NEW copies \in BOOLEAN, StartStep(b, i, copies)
        PROVE  Inv'
    BY <1>2, StartStepInv
  <1>3. ASSUME NEW going \in SUBSET batch, NEW calling \in SUBSET batch,
               FinishWorkers(going, calling)
        PROVE  Inv'
    BY <1>3, FinishWorkersInv
  <1>4. ASSUME NEW c \in Calls, Deliver(c) \/ Die(c)
        PROVE  Inv'
    BY <1>4, DeliverInv, DieInv
  <1>5. ASSUME NEW c \in Calls, Client(c)
        PROVE  Inv'
    BY <1>5, GenerateInv, ReceiveInv, ReceiveErrorInv, CancelInv, LeaveInv,
       ResumeRequestInv DEF Client
  <1>6. ASSUME NEW refused \in Accepted, NEW added \in SUBSET Accepted,
               AddRequestRaises(refused, added)
        PROVE  Inv'
    BY <1>6, AddRequestRaisesInv
  <1>7. ASSUME NEW lost \in SUBSET Ready, ScheduleRaises(lost)
        PROVE  Inv'
    BY <1>7, ScheduleRaisesInv
  <1>8. CASE WorkersRaise
    BY <1>8, WorkersRaiseInv
  <1> QED BY <1>1, <1>2, <1>3, <1>4, <1>5, <1>6, <1>7, <1>8 DEF Next, Loop

\* The invariant holds in every state, when no two calls share an id.
LEMMA Invariant == ASSUME UniqueIds PROVE Spec => []Inv
  <1>1. Init => Inv
    BY InitInv
  <1>2. Inv /\ [Next]_vars => Inv'
    BY NextInv
  <1> QED BY <1>1, <1>2, PTL DEF Spec

-----------------------------------------------------------------------------
(* The theorems.                                                           *)

\* The tracker, the streams and the step in progress keep their types; the
\* outputs are pending exactly while the loop puts them into streams.
THEOREM AsyncTypeCorrect == ASSUME UniqueIds PROVE Spec => []TypeOK
  <1>1. Inv => TypeOK
    BY DEF Inv
  <1> QED BY <1>1, Invariant, PTL

\* The assertion of the servers, final_output is not None (api_server.py):
\* a stream that ends without an exception has given its last output.
THEOREM EndedStreamsAnswered == ASSUME UniqueIds PROVE Spec => []AnsweredInFull
  <1>1. Inv => AnsweredInFull
    BY DEF Inv
  <1> QED BY <1>1, Invariant, PTL

\* No client waits on a stream that is not registered and empty, and a paused
\* client finds its stream and its group: resume_request raises no error.
THEOREM ClientsHaveStreams == ASSUME UniqueIds PROVE Spec => []StreamsMatchClients
  <1>1. ASSUME Inv
        PROVE  StreamsMatchClients
    <2> SUFFICES ASSUME NEW c \in Calls
                 PROVE  /\ client[c] = "reading"
                              => c \in streams \cup newRequests \/ box[c] # <<>>
                        /\ client[c] = "calling" => c \in streams /\ group[c] = "paused"
                        /\ client[c] \in {"idle", "done", "failed", "gone"}
                              => c \notin streams
      BY DEF StreamsMatchClients
    <2>1. ASSUME client[c] = "reading", c \notin streams \cup newRequests
          PROVE  box[c] # <<>>
      <3>1. \E i \in 1 .. Len(box[c]) : TRUE
        BY <1>1, <2>1 DEF Inv, BoxInv, BoxOf, Holds
      <3>2. Len(<<>>) = 0
        OBVIOUS
      <3> QED BY <3>1, <3>2
    <2>2. client[c] = "calling" => c \in streams /\ group[c] = "paused"
      BY <1>1 DEF Inv, StreamInv
    <2>3. client[c] \in {"idle", "done", "failed", "gone"} => c \notin streams
      BY <1>1 DEF Inv, FreshInv, StreamInv
    <2> QED BY <2>1, <2>2, <2>3
  <1> QED BY <1>1, Invariant, PTL

\* The engine computes for nobody: a request it may schedule has a registered
\* stream, or is aborted by get_new_and_finished_requests before it can be.
THEOREM NobodyOrphaned == ASSUME UniqueIds PROVE Spec => []NoOrphanInEngine
  <1>1. Inv => NoOrphanInEngine
    BY DEF Inv, StreamInv
  <1> QED BY <1>1, Invariant, PTL

\* wait_for_new_requests never sleeps on a request: add_request and
\* resume_request_single set the event after what it announces.
\* The same holds already while the workers only copy blocks: the loop will
\* sleep after that step, and a client may come in between.
THEOREM LoopIsWoken == ASSUME UniqueIds PROVE Spec => []NoLostWakeup
  <1> DEFINE AboutToWait == pc = "waiting" \/ (pc = "executing" /\ batch = {})
             Woken == AboutToWait /\ ~event =>
                 newRequests = {} /\ (Queued = {} \/ Paused # {} \/ pool = "leaky")
  <1>1. Init => Woken
    BY DEF Init
  <1>2. ASSUME Inv, Woken, [Next]_vars
        PROVE  Woken'
    <2>1. CASE UNCHANGED vars
      BY <1>2, <2>1 DEF vars, tracker, engine, step, Queued, Paused
    <2>2. ASSUME NEW b \in SUBSET Ready, NEW i \in SUBSET (Ready \cap TooLong),
                 NEW copies \in BOOLEAN, StartStep(b, i, copies)
          PROVE  Woken'
      <3> SUFFICES ASSUME AboutToWait'
                   PROVE  /\ newRequests' = {}
                          /\ Queued' = {} \/ Paused' # {} \/ pool' = "leaky"
        OBVIOUS
      <3>1. /\ b = {} /\ newRequests' = {}
            /\ Ready = i \/ Paused # {} \/ pool' = "leaky"
        BY <2>2 DEF StartStep, TakeRequests
      <3>2. group' = [c \in Calls |-> IF c \in i THEN "done" ELSE GroupsAfterIntake[c]]
        BY <2>2 DEF StartStep
      <3>3. Queued' = Ready \ i
        BY <3>2 DEF Queued, Ready
      <3>4. \A c \in Paused : c \notin Accepted
        BY <1>2 DEF Inv, FreshInv, Paused, Accepted
      <3>5. Paused \subseteq Paused'
        BY <3>2, <3>4 DEF Paused, GroupsAfterIntake, Ready
      <3> QED BY <3>1, <3>3, <3>5
    <2>3. ASSUME NEW going \in SUBSET batch, NEW calling \in SUBSET batch,
                 FinishWorkers(going, calling)
          PROVE  Woken'
      BY <1>2, <2>3 DEF FinishWorkers, tracker, Queued, Paused
    <2>4. ASSUME NEW c \in Calls, Deliver(c) \/ Die(c)
          PROVE  Woken'
      BY <2>4 DEF Deliver, Die, IsNextOutput
    <2>5. ASSUME NEW c \in Calls, Generate(c) \/ ResumeRequest(c)
          PROVE  Woken'
      BY <2>5 DEF Generate, ResumeRequest
    <2>6. ASSUME NEW c \in Calls, Receive(c) \/ Leave(c)
          PROVE  Woken'
      BY <1>2, <2>6 DEF Receive, Leave, tracker, engine, step, Queued, Paused
    <2>7. ASSUME NEW c \in Calls, ReceiveError(c) \/ Cancel(c)
          PROVE  Woken'
      BY <1>2, <2>7 DEF ReceiveError, Cancel, engine, step, Queued, Paused
    <2>8. ASSUME pc' = "off"
          PROVE  Woken'
      BY <2>8
    <2>9. ASSUME NEW refused \in Accepted, NEW added \in SUBSET Accepted,
                 AddRequestRaises(refused, added)
          PROVE  pc' = "off"
      BY <2>9 DEF AddRequestRaises
    <2>10. ASSUME NEW lost \in SUBSET Ready, ScheduleRaises(lost) \/ WorkersRaise
           PROVE  pc' = "off"
      BY <2>10 DEF ScheduleRaises, WorkersRaise
    <2> QED BY <1>2, <2>1, <2>2, <2>3, <2>4, <2>5, <2>6, <2>7, <2>8, <2>9, <2>10
            DEF Next, Loop, Client
  <1>3. Woken => NoLostWakeup
    BY DEF NoLostWakeup
  <1> QED BY <1>1, <1>2, <1>3, Invariant, PTL DEF Spec

\* What ends run_engine_loop: an exception of the engine itself, or the
\* KeyError of process_request_output, for a request that was aborted while the
\* workers ran, for one whose abort an earlier exception swallowed, or for the
\* second output of an ignored request.
THEOREM DeathsExplained == ASSUME UniqueIds PROVE Spec => DeathExplained
  <1> DEFINE Explained == (pc # "off" /\ pc' = "off") =>
                \/ EngineMayRaise
                \/ \E c \in outputs : IdOf[c] \in finishedRequests \/ c \in abortsLost
                \/ outputs = {} /\ outputsAgain # {}
  <1>1. ASSUME Inv, [Next]_vars
        PROVE  Explained
    <2>1. ASSUME NEW c \in Calls, Die(c)
          PROVE  Explained
      <3>1. c \notin streams
        BY <2>1 DEF Die, Registered
      <3>2. c \in outputs \/ (outputs = {} /\ c \in outputsAgain)
        BY <2>1 DEF Die, IsNextOutput
      <3>3. c \in outputs => IdOf[c] \in finishedRequests \/ c \in abortsLost
        BY <1>1, <3>1 DEF Inv, OutputInv, HasStream, Pending
      <3> QED BY <3>2, <3>3
    <2>2. ASSUME NEW c \in Calls, Deliver(c) \/ Client(c)
          PROVE  pc' = "off" => pc = "off"
      BY <2>2 DEF Deliver, Client, Generate, Receive, ReceiveError, Cancel, Leave,
                  ResumeRequest
    <2>3. ASSUME NEW b \in SUBSET Ready, NEW i \in SUBSET (Ready \cap TooLong),
                 NEW copies \in BOOLEAN, StartStep(b, i, copies)
          PROVE  pc' # "off"
      BY <2>3 DEF StartStep
    <2>4. ASSUME NEW going \in SUBSET batch, NEW calling \in SUBSET batch,
                 FinishWorkers(going, calling)
          PROVE  pc' # "off"
      BY <2>4 DEF FinishWorkers
    <2>5. UNCHANGED vars => pc' = pc
      BY DEF vars
    <2>6. ASSUME NEW refused \in Accepted, NEW added \in SUBSET Accepted,
                 AddRequestRaises(refused, added)
          PROVE  EngineMayRaise
      BY <2>6 DEF AddRequestRaises, TakeRequests, EngineMayRaise
    <2>7. ASSUME NEW lost \in SUBSET Ready, ScheduleRaises(lost)
          PROVE  EngineMayRaise
      BY <2>7 DEF ScheduleRaises, TakeRequests, EngineMayRaise
    <2>8. ASSUME WorkersRaise
          PROVE  EngineMayRaise
      BY <2>8 DEF WorkersRaise, EngineMayRaise
    <2> QED BY <1>1, <2>1, <2>2, <2>3, <2>4, <2>5, <2>6, <2>7, <2>8 DEF Next, Loop
  <1>2. Inv /\ [Next]_vars => [Explained]_vars
    BY <1>1
  <1> QED BY <1>2, Invariant, PTL DEF Spec, DeathExplained

-----------------------------------------------------------------------------
(* Where no cause can arise.                                               *)

\* What the engine and the deployment must promise: no step of the engine
\* raises, the workers run inside the loop, and no request exceeds the limit
\* of the scheduler.
NoCause ==
    /\ MayRefuse = {} /\ MayRaise = {}
    /\ ~WorkerUseRay
    /\ TooLong = {}

\* No abort is outstanding for an output of the step, and none was lost.
QuietInv ==
    /\ ignored = {} /\ outputsAgain = {} /\ abortsLost = {}
    /\ pc = "executing" => \A c \in batch : ~Pending(c)
    /\ \A c \in outputs : ~Pending(c)

\* Without the causes of its death the loop stays alive.
LEMMA QuietStep ==
    ASSUME UniqueIds, NoCause, Inv, QuietInv, [Next]_vars
    PROVE  QuietInv' /\ (pc # "off" => pc' # "off")
  <1>1. CASE UNCHANGED vars
    BY <1>1 DEF vars, tracker, engine, step, QuietInv, Pending
  <1>2. ASSUME NEW b \in SUBSET Ready, NEW i \in SUBSET (Ready \cap TooLong),
               NEW copies \in BOOLEAN, StartStep(b, i, copies)
        PROVE  QuietInv' /\ pc' # "off"
    <2>1. i = {}
      BY DEF NoCause
    <2>2. /\ finishedRequests' = {} /\ ignored' = {} /\ outputs' = {}
          /\ UNCHANGED <<abortsLost, outputsAgain>> /\ pc' # "off"
      BY <1>2, <2>1 DEF StartStep, TakeRequests
    <2> QED BY <2>2 DEF QuietInv, Pending
  <1>3. ASSUME NEW going \in SUBSET batch, NEW calling \in SUBSET batch,
               FinishWorkers(going, calling)
        PROVE  QuietInv' /\ pc' # "off"
    BY <1>3 DEF FinishWorkers, tracker, QuietInv, Pending
  <1>4. ASSUME NEW c \in Calls, Deliver(c)
        PROVE  QuietInv' /\ pc' # "off"
    <2>1. /\ outputs' = outputs \ {c} /\ outputsAgain' \subseteq outputsAgain
          /\ ignored' = ignored /\ abortsLost' = abortsLost
          /\ pc' \in {"yielding", "delivering"}
          /\ PutOutput(c, c)
      BY <1>4, DeliverFacts
    <2>2. \A d \in outputs' : d \in Calls /\ ~Pending(d)'
      BY <2>1 DEF Inv, TypeOK, QuietInv, PutOutput, Pending, UniqueIds
    <2> QED BY <2>1, <2>2 DEF QuietInv
  <1>5. ASSUME NEW c \in Calls, Die(c)
        PROVE  FALSE
    <2>1. c \notin streams /\ c \in outputs
      BY <1>5 DEF Die, Registered, IsNextOutput, QuietInv
    <2> QED BY <2>1 DEF Inv, OutputInv, HasStream, QuietInv
  <1>6. ASSUME NEW c \in Calls, Client(c)
        PROVE  QuietInv' /\ (pc # "off" => pc' # "off")
    <2>1. pc \notin {"executing", "delivering"}
      BY <1>6 DEF Client, Generate, Receive, ReceiveError, Cancel, Leave,
                  ResumeRequest, ClientsRun, NoCause
    <2>2. /\ pc' \notin {"executing", "delivering"} /\ (pc # "off" => pc' # "off")
          /\ UNCHANGED <<abortsLost, step>>
      BY <1>6, <2>1 DEF Client, Generate, Receive, ReceiveError, Cancel, Leave,
                        ResumeRequest, engine
    <2>3. outputs = {}
      BY <2>1 DEF Inv, TypeOK
    <2> QED BY <2>2, <2>3 DEF step, QuietInv
  <1>7. ASSUME NEW refused \in Accepted, NEW added \in SUBSET Accepted,
               AddRequestRaises(refused, added)
        PROVE  FALSE
    BY <1>7 DEF AddRequestRaises, NoCause
  <1>8. ASSUME NEW lost \in SUBSET Ready, ScheduleRaises(lost) \/ WorkersRaise
        PROVE  FALSE
    BY <1>8 DEF ScheduleRaises, WorkersRaise, NoCause
  <1> QED BY <1>1, <1>2, <1>3, <1>4, <1>5, <1>6, <1>7, <1>8 DEF Next, Loop

\* "Task finished unexpectedly. This should never happen!" is true where the
\* engine raises nothing, the workers run inside the loop, so that no client
\* runs between schedule() and the outputs, and no request exceeds the
\* scheduler's limit.  For schedule() SchedulerV2Proofs gives conditions under
\* which it does not raise (SafeWithoutSwaps, VictimsHold).
THEOREM LoopSafe ==
    ASSUME UniqueIds, NoCause
    PROVE  Spec => LoopNeverDies
  <1> DEFINE Alive == pc # "off" => pc' # "off"
  <1>1. Init => QuietInv
    BY DEF Init, QuietInv
  <1>2. Inv /\ QuietInv /\ [Next]_vars => QuietInv'
    BY QuietStep
  <1>3. Inv /\ QuietInv /\ [Next]_vars => [Alive]_vars
    BY QuietStep
  <1> QED BY <1>1, <1>2, <1>3, Invariant, PTL DEF Spec, LoopNeverDies
=============================================================================
