--------------------------- MODULE SchedulerV2MC ---------------------------
(* Constants for model checking SchedulerV2.                               *)
EXTENDS SchedulerV2

PromptLive == <<2, 3, 12>>
PromptSmall == <<1, 2, 2>>
PromptShort == <<1, 1, 2>>
PromptLoss == <<1, 3, 2>>

Class(s, w) == [strategy |-> s, waste |-> w]

\* preserve, or give up the GPU blocks in favour of a request of more waste
ClassesAll == {Class("preserve", 1), Class("swap", 0), Class("recompute", 0)}
ClassesSwap == {Class("preserve", 1), Class("swap", 0)}
\* requests that keep their blocks whether or not theirs is the largest waste
ClassesHold == ClassesSwap \cup {Class("preserve", 0)}

\* The class is read while the request is paused, and after its last API call
\* it never is again.
LastingClass ==
    [r \in Reqs |-> IF calls[r] = MaxCalls /\ mode[r] = "none"
                    THEN Class("preserve", 0) ELSE class[r]]

\* What the behaviour from here on depends on
View == <<LastingClass, calls, len, aborted, data, memory, queues, pass, evicting, pc>>
=============================================================================
